\* The comment on start(), against a start that a load run or the operator's next call overlaps.
SPECIFICATION Spec
CONSTANTS
  Senders = {"loop", "load"}
  DefaultUsers <- MCDefaultUsers
  Rosters <- MCRosters
  LoadUsers <- MCLoadUsers
  LoadOrders = 1
  MaxOperations = 2
  MaxLoads = 1
  MaxCalls = 1
  MaxTrouble = 0
CHECK_DEADLOCK FALSE
INVARIANTS
  NoTickReadsAHalfBuiltShadow
