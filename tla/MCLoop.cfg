\* Two operations of the operator in any order, an order of the loop, a load run of one, one thing that fails.
SPECIFICATION Spec
CONSTANTS
  Senders = {"loop", "load"}
  DefaultUsers <- MCDefaultUsers
  Rosters <- MCRosters
  LoadUsers <- MCLoadUsers
  LoadOrders = 1
  MaxOperations = 2
  MaxLoads = 1
  MaxCalls = 1
  MaxTrouble = 1
CHECK_DEADLOCK FALSE
INVARIANTS
  SeedsAreUndisturbed
  LoopIsAsItSays
  OpenRunsHaveOwners
  WindowsAreWhole
PROPERTIES
  NothingAfterTheEnd
  LoadEnds
