\* A run of two steps beside an order of the loop; what goes wrong goes wrong twice at most.
SPECIFICATION LoadSpec
CONSTANTS
  MaxInt4 = 20
  ATTEMPTS_CAPACITY = 3
  Instruments <- MCInstruments
  Unlearnt = Unlearnt
  NoExecution = NoExecution
  Users = {1}
  Rosters <- MCRosters
  Menu <- MCMenu
  LoopUsers = {1}
  LoopOrders <- MCLoopOrders
  Own = {1, 2}
  Slots = {1, 2, o1}
  Close <- MCClose
  Opening <- MCOpening
  NoOrder = NoOrder
  NoReservation = NoReservation
  MaxGenerations = 2
  MaxLosses = 1
  Mishaps = {"overtaken", "late", "reset", "overlap"}
  Profiles <- MCProfiles
  SeedRows <- MCSeedRows
  HOT_INSTRUMENT = 31
  TRADABLE_INSTRUMENTS <- MCTradable
  LIMIT_PRICE = 1
  Faults = {"overspend", "forget", "invent", "miscancel"}
  MaxTrouble = 2
  Null = Null
CHECK_DEADLOCK FALSE
INVARIANTS
  LoadTypeOK
  NobodyIsWronglyAccused
  FaultsAreFound
