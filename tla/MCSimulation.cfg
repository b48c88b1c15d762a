\* Three orders of a user that overlap, two seedings, an answer that is lost, a late COMMIT, checks for drift.
SPECIFICATION DriftSpec
CONSTANTS
  MaxInt4 = 20
  Instruments <- MCInstruments
  Unlearnt = Unlearnt
  NoExecution = NoExecution
  Users = {1}
  Rosters <- MCRosters
  Menu <- MCMenu
  Slots = {s1, s2, s3}
  Close <- MCClose
  Opening <- MCOpening
  NoOrder = NoOrder
  NoReservation = NoReservation
  MaxGenerations = 2
  MaxLosses = 1
  Mishaps = {"overtaken","reset","late"}
  DRIFT_EVERY_ORDERS = 1
  NoCheck = NoCheck
SYMMETRY Symmetric
CHECK_DEADLOCK FALSE
INVARIANTS
  BooksBalance
  ShadowIsRight
  RefusalsHold
  OnlyUnforeseenFillsSpoil
  DriftIsEvidence
