\* Three placements of one user race each other for the same balance, under
\* two keys, on two connections, while the market moves and the process may die.
SPECIFICATION Spec
CONSTANTS
  MaxInt4 = 20
  Users = {1}
  Instruments <- MCInstruments
  Currency <- MCCurrency
  Keys = {k1, k2}
  Bodies <- SafetyBodies
  LastId = 6
  Prices <- MCPrices
  SeedOrders <- MCSeedOrders
  NoKey = NoKey
  Requests = {r1, r2, r3}
  Cancels = {}
  PoolSize = 2
  Quotes <- MCQuotes
  NoClose = NoClose
  NoRow = NoRow
  NoHolder = NoHolder
  MaxCrashes = 1
SYMMETRY Symmetric
INVARIANTS
  NoOverdraft
  BackstopNeverFires
  DecidedOnCurrentBalances
  IdsFollowCommits
  AnswersNameOneOrder
  StoredAsAnswered
