\* What the abstract orders API guarantees of its table.  It stops when every
\* id and key is spent.
SPECIFICATION Spec
CONSTANTS
  MaxInt4 = 3
  Users = {1, 2}
  Instruments <- MCInstruments
  Currency <- MCCurrency
  Keys = {k1, k2}
  Bodies <- MCBodies
  LastId = 5
  Prices <- MCPrices
  SeedOrders <- MCSeedOrders
  NoKey = NoKey
INVARIANTS
  NoOversell
  OneRowPerKey
PROPERTIES
  HistoryStands
CHECK_DEADLOCK FALSE
