\* The market moves, or not yet, while orders fill and are cancelled.
SPECIFICATION Spec
CONSTANTS
  MaxInt4 = 4
  Users = {1}
  Instruments <- MCInstruments
  Currency <- MCCurrency
  Keys = {k1, k2}
  Bodies <- MCBodies
  LastId = 5
  Prices <- MCPrices
  SeedOrders <- MCSeedOrders
  NoKey = NoKey
  Readers = {q1}
  Asked = {1, 2}
  Quotes <- MovingMarket
  NoClose = NoClose
  NoSnapshot = NoSnapshot
  NoPrice = NoPrice
INVARIANTS
  AnswerIsOfOneInstant
  ReturnsAgree
