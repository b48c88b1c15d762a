\* Two placements race for the cash while two cancellations race for a NEW order.
SPECIFICATION Spec
CONSTANTS
  MaxInt4 = 20
  Users = {1}
  Instruments <- MCInstruments
  Currency <- MCCurrency
  Keys = {k1, k2}
  Bodies <- CancelBodies
  LastId = 5
  Prices <- MCPrices
  SeedOrders <- MCSeedOrders
  NoKey = NoKey
  Requests = {r1, r2}
  Cancels = {c1, c2}
  PoolSize = 2
  Quotes <- OneQuote
  NoClose = NoClose
  NoRow = NoRow
  NoHolder = NoHolder
  MaxCrashes = 0
SYMMETRY Symmetric
INVARIANTS
  CancelledOnce
PROPERTIES
  BalancesMoveUnderTheLock
  ImplementsAtomicOrders
