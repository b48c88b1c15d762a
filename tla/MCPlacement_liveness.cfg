\* Two users, an unknown one, a currency, an unknown instrument, a stock that may
\* lose its price, amounts that buy too many shares; one connection and a crash.
SPECIFICATION Spec
CONSTANTS
  MaxInt4 = 3
  Users = {1, 2}
  Instruments <- MCInstruments
  Currency <- MCCurrency
  Keys = {k1}
  Bodies <- WideBodies
  LastId = 4
  Prices <- MCPrices
  SeedOrders <- WideSeed
  NoKey = NoKey
  Requests = {r1, r2}
  Cancels = {c1}
  PoolSize = 1
  Quotes <- WideQuotes
  NoClose = NoClose
  NoRow = NoRow
  NoHolder = NoHolder
  MaxCrashes = 1
INVARIANTS
  TypeOK
PROPERTIES
  EveryRequestAnswered
