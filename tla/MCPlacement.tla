---------------------------- MODULE MCPlacement -----------------------------
(***************************************************************************)
(* Small instances of Placement.  Instrument 1 is a stock, instrument 2    *)
(* the currency.  User 1 starts with 3 centavos, 1 share, and a NEW order  *)
(* to cancel; the stock trades at 1 or 2.                                  *)
(***************************************************************************)
EXTENDS Placement, TLC

MCInstruments == {1, 2}
MCCurrency == {2}
MCPrices == {1, 2}

Seeded(id, user, instrument, side, size, price, type, status) ==
  [ id |-> id, userId |-> user, instrumentId |-> instrument, side |-> side,
    size |-> size, price |-> price, type |-> type, status |-> status,
    key |-> NoKey ]

MCSeedOrders ==
  << Seeded(1, 1, 2, "CASH_IN", 4, 1, "MARKET", "FILLED"),
     Seeded(2, 1, 1, "BUY", 1, 1, "MARKET", "FILLED"),
     Seeded(3, 1, 1, "BUY", 9, 1, "LIMIT", "NEW") >>

MCQuotes == { [i \in MCInstruments |-> IF i = 1 THEN p ELSE NoClose] : p \in MCPrices }

Order(user, instrument, side, type, size, amount, price) ==
  [ userId |-> user, instrumentId |-> instrument, side |-> side, type |-> type,
    size |-> size, amount |-> amount, price |-> price ]

Buy    == Order(1, 1, "BUY", "MARKET", 2, Absent, Absent)
Sell   == Order(1, 1, "SELL", "MARKET", 1, Absent, Absent)
Bid    == Order(1, 1, "BUY", "LIMIT", 1, Absent, 2)

SafetyBodies == {Buy, Sell, Bid}
RetryBodies  == {Buy, Bid}
CancelBodies == {Buy}

OneQuote == { [i \in MCInstruments |-> IF i = 1 THEN 1 ELSE NoClose] }

(***************************************************************************)
(* The wide instance: instrument 3 and user 3 do not exist, the stock may  *)
(* lose its market data, and the column takes at most 3 shares.            *)
(***************************************************************************)
WideQuotes ==
  { [i \in MCInstruments |-> IF i = 1 THEN p ELSE NoClose] : p \in {2, NoClose} }

WideSeed ==
  << Seeded(1, 1, 2, "CASH_IN", 2, 2, "MARKET", "FILLED"),
     Seeded(2, 2, 1, "SELL", 1, 1, "MARKET", "FILLED") >>

WideBodies ==
  { Order(1, 1, "BUY", "MARKET", Absent, 3, Absent),
    Order(2, 1, "BUY", "LIMIT", Absent, 8, 1),
    Order(3, 1, "BUY", "MARKET", 1, Absent, Absent),
    Order(1, 2, "BUY", "MARKET", 1, Absent, Absent),
    Order(1, 3, "BUY", "MARKET", 1, Absent, Absent) }

Symmetric == {f @@ g : f \in Permutations(Requests), g \in Permutations(Cancels)}
=============================================================================
