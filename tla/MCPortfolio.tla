---------------------------- MODULE MCPortfolio -----------------------------
(***************************************************************************)
(* Small instances of Portfolio.  Instruments 1 and 2 are stocks, 3 the    *)
(* currency; user 1 starts with 10 centavos, 3 shares bought dear and a    *)
(* short position.                                                         *)
(***************************************************************************)
EXTENDS Portfolio

MCInstruments == {1, 2, 3}
MCCurrency == {3}
MCPrices == {1, 2, 6}

Seeded(id, user1, instrument, side, size, price, type, status) ==
  [ id |-> id, userId |-> user1, instrumentId |-> instrument, side |-> side,
    size |-> size, price |-> price, type |-> type, status |-> status,
    key |-> NoKey ]

MCSeedOrders ==
  << Seeded(1, 1, 3, "CASH_IN", 4, 9, "MARKET", "FILLED"),
     Seeded(2, 1, 1, "BUY", 3, 9, "MARKET", "FILLED"),
     Seeded(3, 1, 2, "SELL", 1, 1, "MARKET", "FILLED") >>

Order(instrument, side, type, size, price) ==
  [ userId |-> 1, instrumentId |-> instrument, side |-> side, type |-> type,
    size |-> size, amount |-> Absent, price |-> price ]

MCBodies ==
  { Order(1, "BUY", "MARKET", 1, Absent), Order(1, "SELL", "MARKET", 2, Absent),
    Order(2, "BUY", "MARKET", 3, Absent), Order(2, "BUY", "LIMIT", 1, 1) }

(***************************************************************************)
(* A market that moves and loses the price of stock 2 on the way.          *)
(***************************************************************************)
Market(first, second) ==
  [i \in MCInstruments |->
     IF i = 1 THEN first ELSE IF i = 2 THEN second ELSE NoClose]

MovingMarket == {Market(1, 2), Market(6, NoClose)}
=============================================================================
