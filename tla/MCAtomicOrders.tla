--------------------------- MODULE MCAtomicOrders ---------------------------
(***************************************************************************)
(* A small instance of AtomicOrders: two users, one of them short of the   *)
(* stock, every order a body can become, up to the last id; 3 shares are   *)
(* as many as the column takes.                                            *)
(***************************************************************************)
EXTENDS AtomicOrders

MCInstruments == {1, 2}
MCCurrency == {2}
MCPrices == {1, 2}

Seeded(id, user, instrument, side, size, price, type, status) ==
  [ id |-> id, userId |-> user, instrumentId |-> instrument, side |-> side,
    size |-> size, price |-> price, type |-> type, status |-> status,
    key |-> NoKey ]

MCSeedOrders ==
  << Seeded(1, 1, 2, "CASH_IN", 2, 2, "MARKET", "FILLED"),
     Seeded(2, 2, 1, "SELL", 1, 1, "MARKET", "FILLED") >>

Order(user, side, type, size, amount, price) ==
  [ userId |-> user, instrumentId |-> 1, side |-> side, type |-> type,
    size |-> size, amount |-> amount, price |-> price ]

MCBodies ==
  { Order(1, "BUY", "MARKET", 2, Absent, Absent),
    Order(1, "BUY", "LIMIT", Absent, 3, 2),
    Order(1, "SELL", "MARKET", 1, Absent, Absent),
    Order(2, "BUY", "LIMIT", Absent, 8, 2),
    Order(2, "SELL", "MARKET", 1, Absent, Absent),
    Order(2, "BUY", "MARKET", Absent, 2, Absent) }
=============================================================================
