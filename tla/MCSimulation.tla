---------------------------- MODULE MCSimulation ----------------------------
(***************************************************************************)
(* Small instances of Drift, and so of Simulation.  Stock 1 trades at 2    *)
(* and stock 2 at 1; user 1 has 4 centavos, which cover each purchase and  *)
(* not both, and a share of stock 1, whose sale makes up for a purchase.   *)
(***************************************************************************)
EXTENDS Drift, TLC

MCInstruments == {1, 2}
MCClose == <<2, 1>>
MCOpening == [u \in Users |-> [cash |-> 4, shares |-> <<1, 0>>]]
MCRosters == {{u} : u \in Users} \cup {Users}

Order(user, instrument, side, size) ==
  [ userId |-> user, instrumentId |-> instrument, side |-> side, size |-> size,
    type |-> "MARKET", price |-> Absent ]

MCMenu == {Order(1, 1, "BUY", 1), Order(1, 1, "SELL", 1), Order(1, 2, "BUY", 3)}

Symmetric == Permutations(Slots)
=============================================================================
