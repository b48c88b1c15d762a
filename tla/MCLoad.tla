------------------------------- MODULE MCLoad -------------------------------
(***************************************************************************)
(* Small instances of Load: one user with 4 centavos whom the seed leaves a *)
(* share short of a stock that trades at 2, beside another it never held.  *)
(***************************************************************************)
EXTENDS Load, TLC

MCInstruments == {31, 32}
MCTradable == <<31, 32>>
MCClose == [i \in MCInstruments |-> 2]

Seeded(side, size, price) ==
  [ call |-> Null, userId |-> 1, instrumentId |-> 31, side |-> side,
    size |-> size, price |-> price, status |-> "FILLED" ]

MCSeedRows == << Seeded("CASH_IN", 3, 1), Seeded("SELL", 1, 1) >>

MCOpening ==
  [u \in Users |-> [cash   |-> cashFold(MCSeedRows, DOMAIN MCSeedRows),
                    shares |-> [i \in MCInstruments |->
                                  shareFold(MCSeedRows, Position(MCSeedRows, u, i))]]]

Profile(mode, concurrency, totalOrders, period) ==
  [ mode |-> mode, concurrency |-> concurrency, totalOrders |-> totalOrders,
    users |-> <<1>>, period |-> period, sameInstrument |-> mode = "contention" ]

MCProfiles ==
  {Profile("contention", 1, 2, 2), Profile("burst", 2, 2, 0), Profile("ramp", 2, 2, 0)}

Order(side, size) ==
  [ userId |-> 1, instrumentId |-> 31, side |-> side, size |-> size, type |-> "MARKET",
    price |-> Absent ]

MCLoopOrders == {Order("BUY", 1)}

MCMenu ==
  MCLoopOrders \cup {stepAt(profile, index - 1).order : profile \in MCProfiles, index \in Own}

MCRosters == {Users}
=============================================================================
