---------------------------- MODULE AtomicOrders ----------------------------
(***************************************************************************)
(* What the orders API promises, with every request atomic: a placement    *)
(* appends one row that was decided on the balances of that very moment,   *)
(* under a key its user had never spent; a cancellation moves one row out  *)
(* of NEW.  No locks, transactions, pools or answers: module Placement has *)
(* them and is shown to implement this one.                                *)
(***************************************************************************)
EXTENDS OrderPromises

vars == <<orders>>

Init == orders = SeedOrders

Place(id, body, key, close) ==
  /\ Tradable(body)
  /\ sizeOf(body, close) # NoSize
  /\ ~ KeyTaken(orders, body.userId, key)
  /\ \A n \in 1..Len(orders) : orders[n].id # id
  /\ orders' = Append(orders,
                 RowOf(id, body, key, close,
                       AvailableCash(orders, body.userId),
                       HeldShares(orders, body.userId, body.instrumentId)))

Cancel(n) ==
  /\ orders[n].status \in CANCELLABLE
  /\ orders' = [orders EXCEPT ![n].status = "CANCELLED"]

Next ==
  \/ \E id \in Ids, body \in Bodies, key \in Keys, close \in Prices :
       Place(id, body, key, close)
  \/ \E n \in 1..Len(orders) : Cancel(n)

Spec == Init /\ [][Next]_vars
-----------------------------------------------------------------------------
TypeOK == orders \in Seq(Rows)
=============================================================================
