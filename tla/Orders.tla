------------------------------- MODULE Orders -------------------------------
(***************************************************************************)
(* The orders table and its neighbours as the API uses them: what a row is, *)
(* what a placement body is, the row a body becomes, and what it means for *)
(* the rows of the table to be sound.                                      *)
(***************************************************************************)
EXTENDS OrderRules, Ledger

CONSTANTS
  Users,          \* rows of table users
  Instruments,    \* rows of table instruments
  Currency,       \* the instruments of type MONEDA
  Keys,           \* idempotency keys clients invent
  Bodies,         \* placement bodies that passed the ValidationPipe
  LastId,         \* the last value of the SERIAL behind orders.id
  Prices,         \* closes an instrument can have, in centavos
  SeedOrders,     \* the rows db/init.sql leaves
  NoKey           \* the NULL idempotency key of a seeded row

Ids == 1..LastId

Sides == SIDES \cup {"CASH_IN", "CASH_OUT"}

Rows ==
  [ id : Ids, userId : Users, instrumentId : Instruments, side : Sides,
    size : 1..MaxInt4, price : Nat, type : ORDER_TYPES, status : ORDER_STATUSES,
    key : Keys \cup {NoKey} ]

ASSUME OrdersAssumption ==
  /\ Currency \subseteq Instruments
  /\ NoKey \notin Keys
  /\ LastId \in Nat
  /\ Prices \subseteq Nat
  /\ SeedOrders \in Seq(Rows)
  /\ \A m, n \in 1..Len(SeedOrders) :
       SeedOrders[m].id = SeedOrders[n].id => m = n
  /\ \A n \in 1..Len(SeedOrders) : SeedOrders[n].key = NoKey
  /\ \A b \in Bodies :
       /\ b.side \in SIDES /\ b.type \in ORDER_TYPES
       /\ b.size \in 0..MaxInt4 /\ b.amount \in Nat /\ b.price \in Nat
       /\ (b.type = "LIMIT") <=> (b.price # Absent)

(***************************************************************************)
(* The row a body becomes: its size from the LIMIT price or the close, its *)
(* status from the balances it is given.                                   *)
(***************************************************************************)
sizeOf(body, close) ==
  resolveSize(body.size, body.amount,
              IF body.price # Absent THEN body.price ELSE close)

RowOf(id, body, key, close, cash, shares) ==
  LET size     == sizeOf(body, close)
      decision == decide(body, size, close, cash, shares)
  IN  [ id |-> id, userId |-> body.userId, instrumentId |-> body.instrumentId,
        side |-> body.side, size |-> size, price |-> decision.price,
        type |-> body.type, status |-> decision.status, key |-> key ]

Tradable(body) ==
  /\ body.userId \in Users
  /\ body.instrumentId \in Instruments \ Currency

(***************************************************************************)
(* The ::int cast of view holdings: a net outside int4 fails the query.    *)
(***************************************************************************)
FitsInt4(n) == n >= -(MaxInt4 + 1) /\ n <= MaxInt4

-----------------------------------------------------------------------------
(***************************************************************************)
(* Sound balances: no user below zero, in cash or in any instrument, nor   *)
(* below the floor the seed left them at if that was already negative.     *)
(***************************************************************************)
Floor(seeded) == IF seeded < 0 THEN seeded ELSE 0

Solvent(rows) ==
  \A u \in Users :
    AvailableCash(rows, u) >= Floor(AvailableCash(SeedOrders, u))

Covered(rows) ==
  \A u \in Users, i \in Instruments :
    HeldShares(rows, u, i) >= Floor(HeldShares(SeedOrders, u, i))

UniqueKeys(rows) ==
  \A m, n \in 1..Len(rows) :
    /\ rows[m].key \in Keys
    /\ rows[m].key = rows[n].key
    /\ rows[m].userId = rows[n].userId
    => m = n

(***************************************************************************)
(* What may become of a stored row: nothing, but for the one transition.   *)
(***************************************************************************)
OnlyCancels(old, new) ==
  \/ new = old
  \/ /\ old.status = "NEW"
     /\ new = [old EXCEPT !.status = "CANCELLED"]
=============================================================================
