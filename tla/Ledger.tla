------------------------------- MODULE Ledger -------------------------------
(***************************************************************************)
(* The orders table read as a ledger.  Rows are kept in the order in which *)
(* they were committed, and balances are the folds of the views in         *)
(* src/db/init.sql: nothing else in the system stores a balance.           *)
(***************************************************************************)
EXTENDS Integers, Sequences

(***************************************************************************)
(* SUM over a column: the running total of a sequence of integers.         *)
(***************************************************************************)
Total(d) ==
  LET sum[i \in 0..Len(d)] == IF i = 0 THEN 0 ELSE sum[i - 1] + d[i]
  IN  sum[Len(d)]

(***************************************************************************)
(* What one row adds to a user's cash, and to a user's shares of one       *)
(* instrument.  Only FILLED rows count; transfers are cash and no shares.  *)
(***************************************************************************)
CashDelta(row, user) ==
  IF row.userId = user /\ row.status = "FILLED"
  THEN IF row.side \in {"CASH_IN", "SELL"} THEN row.price * row.size
                                           ELSE -(row.price * row.size)
  ELSE 0

ShareDelta(row, user, instrument) ==
  IF /\ row.userId = user
     /\ row.instrumentId = instrument
     /\ row.status = "FILLED"
     /\ row.side \in {"BUY", "SELL"}
  THEN IF row.side = "BUY" THEN row.size ELSE -row.size
  ELSE 0

AvailableCash(rows, user) ==
  Total([n \in 1..Len(rows) |-> CashDelta(rows[n], user)])

HeldShares(rows, user, instrument) ==
  Total([n \in 1..Len(rows) |-> ShareDelta(rows[n], user, instrument)])


(* Mutant of KeyTaken: a key is only spent on an order that executed.      *)
keyFilled(rows, user, key) ==
  \E n \in 1..Len(rows) :
    rows[n].userId = user /\ rows[n].key = key /\ rows[n].status = "FILLED"

(***************************************************************************)
(* orders_userid_idempotencykey_key: the rows of one user under one key.   *)
(***************************************************************************)
KeyTaken(rows, user, key) ==
  \E n \in 1..Len(rows) : rows[n].userId = user /\ rows[n].key = key

WithKey(rows, user, key) ==
  rows[CHOOSE n \in 1..Len(rows) : rows[n].userId = user /\ rows[n].key = key]
=============================================================================
