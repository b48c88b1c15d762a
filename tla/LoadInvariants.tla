--------------------------- MODULE LoadInvariants ---------------------------
(***************************************************************************)
(* What a load run checks when it is over (src/tools/src/load/invariants.  *)
(* ts): five invariants, each a predicate on the evidence it is given.     *)
(* Rows are a function from the ids of the orders of the run's users, in   *)
(* whose order they were stored; money is in centavos, and the wording of  *)
(* a breach is left out.                                                   *)
(***************************************************************************)
EXTENDS Integers, Functions, FiniteSets

cashDelta(row) ==
  IF row.status # "FILLED" THEN 0
  ELSE IF row.side \in {"CASH_IN", "SELL"} THEN row.price * row.size
  ELSE IF row.side \in {"CASH_OUT", "BUY"} THEN -(row.price * row.size)
  ELSE 0

shareDelta(row) ==
  IF row.status # "FILLED" THEN 0
  ELSE IF row.side = "BUY" THEN row.size
  ELSE IF row.side = "SELL" THEN -row.size
  ELSE 0

cashFold(rows, ids) == SumFunction([id \in ids |-> cashDelta(rows[id])])
shareFold(rows, ids) == SumFunction([id \in ids |-> shareDelta(rows[id])])

Owners(rows) == {rows[id].userId : id \in DOMAIN rows}
OwnedBy(rows, user) == {id \in DOMAIN rows : rows[id].userId = user}
Position(rows, user, instrument) ==
  {id \in OwnedBy(rows, user) : rows[id].instrumentId = instrument}
Upto(ids, last) == {id \in ids : id <= last}

-----------------------------------------------------------------------------
(***************************************************************************)
(* conservation: the balance the API reported is the fold of the rows, and *)
(* so is the shadow's, for the users whose balances can be compared, which *)
(* are the ones in the domains of apiCash and shadowCash.                  *)
(***************************************************************************)
conservation(rows, apiCash, shadowCash) ==
  \A user \in Owners(rows) \cap DOMAIN apiCash :
    LET db == cashFold(rows, OwnedBy(rows, user)) IN
    /\ apiCash[user] = db
    /\ user \in DOMAIN shadowCash => shadowCash[user] = db

noOverdraft(rows) ==
  \A id \in DOMAIN rows : cashFold(rows, Upto(OwnedBy(rows, rows[id].userId), id)) >= 0

(***************************************************************************)
(* noOversell: no position goes under the lowest it had been before the    *)
(* run, which is nothing at all at first.                                  *)
(***************************************************************************)
Floors(rows, position, highWaterMark) ==
  {shareFold(rows, Upto(position, id)) : id \in 0 .. highWaterMark}

HoldsUp(rows, user, instrument, highWaterMark, shares) ==
  \E floor \in Floors(rows, Position(rows, user, instrument), highWaterMark) : shares >= floor

noOversell(rows, highWaterMark) ==
  \A id \in DOMAIN rows :
    LET user == rows[id].userId  instrument == rows[id].instrumentId IN
    id > highWaterMark =>
      HoldsUp(rows, user, instrument, highWaterMark,
              shareFold(rows, Upto(Position(rows, user, instrument), id)))

-----------------------------------------------------------------------------
(***************************************************************************)
(* responseDbAgreement: every answered order is stored as it was answered, *)
(* and no more rows were never answered for than calls went unanswered.    *)
(***************************************************************************)
agrees(id, row, placement, cancelled) ==
  \/ row.status = placement.status
  \/ /\ placement.status = "NEW"
     /\ row.status = "CANCELLED"
     /\ id \in cancelled

Unmatched(rows, highWaterMark, acknowledged) ==
  {id \in DOMAIN rows : id > highWaterMark /\ id \notin acknowledged}

responseDbAgreement(placements, rows, highWaterMark, acknowledged, unanswered, cancelled) ==
  /\ \A placement \in placements :
       LET id == placement.orderId IN
       /\ id \in DOMAIN rows
       /\ agrees(id, rows[id], placement, cancelled)
       /\ rows[id].size = placement.size
       /\ rows[id].price = placement.price
  /\ Cardinality(Unmatched(rows, highWaterMark, acknowledged)) <= unanswered

(* A mutant of cancelSafety: that the order is there is enough.            *)
cancelledAreHeld(rows, cancelled) == cancelled \subseteq DOMAIN rows

cancelSafety(rows, cancelled) ==
  LET standing == {id \in DOMAIN rows : rows[id].status # "CANCELLED"} IN
  /\ \A id \in cancelled : id \in DOMAIN rows /\ rows[id].status = "CANCELLED"
  /\ cashFold(rows, DOMAIN rows) = cashFold(rows, standing)
  /\ shareFold(rows, DOMAIN rows) = shareFold(rows, standing)

(* checkInvariants: the names of the invariants that do not hold.          *)
checkInvariants(e) ==
  { name \in {"conservation", "no_overdraft", "no_oversell",
              "response_db_agreement", "cancel_safety"} :
      ~ CASE name = "conservation" -> conservation(e.rows, e.apiCash, e.shadowCash)
          [] name = "no_overdraft" -> noOverdraft(e.rows)
          [] name = "no_oversell" -> noOversell(e.rows, e.highWaterMark)
          [] name = "response_db_agreement" ->
               responseDbAgreement(e.placements, e.rows, e.highWaterMark,
                                   e.acknowledged, e.unanswered, e.cancelled)
          [] name = "cancel_safety" -> cancelSafety(e.rows, e.cancelled) }
=============================================================================
