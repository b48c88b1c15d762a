--------------------------- MODULE PlacementProofs ---------------------------
(***************************************************************************)
(* The placement protocol is correct for any number of requests, users,    *)
(* connections and crashes.                                                *)
(*                                                                         *)
(* The inductive invariant says what the advisory lock is for: whoever is  *)
(* past lockPlacements holds its user's lock, so what it has read of that  *)
(* user's balances and keys is still what the committed table says when it *)
(* decides, inserts and commits.                                           *)
(***************************************************************************)
EXTENDS Placement, OrdersProofs

Quoted == {"quoted", "cashRead", "decided", "inserted"}

(* Past tradableClose a request has a price and a size: it becomes a row.  *)
WellQuoted ==
  \A r \in Requests :
    /\ pc[r] \in Quoted => WellPlaced(body[r], key[r], close[r])
    /\ pc[r] = "inserted" => draft[r] \in Rows

TypeInv == TypeOK /\ WellQuoted

(* The row stored under a taken key is a row.                              *)
LEMMA WithKeyIsRow ==
  ASSUME NEW rows \in Seq(Rows), NEW u, NEW k, KeyTaken(rows, u, k)
  PROVE  WithKey(rows, u, k) \in Rows
  BY DEF KeyTaken, WithKey

LEMMA InitTypeInv == Init => TypeInv
<1> SUFFICES ASSUME Init PROVE TypeInv
  OBVIOUS
<1>1. TypeOK
  BY OrdersAssumption, PlacementAssumption
  DEF Init, TypeOK, PCs, CPCs, InTx, Running, Answers, NoAnswer
<1>2. WellQuoted
  BY DEF Init, WellQuoted, Quoted
<1> QED
  BY <1>1, <1>2 DEF TypeInv

(* Where a request may go, and what it may answer, are in their types.     *)
LEMMA PCsHold ==
  /\ "unsent" \in PCs /\ "connecting" \in PCs /\ "locking" \in PCs
  /\ "locked" \in PCs /\ "keyFree" \in PCs /\ "quoted" \in PCs
  /\ "cashRead" \in PCs /\ "decided" \in PCs /\ "inserted" \in PCs
  /\ "replaying" \in PCs /\ "aborting" \in PCs /\ "committed" \in PCs
  /\ "orphaned" \in PCs /\ "done" \in PCs /\ "lost" \in PCs
  BY DEF PCs, InTx, Running, Locked

LEMMA AnswersHold ==
  /\ Refusal(400) \in Answers /\ Refusal(404) \in Answers
  /\ Refusal(500) \in Answers /\ Refusal(503) \in Answers
  /\ \A row \in Rows : /\ [code |-> 200, order |-> row] \in Answers
                       /\ [code |-> 201, order |-> row] \in Answers
                       /\ [code |-> 409, order |-> row] \in Answers
  BY DEF Refusal, Answers

LEMMA StepKeepsTypeInv ==
  ASSUME TypeInv, NEW r \in Requests, Send(r) \/ Step(r) \/ Shed(r) \/ Expire(r)
  PROVE  TypeInv'
<1> USE DEF TypeInv, TypeOK, WellQuoted, Quoted, reads, cancels, Goto, Answer, Refuse
<1>1. CASE Send(r)
  BY <1>1, PCsHold, AnswersHold DEF Send
<1>2. CASE Begin(r)
  BY <1>2, PCsHold, AnswersHold DEF Begin
<1>3. CASE Shed(r)
  BY <1>3, PCsHold, AnswersHold DEF Shed
<1>4. CASE lockPlacements(r)
  BY <1>4, PCsHold, AnswersHold DEF lockPlacements
<1>5. CASE byIdempotencyKey(r)
  <2>1. KeyTaken(orders, body[r].userId, key[r]) =>
          [code |-> 200, order |-> WithKey(orders, body[r].userId, key[r])] \in Answers
    BY PCsHold, AnswersHold, WithKeyIsRow
  <2>2. CASE KeyTaken(orders, body[r].userId, key[r])
    <3> DEFINE replay == [code  |-> 200,
                          order |-> WithKey(orders, body[r].userId, key[r])]
    <3>1. /\ pc' = [pc EXCEPT ![r] = "replaying"]
          /\ answer' = [answer EXCEPT ![r] = replay]
          /\ UNCHANGED <<orders, nextId, closes, lock, body, key, close, cash,
                         shares, draft, cpc, cid, canswer, crashes>>
      BY <1>5, <2>2 DEF byIdempotencyKey
    <3>2. replay \in Answers
      BY <2>1, <2>2
    <3> HIDE DEF replay
    <3>3. answer' \in [Requests -> Answers] /\ pc' \in [Requests -> PCs]
      BY <3>1, <3>2, PCsHold
    <3>4. TypeOK'
      BY <3>1, <3>3
    <3>5. WellQuoted'
      BY <3>1
    <3> QED
      BY <3>4, <3>5
  <2>3. CASE ~ KeyTaken(orders, body[r].userId, key[r])
    BY <1>5, <2>3, PCsHold DEF byIdempotencyKey
  <2> QED
    BY <2>2, <2>3
<1>6. CASE tradableClose(r)
  <2> DEFINE at == closeOf(body[r].instrumentId)
  <2>1. CASE Refused(body[r], at)
    <3> DEFINE refusal == Refusal(refusalCode(body[r]))
    <3>1. refusal \in Answers
      BY AnswersHold DEF refusalCode
    <3>2. /\ pc' = [pc EXCEPT ![r] = "aborting"]
          /\ answer' = [answer EXCEPT ![r] = refusal]
          /\ UNCHANGED <<orders, nextId, closes, lock, body, key, close, cash,
                         shares, draft, cpc, cid, canswer, crashes>>
      BY <1>6, <2>1 DEF tradableClose
    <3> HIDE DEF refusal
    <3>3. answer' \in [Requests -> Answers] /\ pc' \in [Requests -> PCs]
      BY <3>1, <3>2, PCsHold
    <3>4. TypeOK'
      BY <3>2, <3>3
    <3>5. WellQuoted'
      BY <3>2
    <3> QED
      BY <3>4, <3>5
  <2>2. CASE ~ Refused(body[r], at)
    <3>1. at \in Prices /\ WellPlaced(body[r], key[r], at)
      BY <2>2, PlacementAssumption DEF Refused, closeOf, WellPlaced, Tradable
    <3>2. close' = [close EXCEPT ![r] = at] /\ pc' = [pc EXCEPT ![r] = "quoted"]
      BY <1>6, <2>2 DEF tradableClose
    <3> HIDE DEF at
    <3>3. close' \in [Requests -> Prices \cup {NoClose}] /\ pc' \in [Requests -> PCs]
      BY <3>1, <3>2, PCsHold, AnswersHold
    <3>4. TypeOK'
      BY <1>6, <2>2, <3>3 DEF tradableClose, at
    <3>5. WellQuoted'
      BY <1>6, <2>2, <3>1, <3>2 DEF tradableClose, at
    <3> QED
      BY <3>4, <3>5
  <2> QED
    BY <2>1, <2>2
<1>7. CASE availableCash(r)
  <2> DEFINE available == AvailableCash(orders, body[r].userId)
  <2>1. available \in Int
    BY BalancesAreInt
  <2>2. /\ cash' = [cash EXCEPT ![r] = available]
        /\ pc[r] = "quoted" /\ pc' = [pc EXCEPT ![r] = "cashRead"]
        /\ UNCHANGED <<orders, nextId, closes, lock, body, key, close, shares,
                       draft, answer, cpc, cid, canswer, crashes>>
    BY <1>7 DEF availableCash
  <2> HIDE DEF available
  <2>3. TypeOK'
    BY <2>1, <2>2, PCsHold
  <2>4. WellQuoted'
    BY <2>2
  <2> QED
    BY <2>3, <2>4
<1>8. CASE heldShares(r)
  <2> DEFINE held == HeldShares(orders, body[r].userId, body[r].instrumentId)
  <2>1. held \in Int
    BY BalancesAreInt
  <2>2. CASE FitsInt4(held)
    <3>1. shares' = [shares EXCEPT ![r] = held] /\ pc' = [pc EXCEPT ![r] = "decided"]
      BY <1>8, <2>2 DEF heldShares
    <3>2. pc[r] = "cashRead" /\ UNCHANGED <<body, key, close, draft, answer>>
      BY <1>8, <2>2 DEF heldShares
    <3> HIDE DEF held
    <3>3. TypeOK'
      BY <1>8, <2>1, <3>1, <3>2, PCsHold DEF heldShares
    <3>4. WellQuoted'
      BY <3>1, <3>2
    <3> QED
      BY <3>3, <3>4
  <2>3. CASE ~ FitsInt4(held)
    <3>1. /\ shares' = shares /\ pc' = [pc EXCEPT ![r] = "aborting"]
          /\ answer' = [answer EXCEPT ![r] = Refusal(500)]
          /\ UNCHANGED <<orders, nextId, closes, lock, body, key, close, cash,
                         draft, cpc, cid, canswer, crashes>>
      BY <1>8, <2>3 DEF heldShares
    <3> QED
      BY <3>1, PCsHold, AnswersHold
  <2> QED
    BY <2>2, <2>3
<1>9. CASE insert(r)
  <2>1. nextId \in Ids /\ pc[r] = "decided" => decidedRow(r) \in Rows
    BY PlacedIsRow DEF decidedRow
  <2> QED
    <3> HIDE DEF WellQuoted
    <3>1. /\ nextId' \in Nat /\ pc' \in [Requests -> PCs]
          /\ draft' \in [Requests -> Rows \cup {NoRow}]
          /\ answer' \in [Requests -> Answers]
      <4>1. \/ /\ pc' = [pc EXCEPT ![r] = "inserted"]
               /\ nextId' = nextId + 1
               /\ draft' = [draft EXCEPT ![r] = decidedRow(r)]
               /\ decidedRow(r) \in Rows
               /\ answer' = answer
            \/ /\ pc' = [pc EXCEPT ![r] = "aborting"]
               /\ nextId' = nextId + 1 \/ nextId' = nextId
               /\ draft' = draft
               /\ answer' = [answer EXCEPT ![r] = Refusal(500)]
        BY <1>9, <2>1 DEF insert
      <4>2. CASE /\ pc' = [pc EXCEPT ![r] = "inserted"]
                 /\ nextId' = nextId + 1
                 /\ draft' = [draft EXCEPT ![r] = decidedRow(r)]
                 /\ decidedRow(r) \in Rows
                 /\ answer' = answer
        BY <4>2, PCsHold
      <4>3. CASE /\ pc' = [pc EXCEPT ![r] = "aborting"]
                 /\ nextId' = nextId + 1 \/ nextId' = nextId
                 /\ draft' = draft
                 /\ answer' = [answer EXCEPT ![r] = Refusal(500)]
        BY <4>3, PCsHold, AnswersHold
      <4> QED
        BY <4>1, <4>2, <4>3
    <3>2. TypeOK'
      BY <1>9, <3>1 DEF insert
    <3>3. WellQuoted'
      BY <1>9, <2>1 DEF insert, WellQuoted
    <3> QED
      BY <3>2, <3>3
<1>10. CASE Commit(r)
  <2>1. orders' \in Seq(Rows) /\ answer' \in [Requests -> Answers]
    <3>1. CASE pc[r] = "inserted"
      <4> DEFINE created == [code |-> 201, order |-> draft[r]]
      <4>1. draft[r] \in Rows /\ created \in Answers
        <5>1. draft[r] \in Rows
          BY <3>1
        <5> HIDE DEF TypeInv, TypeOK, WellQuoted
        <5>2. \A row \in Rows : [code |-> 201, order |-> row] \in Answers
          BY DEF Answers
        <5> QED
          BY <5>1, <5>2, ZenonT(20)
      <4>2. /\ orders' = Append(orders, draft[r])
            /\ answer' = [answer EXCEPT ![r] = created]
        BY <1>10, <3>1 DEF Commit
      <4> HIDE DEF created
      <4>3. orders' \in Seq(Rows)
        BY <4>1, <4>2
      <4>4. answer' \in [Requests -> Answers]
        BY <4>1, <4>2
      <4> QED
        BY <4>3, <4>4
    <3>2. CASE pc[r] = "replaying"
      BY <1>10, <3>2 DEF Commit
    <3> QED
      BY <1>10, <3>1, <3>2 DEF Commit
  <2>2. /\ lock' \in [LockIds -> Requests \cup {NoHolder}]
        /\ pc' \in [Requests -> PCs]
        /\ close' \in [Requests -> Prices \cup {NoClose}]
        /\ cash' \in [Requests -> Int] /\ shares' \in [Requests -> Int]
        /\ draft' \in [Requests -> Rows \cup {NoRow}]
    BY <1>10, PCsHold, AnswersHold DEF Commit, Unlock, Forget
  <2>3. TypeOK'
    BY <1>10, <2>1, <2>2 DEF Commit
  <2>4. WellQuoted'
    BY <1>10 DEF Commit, Forget
  <2> QED
    BY <2>3, <2>4
<1>11. CASE Respond(r)
  BY <1>11, PCsHold, AnswersHold DEF Respond
<1>12. CASE Rollback(r)
  <2>1. /\ lock' \in [LockIds -> Requests \cup {NoHolder}]
        /\ pc' \in [Requests -> PCs]
        /\ close' \in [Requests -> Prices \cup {NoClose}]
        /\ cash' \in [Requests -> Int] /\ shares' \in [Requests -> Int]
        /\ draft' \in [Requests -> Rows \cup {NoRow}]
    <3>1. pc' \in [Requests -> PCs]
      <4>1. \/ pc' = [pc EXCEPT ![r] = "done"]
            \/ pc' = [pc EXCEPT ![r] = "lost"]
        BY <1>12 DEF Rollback
      <4> QED
        BY <4>1, PCsHold
    <3> QED
      BY <1>12, <3>1 DEF Rollback, Unlock, Forget
  <2>2. TypeOK'
    BY <1>12, <2>1 DEF Rollback
  <2>3. WellQuoted'
    BY <1>12 DEF Rollback, Forget
  <2> QED
    BY <2>2, <2>3
<1>13. CASE Expire(r)
  BY <1>13, PCsHold, AnswersHold DEF Expire
<1> QED
  BY <1>1, <1>2, <1>3, <1>4, <1>5, <1>6, <1>7, <1>8, <1>9, <1>10, <1>11, <1>12,
     <1>13 DEF Step

LEMMA CancelKeepsTypeInv ==
  ASSUME TypeInv, NEW c \in Cancels, SendCancel(c) \/ CancelStep(c) \/ StarveCancel(c)
  PROVE  TypeInv'
<1> USE DEF TypeInv, TypeOK, WellQuoted, Quoted, reads, cancels
<1>0. /\ "updating" \in CPCs /\ "missed" \in CPCs /\ "answering" \in CPCs
      /\ "done" \in CPCs
  BY DEF CPCs
<1>1. CASE SendCancel(c)
  BY <1>0, <1>1 DEF SendCancel
<1>2. CASE cancel(c)
  <2>1. CASE Cancellable(cid[c]) = {}
    BY <1>0, <1>2, <2>1 DEF cancel
  <2>2. CASE \E n \in Cancellable(cid[c]) :
               /\ orders' = [orders EXCEPT ![n].status = "CANCELLED"]
               /\ canswer' = [canswer EXCEPT ![c] = [code |-> 200, order |-> orders'[n]]]
               /\ cpc' = [cpc EXCEPT ![c] = "answering"]
    <3>1. PICK n \in Cancellable(cid[c]) :
            /\ orders' = CancelledAt(orders, n)
            /\ canswer' = [canswer EXCEPT ![c] = [code |-> 200, order |-> orders'[n]]]
            /\ cpc' = [cpc EXCEPT ![c] = "answering"]
      BY <2>2 DEF CancelledAt
    <3>2. n \in 1..Len(orders) /\ orders[n].status \in CANCELLABLE
      BY DEF Cancellable, Stored
    <3>3. orders' \in Seq(Rows) /\ Len(orders') = Len(orders)
      BY <3>1, <3>2, CancelMovesNoBalance
    <3>4. [code |-> 200, order |-> orders'[n]] \in Answers
      <4>1. orders'[n] \in Rows
        BY <3>2, <3>3
      <4> QED
        BY <4>1 DEF Answers
    <3>5. canswer' \in [Cancels -> Answers] /\ cpc' \in [Cancels -> CPCs]
      BY <1>0, <3>1, <3>4
    <3> QED
      BY <1>2, <3>3, <3>5 DEF cancel
  <2> QED
    BY <1>2, <2>1, <2>2 DEF cancel
<1>3. CASE statusOf(c)
  <2>1. ASSUME NEW n \in Stored(cid[c])
        PROVE  [code |-> 409, order |-> orders[n]] \in Answers
    <3>1. orders[n] \in Rows
      BY DEF Stored
    <3> QED
      BY <3>1 DEF Answers
  <2>2. canswer' \in [Cancels -> Answers] /\ cpc' \in [Cancels -> CPCs]
    <3>1. CASE canswer' = [canswer EXCEPT ![c] = Refusal(404)]
      BY <1>0, <1>3, <3>1, AnswersHold DEF statusOf
    <3>2. CASE \E n \in Stored(cid[c]) :
                 canswer' = [canswer EXCEPT ![c] = [code |-> 409, order |-> orders[n]]]
      <4>1. PICK n \in Stored(cid[c]) :
              canswer' = [canswer EXCEPT ![c] = [code |-> 409, order |-> orders[n]]]
        BY <3>2
      <4>2. [code |-> 409, order |-> orders[n]] \in Answers
        BY <2>1
      <4>3. canswer' \in [Cancels -> Answers]
        BY <1>0, <4>1, <4>2
      <4>4. cpc' \in [Cancels -> CPCs]
        BY <1>0, <1>3 DEF statusOf
      <4> QED
        BY <4>3, <4>4
    <3> QED
      BY <1>3, <3>1, <3>2 DEF statusOf
  <2> QED
    BY <1>3, <2>2 DEF statusOf
<1>4. CASE StarveCancel(c)
  BY <1>0, <1>4, AnswersHold DEF StarveCancel
<1>5. CASE RespondCancel(c)
  BY <1>0, <1>5 DEF RespondCancel
<1> QED
  BY <1>1, <1>2, <1>3, <1>4, <1>5 DEF CancelStep

LEMMA CrashKeepsTypeInv ==
  ASSUME TypeInv, Crash
  PROVE  TypeInv'
<1> USE DEF TypeInv, TypeOK, WellQuoted, reads, cancels
<1>1. "lost" \in CPCs
  BY DEF CPCs
<1>2. pc' \in [Requests -> PCs] /\ cpc' \in [Cancels -> CPCs]
  BY <1>1, PCsHold DEF Crash
<1>3. crashes' \in 0..MaxCrashes
  BY PlacementAssumption DEF Crash
<1>4. TypeOK'
  BY <1>2, <1>3 DEF Crash
<1>5. WellQuoted'
  BY DEF Crash, Quoted, InTx, Running, Locked
<1> QED
  BY <1>4, <1>5

(***************************************************************************)
(* Every variable keeps its type, and a request past tradableClose has a   *)
(* body that becomes a row.                                                *)
(***************************************************************************)
LEMMA NextKeepsTypeInv == TypeInv /\ [Next]_vars => TypeInv'
<1> SUFFICES ASSUME TypeInv, [Next]_vars PROVE TypeInv'
  OBVIOUS
<1>1. CASE MarketMoves
  BY <1>1 DEF MarketMoves, TypeInv, TypeOK, WellQuoted, reads, cancels
<1>2. CASE UNCHANGED vars
  BY <1>2 DEF vars, TypeInv, TypeOK, WellQuoted
<1> QED
  BY <1>1, <1>2, StepKeepsTypeInv, CancelKeepsTypeInv, CrashKeepsTypeInv DEF Next

THEOREM TypeCorrect == Spec => []TypeOK
<1>1. Spec => []TypeInv
  BY InitTypeInv, NextKeepsTypeInv, PTL DEF Spec
<1> QED
  BY <1>1, PTL DEF TypeInv

-----------------------------------------------------------------------------
(***************************************************************************)
(* What the advisory lock buys: the parts of the invariant that follow     *)
(* from it, each kept by every step.                                       *)
(***************************************************************************)
(* Past lockPlacements and up to the end of its transaction, a request     *)
(* holds the lock of its user.                                             *)
LockHeld == \A r \in Requests : pc[r] \in Locked => lock[body[r].userId] = r

(* What it has read is what a read would return now.                       *)
ReadsCurrent ==
  \A r \in Requests :
    LET b == body[r] IN
    /\ pc[r] \in {"cashRead", "decided"} => cash[r] = AvailableCash(orders, b.userId)
    /\ pc[r] = "decided" => shares[r] = HeldShares(orders, b.userId, b.instrumentId)

KeyMissed == {"keyFree", "quoted", "cashRead", "decided", "inserted"}

KeyStillFree ==
  \A r \in Requests :
    pc[r] \in KeyMissed => ~ KeyTaken(orders, body[r].userId, key[r])

(* Ids come from the SERIAL, each of them once.                            *)
IdsFresh ==
  /\ \A n \in 1..Len(orders) : orders[n].id < nextId
  /\ \A r \in Requests :
       pc[r] = "inserted" =>
         /\ draft[r].id < nextId
         /\ \A n \in 1..Len(orders) : orders[n].id # draft[r].id
         /\ \A s \in Requests :
              pc[s] = "inserted" /\ s # r => draft[s].id # draft[r].id

LockInv ==
  /\ LockHeld
  /\ ReadsCurrent
  /\ DecidedOnCurrentBalances
  /\ KeyStillFree
  /\ IdsFresh

-----------------------------------------------------------------------------
(* What one step can do to one request: nothing that matters to it, take   *)
(* it out of its critical section, or be its next statement there.         *)
Untouched(s) ==
  /\ pc'[s] = pc[s] /\ close'[s] = close[s] /\ cash'[s] = cash[s]
  /\ shares'[s] = shares[s] /\ draft'[s] = draft[s]

Enters(s) == lockPlacements(s) \/ byIdempotencyKey(s) \/ tradableClose(s)

Moves(s) ==
  \/ Untouched(s)
  \/ pc'[s] \notin Locked
  \/ Enters(s) /\ pc'[s] \in {"locked", "keyFree", "replaying", "quoted"}
  \/ availableCash(s)
  \/ heldShares(s) /\ pc'[s] = "decided"
  \/ insert(s) /\ pc'[s] = "inserted"

LEMMA NextMoves ==
  ASSUME TypeInv, Next, NEW s \in Requests
  PROVE  Moves(s) /\ body' = body /\ key' = key
<1> USE DEF TypeInv, TypeOK, reads, cancels, Goto, Answer, Refuse
<1> DEFINE out == {"connecting", "locking", "aborting", "committed", "orphaned",
                   "done", "lost"}
<1>0. \A p \in out : p \notin Locked
  BY DEF Locked
<1>1. CASE \E c \in Cancels : SendCancel(c) \/ CancelStep(c) \/ StarveCancel(c)
  <2>1. UNCHANGED <<pc, body, key, close, cash, shares, draft>>
    BY <1>1 DEF SendCancel, CancelStep, StarveCancel, cancel, statusOf, RespondCancel
  <2> QED
    BY <2>1 DEF Moves, Untouched
<1>2. CASE MarketMoves
  BY <1>2 DEF MarketMoves, Moves, Untouched
<1>3. CASE Crash
  BY <1>0, <1>3 DEF Crash, Moves, Untouched, InTx, Running
<1>4. ASSUME NEW r \in Requests, Send(r) \/ Step(r) \/ Shed(r) \/ Expire(r)
      PROVE  Moves(s) /\ body' = body /\ key' = key
  <2>1. body' = body /\ key' = key
    BY <1>4 DEF Send, Step, Shed, Expire, Begin, lockPlacements, byIdempotencyKey,
                tradableClose, availableCash, heldShares, insert, Commit, Respond,
                Rollback
  <2>2. CASE s # r
    <3>1. Untouched(s)
      BY <1>4, <2>2 DEF Untouched, Send, Step, Shed, Expire, Begin, lockPlacements,
           byIdempotencyKey, tradableClose, availableCash, heldShares, insert,
           Commit, Respond, Rollback, Forget
    <3> QED
      BY <2>1, <3>1 DEF Moves
  <2>3. CASE s = r
    <3>1. CASE Send(r) \/ Begin(r) \/ Shed(r) \/ Expire(r) \/ Commit(r) \/ Respond(r)
                 \/ Rollback(r)
      <4>1. pc'[r] \in out
        BY <3>1 DEF Send, Begin, Shed, Expire, Commit, Respond, Rollback
      <4> QED
        BY <1>0, <2>1, <2>3, <4>1 DEF Moves
    <3>2. CASE Enters(r)
      <4>1. pc'[r] \in {"locked", "keyFree", "replaying", "quoted"} \cup out
        BY <3>2 DEF Enters, lockPlacements, byIdempotencyKey, tradableClose
      <4> QED
        BY <1>0, <2>1, <2>3, <3>2, <4>1 DEF Moves
    <3>3. CASE availableCash(r)
      BY <2>1, <2>3, <3>3 DEF Moves
    <3>4. CASE heldShares(r)
      <4>1. pc'[r] \in {"decided", "aborting"}
        BY <3>4 DEF heldShares
      <4> QED
        BY <1>0, <2>1, <2>3, <3>4, <4>1 DEF Moves
    <3>5. CASE insert(r)
      <4>1. pc'[r] \in {"inserted", "aborting"}
        BY <3>5 DEF insert
      <4> QED
        BY <1>0, <2>1, <2>3, <3>5, <4>1 DEF Moves
    <3> QED
      BY <1>4, <3>1, <3>2, <3>3, <3>4, <3>5 DEF Step, Enters
  <2> QED
    BY <2>2, <2>3
<1> QED
  BY <1>1, <1>2, <1>3, <1>4 DEF Next

(* The lock is only taken when free and only given back by its holder.     *)
LEMMA NextKeepsLockHeld ==
  ASSUME TypeInv, LockHeld, Next
  PROVE  LockHeld'
<1> USE DEF TypeInv, TypeOK, LockHeld, reads, cancels, Goto, Answer, Refuse
<1> SUFFICES ASSUME NEW s \in Requests, pc'[s] \in Locked
             PROVE  lock'[body'[s].userId] = s
  OBVIOUS
<1>1. body'[s].userId \in LockIds /\ body' = body
  BY NextMoves DEF LockIds
<1>2. CASE lockPlacements(s)
  BY <1>1, <1>2 DEF lockPlacements
<1>3. CASE ~ lockPlacements(s)
  <2>1. pc[s] \in Locked
    BY <1>3, NextMoves DEF Moves, Untouched, Enters, byIdempotencyKey, tradableClose,
       availableCash, heldShares, insert, Locked
  <2>2. lock[body[s].userId] = s
    BY <2>1
  <2>3. CASE \E r \in Requests : Commit(r) \/ Rollback(r)
    <3>1. PICK r \in Requests : Commit(r) \/ Rollback(r)
      BY <2>3
    <3>2. pc'[r] \in {"committed", "done", "lost"}
      BY <3>1 DEF Commit, Rollback
    <3>3. r # s
      BY <3>2 DEF Locked
    <3> QED
      BY <1>1, <2>2, <3>1, <3>3 DEF Commit, Rollback, Unlock
  <2>4. CASE \E r \in Requests : lockPlacements(r)
    <3>1. PICK r \in Requests : lockPlacements(r)
      BY <2>4
    <3>2. lock[body[r].userId] = NoHolder /\ s # NoHolder
      BY <3>1, PlacementAssumption DEF lockPlacements
    <3>3. body[r].userId # body[s].userId
      BY <2>2, <3>2
    <3> QED
      BY <1>1, <2>2, <3>1, <3>3 DEF lockPlacements
  <2>5. CASE UNCHANGED lock
    BY <1>1, <2>2, <2>5
  <2> QED
    BY <2>3, <2>4, <2>5
    DEF Next, Send, Step, Shed, Expire, Begin, byIdempotencyKey, tradableClose,
        availableCash, heldShares, insert, Respond, SendCancel, CancelStep,
        StarveCancel, cancel, statusOf, RespondCancel, MarketMoves, Crash
<1> QED
  BY <1>2, <1>3

-----------------------------------------------------------------------------
(* The table changes at the COMMIT of an insert and at an UPDATE of a      *)
(* cancellable row, and nowhere else.                                      *)
CancelsRow(n) ==
  /\ n \in 1..Len(orders)
  /\ orders[n].status \in CANCELLABLE
  /\ orders' = CancelledAt(orders, n)

LEMMA NextOnTable ==
  ASSUME Next
  PROVE  \/ orders' = orders
         \/ \E r \in Requests : pc[r] = "inserted" /\ Commit(r)
         \/ \E n \in 1..Len(orders) : CancelsRow(n)
<1>1. CASE \E r \in Requests : Commit(r)
  BY <1>1 DEF Commit
<1>2. CASE \E c \in Cancels : cancel(c)
  BY <1>2 DEF cancel, CancelsRow, CancelledAt, Cancellable, Stored
<1>3. CASE /\ ~ \E r \in Requests : Commit(r)
           /\ ~ \E c \in Cancels : cancel(c)
  BY <1>3
  DEF Next, Send, Step, Shed, Expire, Begin, lockPlacements, byIdempotencyKey,
      tradableClose, availableCash, heldShares, insert, Respond, Rollback,
      SendCancel, CancelStep, StarveCancel, statusOf, RespondCancel, MarketMoves,
      Crash
<1> QED
  BY <1>1, <1>2, <1>3

(* Cancelling keeps every row's id, user and key.                          *)
LEMMA CancelKeepsNames ==
  ASSUME TypeOK, NEW n \in 1..Len(orders), CancelsRow(n)
  PROVE  /\ orders' \in Seq(Rows) /\ Len(orders') = Len(orders)
         /\ \A m \in 1..Len(orders) : /\ orders'[m].id = orders[m].id
                                     /\ orders'[m].userId = orders[m].userId
                                     /\ orders'[m].key = orders[m].key
<1>1. orders' \in Seq(Rows) /\ Len(orders') = Len(orders)
  BY CancelMovesNoBalance DEF CancelsRow, TypeOK
<1>2. ASSUME NEW m \in 1..Len(orders)
      PROVE  /\ orders'[m].id = orders[m].id
             /\ orders'[m].userId = orders[m].userId
             /\ orders'[m].key = orders[m].key
  <2>1. orders[m] \in Rows
    BY DEF TypeOK
  <2>2. orders'[m] = IF m = n THEN [orders[n] EXCEPT !.status = "CANCELLED"]
                              ELSE orders[m]
    BY DEF CancelsRow, CancelledAt, TypeOK
  <2> QED
    BY <2>1, <2>2 DEF Rows
<1> QED
  BY <1>1, <1>2

LEMMA RowNames ==
  ASSUME NEW id, NEW b, NEW k, NEW c, NEW cash0, NEW shares0
  PROVE  LET row == RowOf(id, b, k, c, cash0, shares0)
         IN  row.id = id /\ row.userId = b.userId /\ row.key = k
  BY DEF RowOf

(* The row a request commits is its user's, under its key.                 *)
LEMMA DraftNames ==
  ASSUME DecidedOnCurrentBalances, NEW r \in Requests, pc[r] = "inserted"
  PROVE  draft[r].userId = body[r].userId /\ draft[r].key = key[r]
  BY RowNames DEF DecidedOnCurrentBalances

(***************************************************************************)
(* While a request is in its critical section, the table looks the same to *)
(* its user: the same balances, the same keys.                             *)
(***************************************************************************)
SameTableFor(u) ==
  /\ AvailableCash(orders', u) = AvailableCash(orders, u)
  /\ \A i : HeldShares(orders', u, i) = HeldShares(orders, u, i)
  /\ \A k : KeyTaken(orders', u, k) <=> KeyTaken(orders, u, k)

LEMMA CommitOfAnother ==
  ASSUME TypeInv, NEW row \in Rows, orders' = Append(orders, row), NEW u,
         row.userId # u
  PROVE  SameTableFor(u)
<1>1. /\ orders \in Seq(Rows)
      /\ Len(orders) \in Nat /\ Len(orders') = Len(orders) + 1
      /\ orders'[Len(orders) + 1] = row
      /\ \A n \in 1..Len(orders) : orders'[n] = orders[n]
  BY DEF TypeInv, TypeOK
<1>2. ASSUME NEW i
      PROVE  /\ AvailableCash(orders', u) = AvailableCash(orders, u)
             /\ HeldShares(orders', u, i) = HeldShares(orders, u, i)
  <2>1. CashDelta(row, u) = 0 /\ ShareDelta(row, u, i) = 0
    BY DEF CashDelta, ShareDelta
  <2> QED
    BY <1>1, <2>1, BalancesOfOneMore, BalancesAreInt
<1>3. ASSUME NEW k
      PROVE  KeyTaken(orders', u, k) <=> KeyTaken(orders, u, k)
  <2>1. \A n \in 1..Len(orders') : n \in 1..Len(orders) \/ n = Len(orders) + 1
    BY <1>1
  <2>2. \A n \in 1..Len(orders) : n \in 1..Len(orders')
    BY <1>1
  <2> QED
    BY <1>1, <2>1, <2>2 DEF KeyTaken
<1> QED
  BY <1>2, <1>3 DEF SameTableFor

LEMMA CancelSameTable ==
  ASSUME TypeInv, NEW n \in 1..Len(orders), CancelsRow(n), NEW u
  PROVE  SameTableFor(u)
<1>1. ASSUME NEW i
      PROVE  /\ AvailableCash(orders', u) = AvailableCash(orders, u)
             /\ HeldShares(orders', u, i) = HeldShares(orders, u, i)
  BY CancelMovesNoBalance DEF CancelsRow, TypeInv, TypeOK
<1>2. ASSUME NEW k
      PROVE  KeyTaken(orders', u, k) <=> KeyTaken(orders, u, k)
  BY CancelKeepsNames DEF KeyTaken, TypeInv
<1> QED
  BY <1>1, <1>2 DEF SameTableFor

LEMMA HolderSeesSameTable ==
  ASSUME TypeInv, LockInv, Next, NEW s \in Requests,
         pc[s] \in Locked, pc'[s] \in Locked
  PROVE  SameTableFor(body[s].userId)
<1>1. CASE orders' = orders
  BY <1>1 DEF SameTableFor
<1>2. CASE \E r \in Requests : pc[r] = "inserted" /\ Commit(r)
  <2>1. PICK r \in Requests : pc[r] = "inserted" /\ Commit(r)
    BY <1>2
  <2>2. r # s
    BY <2>1 DEF Commit, Goto, Locked, TypeInv, TypeOK
  <2>3. lock[body[r].userId] = r /\ lock[body[s].userId] = s
    BY <2>1 DEF LockInv, LockHeld, Locked
  <2>4. draft[r] \in Rows /\ draft[r].userId = body[r].userId
    BY <2>1, DraftNames DEF LockInv, TypeInv, WellQuoted
  <2>5. orders' = Append(orders, draft[r])
    BY <2>1 DEF Commit
  <2> QED
    BY <2>2, <2>3, <2>4, <2>5, CommitOfAnother
<1>3. CASE \E n \in 1..Len(orders) : CancelsRow(n)
  BY <1>3, CancelSameTable
<1> QED
  BY <1>1, <1>2, <1>3, NextOnTable

-----------------------------------------------------------------------------
(* The three parts of LockInv that relate a request to the table.          *)
LEMMA NextKeepsReads ==
  ASSUME TypeInv, LockInv, Next
  PROVE  ReadsCurrent'
<1> SUFFICES ASSUME NEW s \in Requests
             PROVE  /\ pc'[s] \in {"cashRead", "decided"} =>
                         cash'[s] = AvailableCash(orders', body[s].userId)
                    /\ pc'[s] = "decided" =>
                         shares'[s] = HeldShares(orders', body[s].userId,
                                                 body[s].instrumentId)
  BY NextMoves DEF ReadsCurrent
<1> USE DEF TypeInv, TypeOK, LockInv, ReadsCurrent, Goto
<1>1. CASE Untouched(s)
  <2>1. CASE pc[s] \in {"cashRead", "decided"}
    <3>1. SameTableFor(body[s].userId)
      BY <1>1, <2>1, HolderSeesSameTable DEF Untouched, Locked
    <3> QED
      BY <1>1, <2>1, <3>1 DEF Untouched, SameTableFor
  <2>2. CASE pc[s] \notin {"cashRead", "decided"}
    BY <1>1, <2>2 DEF Untouched
  <2> QED
    BY <2>1, <2>2
<1>2. CASE pc'[s] \notin {"cashRead", "decided"}
  BY <1>2
<1>3. CASE availableCash(s)
  BY <1>3 DEF availableCash
<1>4. CASE heldShares(s) /\ pc'[s] = "decided"
  <2>1. /\ pc[s] = "cashRead" /\ orders' = orders /\ cash' = cash
        /\ shares' = [shares EXCEPT ![s] =
                         HeldShares(orders, body[s].userId, body[s].instrumentId)]
    BY <1>4 DEF heldShares, Refuse
  <2> QED
    BY <2>1
<1> QED
  BY <1>1, <1>2, <1>3, <1>4, NextMoves DEF Moves, Locked

LEMMA NextKeepsDecision ==
  ASSUME TypeInv, LockInv, Next
  PROVE  DecidedOnCurrentBalances'
<1> SUFFICES ASSUME NEW s \in Requests, pc'[s] = "inserted"
             PROVE  draft'[s] = RowOf(draft'[s].id, body[s], key[s], close'[s],
                       AvailableCash(orders', body[s].userId),
                       HeldShares(orders', body[s].userId, body[s].instrumentId))
  BY NextMoves DEF DecidedOnCurrentBalances
<1> USE DEF TypeInv, TypeOK
<1>1. CASE Untouched(s)
  <2>1. SameTableFor(body[s].userId)
    BY <1>1, HolderSeesSameTable DEF Untouched, Locked
  <2> QED
    BY <1>1, <2>1 DEF Untouched, SameTableFor, LockInv, DecidedOnCurrentBalances
<1>2. CASE insert(s) /\ pc'[s] = "inserted"
  <2>1. /\ pc[s] = "decided" /\ orders' = orders /\ close' = close
        /\ draft' = [draft EXCEPT ![s] = decidedRow(s)]
    BY <1>2 DEF insert, Refuse, Goto, reads
  <2>2. draft'[s] = RowOf(nextId, body[s], key[s], close[s], cash[s], shares[s])
    BY <2>1 DEF decidedRow
  <2>3. draft'[s].id = nextId
    BY <2>2 DEF RowOf
  <2>4. /\ cash[s] = AvailableCash(orders, body[s].userId)
        /\ shares[s] = HeldShares(orders, body[s].userId, body[s].instrumentId)
    BY <2>1 DEF LockInv, ReadsCurrent
  <2> QED
    BY <2>1, <2>2, <2>3, <2>4
<1> QED
  BY <1>1, <1>2, NextMoves DEF Moves, Locked, availableCash, Goto

LEMMA NextKeepsKeyFree ==
  ASSUME TypeInv, LockInv, Next
  PROVE  KeyStillFree'
<1> SUFFICES ASSUME NEW s \in Requests, pc'[s] \in KeyMissed
             PROVE  ~ KeyTaken(orders', body[s].userId, key[s])
  BY NextMoves DEF KeyStillFree
<1>0. KeyMissed \subseteq Locked
  BY DEF KeyMissed, Locked
<1> USE DEF TypeInv, TypeOK, Goto, Refuse, reads
<1>1. CASE pc[s] \in KeyMissed
  <2>1. SameTableFor(body[s].userId)
    BY <1>0, <1>1, HolderSeesSameTable
  <2> QED
    BY <1>1, <2>1 DEF SameTableFor, LockInv, KeyStillFree
<1>2. CASE pc[s] \notin KeyMissed
  <2>1. byIdempotencyKey(s)
    BY <1>0, <1>2, NextMoves DEF Moves, Untouched, Enters, lockPlacements, tradableClose,
       availableCash, heldShares, insert, KeyMissed
  <2>2. ~ KeyTaken(orders, body[s].userId, key[s]) /\ orders' = orders
    BY <2>1 DEF byIdempotencyKey, KeyMissed
  <2> QED
    BY <2>2
<1> QED
  BY <1>1, <1>2

(* The SERIAL only moves forward, and a draft other than the one inserted  *)
(* now was inserted before.                                                *)
LEMMA NextOnSerial ==
  ASSUME TypeInv, Next, NEW s \in Requests
  PROVE  /\ nextId' \in Nat /\ nextId' >= nextId
         /\ pc'[s] = "inserted" =>
              \/ pc[s] = "inserted" /\ draft'[s] = draft[s]
              \/ /\ insert(s) /\ draft'[s] = decidedRow(s) /\ draft'[s].id = nextId
                 /\ nextId' = nextId + 1 /\ orders' = orders
                 /\ \A r \in Requests : r # s => pc'[r] = pc[r] /\ draft'[r] = draft[r]
<1> USE DEF TypeInv, TypeOK, Goto, Refuse, reads, cancels
<1>1. nextId' \in Nat /\ nextId' >= nextId
  <2>1. nextId' = nextId \/ nextId' = nextId + 1
    <3> HIDE DEF TypeInv, TypeOK, Goto, Refuse, reads
    <3>1. CASE \E r \in Requests : insert(r)
      BY <3>1 DEF insert
    <3>2. CASE ~ \E r \in Requests : insert(r)
      BY <3>2
      DEF Next, Send, Step, Shed, Expire, Begin, lockPlacements, byIdempotencyKey,
          tradableClose, availableCash, heldShares, Commit, Respond, Rollback,
          SendCancel, CancelStep, StarveCancel, cancel, statusOf, RespondCancel,
          MarketMoves, Crash
    <3> QED
      BY <3>1, <3>2
  <2> QED
    BY <2>1
<1>2. ASSUME pc'[s] = "inserted"
      PROVE  \/ pc[s] = "inserted" /\ draft'[s] = draft[s]
             \/ /\ insert(s) /\ draft'[s] = decidedRow(s) /\ draft'[s].id = nextId
                /\ nextId' = nextId + 1 /\ orders' = orders
                /\ \A r \in Requests : r # s => pc'[r] = pc[r] /\ draft'[r] = draft[r]
  <2>1. CASE Untouched(s)
    BY <1>2, <2>1 DEF Untouched
  <2>2. CASE insert(s)
    <3>1. /\ draft' = [draft EXCEPT ![s] = decidedRow(s)]
          /\ nextId' = nextId + 1 /\ orders' = orders
          /\ pc' = [pc EXCEPT ![s] = "inserted"]
      BY <1>2, <2>2 DEF insert
    <3>2. decidedRow(s).id = nextId
      BY DEF decidedRow, RowOf
    <3> QED
      BY <2>2, <3>1, <3>2
  <2> QED
    BY <1>2, <2>1, <2>2, NextMoves DEF Moves, Locked, availableCash
<1> QED
  BY <1>1, <1>2

LEMMA NextKeepsIdsFresh ==
  ASSUME TypeInv, LockInv, Next
  PROVE  IdsFresh'
<1> USE DEF TypeInv, TypeOK
<1>0. /\ IdsFresh /\ nextId \in Nat /\ Len(orders) \in Nat
      /\ nextId' \in Nat /\ nextId' >= nextId
      /\ \A n \in 1..Len(orders) : orders[n].id \in Nat
      /\ \A r \in Requests : pc[r] = "inserted" => draft[r].id \in Nat
  <2>1. \A row \in Rows : row.id \in Nat
    BY DEF Rows, Ids
  <2>2. nextId' \in Nat /\ nextId' >= nextId
    <3>1. CASE Requests = {}
      BY <3>1 DEF Next, SendCancel, CancelStep, StarveCancel, cancel, statusOf,
         RespondCancel, MarketMoves, Crash
    <3>2. CASE Requests # {}
      BY <3>2, NextOnSerial
    <3> QED
      BY <3>1, <3>2
  <2>3. \A n \in 1..Len(orders) : orders[n] \in Rows
    OBVIOUS
  <2> QED
    BY <2>1, <2>2, <2>3 DEF LockInv, WellQuoted
<1>1. \A n \in 1..Len(orders') : orders'[n].id < nextId'
  <2>0. \A x \in Nat : x < nextId => x < nextId'
    BY <1>0
  <2>1. CASE orders' = orders
    <3> SUFFICES ASSUME NEW n \in 1..Len(orders)
                 PROVE  orders[n].id < nextId'
      BY <2>1
    <3>1. orders[n].id \in Nat /\ orders[n].id < nextId
      BY <1>0 DEF IdsFresh
    <3> QED
      BY <2>0, <3>1
  <2>2. CASE \E r \in Requests : pc[r] = "inserted" /\ Commit(r)
    <3>1. PICK r \in Requests : pc[r] = "inserted" /\ Commit(r)
      BY <2>2
    <3>2. orders' = Append(orders, draft[r]) /\ draft[r] \in Rows
      BY <3>1 DEF Commit, WellQuoted
    <3>3. /\ Len(orders') = Len(orders) + 1
          /\ orders'[Len(orders) + 1] = draft[r]
          /\ \A n \in 1..Len(orders) : orders'[n] = orders[n]
      BY <3>2
    <3>4. draft[r].id < nextId
      BY <3>1, <1>0 DEF IdsFresh
    <3>5. \A n \in 1..Len(orders') : n \in 1..Len(orders) \/ n = Len(orders) + 1
      BY <1>0, <3>3
    <3>6. nextId' = nextId
      BY <3>1 DEF Commit
    <3> QED
      BY <1>0, <3>3, <3>4, <3>5, <3>6 DEF IdsFresh
  <2>3. CASE \E n \in 1..Len(orders) : CancelsRow(n)
    <3>1. Len(orders') = Len(orders)
          /\ \A n \in 1..Len(orders) : orders'[n].id = orders[n].id
      BY <2>3, CancelKeepsNames
    <3> SUFFICES ASSUME NEW n \in 1..Len(orders)
                 PROVE  orders'[n].id < nextId'
      BY <3>1
    <3>2. orders[n].id \in Nat /\ orders[n].id < nextId
      BY <1>0 DEF IdsFresh
    <3> QED
      BY <2>0, <3>1, <3>2
  <2> QED
    BY <2>1, <2>2, <2>3, NextOnTable
<1>2. ASSUME NEW s \in Requests, pc'[s] = "inserted"
      PROVE  draft'[s].id < nextId'
  <2>1. CASE draft'[s].id = nextId /\ nextId' = nextId + 1
    BY <1>0, <2>1
  <2>2. CASE pc[s] = "inserted" /\ draft'[s] = draft[s]
    <3>1. draft[s].id \in Nat /\ draft[s].id < nextId
      BY <1>0, <2>2 DEF IdsFresh
    <3> QED
      BY <1>0, <2>2, <3>1
  <2> QED
    BY <1>2, <2>1, <2>2, NextOnSerial
<1>3. ASSUME NEW s \in Requests, pc'[s] = "inserted", NEW n \in 1..Len(orders')
      PROVE  orders'[n].id # draft'[s].id
  <2>1. CASE insert(s) /\ draft'[s].id = nextId /\ orders' = orders
    BY <1>0, <2>1 DEF IdsFresh
  <2>2. CASE pc[s] = "inserted" /\ draft'[s] = draft[s]
    <3>1. CASE orders' = orders
      BY <1>0, <2>2, <3>1 DEF IdsFresh
    <3>2. CASE \E r \in Requests : pc[r] = "inserted" /\ Commit(r)
      <4>1. PICK r \in Requests : pc[r] = "inserted" /\ Commit(r)
        BY <3>2
      <4>2. orders' = Append(orders, draft[r]) /\ pc'[r] = "committed"
        BY <4>1 DEF Commit, Goto
      <4>3. r # s
        BY <1>3, <4>2
      <4>4. draft[s].id # draft[r].id
        BY <1>0, <2>2, <4>1, <4>3 DEF IdsFresh
      <4>5. (n \in 1..Len(orders) /\ orders'[n] = orders[n]) \/ orders'[n] = draft[r]
        BY <4>2
      <4> QED
        BY <1>0, <2>2, <4>4, <4>5 DEF IdsFresh
    <3>3. CASE \E m \in 1..Len(orders) : CancelsRow(m)
      BY <1>0, <2>2, <3>3, CancelKeepsNames DEF IdsFresh
    <3> QED
      BY <3>1, <3>2, <3>3, NextOnTable
  <2> QED
    BY <1>3, <2>1, <2>2, NextOnSerial
<1>4. ASSUME NEW r \in Requests, NEW s \in Requests, r # s,
             pc'[r] = "inserted", pc'[s] = "inserted"
      PROVE  draft'[s].id # draft'[r].id
  <2>1. CASE /\ pc[r] = "inserted" /\ draft'[r] = draft[r]
             /\ pc[s] = "inserted" /\ draft'[s] = draft[s]
    BY <1>0, <1>4, <2>1 DEF IdsFresh
  <2>2. ASSUME NEW p \in Requests, NEW q \in Requests, p # q,
               pc'[q] = "inserted", draft'[p].id = nextId,
               \A t \in Requests : t # p => pc'[t] = pc[t] /\ draft'[t] = draft[t]
        PROVE  draft'[p].id # draft'[q].id
    BY <1>0, <2>2 DEF IdsFresh
  <2> QED
    BY <1>4, <2>1, <2>2, NextOnSerial
<1> QED
  BY <1>1, <1>2, <1>3, <1>4 DEF IdsFresh

(***************************************************************************)
(* So LockInv is inductive.                                                *)
(***************************************************************************)
Inv == TypeInv /\ LockInv

LEMMA InitInv == Init => Inv
<1> SUFFICES ASSUME Init PROVE Inv
  OBVIOUS
<1>1. \A n \in 1..Len(orders) : orders[n].id < nextId
  <2>1. \A n \in 1..Len(SeedOrders) :
          SeedOrders[n].id <= Len(SeedOrders) /\ SeedOrders[n].id \in Nat
    <3> SUFFICES ASSUME NEW n \in 1..Len(SeedOrders)
                 PROVE  SeedOrders[n].id <= Len(SeedOrders) /\ SeedOrders[n].id \in Nat
      OBVIOUS
    <3>1. SeedOrders[n] \in Rows
      BY OrdersAssumption
    <3>2. SeedOrders[n].id \in Nat
      BY <3>1 DEF Rows, Ids
    <3> QED
      BY <3>2, PlacementAssumption
  <2>2. Len(SeedOrders) \in Nat
    BY OrdersAssumption
  <2> QED
    BY <2>1, <2>2 DEF Init
<1>2. \A r \in Requests : pc[r] = "unsent"
  BY DEF Init
<1> QED
  BY <1>1, <1>2, InitTypeInv
  DEF Inv, LockInv, LockHeld, ReadsCurrent, DecidedOnCurrentBalances, KeyStillFree,
      IdsFresh, Locked, KeyMissed

LEMMA NextKeepsInv == Inv /\ [Next]_vars => Inv'
<1> SUFFICES ASSUME Inv, [Next]_vars PROVE Inv'
  OBVIOUS
<1>1. CASE Next
  BY <1>1, NextKeepsTypeInv, NextKeepsLockHeld, NextKeepsReads, NextKeepsDecision,
     NextKeepsKeyFree, NextKeepsIdsFresh DEF Inv, LockInv
<1>2. CASE UNCHANGED vars
  <2>1. TypeInv'
    BY <1>2, NextKeepsTypeInv DEF Inv
  <2> QED
    BY <1>2, <2>1 DEF vars, Inv, LockInv, LockHeld, ReadsCurrent,
       DecidedOnCurrentBalances, KeyStillFree, IdsFresh
<1> QED
  BY <1>1, <1>2

THEOREM Invariance == Spec => []Inv
  BY InitInv, NextKeepsInv, PTL DEF Spec
-----------------------------------------------------------------------------
(***************************************************************************)
(* What follows from the lock: the properties of module Placement that     *)
(* the runs check on small instances, for every value of the constants.    *)
(***************************************************************************)
(***************************************************************************)
(* The unique index never refuses a row: a key that missed under the lock  *)
(* is still free when the row goes in.                                     *)
(***************************************************************************)
THEOREM BackstopIdle == Spec => []BackstopNeverFires
<1>1. Inv => BackstopNeverFires
  BY DEF Inv, LockInv, KeyStillFree, KeyMissed, BackstopNeverFires
<1> QED
  BY <1>1, Invariance, PTL

(***************************************************************************)
(* Whatever commits was decided on the balances it is committed to.        *)
(***************************************************************************)
THEOREM DecisionsCurrent == Spec => []DecidedOnCurrentBalances
<1>1. Inv => DecidedOnCurrentBalances
  BY DEF Inv, LockInv
<1> QED
  BY <1>1, Invariance, PTL

-----------------------------------------------------------------------------
(* A COMMIT appends the row the balances of this moment give.              *)
LEMMA CommitPlaces ==
  ASSUME Inv, NEW r \in Requests, pc[r] = "inserted", Commit(r)
  PROVE  /\ draft[r] \in Rows /\ draft[r].id \in Ids
         /\ WellPlaced(body[r], key[r], close[r])
         /\ draft[r] = RowOf(draft[r].id, body[r], key[r], close[r],
                             AvailableCash(orders, body[r].userId),
                             HeldShares(orders, body[r].userId,
                                        body[r].instrumentId))
         /\ orders' = Append(orders, draft[r])
<1>1. draft[r] \in Rows /\ WellPlaced(body[r], key[r], close[r])
  BY DEF Inv, TypeInv, WellQuoted, Quoted
<1>2. draft[r].id \in Ids
  BY <1>1 DEF Rows
<1>3. orders' = Append(orders, draft[r])
  BY DEF Commit
<1> QED
  BY <1>1, <1>2, <1>3 DEF Inv, LockInv, DecidedOnCurrentBalances

(* A row decided on the balances it follows keeps every balance sound.     *)
LEMMA PlacedKeepsSound ==
  ASSUME orders \in Seq(Rows), Solvent(orders), Covered(orders),
         NEW row \in Rows, NEW id \in Ids, NEW b, NEW k, NEW at,
         WellPlaced(b, k, at),
         row = RowOf(id, b, k, at, AvailableCash(orders, b.userId),
                     HeldShares(orders, b.userId, b.instrumentId)),
         orders' = Append(orders, row)
  PROVE  Solvent(orders') /\ Covered(orders')
<1>1. ASSUME NEW u \in Users, NEW i
      PROVE  /\ AvailableCash(orders', u) >= Floor(AvailableCash(SeedOrders, u))
             /\ i \in Instruments =>
                  HeldShares(orders', u, i) >= Floor(HeldShares(SeedOrders, u, i))
  <2>1. /\ AvailableCash(orders', u) = AvailableCash(orders, u) + CashDelta(row, u)
        /\ HeldShares(orders', u, i) = HeldShares(orders, u, i) + ShareDelta(row, u, i)
    BY BalancesOfOneMore
  <2>2. /\ CashDelta(row, u) >= 0 \/ AvailableCash(orders, u) + CashDelta(row, u) >= 0
        /\ \/ ShareDelta(row, u, i) >= 0
           \/ HeldShares(orders, u, i) + ShareDelta(row, u, i) >= 0
    BY PlacedKeepsBalances
  <2>3. /\ AvailableCash(SeedOrders, u) \in Int /\ HeldShares(SeedOrders, u, i) \in Int
        /\ AvailableCash(orders, u) \in Int /\ HeldShares(orders, u, i) \in Int
        /\ CashDelta(row, u) \in Int /\ ShareDelta(row, u, i) \in Int
    BY OrdersAssumption, BalancesAreInt, DeltasAreInt
  <2>4. /\ AvailableCash(orders, u) >= Floor(AvailableCash(SeedOrders, u))
        /\ i \in Instruments =>
             HeldShares(orders, u, i) >= Floor(HeldShares(SeedOrders, u, i))
    BY DEF Solvent, Covered
  <2>5. /\ Floor(AvailableCash(SeedOrders, u)) \in Int
        /\ Floor(AvailableCash(SeedOrders, u)) <= 0
        /\ Floor(HeldShares(SeedOrders, u, i)) \in Int
        /\ Floor(HeldShares(SeedOrders, u, i)) <= 0
    BY <2>3 DEF Floor
  <2> QED
    BY <2>1, <2>2, <2>3, <2>4, <2>5
<1> QED
  BY <1>1 DEF Solvent, Covered

LEMMA CommitKeepsSound ==
  ASSUME Inv, Solvent(orders), Covered(orders),
         NEW r \in Requests, pc[r] = "inserted", Commit(r)
  PROVE  Solvent(orders') /\ Covered(orders')
<1>1. orders \in Seq(Rows)
  BY DEF Inv, TypeInv, TypeOK
<1> QED
  BY <1>1, CommitPlaces, PlacedKeepsSound

(* The seed is sound: its balances are its own floor, or above it.         *)
LEMMA SeedIsSound == Solvent(SeedOrders) /\ Covered(SeedOrders)
<1>1. \A u \in Users, i \in Instruments :
        /\ AvailableCash(SeedOrders, u) \in Int
        /\ HeldShares(SeedOrders, u, i) \in Int
  BY OrdersAssumption, BalancesAreInt
<1>2. \A u \in Users : AvailableCash(SeedOrders, u) \in Int
  BY OrdersAssumption, BalancesAreInt
<1>3. \A n \in Int : n >= Floor(n)
  BY DEF Floor
<1> QED
  BY <1>1, <1>2, <1>3 DEF Solvent, Covered

LEMMA CancelKeepsBalances ==
  ASSUME Inv, NEW n \in 1..Len(orders), CancelsRow(n), NEW u, NEW i
  PROVE  /\ AvailableCash(orders', u) = AvailableCash(orders, u)
         /\ HeldShares(orders', u, i) = HeldShares(orders, u, i)
  BY CancelSameTable DEF Inv, SameTableFor

(***************************************************************************)
(* No interleaving of placements, cancellations, timeouts and crashes      *)
(* overdraws a user or oversells a position.                               *)
(***************************************************************************)
THEOREM Sound == Spec => [](NoOverdraft /\ NoOversell)
<1>1. Init => Solvent(orders) /\ Covered(orders)
  BY SeedIsSound DEF Init
<1>2. Inv /\ Solvent(orders) /\ Covered(orders) /\ [Next]_vars
        => Solvent(orders') /\ Covered(orders')
  <2> SUFFICES ASSUME Inv, Solvent(orders), Covered(orders), [Next]_vars
               PROVE  Solvent(orders') /\ Covered(orders')
    OBVIOUS
  <2>1. CASE \E r \in Requests : pc[r] = "inserted" /\ Commit(r)
    BY <2>1, CommitKeepsSound
  <2>2. CASE \E n \in 1..Len(orders) : CancelsRow(n)
    BY <2>2, CancelKeepsBalances DEF Solvent, Covered
  <2>3. CASE orders' = orders
    BY <2>3
  <2> QED
    BY <2>1, <2>2, <2>3, NextOnTable DEF vars
<1>3. Solvent(orders) /\ Covered(orders) <=> NoOverdraft /\ NoOversell
  BY DEF NoOverdraft, NoOversell
<1>4. Solvent(orders') /\ Covered(orders') <=> (NoOverdraft /\ NoOversell)'
  BY DEF NoOverdraft, NoOversell
<1> QED
  BY <1>1, <1>2, <1>3, <1>4, Invariance, PTL DEF Spec

(***************************************************************************)
(* Balances only move at a COMMIT, in the hands of the user's lock.        *)
(***************************************************************************)
THEOREM LockGuardsBalances == Spec => BalancesMoveUnderTheLock
<1>1. Inv /\ [Next]_vars =>
        [ \A u \in Users, i \in Instruments :
            \/ AvailableCash(orders', u) # AvailableCash(orders, u)
            \/ HeldShares(orders', u, i) # HeldShares(orders, u, i)
            => \E r \in Requests : /\ pc[r] = "inserted" /\ pc'[r] = "committed"
                                   /\ u \in LockIds /\ lock[u] = r ]_vars
  <2> SUFFICES ASSUME Inv, Next, NEW u \in Users, NEW i \in Instruments,
                      \/ AvailableCash(orders', u) # AvailableCash(orders, u)
                      \/ HeldShares(orders', u, i) # HeldShares(orders, u, i)
               PROVE  \E r \in Requests : /\ pc[r] = "inserted" /\ pc'[r] = "committed"
                                          /\ u \in LockIds /\ lock[u] = r
    OBVIOUS
  <2>1. PICK r \in Requests : pc[r] = "inserted" /\ Commit(r)
    BY NextOnTable, CancelKeepsBalances
  <2>2. pc'[r] = "committed" /\ body[r].userId \in LockIds
    BY <2>1 DEF Commit, Goto, Inv, TypeInv, TypeOK, LockIds
  <2>3. lock[body[r].userId] = r
    BY <2>1 DEF Inv, LockInv, LockHeld, Locked
  <2>4. draft[r] \in Rows /\ draft[r].userId = body[r].userId
    BY <2>1, DraftNames DEF Inv, LockInv, TypeInv, WellQuoted
  <2>5. orders' = Append(orders, draft[r])
    BY <2>1 DEF Commit
  <2>6. draft[r].userId = u
    BY <2>4, <2>5, CommitOfAnother DEF Inv, SameTableFor
  <2> QED
    BY <2>1, <2>2, <2>3, <2>4, <2>6
<1> QED
  BY <1>1, Invariance, PTL DEF Spec, BalancesMoveUnderTheLock

-----------------------------------------------------------------------------
(* A draft took its id from the SERIAL under its user's lock, so after     *)
(* every row of that user had taken its own.                               *)
DraftsAreNewest ==
  \A r \in Requests :
    pc[r] = "inserted" =>
      \A n \in 1..Len(orders) :
        orders[n].userId = body[r].userId => orders[n].id < draft[r].id

IdsInv == IdsFollowCommits /\ DraftsAreNewest

LEMMA NextKeepsCommitOrder ==
  ASSUME Inv, IdsInv, Next
  PROVE  IdsFollowCommits'
<1> USE DEF Inv, TypeInv, TypeOK
<1>1. CASE orders' = orders
  BY <1>1 DEF IdsInv, IdsFollowCommits
<1>2. CASE \E r \in Requests : pc[r] = "inserted" /\ Commit(r)
  <2>1. PICK r \in Requests : pc[r] = "inserted" /\ Commit(r)
    BY <1>2
  <2>2. /\ orders' = Append(orders, draft[r])
        /\ draft[r].userId = body[r].userId
    BY <2>1, DraftNames DEF Commit, LockInv
  <2> SUFFICES ASSUME NEW m \in 1..Len(orders'), NEW n \in 1..Len(orders'), m < n,
                      orders'[m].userId = orders'[n].userId
               PROVE  orders'[m].id < orders'[n].id
    BY DEF IdsFollowCommits
  <2>3. m \in 1..Len(orders) /\ orders'[m] = orders[m]
    BY <2>2
  <2>4. CASE n \in 1..Len(orders)
    <3>1. orders'[n] = orders[n]
      BY <2>2, <2>4
    <3> QED
      BY <2>3, <2>4, <3>1 DEF IdsInv, IdsFollowCommits
  <2>5. CASE n \notin 1..Len(orders)
    <3>1. orders'[n] = draft[r]
      BY <2>2, <2>5
    <3>2. orders[m].userId = body[r].userId
      BY <2>2, <2>3, <3>1
    <3> QED
      BY <2>1, <2>3, <3>1, <3>2 DEF IdsInv, DraftsAreNewest
  <2> QED
    BY <2>4, <2>5
<1>3. CASE \E n \in 1..Len(orders) : CancelsRow(n)
  <2>1. /\ Len(orders') = Len(orders)
        /\ \A m \in 1..Len(orders) : /\ orders'[m].id = orders[m].id
                                     /\ orders'[m].userId = orders[m].userId
    BY <1>3, CancelKeepsNames
  <2> QED
    BY <2>1 DEF IdsInv, IdsFollowCommits
<1> QED
  BY <1>1, <1>2, <1>3, NextOnTable

LEMMA NextKeepsDraftsNewest ==
  ASSUME Inv, IdsInv, Next
  PROVE  DraftsAreNewest'
<1> USE DEF Inv, TypeInv, TypeOK
<1> SUFFICES ASSUME NEW s \in Requests, pc'[s] = "inserted",
                    NEW n \in 1..Len(orders'), orders'[n].userId = body[s].userId
             PROVE  orders'[n].id < draft'[s].id
  BY NextMoves DEF DraftsAreNewest
<1>1. CASE draft'[s].id = nextId /\ orders' = orders
  BY <1>1 DEF LockInv, IdsFresh
<1>2. CASE pc[s] = "inserted" /\ draft'[s] = draft[s]
  <2>1. CASE orders' = orders
    BY <1>2, <2>1 DEF IdsInv, DraftsAreNewest
  <2>2. CASE \E r \in Requests : pc[r] = "inserted" /\ Commit(r)
    <3>1. PICK r \in Requests : pc[r] = "inserted" /\ Commit(r)
      BY <2>2
    <3>2. /\ orders' = Append(orders, draft[r])
          /\ draft[r].userId = body[r].userId
          /\ pc'[r] = "committed"
      BY <3>1, DraftNames DEF Commit, Goto, LockInv
    <3>3. lock[body[r].userId] = r /\ lock[body[s].userId] = s
      BY <1>2, <3>1 DEF LockInv, LockHeld, Locked
    <3>4. body[r].userId # body[s].userId
      BY <3>2, <3>3
    <3>5. n \in 1..Len(orders) /\ orders'[n] = orders[n]
      BY <3>2, <3>4
    <3> QED
      BY <1>2, <3>5 DEF IdsInv, DraftsAreNewest
  <2>3. CASE \E m \in 1..Len(orders) : CancelsRow(m)
    <3>1. /\ Len(orders') = Len(orders)
          /\ \A m \in 1..Len(orders) : /\ orders'[m].id = orders[m].id
                                       /\ orders'[m].userId = orders[m].userId
      BY <2>3, CancelKeepsNames
    <3> QED
      BY <1>2, <3>1 DEF IdsInv, DraftsAreNewest
  <2> QED
    BY <2>1, <2>2, <2>3, NextOnTable
<1> QED
  BY <1>1, <1>2, NextOnSerial

(***************************************************************************)
(* A user's rows are stored in the order of their ids, so folding them by  *)
(* id folds them as they happened.                                         *)
(***************************************************************************)
THEOREM CommitsInIdOrder == Spec => []IdsFollowCommits
<1>1. Init => IdsInv
  <2> SUFFICES ASSUME Init PROVE IdsInv
    OBVIOUS
  <2>1. IdsFollowCommits
    BY PlacementAssumption, OrdersAssumption DEF Init, IdsFollowCommits
  <2>2. DraftsAreNewest
    BY DEF Init, DraftsAreNewest
  <2> QED
    BY <2>1, <2>2 DEF IdsInv
<1>2. Inv /\ IdsInv /\ [Next]_vars => IdsInv'
  <2> SUFFICES ASSUME Inv, IdsInv, [Next]_vars PROVE IdsInv'
    OBVIOUS
  <2>1. CASE Next
    BY <2>1, NextKeepsCommitOrder, NextKeepsDraftsNewest DEF IdsInv
  <2>2. CASE UNCHANGED vars
    BY <2>2 DEF vars, IdsInv, IdsFollowCommits, DraftsAreNewest
  <2> QED
    BY <2>1, <2>2
<1>3. IdsInv => IdsFollowCommits
  BY DEF IdsInv
<1> QED
  BY <1>1, <1>2, <1>3, Invariance, PTL DEF Spec

-----------------------------------------------------------------------------
(***************************************************************************)
(* The service implements AtomicOrders: its COMMITs of inserted rows are   *)
(* atomic placements, its UPDATEs atomic cancellations, and everything     *)
(* else leaves the table alone.                                            *)
(***************************************************************************)
(* Both modules read the same ledger by the same rules.                    *)
LEMMA SameLedger ==
  ASSUME NEW rows, NEW u, NEW i, NEW k
  PROVE  /\ Atomic!AvailableCash(rows, u) = AvailableCash(rows, u)
         /\ Atomic!HeldShares(rows, u, i) = HeldShares(rows, u, i)
         /\ Atomic!KeyTaken(rows, u, k) <=> KeyTaken(rows, u, k)
<1>1. \A d : Atomic!Total(d) = Total(d)
  BY DEF Atomic!Total, Total
<1>2. \A row : Atomic!CashDelta(row, u) = CashDelta(row, u)
  BY DEF Atomic!CashDelta, CashDelta
<1>3. \A row : Atomic!ShareDelta(row, u, i) = ShareDelta(row, u, i)
  BY DEF Atomic!ShareDelta, ShareDelta
<1>4. Atomic!AvailableCash(rows, u) = AvailableCash(rows, u)
  BY <1>1, <1>2 DEF Atomic!AvailableCash, AvailableCash
<1>5. Atomic!HeldShares(rows, u, i) = HeldShares(rows, u, i)
  BY <1>1, <1>3 DEF Atomic!HeldShares, HeldShares
<1>6. Atomic!KeyTaken(rows, u, k) <=> KeyTaken(rows, u, k)
  BY DEF Atomic!KeyTaken, KeyTaken
<1> QED
  BY <1>4, <1>5, <1>6

LEMMA SameRules ==
  ASSUME NEW id, NEW b, NEW k, NEW at, NEW c, NEW s
  PROVE  /\ Atomic!sizeOf(b, at) = sizeOf(b, at)
         /\ Atomic!NoSize = NoSize
         /\ Atomic!Tradable(b) <=> Tradable(b)
         /\ Atomic!RowOf(id, b, k, at, c, s) = RowOf(id, b, k, at, c, s)
         /\ Atomic!CANCELLABLE = CANCELLABLE
         /\ Atomic!Ids = Ids
<1>1. Atomic!Absent = Absent /\ Atomic!NoSize = NoSize
  BY DEF Atomic!Absent, Absent, Atomic!NoSize, NoSize
<1>2. \A size, amount, price :
        Atomic!resolveSize(size, amount, price) = resolveSize(size, amount, price)
  BY <1>1 DEF Atomic!resolveSize, resolveSize, Atomic!OneOf, OneOf,
     Atomic!BuysWholeShares, BuysWholeShares
<1>3. Atomic!sizeOf(b, at) = sizeOf(b, at)
  BY <1>1, <1>2 DEF Atomic!sizeOf, sizeOf
<1>4. \A size : Atomic!decide(b, size, at, c, s) = decide(b, size, at, c, s)
  BY <1>1 DEF Atomic!decide, decide, Atomic!executed, executed, Atomic!covered,
     covered, Atomic!accepted, accepted
<1>5. Atomic!RowOf(id, b, k, at, c, s) = RowOf(id, b, k, at, c, s)
  BY <1>3, <1>4 DEF Atomic!RowOf, RowOf
<1>6. Atomic!CANCELLABLE = CANCELLABLE
  BY DEF Atomic!CANCELLABLE, CANCELLABLE, Atomic!canTransition, canTransition,
     Atomic!TRANSITIONS, TRANSITIONS, Atomic!ORDER_STATUSES, ORDER_STATUSES
<1>7. (Atomic!Tradable(b) <=> Tradable(b)) /\ Atomic!Ids = Ids
  BY DEF Atomic!Tradable, Tradable, Atomic!Ids, Ids
<1> QED
  BY <1>1, <1>3, <1>5, <1>6, <1>7

LEMMA CommitIsPlace ==
  ASSUME Inv, NEW r \in Requests, pc[r] = "inserted", Commit(r)
  PROVE  Atomic!Next
<1> DEFINE id == draft[r].id  b == body[r]  k == key[r]  at == close[r]
<1>1. /\ id \in Ids /\ WellPlaced(b, k, at)
      /\ draft[r] = RowOf(id, b, k, at, AvailableCash(orders, b.userId),
                          HeldShares(orders, b.userId, b.instrumentId))
      /\ orders' = Append(orders, draft[r])
  BY CommitPlaces
<1>2. b \in Bodies /\ k \in Keys /\ at \in Prices
      /\ Tradable(b) /\ sizeOf(b, at) # NoSize
  BY <1>1 DEF WellPlaced
<1>3. ~ KeyTaken(orders, b.userId, k)
  BY DEF Inv, LockInv, KeyStillFree, KeyMissed
<1>4. \A n \in 1..Len(orders) : orders[n].id # id
  BY DEF Inv, LockInv, IdsFresh
<1>5. Atomic!Place(id, b, k, at)
  BY <1>1, <1>2, <1>3, <1>4, SameLedger, SameRules DEF Atomic!Place
<1>6. id \in Atomic!Ids
  BY <1>1, SameRules
<1> QED
  BY <1>2, <1>5, <1>6 DEF Atomic!Next

LEMMA CancelIsCancel ==
  ASSUME NEW n \in 1..Len(orders), CancelsRow(n)
  PROVE  Atomic!Next
<1>1. Atomic!Cancel(n)
  BY SameRules DEF CancelsRow, CancelledAt, Atomic!Cancel
<1> QED
  BY <1>1 DEF Atomic!Next

(***************************************************************************)
(* Every step of the service is one atomic step of the abstract API, or    *)
(* one that the table does not notice.                                     *)
(***************************************************************************)
THEOREM Implementation == Spec => ImplementsAtomicOrders
<1>1. Init => Atomic!Init
  BY DEF Init, Atomic!Init
<1>2. Inv /\ [Next]_vars => [Atomic!Next]_(Atomic!vars)
  <2> SUFFICES ASSUME Inv, [Next]_vars PROVE Atomic!Next \/ orders' = orders
    BY DEF Atomic!vars
  <2> QED
    BY NextOnTable, CommitIsPlace, CancelIsCancel DEF vars
<1> QED
  BY <1>1, <1>2, Invariance, PTL DEF Spec, ImplementsAtomicOrders, Atomic!Spec

-----------------------------------------------------------------------------
(***************************************************************************)
(* What the abstract API guarantees of itself, for any users, instruments, *)
(* bodies, keys and market: the promises that the service inherits.        *)
(***************************************************************************)
LEMMA SameRows == Atomic!Rows = Rows
  BY DEF Atomic!Rows, Rows, Atomic!Ids, Ids, Atomic!Sides, Sides, Atomic!SIDES,
     SIDES, Atomic!ORDER_TYPES, ORDER_TYPES, Atomic!ORDER_STATUSES, ORDER_STATUSES

(* An atomic placement appends a well-formed row.                          *)
Appends(row, id, b, k, at) ==
  /\ row = RowOf(id, b, k, at, AvailableCash(orders, b.userId),
                 HeldShares(orders, b.userId, b.instrumentId))
  /\ row.userId = b.userId /\ row.key = k
  /\ WellPlaced(b, k, at)
  /\ orders' = Append(orders, row)

LEMMA PlaceAppendsRow ==
  ASSUME orders \in Seq(Rows), NEW id \in Ids, NEW b \in Bodies,
         NEW k \in Keys, NEW at \in Prices, Atomic!Place(id, b, k, at)
  PROVE  \E row \in Rows : /\ Appends(row, id, b, k, at)
                           /\ ~ KeyTaken(orders, row.userId, row.key)
<1> DEFINE row == RowOf(id, b, k, at, AvailableCash(orders, b.userId),
                        HeldShares(orders, b.userId, b.instrumentId))
<1>1. WellPlaced(b, k, at)
  BY SameRules DEF Atomic!Place, WellPlaced
<1>2. row \in Rows
  BY <1>1, BalancesAreInt, PlacedIsRow
<1>3. row.userId = b.userId /\ row.key = k
  BY DEF RowOf
<1>4. ~ KeyTaken(orders, b.userId, k)
  BY SameLedger DEF Atomic!Place
<1>5. orders' = Append(orders, row)
  BY SameLedger, SameRules DEF Atomic!Place
<1> QED
  BY <1>1, <1>2, <1>3, <1>4, <1>5 DEF Appends

(* So the table grows by such a row, or one of its rows is cancelled.      *)
LEMMA AtomicSteps ==
  ASSUME orders \in Seq(Rows), Atomic!Next
  PROVE  \/ \E row \in Rows, id \in Ids, b \in Bodies, k \in Keys, at \in Prices :
              /\ Appends(row, id, b, k, at)
              /\ ~ KeyTaken(orders, row.userId, row.key)
         \/ \E n \in 1..Len(orders) : CancelsRow(n)
<1>1. Atomic!Ids = Ids
  BY SameRules
<1>2. CASE \E id \in Ids, b \in Bodies, k \in Keys, at \in Prices :
             Atomic!Place(id, b, k, at)
  BY <1>2, PlaceAppendsRow
<1>3. CASE \E n \in 1..Len(orders) : Atomic!Cancel(n)
  BY <1>3, SameRules DEF Atomic!Cancel, CancelsRow, CancelledAt
<1> QED
  BY <1>1, <1>2, <1>3 DEF Atomic!Next

(***************************************************************************)
(* The abstract table only ever holds rows.                                *)
(***************************************************************************)
THEOREM AtomicTypeCorrect == Atomic!Spec => []Atomic!TypeOK
<1>1. Atomic!TypeOK <=> orders \in Seq(Rows)
  BY SameRows DEF Atomic!TypeOK
<1>2. Atomic!TypeOK' <=> orders' \in Seq(Rows)
  BY SameRows DEF Atomic!TypeOK
<1>3. Atomic!Init => Atomic!TypeOK
  BY <1>1, OrdersAssumption DEF Atomic!Init
<1>4. Atomic!TypeOK /\ [Atomic!Next]_(Atomic!vars) => Atomic!TypeOK'
  <2> SUFFICES ASSUME orders \in Seq(Rows), [Atomic!Next]_(Atomic!vars)
               PROVE  orders' \in Seq(Rows)
    BY <1>1, <1>2
  <2>1. CASE \E row \in Rows : orders' = Append(orders, row)
    BY <2>1
  <2>2. CASE \E n \in 1..Len(orders) : CancelsRow(n)
    BY <2>2, CancelMovesNoBalance DEF CancelsRow
  <2>3. CASE UNCHANGED Atomic!vars
    BY <2>3 DEF Atomic!vars
  <2> QED
    BY <2>1, <2>2, <2>3, AtomicSteps DEF Appends
<1> QED
  BY <1>3, <1>4, PTL DEF Atomic!Spec

(***************************************************************************)
(* No placement overdraws a user, and none oversells a position.           *)
(***************************************************************************)
THEOREM AtomicSound == Atomic!Spec => [](NoOverdraft /\ NoOversell)
<1>1. NoOverdraft /\ NoOversell <=> Solvent(orders) /\ Covered(orders)
  BY DEF NoOverdraft, NoOversell
<1>2. (NoOverdraft /\ NoOversell)' <=> Solvent(orders') /\ Covered(orders')
  BY DEF NoOverdraft, NoOversell
<1>3. Atomic!Init => NoOverdraft /\ NoOversell
  BY <1>1, SeedIsSound DEF Atomic!Init
<1>4. Atomic!TypeOK /\ NoOverdraft /\ NoOversell /\ [Atomic!Next]_(Atomic!vars)
        => (NoOverdraft /\ NoOversell)'
  <2> SUFFICES ASSUME orders \in Seq(Rows), Solvent(orders), Covered(orders),
                      [Atomic!Next]_(Atomic!vars)
               PROVE  Solvent(orders') /\ Covered(orders')
    BY <1>1, <1>2, SameRows DEF Atomic!TypeOK
  <2>1. ASSUME NEW row \in Rows, NEW id \in Ids, NEW b \in Bodies,
               NEW k \in Keys, NEW at \in Prices,
               Appends(row, id, b, k, at)
        PROVE  Solvent(orders') /\ Covered(orders')
    BY <2>1, PlacedKeepsSound DEF Appends
  <2>2. ASSUME NEW n \in 1..Len(orders), CancelsRow(n)
        PROVE  Solvent(orders') /\ Covered(orders')
    BY <2>2, CancelMovesNoBalance DEF CancelsRow, Solvent, Covered
  <2>3. CASE UNCHANGED Atomic!vars
    BY <2>3 DEF Atomic!vars
  <2> QED
    BY <2>1, <2>2, <2>3, AtomicSteps
<1> QED
  BY <1>3, <1>4, AtomicTypeCorrect, PTL DEF Atomic!Spec

(***************************************************************************)
(* A user's key never names two rows, although the seed holds many rows    *)
(* without a key.                                                          *)
(***************************************************************************)
THEOREM AtomicKeysAreUnique == Atomic!Spec => []OneRowPerKey
<1>1. OneRowPerKey <=> UniqueKeys(orders)
  BY DEF OneRowPerKey
<1>2. OneRowPerKey' <=> UniqueKeys(orders')
  BY DEF OneRowPerKey
<1>3. Atomic!Init => OneRowPerKey
  BY <1>1, OrdersAssumption DEF Atomic!Init, UniqueKeys
<1>4. Atomic!TypeOK /\ OneRowPerKey /\ [Atomic!Next]_(Atomic!vars)
        => OneRowPerKey'
  <2> SUFFICES ASSUME orders \in Seq(Rows), UniqueKeys(orders),
                      [Atomic!Next]_(Atomic!vars)
               PROVE  UniqueKeys(orders')
    BY <1>1, <1>2, SameRows DEF Atomic!TypeOK
  <2>1. ASSUME NEW row \in Rows, orders' = Append(orders, row),
               ~ KeyTaken(orders, row.userId, row.key)
        PROVE  UniqueKeys(orders')
    <3>1. \A n \in 1..Len(orders) :
            ~ (orders[n].userId = row.userId /\ orders[n].key = row.key)
      BY <2>1 DEF KeyTaken
    <3>2. /\ Len(orders') = Len(orders) + 1 /\ Len(orders) \in Nat
          /\ orders'[Len(orders) + 1] = row
          /\ \A n \in 1..Len(orders) : orders'[n] = orders[n]
      BY <2>1
    <3>3. \A n \in 1..Len(orders') : n \in 1..Len(orders) \/ n = Len(orders) + 1
      BY <3>2
    <3> QED
      BY <3>1, <3>2, <3>3 DEF UniqueKeys
  <2>2. ASSUME NEW n \in 1..Len(orders), CancelsRow(n)
        PROVE  UniqueKeys(orders')
    <3>1. Len(orders') = Len(orders)
      BY <2>2, CancelMovesNoBalance DEF CancelsRow
    <3>2. \A m \in 1..Len(orders) : /\ orders'[m].key = orders[m].key
                                   /\ orders'[m].userId = orders[m].userId
      <4> TAKE m \in 1..Len(orders)
      <4>1. orders[m] \in Rows
        OBVIOUS
      <4>2. orders'[m] = IF m = n THEN [orders[n] EXCEPT !.status = "CANCELLED"]
                                  ELSE orders[m]
        BY <2>2 DEF CancelsRow, CancelledAt
      <4> QED
        BY <4>1, <4>2 DEF Rows
    <3> QED
      BY <3>1, <3>2 DEF UniqueKeys
  <2>3. CASE UNCHANGED Atomic!vars
    BY <2>3 DEF Atomic!vars
  <2>4. CASE Atomic!Next
    BY <2>1, <2>2, <2>4, AtomicSteps DEF Appends
  <2> QED
    BY <2>3, <2>4
<1> QED
  BY <1>3, <1>4, AtomicTypeCorrect, PTL DEF Atomic!Spec

(***************************************************************************)
(* No step rewrites history: rows are only added, and a stored row changes *)
(* only from NEW to CANCELLED.                                             *)
(***************************************************************************)
THEOREM AtomicHistoryHolds == Atomic!Spec => HistoryStands
<1>1. Atomic!TypeOK /\ [Atomic!Next]_(Atomic!vars) =>
        [ /\ Len(orders') >= Len(orders)
          /\ \A n \in 1..Len(orders) : OnlyCancels(orders[n], orders'[n]) ]_orders
  <2> SUFFICES ASSUME orders \in Seq(Rows), Atomic!Next
               PROVE  /\ Len(orders') >= Len(orders)
                      /\ \A m \in 1..Len(orders) : OnlyCancels(orders[m], orders'[m])
    BY SameRows DEF Atomic!TypeOK, Atomic!vars
  <2>1. ASSUME NEW row \in Rows, orders' = Append(orders, row)
        PROVE  /\ Len(orders') >= Len(orders)
               /\ \A m \in 1..Len(orders) : OnlyCancels(orders[m], orders'[m])
    BY <2>1 DEF OnlyCancels
  <2>2. ASSUME NEW n \in 1..Len(orders), CancelsRow(n)
        PROVE  /\ Len(orders') >= Len(orders)
               /\ \A m \in 1..Len(orders) : OnlyCancels(orders[m], orders'[m])
    <3>1. Len(orders') = Len(orders) /\ Len(orders) \in Nat
      BY <2>2, CancelMovesNoBalance DEF CancelsRow
    <3>2. orders[n].status = "NEW"
      BY <2>2 DEF CancelsRow, CANCELLABLE, canTransition, TRANSITIONS
    <3>3. \A m \in 1..Len(orders) :
            orders'[m] = IF m = n THEN [orders[n] EXCEPT !.status = "CANCELLED"]
                                  ELSE orders[m]
      BY <2>2 DEF CancelsRow, CancelledAt
    <3> QED
      BY <3>1, <3>2, <3>3 DEF OnlyCancels
  <2> QED
    BY <2>1, <2>2, AtomicSteps DEF Appends
<1> QED
  BY <1>1, AtomicTypeCorrect, PTL DEF Atomic!Spec, HistoryStands

(***************************************************************************)
(* The service inherits them, through every interleaving, timeout and      *)
(* crash: however often a key is sent, one row of its user has it.         *)
(***************************************************************************)
THEOREM KeysAreUnique == Spec => []OneRowPerKey
  BY Implementation, AtomicKeysAreUnique, PTL DEF ImplementsAtomicOrders

(***************************************************************************)
(* And whoever is answered, cut off or lost, what is committed stands.     *)
(***************************************************************************)
THEOREM HistoryHolds == Spec => HistoryStands
  BY Implementation, AtomicHistoryHolds, PTL DEF ImplementsAtomicOrders

-----------------------------------------------------------------------------
(***************************************************************************)
(* What is answered.  An id and a key each name one row of the table.      *)
(***************************************************************************)
RowsAreDistinct ==
  \A m, n \in 1..Len(orders) :
    /\ orders[m].id = orders[n].id => m = n
    /\ /\ orders[m].key \in Keys /\ orders[m].key = orders[n].key
       /\ orders[m].userId = orders[n].userId
       => m = n

(* Whoever was given an order was given the one stored under its key.      *)
NamesRowOf(n, r) ==
  /\ orders[n].id = answer[r].order.id
  /\ orders[n].userId = body[r].userId
  /\ orders[n].key = key[r]

AnswersAreStored ==
  \A r \in Requests :
    answer[r].code \in {200, 201} => \E n \in 1..Len(orders) : NamesRowOf(n, r)

(* 201 is answered after the COMMIT, once for a key, and for every row     *)
(* that a placement stored.                                                *)
Ended == {"committed", "done", "lost"}

CreatedOnce ==
  /\ \A r \in Requests : answer[r].code = 201 => pc[r] \in Ended
  /\ \A r, s \in Requests :
       answer[r].code = 201 /\ answer[s].code = 201 /\ SameOrder(r, s) => r = s
  /\ \A n \in 1..Len(orders) :
       orders[n].key \in Keys =>
         \E r \in Requests : answer[r].code = 201 /\ answer[r].order.id = orders[n].id

(* A row that was answered as cancelled is stored so, and no cancellation  *)
(* finds it cancellable again.                                             *)
CancelEnded == {"answering", "done", "lost"}

CancelledStays ==
  \A c \in Cancels :
    canswer[c].code = 200 =>
      /\ cpc[c] \in CancelEnded
      /\ \E n \in Stored(cid[c]) :
           orders[n] = canswer[c].order /\ orders[n].status = "CANCELLED"
      /\ \A d \in Cancels : canswer[d].code = 200 /\ cid[d] = cid[c] => c = d

AnswerInv == RowsAreDistinct /\ AnswersAreStored /\ CreatedOnce /\ CancelledStays

(* Rows stay where they are, and keep their names.                         *)
LEMMA RowsStay ==
  ASSUME TypeInv, Next
  PROVE  /\ orders' \in Seq(Rows)
         /\ \A n \in 1..Len(orders) :
              /\ n \in 1..Len(orders')
              /\ orders'[n].id = orders[n].id
              /\ orders'[n].userId = orders[n].userId
              /\ orders'[n].key = orders[n].key
<1> USE DEF TypeInv, TypeOK
<1>1. CASE orders' = orders
  BY <1>1
<1>2. CASE \E r \in Requests : pc[r] = "inserted" /\ Commit(r)
  <2>1. PICK r \in Requests : pc[r] = "inserted" /\ Commit(r)
    BY <1>2
  <2>2. orders' = Append(orders, draft[r]) /\ draft[r] \in Rows
    BY <2>1 DEF Commit, WellQuoted
  <2> QED
    BY <2>2
<1>3. CASE \E n \in 1..Len(orders) : CancelsRow(n)
  BY <1>3, CancelKeepsNames
<1> QED
  BY <1>1, <1>2, <1>3, NextOnTable

(* A COMMIT adds one row, with the names of its request.                   *)
LEMMA CommitStores ==
  ASSUME Inv, NEW r \in Requests, pc[r] = "inserted", Commit(r)
  PROVE  /\ Len(orders) \in Nat /\ Len(orders') = Len(orders) + 1
         /\ \A n \in 1..Len(orders) : orders'[n] = orders[n]
         /\ orders'[Len(orders) + 1] = draft[r]
         /\ draft[r].userId = body[r].userId /\ draft[r].key = key[r]
         /\ \A n \in 1..Len(orders) : orders[n].id # draft[r].id
         /\ ~ KeyTaken(orders, body[r].userId, key[r])
         /\ answer' = [answer EXCEPT ![r] = [code |-> 201, order |-> draft[r]]]
         /\ pc' = [pc EXCEPT ![r] = "committed"]
         /\ body' = body /\ key' = key
<1>1. draft[r] \in Rows /\ orders' = Append(orders, draft[r]) /\ orders \in Seq(Rows)
  BY CommitPlaces DEF Inv, TypeInv, TypeOK
<1>2. draft[r].userId = body[r].userId /\ draft[r].key = key[r]
  BY DraftNames DEF Inv, LockInv
<1>3. \A n \in 1..Len(orders) : orders[n].id # draft[r].id
  BY DEF Inv, LockInv, IdsFresh
<1>4. ~ KeyTaken(orders, body[r].userId, key[r])
  BY DEF Inv, LockInv, KeyStillFree, KeyMissed
<1>5. /\ answer' = [answer EXCEPT ![r] = [code |-> 201, order |-> draft[r]]]
      /\ pc' = [pc EXCEPT ![r] = "committed"]
      /\ body' = body /\ key' = key
  BY DEF Commit, Answer, Goto
<1>6. /\ Len(orders) \in Nat /\ Len(orders') = Len(orders) + 1
      /\ \A n \in 1..Len(orders) : orders'[n] = orders[n]
      /\ orders'[Len(orders) + 1] = draft[r]
  BY <1>1
<1> QED
  BY <1>2, <1>3, <1>4, <1>5, <1>6

LEMMA NextKeepsRowsDistinct ==
  ASSUME Inv, RowsAreDistinct, Next
  PROVE  RowsAreDistinct'
<1> USE DEF RowsAreDistinct
<1>1. CASE orders' = orders
  BY <1>1
<1>2. CASE \E r \in Requests : pc[r] = "inserted" /\ Commit(r)
  <2>1. PICK r \in Requests : pc[r] = "inserted" /\ Commit(r)
    BY <1>2
  <2>2. \A n \in 1..Len(orders') : n \in 1..Len(orders) \/ n = Len(orders) + 1
    BY <2>1, CommitStores
  <2>3. \A n \in 1..Len(orders) :
          ~ (orders[n].userId = draft[r].userId /\ orders[n].key = draft[r].key)
    BY <2>1, CommitStores DEF KeyTaken
  <2> QED
    BY <2>1, <2>2, <2>3, CommitStores
<1>3. CASE \E n \in 1..Len(orders) : CancelsRow(n)
  BY <1>3, CancelKeepsNames DEF Inv, TypeInv
<1> QED
  BY <1>1, <1>2, <1>3, NextOnTable

(***************************************************************************)
(* What one step does to one answer: nothing, to an answer already due     *)
(* least of all; or a refusal; or a replay; or the answer of its COMMIT.   *)
(***************************************************************************)
Replays(s) ==
  /\ byIdempotencyKey(s)
  /\ KeyTaken(orders, body[s].userId, key[s])
  /\ answer'[s] = [code  |-> 200, order |-> WithKey(orders, body[s].userId, key[s])]

LEMMA NextOnAnswers ==
  ASSUME TypeInv, Next, NEW s \in Requests
  PROVE  /\ \/ answer'[s] = answer[s]
            \/ answer'[s].code \notin {200, 201}
            \/ Replays(s)
            \/ pc[s] = "inserted" /\ Commit(s)
         /\ pc[s] \in Ended => pc'[s] \in Ended /\ answer'[s] = answer[s]
<1> USE DEF TypeInv, TypeOK, Goto, Answer, Refuse
<1>1. CASE \E c \in Cancels : SendCancel(c) \/ CancelStep(c) \/ StarveCancel(c)
  <2>1. pc' = pc /\ answer' = answer
    BY <1>1 DEF SendCancel, CancelStep, StarveCancel, cancel, statusOf, RespondCancel
  <2> QED
    BY <2>1
<1>2. CASE MarketMoves
  BY <1>2 DEF MarketMoves
<1>3. CASE Crash
  BY <1>3 DEF Crash, Ended, InTx, Running, Locked
<1>4. ASSUME NEW r \in Requests, Send(r) \/ Step(r) \/ Shed(r) \/ Expire(r)
      PROVE  /\ \/ answer'[s] = answer[s]
                \/ answer'[s].code \notin {200, 201}
                \/ Replays(s)
                \/ pc[s] = "inserted" /\ Commit(s)
             /\ pc[s] \in Ended => pc'[s] \in Ended /\ answer'[s] = answer[s]
  <2>1. CASE s # r
    <3>1. pc'[s] = pc[s] /\ answer'[s] = answer[s]
      BY <1>4, <2>1 DEF Send, Step, Shed, Expire, Begin, lockPlacements,
         byIdempotencyKey, tradableClose, availableCash, heldShares, insert, Commit,
         Respond, Rollback
    <3> QED
      BY <3>1
  <2>2. CASE s = r
    <3>1. CASE Send(r) \/ Begin(r) \/ lockPlacements(r) \/ availableCash(r)
                 \/ Respond(r) \/ Rollback(r)
      BY <2>2, <3>1 DEF Send, Begin, lockPlacements, availableCash, Respond, Rollback,
         Ended
    <3>2. CASE Shed(r) \/ tradableClose(r) \/ heldShares(r) \/ insert(r) \/ Expire(r)
      <4>1. /\ pc[r] \notin Ended
            /\ \/ answer' = answer
               \/ \E code \in {400, 404, 500, 503} :
                    answer' = [answer EXCEPT ![r] = Refusal(code)]
        BY <3>2 DEF Shed, tradableClose, refusalCode, heldShares, insert, Expire, Ended,
           Running, Locked
      <4> QED
        BY <2>2, <4>1 DEF Refusal
    <3>3. CASE byIdempotencyKey(r)
      BY <2>2, <3>3 DEF byIdempotencyKey, Replays, Ended
    <3>4. CASE Commit(r)
      BY <2>2, <3>4 DEF Commit, Ended
    <3> QED
      BY <1>4, <3>1, <3>2, <3>3, <3>4 DEF Step
  <2> QED
    BY <2>1, <2>2
<1> QED
  BY <1>1, <1>2, <1>3, <1>4 DEF Next

LEMMA NextKeepsAnswersStored ==
  ASSUME Inv, AnswersAreStored, Next
  PROVE  AnswersAreStored'
<1> USE DEF Inv
<1> SUFFICES ASSUME NEW s \in Requests, answer'[s].code \in {200, 201}
             PROVE  \E n \in 1..Len(orders') :
                      /\ orders'[n].id = answer'[s].order.id
                      /\ orders'[n].userId = body[s].userId
                      /\ orders'[n].key = key[s]
  BY NextMoves DEF AnswersAreStored, NamesRowOf
<1>1. CASE answer'[s] = answer[s]
  <2>1. PICK n \in 1..Len(orders) : NamesRowOf(n, s)
    BY <1>1 DEF AnswersAreStored
  <2> QED
    BY <1>1, <2>1, RowsStay DEF NamesRowOf
<1>2. CASE Replays(s)
  <2>1. PICK n \in 1..Len(orders) :
          /\ orders[n] = WithKey(orders, body[s].userId, key[s])
          /\ orders[n].userId = body[s].userId /\ orders[n].key = key[s]
    BY <1>2 DEF Replays, KeyTaken, WithKey
  <2>2. answer'[s].order = orders[n]
    BY <1>2, <2>1 DEF Replays
  <2> QED
    BY <2>1, <2>2, RowsStay
<1>3. CASE pc[s] = "inserted" /\ Commit(s)
  <2>1. answer'[s].order = draft[s]
    BY <1>3, CommitStores DEF TypeInv, TypeOK
  <2>2. Len(orders) + 1 \in 1..Len(orders')
    BY <1>3, CommitStores
  <2> QED
    BY <1>3, <2>1, <2>2, CommitStores
<1> QED
  BY <1>1, <1>2, <1>3, NextOnAnswers

LEMMA NextKeepsCreatedOnce ==
  ASSUME Inv, RowsAreDistinct, AnswersAreStored, CreatedOnce, Next
  PROVE  CreatedOnce'
<1> USE DEF Inv
(* An answer 201 is an old one, or that of the COMMIT of this step.        *)
<1>1. ASSUME NEW s \in Requests, answer'[s].code = 201
      PROVE  \/ answer[s].code = 201 /\ answer'[s] = answer[s]
             \/ pc[s] = "inserted" /\ Commit(s)
  <2>1. CASE answer'[s] = answer[s]
    BY <1>1, <2>1
  <2>2. ~ Replays(s)
    BY <1>1 DEF Replays
  <2> QED
    BY <1>1, <2>1, <2>2, NextOnAnswers
<1>2. ASSUME NEW s \in Requests, answer'[s].code = 201
      PROVE  pc'[s] \in Ended
  <2>1. CASE answer[s].code = 201
    BY <2>1, NextOnAnswers DEF CreatedOnce
  <2>2. CASE pc[s] = "inserted" /\ Commit(s)
    BY <2>2, CommitStores DEF TypeInv, TypeOK, Ended
  <2> QED
    BY <1>1, <1>2, <2>1, <2>2
<1>3. ASSUME NEW r \in Requests, NEW s \in Requests,
             pc[r] = "inserted", Commit(r), answer[s].code = 201
      PROVE  ~ SameOrder(r, s)
  <2>1. PICK n \in 1..Len(orders) : NamesRowOf(n, s)
    BY <1>3 DEF AnswersAreStored
  <2>2. ~ KeyTaken(orders, body[r].userId, key[r])
    BY <1>3, CommitStores
  <2> QED
    BY <2>1, <2>2 DEF KeyTaken, NamesRowOf, SameOrder
<1>4. ASSUME NEW r \in Requests, NEW s \in Requests, answer'[r].code = 201,
             answer'[s].code = 201, SameOrder(r, s)
      PROVE  r = s
  <2>1. CASE answer[r].code = 201 /\ answer[s].code = 201
    BY <1>4, <2>1 DEF CreatedOnce
  <2>2. CASE pc[r] = "inserted" /\ Commit(r)
    <3>1. ASSUME pc[s] = "inserted", Commit(s)
          PROVE  r = s
      BY <2>2, <3>1, CommitStores DEF TypeInv, TypeOK
    <3> QED
      BY <1>1, <1>3, <1>4, <2>2, <3>1
  <2>3. CASE pc[s] = "inserted" /\ Commit(s) /\ answer[r].code = 201
    BY <1>3, <1>4, <2>3 DEF SameOrder
  <2> QED
    BY <1>1, <1>4, <2>1, <2>2, <2>3
<1>5. ASSUME NEW n \in 1..Len(orders'), orders'[n].key \in Keys
      PROVE  \E r \in Requests :
               answer'[r].code = 201 /\ answer'[r].order.id = orders'[n].id
  <2>1. CASE n \in 1..Len(orders)
    <3>1. orders[n].key \in Keys /\ orders'[n].id = orders[n].id
      BY <1>5, <2>1, RowsStay
    <3>2. PICK r \in Requests : answer[r].code = 201 /\ answer[r].order.id = orders[n].id
      BY <2>1, <3>1 DEF CreatedOnce
    <3>3. answer'[r] = answer[r]
      BY <3>2, NextOnAnswers DEF CreatedOnce
    <3> QED
      BY <3>1, <3>2, <3>3
  <2>2. CASE n \notin 1..Len(orders)
    <3>1. PICK r \in Requests : pc[r] = "inserted" /\ Commit(r)
      BY <1>5, <2>2, NextOnTable, CancelKeepsNames DEF TypeInv
    <3>2. n = Len(orders) + 1
      BY <1>5, <2>2, <3>1, CommitStores
    <3>3. answer'[r] = [code |-> 201, order |-> draft[r]] /\ orders'[n] = draft[r]
      BY <3>1, <3>2, CommitStores DEF TypeInv, TypeOK
    <3> QED
      BY <3>3
  <2> QED
    BY <2>1, <2>2
<1>6. body' = body /\ key' = key
  <2>1. CASE Requests = {}
    BY <2>1 DEF Next, SendCancel, CancelStep, StarveCancel, cancel, statusOf,
       RespondCancel, MarketMoves, Crash
  <2> QED
    BY <2>1, NextMoves
<1> QED
  BY <1>2, <1>4, <1>5, <1>6 DEF CreatedOnce, SameOrder

(***************************************************************************)
(* One UPDATE matches: the row it cancels is the only one of its id, and   *)
(* no cancellation had been answered for it.                               *)
(***************************************************************************)
LEMMA CancelMatches ==
  ASSUME Inv, NEW c \in Cancels, cancel(c), Cancellable(cid[c]) # {}
  PROVE  \E n \in Cancellable(cid[c]) :
           /\ CancelsRow(n)
           /\ canswer' = [canswer EXCEPT ![c] = [code |-> 200, order |-> orders'[n]]]
           /\ cpc' = [cpc EXCEPT ![c] = "answering"]
           /\ cid' = cid
           /\ orders'[n].status = "CANCELLED" /\ orders'[n].id = cid[c]
           /\ \A m \in 1..Len(orders) : m # n => orders'[m] = orders[m]
<1>1. PICK n \in Cancellable(cid[c]) :
        /\ orders' = CancelledAt(orders, n)
        /\ canswer' = [canswer EXCEPT ![c] = [code |-> 200, order |-> orders'[n]]]
        /\ cpc' = [cpc EXCEPT ![c] = "answering"]
  BY DEF cancel, CancelledAt
<1>2. n \in 1..Len(orders) /\ orders[n].status \in CANCELLABLE /\ orders[n].id = cid[c]
  BY DEF Cancellable, Stored
<1>3. orders \in Seq(Rows) /\ orders[n] \in Rows
  BY <1>2 DEF Inv, TypeInv, TypeOK
<1>4. /\ orders'[n] = [orders[n] EXCEPT !.status = "CANCELLED"]
      /\ \A m \in 1..Len(orders) : m # n => orders'[m] = orders[m]
  BY <1>1, <1>2, <1>3 DEF CancelledAt
<1>5. orders'[n].status = "CANCELLED" /\ orders'[n].id = cid[c]
  BY <1>2, <1>3, <1>4 DEF Rows
<1>6. CancelsRow(n) /\ cid' = cid
  BY <1>1, <1>2 DEF CancelsRow, cancel
<1> QED
  BY <1>1, <1>4, <1>5, <1>6

(* What one step does to the answer of one cancellation.                   *)
LEMMA NextOnCancels ==
  ASSUME TypeInv, Next, NEW d \in Cancels
  PROVE  /\ cid' = cid
         /\ \/ canswer'[d] = canswer[d]
            \/ canswer'[d].code # 200
            \/ cancel(d) /\ Cancellable(cid[d]) # {}
         /\ cpc[d] \in CancelEnded => cpc'[d] \in CancelEnded /\ canswer'[d] = canswer[d]
<1> USE DEF TypeInv, TypeOK
<1>1. ASSUME NEW r \in Requests, Send(r) \/ Step(r) \/ Shed(r) \/ Expire(r)
      PROVE  UNCHANGED cancels
  BY <1>1 DEF Send, Step, Shed, Expire, Begin, lockPlacements, byIdempotencyKey,
     tradableClose, availableCash, heldShares, insert, Commit, Respond, Rollback
<1>2. CASE UNCHANGED cancels
  BY <1>2 DEF cancels
<1>3. CASE MarketMoves
  BY <1>2, <1>3 DEF MarketMoves
<1>4. CASE Crash
  BY <1>4 DEF Crash, CancelEnded
<1>5. ASSUME NEW c \in Cancels, SendCancel(c) \/ CancelStep(c) \/ StarveCancel(c)
      PROVE  /\ cid' = cid
             /\ \/ canswer'[d] = canswer[d]
                \/ canswer'[d].code # 200
                \/ cancel(d) /\ Cancellable(cid[d]) # {}
             /\ cpc[d] \in CancelEnded =>
                  cpc'[d] \in CancelEnded /\ canswer'[d] = canswer[d]
  <2>1. CASE SendCancel(c) \/ RespondCancel(c) \/ StarveCancel(c) \/ statusOf(c)
    <3>1. /\ cid' = cid
          /\ \/ canswer' = canswer
             \/ canswer' = [canswer EXCEPT ![c] = Refusal(404)]
             \/ canswer' = [canswer EXCEPT ![c] = Refusal(500)]
             \/ \E n \in Stored(cid[c]) :
                  canswer' = [canswer EXCEPT ![c] = [code |-> 409, order |-> orders[n]]]
      BY <2>1 DEF SendCancel, RespondCancel, StarveCancel, statusOf
    <3>2. canswer'[d] = canswer[d] \/ canswer'[d].code # 200
      BY <3>1 DEF Refusal
    <3>3. cpc[d] \in CancelEnded => cpc'[d] \in CancelEnded /\ canswer'[d] = canswer[d]
      BY <2>1 DEF SendCancel, RespondCancel, StarveCancel, statusOf, CancelEnded
    <3> QED
      BY <3>1, <3>2, <3>3
  <2>2. CASE cancel(c) /\ c # d
    BY <2>2 DEF cancel
  <2>3. CASE cancel(c) /\ c = d
    BY <2>3 DEF cancel, CancelEnded
  <2> QED
    BY <1>5, <2>1, <2>2, <2>3 DEF CancelStep
<1> QED
  BY <1>1, <1>2, <1>3, <1>4, <1>5 DEF Next

LEMMA CancelledIsFinal == "CANCELLED" \notin CANCELLABLE
  BY DEF CANCELLABLE, canTransition, TRANSITIONS

LEMMA NextKeepsCancelled ==
  ASSUME Inv, RowsAreDistinct, CancelledStays, Next
  PROVE  CancelledStays'
<1> USE DEF Inv
(* A cancelled row is not touched again.                                   *)
<1>1. ASSUME NEW n \in 1..Len(orders), orders[n].status = "CANCELLED"
      PROVE  n \in 1..Len(orders') /\ orders'[n] = orders[n]
  <2>1. CASE \E r \in Requests : pc[r] = "inserted" /\ Commit(r)
    BY <2>1, CommitStores, RowsStay
  <2>2. CASE \E m \in 1..Len(orders) : CancelsRow(m)
    <3>1. PICK m \in 1..Len(orders) : CancelsRow(m)
      BY <2>2
    <3>2. m # n
      BY <1>1, <3>1, CancelledIsFinal DEF CancelsRow
    <3>3. orders \in Seq(Rows) /\ orders' = CancelledAt(orders, m)
      BY <3>1 DEF CancelsRow, TypeInv, TypeOK
    <3> QED
      BY <1>1, <3>2, <3>3, RowsStay DEF CancelledAt
  <2>3. CASE orders' = orders
    BY <2>3
  <2> QED
    BY <2>1, <2>2, <2>3, NextOnTable
<1>2. ASSUME NEW c \in Cancels, canswer[c].code = 200
      PROVE  /\ canswer'[c] = canswer[c] /\ cid' = cid /\ cpc'[c] \in CancelEnded
             /\ \E n \in 1..Len(orders') :
                  /\ orders'[n].id = cid[c]
                  /\ orders'[n] = canswer'[c].order /\ orders'[n].status = "CANCELLED"
  <2>1. canswer'[c] = canswer[c] /\ cid' = cid /\ cpc'[c] \in CancelEnded
    BY <1>2, NextOnCancels DEF CancelledStays
  <2>2. PICK n \in Stored(cid[c]) :
          orders[n] = canswer[c].order /\ orders[n].status = "CANCELLED"
    BY <1>2 DEF CancelledStays
  <2>3. n \in 1..Len(orders') /\ orders'[n] = orders[n] /\ orders[n].id = cid[c]
    BY <1>1, <2>2 DEF Stored
  <2> QED
    BY <2>1, <2>2, <2>3
<1>3. ASSUME NEW c \in Cancels, cancel(c), Cancellable(cid[c]) # {}
      PROVE  /\ cid' = cid /\ cpc'[c] \in CancelEnded
             /\ \E n \in 1..Len(orders') :
                  /\ orders'[n].id = cid[c]
                  /\ orders'[n] = canswer'[c].order /\ orders'[n].status = "CANCELLED"
             /\ \A d \in Cancels : cid[d] = cid[c] => canswer[d].code # 200
             /\ \A d \in Cancels : d # c => canswer'[d] = canswer[d]
  <2>1. PICK n \in Cancellable(cid[c]) :
           /\ CancelsRow(n)
           /\ canswer' = [canswer EXCEPT ![c] = [code |-> 200, order |-> orders'[n]]]
           /\ cpc' = [cpc EXCEPT ![c] = "answering"]
           /\ cid' = cid
           /\ orders'[n].status = "CANCELLED" /\ orders'[n].id = cid[c]
           /\ \A m \in 1..Len(orders) : m # n => orders'[m] = orders[m]
    BY <1>3, CancelMatches
  <2>2. /\ n \in 1..Len(orders) /\ n \in 1..Len(orders')
        /\ orders[n].id = cid[c] /\ orders[n].status \in CANCELLABLE
    BY RowsStay DEF Cancellable, Stored
  <2>3. ASSUME NEW d \in Cancels, cid[d] = cid[c], canswer[d].code = 200
        PROVE  FALSE
    <3>1. PICK m \in Stored(cid[d]) : orders[m].status = "CANCELLED"
      BY <2>3 DEF CancelledStays
    <3>2. m \in 1..Len(orders) /\ orders[m].id = cid[c]
      BY <2>3, <3>1 DEF Stored
    <3>3. m = n
      BY <2>2, <3>2 DEF RowsAreDistinct
    <3> QED
      BY <2>2, <3>1, <3>3, CancelledIsFinal
  <2>4. /\ cpc'[c] \in CancelEnded /\ canswer'[c].order = orders'[n]
        /\ \A d \in Cancels : d # c => canswer'[d] = canswer[d]
    BY <2>1 DEF TypeInv, TypeOK, CancelEnded
  <2> QED
    BY <2>1, <2>2, <2>3, <2>4
<1>4. ASSUME NEW c \in Cancels, canswer'[c].code = 200
      PROVE  \/ canswer[c].code = 200
             \/ cancel(c) /\ Cancellable(cid[c]) # {}
  BY <1>4, NextOnCancels
<1>5. ASSUME NEW c \in Cancels, canswer'[c].code = 200
      PROVE  /\ cpc'[c] \in CancelEnded
             /\ \E n \in Stored(cid[c])' :
                  orders'[n] = canswer'[c].order /\ orders'[n].status = "CANCELLED"
  BY <1>2, <1>3, <1>4, <1>5 DEF Stored
<1>6. ASSUME NEW c \in Cancels, NEW d \in Cancels, canswer'[c].code = 200,
             canswer'[d].code = 200, cid'[d] = cid'[c]
      PROVE  c = d
  <2>1. cid' = cid
    BY NextOnCancels
  <2>2. CASE canswer[c].code = 200 /\ canswer[d].code = 200
    <3>1. cid[d] = cid[c]
      BY <1>6, <2>1
    <3>2. \A e \in Cancels : canswer[e].code = 200 /\ cid[e] = cid[c] => c = e
      BY <2>2 DEF CancelledStays
    <3> QED
      BY <2>2, <3>1, <3>2
  <2>3. CASE cancel(c) /\ Cancellable(cid[c]) # {}
    <3>1. cid[d] = cid[c]
      BY <1>6, <2>1
    <3>2. /\ canswer[d].code # 200
          /\ d # c => canswer'[d] = canswer[d]
      BY <1>3, <2>3, <3>1
    <3> QED
      BY <1>6, <3>2
  <2>4. CASE cancel(d) /\ Cancellable(cid[d]) # {}
    <3>1. cid[c] = cid[d]
      BY <1>6, <2>1
    <3>2. /\ canswer[c].code # 200
          /\ c # d => canswer'[c] = canswer[c]
      BY <1>3, <2>4, <3>1
    <3> QED
      BY <1>6, <3>2
  <2> QED
    BY <1>4, <1>6, <2>2, <2>3, <2>4
<1> QED
  BY <1>5, <1>6 DEF CancelledStays

LEMMA InitAnswerInv == Init => AnswerInv
<1> SUFFICES ASSUME Init PROVE AnswerInv
  OBVIOUS
<1>1. /\ \A r \in Requests : answer[r].code = 0
      /\ \A c \in Cancels : canswer[c].code = 0
      /\ orders = SeedOrders
  BY DEF Init, NoAnswer
<1>2. RowsAreDistinct
  BY <1>1, OrdersAssumption DEF RowsAreDistinct
<1> QED
  BY <1>1, <1>2, OrdersAssumption
  DEF AnswerInv, AnswersAreStored, CreatedOnce, CancelledStays

LEMMA NextKeepsAnswerInv == Inv /\ AnswerInv /\ [Next]_vars => AnswerInv'
<1> SUFFICES ASSUME Inv, AnswerInv, [Next]_vars PROVE AnswerInv'
  OBVIOUS
<1>1. CASE Next
  BY <1>1, NextKeepsRowsDistinct, NextKeepsAnswersStored, NextKeepsCreatedOnce,
     NextKeepsCancelled DEF AnswerInv
<1>2. CASE UNCHANGED vars
  BY <1>2 DEF vars, AnswerInv, RowsAreDistinct, AnswersAreStored, NamesRowOf, CreatedOnce,
     SameOrder, CancelledStays, Stored
<1> QED
  BY <1>1, <1>2

LEMMA AnswersInvariance == Spec => []AnswerInv
  BY InitAnswerInv, NextKeepsAnswerInv, Invariance, PTL DEF Spec

(***************************************************************************)
(* A key names one order in every answer about it, and at most one answer  *)
(* says the order was created: the rows under a key are one, and every     *)
(* answer names it.                                                        *)
(***************************************************************************)
THEOREM OneOrderPerKey == Spec => []AnswersNameOneOrder
<1>1. Inv /\ AnswerInv => AnswersNameOneOrder
  <2> SUFFICES ASSUME Inv, AnswerInv, NEW r \in Requests, NEW s \in Requests,
                      SameOrder(r, s),
                      answer[r].code \in {200, 201}, answer[s].code \in {200, 201}
               PROVE  /\ answer[r].order.id = answer[s].order.id
                      /\ answer[r].code = 201 /\ answer[s].code = 201 => r = s
    BY DEF AnswersNameOneOrder
  <2>1. PICK m \in 1..Len(orders) : NamesRowOf(m, r)
    BY DEF AnswerInv, AnswersAreStored
  <2>2. PICK n \in 1..Len(orders) : NamesRowOf(n, s)
    BY DEF AnswerInv, AnswersAreStored
  <2>3. key[r] \in Keys
    BY DEF Inv, TypeInv, TypeOK
  <2>4. m = n
    BY <2>1, <2>2, <2>3 DEF AnswerInv, RowsAreDistinct, NamesRowOf, SameOrder
  <2> QED
    BY <2>1, <2>2, <2>4 DEF AnswerInv, CreatedOnce, NamesRowOf
<1> QED
  BY <1>1, Invariance, AnswersInvariance, PTL

(***************************************************************************)
(* What is stored and what was answered as created are the same orders.    *)
(***************************************************************************)
THEOREM AnsweredAsStored == Spec => []StoredAsAnswered
<1>1. AnswerInv => StoredAsAnswered
  BY DEF AnswerInv, AnswersAreStored, NamesRowOf, CreatedOnce, Ended, StoredAsAnswered
<1> QED
  BY <1>1, AnswersInvariance, PTL

(***************************************************************************)
(* A cancellation is answered to one caller, and stays.                    *)
(***************************************************************************)
THEOREM CancelsOnce == Spec => []CancelledOnce
<1>1. AnswerInv => CancelledOnce
  BY DEF AnswerInv, CancelledStays, CancelledOnce
<1> QED
  BY <1>1, AnswersInvariance, PTL
=============================================================================
