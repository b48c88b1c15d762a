----------------------------- MODULE Placement ------------------------------
(***************************************************************************)
(* OrdersService: the requests that place orders and the ones that cancel  *)
(* them, statement by statement, against one Postgres database.            *)
(*                                                                         *)
(* A placement is an interactive transaction under READ COMMITTED.  It     *)
(* takes a connection from the pool, waits for its user's advisory lock,   *)
(* and from then on every statement sees what was committed before that    *)
(* statement.  Its row is visible to others at COMMIT, which also frees    *)
(* the lock and the connection.  A cancellation is one UPDATE and, when    *)
(* that matches no row, one SELECT, each on a connection of its own.       *)
(***************************************************************************)
EXTENDS OrderPromises, FiniteSets

CONSTANTS
  Requests,       \* POST /orders requests
  Cancels,        \* PATCH /orders/:id/cancel requests
  PoolSize,       \* connections in the Prisma pool
  Quotes,         \* the latest_closes the market goes through
  NoClose,        \* an instrument without market data
  NoRow,          \* no order in the answer, or no draft yet
  NoHolder,       \* nobody holds the lock
  MaxCrashes      \* bound: how often the API process dies

ASSUME PlacementAssumption ==
  /\ PoolSize \in Nat \ {0}
  /\ IsFiniteSet(Requests)
  /\ Quotes \subseteq [Instruments -> Prices \cup {NoClose}]
  /\ NoClose \notin Prices
  /\ NoRow \notin Rows
  /\ NoHolder \notin Requests
  /\ \A n \in 1..Len(SeedOrders) : SeedOrders[n].id = n
  /\ MaxCrashes \in Nat

VARIABLES
  nextId,         \* the SERIAL behind orders.id; a rollback leaves a gap
  closes,         \* view latest_closes
  lock,           \* advisory lock (PLACEMENTS_LOCK, userId) -> its holder
  pc,             \* where each placement is
  body, key,      \* what each placement was sent with
  close, cash, shares, \* what each placement has read
  draft,          \* the row it inserted and has not committed
  answer,         \* status code and order it answers with
  cpc, cid,       \* where each cancellation is, and the id it names
  canswer,
  crashes

reads   == <<close, cash, shares>>
cancels == <<cpc, cid, canswer>>
vars    == <<orders, nextId, closes, lock, pc, body, key, close, cash, shares,
             draft, answer, cpc, cid, canswer, crashes>>

-----------------------------------------------------------------------------
Locked  == {"locked", "keyFree", "quoted", "cashRead", "decided", "inserted",
            "replaying"}
Running == {"locking"} \cup Locked
InTx    == Running \cup {"aborting"}
PCs     == InTx \cup {"unsent", "connecting", "committed", "orphaned", "done", "lost"}

CPCs    == {"unsent", "updating", "missed", "answering", "done", "lost"}

NoAnswer == [code |-> 0, order |-> NoRow]

Refusal(code) == [code |-> code, order |-> NoRow]

LockIds == {b.userId : b \in Bodies}

FreeConnection == Cardinality({r \in Requests : pc[r] \in InTx}) < PoolSize

Init ==
  /\ orders = SeedOrders
  /\ nextId = Len(SeedOrders) + 1
  /\ closes \in Quotes
  /\ lock = [u \in LockIds |-> NoHolder]
  /\ pc = [r \in Requests |-> "unsent"]
  /\ body \in [Requests -> Bodies]
  /\ key \in [Requests -> Keys]
  /\ close = [r \in Requests |-> NoClose]
  /\ cash = [r \in Requests |-> 0]
  /\ shares = [r \in Requests |-> 0]
  /\ draft = [r \in Requests |-> NoRow]
  /\ answer = [r \in Requests |-> NoAnswer]
  /\ cpc = [c \in Cancels |-> "unsent"]
  /\ cid \in [Cancels -> Ids]
  /\ canswer = [c \in Cancels |-> NoAnswer]
  /\ crashes = 0

-----------------------------------------------------------------------------
(***************************************************************************)
(* The steps of a placement.  Goto and Refuse name what most of them share: *)
(* the next statement, and an exception thrown inside the transaction.     *)
(***************************************************************************)
Goto(r, at) == pc' = [pc EXCEPT ![r] = at]

Answer(r, with) == answer' = [answer EXCEPT ![r] = with]

Refuse(r, code) ==
  /\ Goto(r, "aborting")
  /\ Answer(r, Refusal(code))

Unlock(r) ==
  lock' = [u \in LockIds |-> IF lock[u] = r THEN NoHolder ELSE lock[u]]

(***************************************************************************)
(* The transaction is over: its callback returned, and its locals with it. *)
(***************************************************************************)
Forget(r) ==
  /\ close' = [close EXCEPT ![r] = NoClose]
  /\ cash' = [cash EXCEPT ![r] = 0]
  /\ shares' = [shares EXCEPT ![r] = 0]
  /\ draft' = [draft EXCEPT ![r] = NoRow]

(***************************************************************************)
(* The request arrives, its body and key past the validation.              *)
(***************************************************************************)
Send(r) ==
  /\ pc[r] = "unsent"
  /\ Goto(r, "connecting")
  /\ UNCHANGED <<orders, nextId, closes, lock, body, key, reads, draft, answer,
                 cancels, crashes>>

(***************************************************************************)
(* $transaction: BEGIN on a pooled connection, or P2028 after maxWait.     *)
(***************************************************************************)
Begin(r) ==
  /\ pc[r] = "connecting"
  /\ FreeConnection
  /\ Goto(r, "locking")
  /\ UNCHANGED <<orders, nextId, closes, lock, body, key, reads, draft, answer,
                 cancels, crashes>>

Shed(r) ==
  /\ pc[r] = "connecting"
  /\ ~ FreeConnection
  /\ Goto(r, "done")
  /\ Answer(r, Refusal(503))
  /\ UNCHANGED <<orders, nextId, closes, lock, body, key, reads, draft, cancels,
                 crashes>>

(* Mutant of lockPlacements: the lock is taken on a pooled connection, not *)
(* on the transaction's, and is free again when the statement returns.     *)
lockOnThePool(r) ==
  /\ pc[r] = "locking"
  /\ lock[body[r].userId] = NoHolder
  /\ Goto(r, "locked")
  /\ UNCHANGED <<orders, nextId, closes, lock, body, key, reads, draft, answer,
                 cancels, crashes>>

lockPlacements(r) ==
  /\ pc[r] = "locking"
  /\ lock[body[r].userId] = NoHolder
  /\ lock' = [lock EXCEPT ![body[r].userId] = r]
  /\ Goto(r, "locked")
  /\ UNCHANGED <<orders, nextId, closes, body, key, reads, draft, answer,
                 cancels, crashes>>

(***************************************************************************)
(* A key already spent is answered with the row it was spent on.           *)
(***************************************************************************)
byIdempotencyKey(r) ==
  /\ pc[r] = "locked"
  /\ \/ /\ KeyTaken(orders, body[r].userId, key[r])
        /\ Goto(r, "replaying")
        /\ Answer(r, [code  |-> 200,
                      order |-> WithKey(orders, body[r].userId, key[r])])
     \/ /\ ~ KeyTaken(orders, body[r].userId, key[r])
        /\ Goto(r, "keyFree")
        /\ UNCHANGED answer
  /\ UNCHANGED <<orders, nextId, closes, lock, body, key, reads, draft, cancels,
                 crashes>>

(***************************************************************************)
(* userExists, tradableClose and resolveSize: only the close can change    *)
(* between two of these, so they are one step at the reading of the close. *)
(***************************************************************************)
Refused(b, at) ==
  \/ b.userId \notin Users
  \/ b.instrumentId \notin Instruments \ Currency
  \/ at = NoClose
  \/ at # NoClose /\ sizeOf(b, at) = NoSize

refusalCode(b) ==
  IF b.userId \notin Users \/ b.instrumentId \notin Instruments THEN 404 ELSE 400

closeOf(instrument) ==
  IF instrument \in Instruments THEN closes[instrument] ELSE NoClose

tradableClose(r) ==
  LET b == body[r]  at == closeOf(b.instrumentId) IN
  /\ pc[r] = "keyFree"
  /\ \/ /\ Refused(b, at)
        /\ Refuse(r, refusalCode(b))
        /\ UNCHANGED close
     \/ /\ ~ Refused(b, at)
        /\ Goto(r, "quoted")
        /\ close' = [close EXCEPT ![r] = at]
        /\ UNCHANGED answer
  /\ UNCHANGED <<orders, nextId, closes, lock, body, key, cash, shares, draft,
                 cancels, crashes>>

(* Mutant of availableCash: read through the pool, inside the transaction. *)
cashOnThePool(r) ==
  /\ pc[r] = "quoted"
  /\ FreeConnection
  /\ cash' = [cash EXCEPT ![r] = AvailableCash(orders, body[r].userId)]
  /\ Goto(r, "cashRead")
  /\ UNCHANGED <<orders, nextId, closes, lock, body, key, close, shares, draft,
                 answer, cancels, crashes>>

availableCash(r) ==
  /\ pc[r] = "quoted"
  /\ cash' = [cash EXCEPT ![r] = AvailableCash(orders, body[r].userId)]
  /\ Goto(r, "cashRead")
  /\ UNCHANGED <<orders, nextId, closes, lock, body, key, close, shares, draft,
                 answer, cancels, crashes>>

heldShares(r) ==
  LET held == HeldShares(orders, body[r].userId, body[r].instrumentId) IN
  /\ pc[r] = "cashRead"
  /\ \/ /\ FitsInt4(held)
        /\ shares' = [shares EXCEPT ![r] = held]
        /\ Goto(r, "decided")
        /\ UNCHANGED answer
     \/ /\ ~ FitsInt4(held)
        /\ Refuse(r, 500)
        /\ UNCHANGED shares
  /\ UNCHANGED <<orders, nextId, closes, lock, body, key, close, cash, draft,
                 cancels, crashes>>

(***************************************************************************)
(* The INSERT of the decided row.  The SERIAL moves whatever becomes of    *)
(* it, and runs out at the end of its range.  The unique index makes it    *)
(* wait for an uncommitted row with its key, and fails it on a stored one. *)
(***************************************************************************)
Contends(r, s) ==
  /\ s # r
  /\ pc[s] = "inserted"
  /\ body[s].userId = body[r].userId
  /\ key[s] = key[r]

decidedRow(r) ==
  RowOf(nextId, body[r], key[r], close[r], cash[r], shares[r])

insert(r) ==
  /\ pc[r] = "decided"
  /\ \A s \in Requests : ~ Contends(r, s)
  /\ \/ /\ nextId \in Ids
        /\ ~ KeyTaken(orders, body[r].userId, key[r])
        /\ draft' = [draft EXCEPT ![r] = decidedRow(r)]
        /\ nextId' = nextId + 1
        /\ Goto(r, "inserted")
        /\ UNCHANGED answer
     \/ /\ nextId \in Ids
        /\ KeyTaken(orders, body[r].userId, key[r])
        /\ nextId' = nextId + 1
        /\ Refuse(r, 500)
        /\ UNCHANGED draft
     \/ /\ nextId \notin Ids
        /\ Refuse(r, 500)
        /\ UNCHANGED <<nextId, draft>>
  /\ UNCHANGED <<orders, closes, lock, body, key, reads, cancels, crashes>>

(***************************************************************************)
(* COMMIT, of the inserted row or of a replay that wrote nothing.          *)
(***************************************************************************)
Commit(r) ==
  /\ \/ /\ pc[r] = "inserted"
        /\ orders' = Append(orders, draft[r])
        /\ Answer(r, [code |-> 201, order |-> draft[r]])
     \/ /\ pc[r] = "replaying"
        /\ UNCHANGED <<orders, answer>>
  /\ Goto(r, "committed")
  /\ Unlock(r)
  /\ Forget(r)
  /\ UNCHANGED <<nextId, closes, body, key, cancels, crashes>>

Respond(r) ==
  /\ pc[r] = "committed"
  /\ Goto(r, "done")
  /\ UNCHANGED <<orders, nextId, closes, lock, body, key, reads, draft, answer,
                 cancels, crashes>>


(* Mutant of Expire: the timer still runs after the COMMIT.                *)
expireLate(r) ==
  /\ pc[r] \in Running \cup {"committed"}
  /\ Refuse(r, 503)
  /\ UNCHANGED <<orders, nextId, closes, lock, body, key, reads, draft, cancels,
                 crashes>>

(***************************************************************************)
(* P2028 once BEGIN is 10 s ago, wherever the transaction is by then.      *)
(***************************************************************************)
Expire(r) ==
  /\ pc[r] \in Running
  /\ Refuse(r, 503)
  /\ UNCHANGED <<orders, nextId, closes, lock, body, key, reads, draft, cancels,
                 crashes>>

(***************************************************************************)
(* ROLLBACK, asked for after an exception or by Postgres itself when the   *)
(* connection dropped: the draft is gone, the lock and connection free.    *)
(***************************************************************************)
Rollback(r) ==
  /\ \/ pc[r] = "aborting" /\ Goto(r, "done")
     \/ pc[r] = "orphaned" /\ Goto(r, "lost")
  /\ Unlock(r)
  /\ Forget(r)
  /\ UNCHANGED <<orders, nextId, closes, body, key, answer, cancels, crashes>>

-----------------------------------------------------------------------------
(***************************************************************************)
(* The steps of a cancellation.                                            *)
(***************************************************************************)
SendCancel(c) ==
  /\ cpc[c] = "unsent"
  /\ cpc' = [cpc EXCEPT ![c] = "updating"]
  /\ UNCHANGED <<orders, nextId, closes, lock, pc, body, key, reads, draft,
                 answer, cid, canswer, crashes>>

Stored(id) == {n \in 1..Len(orders) : orders[n].id = id}

(* Mutant of Cancellable: an UPDATE with no condition on the status.       *)
anyStatus(id) == Stored(id)

Cancellable(id) == {n \in Stored(id) : orders[n].status \in CANCELLABLE}

cancel(c) ==
  /\ cpc[c] = "updating"
  /\ FreeConnection
  /\ \/ \E n \in Cancellable(cid[c]) :
          /\ orders' = [orders EXCEPT ![n].status = "CANCELLED"]
          /\ canswer' = [canswer EXCEPT ![c] = [code |-> 200, order |-> orders'[n]]]
          /\ cpc' = [cpc EXCEPT ![c] = "answering"]
     \/ /\ Cancellable(cid[c]) = {}
        /\ cpc' = [cpc EXCEPT ![c] = "missed"]
        /\ UNCHANGED <<orders, canswer>>
  /\ UNCHANGED <<nextId, closes, lock, pc, body, key, reads, draft, answer, cid,
                 crashes>>

statusOf(c) ==
  /\ cpc[c] = "missed"
  /\ FreeConnection
  /\ cpc' = [cpc EXCEPT ![c] = "answering"]
  /\ \/ \E n \in Stored(cid[c]) :
          canswer' = [canswer EXCEPT ![c] = [code |-> 409, order |-> orders[n]]]
     \/ /\ Stored(cid[c]) = {}
        /\ canswer' = [canswer EXCEPT ![c] = Refusal(404)]
  /\ UNCHANGED <<orders, nextId, closes, lock, pc, body, key, reads, draft,
                 answer, cid, crashes>>

(***************************************************************************)
(* Neither statement of cancel() maps the pool's own timeout (P2024).      *)
(***************************************************************************)
StarveCancel(c) ==
  /\ cpc[c] \in {"updating", "missed"}
  /\ ~ FreeConnection
  /\ cpc' = [cpc EXCEPT ![c] = "answering"]
  /\ canswer' = [canswer EXCEPT ![c] = Refusal(500)]
  /\ UNCHANGED <<orders, nextId, closes, lock, pc, body, key, reads, draft,
                 answer, cid, crashes>>

RespondCancel(c) ==
  /\ cpc[c] = "answering"
  /\ cpc' = [cpc EXCEPT ![c] = "done"]
  /\ UNCHANGED <<orders, nextId, closes, lock, pc, body, key, reads, draft,
                 answer, cid, canswer, crashes>>

-----------------------------------------------------------------------------
(***************************************************************************)
(* The world around: the market moves, and the API process dies and is     *)
(* started again.  What it had in flight is never answered; an open        *)
(* transaction stays with its Postgres backend until that rolls it back.   *)
(***************************************************************************)
MarketMoves ==
  /\ closes' \in Quotes
  /\ UNCHANGED <<orders, nextId, lock, pc, body, key, reads, draft, answer,
                 cancels, crashes>>

Crash ==
  /\ crashes < MaxCrashes
  /\ crashes' = crashes + 1
  /\ pc' = [r \in Requests |->
              IF pc[r] \in InTx THEN "orphaned"
              ELSE IF pc[r] \in {"connecting", "committed"} THEN "lost" ELSE pc[r]]
  /\ cpc' = [c \in Cancels |->
              IF cpc[c] \in {"updating", "missed", "answering"} THEN "lost"
              ELSE cpc[c]]
  /\ UNCHANGED <<orders, nextId, closes, lock, body, key, reads, draft, answer,
                 cid, canswer>>

Step(r) ==
  \/ Begin(r) \/ lockPlacements(r) \/ byIdempotencyKey(r) \/ tradableClose(r)
  \/ availableCash(r) \/ heldShares(r) \/ insert(r) \/ Commit(r) \/ Respond(r)
  \/ Rollback(r)

CancelStep(c) == cancel(c) \/ statusOf(c) \/ RespondCancel(c)

Next ==
  \/ \E r \in Requests : Send(r) \/ Step(r) \/ Shed(r) \/ Expire(r)
  \/ \E c \in Cancels : SendCancel(c) \/ CancelStep(c) \/ StarveCancel(c)
  \/ MarketMoves
  \/ Crash

(***************************************************************************)
(* Fairness is of what the processes do by themselves.  Nothing is assumed *)
(* of clients, of the market, of crashes, or of any timeout.               *)
(***************************************************************************)
Fairness ==
  /\ \A r \in Requests : WF_vars(Step(r))
  /\ \A c \in Cancels : WF_vars(CancelStep(c))

Spec == Init /\ [][Next]_vars /\ Fairness

-----------------------------------------------------------------------------
Answers == [code : {0, 200, 201, 400, 404, 409, 500, 503}, order : Rows \cup {NoRow}]

TypeOK ==
  /\ orders \in Seq(Rows)
  /\ nextId \in Nat
  /\ closes \in Quotes
  /\ lock \in [LockIds -> Requests \cup {NoHolder}]
  /\ pc \in [Requests -> PCs]
  /\ body \in [Requests -> Bodies]
  /\ key \in [Requests -> Keys]
  /\ close \in [Requests -> Prices \cup {NoClose}]
  /\ cash \in [Requests -> Int]
  /\ shares \in [Requests -> Int]
  /\ draft \in [Requests -> Rows \cup {NoRow}]
  /\ answer \in [Requests -> Answers]
  /\ cpc \in [Cancels -> CPCs]
  /\ cid \in [Cancels -> Ids]
  /\ canswer \in [Cancels -> Answers]
  /\ crashes \in 0..MaxCrashes

(***************************************************************************)
(* Under the lock a key that misses is still free at the insert, so the    *)
(* unique index never has to refuse a row (orders.service.ts:109).         *)
(***************************************************************************)
BackstopNeverFires ==
  \A r \in Requests :
    pc[r] = "decided" => ~ KeyTaken(orders, body[r].userId, key[r])

(***************************************************************************)
(* The decision is still right when it commits: the row about to appear is *)
(* the one the balances of this moment give, not of when they were read.   *)
(***************************************************************************)
DecidedOnCurrentBalances ==
  \A r \in Requests :
    LET b == body[r] IN
    pc[r] = "inserted" =>
      draft[r] = RowOf(draft[r].id, b, key[r], close[r],
                       AvailableCash(orders, b.userId),
                       HeldShares(orders, b.userId, b.instrumentId))

(***************************************************************************)
(* A user's orders commit in the order of their ids, although a SERIAL     *)
(* promises no such thing.  It is what makes the running fold of the load  *)
(* harness, in id order, a balance the user really had (invariants.ts:147).*)
(***************************************************************************)
IdsFollowCommits ==
  \A m, n \in 1..Len(orders) :
    m < n /\ orders[m].userId = orders[n].userId => orders[m].id < orders[n].id

(***************************************************************************)
(* However often and however concurrently an order is re-sent, its key     *)
(* names one order in every answer, and one answer says it was created.    *)
(***************************************************************************)
SameOrder(r, s) == body[r].userId = body[s].userId /\ key[r] = key[s]

AnswersNameOneOrder ==
  \A r, s \in Requests :
    /\ SameOrder(r, s)
    /\ answer[r].code \in {200, 201}
    /\ answer[s].code \in {200, 201}
    => /\ answer[r].order.id = answer[s].order.id
       /\ answer[r].code = 201 /\ answer[s].code = 201 => r = s

(***************************************************************************)
(* A row is stored if and only if a request got to answer 201 for it: one  *)
(* shed, refused or failed leaves nothing behind, and may be sent again    *)
(* (orders.service.ts:69, orders.controller.ts:46).                        *)
(***************************************************************************)
StoredAsAnswered ==
  /\ \A r \in Requests :
       answer[r].code = 201 =>
         /\ pc[r] \in {"committed", "done", "lost"}
         /\ \E n \in 1..Len(orders) : orders[n].id = answer[r].order.id
  /\ \A n \in 1..Len(orders) :
       orders[n].key \in Keys =>
         \E r \in Requests :
           answer[r].code = 201 /\ answer[r].order.id = orders[n].id

(***************************************************************************)
(* A cancellation answers 200 to one caller only, and what it answered     *)
(* stays so (orders.service.ts:83).                                        *)
(***************************************************************************)
CancelledOnce ==
  \A c, d \in Cancels :
    canswer[c].code = 200 =>
      /\ \E n \in Stored(cid[c]) : orders[n] = canswer[c].order
      /\ canswer[d].code = 200 /\ cid[d] = cid[c] => c = d

(***************************************************************************)
(* Balances only move at the COMMIT of whoever holds the user's lock.  It  *)
(* is why cancel needs no lock: it never moves one (orders.service.ts:83). *)
(***************************************************************************)
BalancesMoveUnderTheLock ==
  [][ \A u \in Users, i \in Instruments :
        \/ AvailableCash(orders', u) # AvailableCash(orders, u)
        \/ HeldShares(orders', u, i) # HeldShares(orders, u, i)
        => \E r \in Requests : /\ pc[r] = "inserted" /\ pc'[r] = "committed"
                               /\ u \in LockIds /\ lock[u] = r ]_vars

(***************************************************************************)
(* The service is linearizable: with each placement taking effect at its   *)
(* COMMIT and each cancellation at its UPDATE, what it does to the table   *)
(* is what AtomicOrders does.                                              *)
(***************************************************************************)
Atomic == INSTANCE AtomicOrders

ImplementsAtomicOrders == Atomic!Spec

(***************************************************************************)
(* Every request sent is answered, or lost with the process: nobody waits  *)
(* for ever on a lock or a connection, even if no timeout ever rescues it. *)
(***************************************************************************)
EveryRequestAnswered ==
  /\ \A r \in Requests : pc[r] = "connecting" ~> pc[r] \in {"done", "lost"}
  /\ \A c \in Cancels : cpc[c] = "updating" ~> cpc[c] \in {"done", "lost"}
=============================================================================
