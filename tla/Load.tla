-------------------------------- MODULE Load --------------------------------
(***************************************************************************)
(* LoadService: one load run beside the simulation's own orders.  The run  *)
(* fires its orders in waves through SimulationService.place() (module     *)
(* Simulation), waits for its users to stand still, gathers evidence from  *)
(* the API, the database, the shadow and the ring of attempts, one after   *)
(* the other, and judges.                                                  *)
(*                                                                         *)
(* The target is external, and may be one that misbehaves: Faults is what  *)
(* it may do wrong.  Time is left out, so every call of the model is young *)
(* enough for unansweredIn to count it.  The model ends with the verdict:  *)
(* how a run begins and ends for those around it is module Loop's.         *)
(***************************************************************************)
EXTENDS Simulation, AttemptsStore, LoadInvariants

CONSTANTS
  Profiles,         \* what start() may be asked for
  Own,              \* slots of the run's orders, by their place in the plan
  LoopUsers,        \* the users of the simulation's config
  LoopOrders,       \* what the simulation's loop may send
  SeedRows,         \* the orders table when the harness starts
  HOT_INSTRUMENT, TRADABLE_INSTRUMENTS,
  LIMIT_PRICE,
  Faults,           \* what the target may do wrong, once
  MaxTrouble,       \* bound on losses, faults and orders of the loop together
  Null

Others == Slots \ Own       \* orders of the simulation's loop

VARIABLES
  rows,             \* the orders table
  cancelling,       \* cancellations in flight
  store,            \* AttemptsStore
  run,              \* where execute() is
  tally,            \* what it has made of its calls so far
  evidence,         \* what check() has read so far
  alarms,           \* the invariants it found broken
  faults, doubts    \* history

runner == <<run, tally, evidence, alarms, doubts>>
loadVars == <<vars, rows, cancelling, store, runner, faults>>

(***************************************************************************)
(* A row of the orders table, under its id, with the call that placed it;  *)
(* what the seed stored, or what nobody sent, has no call.                 *)
(***************************************************************************)
Rows ==
  [ call : Slots \cup {Null}, userId : Users, instrumentId : Instruments,
    side : SIDES \cup {"CASH_IN", "CASH_OUT"}, size : Nat, price : Int,
    status : ORDER_STATUSES ]

-----------------------------------------------------------------------------
(***************************************************************************)
(* profiles.ts: the step at each place of the plan, and how many steps are *)
(* in the wave that follows sent of them.  A profile names its cancelMix   *)
(* by the period it comes to.                                              *)
(***************************************************************************)
SIZES == <<1, 2, 3>>

instrumentAt(profile, index) ==
  IF profile.sameInstrument THEN HOT_INSTRUMENT
  ELSE TRADABLE_INSTRUMENTS[1 + (index % Len(TRADABLE_INSTRUMENTS))]

LoadOrder(profile, index) ==
  [ userId       |-> IF profile.mode = "contention" THEN profile.users[1]
                     ELSE profile.users[1 + (index % Len(profile.users))],
    instrumentId |-> instrumentAt(profile, index),
    side         |-> IF index % 2 = 0 THEN "BUY" ELSE "SELL",
    size         |-> SIZES[1 + (index % 3)],
    type         |-> "MARKET",
    price        |-> Absent ]

Resting(profile, index) ==
  [LoadOrder(profile, index) EXCEPT
     !.side = "BUY", !.size = 1, !.type = "LIMIT", !.price = LIMIT_PRICE]

stepAt(profile, index) ==
  LET cancels == profile.mode = "contention" /\ profile.period >= 2 IN
  IF cancels /\ index % profile.period = 0
  THEN [kind |-> "place", order |-> Resting(profile, index)]
  ELSE IF cancels /\ index % profile.period = 1
  THEN [kind |-> "cancel", order |-> Resting(profile, index)]
  ELSE [kind |-> "place", order |-> LoadOrder(profile, index)]

(* A ramp climbs from one over the first half of the run.                  *)
concurrencyAt(profile, sent) ==
  IF profile.mode = "ramp"
  THEN 1 + ((profile.concurrency - 1) * Min({2 * sent, profile.totalOrders}))
             \div profile.totalOrders
  ELSE profile.concurrency

WaveAfter(profile, sent) ==
  sent + 1 .. sent + Min({concurrencyAt(profile, sent), profile.totalOrders - sent})

touched(profile) ==
  IF profile.mode = "contention" THEN {profile.users[1]}
  ELSE {profile.users[i] : i \in DOMAIN profile.users}

(***************************************************************************)
(* What the profiles ask for can be asked for; and the seed leaves nobody  *)
(* under nothing, with the portfolios the API starts from.                 *)
(***************************************************************************)
ASSUME LoadAssumption ==
  /\ Own \subseteq Slots \cap (Nat \ {0})
  /\ LoopOrders \subseteq Menu
  /\ LoopUsers \in Rosters
  /\ Null \notin Slots \cup Nat
  /\ \A profile \in Profiles :
       /\ profile.users \in Seq(Users) \ {<<>>}
       /\ LoopUsers \cup touched(profile) \in Rosters
       /\ 1 .. profile.totalOrders \subseteq Own
       /\ \A index \in Own : stepAt(profile, index - 1).order \in Menu

ASSUME SeedAssumption ==
  /\ SeedRows \in Seq(Rows)
  /\ \A n \in DOMAIN SeedRows : SeedRows[n].call = Null
  /\ noOverdraft(SeedRows)
  /\ \A u \in Users :
       /\ Opening[u].cash = cashFold(SeedRows, OwnedBy(SeedRows, u))
       /\ \A i \in Instruments :
            Opening[u].shares[i] = shareFold(SeedRows, Position(SeedRows, u, i))

-----------------------------------------------------------------------------
NoRun == [phase |-> "idle", profile |-> Null, planned |-> 0, wave |-> {}, mark |-> 0,
          left |-> {}]

NoTally == [sent |-> 0, pending |-> {}, placements |-> {}, resting |-> <<>>,
            cancelled |-> {}, byStatus |-> [s \in {"ok", "refused", "shed", "none"} |-> 0]]

NoCash == [u \in {} |-> 0]

NoEvidence == [before |-> NoCash, first |-> NoCash, rows |-> <<>>, second |-> NoCash]

LoadInit ==
  /\ Init
  /\ rows = SeedRows
  /\ cancelling = {}
  /\ store = emptyStore
  /\ run = NoRun
  /\ tally = NoTally
  /\ evidence = NoEvidence
  /\ alarms = {}
  /\ faults = {}
  /\ doubts = {}

(* A wave is fired in one go: until it is, nothing else happens.  The model *)
(* ends with the verdict, or with the run's failure.                       *)
Firing == run.wave # {}
Judged == run.phase = "judged"
Idle == ~ Firing /\ ~ Judged /\ run.phase # "failed"

Bounded ==
  losses' + Cardinality(faults') + Cardinality({s \in Others : at'[s] # "unsent"}) <= MaxTrouble

Phase(phase) == run' = [run EXCEPT !.phase = phase]

runUsers == touched(run.profile)

(* The loop stays down while prepare() waits for portfolios.               *)
Preparing == \E read \in reads : read.for = "all"

(***************************************************************************)
(* An attempt goes into the ring.  Its call, which an attempt does not     *)
(* name, is history: only the properties ask for it.                       *)
(***************************************************************************)
recordAttempt(kind, status, orderId, call) ==
  store' = record(store, [id |-> 0, kind |-> kind, status |-> status, orderId |-> orderId,
                          call |-> call])

-----------------------------------------------------------------------------
(* start(): one run at a time, and here just one.                          *)
start(profile) ==
  /\ run.phase = "idle"
  /\ run' = [NoRun EXCEPT !.phase = "opening", !.profile = profile]
  /\ UNCHANGED <<vars, rows, cancelling, store, tally, evidence, alarms, doubts, faults>>

(* The simulation may have been started before.                            *)
StartLoop ==
  /\ run.phase = "idle" /\ ledger.generation = 0
  /\ seedUsers(LoopUsers)
  /\ UNCHANGED <<rows, cancelling, store, runner, faults>>

(* execute() takes its mark, while the loop goes on.                       *)
highWaterMark ==
  /\ run.phase = "opening"
  /\ run' = [run EXCEPT !.phase = "marked", !.mark = Len(rows)]
  /\ UNCHANGED <<vars, rows, cancelling, store, tally, evidence, alarms, doubts, faults>>

(* prepare(): the shadow is read anew, for the loop's users and the run's. *)
prepare ==
  /\ run.phase = "marked"
  /\ Phase("preparing")
  /\ seedUsers(LoopUsers \cup runUsers)
  /\ UNCHANGED <<rows, cancelling, store, tally, evidence, alarms, doubts, faults>>

(***************************************************************************)
(* fold: the settled calls the ring still has go into the totals.          *)
(***************************************************************************)
Newest == recent(store, ATTEMPTS_CAPACITY)

Foldable == {i \in DOMAIN Newest : Newest[i].id \in tally.pending}

(* A mutant of fold: what is counted stays pending, and is counted again.  *)
foldAgain ==
  [tally EXCEPT
     !.byStatus = [s \in DOMAIN @ |->
                     @[s] + Cardinality({i \in Foldable : Newest[i].status = s})]]

fold ==
  [tally EXCEPT
     !.pending = @ \ {Newest[i].id : i \in Foldable},
     !.byStatus = [s \in DOMAIN @ |->
                     @[s] + Cardinality({i \in Foldable : Newest[i].status = s})]]

Unsettled ==
  \/ \E s \in Own : s \in InFlight
  \/ cancelling # {}

(* The last wave has settled: fold it, and plan the next, if there is one. *)
NextWave ==
  LET wave == WaveAfter(run.profile, run.planned) IN
  /\ Idle
  /\ \/ run.phase = "preparing" /\ ~ Preparing
     \/ run.phase = "placing" /\ ~ Unsettled
  /\ run' = IF wave # {}
            THEN [run EXCEPT !.phase = "placing", !.wave = wave, !.planned = Max(wave)]
            ELSE [run EXCEPT !.phase = "quiescing"]
  /\ tally' = fold
  /\ UNCHANGED <<vars, rows, cancelling, store, evidence, alarms, doubts, faults>>

(***************************************************************************)
(* fire: a cancel step takes the oldest resting order, or places one.      *)
(***************************************************************************)
fire(index) ==
  LET step == stepAt(run.profile, index - 1) IN
  /\ Firing /\ index = Min(run.wave)
  /\ run' = [run EXCEPT !.wave = @ \ {index}]
  /\ \/ /\ step.kind = "cancel" /\ tally.resting # <<>>
        /\ cancelling' = cancelling \cup {[orderId |-> Head(tally.resting), answer |-> "none"]}
        /\ tally' = [tally EXCEPT !.resting = Tail(@)]
        /\ UNCHANGED vars
     \/ /\ step.kind = "place" \/ tally.resting = <<>>
        /\ place(index, step.order)
        /\ UNCHANGED <<cancelling, tally>>
  /\ UNCHANGED <<rows, store, evidence, alarms, doubts, faults>>

tick(s, order) ==
  /\ Idle /\ ~ Preparing
  /\ place(s, order)
  /\ UNCHANGED <<rows, cancelling, store, runner, faults>>
  /\ Bounded

-----------------------------------------------------------------------------
(***************************************************************************)
(* The target executes an order and stores its row, cancels a NEW row, or  *)
(* does either when nobody waits for the answer any more.                  *)
(***************************************************************************)
RowOf(s, order, decision) ==
  [ call |-> s, userId |-> order.userId, instrumentId |-> order.instrumentId,
    side |-> order.side, size |-> order.size, price |-> decision.price,
    status |-> decision.status ]

Stores(s, order, decision) == rows' = Append(rows, RowOf(s, order, decision))

execute(s) ==
  /\ Idle
  /\ \/ Execute(s) /\ Stores(s, held[s].order, Decision(held[s].order))
     \/ LateCommit(s) /\ Stores(s, row[s].order, Decision(row[s].order))
  /\ UNCHANGED <<cancelling, store, runner, faults>>

Cancellable(orderId) == orderId \in DOMAIN rows /\ rows[orderId].status = "NEW"

executeCancel(cancel) ==
  /\ Idle /\ cancel.answer = "none"
  /\ cancelling' = (cancelling \ {cancel}) \cup
       {[cancel EXCEPT !.answer = IF Cancellable(cancel.orderId) THEN "ok" ELSE "refused"]}
  /\ rows' = IF Cancellable(cancel.orderId)
             THEN [rows EXCEPT ![cancel.orderId].status = "CANCELLED"] ELSE rows
  /\ UNCHANGED <<vars, store, runner, faults>>

shed(s) ==
  /\ Idle
  /\ Shed(s)
  /\ UNCHANGED <<rows, cancelling, store, runner, faults>>

-----------------------------------------------------------------------------
(***************************************************************************)
(* place() and cancel() after their await: the attempt is in the ring with *)
(* the order it names, and the run takes note of its own.                  *)
(***************************************************************************)
IdOf(s) ==
  IF \E n \in DOMAIN rows : rows[n].call = s
  THEN CHOOSE n \in DOMAIN rows : rows[n].call = s
  ELSE 0      \* the target answered for an order it did not store

issued == [tally EXCEPT !.sent = @ + 1, !.pending = @ \cup {store.nextId}]

Noted(s, d) ==
  [issued EXCEPT
     !.placements = @ \cup {[orderId |-> IdOf(s), status |-> d.status,
                             size |-> held[s].order.size, price |-> d.price]},
     !.resting = IF d.status = "NEW" THEN Append(@, IdOf(s)) ELSE @]

answer(s) ==
  LET placed == execution[s] # NoExecution IN
  /\ Idle
  /\ Answer(s)
  /\ recordAttempt("place", IF placed THEN "ok" ELSE "shed", IF placed THEN IdOf(s) ELSE Null,
                   s)
  /\ tally' = IF s \notin Own THEN tally
              ELSE IF placed THEN Noted(s, execution[s]) ELSE issued
  /\ UNCHANGED <<rows, cancelling, run, evidence, alarms, doubts, faults>>

loseAnswer(s) ==
  /\ Idle
  /\ Lose(s)
  /\ recordAttempt("place", "none", Null, s)
  /\ tally' = IF s \in Own THEN issued ELSE tally
  /\ UNCHANGED <<rows, cancelling, run, evidence, alarms, doubts, faults>>
  /\ Bounded

answerCancel(cancel) ==
  /\ Idle /\ cancel.answer # "none"
  /\ cancelling' = cancelling \ {cancel}
  /\ recordAttempt("cancel", cancel.answer, Null, Null)
  /\ tally' = [issued EXCEPT
                 !.cancelled = IF cancel.answer = "ok" THEN @ \cup {cancel.orderId} ELSE @]
  /\ UNCHANGED <<vars, rows, run, evidence, alarms, doubts, faults>>

(* Whether it was carried out or not, nobody learns.                       *)
loseCancel(cancel) ==
  /\ Idle
  /\ losses < MaxLosses /\ losses' = losses + 1
  /\ cancelling' = cancelling \ {cancel}
  /\ recordAttempt("cancel", "none", Null, Null)
  /\ tally' = issued
  /\ UNCHANGED <<service, calls, portfolio, history, rows, run, evidence, alarms, doubts, faults>>
  /\ Bounded

portfolioRead(read) ==
  /\ Idle
  /\ \/ ReadPortfolio(read) /\ UNCHANGED store
     \/ seedUser(read) /\ recordAttempt("read", "ok", Null, Null)
     \/ FailRead(read) /\ recordAttempt("read", "none", Null, Null)
  /\ UNCHANGED <<rows, cancelling, runner, faults>>
  /\ Bounded

-----------------------------------------------------------------------------
(***************************************************************************)
(* waitForQuiesce: until nothing is outstanding, or for as long as it may; *)
(* nothing is made of which it was.  check() opens with what the shadow    *)
(* says then.                                                              *)
(***************************************************************************)
Snapshot == [u \in runUsers |-> ledger.users[u]]

waitForQuiesce ==
  /\ Idle /\ run.phase = "quiescing"
  /\ run' = [run EXCEPT !.phase = "first", !.left = runUsers]
  /\ evidence' = [evidence EXCEPT !.before = Snapshot]
  /\ UNCHANGED <<vars, rows, cancelling, store, tally, alarms, doubts, faults>>

(* readCash: the users' balances at the API, one by one.                   *)
AfterCash == IF run.phase = "first" THEN "ledger" ELSE "judging"

readCash(u) ==
  /\ Idle /\ run.phase \in {"first", "second"} /\ u \in run.left
  /\ run' = [run EXCEPT !.left = @ \ {u}, !.phase = IF run.left = {u} THEN AfterCash ELSE @]
  /\ \/ /\ evidence' = [evidence EXCEPT ![run.phase] =
                          [v \in DOMAIN @ \cup {u} |->
                             IF v = u THEN portfolio[u].cash ELSE @[v]]]
        /\ recordAttempt("read", "ok", Null, Null)
        /\ UNCHANGED losses
     \/ /\ losses < MaxLosses /\ losses' = losses + 1
        /\ recordAttempt("read", "none", Null, Null)
        /\ UNCHANGED evidence
  /\ UNCHANGED <<service, calls, portfolio, history, rows, cancelling, tally, alarms, doubts,
                 faults>>
  /\ Bounded

readLedger ==
  /\ Idle /\ run.phase = "ledger"
  /\ run' = [run EXCEPT !.phase = "second", !.left = runUsers]
  /\ evidence' = [evidence EXCEPT !.rows =
                    [n \in {m \in DOMAIN rows : rows[m].userId \in runUsers} |-> rows[n]]]
  /\ UNCHANGED <<vars, rows, cancelling, store, tally, alarms, doubts, faults>>

(***************************************************************************)
(* What is made of the evidence.                                           *)
(***************************************************************************)
stillCash(first, second) ==
  LET still == {u \in DOMAIN first \cap DOMAIN second : first[u] = second[u]}
  IN  [u \in still |-> first[u]]

comparable(before, after) ==
  LET trusted == {u \in DOMAIN before \cap DOMAIN after :
                    /\ before[u].seeded
                    /\ ~ before[u].uncertain /\ ~ after[u].uncertain
                    /\ before[u].outstanding = 0 /\ after[u].outstanding = 0
                    /\ before[u].cash = after[u].cash}
  IN  [u \in trusted |-> before[u].cash]

InRing == {store.buffer[i].orderId : i \in DOMAIN store.buffer} \ {Null}

acknowledged == InRing \cup {placement.orderId : placement \in tally.placements}

(* A mutant of unansweredIn: what the ring shows of the loop is left out.  *)
lostByTheRun == tally.byStatus["none"] + Cardinality(tally.pending)

unansweredIn ==
  Cardinality({i \in DOMAIN store.buffer :
                 store.buffer[i].kind = "place" /\ store.buffer[i].status = "none"})
    + tally.byStatus["none"] + Cardinality(tally.pending)

(***************************************************************************)
(* What the evidence cannot show, for the properties: the rows past the    *)
(* mark of an order of the loop of which the ring shows nothing, since its *)
(* answer is still on its way or its attempt has left the ring; and those  *)
(* of a cancellation that was carried out and whose answer was lost.  An   *)
(* order whose answer was lost, or that is carried out afterwards, is in   *)
(* no doubt while the ring shows its attempt: unansweredIn counts it.      *)
(***************************************************************************)
Remembered == {store.buffer[i].call : i \in DOMAIN store.buffer}

Doubts ==
  { n \in DOMAIN evidence.rows :
      LET r == evidence.rows[n] IN
      /\ n > run.mark
      /\ \/ r.call \in Others \ Remembered
         \/ r.status = "CANCELLED" /\ n \notin tally.cancelled }

(* check() ends, and the broken invariants are reported.                   *)
check ==
  /\ Idle /\ run.phase = "judging"
  /\ alarms' = checkInvariants(
       [ rows |-> evidence.rows, highWaterMark |-> run.mark,
         apiCash |-> stillCash(evidence.first, evidence.second),
         shadowCash |-> comparable(evidence.before, Snapshot),
         placements |-> tally.placements, acknowledged |-> acknowledged,
         unanswered |-> unansweredIn, cancelled |-> tally.cancelled ])
  /\ doubts' = Doubts
  /\ Phase("judged")
  /\ UNCHANGED <<vars, rows, cancelling, store, tally, evidence, faults>>

(* The database cannot be read, and the run fails.                         *)
fail ==
  /\ Idle /\ run.phase \in {"opening", "ledger"}
  /\ losses < MaxLosses /\ losses' = losses + 1
  /\ Phase("failed")
  /\ UNCHANGED <<service, calls, portfolio, history, rows, cancelling, store, tally, evidence,
                 alarms, doubts, faults>>
  /\ Bounded

-----------------------------------------------------------------------------
(***************************************************************************)
(* A target that misbehaves towards the run's users, before their rows are *)
(* read: it fills an order at the market that leaves its user with less    *)
(* than nothing, or shorter of a stock than ever before the run, stores    *)
(* one nobody sent, answers for one it does not store, or fills an order   *)
(* it says it cancelled.                                                   *)
(***************************************************************************)
Misbehaves(how, user) ==
  /\ how \in Faults /\ faults = {} /\ faults' = {how}
  /\ losses + Cardinality({s \in Others : at[s] # "unsent"}) < MaxTrouble
  /\ Idle /\ run.phase \in {"placing", "quiescing", "first"}
  /\ user \in runUsers

Booked(r) ==
  [portfolio EXCEPT ![r.userId].cash = @ + cashDelta(r),
                    ![r.userId].shares[r.instrumentId] = @ + shareDelta(r)]

Misserve(s, decision) ==
  /\ at[s] = "sent"
  /\ at' = [at EXCEPT ![s] = "executed"]
  /\ execution' = [execution EXCEPT ![s] = decision]
  /\ UNCHANGED <<service, held, row, losses, history, cancelling, store, runner>>

Ruined(own, order) ==
  \/ own.cash < 0
  \/ ~ HoldsUp(rows, order.userId, order.instrumentId, run.mark,
               own.shares[order.instrumentId])

overspend(s) ==
  LET order == held[s].order  d == [Decision(order) EXCEPT !.status = "FILLED"] IN
  /\ Misserve(s, d) /\ Misbehaves("overspend", order.userId)
  /\ order.type = "MARKET"
  /\ Stores(s, order, d)
  /\ portfolio' = Booked(RowOf(s, order, d))
  /\ Ruined(portfolio'[order.userId], order)

forget(s) ==
  /\ Misserve(s, Decision(held[s].order)) /\ Misbehaves("forget", UserOf(s))
  /\ UNCHANGED <<portfolio, rows>>

invent(order) ==
  /\ Misbehaves("invent", order.userId)
  /\ Stores(Null, order, Decision(order))
  /\ portfolio' = Booked(RowOf(Null, order, Decision(order)))
  /\ UNCHANGED <<service, calls, losses, history, cancelling, store, runner>>

miscancel(cancel) ==
  /\ cancel.answer = "none" /\ Cancellable(cancel.orderId)
  /\ Misbehaves("miscancel", rows[cancel.orderId].userId)
  /\ cancelling' = (cancelling \ {cancel}) \cup {[cancel EXCEPT !.answer = "ok"]}
  /\ rows' = [rows EXCEPT ![cancel.orderId].status = "FILLED"]
  /\ portfolio' = Booked([rows[cancel.orderId] EXCEPT !.status = "FILLED"])
  /\ UNCHANGED <<service, calls, losses, history, store, runner>>

-----------------------------------------------------------------------------
LoadNext ==
  \/ \E profile \in Profiles : start(profile)
  \/ StartLoop
  \/ highWaterMark
  \/ prepare
  \/ NextWave
  \/ \E index \in Own : fire(index)
  \/ \E s \in Others, order \in LoopOrders : tick(s, order)
  \/ \E s \in Slots : execute(s) \/ shed(s) \/ answer(s) \/ loseAnswer(s)
  \/ \E cancel \in cancelling :
       executeCancel(cancel) \/ answerCancel(cancel) \/ loseCancel(cancel)
  \/ \E read \in reads : portfolioRead(read)
  \/ waitForQuiesce
  \/ \E u \in Users : readCash(u)
  \/ readLedger
  \/ check
  \/ fail
  \/ \E s \in Slots : overspend(s) \/ forget(s)
  \/ \E order \in Menu : invent(order)
  \/ \E cancel \in cancelling : miscancel(cancel)

LoadSpec == LoadInit /\ [][LoadNext]_loadVars

-----------------------------------------------------------------------------
(***************************************************************************)
(* Types, and that the run counts every call it made, once: each is folded *)
(* into the totals or waits in pending, wherever the ring has got to.      *)
(***************************************************************************)
LoadTypeOK ==
  /\ run.phase \in {"idle", "opening", "marked", "preparing", "placing", "quiescing", "first", "ledger",
                    "second", "judging", "judged", "failed"}
  /\ Len(store.buffer) <= ATTEMPTS_CAPACITY
  /\ DOMAIN evidence.rows \subseteq DOMAIN rows
  /\ \A u \in Users : portfolio[u].cash = cashFold(rows, OwnedBy(rows, u))
  /\ tally.sent = Cardinality(tally.pending) + tally.byStatus["ok"] + tally.byStatus["refused"]
                   + tally.byStatus["shed"] + tally.byStatus["none"]

(***************************************************************************)
(* The run accuses nobody of what did not happen.  With a target that does *)
(* its job, whatever is lost, late, shed, cancelled or dropped by the ring, *)
(* and whatever the loop does meanwhile, the three invariants that read    *)
(* rows alone hold; answers agree with rows, those in doubt set aside, and *)
(* with them only something the evidence cannot show is reported; balances *)
(* disagree only through what spoils a shadow by itself (module            *)
(* Simulation), or through fills that cancel out between the two readings  *)
(* of a balance, which takes two.                                          *)
(***************************************************************************)
FillsOfTheLoop == Others \cap filled

AnswersAgree ==
  responseDbAgreement(
    {placement \in tally.placements : placement.orderId \notin doubts},
    [n \in DOMAIN evidence.rows \ doubts |-> evidence.rows[n]],
    run.mark, acknowledged, unansweredIn, tally.cancelled)

NobodyIsWronglyAccused ==
  Judged /\ faults = {} =>
    /\ alarms \subseteq {"conservation", "response_db_agreement"}
    /\ AnswersAgree
    /\ "response_db_agreement" \in alarms => doubts # {}
    /\ "conservation" \in alarms =>
         mishaps \cap {"late", "reset", "overlap"} # {} \/ Cardinality(FillsOfTheLoop) >= 2

(***************************************************************************)
(* What a target does wrong is found by the run that met it, unless the    *)
(* answer that would show it was lost; an order nobody sent may also hide  *)
(* behind an attempt that left the ring before it was folded.              *)
(***************************************************************************)
FaultsAreFound ==
  Judged =>
    /\ faults = {"overspend"} => alarms \cap {"no_overdraft", "no_oversell"} # {}
    /\ faults = {"invent"} =>
         "response_db_agreement" \in alarms \/ losses > 0 \/ tally.pending # {}
    /\ faults = {"forget"} /\ (\E placement \in tally.placements : placement.orderId = 0)
         => "response_db_agreement" \in alarms
    /\ faults = {"miscancel"} /\ (\E id \in tally.cancelled : rows[id].status = "FILLED")
         => "cancel_safety" \in alarms
=============================================================================
