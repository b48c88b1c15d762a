----------------------------- MODULE Backoffice -----------------------------
(***************************************************************************)
(* BackofficeService: sweeps over the attempts store that run one at a     *)
(* time, judge every settled row once, and ask the database about orders   *)
(* whose answer never came when nothing can store them any more.           *)
(*                                                                         *)
(* The rules modelled are the two that depend on time, on other rows or on *)
(* the database, unexpected_shedding and lost_order; the others read one   *)
(* row and nothing else.                                                   *)
(***************************************************************************)
EXTENDS Gateway, SequencesExt, Bags

CONSTANTS
  Sweepers,         \* the timer and the clients that poll stats()
  SETTLE,
  LATE_COMMIT,
  MaxWindows,       \* bound on load runs and on simulations started
  MaxFailures,      \* bound on reads of the database that fail
  MaxTime           \* bound on now

ASSUME BackofficeAssumption ==
  /\ SETTLE \in Nat
  /\ LATE_COMMIT \in Nat
  /\ LATE_COMMIT > TARGET_CEILING
  /\ MaxTime \in Nat

VARIABLES
  loadRunning,      \* a load run is on
  simulating,       \* the simulation is on
  windows,
  quietSince, scanned, pending,
  anomalies,        \* the findings, a bag: in which order they came says nothing
  sweeps,           \* what each caller of sweep() runs
  failures

backoffice == <<quietSince, scanned, pending, anomalies>>
vars == <<gateway, loadRunning, simulating, windows, backoffice, sweeps, failures>>

-----------------------------------------------------------------------------
Idle == [due |-> {}, acknowledged |-> {}]

Init ==
  /\ InitGateway
  /\ loadRunning = FALSE
  /\ simulating = FALSE
  /\ windows = 0
  /\ quietSince = Null
  /\ scanned = 0
  /\ pending = {}
  /\ anomalies = EmptyBag
  /\ sweeps = [s \in Sweepers |-> Idle]
  /\ failures = 0

(* markQuiet: when the harness was first seen idle since it was last busy. *)
Quiet(busy) ==
  IF busy THEN Null ELSE IF quietSince = Null THEN now ELSE quietSince

-----------------------------------------------------------------------------
(***************************************************************************)
(* A run ends after its own calls, but the ones that others made meanwhile *)
(* may outlive it.  It never ends in the millisecond a call was made: a    *)
(* tick is much longer, so nothing was called in this one.                 *)
(***************************************************************************)
LoadHasEnded == \A c \in Calls : calls[c].phase = "unsent" \/ calls[c].at < now

Window(opens) ==
  /\ opens => windows < MaxWindows
  /\ windows' = windows + (IF opens THEN 1 ELSE 0)

(* A mutant of setLoadRunning: it leaves the mark to the next sweep.       *)
setLoadUnmarked(running) ==
  /\ loadRunning # running
  /\ running \/ LoadHasEnded
  /\ Window(running)
  /\ loadRunning' = running
  /\ UNCHANGED <<gateway, simulating, backoffice, sweeps, failures>>

setLoadRunning(running) ==
  /\ loadRunning # running
  /\ running \/ LoadHasEnded
  /\ Window(running)
  /\ loadRunning' = running
  /\ quietSince' = Quiet(running \/ simulating)
  /\ UNCHANGED <<gateway, simulating, scanned, pending, anomalies, sweeps, failures>>

(* The simulation starts and stops without a word to the back office.      *)
setSimulating(running) ==
  /\ simulating # running
  /\ Window(running)
  /\ simulating' = running
  /\ UNCHANGED <<gateway, loadRunning, backoffice, sweeps, failures>>

-----------------------------------------------------------------------------
(* scan: the rows not looked at yet, oldest first, up to one not settled.  *)
Settled(row) == row.at + row.latency <= now - SETTLE

Unscanned(rows) == {i \in DOMAIN rows : rows[i].id > scanned}

(* A mutant of Scannable: it steps over a row not settled.                 *)
scannableAround ==
  LET rows == Reverse(recent(store, ATTEMPTS_CAPACITY)) IN
  {rows[i] : i \in {k \in Unscanned(rows) : Settled(rows[k])}}

Scannable ==
  LET rows == Reverse(recent(store, ATTEMPTS_CAPACITY)) IN
  {rows[i] : i \in {k \in Unscanned(rows) :
                      \A j \in Unscanned(rows) : j <= k => Settled(rows[j])}}

isCall(row) == row.call # Null

lostCandidate(row) == isCall(row) /\ row.status = "none"

unexpectedShedding(row, quiet) ==
  isCall(row) /\ row.status = "shed" /\ quiet # Null /\ row.at >= quiet

(* What a finding and a loss waiting for the database keep of a row.       *)
Kept(row) == [attemptId |-> row.id, call |-> row.call, try |-> row.try, at |-> row.at,
              loaded |-> row.loaded]

Finding(kept, rule, found) == [of |-> kept, rule |-> rule, found |-> found]

Reported(rows) == SetToBag({Finding(Kept(row), "unexpected_shedding", "none") : row \in rows})

(***************************************************************************)
(* reconcile: the losses nothing can store any more, and the orders some   *)
(* row in the ring knows of, both taken before the first read.             *)
(***************************************************************************)
(* Mutants of reconcilable: the database is asked as soon as the gateway   *)
(* gives up, or only for an attempt the ring still has.                    *)
reconcilableSoon(loss) == loss.at + TIMEOUT <= now

reconcilableInRing(loss) ==
  /\ loss.at + LATE_COMMIT <= now
  /\ \E i \in DOMAIN store.buffer : store.buffer[i].id = loss.attemptId

reconcilable(loss) == loss.at + LATE_COMMIT <= now

acknowledgedOrders == {store.buffer[i].orderId : i \in DOMAIN store.buffer} \ {Null}

(* sweep() joins the sweep in flight, if there is one; a mutant does not.  *)
noneInFlight == {}

InFlight == {s \in Sweepers : sweeps[s].due # {}}

sweep(s) ==
  LET quiet == Quiet(loadRunning \/ simulating)
      rows  == Scannable
      known == pending \cup {Kept(row) : row \in {r \in rows : lostCandidate(r)}}
      due   == {loss \in known : reconcilable(loss)}
  IN
  /\ InFlight = {}
  /\ quietSince' = quiet
  /\ scanned' = Max({scanned} \cup {row.id : row \in rows})
  /\ pending' = known
  /\ anomalies' = anomalies (+) Reported({row \in rows : unexpectedShedding(row, quiet)})
  /\ sweeps' = [sweeps EXCEPT ![s] =
                  IF due = {} THEN Idle
                  ELSE [due |-> due, acknowledged |-> acknowledgedOrders]]
  /\ UNCHANGED <<gateway, loadRunning, simulating, windows, failures>>

(***************************************************************************)
(* One turn of reconcile's loop, which takes the oldest attempt first: the *)
(* database answers with the order the key names, if there is one.         *)
(***************************************************************************)
lostOrder(loss, acknowledged) ==
  Finding(loss, "lost_order",
          IF loss.call \notin stored THEN "never processed"
          ELSE IF loss.call \in acknowledged THEN "recovered"
          ELSE "unacknowledged")

Match(s, loss) ==
  /\ \A other \in sweeps[s].due : loss.attemptId <= other.attemptId
  /\ pending' = pending \ {loss}
  /\ anomalies' = anomalies (+) SetToBag({lostOrder(loss, sweeps[s].acknowledged)})
  /\ sweeps' = [sweeps EXCEPT ![s] =
                  IF @.due = {loss} THEN Idle
                  ELSE [due |-> @.due \ {loss}, acknowledged |-> @.acknowledged]]
  /\ UNCHANGED <<gateway, loadRunning, simulating, windows, quietSince, scanned, failures>>

matchByKey(s) == \E loss \in sweeps[s].due : Match(s, loss)

(* The database cannot be read: what is still due stays pending.           *)
FailMatch(s) ==
  /\ sweeps[s].due # {}
  /\ failures < MaxFailures
  /\ failures' = failures + 1
  /\ sweeps' = [sweeps EXCEPT ![s] = Idle]
  /\ UNCHANGED <<gateway, loadRunning, simulating, windows, backoffice>>

-----------------------------------------------------------------------------
Tick ==
  /\ now < MaxTime
  /\ OnTime
  /\ now' = now + 1
  /\ UNCHANGED <<store, calls, work, stored, loadRunning, simulating, windows,
                 backoffice, sweeps, failures>>

harness == <<loadRunning, simulating, windows, backoffice, sweeps, failures>>

Next ==
  \/ \E c \in Calls : Send(c, loadRunning) /\ UNCHANGED harness
  \/ \E c \in Calls : Lose(c, loadRunning) /\ UNCHANGED harness
  \/ \E w \in work : Decide(w, loadRunning) /\ UNCHANGED harness
  \/ \E running \in BOOLEAN : setLoadRunning(running)
  \/ \E running \in BOOLEAN : setSimulating(running)
  \/ \E s \in Sweepers : sweep(s)
  \/ \E s \in Sweepers : matchByKey(s)
  \/ \E s \in Sweepers : FailMatch(s)
  \/ Tick

(***************************************************************************)
(* The timer keeps sweeping, queries and calls end, and time passes.       *)
(***************************************************************************)
Fairness ==
  /\ WF_vars(Tick)
  /\ WF_vars(\E c \in Calls : Lose(c, loadRunning) /\ UNCHANGED harness)
  /\ WF_vars(\E w \in work : Decide(w, loadRunning) /\ UNCHANGED harness)
  /\ WF_vars(\E s \in Sweepers : sweep(s))
  /\ WF_vars(\E s \in Sweepers : matchByKey(s))

Spec == Init /\ [][Next]_vars /\ Fairness

-----------------------------------------------------------------------------
(***************************************************************************)
(* Types, and the shape of the ring: record() keeps it at its capacity.    *)
(***************************************************************************)
Lossy == [attemptId : Nat \ {0}, call : Calls, try : {1, 2}, at : Nat, loaded : BOOLEAN]

TypeOK ==
  /\ now \in 0 .. MaxTime
  /\ Len(store.buffer) <= ATTEMPTS_CAPACITY
  /\ store.cursor \in 0 .. ATTEMPTS_CAPACITY - 1
  /\ store.nextId \in Nat \ {0}
  /\ \A c \in Calls : calls[c].phase \in {"unsent", "sent", "probing", "done"}
  /\ work \subseteq Requests
  /\ stored \subseteq Calls
  /\ quietSince \in {Null} \cup 0 .. MaxTime
  /\ scanned \in 0 .. store.nextId - 1
  /\ pending \subseteq Lossy
  /\ \A finding \in BagToSet(anomalies) : finding.of \in Lossy
  /\ \A s \in Sweepers : sweeps[s].due \subseteq Lossy

(***************************************************************************)
(* annotate() comes after a round trip, when the ring may have overwritten *)
(* the row and given its slot away: still a row only ever names its own    *)
(* order, and the retry it says it had is a retry of it; types included.   *)
(***************************************************************************)
RowsKeepTheirOwn ==
  /\ TypeOK
  /\ \A i, j \in DOMAIN store.buffer :
       LET row == store.buffer[i] other == store.buffer[j] IN
       /\ row.orderId \in {Null, row.call}
       /\ other.id = row.retriedBy => other.call = row.call /\ other.retryOf = row.id

(***************************************************************************)
(* The mark scanned never runs ahead of the losses: a row below it whose   *)
(* answer never came waits for the database or has been judged.            *)
(***************************************************************************)
Judged(id) ==
  \E finding \in BagToSet(anomalies) : finding.rule = "lost_order" /\ finding.of.attemptId = id

AwaitsMatch(id) == \E loss \in pending : loss.attemptId = id

LossesAreKept ==
  \A i \in DOMAIN store.buffer :
    LET row == store.buffer[i] IN
    lostCandidate(row) /\ row.id <= scanned => AwaitsMatch(row.id) \/ Judged(row.id)

(***************************************************************************)
(* However many callers sweep, and wherever a read of the database fails,  *)
(* a rule speaks once about an attempt.                                    *)
(***************************************************************************)
JudgedOnce ==
  \A finding, other \in BagToSet(anomalies) :
    finding.of = other.of /\ finding.rule = other.rule =>
      finding = other /\ anomalies[finding] = 1

(***************************************************************************)
(* "Sent but never processed" is critical, and final: once it is said of   *)
(* the last request made for an order, no order is ever stored.            *)
(***************************************************************************)
NeverProcessed(finding) ==
  finding.rule = "lost_order" /\ finding.found = "never processed"

CriticalIsFinal ==
  \A finding \in BagToSet(anomalies) :
    NeverProcessed(finding) /\ finding.of.try = TryOf(finding.of.call) =>
      finding.of.call \notin stored

(***************************************************************************)
(* A 503 for a call made while a load run was on is never reported as      *)
(* traffic the API should have served.                                     *)
(***************************************************************************)
LoadIsExpectedToShed ==
  \A finding \in BagToSet(anomalies) :
    finding.rule = "unexpected_shedding" => ~finding.of.loaded

(***************************************************************************)
(* Losses do not wait forever: again and again none is pending, however    *)
(* long its row has left the ring, once reads of the database stop failing.*)
(***************************************************************************)
PendingDrains == []<>(pending = {})
=============================================================================
