-------------------------------- MODULE Loop --------------------------------
(***************************************************************************)
(* Who may run the simulation's loop: the operator's start(), stop(),      *)
(* configure() and reset(), and the load run's prepare(), which all take   *)
(* the timer down, and all but stop() put it up again after reading        *)
(* portfolios.  They run in one process and interleave at every await.     *)
(* With them, the runs on disk they open and close (module History).       *)
(*                                                                         *)
(* What an order does to the shadow is module Simulation, and what a load  *)
(* run makes of its answers module Load; here a call only counts.          *)
(***************************************************************************)
EXTENDS History, FiniteSets

CONSTANTS
  DefaultUsers,     \* whom the loop trades as until it is told otherwise
  Rosters,          \* what start() and configure() may be told to trade as
  LoadUsers,        \* the users of a load run
  LoadOrders,       \* how many orders it fires
  MaxOperations,    \* bound on the operator's calls on the loop
  MaxLoads,         \* bound on load runs
  MaxCalls,         \* bound on the orders the loop sends
  MaxTrouble        \* bound on disks that fail and answers that are dropped

ASSUME LoopAssumption ==
  /\ Senders = {"loop", "load"} /\ LoadOrders \in Nat
  /\ \A users \in Rosters \cup {DefaultUsers, LoadUsers} : IsFiniteSet(users) /\ users # {}

VARIABLES
  config,           \* users, and whether it is running
  timer,            \* the timer the service knows
  lost,             \* timers that fire and that nobody can clear
  generation,       \* of the shadow
  waiting,          \* operations that wait for portfolios
  runId,            \* the history run of the window, or Closed
  counters, opened, \* orders the loop counted: ever, and when the window opened
  calls,            \* by sender: in flight; recorded, with a retry in flight
  load,             \* LoadService
  loadRunning,      \* what the back office was told
  history,
  down,             \* the harness was asked to stop
  operations, sent, trouble,                 \* bounds
  mishaps, muddled                           \* history variables

timers == <<timer, lost>>
window == <<runId, opened>>
shadow == <<generation, waiting>>
bounds == <<operations, sent, trouble, mishaps, muddled>>
vars == <<config, timers, shadow, window, counters, calls, load, loadRunning, history, down,
          bounds>>

-----------------------------------------------------------------------------
Closed == 0
NoLoad == [run |-> Closed, phase |-> "none", fired |-> 0, sent |-> 0]
NoConfig == [users |-> {}, running |-> FALSE]
NoCalls == [s \in Senders |-> 0]

Init ==
  /\ config = [users |-> DefaultUsers, running |-> FALSE]
  /\ timer = FALSE /\ lost = 0
  /\ generation = 0 /\ waiting = {}
  /\ runId = Closed /\ opened = 0
  /\ counters = 0
  /\ calls = [out |-> NoCalls, retrying |-> NoCalls]
  /\ load = NoLoad /\ loadRunning = FALSE
  /\ history = emptyHistory
  /\ down = FALSE
  /\ operations = 0 /\ sent = 0 /\ trouble = 0 /\ mishaps = {} /\ muddled = {}

-----------------------------------------------------------------------------
(***************************************************************************)
(* run() keeps the handle of the timer it starts, clearTimer() clears the  *)
(* one whose handle is kept.                                               *)
(***************************************************************************)
Run == timer' = TRUE /\ lost' = IF timer THEN lost + 1 ELSE lost

(* A mutant of clearTimer: the handle is dropped, the timer is not cleared. *)
forgetTimer == timer' = FALSE /\ lost' = IF timer THEN lost + 1 ELSE lost

clearTimer == timer' = FALSE /\ UNCHANGED lost

Ticking == timer \/ lost > 0

(* seedUsers: a new generation, and a read of every user.                  *)
Await(op, users, then) ==
  /\ generation' = generation + 1
  /\ waiting' = waiting \cup
       {[op |-> op, left |-> users, generation |-> generation + 1, seeded |-> FALSE,
         config |-> then]}

(***************************************************************************)
(* A window whose rows and counts cannot be set against each other: rows   *)
(* or counts of one order fall on both sides of one of its ends.           *)
(***************************************************************************)
Straddled ==
  \/ calls.retrying["loop"] > 0
  \/ \E i \in DOMAIN history.turn : history.turn[i] = [is |-> "row", sender |-> "loop"]

Straddles(run) == IF Straddled THEN {run} ELSE {}

Retrying(run) == IF calls.retrying["loop"] > 0 /\ run # Closed THEN {run} ELSE {}

(* A mutant of Summary: the loop's lifetime tally.                         *)
lifetime == counters

Summary == counters - opened

(* A mutant of closed: the window is left open.                            *)
leftOpen(h) == h

(* closeWindow, on what history is by then.                                *)
closed(h) == IF runId = Closed THEN h ELSE close(h, runId, Summary)

closeWindow ==
  /\ history' = closed(history)
  /\ runId' = Closed
  /\ muddled' = muddled \cup Retrying(runId)

(* An operation is called, and so is one while another waits.              *)
Called ==
  /\ ~ down
  /\ operations < MaxOperations /\ operations' = operations + 1

Overlaps == mishaps' = IF waiting = {} THEN mishaps ELSE mishaps \cup {"overlap"}

-----------------------------------------------------------------------------
(* start(): the loop stays down, in a new window, until the shadow is read. *)
start(users) ==
  LET run == NextRun(history)
      next == [users |-> users, running |-> FALSE]
  IN
  /\ Called /\ Overlaps
  /\ clearTimer
  /\ config' = next
  /\ runId' = run
  /\ history' = open(closed(history), "loop")
  /\ opened' = counters
  /\ muddled' = muddled \cup Retrying(runId) \cup Straddles(run)
  /\ Await("start", users, next)
  /\ UNCHANGED <<counters, calls, load, loadRunning, down, sent, trouble>>

stop ==
  /\ Called
  /\ mishaps' = IF waiting = {} THEN mishaps ELSE mishaps \cup {"stop"}
  /\ clearTimer
  /\ config' = [config EXCEPT !.running = FALSE]
  /\ closeWindow
  /\ UNCHANGED <<shadow, opened, counters, calls, load, loadRunning, down, sent, trouble>>

(* configure(): a rate takes effect at once, other users after their read.  *)
configure(users) ==
  LET next == [config EXCEPT !.users = users] IN
  /\ Called /\ Overlaps
  /\ config' = next
  /\ IF users # config.users
     THEN clearTimer /\ Await("configure", users, next)
     ELSE /\ timer' = next.running /\ UNCHANGED <<lost, shadow>>
  /\ UNCHANGED <<window, counters, calls, load, loadRunning, history, down, sent, trouble,
                 muddled>>

reset ==
  /\ Called /\ Overlaps
  /\ clearTimer
  /\ counters' = 0
  /\ opened' = 0
  /\ Await("reset", config.users, NoConfig)
  /\ muddled' = muddled \cup ({runId} \ {Closed})
  /\ UNCHANGED <<config, runId, calls, load, loadRunning, history, down, sent, trouble>>

prepare ==
  /\ Overlaps
  /\ clearTimer
  /\ Await("prepare", config.users \cup LoadUsers, NoConfig)

-----------------------------------------------------------------------------
(***************************************************************************)
(* What each does when its portfolios are in.  start() and configure() go  *)
(* by the config they set out with, the others by the one of now.          *)
(***************************************************************************)
Landed(op, ok) == ok /\ op.generation = generation

PutUp(running) == IF running THEN Run ELSE UNCHANGED timers

startResumes(op) ==
  IF op.seeded
  THEN /\ config' = [op.config EXCEPT !.running = TRUE]
       /\ Run
       /\ UNCHANGED <<window, history, load, loadRunning, muddled>>
  ELSE /\ closeWindow
       /\ UNCHANGED <<config, timers, opened, load, loadRunning>>

configureResumes(op) ==
  PutUp(op.config.running) /\ UNCHANGED <<config, window, history, load, loadRunning, muddled>>

(* A mutant of resetResumes: the loop is put up whatever config says.      *)
resetAlwaysRuns(op) ==
  PutUp(TRUE) /\ UNCHANGED <<config, window, history, load, loadRunning, muddled>>

resetResumes(op) ==
  PutUp(config.running) /\ UNCHANGED <<config, window, history, load, loadRunning, muddled>>

(* execute() has come to its end, whichever way.                           *)
EndLoad ==
  /\ load' = NoLoad
  /\ loadRunning' = FALSE
  /\ history' = close(history, load.run, load.sent)

(* It goes on to fire its orders, or was done.                             *)
prepareResumes(op) ==
  /\ PutUp(config.running)
  /\ IF load.phase = "preparing"
     THEN load' = [load EXCEPT !.phase = "placing"] /\ UNCHANGED <<history, loadRunning>>
     ELSE EndLoad
  /\ UNCHANGED <<config, window, muddled>>

Resumes(op) ==
  \/ op.op = "start" /\ startResumes(op)
  \/ op.op = "configure" /\ configureResumes(op)
  \/ op.op = "reset" /\ resetResumes(op)
  \/ op.op = "prepare" /\ prepareResumes(op)

(* A portfolio comes in, or its read fails.                                *)
seedUser(op, user, ok) ==
  LET read == [op EXCEPT !.left = @ \ {user}, !.seeded = @ \/ Landed(op, ok)] IN
  /\ ~ down
  /\ user \in op.left
  /\ IF read.left # {}
     THEN /\ waiting' = (waiting \ {op}) \cup {read}
          /\ UNCHANGED <<config, timers, window, history, load, loadRunning, muddled>>
     ELSE waiting' = waiting \ {op} /\ Resumes(read)
  /\ UNCHANGED <<generation, counters, calls, down, operations, sent, trouble, mishaps>>

-----------------------------------------------------------------------------
(***************************************************************************)
(* LoadService: one run at a time; it marks, prepares, places its orders,  *)
(* quiesces, judges and prepares again, and whether it gets there or fails *)
(* it ends.                                                                *)
(***************************************************************************)
startLoad ==
  /\ ~ down
  /\ load.run = Closed
  /\ Cardinality({run \in DOMAIN history.files : history.files[run].mode = "load"}) < MaxLoads
  /\ load' = [NoLoad EXCEPT !.run = NextRun(history), !.phase = "marking"]
  /\ loadRunning' = TRUE
  /\ history' = open(history, "load")
  /\ UNCHANGED <<config, timers, shadow, window, counters, calls, down, bounds>>

highWaterMark ==
  /\ ~ down
  /\ load.phase = "marking"
  /\ load' = [load EXCEPT !.phase = "preparing"]
  /\ prepare
  /\ UNCHANGED <<config, window, counters, calls, loadRunning, history, down, operations, sent,
                 trouble, muddled>>

fire ==
  /\ ~ down
  /\ load.phase = "placing" /\ load.fired < LoadOrders
  /\ load' = [load EXCEPT !.fired = @ + 1]
  /\ calls' = [calls EXCEPT !.out["load"] = @ + 1]
  /\ UNCHANGED <<config, timers, shadow, window, counters, loadRunning, history, down, bounds>>

(* Its orders were answered, some round trips ago.                         *)
Placed ==
  /\ load.phase = "placing" /\ load.sent = LoadOrders
  /\ ~ \E i \in DOMAIN history.turn : history.turn[i] = [is |-> "row", sender |-> "load"]

(* It has judged: the final prepare().                                     *)
check ==
  /\ ~ down
  /\ Placed
  /\ load' = [load EXCEPT !.phase = "judged"]
  /\ prepare
  /\ UNCHANGED <<config, window, counters, calls, loadRunning, history, down, operations, sent,
                 trouble, muddled>>

(* A mutant of fail: the run is marked as failed, and stays the current one. *)
failForGood ==
  /\ ~ down
  /\ load.phase = "marking" \/ Placed
  /\ load' = [load EXCEPT !.phase = "failed"]
  /\ UNCHANGED <<config, timers, shadow, window, counters, calls, loadRunning, history, down,
                 bounds>>

(* The database could not be read.                                         *)
fail ==
  /\ ~ down
  /\ load.phase = "marking" \/ Placed
  /\ EndLoad
  /\ UNCHANGED <<config, timers, shadow, window, counters, calls, down, bounds>>

-----------------------------------------------------------------------------
(* A timer fires; it does not wait for the order of the tick before.       *)
tick ==
  /\ ~ down
  /\ Ticking
  /\ sent < MaxCalls /\ sent' = sent + 1
  /\ calls' = [calls EXCEPT !.out["loop"] = @ + 1]
  /\ UNCHANGED <<config, timers, shadow, window, counters, load, loadRunning, history, down,
                 operations, trouble, mishaps, muddled>>

(***************************************************************************)
(* The gateway records an answer, and whoever sent the order counts it:    *)
(* at once, or once the retry of a dropped answer has come back too.       *)
(***************************************************************************)
count(sender) ==
  IF sender = "loop" THEN counters' = counters + 1 /\ UNCHANGED load
  ELSE load' = [load EXCEPT !.sent = @ + 1] /\ UNCHANGED counters

answer(sender) ==
  /\ ~ down
  /\ calls.out[sender] > 0
  /\ calls' = [calls EXCEPT !.out[sender] = @ - 1]
  /\ history' = tapped(history, sender)
  /\ count(sender)
  /\ UNCHANGED <<config, timers, shadow, window, loadRunning, down, bounds>>

drop(sender) ==
  /\ ~ down
  /\ calls.out[sender] > 0
  /\ trouble < MaxTrouble /\ trouble' = trouble + 1
  /\ calls' = [calls EXCEPT !.out[sender] = @ - 1, !.retrying[sender] = @ + 1]
  /\ history' = tapped(history, sender)
  /\ UNCHANGED <<config, timers, shadow, window, counters, load, loadRunning, down, operations,
                 sent, mishaps, muddled>>

probe(sender) ==
  /\ ~ down
  /\ calls.retrying[sender] > 0
  /\ calls' = [calls EXCEPT !.retrying[sender] = @ - 1]
  /\ count(sender)
  /\ UNCHANGED <<config, timers, shadow, window, loadRunning, history, down, bounds>>

-----------------------------------------------------------------------------
(* The event loop turns.                                                   *)
turn ==
  /\ history.turn # <<>>
  /\ history' = turned(history)
  /\ UNCHANGED <<config, timers, shadow, window, counters, calls, load, loadRunning, down,
                 bounds>>

(* The stream of an open run reports an error; late ones change nothing.   *)
diskFails(run) ==
  /\ ~ down
  /\ run \in history.running
  /\ trouble < MaxTrouble /\ trouble' = trouble + 1
  /\ history' = disown(history, run)
  /\ UNCHANGED <<config, timers, shadow, window, counters, calls, load, loadRunning, down,
                 operations, sent, mishaps, muddled>>

(* The modules are destroyed: the timer is cleared, open runs are closed.  *)
onModuleDestroy ==
  /\ ~ down
  /\ down' = TRUE
  /\ clearTimer
  /\ history' = destroyed(history)
  /\ UNCHANGED <<config, shadow, window, counters, calls, load, loadRunning, bounds>>

-----------------------------------------------------------------------------
Operate ==
  \/ \E users \in Rosters : start(users) \/ configure(users)
  \/ stop
  \/ reset
  \/ startLoad

Read ==
  \E op \in waiting, user \in UNION (Rosters \cup {DefaultUsers, LoadUsers}), ok \in BOOLEAN :
    seedUser(op, user, ok)

Execute == highWaterMark \/ fire \/ check \/ fail

Answer == \E sender \in Senders : answer(sender) \/ probe(sender)

Next ==
  \/ Operate
  \/ Read
  \/ Execute
  \/ tick
  \/ Answer
  \/ \E sender \in Senders : drop(sender)
  \/ turn
  \/ \E run \in DOMAIN history.files : diskFails(run)
  \/ onModuleDestroy

(* A call to the API ends, answered or given up after 10 s; the run goes on *)
(* when what it awaits has ended; the event loop turns.                    *)
Fairness == WF_vars(Read) /\ WF_vars(Execute) /\ WF_vars(Answer) /\ WF_vars(turn)

Spec == Init /\ [][Next]_vars /\ Fairness

-----------------------------------------------------------------------------
(* Types.                                                                  *)
LoopTypeOK ==
  /\ config \in [users : Rosters \cup {DefaultUsers}, running : BOOLEAN]
  /\ timer \in BOOLEAN /\ lost \in Nat
  /\ runId \in {Closed} \cup DOMAIN history.files
  /\ opened \in 0 .. counters
  /\ \A op \in waiting : op.left # {} /\ op.generation \in 1 .. generation

(***************************************************************************)
(* No timer fires while portfolios are read, so no tick reads a shadow     *)
(* that is half built, unless one operation was called while another       *)
(* waited.  Only then can a timer be lost, too.                            *)
(***************************************************************************)
SeedsAreUndisturbed ==
  (Ticking /\ waiting # {}) \/ lost > 0 => "overlap" \in mishaps

(***************************************************************************)
(* When nothing is waited for, the loop is what its state says, and a      *)
(* window is open exactly while it runs, whichever reads failed; unless an *)
(* operation, stop() included, was called while another waited.            *)
(***************************************************************************)
LoopIsAsItSays ==
  waiting = {} /\ mishaps = {} /\ ~ down =>
    /\ timer = config.running
    /\ (runId # Closed) = config.running

(***************************************************************************)
(* Whatever overlaps, no run is left open that nobody will close: it is    *)
(* the loop's window, the load run at work, or its close is in line; and   *)
(* the back office knows of a load run while it is at work, and no longer.  *)
(***************************************************************************)
OpenRunsHaveOwners ==
  /\ LoopTypeOK
  /\ loadRunning = (load.run # Closed)
  /\ \A run \in history.running :
       \/ run \in {runId, load.run}
       \/ \E i \in DOMAIN history.turn :
            history.turn[i].is = "close" /\ history.turn[i].run = run

(***************************************************************************)
(* What a run says it sent can be counted in its own file (the comment on  *)
(* closeWindow), except for a window that was reset, or one end of which   *)
(* fell between the row of an order and its count.                         *)
(***************************************************************************)
WindowsAreWhole ==
  \A run \in DOMAIN history.files \ (history.disowned \cup muddled) :
    LET file == history.files[run] IN
    file.summary.given => file.summary.sent = file.rows[file.mode]

(* A run that ended, or that was given up, is not written to any more.     *)
NothingAfterTheEnd ==
  [][\A run \in DOMAIN history.files :
       history.files[run].finished \/ run \in history.disowned =>
         history'.files[run].rows = history.files[run].rows]_vars

(* Every load run ends, and gives way to the next.                         *)
LoadEnds == load.run # Closed ~> load.run = Closed \/ down

(***************************************************************************)
(* "The loop stays down across the seed so no tick can read a half-built   *)
(* shadow" (simulation.service.ts:131).                                    *)
(***************************************************************************)
NoTickReadsAHalfBuiltShadow ==
  Ticking => \A op \in waiting : op.generation # generation
=============================================================================
