------------------------------- MODULE Chaos -------------------------------
(***************************************************************************)
(* ChaosService: what the harness does to its target, and what it says it  *)
(* did when a finding is stamped with it.  Three modes are dice rolled for *)
(* a call; db_pause is an act: it pauses the database, sleeps and unpauses *)
(* it, while the operator goes on switching and the harness may be asked   *)
(* to stop.                                                                *)
(*                                                                         *)
(* compose() is external: a command to the container takes effect, or      *)
(* fails and has none, some time after it was given, whether whoever gave  *)
(* it still waits or not.  Time is a clock of some seconds to the tick,    *)
(* longer than a command takes.                                            *)
(***************************************************************************)
EXTENDS Integers

CONSTANTS
  Dice,              \* the modes rolled for a call
  Seconds,           \* how long a pause may be asked to last
  CHAOS_WINDOW,      \* how long a mode is named after it stopped
  DieLasts,          \* how long after its roll a die may still be at work
  MaxFailures,       \* bound on commands that fail
  MaxTime            \* bound on the clock

ASSUME ChaosAssumption ==
  /\ "db_pause" \notin Dice
  /\ Seconds \subseteq Nat
  /\ CHAOS_WINDOW \in Nat /\ DieLasts \in Nat
  /\ MaxFailures \in Nat /\ MaxTime \in Nat

CHAOS_MODES == Dice \cup {"db_pause"}

VARIABLES
  modes,             \* the modes that are on
  stoppedAt,         \* when a mode was last switched off
  pausedUntil,       \* whether the mark of a pause stands
  phase, wake,       \* where pauseDb() is, and when it wakes up
  commands, db,      \* commands given, and the container
  harness,           \* on its way out?
  now,
  rolled,            \* history: when a die last fell on a call,
  injected,          \* when a mode last did something,
  mishaps, failures  \* and what went wrong

switches == <<modes, stoppedAt>>
pause == <<pausedUntil, phase, wake>>
vars == <<switches, pause, commands, db, harness, now, rolled, injected, mishaps, failures>>

-----------------------------------------------------------------------------
LongAgo == 0 - CHAOS_WINDOW - DieLasts - 1

Init ==
  /\ modes = {}
  /\ stoppedAt = [m \in CHAOS_MODES |-> LongAgo]
  /\ pausedUntil = FALSE /\ phase = "idle" /\ wake = 0
  /\ commands = {} /\ db = "up"
  /\ harness = "up"
  /\ now = 0
  /\ rolled = [m \in Dice |-> LongAgo]
  /\ injected = [m \in CHAOS_MODES |-> LongAgo]
  /\ mishaps = {} /\ failures = 0

(* active(): what a finding made now is stamped with.                      *)
active == {m \in CHAOS_MODES : m \in modes \/ stoppedAt[m] >= now - CHAOS_WINDOW}

-----------------------------------------------------------------------------
(* A mutant of switchOff: when it stopped is not kept.                     *)
switchSilently(mode) == modes' = modes \ {mode} /\ UNCHANGED stoppedAt

switchOff(mode) ==
  /\ modes' = modes \ {mode}
  /\ stoppedAt' = IF mode \in modes THEN [stoppedAt EXCEPT ![mode] = now] ELSE stoppedAt

(* configure(): a die is loaded or put away.                               *)
configureDie(mode, enabled) ==
  /\ harness = "up"
  /\ IF enabled THEN modes' = modes \cup {mode} /\ UNCHANGED stoppedAt ELSE switchOff(mode)
  /\ UNCHANGED <<pause, commands, db, harness, now, rolled, injected, mishaps, failures>>

(* configure() of db_pause runs pauseDb(), which runs once at a time.      *)
pauseOn(seconds) ==
  /\ harness = "up"
  /\ now + seconds <= MaxTime
  /\ modes' = modes \cup {"db_pause"}
  /\ IF pausedUntil
     THEN UNCHANGED <<pause, commands>>
     ELSE /\ pausedUntil' = TRUE
          /\ phase' = "pausing" /\ wake' = seconds
          /\ commands' = commands \cup {"pause"}
  /\ mishaps' = mishaps \ {"early"}
  /\ UNCHANGED <<stoppedAt, db, harness, now, rolled, injected, failures>>

pauseOff ==
  /\ harness = "up"
  /\ switchOff("db_pause")
  /\ mishaps' = IF pausedUntil THEN mishaps \cup {"early"} ELSE mishaps
  /\ UNCHANGED <<pause, commands, db, harness, now, rolled, injected, failures>>

(* delay, dropsResponse, retriesOrder: a die falls on a call.              *)
rolls(mode) ==
  /\ harness # "gone"
  /\ mode \in modes \cap Dice
  /\ rolled' = [rolled EXCEPT ![mode] = now]
  /\ injected' = [injected EXCEPT ![mode] = now]
  /\ UNCHANGED <<switches, pause, commands, db, harness, now, mishaps, failures>>

(***************************************************************************)
(* The call it fell on is held back, or sent again, for a while after, and *)
(* nobody asks whether the mode is still on.                               *)
(***************************************************************************)
lasts(mode) ==
  /\ harness # "gone"
  /\ now <= rolled[mode] + DieLasts
  /\ injected' = [injected EXCEPT ![mode] = now]
  /\ UNCHANGED <<switches, pause, commands, db, harness, now, rolled, mishaps, failures>>

-----------------------------------------------------------------------------
(***************************************************************************)
(* pauseDb() after an await, with what has become of its command.  The     *)
(* mark is dropped only for a database that is back.                       *)
(***************************************************************************)
(* A mutant of Settled: the mark is always dropped.                        *)
settledAlways(down) ==
  /\ pausedUntil' = FALSE
  /\ phase' = "idle"
  /\ switchOff("db_pause")
  /\ UNCHANGED wake

Settled(down) ==
  /\ pausedUntil' = down
  /\ phase' = "idle"
  /\ switchOff("db_pause")
  /\ UNCHANGED wake

Resumes(command, ok) ==
  IF command = "pause" /\ ok
  THEN /\ phase' = "paused" /\ wake' = now + wake
       /\ UNCHANGED <<switches, pausedUntil>>
  ELSE Settled(command = "unpause" /\ ~ ok)

(* A container can only be paused while it runs, and the other way round.  *)
Feasible(command) == (command = "pause") = (db = "up")

Effect(command) == IF command = "pause" THEN "paused" ELSE "up"

(***************************************************************************)
(* A command comes to its end.  "undo" is the unpause of onModuleDestroy,  *)
(* after which the harness is gone.                                        *)
(***************************************************************************)
land(command, ok) ==
  /\ command \in commands
  /\ commands' = commands \ {command}
  /\ IF ok
     THEN /\ Feasible(command)
          /\ db' = Effect(command)
          /\ injected' = [injected EXCEPT !["db_pause"] = now]
          /\ UNCHANGED <<mishaps, failures>>
     ELSE /\ UNCHANGED <<db, injected>>
          /\ IF Feasible(command)
             THEN /\ failures < MaxFailures /\ failures' = failures + 1
                  /\ mishaps' = IF command = "pause" THEN mishaps ELSE mishaps \cup {"stuck"}
             ELSE UNCHANGED <<mishaps, failures>>
  /\ IF command = "undo" THEN harness' = "gone" ELSE UNCHANGED harness
  /\ IF command = "undo" \/ harness = "gone"
     THEN UNCHANGED <<switches, pause>> ELSE Resumes(command, ok)
  /\ UNCHANGED <<now, rolled>>

(* A mutant of wakeUp: a pause that was switched off is not undone.        *)
wakeIfOn ==
  /\ harness # "gone"
  /\ phase = "paused" /\ now >= wake /\ "db_pause" \in modes
  /\ phase' = "unpausing"
  /\ commands' = commands \cup {"unpause"}
  /\ UNCHANGED <<switches, pausedUntil, wake, db, harness, now, rolled, injected, mishaps, failures>>

wakeUp ==
  /\ harness # "gone"
  /\ phase = "paused" /\ now >= wake
  /\ phase' = "unpausing"
  /\ commands' = commands \cup {"unpause"}
  /\ UNCHANGED <<switches, pausedUntil, wake, db, harness, now, rolled, injected, mishaps, failures>>

onModuleDestroy ==
  /\ harness = "up"
  /\ IF pausedUntil
     THEN harness' = "leaving" /\ commands' = commands \cup {"undo"}
     ELSE harness' = "gone" /\ UNCHANGED commands
  /\ mishaps' = IF phase = "pausing" THEN mishaps \cup {"raced"} ELSE mishaps
  /\ UNCHANGED <<switches, pause, db, now, rolled, injected, failures>>

Tick ==
  /\ now < MaxTime
  /\ commands = {}
  /\ ~ (phase = "paused" /\ now >= wake /\ harness # "gone")
  /\ now' = now + 1
  /\ injected' = IF db = "paused" THEN [injected EXCEPT !["db_pause"] = now + 1] ELSE injected
  /\ UNCHANGED <<switches, pause, commands, db, harness, rolled, mishaps, failures>>

-----------------------------------------------------------------------------
Land == \E command \in {"pause", "unpause", "undo"}, ok \in BOOLEAN : land(command, ok)

Next ==
  \/ \E mode \in Dice, enabled \in BOOLEAN : configureDie(mode, enabled)
  \/ \E seconds \in Seconds : pauseOn(seconds)
  \/ pauseOff
  \/ \E mode \in Dice : rolls(mode) \/ lasts(mode)
  \/ Land
  \/ wakeUp
  \/ onModuleDestroy
  \/ Tick

(* Commands end, timers fire and time passes.                              *)
Spec == Init /\ [][Next]_vars /\ WF_vars(Land) /\ WF_vars(wakeUp) /\ WF_vars(Tick)

-----------------------------------------------------------------------------
(* Types, and that a pause is only asked of a database that is up.         *)
ChaosTypeOK ==
  /\ modes \subseteq CHAOS_MODES
  /\ stoppedAt \in [CHAOS_MODES -> Int]
  /\ pausedUntil \in BOOLEAN
  /\ phase \in {"idle", "pausing", "paused", "unpausing"} /\ wake \in Nat
  /\ commands \subseteq {"pause", "unpause", "undo"}
  /\ db \in {"up", "paused"}
  /\ harness \in {"up", "leaving", "gone"}
  /\ now \in Nat
  /\ rolled \in [Dice -> Int] /\ injected \in [CHAOS_MODES -> Int]
  /\ failures \in Nat
  /\ "pause" \in commands => db = "up" /\ pausedUntil

(***************************************************************************)
(* While the harness lives, a database it paused has the mark of pauseDb() *)
(* that onModuleDestroy() goes by, whatever failed and whatever the        *)
(* operator switched meanwhile.                                            *)
(***************************************************************************)
PausedIsMarked == db = "paused" /\ harness # "gone" => pausedUntil

(***************************************************************************)
(* A finding made while a mode was at work, or within the window after it  *)
(* last did anything, names it (active()), unless the operator switched a  *)
(* pause off before its end, or the database stayed paused.  A die may be  *)
(* off before the call it fell on is over: the window left for what it     *)
(* caused is shorter by as much.                                           *)
(***************************************************************************)
WindowOf(mode) == IF mode \in Dice THEN CHAOS_WINDOW - DieLasts ELSE CHAOS_WINDOW

WhatIsInjectedIsNamed ==
  harness = "up" =>
    \A m \in CHAOS_MODES :
      injected[m] >= now - WindowOf(m) =>
        m \in active \/ (m = "db_pause" /\ mishaps \cap {"early", "stuck"} # {})

(***************************************************************************)
(* A paused database comes back, whether the harness lives or was asked to *)
(* stop ("the last thing this service does is undo it"), unless unpausing  *)
(* it failed, or it was asked to stop while the pause was on its way.      *)
(***************************************************************************)
PauseEnds == db = "paused" ~> db = "up" \/ mishaps \cap {"stuck", "raced"} # {}

(***************************************************************************)
(* pauseDb() is one outage after the other, never two: seen from the       *)
(* container and from where pauseDb() is, Chaos implements Outage.         *)
(***************************************************************************)
OutageOfNow ==
  IF db = "paused" THEN IF phase = "idle" THEN "stuck" ELSE "here"
  ELSE IF phase = "pausing" THEN "asked" ELSE "none"

Abstract == INSTANCE Outage WITH outage <- OutageOfNow

ImplementsOutage == Abstract!Spec
=============================================================================
