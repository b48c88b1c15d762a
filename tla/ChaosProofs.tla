---------------------------- MODULE ChaosProofs ----------------------------
(***************************************************************************)
(* Proofs about Chaos, for any dice, pauses and windows: a database that   *)
(* was paused keeps its mark, and what was injected is named.              *)
(***************************************************************************)
EXTENDS Chaos, TLAPS

(* Where pauseDb() is, and what it has asked of the container.             *)
PauseInv ==
  /\ "pause" \in commands => phase = "pausing"
  /\ "unpause" \in commands => phase = "unpausing"
  /\ "undo" \in commands => harness = "leaving"
  /\ phase # "idle" => pausedUntil
  /\ phase = "pausing" /\ db = "paused" => harness = "gone"
  /\ PausedIsMarked

(* When a die that is off last fell on a call, or a pause that is off last *)
(* did something, it was not off yet; a die is done a while after it fell. *)
NamedInv ==
  /\ \A m \in CHAOS_MODES : injected[m] <= now
  /\ \A m \in Dice : /\ injected[m] <= rolled[m] + DieLasts
                     /\ rolled[m] <= now
                     /\ m \in modes \/ rolled[m] <= stoppedAt[m]
  /\ harness = "up" /\ mishaps \cap {"early", "stuck"} = {} =>
       /\ phase # "idle" \/ db = "paused" => "db_pause" \in modes
       /\ "db_pause" \in modes \/ injected["db_pause"] <= stoppedAt["db_pause"]

Inv == ChaosTypeOK /\ PauseInv /\ NamedInv

LEMMA Begins == Init => Inv
<1> SUFFICES ASSUME Init PROVE Inv
  OBVIOUS
<1>1. LongAgo \in Int
  BY ChaosAssumption DEF LongAgo
<1>2. ChaosTypeOK
  BY <1>1, ChaosAssumption DEF Init, ChaosTypeOK
<1>3. PauseInv
  BY DEF Init, PauseInv, PausedIsMarked
<1>4. NamedInv
  BY <1>1, ChaosAssumption DEF Init, NamedInv, CHAOS_MODES, LongAgo
<1>5. QED
  BY <1>2, <1>3, <1>4 DEF Inv

LEMMA SwitchOffTypes ==
  ASSUME ChaosTypeOK, NEW mode \in CHAOS_MODES, switchOff(mode)
  PROVE  /\ modes' \subseteq CHAOS_MODES
         /\ stoppedAt' \in [CHAOS_MODES -> Int]
         /\ mode \notin modes'
         /\ \A m \in CHAOS_MODES \ {mode} : (m \in modes' <=> m \in modes)
                                            /\ stoppedAt'[m] = stoppedAt[m]
         /\ stoppedAt'[mode] = IF mode \in modes THEN now ELSE stoppedAt[mode]
BY DEF ChaosTypeOK, switchOff

-----------------------------------------------------------------------------
(* The operator's switches: nothing is asked of the container.             *)
LEMMA DieKeeps ==
  ASSUME Inv, NEW mode \in Dice, NEW enabled \in BOOLEAN, configureDie(mode, enabled)
  PROVE  Inv'
<1>1. mode \in CHAOS_MODES /\ mode # "db_pause"
  BY ChaosAssumption DEF CHAOS_MODES
<1>2. CASE enabled
  <2>1. modes' = modes \cup {mode} /\ UNCHANGED <<stoppedAt, pausedUntil, phase, wake, commands,
                                             db, harness, now, rolled, injected, mishaps, failures>>
    BY <1>2 DEF configureDie, pause
  <2>2. QED
    BY <1>1, <2>1 DEF Inv, ChaosTypeOK, PauseInv, PausedIsMarked, NamedInv, CHAOS_MODES
<1>3. CASE ~ enabled
  <2>1. switchOff(mode) /\ UNCHANGED <<pausedUntil, phase, wake, commands, db, harness, now,
                                      rolled, injected, mishaps, failures>>
    BY <1>3 DEF configureDie, pause
  <2>2. /\ modes' \subseteq CHAOS_MODES
        /\ stoppedAt' \in [CHAOS_MODES -> Int]
        /\ \A m \in CHAOS_MODES \ {mode} : (m \in modes' <=> m \in modes)
                                           /\ stoppedAt'[m] = stoppedAt[m]
        /\ stoppedAt'[mode] = IF mode \in modes THEN now ELSE stoppedAt[mode]
    BY <1>1, <2>1, SwitchOffTypes DEF Inv
  <2>3. ChaosTypeOK' /\ PauseInv'
    BY <2>1, <2>2 DEF Inv, ChaosTypeOK, PauseInv, PausedIsMarked
  <2>4. NamedInv'
    BY <1>1, <2>1, <2>2 DEF Inv, NamedInv, CHAOS_MODES
  <2>5. QED
    BY <2>3, <2>4 DEF Inv
<1>4. QED
  BY <1>2, <1>3

LEMMA PauseOnKeeps ==
  ASSUME Inv, NEW seconds \in Seconds, pauseOn(seconds)
  PROVE  Inv'
<1>1. seconds \in Nat
  BY ChaosAssumption
<1>2. /\ modes' = modes \cup {"db_pause"}
      /\ UNCHANGED <<stoppedAt, db, harness, now, rolled, injected, failures>>
      /\ harness = "up"
  BY DEF pauseOn
<1>3. CASE pausedUntil
  BY <1>2, <1>3 DEF Inv, ChaosTypeOK, PauseInv, PausedIsMarked, NamedInv, CHAOS_MODES, pauseOn,
                    pause
<1>4. CASE ~ pausedUntil
  <2>1. /\ pausedUntil' = TRUE /\ phase' = "pausing" /\ wake' = seconds
        /\ commands' = commands \cup {"pause"}
    BY <1>4 DEF pauseOn
  <2>2. phase = "idle" /\ db = "up"
    BY <1>2, <1>4 DEF Inv, PauseInv, PausedIsMarked, ChaosTypeOK
  <2>3. QED
    BY <1>1, <1>2, <2>1, <2>2
    DEF Inv, ChaosTypeOK, PauseInv, PausedIsMarked, NamedInv, CHAOS_MODES
<1>5. QED
  BY <1>3, <1>4 DEF Inv, ChaosTypeOK

LEMMA PauseOffKeeps == ASSUME Inv, pauseOff PROVE Inv'
<1>1. switchOff("db_pause") /\ UNCHANGED <<pausedUntil, phase, wake, commands, db, harness, now,
                                          rolled, injected, failures>>
  BY DEF pauseOff, pause
<1>2. mishaps' = IF pausedUntil THEN mishaps \cup {"early"} ELSE mishaps
  BY DEF pauseOff
<1>3. /\ modes' \subseteq CHAOS_MODES
      /\ stoppedAt' \in [CHAOS_MODES -> Int]
      /\ \A m \in CHAOS_MODES \ {"db_pause"} : (m \in modes' <=> m \in modes)
                                             /\ stoppedAt'[m] = stoppedAt[m]
      /\ stoppedAt'["db_pause"] = IF "db_pause" \in modes THEN now ELSE stoppedAt["db_pause"]
  BY <1>1, SwitchOffTypes DEF Inv, CHAOS_MODES
<1>4. ChaosTypeOK' /\ PauseInv'
  BY <1>1, <1>3 DEF Inv, ChaosTypeOK, PauseInv, PausedIsMarked
<1>5. NamedInv'
  <2>1. \A m \in Dice : m \in modes' \/ rolled'[m] <= stoppedAt'[m]
    BY <1>1, <1>3, ChaosAssumption DEF Inv, NamedInv, CHAOS_MODES
  <2>2. ASSUME harness = "up", mishaps' \cap {"early", "stuck"} = {}
        PROVE  /\ phase' # "idle" \/ db' = "paused" => "db_pause" \in modes'
               /\ injected'["db_pause"] <= stoppedAt'["db_pause"]
    BY <1>1, <1>2, <1>3, <2>2 DEF Inv, PauseInv, PausedIsMarked, NamedInv, CHAOS_MODES
  <2>3. QED
    BY <1>1, <2>1, <2>2 DEF Inv, NamedInv
<1>6. QED
  BY <1>4, <1>5 DEF Inv
-----------------------------------------------------------------------------
(* pauseDb() and the way out.                                              *)
LEMMA SettledKeeps ==
  ASSUME Inv, NEW command \in {"pause", "unpause"}, NEW ok \in BOOLEAN,
         land(command, ok), harness # "gone", ~ (command = "pause" /\ ok)
  PROVE  Inv'
<1> DEFINE down == command = "unpause" /\ ~ ok
<1>1. /\ command \in commands /\ commands' = commands \ {command}
      /\ pausedUntil' = down /\ phase' = "idle" /\ switchOff("db_pause")
      /\ UNCHANGED <<wake, harness, now, rolled>>
  BY DEF land, Resumes, Settled
<1>2. /\ modes' \subseteq CHAOS_MODES
      /\ stoppedAt' \in [CHAOS_MODES -> Int]
      /\ \A m \in CHAOS_MODES \ {"db_pause"} : (m \in modes' <=> m \in modes)
                                             /\ stoppedAt'[m] = stoppedAt[m]
      /\ stoppedAt'["db_pause"] = IF "db_pause" \in modes THEN now ELSE stoppedAt["db_pause"]
  BY <1>1, SwitchOffTypes DEF Inv, CHAOS_MODES
<1>3. CASE ok
  <2>1. /\ command = "unpause" /\ phase = "unpausing" /\ "pause" \notin commands'
        /\ db' = "up" /\ injected' = [injected EXCEPT !["db_pause"] = now]
        /\ UNCHANGED <<mishaps, failures>>
    BY <1>1, <1>3 DEF land, Effect, Inv, PauseInv
  <2>2. ChaosTypeOK' /\ PauseInv'
    BY <1>1, <1>2, <2>1
    DEF Inv, ChaosTypeOK, PauseInv, PausedIsMarked, CHAOS_MODES
  <2>3. NamedInv'
    BY <1>1, <1>2, <2>1, ChaosAssumption DEF Inv, ChaosTypeOK, NamedInv, CHAOS_MODES
  <2>4. QED
    BY <2>2, <2>3 DEF Inv
<1>4. CASE ~ ok
  <2>1. UNCHANGED <<db, injected>>
    BY <1>4 DEF land
  <2>2. /\ failures' \in Nat
        /\ mishaps \subseteq mishaps'
        /\ Feasible(command) /\ command = "unpause" => "stuck" \in mishaps'
    BY <1>4 DEF land, Inv, ChaosTypeOK
  <2>3. /\ command = "pause" => db = "up" /\ phase = "pausing"
        /\ command = "unpause" => phase = "unpausing"
        /\ "pause" \notin commands'
        /\ "unpause" \notin commands'
    BY <1>1 DEF Inv, ChaosTypeOK, PauseInv
  <2>4. ChaosTypeOK' /\ PauseInv'
    <3>1. ChaosTypeOK'
      BY <1>1, <1>2, <2>1, <2>2, <2>3 DEF Inv, ChaosTypeOK
    <3>2. db = "paused" => command = "unpause"
      BY <2>3 DEF Inv, ChaosTypeOK
    <3>3. PauseInv'
      BY <1>1, <1>4, <2>1, <2>3, <3>2 DEF Inv, PauseInv, PausedIsMarked
    <3>4. QED
      BY <3>1, <3>3
  <2>5. command = "unpause" /\ db = "paused" => "stuck" \in mishaps'
    BY <2>2 DEF Feasible
  <2>6. NamedInv'
    BY <1>1, <1>2, <2>1, <2>2, <2>3, <2>5, ChaosAssumption
    DEF Inv, ChaosTypeOK, NamedInv, CHAOS_MODES
  <2>7. QED
    BY <2>4, <2>6 DEF Inv
<1>5. QED
  BY <1>3, <1>4

LEMMA LandKeeps ==
  ASSUME Inv, NEW command \in {"pause", "unpause", "undo"}, NEW ok \in BOOLEAN,
         land(command, ok)
  PROVE  Inv'
<1>1. command \in commands /\ commands' = commands \ {command} /\ now' = now /\ rolled' = rolled
  BY DEF land
<1>2. /\ ok => /\ Feasible(command) /\ db' = Effect(command)
               /\ injected' = [injected EXCEPT !["db_pause"] = now]
               /\ UNCHANGED mishaps
      /\ ~ ok => UNCHANGED <<db, injected>>
      /\ failures' \in Nat
  BY DEF land, Inv, ChaosTypeOK
<1>3. /\ injected' \in [CHAOS_MODES -> Int]
      /\ \A m \in Dice : injected'[m] = injected[m]
      /\ \A m \in CHAOS_MODES : injected'[m] <= now'
  BY <1>1, <1>2, ChaosAssumption DEF Inv, ChaosTypeOK, NamedInv, CHAOS_MODES
<1>4. CASE command = "undo" \/ harness = "gone"
  <2>1. UNCHANGED <<modes, stoppedAt, pausedUntil, phase, wake>>
    BY <1>4 DEF land, switches, pause
  <2>2. harness' = "gone"
    BY <1>4 DEF land
  <2>3. "pause" \in commands' => db' = "up"
    BY <1>1, <1>2, <1>4 DEF Inv, ChaosTypeOK, PauseInv, Effect
  <2>4. "undo" \notin commands'
    BY <1>1, <1>4 DEF Inv, PauseInv
  <2>5. db' \in {"up", "paused"}
    BY <1>2 DEF Effect, Inv, ChaosTypeOK
  <2>6. ChaosTypeOK'
    BY <1>1, <1>2, <1>3, <2>1, <2>2, <2>3, <2>5 DEF Inv, ChaosTypeOK
  <2>7. PauseInv'
    BY <1>1, <2>1, <2>2, <2>4 DEF Inv, PauseInv, PausedIsMarked
  <2>8. NamedInv'
    BY <1>1, <1>3, <2>1, <2>2 DEF Inv, NamedInv, CHAOS_MODES
  <2>9. QED
    BY <2>6, <2>7, <2>8 DEF Inv
<1>5. CASE command = "pause" /\ ok /\ harness # "gone"
  <2>1. /\ phase' = "paused" /\ wake' = now + wake
        /\ UNCHANGED <<modes, stoppedAt, pausedUntil, harness, mishaps>>
    BY <1>2, <1>5 DEF land, Resumes, switches
  <2>2. phase = "pausing" /\ pausedUntil /\ db' = "paused"
    BY <1>1, <1>2, <1>5 DEF Inv, PauseInv, Effect
  <2>3. "pause" \notin commands' /\ "unpause" \notin commands'
    BY <1>1, <1>5, <2>2 DEF Inv, PauseInv
  <2>4. ChaosTypeOK'
    BY <1>1, <1>2, <1>3, <2>1, <2>2, <2>3 DEF Inv, ChaosTypeOK
  <2>5. PauseInv'
    BY <1>1, <2>1, <2>2, <2>3 DEF Inv, PauseInv, PausedIsMarked
  <2>6. NamedInv'
    BY <1>1, <1>3, <2>1, <2>2 DEF Inv, NamedInv, CHAOS_MODES
  <2>7. QED
    BY <2>4, <2>5, <2>6 DEF Inv
<1>6. CASE command # "undo" /\ harness # "gone" /\ ~ (command = "pause" /\ ok)
  BY <1>6, SettledKeeps
<1>7. QED
  BY <1>4, <1>5, <1>6

LEMMA OthersKeep ==
  ASSUME Inv,
         (\E mode \in Dice : rolls(mode) \/ lasts(mode)) \/ wakeUp \/ onModuleDestroy \/ Tick
         \/ UNCHANGED vars
  PROVE  Inv'
<1>1. ASSUME NEW mode \in Dice, rolls(mode) PROVE Inv'
  BY <1>1, ChaosAssumption
  DEF rolls, switches, pause, Inv, ChaosTypeOK, PauseInv, PausedIsMarked, NamedInv, CHAOS_MODES
<1>7. ASSUME NEW mode \in Dice, lasts(mode) PROVE Inv'
  <2>1. /\ now <= rolled[mode] + DieLasts
        /\ injected' = [injected EXCEPT ![mode] = now]
        /\ UNCHANGED <<modes, stoppedAt, pausedUntil, phase, wake, commands, db, harness, now,
                       rolled, mishaps, failures>>
    BY <1>7 DEF lasts, switches, pause
  <2>2. mode \in CHAOS_MODES /\ mode # "db_pause"
    BY ChaosAssumption DEF CHAOS_MODES
  <2>3. ChaosTypeOK' /\ PauseInv'
    <3>1. injected \in [CHAOS_MODES -> Int] /\ now \in Int
      BY DEF Inv, ChaosTypeOK
    <3>2. injected' \in [CHAOS_MODES -> Int]
      BY <2>1, <3>1
    <3>3. QED
      BY <2>1, <3>2 DEF Inv, ChaosTypeOK, PauseInv, PausedIsMarked
  <2>4. NamedInv'
    BY <2>1, <2>2 DEF Inv, ChaosTypeOK, NamedInv, CHAOS_MODES
  <2>5. QED
    BY <2>3, <2>4 DEF Inv
<1>2. CASE wakeUp
  <2>1. "pause" \notin commands
    BY <1>2 DEF wakeUp, Inv, PauseInv
  <2>2. QED
    BY <1>2, <2>1
    DEF wakeUp, switches, Inv, ChaosTypeOK, PauseInv, PausedIsMarked, NamedInv
<1>3. CASE onModuleDestroy
  <2>1. /\ harness = "up" /\ harness' \in {"leaving", "gone"}
        /\ \/ commands' = commands \cup {"undo"} /\ harness' = "leaving"
           \/ commands' = commands
        /\ UNCHANGED <<modes, stoppedAt, pausedUntil, phase, wake, db, now, rolled, injected,
                       failures>>
    BY <1>3 DEF onModuleDestroy, switches, pause
  <2>2. QED
    BY <2>1 DEF Inv, ChaosTypeOK, PauseInv, PausedIsMarked, NamedInv
<1>4. CASE Tick
  <2>1. /\ now' = now + 1
        /\ injected' = IF db = "paused" THEN [injected EXCEPT !["db_pause"] = now + 1]
                       ELSE injected
        /\ UNCHANGED <<modes, stoppedAt, pausedUntil, phase, wake, commands, db, harness,
                       rolled, mishaps, failures>>
    BY <1>4 DEF Tick, switches, pause
  <2>2. ChaosTypeOK' /\ PauseInv'
    <3>1. now' \in Nat
      BY <2>1 DEF Inv, ChaosTypeOK
    <3>2. injected \in [CHAOS_MODES -> Int] /\ now + 1 \in Int
      BY DEF Inv, ChaosTypeOK
    <3>3. injected' \in [CHAOS_MODES -> Int]
      BY <2>1, <3>2
    <3>4. QED
      BY <2>1, <3>1, <3>3 DEF Inv, ChaosTypeOK, PauseInv, PausedIsMarked
  <2>3. NamedInv'
    BY <2>1, ChaosAssumption DEF Inv, ChaosTypeOK, NamedInv, CHAOS_MODES
  <2>4. QED
    BY <2>2, <2>3 DEF Inv
<1>5. CASE UNCHANGED vars
  BY <1>5
  DEF vars, switches, pause, Inv, ChaosTypeOK, PauseInv, PausedIsMarked, NamedInv
<1>6. QED
  BY <1>1, <1>2, <1>3, <1>4, <1>5, <1>7

-----------------------------------------------------------------------------
LEMMA Invariance == Spec => []Inv
<1>1. Inv /\ [Next]_vars => Inv'
  BY DieKeeps, PauseOnKeeps, PauseOffKeeps, LandKeeps, OthersKeep DEF Next, Land
<1>2. QED
  BY Begins, <1>1, PTL DEF Spec

(* Types, and that a pause is only asked of a database that is up.         *)
THEOREM TypeCorrect == Spec => []ChaosTypeOK
<1>1. Inv => ChaosTypeOK
  BY DEF Inv
<1>2. QED
  BY Invariance, <1>1, PTL

(* A database the harness paused keeps the mark onModuleDestroy() goes by. *)
THEOREM MarkStands == Spec => []PausedIsMarked
<1>1. Inv => PausedIsMarked
  BY DEF Inv, PauseInv
<1>2. QED
  BY Invariance, <1>1, PTL

(* Whatever the window and however long a die is at work after it fell,    *)
(* active() names what was injected.                                       *)
THEOREM Named == Spec => []WhatIsInjectedIsNamed
<1>1. Inv => WhatIsInjectedIsNamed
  <2> SUFFICES ASSUME Inv, harness = "up", NEW m \in CHAOS_MODES,
                      injected[m] >= now - WindowOf(m),
                      ~ (m = "db_pause" /\ mishaps \cap {"early", "stuck"} # {})
               PROVE  m \in active
    BY DEF WhatIsInjectedIsNamed
  <2>1. m \in modes \/ stoppedAt[m] >= now - CHAOS_WINDOW
    <3>1. CASE m \in Dice
      BY <3>1, ChaosAssumption DEF Inv, ChaosTypeOK, NamedInv, WindowOf, CHAOS_MODES
    <3>2. CASE m = "db_pause"
      BY <3>2, ChaosAssumption DEF Inv, ChaosTypeOK, NamedInv, WindowOf, CHAOS_MODES
    <3>3. QED
      BY <3>1, <3>2 DEF CHAOS_MODES
  <2>2. QED
    BY <2>1 DEF active
<1>2. QED
  BY Invariance, <1>1, PTL

-----------------------------------------------------------------------------
(* A command that comes to its end is a step of Outage, or none.           *)
LEMMA LandIsOutage ==
  ASSUME Inv, NEW command \in {"pause", "unpause", "undo"}, NEW ok \in BOOLEAN,
         land(command, ok)
  PROVE  Abstract!Next \/ OutageOfNow' = OutageOfNow
<1> USE DEF Abstract!Next, Abstract!Come, Abstract!Spare, Abstract!End, Abstract!Stick,
            Abstract!Rescue, OutageOfNow
<1>1. /\ command = "pause" => db = "up" /\ phase = "pausing"
      /\ command = "unpause" => phase = "unpausing"
      /\ db \in {"up", "paused"}
  BY DEF land, Inv, ChaosTypeOK, PauseInv
<1>2. db' = IF ok THEN Effect(command) ELSE db
  BY DEF land
<1>3. CASE command = "undo" \/ harness = "gone"
  <2>1. phase' = phase
    BY <1>3 DEF land, pause
  <2>2. CASE ok
    <3>1. (command = "pause") = (db = "up")
      BY <2>2 DEF land, Feasible
    <3>2. CASE command = "pause"
      BY <1>1, <1>2, <2>1, <2>2, <3>2 DEF Effect
    <3>3. CASE command # "pause"
      <4>1. db = "paused" /\ db' = "up"
        BY <1>1, <1>2, <2>2, <3>1, <3>3 DEF Effect
      <4>2. phase = "pausing" => FALSE
        BY <1>1, <3>3, <4>1 DEF land, Inv, PauseInv
      <4>3. QED
        BY <2>1, <4>1, <4>2
    <3>4. QED
      BY <3>2, <3>3
  <2>3. CASE ~ ok
    BY <1>2, <2>1, <2>3
  <2>4. QED
    BY <2>2, <2>3
<1>4. CASE command # "undo" /\ harness # "gone"
  <2>1. phase' = IF command = "pause" /\ ok THEN "paused" ELSE "idle"
    BY <1>4 DEF land, Resumes, Settled
  <2>2. CASE command = "pause"
    BY <1>1, <1>2, <2>1, <2>2 DEF Effect
  <2>3. CASE command = "unpause"
    BY <1>1, <1>2, <2>1, <2>3 DEF Effect
  <2>4. QED
    BY <1>4, <2>2, <2>3
<1>5. QED
  BY <1>3, <1>4

LEMMA StepIsOutage == Inv /\ [Next]_vars => [Abstract!Next]_OutageOfNow
<1> SUFFICES ASSUME Inv, [Next]_vars PROVE Abstract!Next \/ OutageOfNow' = OutageOfNow
  OBVIOUS
<1>1. CASE Land
  BY <1>1, LandIsOutage DEF Land
<1>2. ASSUME NEW seconds \in Seconds, pauseOn(seconds)
      PROVE  Abstract!Next \/ OutageOfNow' = OutageOfNow
  <2>1. CASE pausedUntil
    BY <1>2, <2>1 DEF pauseOn, pause, OutageOfNow
  <2>2. CASE ~ pausedUntil
    <3>1. phase = "idle" /\ db = "up" /\ phase' = "pausing" /\ db' = db
      BY <1>2, <2>2 DEF pauseOn, Inv, ChaosTypeOK, PauseInv, PausedIsMarked
    <3>2. QED
      BY <3>1 DEF Abstract!Next, Abstract!Ask, OutageOfNow
  <2>3. QED
    BY <2>1, <2>2
<1>3. CASE wakeUp
  BY <1>3 DEF wakeUp, OutageOfNow
<1>4. CASE onModuleDestroy \/ Tick \/ pauseOff \/ UNCHANGED vars
           \/ (\E mode \in Dice : rolls(mode) \/ lasts(mode))
           \/ (\E mode \in Dice, enabled \in BOOLEAN : configureDie(mode, enabled))
  <2>1. UNCHANGED <<db, phase>>
    BY <1>4 DEF onModuleDestroy, Tick, pauseOff, vars, rolls, lasts, configureDie, pause
  <2>2. QED
    BY <2>1 DEF OutageOfNow
<1>5. QED
  BY <1>1, <1>2, <1>3, <1>4 DEF Next

(* pauseDb() implements Outage, whatever the operator and the container do. *)
THEOREM Implements == Spec => ImplementsOutage
<1>1. Init => Abstract!Init
  BY DEF Init, Abstract!Init, OutageOfNow
<1>2. QED
  BY Invariance, <1>1, StepIsOutage, PTL DEF Spec, ImplementsOutage, Abstract!Spec
=============================================================================
