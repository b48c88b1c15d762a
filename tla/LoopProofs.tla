----------------------------- MODULE LoopProofs -----------------------------
(***************************************************************************)
(* Who may run the loop, whatever overlaps, for any rosters and any number *)
(* of operations, load runs, orders and failures; and what a window on     *)
(* disk says of the orders of its time.  Induction is over sets of         *)
(* numbers: a set that holds 0 and is closed under successor is Nat.       *)
(***************************************************************************)
EXTENDS Loop, WellFoundedInduction, FiniteSetTheorems, TLAPS

Below == {pair \in Nat \X Nat : pair[1] < pair[2]}

(* The order of the natural numbers has no infinite descent.               *)
LEMMA BelowWellFounded == IsWellFoundedOn(Below, Nat)
  BY NatLessThanWellFounded DEF OpToRel, Below

(* Induction over Nat, for a set instead of a predicate.                   *)
LEMMA SetInduction ==
  ASSUME NEW T \in SUBSET Nat, 0 \in T, \A n \in T : n + 1 \in T
  PROVE  T = Nat
<1>1. SUFFICES ASSUME Nat \ T # {} PROVE FALSE
  OBVIOUS
<1>2. PICK x \in Nat \ T : \A y \in Nat \ T : ~ (<<y, x>> \in Below)
  BY <1>1, BelowWellFounded, WFMin
<1>3. x # 0 /\ x - 1 \in Nat
  BY <1>2
<1>4. x - 1 \in T
  <2>1. SUFFICES ASSUME x - 1 \in Nat \ T PROVE FALSE
    BY <1>3
  <2>2. <<x - 1, x>> \in Below
    BY <1>3 DEF Below
  <2> QED
    BY <1>2, <2>1, <2>2
<1> QED
  BY <1>2, <1>3, <1>4

-----------------------------------------------------------------------------
(***************************************************************************)
(* What the runs on disk are.                                              *)
(***************************************************************************)
Files ==
  [mode : Senders, rows : [Senders -> Nat], finished : BOOLEAN,
   summary : [sent : Int, given : BOOLEAN]]

Row(sender) == [is |-> "row", sender |-> sender]

Callbacks ==
  [is : {"row"}, sender : Senders] \cup [is : {"close"}, run : Nat, sent : Int]

Histories ==
  [running : SUBSET Nat, disowned : SUBSET Nat, turn : Seq(Callbacks), files : Seq(Files)]

(* Which of the first n callbacks in line hand over a row of sender, and   *)
(* how many.                                                               *)
RowsAmong(line, sender, n) == {k \in 1..n : line[k] = Row(sender)}
RowsOf(line, sender, n) == Cardinality(RowsAmong(line, sender, n))

LEMMA RowsCounted ==
  ASSUME NEW line, NEW sender, NEW n \in Nat
  PROVE  /\ RowsOf(line, sender, n) \in Nat
         /\ RowsOf(line, sender, 0) = 0
         /\ RowsOf(line, sender, n + 1)
              = RowsOf(line, sender, n) + IF line[n + 1] = Row(sender) THEN 1 ELSE 0
<1>1. IsFiniteSet(RowsAmong(line, sender, n))
  <2>1. IsFiniteSet(1..n)
    BY FS_Interval
  <2>2. RowsAmong(line, sender, n) \subseteq 1..n
    BY DEF RowsAmong
  <2> QED
    BY <2>1, <2>2, FS_Subset
<1>2. RowsAmong(line, sender, 0) = {}
  BY DEF RowsAmong
<1>3. n + 1 \notin RowsAmong(line, sender, n)
  BY DEF RowsAmong
<1>4. RowsAmong(line, sender, n + 1)
        = RowsAmong(line, sender, n) \cup IF line[n + 1] = Row(sender) THEN {n + 1} ELSE {}
  <2>1. 1..(n + 1) = 1..n \cup {n + 1}
    OBVIOUS
  <2> QED
    BY <2>1 DEF RowsAmong
<1>5. RowsOf(line, sender, n) \in Nat
  BY <1>1, FS_CardinalityType DEF RowsOf
<1>6. RowsOf(line, sender, 0) = 0
  BY <1>2, FS_EmptySet DEF RowsOf
<1>7. CASE line[n + 1] = Row(sender)
  <2>1. RowsAmong(line, sender, n + 1) = RowsAmong(line, sender, n) \cup {n + 1}
    BY <1>4, <1>7
  <2>2. RowsOf(line, sender, n + 1) = RowsOf(line, sender, n) + 1
    BY <1>1, <1>3, <2>1, FS_AddElement DEF RowsOf
  <2> QED
    BY <1>5, <1>6, <1>7, <2>2
<1>8. CASE line[n + 1] # Row(sender)
  <2>1. RowsAmong(line, sender, n + 1) = RowsAmong(line, sender, n)
    BY <1>4, <1>8
  <2>2. RowsOf(line, sender, n + 1) = RowsOf(line, sender, n)
    BY <2>1 DEF RowsOf
  <2> QED
    BY <1>5, <1>6, <1>8, <2>2
<1> QED
  BY <1>7, <1>8

(* The count depends on those n only, and is zero if none is such a row.   *)
LEMMA RowsAlike ==
  ASSUME NEW line, NEW other, NEW sender, NEW n, \A k \in 1..n : line[k] = other[k]
  PROVE  RowsOf(line, sender, n) = RowsOf(other, sender, n)
<1>1. RowsAmong(line, sender, n) = RowsAmong(other, sender, n)
  BY DEF RowsAmong
<1> QED
  BY <1>1 DEF RowsOf

LEMMA NoRows ==
  ASSUME NEW line, NEW sender, NEW n \in Nat, \A k \in 1..n : line[k] # Row(sender)
  PROVE  RowsOf(line, sender, n) = 0
<1>1. RowsAmong(line, sender, n) = {}
  BY DEF RowsAmong
<1> QED
  BY <1>1, FS_EmptySet DEF RowsOf

-----------------------------------------------------------------------------
(***************************************************************************)
(* What one callback does: a row goes to every open run, a run that is     *)
(* open is finished.                                                       *)
(***************************************************************************)
Closes(next, run) == next.is = "close" /\ next.run = run

(* What neither a row nor a finish changes.                                *)
SameRuns(h, g) ==
  /\ g \in Histories
  /\ g.turn = h.turn /\ g.disowned = h.disowned
  /\ DOMAIN g.files = DOMAIN h.files
  /\ \A run \in DOMAIN h.files : g.files[run].mode = h.files[run].mode

LEMMA FilesAre ==
  ASSUME NEW h \in Histories, NEW run \in DOMAIN h.files
  PROVE  h.files[run] \in Files /\ h.files[run].rows \in [Senders -> Nat]
<1>1. h.files[run] \in Files
  BY DEF Histories
<1> QED
  BY <1>1 DEF Files

LEMMA AppendIs ==
  ASSUME NEW h \in Histories, NEW sender \in Senders
  PROVE  LET g == append(h, sender) IN
         /\ SameRuns(h, g)
         /\ g.running = h.running
         /\ \A run \in DOMAIN h.files :
              /\ run \notin h.running => g.files[run] = h.files[run]
              /\ run \in h.running =>
                   g.files[run] = [h.files[run] EXCEPT !.rows[sender] = @ + 1]
<1> DEFINE g == append(h, sender)
           new == [run \in DOMAIN h.files |->
                     IF run \in h.running
                     THEN [h.files[run] EXCEPT !.rows[sender] = @ + 1] ELSE h.files[run]]
<1>1. g = [h EXCEPT !.files = new]
  BY DEF append
<1>2. /\ h.files \in Seq(Files) /\ Len(h.files) \in Nat
      /\ DOMAIN h.files = 1..Len(h.files)
      /\ \A run \in DOMAIN h.files : h.files[run] \in Files
  BY DEF Histories
<1>3. ASSUME NEW run \in DOMAIN h.files
      PROVE  /\ [h.files[run] EXCEPT !.rows[sender] = @ + 1] \in Files
             /\ [h.files[run] EXCEPT !.rows[sender] = @ + 1].mode = h.files[run].mode
  <2> DEFINE file == h.files[run]
  <2>1. file \in Files
    BY <1>2
  <2> HIDE DEF file
  <2>2. [file EXCEPT !.rows[sender] = @ + 1]
          = [file EXCEPT !.rows = [file.rows EXCEPT ![sender] = file.rows[sender] + 1]]
    OBVIOUS
  <2>3. [file.rows EXCEPT ![sender] = file.rows[sender] + 1] \in [Senders -> Nat]
    BY <2>1 DEF Files
  <2>4. /\ [file EXCEPT !.rows[sender] = @ + 1] \in Files
        /\ [file EXCEPT !.rows[sender] = @ + 1].mode = file.mode
    BY <2>1, <2>2, <2>3 DEF Files
  <2> QED
    BY <2>4 DEF file
<1>4. new \in [1..Len(h.files) -> Files]
  BY <1>2, <1>3
<1>5. \A run \in DOMAIN h.files :
        new[run] = IF run \in h.running
                   THEN [h.files[run] EXCEPT !.rows[sender] = @ + 1] ELSE h.files[run]
  OBVIOUS
<1> HIDE DEF new
<1>6. new \in Seq(Files) /\ DOMAIN new = DOMAIN h.files
  BY <1>2, <1>4
<1>7. /\ g \in Histories /\ g.files = new
      /\ g.turn = h.turn /\ g.disowned = h.disowned /\ g.running = h.running
  BY <1>1, <1>6 DEF Histories
<1> HIDE DEF g
<1>8. SameRuns(h, g)
  BY <1>3, <1>5, <1>6, <1>7 DEF SameRuns
<1>9. \A run \in DOMAIN h.files :
        /\ run \notin h.running => g.files[run] = h.files[run]
        /\ run \in h.running =>
             g.files[run] = [h.files[run] EXCEPT !.rows[sender] = @ + 1]
  BY <1>5, <1>7
<1> QED
  BY <1>7, <1>8, <1>9 DEF g

LEMMA FinishIs ==
  ASSUME NEW h \in Histories, h.running \subseteq DOMAIN h.files,
         NEW run, NEW summary \in [sent : Int, given : BOOLEAN]
  PROVE  LET g == finish(h, run, summary) IN
         /\ SameRuns(h, g)
         /\ g.running = h.running \ {run}
         /\ \A r \in DOMAIN h.files :
              /\ r # run => g.files[r] = h.files[r]
              /\ run \notin h.running => g.files[r] = h.files[r]
         /\ run \in h.running =>
              /\ g.files[run].rows = h.files[run].rows
              /\ g.files[run].finished /\ g.files[run].summary = summary
<1> DEFINE g == finish(h, run, summary)
           done == [h.files[run] EXCEPT !.finished = TRUE, !.summary = summary]
           new == [h.files EXCEPT ![run] = done]
<1>1. CASE run \notin h.running
  <2>1. g = h /\ h.running \ {run} = h.running
    BY <1>1 DEF finish
  <2> QED
    BY <1>1, <2>1 DEF SameRuns
<1>2. CASE run \in h.running
  <2>1. g = [h EXCEPT !.running = @ \ {run}, !.files[run] = done]
    BY <1>2 DEF finish
  <2>2. /\ h.files \in Seq(Files) /\ run \in DOMAIN h.files
        /\ h.files[run] \in Files
    BY <1>2 DEF Histories
  <2>3. /\ done \in Files
        /\ done.rows = h.files[run].rows /\ done.mode = h.files[run].mode
        /\ done.finished /\ done.summary = summary
    BY <2>2 DEF Files
  <2>4. /\ g.running = h.running \ {run} /\ g.disowned = h.disowned
        /\ g.turn = h.turn /\ g.files = new
        /\ g = [h EXCEPT !.running = @ \ {run}, !.files = new]
    BY <2>1, <2>2 DEF Histories, Files
  <2> HIDE DEF done
  <2>5. /\ new \in Seq(Files) /\ DOMAIN new = DOMAIN h.files
        /\ new[run] = done /\ \A r \in DOMAIN h.files : r # run => new[r] = h.files[r]
    BY <2>2, <2>3
  <2> HIDE DEF new
  <2>6. g \in Histories
    BY <2>4, <2>5 DEF Histories
  <2> HIDE DEF g
  <2>7. SameRuns(h, g)
    BY <2>3, <2>4, <2>5, <2>6 DEF SameRuns
  <2> QED
    BY <1>2, <2>3, <2>4, <2>5, <2>7 DEF g
<1> QED
  BY <1>1, <1>2

(* The k-th callback in line is the one that will finish run.              *)
Finishes(line, k, run) ==
  Closes(line[k], run) /\ \A j \in 1..(k - 1) : ~ Closes(line[j], run)

-----------------------------------------------------------------------------
(***************************************************************************)
(* What the first n callbacks in line make of h: an open run has the rows  *)
(* of them all, and one that they finish those that were before its end.   *)
(***************************************************************************)
EndedBy(h, g, k, run) ==
  /\ Finishes(h.turn, k, run)
  /\ g.files[run].finished
  /\ g.files[run].summary = [sent |-> h.turn[k].sent, given |-> TRUE]
  /\ \A s \in Senders :
       g.files[run].rows[s] = h.files[run].rows[s] + RowsOf(h.turn, s, k - 1)

StillOpen(h, g, n, run) ==
  /\ g.files[run].finished = h.files[run].finished
  /\ g.files[run].summary = h.files[run].summary
  /\ \A s \in Senders :
       g.files[run].rows[s] = h.files[run].rows[s] + RowsOf(h.turn, s, n)

TurnedTo(h, g, n) ==
  /\ SameRuns([h EXCEPT !.turn = <<>>], g)
  /\ g.running = {run \in h.running : \A k \in 1..n : ~ Closes(h.turn[k], run)}
  /\ \A run \in DOMAIN h.files :
       /\ run \notin h.running => g.files[run] = h.files[run]
       /\ run \in g.running => StillOpen(h, g, n, run)
       /\ run \in h.running \ g.running => \E k \in 1..n : EndedBy(h, g, k, run)

LEMMA TurnedToNothing ==
  ASSUME NEW h \in Histories
  PROVE  TurnedTo(h, [h EXCEPT !.turn = <<>>], 0)
<1> DEFINE g == [h EXCEPT !.turn = <<>>]
<1>1. /\ g \in Histories /\ g.running = h.running /\ g.files = h.files
      /\ g.turn = <<>> /\ g.disowned = h.disowned
  <2>1. <<>> \in Seq(Callbacks)
    OBVIOUS
  <2> QED
    BY <2>1 DEF Histories
<1>2. \A run \in DOMAIN h.files : \A s \in Senders : h.files[run].rows[s] \in Nat
  BY FilesAre
<1>3. \A s \in Senders : RowsOf(h.turn, s, 0) = 0
  BY RowsCounted
<1> HIDE DEF g
<1>4. SameRuns(g, g)
  BY <1>1 DEF SameRuns
<1>5. \A run \in DOMAIN h.files : StillOpen(h, g, 0, run)
  BY <1>1, <1>2, <1>3 DEF StillOpen
<1> QED
  BY <1>1, <1>4, <1>5 DEF TurnedTo, g

LEMMA TurnedToOneMore ==
  ASSUME NEW h \in Histories, h.running \subseteq DOMAIN h.files,
         NEW n \in Nat, n + 1 \in 1..Len(h.turn), NEW g, TurnedTo(h, g, n)
  PROVE  TurnedTo(h, handed(g, h.turn[n + 1]), n + 1)
<1> DEFINE next == h.turn[n + 1]
           f == handed(g, next)
<1>1. /\ g \in Histories /\ DOMAIN g.files = DOMAIN h.files
      /\ g.running \subseteq h.running /\ g.running \subseteq DOMAIN g.files
      /\ SameRuns([h EXCEPT !.turn = <<>>], g)
  BY DEF TurnedTo, SameRuns, Histories
<1>2. next \in Callbacks
  BY DEF Histories
<1>3. /\ \A k \in 1..n : k \in 1..(n + 1)
      /\ \A k \in 1..(n + 1) : k \in 1..n \/ k = n + 1
      /\ n + 1 \in 1..(n + 1) /\ (n + 1) - 1 = n
  OBVIOUS
<1>4. /\ \A run \in DOMAIN h.files :
           /\ run \notin h.running => g.files[run] = h.files[run]
           /\ run \in g.running => StillOpen(h, g, n, run)
           /\ run \in h.running \ g.running => \E k \in 1..n : EndedBy(h, g, k, run)
      /\ g.running = {run \in h.running : \A k \in 1..n : ~ Closes(h.turn[k], run)}
  BY DEF TurnedTo
<1>5. \A s \in Senders :
        /\ RowsOf(h.turn, s, n) \in Nat
        /\ RowsOf(h.turn, s, n + 1)
             = RowsOf(h.turn, s, n) + IF next = Row(s) THEN 1 ELSE 0
  BY RowsCounted
<1>6. \A run \in DOMAIN h.files, s \in Senders :
        h.files[run].rows[s] \in Nat /\ g.files[run].rows \in [Senders -> Nat]
  BY <1>1, FilesAre
<1> HIDE DEF next, f
<1>7. CASE next.is = "row"
  <2>1. PICK sender \in Senders : next = Row(sender)
    BY <1>2, <1>7 DEF Callbacks, Row
  <2>2. f = append(g, sender)
    BY <2>1 DEF f, handed, Row
  <2>3. /\ SameRuns(g, f) /\ f.running = g.running
        /\ \A run \in DOMAIN g.files :
             /\ run \notin g.running => f.files[run] = g.files[run]
             /\ run \in g.running =>
                  f.files[run] = [g.files[run] EXCEPT !.rows[sender] = @ + 1]
    <3> HIDE DEF TurnedTo
    <3> QED
      BY ONLY <1>1, <2>2, AppendIs
  <2>4. \A run : ~ Closes(next, run)
    BY <1>7 DEF Closes
  <2>5. f.running = {run \in h.running : \A k \in 1..(n + 1) : ~ Closes(h.turn[k], run)}
    BY <1>3, <1>4, <2>3, <2>4 DEF next
  <2>6. SameRuns([h EXCEPT !.turn = <<>>], f)
    BY <1>1, <2>3 DEF SameRuns
  <2>7. ASSUME NEW run \in DOMAIN h.files, run \in f.running
        PROVE  StillOpen(h, f, n + 1, run)
    <3> DEFINE file == g.files[run]
    <3>1. StillOpen(h, g, n, run) /\ file \in Files
      BY <1>1, <1>4, <2>3, <2>7 DEF Histories
    <3>2. f.files[run] = [file EXCEPT !.rows[sender] = @ + 1]
      BY <1>1, <2>3, <2>7
    <3> HIDE DEF file
    <3>3. [file EXCEPT !.rows[sender] = @ + 1]
            = [file EXCEPT !.rows = [file.rows EXCEPT ![sender] = file.rows[sender] + 1]]
      OBVIOUS
    <3>4. /\ f.files[run].finished = file.finished /\ f.files[run].summary = file.summary
          /\ f.files[run].rows = [file.rows EXCEPT ![sender] = file.rows[sender] + 1]
      BY <3>1, <3>2, <3>3 DEF Files
    <3>5. ASSUME NEW s \in Senders
          PROVE  f.files[run].rows[s] = file.rows[s] + IF next = Row(s) THEN 1 ELSE 0
      <4>1. next = Row(s) <=> s = sender
        BY <2>1 DEF Row
      <4>2. file.rows \in [Senders -> Nat]
        BY <3>1 DEF Files
      <4> QED
        BY <3>4, <4>1, <4>2
    <3>6. ASSUME NEW s \in Senders
          PROVE  f.files[run].rows[s] = h.files[run].rows[s] + RowsOf(h.turn, s, n + 1)
      <4>1. file.rows[s] = h.files[run].rows[s] + RowsOf(h.turn, s, n)
        BY <3>1 DEF StillOpen, file
      <4>2. h.files[run].rows[s] \in Nat
        BY <1>6
      <4> QED
        BY <1>5, <3>5, <4>1, <4>2
    <3> QED
      BY <3>1, <3>4, <3>6 DEF StillOpen, file
  <2>8. ASSUME NEW run \in DOMAIN h.files, run \in h.running \ f.running
        PROVE  \E k \in 1..(n + 1) : EndedBy(h, f, k, run)
    <3>1. f.files[run] = g.files[run]
      BY <1>1, <2>3, <2>8
    <3>2. PICK k \in 1..n : EndedBy(h, g, k, run)
      BY <1>4, <2>3, <2>8
    <3> QED
      BY <1>3, <3>1, <3>2 DEF EndedBy
  <2>9. ASSUME NEW run \in DOMAIN h.files, run \notin h.running
        PROVE  f.files[run] = h.files[run]
    <3>1. run \notin g.running /\ run \in DOMAIN g.files
      BY <1>1, <2>9
    <3> QED
      BY <1>4, <2>3, <2>9, <3>1
  <2> QED
    BY <2>5, <2>6, <2>7, <2>8, <2>9 DEF TurnedTo, f, next
<1>8. CASE next.is = "close"
  <2> DEFINE last == next.run
             summary == [sent |-> next.sent, given |-> TRUE]
  <2>1. summary \in [sent : Int, given : BOOLEAN]
    BY <1>2, <1>8 DEF Callbacks
  <2>2. f = finish(g, last, summary)
    BY <1>8 DEF f, handed
  <2>3. \A run : Closes(next, run) <=> run = last
    BY <1>8 DEF Closes
  <2>4. \A s \in Senders : next # Row(s)
    BY <1>8 DEF Row
  <2> HIDE DEF last, summary
  <2>5. /\ SameRuns(g, f) /\ f.running = g.running \ {last}
        /\ \A run \in DOMAIN g.files :
             /\ run # last => f.files[run] = g.files[run]
             /\ last \notin g.running => f.files[run] = g.files[run]
        /\ last \in g.running =>
             /\ f.files[last].rows = g.files[last].rows
             /\ f.files[last].finished /\ f.files[last].summary = summary
    BY <1>1, <2>1, <2>2, FinishIs
  <2>6. f.running = {run \in h.running : \A k \in 1..(n + 1) : ~ Closes(h.turn[k], run)}
    BY <1>3, <1>4, <2>3, <2>5 DEF next
  <2>7. SameRuns([h EXCEPT !.turn = <<>>], f)
    BY <1>1, <2>5 DEF SameRuns
  <2>8. ASSUME NEW run \in DOMAIN h.files, run \in f.running
        PROVE  StillOpen(h, f, n + 1, run)
    <3>1. f.files[run] = g.files[run] /\ StillOpen(h, g, n, run)
      BY <1>1, <1>4, <2>5, <2>8
    <3>2. ASSUME NEW s \in Senders
          PROVE  RowsOf(h.turn, s, n + 1) = RowsOf(h.turn, s, n)
      <4>1. next # Row(s)
        BY <2>4
      <4> QED
        BY <1>5, <4>1
    <3> QED
      BY <3>1, <3>2 DEF StillOpen
  <2>9. ASSUME NEW run \in DOMAIN h.files, run \in h.running \ f.running
        PROVE  \E k \in 1..(n + 1) : EndedBy(h, f, k, run)
    <3>1. CASE run \in g.running
      <4>1. run = last /\ last \in g.running
        BY <2>5, <2>9, <3>1
      <4>2. Finishes(h.turn, n + 1, run)
        <5>1. \A k \in 1..n : ~ Closes(h.turn[k], run)
          BY <1>4, <3>1
        <5> QED
          BY <1>3, <2>3, <4>1, <5>1 DEF Finishes, next
      <4>3. StillOpen(h, g, n, run)
        BY <1>4, <3>1
      <4>4. EndedBy(h, f, n + 1, run)
        BY <1>3, <2>5, <4>1, <4>2, <4>3 DEF EndedBy, StillOpen, summary, next
      <4> QED
        BY <1>3, <4>4
    <3>2. CASE run \notin g.running
      <4>1. f.files[run] = g.files[run]
        BY <1>1, <2>5, <3>2
      <4>2. PICK k \in 1..n : EndedBy(h, g, k, run)
        BY <1>4, <2>9, <3>2
      <4> QED
        BY <1>3, <4>1, <4>2 DEF EndedBy
    <3> QED
      BY <3>1, <3>2
  <2>10. \A run \in DOMAIN h.files : run \notin h.running => f.files[run] = h.files[run]
    BY <1>1, <1>4, <2>5
  <2> QED
    BY <2>6, <2>7, <2>8, <2>9, <2>10 DEF TurnedTo, f, next
<1> QED
  BY <1>2, <1>7, <1>8 DEF Callbacks, f, next

(* g is the function that turned(h) defines, as far as n callbacks.        *)
Handed(g, h, n) ==
  g = [i \in 0..n |->
         IF i = 0 THEN [h EXCEPT !.turn = <<>>] ELSE handed(g[i - 1], h.turn[i])]

LEMMA HandedExists ==
  ASSUME NEW h, NEW N \in Nat
  PROVE  \E g : Handed(g, h, N)
<1> DEFINE T == {n \in Nat : \E g : Handed(g, h, n)}
<1>1. 0 \in T
  <2> DEFINE g == [i \in 0..0 |-> [h EXCEPT !.turn = <<>>]]
  <2>1. g = [i \in 0..0 |->
               IF i = 0 THEN [h EXCEPT !.turn = <<>>] ELSE handed(g[i - 1], h.turn[i])]
    OBVIOUS
  <2> QED
    BY <2>1 DEF Handed
<1>2. ASSUME NEW n \in T PROVE n + 1 \in T
  <2>1. PICK g : Handed(g, h, n)
    OBVIOUS
  <2> DEFINE f == [i \in 0..(n + 1) |->
                     IF i = n + 1 THEN handed(g[n], h.turn[n + 1]) ELSE g[i]]
  <2>2. \A i \in 0..n : g[i] = IF i = 0 THEN [h EXCEPT !.turn = <<>>]
                                       ELSE handed(g[i - 1], h.turn[i])
    BY <2>1 DEF Handed
  <2>3. \A i \in 0..(n + 1) : f[i] = IF i = 0 THEN [h EXCEPT !.turn = <<>>]
                                             ELSE handed(f[i - 1], h.turn[i])
    <3> SUFFICES ASSUME NEW i \in 0..(n + 1)
                 PROVE  f[i] = IF i = 0 THEN [h EXCEPT !.turn = <<>>]
                                       ELSE handed(f[i - 1], h.turn[i])
      OBVIOUS
    <3>1. CASE i = n + 1
      <4>1. n \in 0..(n + 1) /\ n # n + 1 /\ i - 1 = n /\ i # 0
        BY <3>1
      <4>2. f[n] = g[n] /\ f[i] = handed(g[n], h.turn[n + 1])
        BY <3>1, <4>1
      <4> QED
        BY ONLY <3>1, <4>1, <4>2
    <3>2. CASE i # n + 1
      <4>1. i \in 0..n /\ f[i] = g[i]
        BY <3>2
      <4>2. i # 0 => i - 1 \in 0..(n + 1) /\ i - 1 # n + 1 /\ f[i - 1] = g[i - 1]
        BY <4>1
      <4> HIDE DEF f
      <4> QED
        BY <2>2, <4>1, <4>2
    <3> QED
      BY <3>1, <3>2
  <2>4. f = [i \in 0..(n + 1) |-> IF i = 0 THEN [h EXCEPT !.turn = <<>>]
                                           ELSE handed(f[i - 1], h.turn[i])]
    <3>1. f = [i \in 0..(n + 1) |-> f[i]]
      OBVIOUS
    <3> HIDE DEF f
    <3> QED
      BY <2>3, <3>1
  <2> HIDE DEF f
  <2>5. Handed(f, h, n + 1)
    BY <2>4 DEF Handed
  <2>6. n + 1 \in Nat
    OBVIOUS
  <2> QED
    BY <2>5, <2>6
<1>3. T = Nat
  <2> HIDE DEF T
  <2>1. T \in SUBSET Nat
    BY DEF T
  <2> QED
    BY <1>1, <1>2, <2>1, SetInduction
<1> QED
  BY <1>3

(***************************************************************************)
(* A turn of the event loop does what all its callbacks do.                *)
(***************************************************************************)
THEOREM TurnIs ==
  ASSUME NEW h \in Histories, h.running \subseteq DOMAIN h.files
  PROVE  TurnedTo(h, turned(h), Len(h.turn))
<1>1. Len(h.turn) \in Nat
  BY DEF Histories
<1> DEFINE g == CHOOSE f : Handed(f, h, Len(h.turn))
<1>2. Handed(g, h, Len(h.turn))
  BY <1>1, HandedExists
<1>3. turned(h) = g[Len(h.turn)]
  BY DEF turned, Handed
<1> HIDE DEF g
<1>4. \A i \in 0..Len(h.turn) :
        g[i] = IF i = 0 THEN [h EXCEPT !.turn = <<>>] ELSE handed(g[i - 1], h.turn[i])
  BY <1>2 DEF Handed
<1> DEFINE T == {n \in Nat : n <= Len(h.turn) => TurnedTo(h, g[n], n)}
<1>5. 0 \in T
  <2>1. g[0] = [h EXCEPT !.turn = <<>>]
    BY <1>1, <1>4
  <2> QED
    BY <2>1, TurnedToNothing
<1>6. ASSUME NEW n \in T PROVE n + 1 \in T
  <2>1. SUFFICES ASSUME n + 1 <= Len(h.turn) PROVE TurnedTo(h, g[n + 1], n + 1)
    OBVIOUS
  <2>2. /\ n \in Nat /\ n + 1 \in 1..Len(h.turn) /\ n + 1 \in 0..Len(h.turn)
        /\ n + 1 # 0 /\ (n + 1) - 1 = n
    BY <1>1, <2>1
  <2>3. TurnedTo(h, g[n], n)
    BY <1>1, <2>1
  <2>4. g[n + 1] = handed(g[n], h.turn[n + 1])
    BY ONLY <1>4, <2>2
  <2> QED
    BY <2>2, <2>3, <2>4, TurnedToOneMore
<1>7. Len(h.turn) \in T
  <2> HIDE DEF T
  <2>1. T \in SUBSET Nat
    BY DEF T
  <2> QED
    BY <1>1, <1>5, <1>6, <2>1, SetInduction
<1> QED
  BY <1>1, <1>3, <1>7

-----------------------------------------------------------------------------
(***************************************************************************)
(* What the other operations on the runs do.  Open runs have files, and a  *)
(* close in line is of a run there has been, or of none.                   *)
(***************************************************************************)
Fits(h) ==
  /\ h \in Histories
  /\ h.running \subseteq DOMAIN h.files
  /\ \A k \in DOMAIN h.turn : h.turn[k].is = "close" => h.turn[k].run \in 0 .. Len(h.files)

(* One more callback in line.                                              *)
Queued(h, next, g) ==
  /\ g.running = h.running /\ g.disowned = h.disowned /\ g.files = h.files
  /\ Len(h.turn) \in Nat /\ Len(g.turn) = Len(h.turn) + 1
  /\ DOMAIN h.turn = 1 .. Len(h.turn) /\ DOMAIN g.turn = 1 .. (Len(h.turn) + 1)
  /\ \A k \in DOMAIN h.turn : g.turn[k] = h.turn[k]
  /\ g.turn[Len(h.turn) + 1] = next

LEMMA QueuedIs ==
  ASSUME NEW h, Fits(h), NEW next \in Callbacks,
         next.is = "close" => next.run \in 0 .. Len(h.files),
         NEW g, g = [h EXCEPT !.turn = Append(@, next)]
  PROVE  Fits(g) /\ Queued(h, next, g)
<1> DEFINE line == Append(h.turn, next)
<1>1. /\ h.turn \in Seq(Callbacks) /\ Len(h.turn) \in Nat
      /\ DOMAIN h.turn = 1 .. Len(h.turn)
  BY DEF Fits, Histories
<1>2. /\ line \in Seq(Callbacks) /\ Len(line) = Len(h.turn) + 1
      /\ DOMAIN line = 1 .. (Len(h.turn) + 1)
      /\ \A k \in DOMAIN h.turn : line[k] = h.turn[k]
      /\ line[Len(h.turn) + 1] = next
  BY <1>1
<1> HIDE DEF line
<1>3. /\ g \in Histories /\ g.turn = line /\ g.running = h.running
      /\ g.disowned = h.disowned /\ g.files = h.files
  BY <1>2 DEF Fits, Histories, line
<1>4. Queued(h, next, g)
  BY <1>1, <1>2, <1>3 DEF Queued
<1>5. ASSUME NEW k \in DOMAIN g.turn, g.turn[k].is = "close"
      PROVE  g.turn[k].run \in 0 .. Len(g.files)
  <2>1. k \in DOMAIN h.turn \/ k = Len(h.turn) + 1
    BY <1>1, <1>2, <1>3
  <2> QED
    BY <1>2, <1>3, <1>5, <2>1 DEF Fits
<1> QED
  BY <1>3, <1>4, <1>5 DEF Fits

LEMMA TappedIs ==
  ASSUME NEW h, Fits(h), NEW sender \in Senders
  PROVE  Fits(tapped(h, sender)) /\ Queued(h, Row(sender), tapped(h, sender))
<1>1. Row(sender) \in Callbacks /\ Row(sender).is # "close"
  BY DEF Row, Callbacks
<1>2. tapped(h, sender) = [h EXCEPT !.turn = Append(@, Row(sender))]
  BY DEF tapped, Row
<1> QED
  BY <1>1, <1>2, QueuedIs

CloseOf(run, n) == [is |-> "close", run |-> run, sent |-> n]

LEMMA CloseIs ==
  ASSUME NEW h, Fits(h), NEW run \in 0 .. Len(h.files), NEW n \in Int
  PROVE  Fits(close(h, run, n)) /\ Queued(h, CloseOf(run, n), close(h, run, n))
<1>1. /\ CloseOf(run, n) \in Callbacks
      /\ CloseOf(run, n).is = "close" => CloseOf(run, n).run \in 0 .. Len(h.files)
  <2>1. Len(h.files) \in Nat
    BY DEF Fits, Histories
  <2> QED
    BY <2>1 DEF CloseOf, Callbacks
<1>2. close(h, run, n) = [h EXCEPT !.turn = Append(@, CloseOf(run, n))]
  BY DEF close, CloseOf
<1> QED
  BY <1>1, <1>2, QueuedIs

(* A new run: it is open, and has no rows yet.                             *)
Opened(h, mode, g) ==
  LET new == NextRun(h) IN
  /\ new \in Nat \ {0} /\ new \notin DOMAIN h.files /\ new = Len(h.files) + 1
  /\ DOMAIN g.files = DOMAIN h.files \cup {new}
  /\ g.running = h.running \cup {new} /\ g.disowned = h.disowned /\ g.turn = h.turn
  /\ g.files[new] = NewFile(mode)
  /\ \A run \in DOMAIN h.files : g.files[run] = h.files[run]

LEMMA OpenIs ==
  ASSUME NEW h, Fits(h), NEW mode \in Senders
  PROVE  Fits(open(h, mode)) /\ Opened(h, mode, open(h, mode))
<1> DEFINE g == open(h, mode)  files == Append(h.files, NewFile(mode))
           new == NextRun(h)
<1>1. NewFile(mode) \in Files
  BY DEF NewFile, NoSummary, Files
<1>2. /\ h.files \in Seq(Files) /\ Len(h.files) \in Nat
      /\ DOMAIN h.files = 1 .. Len(h.files) /\ new = Len(h.files) + 1
  BY DEF Fits, Histories, NextRun
<1>3. /\ files \in Seq(Files) /\ Len(files) = Len(h.files) + 1
      /\ DOMAIN files = 1 .. (Len(h.files) + 1) /\ files[new] = NewFile(mode)
      /\ \A run \in DOMAIN h.files : files[run] = h.files[run]
  BY <1>1, <1>2
<1>4. /\ new \in Nat \ {0} /\ new \notin DOMAIN h.files
      /\ DOMAIN files = DOMAIN h.files \cup {new}
  BY <1>2, <1>3
<1> HIDE DEF files, new
<1>5. /\ g \in Histories /\ g.files = files /\ g.running = h.running \cup {new}
      /\ g.disowned = h.disowned /\ g.turn = h.turn
  BY <1>3, <1>4 DEF open, Fits, Histories, files, new
<1> HIDE DEF g
<1>6. Fits(g)
  <2>1. \A n \in 0 .. Len(h.files) : n \in 0 .. Len(g.files)
    BY <1>2, <1>3, <1>5
  <2> QED
    BY <1>4, <1>5, <2>1 DEF Fits
<1> QED
  BY <1>2, <1>3, <1>4, <1>5, <1>6 DEF Opened, g, new

(* A run given up is out of the open ones for good.                        *)
Disowned(h, run, g) ==
  /\ g.files = h.files /\ g.turn = h.turn
  /\ g.disowned = h.disowned \cup {run} /\ g.running = h.running \ {run}

LEMMA DisownIs ==
  ASSUME NEW h, Fits(h), h.running \cap h.disowned = {}, NEW run \in Nat
  PROVE  Fits(disown(h, run)) /\ Disowned(h, run, disown(h, run))
<1>1. CASE run \in h.disowned
  <2>1. run \notin h.running
    BY <1>1
  <2> QED
    BY <1>1, <2>1 DEF disown, Disowned
<1>2. CASE run \notin h.disowned
  <2> DEFINE g == disown(h, run)
  <2>1. g = [h EXCEPT !.disowned = @ \cup {run}, !.running = @ \ {run}]
    BY <1>2 DEF disown
  <2>2. h \in Histories
    BY DEF Fits
  <2> HIDE DEF g
  <2>3. /\ g.disowned = h.disowned \cup {run} /\ g.running = h.running \ {run}
        /\ g.files = h.files /\ g.turn = h.turn
    BY <2>1, <2>2 DEF Histories
  <2>4. g \in Histories
    BY <2>1, <2>2 DEF Histories
  <2> QED
    BY <2>3, <2>4 DEF Fits, Disowned, g
<1> QED
  BY <1>1, <1>2

(* The shutdown ends every open run, without a summary.                    *)
Destroyed(h, g) ==
  /\ g.running = {} /\ g.disowned = h.disowned /\ g.turn = h.turn
  /\ DOMAIN g.files = DOMAIN h.files
  /\ \A run \in DOMAIN h.files :
       /\ g.files[run].mode = h.files[run].mode /\ g.files[run].rows = h.files[run].rows
       /\ run \notin h.running => g.files[run] = h.files[run]
       /\ run \in h.running => ~ g.files[run].summary.given

LEMMA DestroyedIs ==
  ASSUME NEW h, Fits(h)
  PROVE  Fits(destroyed(h)) /\ Destroyed(h, destroyed(h))
<1> DEFINE g == destroyed(h)
           ended(run) == [h.files[run] EXCEPT !.finished = TRUE, !.summary = NoSummary]
           files == [run \in DOMAIN h.files |->
                       IF run \in h.running THEN ended(run) ELSE h.files[run]]
<1>1. /\ h \in Histories /\ h.files \in Seq(Files) /\ Len(h.files) \in Nat
      /\ DOMAIN h.files = 1 .. Len(h.files)
  BY DEF Fits, Histories
<1>2. ASSUME NEW run \in DOMAIN h.files
      PROVE  /\ ended(run) \in Files /\ h.files[run] \in Files
             /\ ended(run).mode = h.files[run].mode /\ ended(run).rows = h.files[run].rows
             /\ ~ ended(run).summary.given
  <2>1. ASSUME NEW file \in Files
        PROVE  LET end == [file EXCEPT !.finished = TRUE, !.summary = NoSummary] IN
               /\ end \in Files /\ end.mode = file.mode /\ end.rows = file.rows
               /\ ~ end.summary.given
    <3>1. NoSummary \in [sent : Int, given : BOOLEAN] /\ ~ NoSummary.given
      BY DEF NoSummary
    <3> QED
      BY <3>1 DEF Files
  <2> QED
    BY <1>1, <2>1, FilesAre
<1> HIDE DEF ended
<1>3. files \in [1 .. Len(h.files) -> Files]
  BY <1>1, <1>2
<1>4. \A run \in DOMAIN h.files :
        files[run] = IF run \in h.running THEN ended(run) ELSE h.files[run]
  OBVIOUS
<1>5. g = [h EXCEPT !.running = {}, !.files = files]
  BY DEF destroyed, ended
<1> HIDE DEF files
<1>6. files \in Seq(Files) /\ DOMAIN files = DOMAIN h.files /\ Len(files) = Len(h.files)
  BY <1>1, <1>3
<1>7. /\ g \in Histories /\ g.files = files /\ g.running = {}
      /\ g.disowned = h.disowned /\ g.turn = h.turn
  BY <1>1, <1>5, <1>6 DEF Histories
<1> HIDE DEF g
<1>8. Fits(g)
  BY <1>6, <1>7 DEF Fits
<1>9. Destroyed(h, g)
  BY <1>2, <1>4, <1>6, <1>7 DEF Destroyed
<1> QED
  BY <1>8, <1>9 DEF g

(* After a turn, nothing waits in line.                                    *)
LEMMA TurnFits ==
  ASSUME NEW h, Fits(h)
  PROVE  /\ Fits(turned(h)) /\ turned(h).turn = <<>>
         /\ TurnedTo(h, turned(h), Len(h.turn))
<1>1. TurnedTo(h, turned(h), Len(h.turn))
  BY TurnIs DEF Fits
<1>2. [h EXCEPT !.turn = <<>>].turn = <<>> /\ [h EXCEPT !.turn = <<>>].files = h.files
  BY DEF Fits, Histories
<1> QED
  BY <1>1, <1>2 DEF TurnedTo, SameRuns, Fits

-----------------------------------------------------------------------------
(***************************************************************************)
(* The inductive invariant, part by part.  The types.                      *)
(***************************************************************************)
Configs == [users : Rosters \cup {DefaultUsers}, running : BOOLEAN]

Operations == {"start", "configure", "reset", "prepare"}

Phases == {"none", "marking", "preparing", "placing", "judged"}

Loads == [run : Nat, phase : Phases, fired : Nat, sent : Nat]

Calls == [out : [Senders -> Nat], retrying : [Senders -> Nat]]

Waiting ==
  [op : Operations, left : SUBSET UNION (Rosters \cup {DefaultUsers, LoadUsers}),
   generation : Nat, seeded : BOOLEAN, config : Configs \cup {NoConfig}]

WaitingOK ==
  /\ waiting \subseteq Waiting
  /\ \A op \in waiting :
       /\ op.left # {} /\ op.generation \in 1 .. generation
       /\ op.op \in {"start", "configure"} => op.config \in Configs

StateOK ==
  /\ config \in Configs
  /\ timer \in BOOLEAN /\ lost \in Nat /\ generation \in Nat
  /\ counters \in Nat /\ opened \in 0 .. counters
  /\ calls \in [out : [Senders -> Nat], retrying : [Senders -> Nat]]
  /\ load \in [run : Nat, phase : Phases, fired : Nat, sent : Nat]

HistoryOK ==
  Fits(history) /\ {runId, load.run} \subseteq {Closed} \cup DOMAIN history.files

(* Without an overlap there is one operation at a time, and no timer.      *)
OneAtATime ==
  "overlap" \notin mishaps =>
    /\ lost = 0
    /\ waiting # {} => ~ timer
    /\ \A op, other \in waiting : op = other

(* What a lone operation found, and left, while it waits.                  *)
LoneOperation ==
  mishaps = {} /\ ~ down =>
    /\ waiting = {} =>
         /\ timer <=> config.running
         /\ runId # Closed <=> config.running
    /\ \A op \in waiting :
         /\ op.op = "start" => ~ config.running /\ runId # Closed
         /\ op.op # "start" => (runId # Closed <=> config.running)
         /\ op.op = "configure" => (op.config.running <=> config.running)

(* Nobody but the loop and the load run has a run open.                    *)
LineCloses(h, run) == \E k \in DOMAIN h.turn : Closes(h.turn[k], run)

OwnedBy(h, one, other) == \A run \in h.running : run \in {one, other} \/ LineCloses(h, run)

Owned ==
  /\ loadRunning = (load.run # Closed)
  /\ OwnedBy(history, runId, load.run)

(* What has ended, or was given up, is not open.                           *)
EndedIsClosed ==
  /\ history.running \cap history.disowned = {}
  /\ history.disowned \subseteq DOMAIN history.files
  /\ \A run \in history.running :
       ~ history.files[run].finished /\ ~ history.files[run].summary.given

(* No row of a load run waits in line unless it is placing its orders, and *)
(* every order it has fired is somewhere.                                  *)
LoadCounts ==
  /\ load.fired = load.sent + calls.out["load"] + calls.retrying["load"]
  /\ load.fired <= LoadOrders
  /\ (load.run = Closed) = (load.phase = "none")
  /\ load.phase \in {"none", "marking", "preparing"} => load.fired = 0
  /\ load.phase = "judged" => load.fired = load.sent
  /\ load.phase # "placing" => \A k \in DOMAIN history.turn : history.turn[k] # Row("load")

(* One prepare() at a time, and only when the load run asked for it.       *)
OnePrepare ==
  /\ load.phase \in {"preparing", "judged"} <=> \E op \in waiting : op.op = "prepare"
  /\ \A op, other \in waiting : op.op = "prepare" /\ other.op = "prepare" => op = other

(* The rows of a window that is open, with those in line, are its count.   *)
Matches(h, run, mode, n) ==
  run \in h.running =>
    /\ h.files[run].mode = mode
    /\ h.files[run].rows[mode] + RowsOf(h.turn, mode, Len(h.turn)) = n

LoopCount == counters - opened + calls.retrying["loop"]
LoadCount == load.sent + calls.retrying["load"]

(* So are those of a window about to be closed, up to its place in line.   *)
ClosingMatches(h, muddle) ==
  \A k \in DOMAIN h.turn, run \in h.running \ muddle :
    Finishes(h.turn, k, run) =>
      h.turn[k].sent
        = h.files[run].rows[h.files[run].mode] + RowsOf(h.turn, h.files[run].mode, k - 1)

(* What the summaries say.                                                 *)
SummariesMatch(h, muddle) ==
  \A run \in DOMAIN h.files \ (h.disowned \cup muddle) :
    h.files[run].summary.given =>
      h.files[run].summary.sent = h.files[run].rows[h.files[run].mode]

WindowsMatch(h, one, n, other, m, muddle) ==
  /\ one \notin muddle => Matches(h, one, "loop", n)
  /\ other \notin muddle => Matches(h, other, "load", m)
  /\ ClosingMatches(h, muddle)
  /\ SummariesMatch(h, muddle)

Windows == WindowsMatch(history, runId, LoopCount, load.run, LoadCount, muddled)

LoopInv ==
  /\ WaitingOK /\ StateOK /\ HistoryOK
  /\ OneAtATime /\ LoneOperation
  /\ Owned /\ EndedIsClosed
  /\ LoadCounts /\ OnePrepare
  /\ Windows

-----------------------------------------------------------------------------
(***************************************************************************)
(* Operations in wait.  A new one joins them; a read takes a user off one, *)
(* which ends with its last.                                               *)
(***************************************************************************)
LEMMA SomeUsers ==
  /\ \A users \in Rosters \cup {DefaultUsers, LoadUsers} :
       users # {} /\ users \subseteq UNION (Rosters \cup {DefaultUsers, LoadUsers})
  /\ \A c \in Configs :
       /\ c.users # {} /\ c.users \subseteq UNION (Rosters \cup {DefaultUsers, LoadUsers})
       /\ c.running \in BOOLEAN
  BY LoopAssumption DEF Configs

LEMMA AwaitIs ==
  ASSUME WaitingOK, generation \in Nat,
         NEW name \in Operations, NEW users, users # {},
         users \subseteq UNION (Rosters \cup {DefaultUsers, LoadUsers}),
         NEW then \in Configs \cup {NoConfig},
         name \in {"start", "configure"} => then \in Configs,
         Await(name, users, then)
  PROVE  /\ WaitingOK' /\ generation' \in Nat
         /\ \E op : /\ waiting' = waiting \cup {op}
                    /\ op.op = name /\ op.config = then
<1> DEFINE op == [op |-> name, left |-> users, generation |-> generation + 1,
                  seeded |-> FALSE, config |-> then]
<1>1. waiting' = waiting \cup {op} /\ generation' = generation + 1
  BY DEF Await
<1>2. /\ op \in Waiting /\ op.left # {} /\ op.generation = generation + 1
      /\ op.op = name /\ op.config = then
  BY DEF Waiting
<1> HIDE DEF op
<1>3. /\ generation' \in Nat /\ generation + 1 \in 1 .. generation'
      /\ \A n \in 1 .. generation : n \in 1 .. generation'
  BY <1>1
<1> QED
  BY <1>1, <1>2, <1>3 DEF WaitingOK

Resumed(op) ==
  \E read : /\ read.op = op.op /\ read.config = op.config /\ read.seeded \in BOOLEAN
            /\ waiting' = waiting \ {op} /\ Resumes(read)

PartlyRead(op) ==
  \E read : /\ read.op = op.op /\ read.config = op.config
            /\ waiting' = (waiting \ {op}) \cup {read}
            /\ UNCHANGED <<config, timers, window, history, load, loadRunning, muddled>>

LEMMA SeedUserIs ==
  ASSUME WaitingOK, generation \in Nat, NEW op \in waiting, NEW user, NEW ok \in BOOLEAN,
         seedUser(op, user, ok)
  PROVE  /\ WaitingOK' /\ generation' \in Nat
         /\ Resumed(op) \/ PartlyRead(op)
         /\ ~ down
         /\ UNCHANGED <<generation, counters, calls, down, operations, sent, trouble, mishaps>>
<1> DEFINE landed == op.seeded \/ Landed(op, ok)
           read == [op EXCEPT !.left = @ \ {user}, !.seeded = landed]
<1>1. op \in Waiting /\ landed \in BOOLEAN
  BY DEF WaitingOK, Landed
<1> HIDE DEF landed
<1>2. /\ read \in Waiting /\ read.op = op.op /\ read.config = op.config
      /\ read.generation = op.generation /\ read.seeded \in BOOLEAN
  BY <1>1 DEF Waiting
<1>3. /\ IF read.left # {}
         THEN /\ waiting' = (waiting \ {op}) \cup {read}
              /\ UNCHANGED <<config, timers, window, history, load, loadRunning, muddled>>
         ELSE waiting' = waiting \ {op} /\ Resumes(read)
      /\ ~ down
      /\ UNCHANGED <<generation, counters, calls, down, operations, sent, trouble, mishaps>>
  BY DEF seedUser, landed
<1> HIDE DEF read
<1>4. WaitingOK'
  BY <1>2, <1>3 DEF WaitingOK
<1> QED
  BY <1>2, <1>3, <1>4 DEF Resumed, PartlyRead

-----------------------------------------------------------------------------
(***************************************************************************)
(* The types, action by action.  A close of the window, or of no window.   *)
(***************************************************************************)
LEMMA ClosedIs ==
  ASSUME StateOK, HistoryOK
  PROVE  /\ Fits(closed(history)) /\ closed(history).files = history.files
         /\ closed(history).running = history.running
         /\ closed(history).disowned = history.disowned
         /\ runId = Closed => closed(history) = history
         /\ runId # Closed =>
              Queued(history, CloseOf(runId, counters - opened), closed(history))
<1>1. CASE runId = Closed
  BY <1>1 DEF closed, HistoryOK
<1>2. CASE runId # Closed
  <2>1. runId \in 0 .. Len(history.files) /\ counters - opened \in Int
    BY <1>2 DEF HistoryOK, Fits, Histories, StateOK
  <2>2. closed(history) = close(history, runId, counters - opened)
    BY <1>2 DEF closed, Summary
  <2>3. Fits(history)
    BY DEF HistoryOK
  <2>4. /\ Fits(closed(history))
        /\ Queued(history, CloseOf(runId, counters - opened), closed(history))
    BY <2>1, <2>2, <2>3, CloseIs
  <2> QED
    BY <1>2, <2>4 DEF Queued
<1> QED
  BY <1>1, <1>2

(* The end of a load run closes its file, if it has one.                   *)
LEMMA EndLoadIs ==
  ASSUME StateOK, HistoryOK, EndLoad
  PROVE  /\ Fits(history') /\ history'.files = history.files
         /\ Queued(history, CloseOf(load.run, load.sent), history')
         /\ load' = NoLoad /\ loadRunning' = FALSE
<1>1. load.run \in 0 .. Len(history.files) /\ load.sent \in Int
  BY DEF HistoryOK, Fits, Histories, StateOK, Closed
<1>2. Fits(history) /\ history' = close(history, load.run, load.sent)
  BY DEF HistoryOK, EndLoad
<1>3. Fits(history') /\ Queued(history, CloseOf(load.run, load.sent), history')
  BY <1>1, <1>2, CloseIs
<1> QED
  BY <1>3 DEF EndLoad, Queued

LEMMA NoLoadIsLoad == NoLoad \in Loads
  BY DEF NoLoad, Loads, Phases, Closed

(* An operation that ends.                                                 *)
LEMMA ResumedTypes ==
  ASSUME WaitingOK, StateOK, HistoryOK, NEW op \in waiting, Resumed(op),
         UNCHANGED <<generation, counters, calls>>
  PROVE  StateOK' /\ HistoryOK'
<1>1. PICK read : /\ read.op = op.op /\ read.config = op.config /\ read.seeded \in BOOLEAN
                  /\ Resumes(read)
  BY DEF Resumed
<1>2. op.op \in {"start", "configure"} => read.config \in Configs
  BY <1>1 DEF WaitingOK
<1>3. ASSUME NEW running, PutUp(running) \/ Run \/ UNCHANGED timers
      PROVE  timer' \in BOOLEAN /\ lost' \in Nat
  <2>1. CASE Run
    BY <2>1 DEF Run, StateOK
  <2>2. CASE UNCHANGED timers
    BY <2>2 DEF timers, StateOK
  <2> QED
    BY <1>3, <2>1, <2>2 DEF PutUp
<1>4. CASE read.op = "start" /\ startResumes(read)
  <2>1. CASE read.seeded
    <3>1. [read.config EXCEPT !.running = TRUE] \in Configs
      BY <1>1, <1>2, <1>4 DEF Configs
    <3>2. /\ config' = [read.config EXCEPT !.running = TRUE] /\ Run
          /\ UNCHANGED <<window, history, load, loadRunning, muddled>>
      BY <1>4, <2>1 DEF startResumes
    <3> QED
      BY <1>3, <3>1, <3>2 DEF StateOK, HistoryOK, window
  <2>2. CASE ~ read.seeded
    <3>1. /\ history' = closed(history) /\ runId' = Closed
          /\ UNCHANGED <<config, timers, opened, load, loadRunning>>
      BY <1>4, <2>2 DEF startResumes, closeWindow
    <3> QED
      BY <1>3, <3>1, ClosedIs DEF StateOK, HistoryOK, timers
  <2> QED
    BY <2>1, <2>2
<1>5. CASE \/ read.op = "configure" /\ configureResumes(read)
           \/ read.op = "reset" /\ resetResumes(read)
  <2>1. /\ \E running : PutUp(running)
        /\ UNCHANGED <<config, window, history, load, loadRunning, muddled>>
    BY <1>5 DEF configureResumes, resetResumes
  <2> QED
    BY <1>3, <2>1 DEF StateOK, HistoryOK, window
<1>6. CASE read.op = "prepare" /\ prepareResumes(read)
  <2>1. PutUp(config.running) /\ UNCHANGED <<config, window, muddled>>
    BY <1>6 DEF prepareResumes
  <2>2. CASE load.phase = "preparing"
    <3>1. /\ load' = [load EXCEPT !.phase = "placing"] /\ UNCHANGED <<history, loadRunning>>
      BY <1>6, <2>2 DEF prepareResumes
    <3>2. load' \in Loads /\ load'.run = load.run
      BY <3>1 DEF StateOK, Loads, Phases
    <3> QED
      BY <1>3, <2>1, <3>1, <3>2 DEF StateOK, HistoryOK, window, Loads
  <2>3. CASE load.phase # "preparing"
    <3>1. EndLoad
      BY <1>6, <2>3 DEF prepareResumes
    <3>2. load' = NoLoad /\ Fits(history') /\ history'.files = history.files
      BY <3>1, EndLoadIs
    <3>3. NoLoad \in Loads /\ NoLoad.run = Closed
      BY NoLoadIsLoad DEF NoLoad
    <3> QED
      BY <1>3, <2>1, <3>2, <3>3 DEF StateOK, HistoryOK, window, Loads
  <2> QED
    BY <2>2, <2>3
<1> QED
  BY <1>1, <1>4, <1>5, <1>6 DEF Resumes

Typed == WaitingOK /\ StateOK /\ HistoryOK

LEMMA OperateTypes ==
  ASSUME Typed, Operate
  PROVE  Typed'
<1>1. ASSUME NEW users \in Rosters, start(users) PROVE Typed'
  <2> DEFINE next == [users |-> users, running |-> FALSE]
             run == NextRun(history)
  <2>1. next \in Configs
    BY DEF Configs
  <2> HIDE DEF next, run
  <2>2. /\ config' = next /\ clearTimer /\ runId' = run /\ opened' = counters
        /\ history' = open(closed(history), "loop") /\ Await("start", users, next)
        /\ UNCHANGED <<counters, calls, load>>
    BY <1>1 DEF start, next, run
  <2>3. WaitingOK' /\ generation' \in Nat
    BY <2>1, <2>2, AwaitIs, SomeUsers DEF Typed, StateOK, Operations
  <2>4. StateOK'
    <3>1. timer' \in BOOLEAN /\ lost' \in Nat
      BY <2>2 DEF Typed, StateOK, clearTimer
    <3>2. counters' \in Nat /\ opened' \in 0 .. counters'
      BY <2>2 DEF Typed, StateOK
    <3> QED
      BY <2>1, <2>2, <2>3, <3>1, <3>2 DEF Typed, StateOK
  <2>5. Fits(history') /\ Opened(closed(history), "loop", history')
    BY <2>2, ClosedIs, OpenIs, LoopAssumption DEF Typed
  <2>6. NextRun(closed(history)) = run /\ closed(history).files = history.files
    BY ClosedIs DEF NextRun, Typed, run
  <2>7. HistoryOK'
    BY <2>2, <2>5, <2>6 DEF Opened, HistoryOK, Typed
  <2> QED
    BY <2>3, <2>4, <2>7 DEF Typed
<1>2. ASSUME NEW users \in Rosters, configure(users) PROVE Typed'
  <2> DEFINE next == [config EXCEPT !.users = users]
  <2>1. next \in Configs
    BY DEF Typed, StateOK, Configs
  <2> HIDE DEF next
  <2>2. /\ config' = next
        /\ \/ clearTimer /\ Await("configure", users, next)
           \/ timer' = next.running /\ UNCHANGED <<lost, shadow>>
        /\ UNCHANGED <<window, counters, calls, load, history>>
    BY <1>2 DEF configure, next
  <2>3. WaitingOK' /\ generation' \in Nat
    <3>1. CASE Await("configure", users, next)
      BY <2>1, <3>1, AwaitIs, SomeUsers DEF Typed, StateOK, Operations
    <3>2. CASE UNCHANGED shadow
      BY <3>2 DEF Typed, WaitingOK, StateOK, shadow
    <3> QED
      BY <2>2, <3>1, <3>2
  <2>4. timer' \in BOOLEAN /\ lost' \in Nat
    BY <2>1, <2>2, SomeUsers DEF Typed, StateOK, clearTimer
  <2> QED
    BY <2>1, <2>2, <2>3, <2>4 DEF Typed, StateOK, HistoryOK, window
<1>3. CASE stop
  <2>1. [config EXCEPT !.running = FALSE] \in Configs
    BY DEF Typed, StateOK, Configs
  <2>2. /\ clearTimer /\ config' = [config EXCEPT !.running = FALSE]
        /\ history' = closed(history) /\ runId' = Closed
        /\ UNCHANGED <<shadow, opened, counters, calls, load>>
    BY <1>3 DEF stop, closeWindow
  <2>3. StateOK' /\ WaitingOK'
    BY <2>1, <2>2 DEF Typed, StateOK, WaitingOK, clearTimer, shadow
  <2>4. HistoryOK'
    BY <2>2, ClosedIs DEF Typed, HistoryOK
  <2> QED
    BY <2>3, <2>4 DEF Typed
<1>4. CASE reset
  <2>1. /\ clearTimer /\ counters' = 0 /\ opened' = 0
        /\ Await("reset", config.users, NoConfig)
        /\ UNCHANGED <<config, runId, calls, load, history>>
    BY <1>4 DEF reset
  <2>2. WaitingOK' /\ generation' \in Nat
    BY <2>1, AwaitIs, SomeUsers DEF Typed, StateOK, Operations
  <2>3. timer' \in BOOLEAN /\ lost' \in Nat
    BY <2>1 DEF Typed, StateOK, clearTimer
  <2>4. counters' \in Nat /\ opened' \in 0 .. counters'
    BY <2>1
  <2>5. StateOK'
    BY <2>1, <2>2, <2>3, <2>4 DEF Typed, StateOK
  <2> QED
    BY <2>1, <2>2, <2>5 DEF Typed, HistoryOK
<1>5. CASE startLoad
  <2> DEFINE run == NextRun(history)  new == [NoLoad EXCEPT !.run = run, !.phase = "marking"]
  <2>1. /\ load' = new /\ history' = open(history, "load")
        /\ UNCHANGED <<config, timers, shadow, window, counters, calls>>
    BY <1>5 DEF startLoad
  <2>2. Fits(history') /\ Opened(history, "load", history')
    BY <2>1, OpenIs, LoopAssumption DEF Typed, HistoryOK
  <2>3. run \in Nat
    BY <2>2 DEF Opened
  <2>4. new \in Loads /\ new.run = run
    BY <2>3 DEF NoLoad, Loads, Phases
  <2> HIDE DEF new
  <2>5. HistoryOK'
    BY <2>1, <2>2, <2>4 DEF Typed, HistoryOK, Opened, window
  <2> QED
    BY <2>1, <2>4, <2>5 DEF Typed, StateOK, WaitingOK, Loads, timers, shadow, window
<1> QED
  BY <1>1, <1>2, <1>3, <1>4, <1>5 DEF Operate

LEMMA ExecuteTypes ==
  ASSUME Typed, Execute
  PROVE  Typed'
<1>1. ASSUME NEW phase \in Phases, prepare,
             load' = [load EXCEPT !.phase = phase],
             UNCHANGED <<config, window, counters, calls, history>>
      PROVE  Typed'
  <2>1. /\ config.users \cup LoadUsers # {}
        /\ config.users \cup LoadUsers
             \subseteq UNION (Rosters \cup {DefaultUsers, LoadUsers})
    BY SomeUsers DEF Typed, StateOK
  <2>2. WaitingOK' /\ generation' \in Nat
    BY <1>1, <2>1, AwaitIs DEF Typed, StateOK, Operations, prepare
  <2>3. load' \in Loads /\ load'.run = load.run
    BY <1>1 DEF Typed, StateOK, Loads
  <2> QED
    BY <1>1, <2>2, <2>3 DEF Typed, StateOK, HistoryOK, Loads, prepare, clearTimer, window
<1>2. CASE highWaterMark
  BY <1>1, <1>2 DEF highWaterMark, Phases
<1>3. CASE check
  BY <1>1, <1>3 DEF check, Phases
<1>4. CASE fire
  <2>1. /\ load' = [load EXCEPT !.fired = @ + 1]
        /\ calls' = [calls EXCEPT !.out["load"] = @ + 1]
        /\ UNCHANGED <<config, timers, shadow, window, counters, history>>
    BY <1>4 DEF fire
  <2>2. load' \in Loads /\ load'.run = load.run
    BY <2>1 DEF Typed, StateOK, Loads
  <2>3. calls' \in [out : [Senders -> Nat], retrying : [Senders -> Nat]]
    BY <2>1, LoopAssumption DEF Typed, StateOK
  <2> QED
    BY <2>1, <2>2, <2>3
    DEF Typed, StateOK, WaitingOK, HistoryOK, Loads, timers, shadow, window
<1>5. CASE fail
  <2>1. EndLoad /\ UNCHANGED <<config, timers, shadow, window, counters, calls>>
    BY <1>5 DEF fail
  <2>2. load' = NoLoad /\ Fits(history') /\ history'.files = history.files
    BY <2>1, EndLoadIs DEF Typed
  <2>3. NoLoad \in Loads /\ NoLoad.run = Closed
    BY NoLoadIsLoad DEF NoLoad
  <2> QED
    BY <2>1, <2>2, <2>3
    DEF Typed, StateOK, WaitingOK, HistoryOK, Loads, timers, shadow, window
<1> QED
  BY <1>2, <1>3, <1>4, <1>5 DEF Execute

(* The reads.                                                              *)
LEMMA ReadTypes ==
  ASSUME Typed, NEW op \in waiting, NEW user, NEW ok \in BOOLEAN, seedUser(op, user, ok)
  PROVE  Typed'
<1>1. /\ WaitingOK' /\ generation' \in Nat
      /\ Resumed(op) \/ PartlyRead(op)
      /\ UNCHANGED <<generation, counters, calls>>
  BY SeedUserIs DEF Typed, StateOK
<1>2. CASE Resumed(op)
  BY <1>1, <1>2, ResumedTypes DEF Typed
<1>3. CASE PartlyRead(op)
  BY <1>1, <1>3 DEF Typed, StateOK, HistoryOK, PartlyRead, timers, window
<1> QED
  BY <1>1, <1>2, <1>3

(* The orders in flight, by sender: one more, or one less.                 *)
LEMMA CallsChange ==
  ASSUME calls \in Calls, NEW sender \in Senders
  PROVE  /\ [calls EXCEPT !.out[sender] = @ + 1] \in Calls
         /\ calls.out[sender] > 0 =>
              /\ [calls EXCEPT !.out[sender] = @ - 1] \in Calls
              /\ [calls EXCEPT !.out[sender] = @ - 1, !.retrying[sender] = @ + 1] \in Calls
         /\ calls.retrying[sender] > 0 =>
              [calls EXCEPT !.retrying[sender] = @ - 1] \in Calls
<1>1. /\ calls.out \in [Senders -> Nat] /\ calls.retrying \in [Senders -> Nat]
      /\ calls.out[sender] \in Nat /\ calls.retrying[sender] \in Nat
  BY DEF Calls
<1>2. [calls EXCEPT !.out[sender] = @ + 1] \in Calls
  BY <1>1 DEF Calls
<1>3. ASSUME calls.out[sender] > 0
      PROVE  /\ [calls EXCEPT !.out[sender] = @ - 1] \in Calls
             /\ [calls EXCEPT !.out[sender] = @ - 1, !.retrying[sender] = @ + 1] \in Calls
  <2>1. /\ [calls.out EXCEPT ![sender] = calls.out[sender] - 1] \in [Senders -> Nat]
        /\ [calls.retrying EXCEPT ![sender] = calls.retrying[sender] + 1] \in [Senders -> Nat]
    BY <1>1, <1>3
  <2> QED
    BY <2>1 DEF Calls
<1>4. ASSUME calls.retrying[sender] > 0
      PROVE  [calls EXCEPT !.retrying[sender] = @ - 1] \in Calls
  <2>1. [calls.retrying EXCEPT ![sender] = calls.retrying[sender] - 1] \in [Senders -> Nat]
    BY <1>1, <1>4
  <2> QED
    BY <2>1 DEF Calls
<1> QED
  BY <1>2, <1>3, <1>4

LEMMA CountTypes ==
  ASSUME StateOK, NEW sender, count(sender)
  PROVE  /\ counters' \in Nat /\ counters' >= counters
         /\ load' \in Loads /\ load'.run = load.run
<1>1. counters \in Nat /\ load \in Loads
  BY DEF StateOK, Loads
<1>2. [load EXCEPT !.sent = @ + 1] \in Loads /\ [load EXCEPT !.sent = @ + 1].run = load.run
  BY <1>1 DEF Loads
<1>3. CASE counters' = counters + 1 /\ UNCHANGED load
  BY <1>1, <1>3
<1>4. CASE load' = [load EXCEPT !.sent = @ + 1] /\ UNCHANGED counters
  BY <1>1, <1>2, <1>4
<1> QED
  BY <1>3, <1>4 DEF count

LEMMA CallTypes ==
  ASSUME Typed, NEW sender \in Senders,
         tick \/ answer(sender) \/ drop(sender) \/ probe(sender)
  PROVE  Typed'
<1>1. UNCHANGED <<config, timers, shadow, window>>
  BY DEF tick, answer, drop, probe
<1>2. calls' \in Calls
  <2>1. calls \in Calls
    BY DEF Typed, StateOK, Calls
  <2> QED
    BY <2>1, CallsChange, LoopAssumption DEF tick, answer, drop, probe
<1>3. /\ counters' \in Nat /\ counters' >= counters
      /\ load' \in Loads /\ load'.run = load.run
  <2>1. CASE count(sender)
    BY <2>1, CountTypes DEF Typed
  <2>2. CASE UNCHANGED <<counters, load>>
    BY <2>2 DEF Typed, StateOK, Loads
  <2> QED
    BY <2>1, <2>2 DEF tick, answer, drop, probe
<1>4. Fits(history') /\ history'.files = history.files
  BY TappedIs DEF Typed, HistoryOK, Queued, tick, answer, drop, probe
<1>5. opened' \in 0 .. counters'
  BY <1>1, <1>3 DEF Typed, StateOK, window
<1> QED
  BY <1>1, <1>2, <1>3, <1>4, <1>5
  DEF Typed, StateOK, WaitingOK, HistoryOK, Loads, Calls, timers, shadow, window

LEMMA DiskTypes ==
  ASSUME Typed, EndedIsClosed,
         turn \/ (\E run \in DOMAIN history.files : diskFails(run)) \/ onModuleDestroy
  PROVE  Typed'
<1>1. UNCHANGED <<config, shadow, window, counters, calls, load>>
  BY DEF turn, diskFails, onModuleDestroy
<1>2. timer' \in BOOLEAN /\ lost' \in Nat
  BY DEF turn, diskFails, onModuleDestroy, clearTimer, timers, Typed, StateOK
<1>3. Fits(history') /\ DOMAIN history'.files = DOMAIN history.files
  <2>1. Fits(history)
    BY DEF Typed, HistoryOK
  <2>2. CASE turn
    <3>1. history' = turned(history)
      BY <2>2 DEF turn
    <3>2. Fits(history') /\ TurnedTo(history, history', Len(history.turn))
      BY <2>1, <3>1, TurnFits
    <3>3. [history EXCEPT !.turn = <<>>].files = history.files
      BY <2>1 DEF Fits, Histories
    <3> QED
      BY <3>2, <3>3 DEF TurnedTo, SameRuns
  <2>3. CASE \E run \in DOMAIN history.files : diskFails(run)
    <3>1. PICK run \in Nat : history' = disown(history, run)
      BY <2>1, <2>3 DEF diskFails, Fits, Histories
    <3> QED
      BY <2>1, <3>1, DisownIs DEF Disowned, EndedIsClosed
  <2>4. CASE onModuleDestroy
    BY <2>1, <2>4, DestroyedIs DEF onModuleDestroy, Destroyed
  <2> QED
    BY <2>2, <2>3, <2>4
<1> QED
  BY <1>1, <1>2, <1>3 DEF Typed, StateOK, WaitingOK, HistoryOK, shadow, window

LEMMA NextTypes ==
  ASSUME Typed, EndedIsClosed, Next
  PROVE  Typed'
<1>1. CASE Read
  BY <1>1, ReadTypes DEF Read
<1>2. CASE tick
  BY <1>2, CallTypes, LoopAssumption
<1> QED
  BY <1>1, <1>2, OperateTypes, ExecuteTypes, CallTypes, DiskTypes DEF Next, Answer

-----------------------------------------------------------------------------
(***************************************************************************)
(* One operation at a time, unless one was called while another waited.    *)
(***************************************************************************)
LEMMA OverlapIs ==
  ASSUME Overlaps, "overlap" \notin mishaps'
  PROVE  waiting = {} /\ mishaps' = mishaps
  BY DEF Overlaps

LEMMA NextKeepsOneAtATime ==
  ASSUME Typed, OneAtATime, Next
  PROVE  OneAtATime'
<1> SUFFICES ASSUME "overlap" \notin mishaps'
             PROVE  /\ lost' = 0
                    /\ waiting' # {} => ~ timer'
                    /\ \A op, other \in waiting' : op = other
  BY DEF OneAtATime
<1>1. ASSUME clearTimer, Overlaps, NEW op, waiting' = waiting \cup {op}
      PROVE  lost' = 0 /\ ~ timer' /\ \A one, other \in waiting' : one = other
  BY <1>1, OverlapIs DEF OneAtATime, clearTimer
<1>2. /\ WaitingOK /\ generation \in Nat /\ config.users # {}
      /\ config.users \subseteq UNION (Rosters \cup {DefaultUsers, LoadUsers})
      /\ LoadUsers \subseteq UNION (Rosters \cup {DefaultUsers, LoadUsers})
  BY SomeUsers DEF Typed, StateOK
<1>3. CASE Operate
  <2>1. ASSUME NEW users \in Rosters, start(users)
        PROVE  /\ lost' = 0
               /\ waiting' # {} => ~ timer'
               /\ \A op, other \in waiting' : op = other
    <3>1. [users |-> users, running |-> FALSE] \in Configs
      BY DEF Configs
    <3>2. \E op : waiting' = waiting \cup {op}
      BY <1>2, <2>1, <3>1, AwaitIs, SomeUsers DEF start, Operations
    <3> QED
      BY <1>1, <2>1, <3>2 DEF start
  <2>2. ASSUME NEW users \in Rosters, configure(users)
        PROVE  /\ lost' = 0
               /\ waiting' # {} => ~ timer'
               /\ \A op, other \in waiting' : op = other
    <3>1. CASE users # config.users
      <4>1. [config EXCEPT !.users = users] \in Configs
        BY DEF Typed, StateOK, Configs
      <4>2. \E op : waiting' = waiting \cup {op}
        BY <1>2, <2>2, <3>1, <4>1, AwaitIs, SomeUsers DEF configure, Operations
      <4> QED
        BY <1>1, <2>2, <3>1, <4>2 DEF configure
    <3>2. CASE users = config.users
      <4>1. Overlaps /\ UNCHANGED <<lost, waiting>>
        BY <2>2, <3>2 DEF configure, shadow
      <4> QED
        BY <4>1, OverlapIs DEF OneAtATime
    <3> QED
      BY <3>1, <3>2
  <2>3. CASE stop
    <3>1. clearTimer /\ UNCHANGED waiting /\ mishaps \subseteq mishaps'
      BY <2>3 DEF stop, shadow
    <3> QED
      BY <3>1 DEF OneAtATime, clearTimer
  <2>4. CASE reset
    <3>1. \E op : waiting' = waiting \cup {op}
      BY <1>2, <2>4, AwaitIs DEF reset, Operations
    <3> QED
      BY <1>1, <2>4, <3>1 DEF reset
  <2>5. CASE startLoad
    BY <2>5 DEF startLoad, OneAtATime, timers, shadow, bounds
  <2>6. CASE \E users \in Rosters : start(users) \/ configure(users)
    <3>1. PICK users \in Rosters : start(users) \/ configure(users)
      BY <2>6
    <3> QED
      BY <2>1, <2>2, <3>1
  <2> QED
    BY <1>3, <2>3, <2>4, <2>5, <2>6 DEF Operate
<1>4. CASE Read
  <2>1. PICK op \in waiting, user \in UNION (Rosters \cup {DefaultUsers, LoadUsers}),
             ok \in BOOLEAN : seedUser(op, user, ok)
    BY <1>4 DEF Read
  <2>2. UNCHANGED mishaps /\ (Resumed(op) \/ PartlyRead(op))
    BY <1>2, <2>1, SeedUserIs
  <2>3. /\ lost = 0 /\ ~ timer /\ \A one, other \in waiting : one = other
    BY <2>2 DEF OneAtATime
  <2>4. CASE PartlyRead(op)
    BY <2>3, <2>4 DEF PartlyRead, timers
  <2>5. CASE Resumed(op)
    <3>1. waiting' = {} /\ \E read : Resumes(read)
      BY <2>3, <2>5 DEF Resumed
    <3>2. lost' = 0
      BY <2>3, <3>1 DEF Resumes, startResumes, configureResumes, resetResumes,
         prepareResumes, PutUp, Run, timers
    <3> QED
      BY <3>1, <3>2
  <2> QED
    BY <2>2, <2>4, <2>5
<1>5. CASE Execute
  <2>1. CASE prepare
    <3>1. \E op : waiting' = waiting \cup {op}
      <4>1. config.users \cup LoadUsers # {}
        BY <1>2
      <4> QED
        BY <1>2, <2>1, <4>1, AwaitIs DEF prepare, Operations
    <3> QED
      BY <1>1, <2>1, <3>1 DEF prepare
  <2>2. CASE UNCHANGED <<timers, shadow, bounds>>
    BY <2>2 DEF OneAtATime, timers, shadow, bounds
  <2> QED
    BY <1>5, <2>1, <2>2 DEF Execute, highWaterMark, fire, check, fail
<1>6. CASE UNCHANGED <<timers, shadow, mishaps>>
  BY <1>6 DEF OneAtATime, timers, shadow
<1>7. CASE onModuleDestroy
  BY <1>7 DEF onModuleDestroy, OneAtATime, clearTimer, shadow, bounds
<1>8. tick \/ Answer \/ (\E sender \in Senders : drop(sender)) \/ turn
        \/ (\E run \in DOMAIN history.files : diskFails(run))
        => UNCHANGED <<timers, shadow, mishaps>>
  BY DEF tick, Answer, answer, probe, drop, turn, diskFails, bounds
<1> QED
  BY <1>3, <1>4, <1>5, <1>6, <1>7, <1>8 DEF Next

-----------------------------------------------------------------------------
(***************************************************************************)
(* A lone operation ends with the loop as its state says.                  *)
(***************************************************************************)
LEMMA OperateAlone ==
  ASSUME Typed, OneAtATime, LoneOperation, Operate
  PROVE  LoneOperation'
<1> SUFFICES ASSUME mishaps' = {}, ~ down'
             PROVE  /\ waiting' = {} =>
                         /\ timer' <=> config'.running
                         /\ runId' # Closed <=> config'.running
                    /\ \A op \in waiting' :
                         /\ op.op = "start" => ~ config'.running /\ runId' # Closed
                         /\ op.op # "start" => (runId' # Closed <=> config'.running)
                         /\ op.op = "configure" => (op.config.running <=> config'.running)
  BY DEF LoneOperation
<1>1. /\ WaitingOK /\ generation \in Nat /\ config.users # {}
      /\ config.users \subseteq UNION (Rosters \cup {DefaultUsers, LoadUsers})
      /\ timer \in BOOLEAN /\ config \in Configs /\ config.running \in BOOLEAN
  BY SomeUsers DEF Typed, StateOK
<1>2. ~ down /\ mishaps = {}
  BY DEF Operate, start, configure, stop, reset, startLoad, Called, Overlaps, bounds
<1>3. ASSUME NEW users \in Rosters, start(users)
      PROVE  LoneOperation'
  <2> DEFINE next == [users |-> users, running |-> FALSE]
  <2>1. next \in Configs /\ ~ next.running
    BY DEF Configs
  <2> HIDE DEF next
  <2>2. /\ config' = next /\ runId' = NextRun(history) /\ Overlaps
        /\ Await("start", users, next)
    BY <1>3 DEF start, next
  <2>3. PICK op : waiting' = waiting \cup {op} /\ op.op = "start"
    BY <1>1, <2>1, <2>2, AwaitIs, SomeUsers DEF Operations
  <2>4. waiting' = {op}
    BY <2>2, <2>3, OverlapIs
  <2>5. NextRun(history) # Closed
    BY DEF Typed, HistoryOK, Fits, Histories, NextRun, Closed
  <2> QED
    BY <2>1, <2>2, <2>3, <2>4, <2>5 DEF LoneOperation
<1>4. ASSUME NEW users \in Rosters, configure(users)
      PROVE  LoneOperation'
  <2> DEFINE next == [config EXCEPT !.users = users]
  <2>1. next \in Configs /\ next.running = config.running
    BY <1>1 DEF Configs
  <2> HIDE DEF next
  <2>2. /\ config' = next /\ runId' = runId /\ Overlaps
        /\ \/ Await("configure", users, next)
           \/ timer' = next.running /\ waiting' = waiting
    BY <1>4 DEF configure, next, window, shadow
  <2>3. waiting = {} /\ (runId # Closed <=> config.running)
    BY <1>2, <2>2, OverlapIs DEF LoneOperation
  <2>4. CASE Await("configure", users, next)
    <3>1. PICK op : waiting' = waiting \cup {op} /\ op.op = "configure" /\ op.config = next
      BY <1>1, <2>1, <2>4, AwaitIs, SomeUsers DEF Operations
    <3>2. waiting' = {op}
      BY <2>3, <3>1
    <3> QED
      BY <2>1, <2>2, <2>3, <3>1, <3>2 DEF LoneOperation
  <2>5. CASE timer' = next.running /\ waiting' = waiting
    BY <1>1, <2>1, <2>2, <2>3, <2>5 DEF LoneOperation
  <2> QED
    BY <2>2, <2>4, <2>5
<1>5. ASSUME stop PROVE LoneOperation'
  <2>1. waiting = {} /\ waiting' = waiting
    BY <1>5 DEF stop, shadow
  <2>2. ~ timer' /\ ~ config'.running /\ runId' = Closed
    <3>1. ~ [config EXCEPT !.running = FALSE].running
      BY <1>1 DEF Configs
    <3> QED
      BY <1>5, <3>1 DEF stop, clearTimer, closeWindow
  <2> QED
    BY <2>1, <2>2 DEF LoneOperation
<1>6. ASSUME reset PROVE LoneOperation'
  <2>1. /\ UNCHANGED <<config, runId>> /\ Overlaps
        /\ Await("reset", config.users, NoConfig)
    BY <1>6 DEF reset
  <2>2. waiting = {} /\ (runId # Closed <=> config.running)
    BY <1>2, <2>1, OverlapIs DEF LoneOperation
  <2>3. PICK op : waiting' = waiting \cup {op} /\ op.op = "reset"
    <3>1. "reset" \in Operations /\ "reset" \notin {"start", "configure"}
      BY DEF Operations
    <3> QED
      BY <1>1, <2>1, <3>1, AwaitIs
  <2>4. waiting' = {op}
    BY <2>2, <2>3
  <2> QED
    BY <2>1, <2>2, <2>3, <2>4 DEF LoneOperation
<1>7. ASSUME startLoad PROVE LoneOperation'
  <2>1. UNCHANGED <<config, timer, waiting, runId>>
    BY <1>7 DEF startLoad, timers, shadow, window
  <2> QED
    BY <1>2, <2>1 DEF LoneOperation
<1>8. LoneOperation'
  <2>1. CASE \E users \in Rosters : start(users) \/ configure(users)
    <3>1. PICK users \in Rosters : start(users) \/ configure(users)
      BY <2>1
    <3> QED
      BY <1>3, <1>4, <3>1
  <2> QED
    BY <1>5, <1>6, <1>7, <2>1 DEF Operate
<1> QED
  BY <1>8 DEF LoneOperation

LEMMA ReadAlone ==
  ASSUME Typed, OneAtATime, LoneOperation, mishaps = {}, ~ down,
         NEW op \in waiting, NEW user, NEW ok \in BOOLEAN, seedUser(op, user, ok)
  PROVE  LoneOperation'
<1>1. /\ Resumed(op) \/ PartlyRead(op)
      /\ WaitingOK /\ config \in Configs /\ config.running \in BOOLEAN
  BY SeedUserIs, SomeUsers DEF Typed, StateOK
<1>2. /\ ~ timer /\ waiting = {op}
      /\ op.op = "start" => ~ config.running /\ runId # Closed
      /\ op.op # "start" => (runId # Closed <=> config.running)
      /\ op.op = "configure" => (op.config.running <=> config.running)
      /\ op.op = "start" => op.config \in Configs
  BY <1>1 DEF OneAtATime, LoneOperation, WaitingOK
<1>3. CASE PartlyRead(op)
  <2>1. PICK read : /\ read.op = op.op /\ read.config = op.config
                    /\ waiting' = {read} /\ config' = config /\ runId' = runId
    BY <1>2, <1>3 DEF PartlyRead, window
  <2> QED
    BY <1>2, <2>1 DEF LoneOperation
<1>4. CASE Resumed(op)
  <2>1. PICK read : /\ read.op = op.op /\ read.config = op.config
                    /\ read.seeded \in BOOLEAN /\ waiting' = {} /\ Resumes(read)
    BY <1>2, <1>4 DEF Resumed
  <2>2. ASSUME NEW running, PutUp(running)
        PROVE  timer' <=> running
    BY <1>2, <2>2 DEF PutUp, Run, timers
  <2>3. CASE read.op = "start" /\ startResumes(read)
    <3>1. CASE read.seeded
      <4>1. [read.config EXCEPT !.running = TRUE].running
        BY <1>2, <2>1, <2>3 DEF Configs
      <4>2. timer' /\ runId' = runId /\ config' = [read.config EXCEPT !.running = TRUE]
        BY <2>3, <3>1 DEF startResumes, Run, window
      <4> QED
        BY <1>2, <2>1, <2>3, <4>1, <4>2 DEF LoneOperation
    <3>2. CASE ~ read.seeded
      <4>1. ~ timer' /\ runId' = Closed /\ config' = config
        BY <1>2, <2>3, <3>2 DEF startResumes, closeWindow, timers
      <4> QED
        BY <1>2, <2>1, <2>3, <4>1 DEF LoneOperation
    <3> QED
      BY <3>1, <3>2
  <2>4. CASE read.op # "start"
    <3>1. /\ \/ PutUp(config.running)
             \/ read.op = "configure" /\ PutUp(read.config.running)
          /\ config' = config /\ runId' = runId
      BY <2>1, <2>4 DEF Resumes, configureResumes, resetResumes, prepareResumes, window
    <3>2. timer' <=> config.running
      BY <1>2, <2>1, <2>2, <3>1
    <3> QED
      BY <1>2, <2>1, <2>4, <3>1, <3>2 DEF LoneOperation
  <2> QED
    BY <2>1, <2>3, <2>4 DEF Resumes
<1> QED
  BY <1>1, <1>3, <1>4

LEMMA NextKeepsLoneOperation ==
  ASSUME Typed, OneAtATime, LoneOperation, Next
  PROVE  LoneOperation'
<1>1. CASE Operate
  BY <1>1, OperateAlone
<1>2. ASSUME Read PROVE LoneOperation'
  <2>1. PICK op \in waiting, user \in UNION (Rosters \cup {DefaultUsers, LoadUsers}),
             ok \in BOOLEAN : seedUser(op, user, ok)
    BY <1>2 DEF Read
  <2>2. UNCHANGED <<mishaps, down>>
    BY <2>1 DEF seedUser
  <2>3. CASE mishaps = {} /\ ~ down
    BY <2>1, <2>3, ReadAlone
  <2>4. CASE ~ (mishaps = {} /\ ~ down)
    BY <2>2, <2>4 DEF LoneOperation
  <2> QED
    BY <2>3, <2>4
<1>3. ASSUME prepare, UNCHANGED <<config, window, down>> PROVE LoneOperation'
  <2>1. /\ WaitingOK /\ generation \in Nat /\ config.users \cup LoadUsers # {}
        /\ config.users \cup LoadUsers
             \subseteq UNION (Rosters \cup {DefaultUsers, LoadUsers})
        /\ "prepare" \in Operations /\ "prepare" \notin {"start", "configure"}
    BY SomeUsers DEF Typed, StateOK, Operations
  <2>2. PICK op : waiting' = waiting \cup {op} /\ op.op = "prepare"
    BY <1>3, <2>1, AwaitIs DEF prepare
  <2>3. Overlaps
    BY <1>3 DEF prepare
  <2> SUFFICES ASSUME mishaps' = {}, ~ down' PROVE LoneOperation'
    BY DEF LoneOperation
  <2>4. waiting' = {op} /\ mishaps = {} /\ waiting = {}
    BY <2>2, <2>3, OverlapIs
  <2> QED
    BY <1>3, <2>2, <2>4 DEF LoneOperation, window
<1>4. ASSUME UNCHANGED <<config, timer, waiting, runId, mishaps, down>> PROVE LoneOperation'
  BY <1>4 DEF LoneOperation
<1>5. ASSUME Execute PROVE LoneOperation'
  <2>1. \/ prepare /\ UNCHANGED <<config, window, down>>
        \/ UNCHANGED <<config, timer, waiting, runId, mishaps, down>>
    BY <1>5 DEF Execute, highWaterMark, fire, check, fail, timers, shadow, window, bounds
  <2> QED
    BY <1>3, <1>4, <2>1
<1>6. ASSUME tick \/ Answer \/ (\E sender \in Senders : drop(sender)) \/ turn
               \/ (\E run \in DOMAIN history.files : diskFails(run))
      PROVE  LoneOperation'
  <2>1. UNCHANGED <<config, timer, waiting, runId, mishaps, down>>
    BY <1>6 DEF tick, Answer, answer, probe, drop, turn, diskFails, timers, shadow,
       window, bounds
  <2> QED
    BY <1>4, <2>1
<1>7. ASSUME onModuleDestroy PROVE LoneOperation'
  BY <1>7 DEF onModuleDestroy, LoneOperation
<1> QED
  BY <1>1, <1>2, <1>5, <1>6, <1>7 DEF Next

-----------------------------------------------------------------------------
(***************************************************************************)
(* What a step may do to the runs on disk.                                 *)
(***************************************************************************)
SameFiles(h, g) ==
  g.files = h.files /\ g.running = h.running /\ g.disowned = h.disowned

RunsMove ==
  \/ SameFiles(history, history')
  \/ \E h : \E mode \in Senders : SameFiles(history, h) /\ Opened(h, mode, history')
  \/ turn /\ TurnedTo(history, history', Len(history.turn))
  \/ \E run \in DOMAIN history.files : Disowned(history, run, history')
  \/ Destroyed(history, history')

LEMMA NextOnRuns ==
  ASSUME Typed, EndedIsClosed, Next
  PROVE  RunsMove
<1> USE DEF Typed
<1>1. Fits(history)
  BY DEF HistoryOK
<1>2. ASSUME UNCHANGED history PROVE SameFiles(history, history')
  BY <1>2 DEF SameFiles
<1>3. ASSUME history' = closed(history) PROVE SameFiles(history, history')
  BY <1>3, ClosedIs DEF SameFiles
<1>4. ASSUME EndLoad PROVE SameFiles(history, history')
  BY <1>4, EndLoadIs DEF SameFiles, Queued
<1>5. ASSUME Operate PROVE RunsMove
  <2>1. ASSUME NEW users \in Rosters, start(users) PROVE RunsMove
    <3>1. history' = open(closed(history), "loop")
      BY <2>1 DEF start
    <3>2. SameFiles(history, closed(history)) /\ Fits(closed(history))
      BY ClosedIs DEF SameFiles
    <3>3. Opened(closed(history), "loop", history')
      BY <3>1, <3>2, OpenIs, LoopAssumption
    <3> QED
      BY <3>2, <3>3, LoopAssumption DEF RunsMove
  <2>2. ASSUME startLoad PROVE RunsMove
    <3>1. Opened(history, "load", history')
      BY <1>1, <2>2, OpenIs, LoopAssumption DEF startLoad
    <3>2. SameFiles(history, history)
      BY DEF SameFiles
    <3> QED
      BY <3>1, <3>2, LoopAssumption DEF RunsMove
  <2>3. \/ \E users \in Rosters : start(users)
        \/ startLoad \/ UNCHANGED history \/ history' = closed(history)
    BY <1>5 DEF Operate, configure, stop, closeWindow, reset
  <2> QED
    BY <1>2, <1>3, <2>1, <2>2, <2>3 DEF RunsMove
<1>6. ASSUME Read PROVE RunsMove
  <2>1. PICK op \in waiting, user \in UNION (Rosters \cup {DefaultUsers, LoadUsers}),
             ok \in BOOLEAN : seedUser(op, user, ok)
    BY <1>6 DEF Read
  <2>2. Resumed(op) \/ PartlyRead(op)
    BY <2>1, SeedUserIs DEF StateOK
  <2>3. UNCHANGED history \/ history' = closed(history) \/ EndLoad
    BY <2>2 DEF Resumed, PartlyRead, Resumes, startResumes, closeWindow,
       configureResumes, resetResumes, prepareResumes
  <2> QED
    BY <1>2, <1>3, <1>4, <2>3 DEF RunsMove
<1>7. ASSUME Execute PROVE RunsMove
  BY <1>2, <1>4, <1>7 DEF Execute, highWaterMark, fire, check, fail, RunsMove
<1>8. ASSUME tick \/ Answer \/ (\E sender \in Senders : drop(sender)) PROVE RunsMove
  <2>1. \/ UNCHANGED history
        \/ \E sender \in Senders : history' = tapped(history, sender)
    BY <1>8 DEF tick, Answer, answer, probe, drop
  <2>2. ASSUME NEW sender \in Senders, history' = tapped(history, sender)
        PROVE  SameFiles(history, history')
    BY <1>1, <2>2, TappedIs DEF SameFiles, Queued
  <2> QED
    BY <1>2, <2>1, <2>2 DEF RunsMove
<1>9. ASSUME turn PROVE RunsMove
  BY <1>1, <1>9, TurnFits DEF turn, RunsMove
<1>10. ASSUME NEW run \in DOMAIN history.files, diskFails(run) PROVE RunsMove
  <2>1. run \in Nat
    BY <1>1 DEF Fits, Histories
  <2> QED
    BY <1>1, <1>10, <2>1, DisownIs DEF EndedIsClosed, diskFails, RunsMove
<1>11. ASSUME onModuleDestroy PROVE RunsMove
  BY <1>1, <1>11, DestroyedIs DEF onModuleDestroy, RunsMove
<1> QED
  BY <1>5, <1>6, <1>7, <1>8, <1>9, <1>10, <1>11 DEF Next

(***************************************************************************)
(* What has ended, or was given up, stays so, and gets no more rows.       *)
(***************************************************************************)
LEMMA TurnedFiles ==
  ASSUME Fits(history), TurnedTo(history, history', Len(history.turn))
  PROVE  /\ history'.running \subseteq history.running
         /\ history'.disowned = history.disowned
         /\ DOMAIN history'.files = DOMAIN history.files
         /\ \A run \in DOMAIN history.files :
              history'.files[run].mode = history.files[run].mode
<1>1. /\ [history EXCEPT !.turn = <<>>].files = history.files
      /\ [history EXCEPT !.turn = <<>>].disowned = history.disowned
  BY DEF Fits, Histories
<1> QED
  BY <1>1 DEF TurnedTo, SameRuns

LEMMA NextKeepsEnded ==
  ASSUME Typed, EndedIsClosed, Next
  PROVE  EndedIsClosed'
<1>1. Fits(history) /\ RunsMove
  BY NextOnRuns DEF Typed, HistoryOK
<1>2. CASE SameFiles(history, history')
  BY <1>2 DEF SameFiles, EndedIsClosed
<1>3. CASE \E h : \E mode \in Senders : SameFiles(history, h) /\ Opened(h, mode, history')
  <2>1. PICK h : \E mode \in Senders : SameFiles(history, h) /\ Opened(h, mode, history')
    BY <1>3
  <2> PICK mode \in Senders : SameFiles(history, h) /\ Opened(h, mode, history')
    BY <2>1
  <2>2. ~ NewFile(mode).finished /\ ~ NewFile(mode).summary.given
    BY DEF NewFile, NoSummary
  <2>3. history.running \subseteq DOMAIN history.files
    BY <1>1 DEF Fits
  <2> QED
    BY <2>1, <2>2, <2>3 DEF SameFiles, Opened, EndedIsClosed
<1>4. CASE TurnedTo(history, history', Len(history.turn))
  <2>1. \A run \in history'.running :
          /\ history'.files[run].finished = history.files[run].finished
          /\ history'.files[run].summary = history.files[run].summary
    BY <1>1, <1>4, TurnedFiles DEF TurnedTo, StillOpen, Fits
  <2> QED
    BY <1>1, <1>4, <2>1, TurnedFiles DEF EndedIsClosed
<1>5. CASE \E run \in DOMAIN history.files : Disowned(history, run, history')
  BY <1>5 DEF Disowned, EndedIsClosed
<1>6. CASE Destroyed(history, history')
  BY <1>6 DEF Destroyed, EndedIsClosed
<1> QED
  BY <1>1, <1>2, <1>3, <1>4, <1>5, <1>6 DEF RunsMove

LEMMA NextAddsNoRows ==
  ASSUME Typed, EndedIsClosed, Next, NEW run \in DOMAIN history.files,
         history.files[run].finished \/ run \in history.disowned
  PROVE  history'.files[run].rows = history.files[run].rows
<1>1. Fits(history) /\ RunsMove /\ run \notin history.running
  BY NextOnRuns DEF Typed, HistoryOK, EndedIsClosed
<1>2. CASE TurnedTo(history, history', Len(history.turn))
  BY <1>1, <1>2 DEF TurnedTo
<1> QED
  BY <1>1, <1>2 DEF RunsMove, SameFiles, Opened, Disowned, Destroyed
-----------------------------------------------------------------------------
(***************************************************************************)
(* Who owns the open runs.  Whoever lets go of one has put its close in    *)
(* line, and a turn takes it out of the open ones.                         *)
(***************************************************************************)
LEMMA QueuedOwners ==
  ASSUME NEW h, NEW g, NEW next, Queued(h, next, g), NEW one, NEW other,
         OwnedBy(h, one, other)
  PROVE  /\ OwnedBy(g, one, other)
         /\ \A run : Closes(next, run) => LineCloses(g, run)
<1>1. /\ \A k \in DOMAIN h.turn : k \in DOMAIN g.turn /\ g.turn[k] = h.turn[k]
      /\ Len(h.turn) + 1 \in DOMAIN g.turn /\ g.turn[Len(h.turn) + 1] = next
      /\ g.running = h.running
  BY DEF Queued
<1>2. \A run : LineCloses(h, run) => LineCloses(g, run)
  BY <1>1 DEF LineCloses
<1> QED
  BY <1>1, <1>2 DEF OwnedBy, LineCloses

(* The window is let go of.                                                *)
LEMMA ClosedOwners ==
  ASSUME StateOK, HistoryOK, OwnedBy(history, runId, load.run), NEW one
  PROVE  OwnedBy(closed(history), one, load.run)
<1>1. CASE runId = Closed
  <2>1. Closed \notin history.running
    BY DEF HistoryOK, Fits, Histories, Closed
  <2> QED
    BY <1>1, <2>1, ClosedIs DEF OwnedBy
<1>2. CASE runId # Closed
  <2>1. Queued(history, CloseOf(runId, counters - opened), closed(history))
    BY <1>2, ClosedIs
  <2>2. Closes(CloseOf(runId, counters - opened), runId)
    BY DEF Closes, CloseOf
  <2>3. /\ OwnedBy(closed(history), runId, load.run)
        /\ LineCloses(closed(history), runId)
    BY <2>1, <2>2, QueuedOwners
  <2> QED
    BY <2>3 DEF OwnedBy
<1> QED
  BY <1>1, <1>2

LEMMA EndLoadOwners ==
  ASSUME StateOK, HistoryOK, Owned, EndLoad, UNCHANGED runId
  PROVE  Owned'
<1>1. /\ Queued(history, CloseOf(load.run, load.sent), history')
      /\ load' = NoLoad /\ loadRunning' = FALSE
  BY EndLoadIs
<1>2. Closes(CloseOf(load.run, load.sent), load.run)
  BY DEF Closes, CloseOf
<1>3. OwnedBy(history', runId, load.run) /\ LineCloses(history', load.run)
  BY <1>1, <1>2, QueuedOwners DEF Owned
<1>4. load'.run = Closed
  BY <1>1 DEF NoLoad
<1> QED
  BY <1>1, <1>3, <1>4 DEF Owned, OwnedBy

LEMMA OpenedOwners ==
  ASSUME NEW h, NEW g, NEW mode, Opened(h, mode, g), NEW one, NEW other,
         OwnedBy(h, one, other)
  PROVE  \A run \in g.running : run \in {NextRun(h), one, other} \/ LineCloses(g, run)
  BY DEF Opened, OwnedBy, LineCloses

LEMMA OperateOwners ==
  ASSUME Typed, Owned, Operate
  PROVE  Owned'
<1> USE DEF Typed
<1>1. ASSUME NEW users \in Rosters, start(users) PROVE Owned'
  <2>1. /\ history' = open(closed(history), "loop") /\ runId' = NextRun(history)
        /\ UNCHANGED <<load, loadRunning>>
    BY <1>1 DEF start
  <2>2. /\ Opened(closed(history), "loop", history')
        /\ NextRun(closed(history)) = NextRun(history)
    BY <2>1, ClosedIs, OpenIs, LoopAssumption DEF NextRun
  <2>3. OwnedBy(closed(history), runId', load.run)
    BY ClosedOwners DEF Owned
  <2>4. OwnedBy(history', runId', load.run)
    BY <2>1, <2>2, <2>3, OpenedOwners DEF OwnedBy
  <2> QED
    BY <2>1, <2>4 DEF Owned
<1>2. ASSUME stop PROVE Owned'
  <2>1. history' = closed(history) /\ UNCHANGED <<load, loadRunning>>
    BY <1>2 DEF stop, closeWindow
  <2>2. OwnedBy(closed(history), runId', load.run)
    BY ClosedOwners DEF Owned
  <2> QED
    BY <2>1, <2>2 DEF Owned
<1>3. ASSUME startLoad PROVE Owned'
  <2>1. /\ load.run = Closed /\ load'.run = NextRun(history) /\ loadRunning' = TRUE
        /\ history' = open(history, "load") /\ UNCHANGED runId
    BY <1>3 DEF startLoad, NoLoad, window
  <2>2. Opened(history, "load", history')
    BY <2>1, OpenIs, LoopAssumption DEF HistoryOK
  <2>3. Closed \notin history'.running /\ NextRun(history) # Closed
    BY <2>2 DEF HistoryOK, Fits, Histories, Opened, Closed
  <2>4. OwnedBy(history', runId', load'.run)
    BY <2>1, <2>2, <2>3, OpenedOwners DEF OwnedBy, Owned
  <2> QED
    BY <2>1, <2>3, <2>4 DEF Owned
<1>4. ASSUME UNCHANGED <<runId, load, loadRunning, history>> PROVE Owned'
  BY <1>4 DEF Owned
<1>5. \/ \E users \in Rosters : start(users)
      \/ stop \/ startLoad \/ UNCHANGED <<runId, load, loadRunning, history>>
  BY DEF Operate, configure, reset, window
<1> QED
  BY <1>1, <1>2, <1>3, <1>4, <1>5

LEMMA NextKeepsOwned ==
  ASSUME Typed, Owned, EndedIsClosed, Next
  PROVE  Owned'
<1> USE DEF Typed
<1>1. ASSUME UNCHANGED <<runId, loadRunning, history>>, load'.run = load.run PROVE Owned'
  BY <1>1 DEF Owned
<1>2. ASSUME Read PROVE Owned'
  <2>1. PICK op \in waiting, user \in UNION (Rosters \cup {DefaultUsers, LoadUsers}),
             ok \in BOOLEAN : seedUser(op, user, ok)
    BY <1>2 DEF Read
  <2>2. Resumed(op) \/ PartlyRead(op)
    BY <2>1, SeedUserIs DEF StateOK
  <2>3. \/ UNCHANGED <<runId, load, loadRunning, history>>
        \/ history' = closed(history) /\ UNCHANGED <<load, loadRunning>>
        \/ /\ load' = [load EXCEPT !.phase = "placing"]
           /\ UNCHANGED <<runId, loadRunning, history>>
        \/ EndLoad /\ UNCHANGED runId
    BY <2>2 DEF Resumed, PartlyRead, Resumes, startResumes, closeWindow,
       configureResumes, resetResumes, prepareResumes, window
  <2>4. ASSUME history' = closed(history), UNCHANGED <<load, loadRunning>> PROVE Owned'
    <3>1. OwnedBy(closed(history), runId', load.run)
      BY ClosedOwners DEF Owned
    <3> QED
      BY <2>4, <3>1 DEF Owned
  <2>5. [load EXCEPT !.phase = "placing"].run = load.run
    BY DEF StateOK
  <2> QED
    BY <1>1, <2>3, <2>4, <2>5, EndLoadOwners
<1>3. ASSUME Execute PROVE Owned'
  <2>1. \/ EndLoad /\ UNCHANGED runId
        \/ UNCHANGED <<runId, loadRunning, history>> /\ load'.run = load.run
    BY <1>3 DEF Execute, highWaterMark, fire, check, fail, window, StateOK
  <2> QED
    BY <1>1, <2>1, EndLoadOwners
<1>4. ASSUME tick \/ Answer \/ (\E sender \in Senders : drop(sender)) PROVE Owned'
  <2>1. /\ UNCHANGED <<runId, loadRunning>>
        /\ \/ UNCHANGED load
           \/ load' = [load EXCEPT !.sent = @ + 1]
        /\ \/ UNCHANGED history
           \/ \E sender \in Senders : history' = tapped(history, sender)
    BY <1>4 DEF tick, Answer, answer, probe, drop, count, window
  <2>2. load'.run = load.run
    BY <2>1 DEF StateOK
  <2>3. ASSUME NEW sender \in Senders, history' = tapped(history, sender) PROVE Owned'
    <3>1. Queued(history, Row(sender), history')
      BY <2>3, TappedIs DEF HistoryOK
    <3> QED
      BY <2>1, <2>2, <3>1, QueuedOwners DEF Owned
  <2> QED
    BY <1>1, <2>1, <2>2, <2>3
<1>5. ASSUME turn PROVE Owned'
  <2>1. TurnedTo(history, history', Len(history.turn))
    BY <1>5, TurnFits DEF turn, HistoryOK
  <2>2. DOMAIN history.turn = 1 .. Len(history.turn)
    BY DEF HistoryOK, Fits, Histories
  <2>3. \A run \in history'.running : run \in history.running /\ ~ LineCloses(history, run)
    BY <2>1, <2>2 DEF TurnedTo, LineCloses
  <2> QED
    BY <1>5, <2>3 DEF Owned, OwnedBy, turn, window
<1>6. ASSUME NEW run \in DOMAIN history.files, diskFails(run) PROVE Owned'
  <2>1. run \in Nat
    BY DEF HistoryOK, Fits, Histories
  <2>2. Disowned(history, run, history')
    BY <1>6, <2>1, DisownIs DEF diskFails, HistoryOK, EndedIsClosed
  <2> QED
    BY <1>6, <2>2 DEF Owned, OwnedBy, LineCloses, Disowned, diskFails, window
<1>7. ASSUME onModuleDestroy PROVE Owned'
  <2>1. Destroyed(history, history')
    BY <1>7, DestroyedIs DEF onModuleDestroy, HistoryOK
  <2> QED
    BY <1>7, <2>1 DEF Owned, OwnedBy, Destroyed, onModuleDestroy
<1> QED
  BY <1>2, <1>3, <1>4, <1>5, <1>6, <1>7, OperateOwners DEF Next
-----------------------------------------------------------------------------
(***************************************************************************)
(* The orders of a load run, and its prepare().                            *)
(***************************************************************************)
NoRowsOf(h, sender) == \A k \in DOMAIN h.turn : h.turn[k] # Row(sender)

LEMMA QueuedRows ==
  ASSUME NEW h, NEW g, NEW next, Queued(h, next, g), NEW sender, next # Row(sender),
         NoRowsOf(h, sender)
  PROVE  NoRowsOf(g, sender)
<1>1. \A k \in DOMAIN g.turn : k \in DOMAIN h.turn \/ k = Len(h.turn) + 1
  BY DEF Queued
<1> QED
  BY <1>1 DEF Queued, NoRowsOf

LEMMA ClosedRows ==
  ASSUME StateOK, HistoryOK, NEW sender, NoRowsOf(history, sender)
  PROVE  NoRowsOf(closed(history), sender)
<1>1. CloseOf(runId, counters - opened) # Row(sender)
  BY DEF CloseOf, Row
<1> QED
  BY <1>1, ClosedIs, QueuedRows

LEMMA LoadIs ==
  ASSUME StateOK
  PROVE  /\ load.fired \in Nat /\ load.sent \in Nat /\ load.phase \in Phases
         /\ calls \in Calls
         /\ calls.out["load"] \in Nat /\ calls.retrying["load"] \in Nat
         /\ calls.out["loop"] \in Nat /\ calls.retrying["loop"] \in Nat
  BY LoopAssumption DEF StateOK, Calls

LEMMA LoadExcept ==
  ASSUME StateOK
  PROVE  /\ \A phase : /\ [load EXCEPT !.phase = phase].phase = phase
                       /\ [load EXCEPT !.phase = phase].run = load.run
                       /\ [load EXCEPT !.phase = phase].fired = load.fired
                       /\ [load EXCEPT !.phase = phase].sent = load.sent
         /\ \A n : /\ [load EXCEPT !.fired = n].fired = n
                   /\ [load EXCEPT !.fired = n].phase = load.phase
                   /\ [load EXCEPT !.fired = n].run = load.run
                   /\ [load EXCEPT !.fired = n].sent = load.sent
         /\ \A n : /\ [load EXCEPT !.sent = n].sent = n
                   /\ [load EXCEPT !.sent = n].phase = load.phase
                   /\ [load EXCEPT !.sent = n].run = load.run
                   /\ [load EXCEPT !.sent = n].fired = load.fired
  BY DEF StateOK

(* No order is in flight once all are counted.                             *)
LEMMA NoneInFlight ==
  ASSUME StateOK, LoadCounts, load.fired = load.sent
  PROVE  calls.out["load"] = 0 /\ calls.retrying["load"] = 0
<1>1. /\ load.fired = load.sent + calls.out["load"] + calls.retrying["load"]
      /\ load.sent \in Nat /\ calls.out["load"] \in Nat /\ calls.retrying["load"] \in Nat
  BY LoadIs DEF LoadCounts
<1> QED
  BY <1>1

LEMMA EndLoadCounts ==
  ASSUME StateOK, HistoryOK, LoadCounts, EndLoad, UNCHANGED calls,
         load.fired = load.sent, NoRowsOf(history, "load")
  PROVE  LoadCounts'
<1>1. /\ Queued(history, CloseOf(load.run, load.sent), history') /\ load' = NoLoad
  BY EndLoadIs
<1>2. CloseOf(load.run, load.sent) # Row("load")
  BY DEF CloseOf, Row
<1>3. NoRowsOf(history', "load")
  BY <1>1, <1>2, QueuedRows
<1>4. /\ load'.fired = 0 /\ load'.sent = 0 /\ load'.run = Closed /\ load'.phase = "none"
  BY <1>1 DEF NoLoad
<1>5. calls'.out["load"] = 0 /\ calls'.retrying["load"] = 0
  BY NoneInFlight
<1>6. 0 <= LoadOrders
  BY LoopAssumption
<1> QED
  BY <1>3, <1>4, <1>5, <1>6 DEF LoadCounts, NoRowsOf

LEMMA OperateCounts ==
  ASSUME Typed, LoadCounts, Operate
  PROVE  LoadCounts'
<1> USE DEF Typed
<1>1. ASSUME UNCHANGED <<load, calls>>,
             NoRowsOf(history, "load") => NoRowsOf(history', "load")
      PROVE  LoadCounts'
  BY <1>1 DEF LoadCounts, NoRowsOf
<1>2. ASSUME NEW users \in Rosters, start(users) PROVE LoadCounts'
  <2>1. history' = open(closed(history), "loop") /\ UNCHANGED <<load, calls>>
    BY <1>2 DEF start
  <2>2. history'.turn = closed(history).turn
    BY <2>1, ClosedIs, OpenIs, LoopAssumption DEF Opened
  <2>3. NoRowsOf(history, "load") => NoRowsOf(history', "load")
    BY <2>2, ClosedRows DEF NoRowsOf
  <2> QED
    BY <1>1, <2>1, <2>3
<1>3. ASSUME stop PROVE LoadCounts'
  BY <1>1, <1>3, ClosedRows DEF stop, closeWindow
<1>4. ASSUME startLoad PROVE LoadCounts'
  <2>1. /\ load.run = Closed /\ history' = open(history, "load") /\ UNCHANGED calls
        /\ load' = [NoLoad EXCEPT !.run = NextRun(history), !.phase = "marking"]
    BY <1>4 DEF startLoad
  <2>2. /\ load'.fired = 0 /\ load'.sent = 0 /\ load'.phase = "marking"
        /\ load'.run = NextRun(history)
    BY <2>1 DEF NoLoad
  <2>3. NextRun(history) # Closed /\ history'.turn = history.turn
    BY <2>1, OpenIs, LoopAssumption DEF HistoryOK, Opened, Closed
  <2>4. load.phase = "none" /\ load.fired = 0 /\ load.fired = load.sent
    BY <2>1, LoadIs DEF LoadCounts
  <2>5. calls.out["load"] = 0 /\ calls.retrying["load"] = 0
    BY <2>4, NoneInFlight
  <2>6. NoRowsOf(history', "load")
    BY <2>3, <2>4 DEF LoadCounts, NoRowsOf
  <2>7. 0 <= LoadOrders
    BY LoopAssumption
  <2> QED
    BY <2>1, <2>2, <2>3, <2>5, <2>6, <2>7 DEF LoadCounts, NoRowsOf
<1>5. \/ \E users \in Rosters : start(users)
      \/ stop \/ startLoad \/ UNCHANGED <<load, calls, history>>
  BY DEF Operate, configure, reset
<1> QED
  BY <1>1, <1>2, <1>3, <1>4, <1>5

(* prepare() has come to its end.                                          *)
LEMMA ReadCounts ==
  ASSUME Typed, LoadCounts, OnePrepare, Read
  PROVE  LoadCounts'
<1> USE DEF Typed
<1>1. PICK op \in waiting, user \in UNION (Rosters \cup {DefaultUsers, LoadUsers}),
           ok \in BOOLEAN : seedUser(op, user, ok)
  BY DEF Read
<1>2. UNCHANGED calls /\ (Resumed(op) \/ PartlyRead(op))
  BY <1>1, SeedUserIs DEF StateOK
<1>3. \/ UNCHANGED <<load, history>>
      \/ history' = closed(history) /\ UNCHANGED load
      \/ /\ op.op = "prepare"
         /\ \/ /\ load.phase = "preparing" /\ load' = [load EXCEPT !.phase = "placing"]
               /\ UNCHANGED history
            \/ load.phase # "preparing" /\ EndLoad
  BY <1>2 DEF Resumed, PartlyRead, Resumes, startResumes, closeWindow,
     configureResumes, resetResumes, prepareResumes
<1>4. CASE UNCHANGED <<load, history>>
  BY <1>2, <1>4 DEF LoadCounts
<1>5. CASE history' = closed(history) /\ UNCHANGED load
  <2>1. NoRowsOf(history, "load") => NoRowsOf(history', "load")
    BY <1>5, ClosedRows
  <2> QED
    BY <1>2, <1>5, <2>1 DEF LoadCounts, NoRowsOf
<1>6. CASE /\ load.phase = "preparing" /\ load' = [load EXCEPT !.phase = "placing"]
           /\ UNCHANGED history
  BY <1>2, <1>6, LoadExcept DEF LoadCounts
<1>7. CASE op.op = "prepare" /\ load.phase # "preparing" /\ EndLoad
  <2>1. load.phase = "judged"
    BY <1>7 DEF OnePrepare
  <2>2. load.fired = load.sent /\ NoRowsOf(history, "load")
    BY <2>1 DEF LoadCounts, NoRowsOf
  <2> QED
    BY <1>2, <1>7, <2>2, EndLoadCounts
<1> QED
  BY <1>3, <1>4, <1>5, <1>6, <1>7

LEMMA PlacedIs ==
  ASSUME StateOK, LoadCounts, Placed
  PROVE  load.fired = load.sent /\ NoRowsOf(history, "load")
<1>1. load.fired = load.sent
  BY LoadIs, LoopAssumption DEF Placed, LoadCounts
<1>2. NoRowsOf(history, "load")
  BY DEF Placed, NoRowsOf, Row
<1> QED
  BY <1>1, <1>2

LEMMA ExecuteCounts ==
  ASSUME Typed, LoadCounts, Execute
  PROVE  LoadCounts'
<1> USE DEF Typed
<1>1. ASSUME highWaterMark PROVE LoadCounts'
  BY <1>1, LoadExcept DEF highWaterMark, LoadCounts
<1>2. ASSUME check PROVE LoadCounts'
  <2>1. /\ load' = [load EXCEPT !.phase = "judged"] /\ UNCHANGED <<calls, history>>
        /\ load.phase = "placing"
    BY <1>2 DEF check, Placed
  <2>2. load.fired = load.sent /\ NoRowsOf(history, "load")
    BY <1>2, PlacedIs DEF check
  <2> QED
    BY <2>1, <2>2, LoadExcept DEF LoadCounts, NoRowsOf
<1>3. ASSUME fire PROVE LoadCounts'
  <2>1. /\ load.phase = "placing" /\ load.fired < LoadOrders /\ UNCHANGED history
        /\ load' = [load EXCEPT !.fired = load.fired + 1]
        /\ calls' = [calls EXCEPT !.out["load"] = @ + 1]
    BY <1>3 DEF fire
  <2>2. /\ calls'.out["load"] = calls.out["load"] + 1
        /\ calls'.retrying["load"] = calls.retrying["load"]
    BY <2>1, LoadIs, LoopAssumption DEF Calls
  <2>3. load.fired + 1 <= LoadOrders
    BY <2>1, LoadIs, LoopAssumption
  <2>4. /\ load'.fired = load.fired + 1 /\ load'.sent = load.sent
        /\ load'.phase = "placing" /\ load'.run = load.run
    BY <2>1, LoadExcept
  <2> QED
    BY <2>1, <2>2, <2>3, <2>4, LoadIs DEF LoadCounts
<1>4. ASSUME fail PROVE LoadCounts'
  <2>1. EndLoad /\ UNCHANGED calls /\ (load.phase = "marking" \/ Placed)
    BY <1>4 DEF fail
  <2>2. load.fired = load.sent /\ NoRowsOf(history, "load")
    <3>1. CASE load.phase = "marking"
      BY <3>1, LoadIs DEF LoadCounts, NoRowsOf
    <3> QED
      BY <2>1, <3>1, PlacedIs
  <2> QED
    BY <2>1, <2>2, EndLoadCounts
<1> QED
  BY <1>1, <1>2, <1>3, <1>4 DEF Execute

(* What an order in flight becomes.                                        *)
Recorded(sender) == calls.out[sender] > 0 /\ history' = tapped(history, sender)

LEMMA CallsAre ==
  ASSUME Typed, NEW sender \in Senders,
         tick \/ answer(sender) \/ drop(sender) \/ probe(sender)
  PROVE  \/ /\ tick /\ UNCHANGED <<load, history, counters>>
            /\ \A s \in Senders : calls'.retrying[s] = calls.retrying[s]
            /\ calls'.out["load"] = calls.out["load"]
         \/ /\ answer(sender) /\ Recorded(sender) /\ count(sender)
            /\ \A s \in Senders :
                 /\ calls'.out[s] = calls.out[s] - IF s = sender THEN 1 ELSE 0
                 /\ calls'.retrying[s] = calls.retrying[s]
         \/ /\ drop(sender) /\ Recorded(sender) /\ UNCHANGED <<load, counters>>
            /\ \A s \in Senders :
                 /\ calls'.out[s] = calls.out[s] - IF s = sender THEN 1 ELSE 0
                 /\ calls'.retrying[s] = calls.retrying[s] + IF s = sender THEN 1 ELSE 0
         \/ /\ probe(sender) /\ UNCHANGED history /\ count(sender)
            /\ calls.retrying[sender] > 0
            /\ \A s \in Senders :
                 /\ calls'.out[s] = calls.out[s]
                 /\ calls'.retrying[s] = calls.retrying[s] - IF s = sender THEN 1 ELSE 0
<1>1. calls \in Calls /\ Senders = {"loop", "load"}
  BY LoopAssumption DEF Typed, StateOK, Calls
<1>2. \A s \in Senders : calls.out[s] \in Nat /\ calls.retrying[s] \in Nat
  BY <1>1 DEF Calls
<1>3. CASE tick
  BY <1>1, <1>2, <1>3 DEF tick, Calls
<1>4. CASE answer(sender)
  BY <1>1, <1>2, <1>4 DEF answer, Calls, Recorded
<1>5. CASE drop(sender)
  BY <1>1, <1>2, <1>5 DEF drop, Calls, Recorded
<1>6. CASE probe(sender)
  BY <1>1, <1>2, <1>6 DEF probe, Calls
<1> QED
  BY <1>3, <1>4, <1>5, <1>6
LEMMA CallCounts ==
  ASSUME Typed, LoadCounts, NEW sender \in Senders,
         tick \/ answer(sender) \/ drop(sender) \/ probe(sender)
  PROVE  LoadCounts'
<1> USE DEF Typed
<1>1. "load" \in Senders /\ "loop" \in Senders /\ Senders = {"loop", "load"}
  BY LoopAssumption
<1>2. /\ load.fired \in Nat /\ load.sent \in Nat
      /\ calls.out["load"] \in Nat /\ calls.retrying["load"] \in Nat
      /\ load.fired = load.sent + calls.out["load"] + calls.retrying["load"]
  BY LoadIs DEF LoadCounts
<1>3. ASSUME sender = "load", calls.out["load"] > 0 \/ calls.retrying["load"] > 0
      PROVE  load.phase = "placing"
  <2>1. load.fired # 0 /\ load.fired # load.sent
    BY <1>2, <1>3
  <2> QED
    BY <2>1, LoadIs DEF LoadCounts, Phases
<1>4. ASSUME Recorded(sender)
      PROVE  load.phase # "placing" => NoRowsOf(history', "load")
  <2> SUFFICES ASSUME load.phase # "placing" PROVE NoRowsOf(history', "load")
    OBVIOUS
  <2>1. sender # "load"
    BY <1>3, <1>4 DEF Recorded
  <2>2. Queued(history, Row(sender), history') /\ Row(sender) # Row("load")
    BY <1>4, <2>1, TappedIs DEF Recorded, HistoryOK, Row
  <2>3. NoRowsOf(history, "load")
    BY DEF LoadCounts, NoRowsOf
  <2> QED
    BY <2>2, <2>3, QueuedRows
<1>5. ASSUME count(sender)
      PROVE  /\ load'.run = load.run /\ load'.phase = load.phase /\ load'.fired = load.fired
             /\ load'.sent = load.sent + IF sender = "load" THEN 1 ELSE 0
  <2>1. CASE sender = "loop"
    BY <1>2, <1>5, <2>1 DEF count
  <2>2. CASE sender = "load"
    <3>1. load' = [load EXCEPT !.sent = load.sent + 1]
      BY <1>5, <2>2 DEF count
    <3> QED
      BY <2>2, <3>1, LoadExcept
  <2> QED
    BY <1>1, <2>1, <2>2
<1>6. CASE tick /\ UNCHANGED <<load, history, counters>>
           /\ (\A s \in Senders : calls'.retrying[s] = calls.retrying[s])
           /\ calls'.out["load"] = calls.out["load"]
  BY <1>1, <1>6 DEF LoadCounts
<1>7. CASE /\ answer(sender) /\ Recorded(sender) /\ count(sender)
           /\ \A s \in Senders :
                /\ calls'.out[s] = calls.out[s] - IF s = sender THEN 1 ELSE 0
                /\ calls'.retrying[s] = calls.retrying[s]
  <2>1. /\ calls'.out["load"] = calls.out["load"] - IF "load" = sender THEN 1 ELSE 0
        /\ calls'.retrying["load"] = calls.retrying["load"]
    BY <1>1, <1>7
  <2>2. load.fired = load'.sent + calls'.out["load"] + calls'.retrying["load"]
    BY <1>2, <1>5, <1>7, <2>1
  <2>3. load.phase = "judged" => load.fired = load'.sent
    <3> SUFFICES ASSUME load.phase = "judged" PROVE load.fired = load'.sent
      OBVIOUS
    <3>1. sender # "load" /\ load.fired = load.sent
      BY <1>3, <1>7 DEF Recorded, LoadCounts
    <3> QED
      BY <1>2, <1>5, <1>7, <3>1
  <2> QED
    BY <1>4, <1>5, <1>7, <2>2, <2>3 DEF LoadCounts, NoRowsOf
<1>8. CASE /\ drop(sender) /\ Recorded(sender) /\ UNCHANGED <<load, counters>>
           /\ \A s \in Senders :
                /\ calls'.out[s] = calls.out[s] - IF s = sender THEN 1 ELSE 0
                /\ calls'.retrying[s] = calls.retrying[s] + IF s = sender THEN 1 ELSE 0
  <2>1. /\ calls'.out["load"] = calls.out["load"] - IF "load" = sender THEN 1 ELSE 0
        /\ calls'.retrying["load"]
             = calls.retrying["load"] + IF "load" = sender THEN 1 ELSE 0
    BY <1>1, <1>8
  <2>2. load.fired = load.sent + calls'.out["load"] + calls'.retrying["load"]
    BY <1>2, <2>1
  <2> QED
    BY <1>4, <1>8, <2>2 DEF LoadCounts, NoRowsOf
<1>9. CASE /\ probe(sender) /\ UNCHANGED history /\ count(sender)
           /\ calls.retrying[sender] > 0
           /\ \A s \in Senders :
                /\ calls'.out[s] = calls.out[s]
                /\ calls'.retrying[s] = calls.retrying[s] - IF s = sender THEN 1 ELSE 0
  <2>1. /\ calls'.out["load"] = calls.out["load"]
        /\ calls'.retrying["load"]
             = calls.retrying["load"] - IF "load" = sender THEN 1 ELSE 0
    BY <1>1, <1>9
  <2>2. load.fired = load'.sent + calls'.out["load"] + calls'.retrying["load"]
    BY <1>2, <1>5, <1>9, <2>1
  <2>3. load.phase = "judged" => load.fired = load'.sent
    <3> SUFFICES ASSUME load.phase = "judged" PROVE load.fired = load'.sent
      OBVIOUS
    <3>1. sender # "load" /\ load.fired = load.sent
      BY <1>3, <1>9 DEF LoadCounts
    <3> QED
      BY <1>2, <1>5, <1>9, <3>1
  <2> QED
    BY <1>5, <1>9, <2>2, <2>3 DEF LoadCounts
<1> QED
  BY <1>6, <1>7, <1>8, <1>9, CallsAre

LEMMA NextKeepsLoadCounts ==
  ASSUME Typed, EndedIsClosed, LoadCounts, OnePrepare, Next
  PROVE  LoadCounts'
<1> USE DEF Typed
<1>1. ASSUME turn PROVE LoadCounts'
  <2>1. history'.turn = <<>>
    BY <1>1, TurnFits DEF turn, HistoryOK
  <2> QED
    BY <1>1, <2>1 DEF turn, LoadCounts
<1>2. ASSUME NEW run \in DOMAIN history.files, diskFails(run) PROVE LoadCounts'
  <2>1. run \in Nat
    BY DEF HistoryOK, Fits, Histories
  <2>2. history'.turn = history.turn
    BY <1>2, <2>1, DisownIs DEF diskFails, HistoryOK, EndedIsClosed, Disowned
  <2> QED
    BY <1>2, <2>2 DEF diskFails, LoadCounts
<1>3. ASSUME onModuleDestroy PROVE LoadCounts'
  <2>1. history'.turn = history.turn
    BY <1>3, DestroyedIs DEF onModuleDestroy, HistoryOK, Destroyed
  <2> QED
    BY <1>3, <2>1 DEF onModuleDestroy, LoadCounts
<1>4. ASSUME tick \/ Answer \/ (\E sender \in Senders : drop(sender)) PROVE LoadCounts'
  BY <1>4, CallCounts, LoopAssumption DEF Answer
<1> QED
  BY <1>1, <1>2, <1>3, <1>4, OperateCounts, ReadCounts, ExecuteCounts DEF Next

(***************************************************************************)
(* A load run prepares when it has read its mark and when it has judged,   *)
(* and waits for it.                                                       *)
(***************************************************************************)
LEMMA NextKeepsOnePrepare ==
  ASSUME Typed, LoadCounts, OnePrepare, Next
  PROVE  OnePrepare'
<1> USE DEF Typed
<1>1. /\ WaitingOK /\ generation \in Nat /\ config.users # {}
      /\ config.users \subseteq UNION (Rosters \cup {DefaultUsers, LoadUsers})
      /\ LoadUsers \subseteq UNION (Rosters \cup {DefaultUsers, LoadUsers})
  BY SomeUsers DEF StateOK
<1>2. ASSUME UNCHANGED waiting, load'.phase = load.phase PROVE OnePrepare'
  BY <1>2 DEF OnePrepare
<1>3. ASSUME NEW op, waiting' = waiting \cup {op}, op.op # "prepare", load'.phase = load.phase
      PROVE  OnePrepare'
  BY <1>3 DEF OnePrepare
<1>4. ASSUME Operate PROVE OnePrepare'
  <2>1. ASSUME NEW users \in Rosters, start(users) PROVE OnePrepare'
    <3>1. [users |-> users, running |-> FALSE] \in Configs
      BY DEF Configs
    <3>2. \E op : waiting' = waiting \cup {op} /\ op.op = "start"
      BY <1>1, <2>1, <3>1, AwaitIs, SomeUsers DEF start, Operations
    <3> QED
      BY <1>3, <2>1, <3>2 DEF start
  <2>2. ASSUME NEW users \in Rosters, configure(users) PROVE OnePrepare'
    <3>1. CASE users # config.users
      <4>1. [config EXCEPT !.users = users] \in Configs
        BY DEF StateOK, Configs
      <4>2. \E op : waiting' = waiting \cup {op} /\ op.op = "configure"
        BY <1>1, <2>2, <3>1, <4>1, AwaitIs, SomeUsers DEF configure, Operations
      <4> QED
        BY <1>3, <2>2, <4>2 DEF configure
    <3>2. CASE users = config.users
      BY <1>2, <2>2, <3>2 DEF configure, shadow
    <3> QED
      BY <3>1, <3>2
  <2>3. ASSUME reset PROVE OnePrepare'
    <3>1. "reset" \in Operations /\ "reset" \notin {"start", "configure"}
      BY DEF Operations
    <3>2. \E op : waiting' = waiting \cup {op} /\ op.op = "reset"
      BY <1>1, <2>3, <3>1, AwaitIs DEF reset
    <3> QED
      BY <1>3, <2>3, <3>2 DEF reset
  <2>4. ASSUME stop PROVE OnePrepare'
    BY <1>2, <2>4 DEF stop, shadow
  <2>5. ASSUME startLoad PROVE OnePrepare'
    <3>1. load.phase = "none" /\ load'.phase = "marking" /\ UNCHANGED waiting
      BY <2>5 DEF startLoad, LoadCounts, NoLoad, shadow
    <3> QED
      BY <3>1 DEF OnePrepare
  <2>6. CASE \E users \in Rosters : start(users) \/ configure(users)
    <3>1. PICK users \in Rosters : start(users) \/ configure(users)
      BY <2>6
    <3> QED
      BY <2>1, <2>2, <3>1
  <2> QED
    BY <1>4, <2>3, <2>4, <2>5, <2>6 DEF Operate
<1>5. ASSUME Read PROVE OnePrepare'
  <2>1. PICK op \in waiting, user \in UNION (Rosters \cup {DefaultUsers, LoadUsers}),
             ok \in BOOLEAN : seedUser(op, user, ok)
    BY <1>5 DEF Read
  <2>2. Resumed(op) \/ PartlyRead(op)
    BY <2>1, SeedUserIs DEF StateOK
  <2>3. CASE PartlyRead(op)
    <3>1. PICK read : /\ read.op = op.op /\ waiting' = (waiting \ {op}) \cup {read}
                      /\ UNCHANGED load
      BY <2>3 DEF PartlyRead
    <3> QED
      BY <3>1 DEF OnePrepare
  <2>4. CASE Resumed(op)
    <3>1. /\ waiting' = waiting \ {op}
          /\ \/ op.op # "prepare" /\ UNCHANGED load
             \/ /\ op.op = "prepare"
                /\ load' = [load EXCEPT !.phase = "placing"] \/ load' = NoLoad
      BY <2>4 DEF Resumed, Resumes, startResumes, closeWindow, configureResumes,
         resetResumes, prepareResumes, EndLoad
    <3>2. CASE op.op # "prepare" /\ UNCHANGED load
      BY <3>1, <3>2 DEF OnePrepare
    <3>3. CASE /\ op.op = "prepare"
               /\ load' = [load EXCEPT !.phase = "placing"] \/ load' = NoLoad
      <4>1. load'.phase \in {"placing", "none"}
        BY <3>3 DEF NoLoad, StateOK
      <4> QED
        BY <3>1, <3>3, <4>1 DEF OnePrepare
    <3> QED
      BY <3>1, <3>2, <3>3
  <2> QED
    BY <2>2, <2>3, <2>4
<1>6. ASSUME Execute PROVE OnePrepare'
  <2>1. ASSUME prepare, load.phase \in {"marking", "placing"},
               load'.phase \in {"preparing", "judged"}
        PROVE  OnePrepare'
    <3>1. /\ config.users \cup LoadUsers # {}
          /\ config.users \cup LoadUsers
               \subseteq UNION (Rosters \cup {DefaultUsers, LoadUsers})
          /\ "prepare" \in Operations /\ "prepare" \notin {"start", "configure"}
      BY <1>1 DEF Operations
    <3>2. PICK op : waiting' = waiting \cup {op} /\ op.op = "prepare"
      BY <1>1, <2>1, <3>1, AwaitIs DEF prepare
    <3>3. \A other \in waiting : other.op # "prepare"
      BY <2>1 DEF OnePrepare
    <3> QED
      BY <2>1, <3>2, <3>3 DEF OnePrepare
  <2>2. ASSUME highWaterMark PROVE OnePrepare'
    BY <2>1, <2>2, LoadExcept DEF highWaterMark
  <2>3. ASSUME check PROVE OnePrepare'
    BY <2>1, <2>3, LoadExcept DEF check, Placed
  <2>4. ASSUME fire PROVE OnePrepare'
    BY <1>2, <2>4, LoadExcept DEF fire, shadow
  <2>5. ASSUME fail PROVE OnePrepare'
    <3>1. load.phase \in {"marking", "placing"} /\ load'.phase = "none" /\ UNCHANGED waiting
      BY <2>5 DEF fail, Placed, EndLoad, NoLoad, shadow
    <3> QED
      BY <3>1 DEF OnePrepare
  <2> QED
    BY <1>6, <2>2, <2>3, <2>4, <2>5 DEF Execute
<1>7. ASSUME tick \/ Answer \/ (\E sender \in Senders : drop(sender)) PROVE OnePrepare'
  <2>1. /\ UNCHANGED waiting
        /\ UNCHANGED load \/ load' = [load EXCEPT !.sent = load.sent + 1]
    BY <1>7 DEF tick, Answer, answer, probe, drop, count, shadow
  <2>2. load'.phase = load.phase
    BY <2>1 DEF StateOK
  <2> QED
    BY <1>2, <2>1, <2>2
<1>8. ASSUME turn \/ (\E run \in DOMAIN history.files : diskFails(run)) \/ onModuleDestroy
      PROVE  OnePrepare'
  BY <1>2, <1>8 DEF turn, diskFails, onModuleDestroy, shadow
<1> QED
  BY <1>4, <1>5, <1>6, <1>7, <1>8 DEF Next
-----------------------------------------------------------------------------
(***************************************************************************)
(* What the windows say of the orders of their time, as the runs on disk   *)
(* change.                                                                 *)
(***************************************************************************)
LEMMA FitsIs ==
  ASSUME NEW h, Fits(h)
  PROVE  /\ h \in Histories /\ Len(h.turn) \in Nat /\ DOMAIN h.turn = 1 .. Len(h.turn)
         /\ Len(h.files) \in Nat /\ DOMAIN h.files = 1 .. Len(h.files)
         /\ h.running \subseteq DOMAIN h.files /\ Closed \notin DOMAIN h.files
         /\ \A run \in DOMAIN h.files :
              /\ h.files[run].mode \in Senders
              /\ \A s \in Senders : h.files[run].rows[s] \in Nat
<1>1. \A run \in DOMAIN h.files : h.files[run] \in Files
  BY FilesAre DEF Fits
<1>2. \A run \in DOMAIN h.files :
        /\ h.files[run].mode \in Senders
        /\ \A s \in Senders : h.files[run].rows[s] \in Nat
  BY <1>1 DEF Files
<1> QED
  BY <1>2 DEF Fits, Histories, Closed

LEMMA QueuedLine ==
  ASSUME NEW h, Fits(h), NEW next, NEW g, Queued(h, next, g), NEW sender
  PROVE  /\ \A k \in 0 .. Len(h.turn) :
              RowsOf(g.turn, sender, k) = RowsOf(h.turn, sender, k)
         /\ RowsOf(h.turn, sender, Len(h.turn)) \in Nat
         /\ RowsOf(g.turn, sender, Len(g.turn))
              = RowsOf(h.turn, sender, Len(h.turn)) + IF next = Row(sender) THEN 1 ELSE 0
<1>1. /\ Len(h.turn) \in Nat /\ Len(g.turn) = Len(h.turn) + 1
      /\ \A k \in 1 .. Len(h.turn) : g.turn[k] = h.turn[k]
      /\ g.turn[Len(h.turn) + 1] = next
  BY DEF Queued
<1>2. ASSUME NEW k \in 0 .. Len(h.turn)
      PROVE  RowsOf(g.turn, sender, k) = RowsOf(h.turn, sender, k)
  <2>1. \A j \in 1 .. k : g.turn[j] = h.turn[j]
    BY <1>1
  <2> QED
    BY <2>1, RowsAlike
<1>3. RowsOf(h.turn, sender, Len(h.turn)) \in Nat
  BY <1>1, RowsCounted
<1>4. RowsOf(g.turn, sender, Len(h.turn)) = RowsOf(h.turn, sender, Len(h.turn))
  <2>1. Len(h.turn) \in 0 .. Len(h.turn)
    BY <1>1
  <2> QED
    BY <1>2, <2>1
<1>5. RowsOf(g.turn, sender, Len(h.turn) + 1)
        = RowsOf(g.turn, sender, Len(h.turn)) + IF next = Row(sender) THEN 1 ELSE 0
  BY <1>1, RowsCounted
<1> QED
  BY <1>1, <1>2, <1>3, <1>4, <1>5

LEMMA QueuedMatches ==
  ASSUME NEW h, Fits(h), NEW next, NEW g, Queued(h, next, g), NEW run, NEW mode, NEW n,
         Matches(h, run, mode, n)
  PROVE  Matches(g, run, mode, n + IF next = Row(mode) THEN 1 ELSE 0)
<1> SUFFICES ASSUME run \in h.running
             PROVE  /\ h.files[run].mode = mode
                    /\ h.files[run].rows[mode] + RowsOf(g.turn, mode, Len(g.turn))
                         = n + IF next = Row(mode) THEN 1 ELSE 0
  BY DEF Matches, Queued
<1>1. h.files[run].mode = mode /\ h.files[run].rows[mode] \in Nat
  BY FitsIs DEF Matches
<1>2. h.files[run].rows[mode] + RowsOf(h.turn, mode, Len(h.turn)) = n
  BY DEF Matches
<1> QED
  BY <1>1, <1>2, QueuedLine

(* A row, or the close of a run that has what it says.                     *)
LEMMA QueuedWindows ==
  ASSUME NEW h, Fits(h), NEW next, NEW g, Queued(h, next, g),
         NEW one, NEW n, NEW other, NEW m, NEW muddle,
         WindowsMatch(h, one, n, other, m, muddle),
         \A run \in h.running \ muddle :
           Closes(next, run) => Matches(h, run, h.files[run].mode, next.sent)
  PROVE  WindowsMatch(g, one, n + IF next = Row("loop") THEN 1 ELSE 0,
                      other, m + IF next = Row("load") THEN 1 ELSE 0, muddle)
<1>1. /\ one \notin muddle => Matches(g, one, "loop", n + IF next = Row("loop") THEN 1 ELSE 0)
      /\ other \notin muddle => Matches(g, other, "load", m + IF next = Row("load") THEN 1 ELSE 0)
  BY QueuedMatches DEF WindowsMatch
<1>2. SummariesMatch(g, muddle)
  BY DEF SummariesMatch, WindowsMatch, Queued
<1>3. /\ Len(h.turn) \in Nat /\ DOMAIN h.turn = 1 .. Len(h.turn)
      /\ DOMAIN g.turn = 1 .. (Len(h.turn) + 1)
      /\ g.running = h.running /\ g.files = h.files
      /\ \A k \in 1 .. Len(h.turn) : g.turn[k] = h.turn[k]
      /\ g.turn[Len(h.turn) + 1] = next
  BY DEF Queued
<1>4. ASSUME NEW k \in DOMAIN g.turn, NEW run \in g.running \ muddle,
             Finishes(g.turn, k, run)
      PROVE  g.turn[k].sent
               = g.files[run].rows[g.files[run].mode]
                   + RowsOf(g.turn, g.files[run].mode, k - 1)
  <2> DEFINE mode == h.files[run].mode
  <2>1. RowsOf(g.turn, mode, k - 1) = RowsOf(h.turn, mode, k - 1)
    <3>1. k - 1 \in 0 .. Len(h.turn)
      BY <1>3
    <3> HIDE DEF mode
    <3>2. \A j \in 0 .. Len(h.turn) : RowsOf(g.turn, mode, j) = RowsOf(h.turn, mode, j)
      BY QueuedLine
    <3> QED
      BY <3>1, <3>2
  <2>2. CASE k \in DOMAIN h.turn
    <3>1. g.turn[k] = h.turn[k] /\ \A j \in 1 .. (k - 1) : g.turn[j] = h.turn[j]
      BY <1>3, <2>2
    <3>2. Finishes(h.turn, k, run)
      BY <1>4, <3>1 DEF Finishes
    <3>3. h.turn[k].sent = h.files[run].rows[mode] + RowsOf(h.turn, mode, k - 1)
      BY <1>3, <1>4, <2>2, <3>2 DEF WindowsMatch, ClosingMatches
    <3> QED
      BY <1>3, <2>1, <3>1, <3>3
  <2>3. CASE k \notin DOMAIN h.turn
    <3>1. k = Len(h.turn) + 1 /\ k - 1 = Len(h.turn) /\ g.turn[k] = next
      BY <1>3, <2>3
    <3>2. Matches(h, run, mode, next.sent)
      BY <1>3, <1>4, <3>1 DEF Finishes
    <3> QED
      BY <1>3, <1>4, <2>1, <3>1, <3>2 DEF Matches
  <2> QED
    BY <2>2, <2>3
<1>5. ClosingMatches(g, muddle)
  BY <1>4 DEF ClosingMatches
<1> QED
  BY <1>1, <1>2, <1>5 DEF WindowsMatch

LEMMA MuddledWindows ==
  ASSUME NEW h, NEW one, NEW n, NEW other, NEW m, NEW muddle, NEW more, muddle \subseteq more,
         WindowsMatch(h, one, n, other, m, muddle)
  PROVE  WindowsMatch(h, one, n, other, m, more)
  BY DEF WindowsMatch, ClosingMatches, SummariesMatch

LEMMA OpenedWindows ==
  ASSUME NEW h, Fits(h), NEW mode \in Senders, NEW g, Opened(h, mode, g),
         NEW one \in {Closed} \cup DOMAIN h.files, NEW n,
         NEW other \in {Closed} \cup DOMAIN h.files, NEW m, NEW muddle,
         WindowsMatch(h, one, n, other, m, muddle)
  PROVE  /\ WindowsMatch(g, one, n, other, m, muddle)
         /\ Matches(g, NextRun(h), mode, RowsOf(h.turn, mode, Len(h.turn)))
<1> DEFINE new == NextRun(h)
<1>1. /\ new \notin DOMAIN h.files /\ new # Closed
      /\ DOMAIN g.files = DOMAIN h.files \cup {new}
      /\ g.running = h.running \cup {new} /\ g.disowned = h.disowned /\ g.turn = h.turn
      /\ g.files[new] = NewFile(mode) /\ new = Len(h.files) + 1
      /\ \A run \in DOMAIN h.files : g.files[run] = h.files[run]
  BY DEF Opened, Closed
<1>2. /\ NewFile(mode).mode = mode /\ NewFile(mode).rows[mode] = 0
      /\ ~ NewFile(mode).summary.given
  BY DEF NewFile, NoSummary
<1> HIDE DEF new
<1>3. /\ h.running \subseteq DOMAIN h.files /\ Closed \notin DOMAIN h.files
      /\ one # new /\ other # new
      /\ RowsOf(h.turn, mode, Len(h.turn)) \in Nat
  BY <1>1, FitsIs, RowsCounted
<1>4. \A run, s, i : run # new /\ Matches(h, run, s, i) => Matches(g, run, s, i)
  BY <1>1, <1>3 DEF Matches
<1>5. Matches(g, new, mode, RowsOf(h.turn, mode, Len(h.turn)))
  BY <1>1, <1>2, <1>3 DEF Matches
<1>6. ~ \E k \in DOMAIN h.turn : Closes(h.turn[k], new)
  <2>1. new \notin 0 .. Len(h.files) /\ Len(h.files) \in Nat
    BY <1>1, FitsIs
  <2> QED
    BY <2>1 DEF Fits, Closes
<1>7. ClosingMatches(g, muddle)
  <2>1. \A k \in DOMAIN g.turn, run \in g.running :
          Finishes(g.turn, k, run) => run \in h.running /\ g.files[run] = h.files[run]
    BY <1>1, <1>3, <1>6 DEF Finishes
  <2> QED
    BY <1>1, <2>1 DEF WindowsMatch, ClosingMatches
<1>8. SummariesMatch(g, muddle)
  BY <1>1, <1>2 DEF WindowsMatch, SummariesMatch
<1> QED
  BY <1>3, <1>4, <1>5, <1>7, <1>8 DEF WindowsMatch, new

(* A turn gives an open run the rows of the line, and a summary to one it  *)
(* ends, with the rows that came before.                                   *)
LEMMA TurnedWindows ==
  ASSUME NEW h, Fits(h), NEW g, Fits(g), g.turn = <<>>, TurnedTo(h, g, Len(h.turn)),
         \A run \in h.running : ~ h.files[run].summary.given,
         NEW one, NEW n, NEW other, NEW m, NEW muddle,
         WindowsMatch(h, one, n, other, m, muddle)
  PROVE  WindowsMatch(g, one, n, other, m, muddle)
<1>1. /\ [h EXCEPT !.turn = <<>>].files = h.files
      /\ [h EXCEPT !.turn = <<>>].disowned = h.disowned
  BY DEF Fits, Histories
<1>2. /\ g.disowned = h.disowned /\ DOMAIN g.files = DOMAIN h.files
      /\ \A run \in DOMAIN h.files : g.files[run].mode = h.files[run].mode
      /\ g.running \subseteq h.running
      /\ \A run \in DOMAIN h.files :
           /\ run \notin h.running => g.files[run] = h.files[run]
           /\ run \in g.running => StillOpen(h, g, Len(h.turn), run)
           /\ run \in h.running \ g.running =>
                \E k \in 1 .. Len(h.turn) : EndedBy(h, g, k, run)
  BY <1>1 DEF TurnedTo, SameRuns
<1>3. /\ h.running \subseteq DOMAIN h.files /\ DOMAIN h.turn = 1 .. Len(h.turn)
      /\ Len(h.turn) \in Nat
      /\ \A run \in DOMAIN h.files : h.files[run].mode \in Senders
      /\ \A run \in DOMAIN g.files : \A s \in Senders : g.files[run].rows[s] \in Nat
  BY FitsIs
<1>4. Len(g.turn) = 0 /\ \A s : RowsOf(g.turn, s, 0) = 0
  BY RowsCounted
<1>5. ASSUME NEW run, NEW mode \in Senders, NEW i, Matches(h, run, mode, i)
      PROVE  Matches(g, run, mode, i)
  <2> SUFFICES ASSUME run \in g.running
               PROVE  g.files[run].mode = mode /\ g.files[run].rows[mode] + 0 = i
    BY <1>4 DEF Matches
  <2>1. run \in h.running /\ run \in DOMAIN h.files /\ StillOpen(h, g, Len(h.turn), run)
    BY <1>2, <1>3
  <2>2. /\ h.files[run].mode = mode
        /\ h.files[run].rows[mode] + RowsOf(h.turn, mode, Len(h.turn)) = i
    BY <1>5, <2>1 DEF Matches
  <2>3. g.files[run].rows[mode]
          = h.files[run].rows[mode] + RowsOf(h.turn, mode, Len(h.turn))
    BY <2>1 DEF StillOpen
  <2> QED
    BY <1>2, <1>3, <2>1, <2>2, <2>3
<1>6. ClosingMatches(g, muddle)
  BY <1>4 DEF ClosingMatches
<1>7. ASSUME NEW run \in DOMAIN g.files \ (g.disowned \cup muddle), g.files[run].summary.given
      PROVE  g.files[run].summary.sent = g.files[run].rows[g.files[run].mode]
  <2>1. CASE run \notin h.running
    BY <1>2, <1>7, <2>1 DEF WindowsMatch, SummariesMatch
  <2>2. CASE run \in g.running
    <3>1. g.files[run].summary = h.files[run].summary /\ run \in h.running
      BY <1>2, <2>2 DEF StillOpen
    <3> QED
      BY <1>7, <3>1
  <2>3. CASE run \in h.running \ g.running
    <3>1. PICK k \in 1 .. Len(h.turn) : EndedBy(h, g, k, run)
      BY <1>2, <2>3
    <3> DEFINE mode == h.files[run].mode
    <3>2. h.turn[k].sent = h.files[run].rows[mode] + RowsOf(h.turn, mode, k - 1)
      BY <1>3, <1>7, <2>3, <3>1 DEF WindowsMatch, ClosingMatches, EndedBy
    <3>3. mode \in Senders /\ g.files[run].mode = mode
      BY <1>2, <1>3, <2>3
    <3>4. /\ g.files[run].rows[mode] = h.files[run].rows[mode] + RowsOf(h.turn, mode, k - 1)
          /\ g.files[run].summary.sent = h.turn[k].sent
      BY <3>1, <3>3 DEF EndedBy
    <3> QED
      BY <3>2, <3>3, <3>4
  <2> QED
    BY <2>1, <2>2, <2>3
<1>8. SummariesMatch(g, muddle)
  BY <1>7 DEF SummariesMatch
<1> QED
  BY <1>5, <1>6, <1>8, LoopAssumption DEF WindowsMatch

LEMMA DisownedWindows ==
  ASSUME NEW h, NEW run, NEW g, Disowned(h, run, g),
         NEW one, NEW n, NEW other, NEW m, NEW muddle,
         WindowsMatch(h, one, n, other, m, muddle)
  PROVE  WindowsMatch(g, one, n, other, m, muddle)
  BY DEF WindowsMatch, Matches, ClosingMatches, SummariesMatch, Disowned

LEMMA DestroyedWindows ==
  ASSUME NEW h, NEW g, Destroyed(h, g),
         NEW one, NEW n, NEW other, NEW m, NEW muddle,
         WindowsMatch(h, one, n, other, m, muddle)
  PROVE  WindowsMatch(g, one, n, other, m, muddle)
<1>1. ClosingMatches(g, muddle)
  BY DEF ClosingMatches, Destroyed
<1>2. SummariesMatch(g, muddle)
  BY DEF WindowsMatch, SummariesMatch, Destroyed
<1> QED
  BY <1>1, <1>2 DEF WindowsMatch, Matches, Destroyed
(***************************************************************************)
(* The windows, action by action.  A window is closed with its count, or   *)
(* is muddled; the next one has no rows in line, or is muddled.            *)
(***************************************************************************)
LEMMA ClosedMatches ==
  ASSUME HistoryOK, NEW h, h.running = history.running, NEW mode, NEW n
  PROVE  Matches(h, Closed, mode, n)
  BY FitsIs DEF HistoryOK, Matches

LEMMA ClosedWindows ==
  ASSUME StateOK, HistoryOK, Windows, NEW muddle, muddled \cup Retrying(runId) \subseteq muddle,
         NEW n
  PROVE  WindowsMatch(closed(history), Closed, n, load.run, LoadCount, muddle)
<1>1. WindowsMatch(history, runId, LoopCount, load.run, LoadCount, muddle)
  BY MuddledWindows DEF Windows
<1>2. Fits(history) /\ closed(history).running = history.running
  BY ClosedIs DEF HistoryOK
<1>3. Matches(closed(history), Closed, "loop", n)
  BY <1>2, ClosedMatches
<1>4. CASE runId = Closed
  <2>1. closed(history) = history
    BY <1>4, ClosedIs
  <2> QED
    BY <1>1, <1>3, <2>1 DEF WindowsMatch
<1>5. CASE runId # Closed
  <2> DEFINE next == CloseOf(runId, counters - opened)
  <2>1. Queued(history, next, closed(history))
    BY <1>5, ClosedIs
  <2>2. /\ next # Row("loop") /\ next # Row("load")
        /\ \A run : Closes(next, run) => run = runId
        /\ next.sent = counters - opened
    BY DEF CloseOf, Row, Closes
  <2> HIDE DEF next
  <2>3. ASSUME NEW run \in history.running \ muddle, Closes(next, run)
        PROVE  Matches(history, run, history.files[run].mode, next.sent)
    <3>1. run = runId /\ runId \notin muddle
      BY <2>2, <2>3
    <3>2. Matches(history, runId, "loop", LoopCount)
      BY <1>1, <3>1 DEF WindowsMatch
    <3>3. calls.retrying["loop"] = 0
      <4>1. ~ calls.retrying["loop"] > 0
        BY <1>5, <3>1 DEF Retrying
      <4> QED
        BY <4>1, LoadIs
    <3>4. LoopCount = next.sent
      <4>1. counters - opened \in Int
        BY DEF StateOK
      <4> QED
        BY <2>2, <3>3, <4>1 DEF LoopCount
    <3> QED
      BY <2>3, <3>1, <3>2, <3>4 DEF Matches
  <2> DEFINE i == LoopCount + IF next = Row("loop") THEN 1 ELSE 0
             j == LoadCount + IF next = Row("load") THEN 1 ELSE 0
  <2>4. WindowsMatch(closed(history), runId, i, load.run, j, muddle)
    BY <1>1, <1>2, <2>1, <2>3, QueuedWindows
  <2>5. j = LoadCount
    BY <2>2, LoadIs DEF LoadCount
  <2> QED
    BY <1>3, <2>4, <2>5 DEF WindowsMatch
<1> QED
  BY <1>4, <1>5

LEMMA EndLoadWindows ==
  ASSUME StateOK, HistoryOK, LoadCounts, Windows, EndLoad, load.fired = load.sent,
         UNCHANGED <<runId, opened, counters, calls, muddled>>
  PROVE  Windows'
<1> DEFINE next == CloseOf(load.run, load.sent)
           i == LoopCount + IF next = Row("loop") THEN 1 ELSE 0
           j == LoadCount + IF next = Row("load") THEN 1 ELSE 0
<1>1. /\ Queued(history, next, history') /\ load' = NoLoad
      /\ Fits(history)
  BY EndLoadIs DEF HistoryOK
<1>2. /\ next # Row("loop") /\ next # Row("load")
      /\ \A run : Closes(next, run) => run = load.run
      /\ next.sent = load.sent
  BY DEF CloseOf, Row, Closes
<1> HIDE DEF next
<1>3. LoadCount = load.sent
  BY NoneInFlight, LoadIs DEF LoadCount
<1>4. ASSUME NEW run \in history.running \ muddled, Closes(next, run)
      PROVE  Matches(history, run, history.files[run].mode, next.sent)
  <2>1. run = load.run /\ Matches(history, run, "load", next.sent)
    BY <1>2, <1>3, <1>4 DEF Windows, WindowsMatch
  <2> QED
    BY <1>4, <2>1 DEF Matches
<1>5. WindowsMatch(history', runId, i, load.run, j, muddled)
  BY <1>1, <1>4, QueuedWindows DEF Windows
<1>6. i = LoopCount
  BY <1>2, LoadIs DEF LoopCount, StateOK
<1>7. load'.run = Closed /\ Matches(history', Closed, "load", LoadCount')
  BY <1>1, ClosedMatches DEF NoLoad, Queued
<1>8. LoopCount' = LoopCount
  BY DEF LoopCount
<1> QED
  BY <1>5, <1>6, <1>7, <1>8 DEF Windows, WindowsMatch

LEMMA SameWindows ==
  ASSUME Windows, UNCHANGED <<history, runId, opened, counters, calls, muddled>>,
         load'.run = load.run, load'.sent = load.sent
  PROVE  Windows'
  BY DEF Windows, LoopCount, LoadCount

LEMMA OperateWindows ==
  ASSUME Typed, LoadCounts, Windows, Operate
  PROVE  Windows'
<1> USE DEF Typed
<1>1. ASSUME NEW users \in Rosters, start(users) PROVE Windows'
  <2> DEFINE run == NextRun(history)  h == closed(history)
  <2>1. /\ runId' = run /\ opened' = counters
        /\ history' = open(h, "loop")
        /\ muddled' = muddled \cup Retrying(runId) \cup Straddles(run)
        /\ UNCHANGED <<counters, calls, load>>
    BY <1>1 DEF start
  <2>2. /\ Fits(h) /\ h.files = history.files /\ NextRun(h) = run
        /\ load.run \in {Closed} \cup DOMAIN h.files
    BY ClosedIs DEF NextRun, HistoryOK
  <2>3. WindowsMatch(h, Closed, 0, load.run, LoadCount, muddled')
    BY <2>1, ClosedWindows
  <2>4. run \notin muddled' => RowsOf(h.turn, "loop", Len(h.turn)) = LoopCount'
    <3> SUFFICES ASSUME run \notin muddled'
                 PROVE  RowsOf(h.turn, "loop", Len(h.turn)) = LoopCount'
      OBVIOUS
    <3>1. ~ Straddled
      BY <2>1 DEF Straddles
    <3>2. calls.retrying["loop"] = 0 /\ NoRowsOf(history, "loop")
      BY <3>1, LoadIs DEF Straddled, NoRowsOf, Row
    <3>3. NoRowsOf(h, "loop")
      BY <3>2, ClosedRows
    <3>4. Len(h.turn) \in Nat /\ \A k \in 1 .. Len(h.turn) : h.turn[k] # Row("loop")
      BY <2>2, <3>3, FitsIs DEF NoRowsOf
    <3>5. RowsOf(h.turn, "loop", Len(h.turn)) = 0
      BY <3>4, NoRows
    <3>6. LoopCount' = 0
      BY <2>1, <3>2 DEF LoopCount, StateOK
    <3> QED
      BY <3>5, <3>6
  <2> HIDE DEF h
  <2>5. Opened(h, "loop", history')
    BY <2>1, <2>2, OpenIs, LoopAssumption
  <2>6. /\ WindowsMatch(history', Closed, 0, load.run, LoadCount, muddled')
        /\ Matches(history', run, "loop", RowsOf(h.turn, "loop", Len(h.turn)))
    <3>1. "loop" \in Senders /\ Closed \in {Closed} \cup DOMAIN h.files
      BY LoopAssumption
    <3> QED
      BY <2>2, <2>3, <2>5, <3>1, OpenedWindows
  <2>7. LoadCount' = LoadCount
    BY <2>1 DEF LoadCount
  <2> QED
    BY <2>1, <2>4, <2>6, <2>7 DEF Windows, WindowsMatch
<1>2. ASSUME stop PROVE Windows'
  <2>1. /\ history' = closed(history) /\ runId' = Closed
        /\ muddled' = muddled \cup Retrying(runId) /\ UNCHANGED <<calls, load>>
    BY <1>2 DEF stop, closeWindow
  <2>2. WindowsMatch(closed(history), Closed, LoopCount', load.run, LoadCount, muddled')
    BY <2>1, ClosedWindows
  <2> QED
    BY <2>1, <2>2 DEF Windows, LoadCount
<1>3. ASSUME reset PROVE Windows'
  <2>1. /\ muddled' = muddled \cup ({runId} \ {Closed})
        /\ UNCHANGED <<runId, calls, load, history>>
    BY <1>3 DEF reset
  <2>2. WindowsMatch(history, runId, LoopCount, load.run, LoadCount, muddled')
    BY <2>1, MuddledWindows DEF Windows
  <2>3. Matches(history, Closed, "loop", LoopCount')
    BY ClosedMatches
  <2>4. runId \notin muddled' => runId = Closed
    BY <2>1
  <2> QED
    BY <2>1, <2>2, <2>3, <2>4 DEF Windows, WindowsMatch, LoadCount
<1>4. ASSUME startLoad PROVE Windows'
  <2> DEFINE run == NextRun(history)
  <2>1. /\ load.run = Closed /\ history' = open(history, "load")
        /\ load' = [NoLoad EXCEPT !.run = NextRun(history), !.phase = "marking"]
        /\ UNCHANGED <<runId, opened, counters, calls, muddled>>
    BY <1>4 DEF startLoad, window, bounds
  <2>2. /\ load'.run = run /\ load'.sent = 0 /\ load.phase = "none"
        /\ load.fired = 0 /\ load.fired = load.sent
    BY <2>1, LoadIs DEF NoLoad, LoadCounts
  <2>3. calls.retrying["load"] = 0 /\ NoRowsOf(history, "load")
    BY <2>2, NoneInFlight DEF LoadCounts, NoRowsOf
  <2>4. /\ Opened(history, "load", history') /\ Fits(history)
        /\ {runId, load.run} \subseteq {Closed} \cup DOMAIN history.files
    BY <2>1, OpenIs, LoopAssumption DEF HistoryOK
  <2>5. /\ WindowsMatch(history', runId, LoopCount, load.run, LoadCount, muddled)
        /\ Matches(history', run, "load", RowsOf(history.turn, "load", Len(history.turn)))
    BY <2>4, OpenedWindows, LoopAssumption DEF Windows
  <2>6. RowsOf(history.turn, "load", Len(history.turn)) = 0
    BY <2>3, <2>4, FitsIs, NoRows DEF NoRowsOf
  <2>7. LoadCount' = 0 /\ LoopCount' = LoopCount
    BY <2>1, <2>2, <2>3 DEF LoadCount, LoopCount
  <2> QED
    BY <2>1, <2>2, <2>5, <2>6, <2>7 DEF Windows, WindowsMatch
<1>5. \/ \E users \in Rosters : start(users)
      \/ stop \/ reset \/ startLoad
      \/ UNCHANGED <<history, runId, opened, counters, calls, load, muddled>>
  BY DEF Operate, configure, window
<1> QED
  BY <1>1, <1>2, <1>3, <1>4, <1>5, SameWindows

LEMMA ReadWindows ==
  ASSUME Typed, LoadCounts, OnePrepare, Windows, Read
  PROVE  Windows'
<1> USE DEF Typed
<1>1. PICK op \in waiting, user \in UNION (Rosters \cup {DefaultUsers, LoadUsers}),
           ok \in BOOLEAN : seedUser(op, user, ok)
  BY DEF Read
<1>2. UNCHANGED <<counters, calls>> /\ (Resumed(op) \/ PartlyRead(op))
  BY <1>1, SeedUserIs DEF StateOK
<1>3. \/ /\ UNCHANGED <<history, runId, opened, muddled>>
         /\ UNCHANGED load \/ load' = [load EXCEPT !.phase = "placing"]
      \/ closeWindow /\ UNCHANGED load
      \/ /\ op.op = "prepare" /\ load.phase # "preparing" /\ EndLoad
         /\ UNCHANGED <<runId, opened, muddled>>
  BY <1>2 DEF Resumed, PartlyRead, Resumes, startResumes,
     configureResumes, resetResumes, prepareResumes, window
<1>4. CASE /\ UNCHANGED <<history, runId, opened, muddled>>
           /\ UNCHANGED load \/ load' = [load EXCEPT !.phase = "placing"]
  <2>1. load'.run = load.run /\ load'.sent = load.sent
    BY <1>4 DEF StateOK
  <2> QED
    BY <1>2, <1>4, <2>1, SameWindows
<1>5. CASE closeWindow /\ UNCHANGED load
  <2>1. /\ history' = closed(history) /\ runId' = Closed
        /\ muddled' = muddled \cup Retrying(runId)
    BY <1>5 DEF closeWindow
  <2>2. WindowsMatch(closed(history), Closed, LoopCount', load.run, LoadCount, muddled')
    BY <2>1, ClosedWindows
  <2> QED
    BY <1>2, <1>5, <2>1, <2>2 DEF Windows, LoadCount
<1>6. CASE /\ op.op = "prepare" /\ load.phase # "preparing" /\ EndLoad
           /\ UNCHANGED <<runId, opened, muddled>>
  <2>1. load.phase = "judged"
    BY <1>6 DEF OnePrepare
  <2>2. load.fired = load.sent
    BY <2>1 DEF LoadCounts
  <2> QED
    BY <1>2, <1>6, <2>2, EndLoadWindows
<1> QED
  BY <1>3, <1>4, <1>5, <1>6

LEMMA ExecuteWindows ==
  ASSUME Typed, LoadCounts, Windows, Execute
  PROVE  Windows'
<1> USE DEF Typed
<1>1. ASSUME highWaterMark \/ check PROVE Windows'
  <2>1. /\ UNCHANGED <<history, runId, opened, counters, calls, muddled>>
        /\ \E phase : load' = [load EXCEPT !.phase = phase]
    BY <1>1 DEF highWaterMark, check, window
  <2>2. load'.run = load.run /\ load'.sent = load.sent
    BY <2>1 DEF StateOK
  <2> QED
    BY <2>1, <2>2, SameWindows
<1>2. ASSUME fire PROVE Windows'
  <2>1. /\ UNCHANGED <<history, runId, opened, counters, muddled>>
        /\ load' = [load EXCEPT !.fired = @ + 1]
        /\ calls' = [calls EXCEPT !.out["load"] = @ + 1]
    BY <1>2 DEF fire, window, bounds
  <2>2. load'.run = load.run /\ load'.sent = load.sent /\ calls'.retrying = calls.retrying
    BY <2>1 DEF StateOK
  <2> QED
    BY <2>1, <2>2 DEF Windows, LoopCount, LoadCount
<1>3. ASSUME fail PROVE Windows'
  <2>1. /\ EndLoad
        /\ load.phase = "marking" \/ Placed
        /\ UNCHANGED <<runId, opened, counters, calls, muddled>>
    BY <1>3 DEF fail, window, bounds
  <2>2. load.fired = load.sent
    <3>1. CASE load.phase = "marking"
      BY <3>1, LoadIs DEF LoadCounts
    <3> QED
      BY <2>1, <3>1, PlacedIs
  <2> QED
    BY <2>1, <2>2, EndLoadWindows
<1> QED
  BY <1>1, <1>2, <1>3 DEF Execute

LEMMA CallWindows ==
  ASSUME Typed, Windows, NEW sender \in Senders,
         tick \/ answer(sender) \/ drop(sender) \/ probe(sender)
  PROVE  Windows'
<1> USE DEF Typed
<1> DEFINE one(s) == IF s = sender THEN 1 ELSE 0
<1>1. Senders = {"loop", "load"} /\ UNCHANGED <<runId, opened, muddled>> /\ Fits(history)
  BY LoopAssumption DEF tick, answer, drop, probe, window, bounds, HistoryOK
<1>2. /\ load.sent \in Nat /\ counters \in Nat /\ opened \in Nat
      /\ calls.retrying["loop"] \in Nat /\ calls.retrying["load"] \in Nat
  BY LoadIs DEF StateOK
<1>3. ASSUME count(sender)
      PROVE  /\ load'.run = load.run /\ load'.sent = load.sent + one("load")
             /\ counters' = counters + one("loop")
  <2>1. CASE sender = "loop"
    BY <1>2, <1>3, <2>1 DEF count
  <2>2. CASE sender = "load"
    <3>1. load' = [load EXCEPT !.sent = load.sent + 1] /\ counters' = counters
      BY <1>3, <2>2 DEF count
    <3>2. load'.run = load.run /\ load'.sent = load.sent + 1
      BY <3>1 DEF StateOK
    <3> QED
      BY <1>2, <2>2, <3>1, <3>2
  <2> QED
    BY <1>1, <2>1, <2>2
<1>4. ASSUME history' = tapped(history, sender),
             LoopCount' = LoopCount + one("loop"), LoadCount' = LoadCount + one("load"),
             load'.run = load.run
      PROVE  Windows'
  <2>1. Queued(history, Row(sender), history')
    BY <1>1, <1>4, TappedIs
  <2>2. /\ Row(sender) = Row("loop") <=> "loop" = sender
        /\ Row(sender) = Row("load") <=> "load" = sender
        /\ \A run : ~ Closes(Row(sender), run)
    BY DEF Row, Closes
  <2>3. WindowsMatch(history', runId, LoopCount + IF Row(sender) = Row("loop") THEN 1 ELSE 0,
                     load.run, LoadCount + IF Row(sender) = Row("load") THEN 1 ELSE 0, muddled)
    BY <1>1, <2>1, <2>2, QueuedWindows DEF Windows
  <2> QED
    BY <1>1, <1>4, <2>2, <2>3 DEF Windows
<1>5. ASSUME history' = history, LoopCount' = LoopCount, LoadCount' = LoadCount,
             load'.run = load.run
      PROVE  Windows'
  BY <1>1, <1>5 DEF Windows
<1>6. CASE tick /\ UNCHANGED <<load, history, counters>>
           /\ (\A s \in Senders : calls'.retrying[s] = calls.retrying[s])
  BY <1>1, <1>5, <1>6 DEF LoopCount, LoadCount
<1>7. CASE /\ answer(sender) /\ Recorded(sender) /\ count(sender)
           /\ \A s \in Senders : calls'.retrying[s] = calls.retrying[s]
  <2>1. LoopCount' = LoopCount + one("loop") /\ LoadCount' = LoadCount + one("load")
    BY <1>1, <1>2, <1>3, <1>7 DEF LoopCount, LoadCount
  <2> QED
    BY <1>3, <1>4, <1>7, <2>1 DEF Recorded
<1>8. CASE /\ drop(sender) /\ Recorded(sender) /\ UNCHANGED <<load, counters>>
           /\ \A s \in Senders : calls'.retrying[s] = calls.retrying[s] + one(s)
  <2>1. LoopCount' = LoopCount + one("loop") /\ LoadCount' = LoadCount + one("load")
    BY <1>1, <1>2, <1>8 DEF LoopCount, LoadCount
  <2> QED
    BY <1>4, <1>8, <2>1 DEF Recorded
<1>9. CASE /\ probe(sender) /\ UNCHANGED history /\ count(sender)
           /\ \A s \in Senders : calls'.retrying[s] = calls.retrying[s] - one(s)
  <2>1. LoopCount' = LoopCount /\ LoadCount' = LoadCount
    BY <1>1, <1>2, <1>3, <1>9 DEF LoopCount, LoadCount
  <2> QED
    BY <1>3, <1>5, <1>9, <2>1
<1> QED
  BY <1>6, <1>7, <1>8, <1>9, CallsAre

LEMMA NextKeepsWindows ==
  ASSUME Typed, EndedIsClosed, LoadCounts, OnePrepare, Windows, Next
  PROVE  Windows'
<1> USE DEF Typed
<1>1. Fits(history)
  BY DEF HistoryOK
<1>2. ASSUME WindowsMatch(history', runId, LoopCount, load.run, LoadCount, muddled),
             UNCHANGED <<runId, opened, counters, calls, load, muddled>>
      PROVE  Windows'
  BY <1>2 DEF Windows, LoopCount, LoadCount
<1>3. ASSUME turn PROVE Windows'
  <2>1. /\ Fits(history') /\ history'.turn = <<>>
        /\ TurnedTo(history, history', Len(history.turn))
    BY <1>1, <1>3, TurnFits DEF turn
  <2>2. WindowsMatch(history', runId, LoopCount, load.run, LoadCount, muddled)
    BY <1>1, <2>1, TurnedWindows DEF Windows, EndedIsClosed
  <2> QED
    BY <1>2, <1>3, <2>2 DEF turn, window, bounds
<1>4. ASSUME NEW run \in DOMAIN history.files, diskFails(run) PROVE Windows'
  <2>1. run \in Nat
    BY <1>1 DEF Fits, Histories
  <2>2. Disowned(history, run, history')
    BY <1>1, <1>4, <2>1, DisownIs DEF diskFails, EndedIsClosed
  <2>3. WindowsMatch(history', runId, LoopCount, load.run, LoadCount, muddled)
    BY <2>2, DisownedWindows DEF Windows
  <2> QED
    BY <1>2, <1>4, <2>3 DEF diskFails, window
<1>5. ASSUME onModuleDestroy PROVE Windows'
  <2>1. Destroyed(history, history')
    BY <1>1, <1>5, DestroyedIs DEF onModuleDestroy
  <2>2. WindowsMatch(history', runId, LoopCount, load.run, LoadCount, muddled)
    BY <2>1, DestroyedWindows DEF Windows
  <2> QED
    BY <1>2, <1>5, <2>2 DEF onModuleDestroy, window, bounds
<1>6. ASSUME tick \/ Answer \/ (\E sender \in Senders : drop(sender)) PROVE Windows'
  BY <1>6, CallWindows, LoopAssumption DEF Answer
<1> QED
  BY <1>3, <1>4, <1>5, <1>6, OperateWindows, ReadWindows, ExecuteWindows DEF Next
-----------------------------------------------------------------------------
(***************************************************************************)
(* The invariant, and what it says of every state the loop can reach.      *)
(***************************************************************************)
LEMMA InitLoopInv == Init => LoopInv
<1> SUFFICES ASSUME Init PROVE LoopInv
  OBVIOUS
<1>1. /\ history = emptyHistory /\ waiting = {} /\ runId = Closed /\ opened = 0
      /\ counters = 0 /\ load = NoLoad /\ loadRunning = FALSE /\ lost = 0 /\ timer = FALSE
      /\ generation = 0 /\ config = [users |-> DefaultUsers, running |-> FALSE]
      /\ calls = [out |-> NoCalls, retrying |-> NoCalls]
  BY DEF Init
<1>2. /\ history.running = {} /\ history.disowned = {} /\ history.turn = <<>>
      /\ history.files = <<>> /\ DOMAIN history.turn = {} /\ DOMAIN history.files = {}
      /\ history \in Histories
  <2>1. <<>> \in Seq(Callbacks) /\ <<>> \in Seq(Files)
    OBVIOUS
  <2> QED
    BY <1>1, <2>1 DEF emptyHistory, Histories
<1>3. WaitingOK
  BY <1>1 DEF WaitingOK
<1>4. StateOK
  <2>1. config \in Configs
    BY <1>1 DEF Configs
  <2>2. calls \in [out : [Senders -> Nat], retrying : [Senders -> Nat]]
    BY <1>1 DEF NoCalls
  <2>3. load \in [run : Nat, phase : Phases, fired : Nat, sent : Nat]
    BY <1>1, NoLoadIsLoad DEF Loads
  <2>4. timer \in BOOLEAN
    BY <1>1
  <2>5. lost \in Nat /\ generation \in Nat /\ counters \in Nat /\ opened \in 0 .. counters
    BY <1>1
  <2> QED
    BY <2>1, <2>2, <2>3, <2>4, <2>5 DEF StateOK
<1>5. load.run = Closed /\ load.phase = "none" /\ load.fired = 0 /\ load.sent = 0
  BY <1>1 DEF NoLoad
<1>6. HistoryOK
  BY <1>1, <1>2, <1>5 DEF HistoryOK, Fits
<1>7. OneAtATime /\ LoneOperation
  BY <1>1 DEF OneAtATime, LoneOperation
<1>8. Owned /\ EndedIsClosed
  BY <1>1, <1>2, <1>5 DEF Owned, OwnedBy, EndedIsClosed
<1>9. LoadCounts
  <2>1. calls.out["load"] = 0 /\ calls.retrying["load"] = 0
    BY <1>1, LoopAssumption DEF NoCalls
  <2>2. 0 <= LoadOrders
    BY LoopAssumption
  <2> QED
    BY <1>2, <1>5, <2>1, <2>2 DEF LoadCounts
<1>10. OnePrepare
  BY <1>1, <1>5 DEF OnePrepare
<1>11. Windows
  BY <1>2 DEF Windows, WindowsMatch, Matches, ClosingMatches, SummariesMatch
<1> QED
  BY <1>3, <1>4, <1>6, <1>7, <1>8, <1>9, <1>10, <1>11 DEF LoopInv

LEMMA NextLoopInv == LoopInv /\ [Next]_vars => LoopInv'
<1> SUFFICES ASSUME LoopInv, [Next]_vars PROVE LoopInv'
  OBVIOUS
<1> USE DEF LoopInv
<1>1. CASE Next
  <2>1. Typed /\ EndedIsClosed
    BY DEF Typed
  <2>2. Typed' /\ EndedIsClosed' /\ OneAtATime' /\ LoneOperation'
    BY <1>1, <2>1, NextTypes, NextKeepsEnded, NextKeepsOneAtATime, NextKeepsLoneOperation
  <2>3. Owned' /\ LoadCounts' /\ OnePrepare' /\ Windows'
    BY <1>1, <2>1, NextKeepsOwned, NextKeepsLoadCounts, NextKeepsOnePrepare,
       NextKeepsWindows
  <2> QED
    BY <2>2, <2>3 DEF Typed
<1>2. CASE UNCHANGED vars
  <2>1. /\ UNCHANGED <<config, timer, lost, generation, waiting, runId, opened, counters>>
        /\ UNCHANGED <<calls, load, loadRunning, history, down, mishaps, muddled>>
    BY <1>2 DEF vars, timers, shadow, window, bounds
  <2>2. WaitingOK' /\ StateOK' /\ HistoryOK'
    BY <2>1 DEF WaitingOK, StateOK, HistoryOK
  <2>3. OneAtATime' /\ LoneOperation' /\ Owned' /\ EndedIsClosed'
    BY <2>1 DEF OneAtATime, LoneOperation, Owned, EndedIsClosed
  <2>4. LoadCounts' /\ OnePrepare' /\ Windows'
    BY <2>1 DEF LoadCounts, OnePrepare, Windows, LoopCount, LoadCount
  <2> QED
    BY <2>2, <2>3, <2>4
<1> QED
  BY <1>1, <1>2

THEOREM LoopInvariant == Spec => []LoopInv
  BY InitLoopInv, NextLoopInv, PTL DEF Spec

(***************************************************************************)
(* Portfolios are read with the loop down, and no timer is ever lost,      *)
(* unless an operation was called while another waited.                    *)
(***************************************************************************)
THEOREM SeedsUndisturbed == Spec => []SeedsAreUndisturbed
<1>1. LoopInv => SeedsAreUndisturbed
  BY DEF LoopInv, StateOK, OneAtATime, SeedsAreUndisturbed, Ticking
<1> QED
  BY <1>1, LoopInvariant, PTL

(***************************************************************************)
(* After operations that did not overlap, whatever reads failed, the timer *)
(* is up and a window open exactly if the loop says that it runs.          *)
(***************************************************************************)
THEOREM LoopAsItSays == Spec => []LoopIsAsItSays
<1>1. LoopInv => LoopIsAsItSays
  <2> SUFFICES ASSUME LoopInv, waiting = {}, mishaps = {}, ~ down
               PROVE  timer = config.running /\ (runId # Closed) = config.running
    BY DEF LoopIsAsItSays
  <2>1. timer \in BOOLEAN /\ config.running \in BOOLEAN
    BY DEF LoopInv, StateOK, Configs
  <2>2. (timer <=> config.running) /\ (runId # Closed <=> config.running)
    BY DEF LoopInv, LoneOperation
  <2> QED
    BY <2>1, <2>2
<1> QED
  BY <1>1, LoopInvariant, PTL

(***************************************************************************)
(* Whatever overlaps or fails, somebody will close every run that is open, *)
(* and the back office expects load exactly while a load run is at work.   *)
(***************************************************************************)
THEOREM RunsHaveOwners == Spec => []OpenRunsHaveOwners
<1>1. LoopInv => OpenRunsHaveOwners
  <2> SUFFICES ASSUME LoopInv PROVE OpenRunsHaveOwners
    OBVIOUS
  <2>1. LoopTypeOK
    BY DEF LoopInv, LoopTypeOK, WaitingOK, StateOK, HistoryOK, Configs
  <2>2. /\ loadRunning = (load.run # Closed)
        /\ \A run \in history.running :
             \/ run \in {runId, load.run}
             \/ \E i \in DOMAIN history.turn :
                  history.turn[i].is = "close" /\ history.turn[i].run = run
    BY DEF LoopInv, Owned, OwnedBy, LineCloses, Closes
  <2> QED
    BY <2>1, <2>2 DEF OpenRunsHaveOwners
<1> QED
  BY <1>1, LoopInvariant, PTL

(***************************************************************************)
(* No row reaches a run that ended or that was given up.                   *)
(***************************************************************************)
THEOREM NothingIsWrittenLate == Spec => NothingAfterTheEnd
<1> DEFINE Late ==
      \A run \in DOMAIN history.files :
        history.files[run].finished \/ run \in history.disowned =>
          history'.files[run].rows = history.files[run].rows
<1>1. LoopInv /\ [Next]_vars => [Late]_vars
  <2> SUFFICES ASSUME LoopInv, Next PROVE Late
    OBVIOUS
  <2> QED
    BY NextAddsNoRows DEF LoopInv, Typed
<1>2. Spec => [][Late]_vars
  BY <1>1, LoopInvariant, PTL DEF Spec
<1> QED
  BY <1>2 DEF NothingAfterTheEnd

(***************************************************************************)
(* What a run says it sent can be counted in its file, whatever was in     *)
(* flight, in line or retried when it was closed, unless it was reset or   *)
(* an order's row and its count fell on two sides of one of its ends.      *)
(***************************************************************************)
THEOREM WindowsWhole == Spec => []WindowsAreWhole
<1>1. LoopInv => WindowsAreWhole
  BY DEF LoopInv, Windows, WindowsMatch, SummariesMatch, WindowsAreWhole
<1> QED
  BY <1>1, LoopInvariant, PTL
=============================================================================
