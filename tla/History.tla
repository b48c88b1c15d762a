------------------------------ MODULE History ------------------------------
(***************************************************************************)
(* HistoryService: the runs on disk.  What it keeps is one value, and its  *)
(* operations are operators on it, for the modules that hold one.          *)
(*                                                                         *)
(* Rows and closes are handed over a turn later (setImmediate): they wait  *)
(* in line, in the order they came, and a turn of the event loop takes all *)
(* of them.  A row is its sender: what the rest of it says is left out.    *)
(***************************************************************************)
EXTENDS Integers, Sequences

CONSTANTS Senders

NoSummary == [sent |-> 0, given |-> FALSE]

emptyHistory ==
  [running |-> {}, disowned |-> {}, turn |-> <<>>, files |-> <<>>]

NewFile(mode) ==
  [mode |-> mode, rows |-> [s \in Senders |-> 0], finished |-> FALSE, summary |-> NoSummary]

(* The run open() gives its caller.                                        *)
NextRun(h) == Len(h.files) + 1

(* A mutant of disown: the run is still among the open ones.               *)
disownLate(h, run) == [h EXCEPT !.disowned = @ \cup {run}]

(* disown: out of the open runs for good.                                  *)
disown(h, run) ==
  IF run \in h.disowned THEN h
  ELSE [h EXCEPT !.disowned = @ \cup {run}, !.running = @ \ {run}]

open(h, mode) ==
  [h EXCEPT !.files = Append(@, NewFile(mode)), !.running = @ \cup {NextRun(h)}]

(* Every run open right now gets the row.                                  *)
append(h, sender) ==
  [h EXCEPT !.files =
     [run \in DOMAIN h.files |->
        IF run \in h.running THEN [h.files[run] EXCEPT !.rows[sender] = @ + 1]
                             ELSE h.files[run]]]

finish(h, run, summary) ==
  IF run \notin h.running THEN h
  ELSE [h EXCEPT !.running = @ \ {run},
                 !.files[run] = [@ EXCEPT !.finished = TRUE, !.summary = summary]]

tapped(h, sender) == [h EXCEPT !.turn = Append(@, [is |-> "row", sender |-> sender])]

close(h, run, sent) ==
  [h EXCEPT !.turn = Append(@, [is |-> "close", run |-> run, sent |-> sent])]

(* A turn of the event loop: one callback after the other.                 *)
handed(h, next) ==
  IF next.is = "row" THEN append(h, next.sender)
  ELSE finish(h, next.run, [sent |-> next.sent, given |-> TRUE])

turned(h) ==
  LET after[n \in 0..Len(h.turn)] ==
        IF n = 0 THEN [h EXCEPT !.turn = <<>>] ELSE handed(after[n - 1], h.turn[n])
  IN  after[Len(h.turn)]

(* onModuleDestroy: whatever is still open is closed with what it had.     *)
destroyed(h) ==
  [h EXCEPT !.running = {},
            !.files =
              [run \in DOMAIN h.files |->
                 IF run \in h.running
                 THEN [h.files[run] EXCEPT !.finished = TRUE, !.summary = NoSummary]
                 ELSE h.files[run]]]
=============================================================================
