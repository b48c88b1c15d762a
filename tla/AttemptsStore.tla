---------------------------- MODULE AttemptsStore ----------------------------
(***************************************************************************)
(* AttemptsStore, the ring that keeps the harness's latest calls, as       *)
(* operators on its state.  A row is a record with a field id, which       *)
(* record() fills in; the copy for the run history is left out.            *)
(***************************************************************************)
EXTENDS Integers, Sequences, FiniteSetsExt

CONSTANT ATTEMPTS_CAPACITY

ASSUME CapacityAssumption == ATTEMPTS_CAPACITY \in Nat \ {0}

emptyStore == [buffer |-> <<>>, cursor |-> 0, nextId |-> 1]

record(store, attempt) ==
  LET row == [attempt EXCEPT !.id = store.nextId] IN
  [ buffer |-> IF Len(store.buffer) < ATTEMPTS_CAPACITY
                 THEN Append(store.buffer, row)
                 ELSE [store.buffer EXCEPT ![store.cursor + 1] = row],
    cursor |-> (store.cursor + 1) % ATTEMPTS_CAPACITY,
    nextId |-> store.nextId + 1 ]

(* The slot of a row; whether the row is still in it is another question.  *)
Slot(id) == 1 + ((id - 1) % ATTEMPTS_CAPACITY)

(* A mutant of annotate: it takes the slot for the row.                   *)
annotateSlot(store, id, field, value) ==
  IF Slot(id) \in DOMAIN store.buffer
    THEN [store EXCEPT !.buffer[Slot(id)][field] = value]
    ELSE store

annotate(store, id, field, value) ==
  LET slot == Slot(id) IN
  IF slot \in DOMAIN store.buffer /\ store.buffer[slot].id = id
    THEN [store EXCEPT !.buffer[slot][field] = value]
    ELSE store

(* The newest rows, latest first.                                          *)
recent(store, limit) ==
  LET size == Len(store.buffer) IN
  [back \in 1 .. Min({limit, size}) |->
     store.buffer[1 + ((store.cursor - back + size) % size)]]

=============================================================================
