------------------------------- MODULE Gateway -------------------------------
(***************************************************************************)
(* GatewayService.send() for placements: the call under its idempotency    *)
(* key, the answer chaos hides, the retry of an order whose answer never   *)
(* came, and the rows all this leaves in the attempts store.               *)
(*                                                                         *)
(* Time is a count of ticks of a few seconds.  The API is external: what a *)
(* request may do to it, and for how long, is what detectors.ts says and   *)
(* Placement shows, one order for a key however often it is asked for.     *)
(***************************************************************************)
EXTENDS AttemptsStore

CONSTANTS
  Calls,            \* orders to place, each under a key of its own
  TIMEOUT,          \* how long the gateway waits for an answer
  TARGET_CEILING,   \* how long the API may work on a request
  MaxDelay,         \* bound on the delay chaos puts before a call
  LastSend,         \* bound: the tick after which no new order is sent
  Null

ASSUME GatewayAssumption ==
  /\ TIMEOUT \in Nat \ {0}
  /\ TARGET_CEILING \in Nat \ {0}
  /\ MaxDelay \in Nat
  /\ LastSend \in Nat
  /\ Null \notin Nat \cup Calls

VARIABLES
  now,
  store,            \* AttemptsStore
  calls,            \* what each send() is waiting for
  work,             \* requests the API is working on
  stored            \* orders in the API's database, named by the call they are for

gateway == <<now, store, calls, work, stored>>

-----------------------------------------------------------------------------
Waiting == {c \in Calls : calls[c].phase \in {"sent", "probing"}}

(* Whether c's latest request is the order's first or its retry.           *)
TryOf(c) == IF calls[c].lost = Null THEN 1 ELSE 2

Requests == [call : Calls, try : {1, 2}, since : Nat]

InitGateway ==
  /\ now = 0
  /\ store = emptyStore
  /\ calls = [c \in Calls |->
                [phase |-> "unsent", at |-> 0, delayed |-> 0, loaded |-> FALSE, lost |-> Null]]
  /\ work = {}
  /\ stored = {}

(***************************************************************************)
(* call(): the request is on its way, and may never get there.  A row      *)
(* remembers in loaded whether a load run was on when its call was made;   *)
(* the code does not record that, it is history for the properties.        *)
(***************************************************************************)
Call(c, phase, delayed, loaded, lost) ==
  calls' = [calls EXCEPT ![c] = [phase |-> phase, at |-> now, delayed |-> delayed,
                                 loaded |-> loaded, lost |-> lost]]

Arrives(c, try, others) ==
  work' \in {others, others \cup {[call |-> c, try |-> try, since |-> now]}}

Send(c, loaded) ==
  /\ calls[c].phase = "unsent"
  /\ now <= LastSend
  /\ \E delayed \in 0 .. MaxDelay : Call(c, "sent", delayed, loaded, Null)
  /\ Arrives(c, 1, work)
  /\ UNCHANGED <<now, store, stored>>

-----------------------------------------------------------------------------
(* The row of c's request; status "none" stands for 0, "shed" for a 503.   *)
Attempt(c, status) ==
  [ id |-> 0, call |-> c, try |-> TryOf(c), at |-> calls[c].at,
    latency |-> now - calls[c].at + calls[c].delayed,
    status |-> status, loaded |-> calls[c].loaded,
    orderId |-> Null, retryOf |-> calls[c].lost, retriedBy |-> Null ]

(* A note of the chaos engine, which is no call.                           *)
chaosEvent ==
  [ id |-> 0, call |-> Null, try |-> 0, at |-> now, latency |-> 0, status |-> "ok",
    loaded |-> FALSE, orderId |-> Null, retryOf |-> Null, retriedBy |-> Null ]

Placed(c, status) == IF status = "ok" THEN c ELSE Null

Done(c) == calls' = [calls EXCEPT ![c].phase = "done"]

(* The answer reaches place(), which writes the order on the row.          *)
Answered(c, status, others) ==
  /\ store' = annotate(record(store, Attempt(c, status)), store.nextId,
                       "orderId", Placed(c, status))
  /\ Done(c)
  /\ work' = others

(***************************************************************************)
(* The answer never came, or is hidden from the caller, which leaves a note *)
(* of the drop behind the row; the dice decide on a retry.                 *)
(***************************************************************************)
Lost(c, dropped, others, loaded) ==
  LET row == record(store, Attempt(c, "none")) IN
  /\ store' = IF dropped THEN record(row, chaosEvent) ELSE row
  /\ \/ Done(c) /\ work' = others
     \/ Call(c, "probing", 0, loaded, store.nextId) /\ Arrives(c, 2, others)

(***************************************************************************)
(* probe(): the row of the retry names its order by itself, the lost row is *)
(* told who retried it, and a note follows.                                *)
(***************************************************************************)
Probed(c, status, others) ==
  LET retry == [Attempt(c, status) EXCEPT !.orderId = Placed(c, status)]
      noted == annotate(record(store, retry), calls[c].lost, "retriedBy", store.nextId)
  IN
  /\ store' = record(noted, chaosEvent)
  /\ Done(c)
  /\ work' = others

(* What send() does once its current call returns.                         *)
Returned(c, status, others, loaded) ==
  \/ calls[c].phase = "sent" /\ status # "none" /\ Answered(c, status, others)
  \/ calls[c].phase = "sent" /\ Lost(c, status # "none", others, loaded)
  \/ calls[c].phase = "probing" /\ Probed(c, status, others)

(* The call fails on its way there or back, or the gateway gives it up.    *)
Lose(c, loaded) ==
  /\ c \in Waiting
  /\ Returned(c, "none", work, loaded)
  /\ UNCHANGED <<now, stored>>

(***************************************************************************)
(* The API ends a request: it stores the order, or answers with the one it *)
(* has under the key, or sheds the request.  Nobody may be listening.      *)
(***************************************************************************)
Listening(w) == w.call \in Waiting /\ TryOf(w.call) = w.try

Decide(w, loaded) ==
  /\ \E status \in {"ok", "shed"} :
       /\ stored' = IF status = "ok" THEN stored \cup {w.call} ELSE stored
       /\ \/ Listening(w) /\ Returned(w.call, status, work \ {w}, loaded)
          \/ work' = work \ {w} /\ UNCHANGED <<store, calls>>
  /\ UNCHANGED now

(* Nothing outlasts its deadline.                                          *)
OnTime ==
  /\ \A c \in Waiting : now < calls[c].at + TIMEOUT
  /\ \A w \in work : now < w.since + TARGET_CEILING
=============================================================================
