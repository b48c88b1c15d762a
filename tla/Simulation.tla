----------------------------- MODULE Simulation -----------------------------
(***************************************************************************)
(* SimulationService against the API: place() and the seeding of its       *)
(* shadow ledger, with the orders and the portfolio reads that are in      *)
(* flight between the two processes.  The loop and the load engine share   *)
(* place(), so orders overlap, and answers come back in any order.         *)
(*                                                                         *)
(* Of the API only what it decides is here: an order executes in one step, *)
(* as in AtomicOrders, and nobody but the harness trades.  History         *)
(* variables say what the service cannot see: which orders filled, which   *)
(* ones overlapped, and what happened that its reasoning does not count on.*)
(***************************************************************************)
EXTENDS ShadowLedger, OrderRules, FiniteSets, Functions

CONSTANTS
  Users,
  Rosters,            \* the sets of users a seeding may be asked for
  Menu,               \* orders the harness may send
  Slots,              \* calls of place()
  Close,              \* latest_closes, which the seed's market data fixes
  Opening,            \* the API's portfolios when the harness starts
  NoOrder, NoReservation,
  MaxGenerations,     \* bound on start, reset, configure and prepare
  MaxLosses,          \* bound on calls that end without an answer
  Mishaps             \* bound on what the service does not count on, see Note

(* What an order says, what a user owns, and what the API answers.         *)
Orders ==
  [ userId : Users, instrumentId : Instruments, side : SIDES, size : Nat \ {0},
    type : ORDER_TYPES, price : Nat ]

Portfolios == [cash : Int, shares : [Instruments -> Int]]

Decisions == [price : Int, status : ORDER_STATUSES]

Expectations == {"UNKNOWN", "FILLED", "REJECTED"}

Reservations ==
  [ generation : Nat, order : Orders, expectation : Expectations, heldCash : Nat,
    heldShares : Nat ]

ASSUME SimulationAssumption ==
  /\ Close \in [Instruments -> Nat \ {0}]
  /\ \A roster \in Rosters : roster \subseteq Users
  /\ Menu \subseteq Orders
  /\ Opening \in [Users -> Portfolios]
  /\ MaxGenerations \in Nat

ASSUME NothingIsNothing ==
  /\ NoOrder \notin Portfolios
  /\ NoExecution \notin Decisions
  /\ NoReservation \notin Reservations

VARIABLES
  ledger, reseeding,  \* SimulationService
  reads,              \* portfolio reads in flight
  at,                 \* where each call of place() is
  held,               \* the reservation of each call in flight
  execution,          \* what the API decided, on its way back
  row,                \* the attempt each call leaves in the store, annotated
  portfolio,          \* what each user owns, at the API
  losses,
  filled, beside, mishaps     \* history

service == <<ledger, reseeding, reads>>
calls == <<at, held, execution, row>>
history == <<filled, beside, mishaps>>
vars == <<service, calls, portfolio, losses, history>>

-----------------------------------------------------------------------------
InFlight == {s \in Slots : at[s] \in {"sent", "executed"}}

UserOf(s) == held[s].order.userId

NoRow == [order |-> NoOrder, expected |-> "UNKNOWN", actual |-> "none"]

Init ==
  /\ ledger = empty
  /\ reseeding = {}
  /\ reads = {}
  /\ at = [s \in Slots |-> "unsent"]
  /\ held = [s \in Slots |-> NoReservation]
  /\ execution = [s \in Slots |-> NoExecution]
  /\ row = [s \in Slots |-> NoRow]
  /\ portfolio = Opening
  /\ losses = 0
  /\ filled = {}
  /\ beside = [s \in Slots |-> {}]
  /\ mishaps = {}

(***************************************************************************)
(* "reset": a shadow is thrown away with orders in flight.  "overlap": an  *)
(* order is sent while a portfolio is read.  "overtaken": an order executes *)
(* before one its user sent earlier.  "late": an order executes after its  *)
(* call was given up.                                                      *)
(***************************************************************************)
Note(what, happens) ==
  /\ mishaps' = IF happens THEN mishaps \cup {what} ELSE mishaps
  /\ mishaps' \subseteq Mishaps

(***************************************************************************)
(* seedUsers: open a generation, then read every portfolio at once.        *)
(***************************************************************************)
Asked(user, generation, for) ==
  [user |-> user, generation |-> generation, for |-> for, seen |-> NoOrder]

seedUsers(roster) ==
  /\ ledger.generation < MaxGenerations
  /\ ledger' = reseed(ledger, roster)
  /\ reads' = reads \cup {Asked(u, ledger.generation + 1, "all") : u \in roster}
  /\ Note("reset", InFlight # {})
  /\ UNCHANGED <<reseeding, calls, portfolio, losses, filled, beside>>

(* The API reads the portfolio; its answer is on the way.                  *)
ReadPortfolio(read) ==
  /\ read.seen = NoOrder
  /\ reads' = (reads \ {read}) \cup {[read EXCEPT !.seen = portfolio[read.user]]}
  /\ UNCHANGED <<ledger, reseeding, calls, portfolio, losses, history>>

Landed(read) ==
  /\ reads' = reads \ {read}
  /\ reseeding' = IF read.for = "one" THEN reseeding \ {read.user} ELSE reseeding
  /\ UNCHANGED <<calls, portfolio, history>>

seedUser(read) ==
  /\ read.seen # NoOrder
  /\ ledger' = seed(ledger, read.generation, read.user, read.seen)
  /\ Landed(read)
  /\ UNCHANGED losses

(* No answer, or not a portfolio: the user stays as it was.                *)
FailRead(read) ==
  /\ losses < MaxLosses
  /\ losses' = losses + 1
  /\ Landed(read)
  /\ UNCHANGED ledger

-----------------------------------------------------------------------------
(* place() up to its await.                                                *)
place(s, order) ==
  LET reservation == Reservation(ledger, order) IN
  /\ at[s] = "unsent"
  /\ ledger.generation > 0
  /\ ledger' = reserve(ledger, reservation)
  /\ held' = [held EXCEPT ![s] = reservation]
  /\ at' = [at EXCEPT ![s] = "sent"]
  /\ beside' = [beside EXCEPT ![s] = InFlight]
  /\ Note("overlap", reads # {})
  /\ UNCHANGED <<reseeding, reads, execution, row, portfolio, losses, filled>>

(***************************************************************************)
(* The API executes an order, on what its user owns by then.               *)
(***************************************************************************)
Decision(order) ==
  LET own == portfolio[order.userId] IN
  decide(order, order.size, Close[order.instrumentId],
         own.cash, own.shares[order.instrumentId])

Executed(order) ==
  LET d == Decision(order)
      shares == IF order.side = "BUY" THEN order.size ELSE - order.size
  IN  IF d.status = "FILLED"
      THEN [portfolio EXCEPT ![order.userId].cash = @ - d.price * shares,
                             ![order.userId].shares[order.instrumentId] = @ + shares]
      ELSE portfolio

Filling(s, order) ==
  filled' = IF Decision(order).status = "FILLED" THEN filled \cup {s} ELSE filled

(* An order that its user sent before still waits.                         *)
Overtakes(s) == \E other \in beside[s] : at[other] = "sent" /\ UserOf(other) = UserOf(s)

Execute(s) ==
  /\ at[s] = "sent"
  /\ at' = [at EXCEPT ![s] = "executed"]
  /\ execution' = [execution EXCEPT ![s] = Decision(held[s].order)]
  /\ portfolio' = Executed(held[s].order)
  /\ Filling(s, held[s].order)
  /\ Note("overtaken", Overtakes(s))
  /\ UNCHANGED <<service, held, row, losses, beside>>

(* 503: shed before it did anything.                                       *)
Shed(s) ==
  /\ at[s] = "sent"
  /\ at' = [at EXCEPT ![s] = "executed"]
  /\ UNCHANGED <<service, held, execution, row, portfolio, losses, history>>

(***************************************************************************)
(* place() after its await: the ledger settles or loses the reservation,   *)
(* the attempt is annotated, and a user that is no longer trusted and has  *)
(* nothing in flight is read again, once at a time.                        *)
(***************************************************************************)
Returned(s, after, actual) ==
  LET u == UserOf(s) IN
  /\ ledger' = after
  /\ row' = [row EXCEPT ![s] = [order    |-> held[s].order,
                                expected |-> held[s].expectation,
                                actual   |-> actual]]
  /\ held' = [held EXCEPT ![s] = NoReservation]
  /\ execution' = [execution EXCEPT ![s] = NoExecution]
  /\ \/ /\ needsReseed(after, u) /\ u \notin reseeding
        /\ reseeding' = reseeding \cup {u}
        /\ reads' = reads \cup {Asked(u, after.generation, "one")}
     \/ /\ ~ (needsReseed(after, u) /\ u \notin reseeding)
        /\ UNCHANGED <<reseeding, reads>>

Answer(s) ==
  /\ at[s] = "executed"
  /\ Returned(s, settle(ledger, held[s], execution[s]),
              IF execution[s] = NoExecution THEN "none" ELSE execution[s].status)
  /\ at' = [at EXCEPT ![s] = "done"]
  /\ UNCHANGED <<portfolio, losses, history>>

(***************************************************************************)
(* A call that ends without an answer: it timed out, or chaos hid what the *)
(* API said.  The order may be one the API never decided.                  *)
(***************************************************************************)
Lose(s) ==
  /\ at[s] \in {"sent", "executed"}
  /\ losses < MaxLosses
  /\ losses' = losses + 1
  /\ \/ /\ at[s] = "sent" /\ "late" \in Mishaps
        /\ at' = [at EXCEPT ![s] = "late"]
     \/ at' = [at EXCEPT ![s] = "done"]
  /\ Returned(s, lose(ledger, held[s]), "none")
  /\ UNCHANGED <<portfolio, history>>

(* The API commits an order nobody waits for any more.                     *)
LateCommit(s) ==
  /\ at[s] = "late"
  /\ at' = [at EXCEPT ![s] = "done"]
  /\ portfolio' = Executed(row[s].order)
  /\ Filling(s, row[s].order)
  /\ Note("late", TRUE)
  /\ UNCHANGED <<service, held, execution, row, losses, beside>>

Next ==
  \/ \E roster \in Rosters : seedUsers(roster)
  \/ \E read \in reads : ReadPortfolio(read) \/ seedUser(read) \/ FailRead(read)
  \/ \E s \in Slots :
       \/ \E order \in Menu : place(s, order)
       \/ Execute(s) \/ Shed(s) \/ Answer(s) \/ Lose(s) \/ LateCommit(s)

Spec == Init /\ [][Next]_vars
-----------------------------------------------------------------------------
TypeOK ==
  /\ ledger.generation \in 0..MaxGenerations
  /\ DOMAIN ledger.users \in Rosters \cup {{}}
  /\ ledger.prices \in [Instruments -> {Unlearnt} \cup Nat]
  /\ reseeding \subseteq Users
  /\ \A s \in Slots : s \in InFlight <=> held[s] # NoReservation
  /\ portfolio \in [Users -> Portfolios]

(***************************************************************************)
(* What a user's shadow holds aside is what its unsettled orders reserved, *)
(* through any mix of settlements, losses, re-reads and seedings: nothing  *)
(* is given back twice, or to a shadow it was not taken from               *)
(* (shadow-ledger.ts:245).  Types are part of it.                          *)
(***************************************************************************)
Owed(u) ==
  {s \in InFlight : UserOf(s) = u /\ held[s].generation = ledger.generation}

SharesHeld(s, i) == IF held[s].order.instrumentId = i THEN held[s].heldShares ELSE 0

BooksBalance ==
  /\ TypeOK
  /\ \A u \in DOMAIN ledger.users :
       LET user == ledger.users[u] IN
       /\ user.outstanding = Cardinality(Owed(u))
       /\ user.heldCash = SumFunction([s \in Owed(u) |-> held[s].heldCash])
       /\ \A i \in Instruments :
            user.heldShares[i]
              = SumFunction([s \in Owed(u) |-> SharesHeld(s, i)])

(***************************************************************************)
(* What the back office compares: a user that is trusted and stands still  *)
(* owns, in the shadow, what it owns at the API (shadow-ledger.ts:18-20).  *)
(* Lost answers, failed reads and seedings never break it by themselves,   *)
(* nor do overlapping orders, in whatever order they execute and answer.   *)
(***************************************************************************)
ShadowMatches ==
  \A u \in DOMAIN ledger.users :
    Trusted(ledger, u) /\ ledger.users[u].outstanding = 0 =>
      /\ ledger.users[u].cash = portfolio[u].cash
      /\ ledger.users[u].shares = portfolio[u].shares

ShadowIsRight == mishaps \subseteq {"overtaken"} => ShadowMatches

(***************************************************************************)
(* An order that was expected to be refused is refused: with nothing else  *)
(* in flight when it was sent, what is short stays short.                  *)
(***************************************************************************)
RefusalsHold ==
  mishaps = {} =>
    \A s \in Slots : row[s].expected = "REJECTED" => row[s].actual # "FILLED"

(***************************************************************************)
(* What spoils an expected fill is an overlapping order of the user that   *)
(* filled and for which nothing had been held aside, and nothing else.     *)
(***************************************************************************)
ExpectationOf(s) == IF s \in InFlight THEN held[s].expectation ELSE row[s].expected
OwnerOf(s) == IF s \in InFlight THEN UserOf(s) ELSE row[s].order.userId

OnlyUnforeseenFillsSpoil ==
  mishaps \subseteq {"overtaken"} =>
    \A s \in Slots :
      row[s].expected = "FILLED" /\ row[s].actual = "REJECTED" =>
        \E other \in filled :
          /\ other \in beside[s] \/ s \in beside[other]
          /\ OwnerOf(other) = OwnerOf(s)
          /\ ExpectationOf(other) # "FILLED"
=============================================================================
