-------------------------------- MODULE Drift --------------------------------
(***************************************************************************)
(* BackofficeService.checkDrift(): every so many orders the back office    *)
(* reads the balances of the users the shadow can speak for, and compares. *)
(* The readings are round trips, while the loop (module Simulation) goes   *)
(* on; a snapshot of the shadow before and one after are to say whether    *)
(* anything moved.  A check that is due may be repeated at once: when the  *)
(* last one was, which makes it wait for further orders, is left out.      *)
(***************************************************************************)
EXTENDS Simulation

CONSTANTS
  DRIFT_EVERY_ORDERS,
  NoCheck

ASSUME DriftAssumption == DRIFT_EVERY_ORDERS \in Nat \ {0}

VARIABLES
  drift,              \* the check in flight, or NoCheck
  drifted             \* what it reported, see compare

driftVars == <<drift, drifted>>
allVars == <<vars, driftVars>>

DriftInit ==
  /\ Init
  /\ drift = NoCheck
  /\ drifted = {}

-----------------------------------------------------------------------------
Still(user) == user.seeded /\ ~ user.uncertain /\ user.outstanding = 0

Readable == {u \in DOMAIN ledger.users : Still(ledger.users[u])}

(* The orders a sweep has scanned: those whose call has ended.             *)
simulatedOrders == Cardinality({s \in Slots : at[s] \in {"done", "late"}})

(* checkDrift() up to its await.                                           *)
checkDrift ==
  /\ drift = NoCheck
  /\ simulatedOrders >= DRIFT_EVERY_ORDERS
  /\ Readable # {}
  /\ drift' = [ before |-> [u \in Readable |-> ledger.users[u].cash], left |-> Readable,
                apiCash |-> [u \in {} |-> 0], fills |-> Cardinality(filled) ]
  /\ UNCHANGED <<vars, drifted>>

(* The API answers for a user, or does not.                                *)
readBalance(u) ==
  /\ drift # NoCheck /\ u \in drift.left
  /\ \/ /\ drift' = [drift EXCEPT
                       !.left = @ \ {u},
                       !.apiCash = [v \in DOMAIN @ \cup {u} |->
                                      IF v = u THEN portfolio[u].cash ELSE @[v]]]
        /\ UNCHANGED losses
     \/ /\ losses < MaxLosses /\ losses' = losses + 1
        /\ drift' = [drift EXCEPT !.left = @ \ {u}]
  /\ UNCHANGED <<service, calls, portfolio, history, drifted>>

(***************************************************************************)
(* driftFindings: whom the two sides can be held against each other for.   *)
(* Before, the cash of those who could be read is all that is kept.        *)
(***************************************************************************)
(* A mutant of compared: that nothing is outstanding is enough.            *)
comparedStill(before, after, apiCash) ==
  {u \in DOMAIN after \cap DOMAIN apiCash : Still(after[u])}

compared(before, after, apiCash) ==
  {u \in DOMAIN after \cap DOMAIN apiCash : Still(after[u]) /\ before[u] = after[u].cash}

(***************************************************************************)
(* The readings are in.  What is reported also says, as history, whether   *)
(* two orders or more filled meanwhile.                                    *)
(***************************************************************************)
compare ==
  LET users == compared(drift.before, ledger.users, drift.apiCash) IN
  /\ drift # NoCheck /\ drift.left = {}
  /\ drift' = NoCheck
  /\ drifted' = drifted \cup
       {[crossed |-> Cardinality(filled) >= drift.fills + 2] :
          u \in {v \in users : drift.before[v] # drift.apiCash[v]}}
  /\ UNCHANGED vars

-----------------------------------------------------------------------------
(* The model ends with the first report.                                   *)
DriftNext ==
  /\ drifted = {}
  /\ \/ Next /\ UNCHANGED driftVars
     \/ checkDrift
     \/ \E u \in Users : readBalance(u)
     \/ compare

DriftSpec == DriftInit /\ [][DriftNext]_allVars

-----------------------------------------------------------------------------
(***************************************************************************)
(* Drift is reported for a shadow that is wrong, which takes one of the    *)
(* mishaps of ShadowIsRight, or when movements cancelled out between the   *)
(* two snapshots, which takes two; never for one order in between.         *)
(***************************************************************************)
DriftIsEvidence ==
  \A finding \in drifted :
    mishaps \cap {"late", "reset", "overlap"} # {} \/ finding.crossed
=============================================================================
