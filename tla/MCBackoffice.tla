---------------------------- MODULE MCBackoffice ----------------------------
(***************************************************************************)
(* Small instances of Backoffice.  A tick is about eight seconds, so that  *)
(* the gateway gives up within the API's time for a request, and the       *)
(* window closes a tick after it.                                          *)
(***************************************************************************)
EXTENDS Backoffice, TLC

Symmetric == Permutations(Calls) \cup Permutations(Sweepers)
=============================================================================
