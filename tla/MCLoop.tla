------------------------------- MODULE MCLoop -------------------------------
(* Small instances of Loop: two users, of whom the loop trades as one or both. *)
EXTENDS Loop

MCRosters == {{1}, {1, 2}}
MCDefaultUsers == {1}
MCLoadUsers == {1}
=============================================================================
