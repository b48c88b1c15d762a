------------------------------ MODULE MCChaos ------------------------------
(* A small instance of Chaos.                                              *)
EXTENDS Chaos
=============================================================================
