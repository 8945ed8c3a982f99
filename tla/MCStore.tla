------------------------------ MODULE MCStore ------------------------------
(***************************************************************************)
(* Store instantiated for TLC.                                             *)
(***************************************************************************)
EXTENDS StoreQueue, TLC

Symmetry == Permutations(Callers) \cup Permutations(Payloads)
=============================================================================
