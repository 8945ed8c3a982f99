------------------------------ MODULE MCStream ------------------------------
(***************************************************************************)
(* Stream instantiated for TLC.                                            *)
(***************************************************************************)
EXTENDS Stream, TLC

Symmetry == Permutations(Payloads)

\* RetryDelay: one tick.
MCRetryDelay(a) == 1
=============================================================================
