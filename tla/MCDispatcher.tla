---------------------------- MODULE MCDispatcher ----------------------------
(***************************************************************************)
(* Dispatcher instantiated for TLC.                                        *)
(***************************************************************************)
EXTENDS Dispatcher, TLC

Symmetry == Permutations(Readers) \cup Permutations(Receipts)

B == INSTANCE Backoff WITH MaxDuration <- 100, Precision <- 64

\* RetryDelay: one tick, doubled for the second retry, at most two.
MCRetryDelay(a) ==
    B!retryDelay([initial |-> 1, max |-> 2, num |-> 2, den |-> 1], 100, a)

\* A stream that starts empty, so that every record is appended and announced,
\* and whose deliveries nobody settles.
NewStreamNext ==
    \/ \E n \in 1..MaxBatch : AppendBatch(n)
    \/ Notify \/ Tick
    \/ \E r \in Readers : ReadStep(r) \/ \E n \in Counts : StartRead(r, n)
NewStreamSpec == Init /\ tail = 0 /\ [][NewStreamNext]_vars /\ Fairness
=============================================================================
