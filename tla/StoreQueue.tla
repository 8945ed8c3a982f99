----------------------------- MODULE StoreQueue -----------------------------
(***************************************************************************)
(* What the durable layer promises its callers: Store as a WorkQueue.      *)
(***************************************************************************)
EXTENDS Store

WQ == INSTANCE WorkQueue WITH
        LastPosition <- MaxSeq, queue <- Payload(pending), parked <- Payload(dead),
        last <- tailKey, finished <- done

\* The store implements the abstract queue: whatever its callers interleave and
\* wherever it crashes, its steps are steps of a queue that loses nothing.
ImplementsWorkQueue == WQ!QSpec
=============================================================================
