---------------------------- MODULE MCLifecycle ----------------------------
(***************************************************************************)
(* Lifecycle instantiated for TLC.                                         *)
(***************************************************************************)
EXTENDS Lifecycle, TLC

CONSTANTS p1, p2, p3

\* One goroutine in Read, and two that close while it is there.
CloserRoles ==
    p1 :> {"openLock", "begin", "read"}
      @@ p2 :> {"openLock", "close", "lcLock", "gcCheck"}
      @@ p3 :> {"close", "lcLock", "begin"}
=============================================================================
