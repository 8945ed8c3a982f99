---------------------------- MODULE AtLeastOnce ----------------------------
(***************************************************************************)
(* What a log promises the programs that write to it and read from it.     *)
(* A record that was accepted is queued until it is finished or buried; a  *)
(* queued record is handed out, to one reader at a time, under a lease;    *)
(* only the holder of the lease can finish or bury it; a lease may lapse   *)
(* at any time, and the record is then handed out again.  A lease is known *)
(* by the payload, its position, the handle of the log that gave it and    *)
(* the number of the attempt.                                              *)
(***************************************************************************)
EXTENDS Naturals

CONSTANTS Payloads, LastAttempt

VARIABLES
    queued, buried,     \* payloads to be delivered; payloads parked as dead letters
    acked,              \* payloads whose writer was told they are safe
    live,               \* the leases that readers hold
    given,              \* history: every lease ever handed out
    winners             \* history: the leases whose holder finished or buried

promiseVars == <<queued, buried, acked, live, given, winners>>

Of(L) == {l.payload : l \in L}
Known == queued \cup buried \cup Of(winners)

PInit ==
    /\ queued = {} /\ buried = {} /\ acked = {}
    /\ live = {} /\ given = {} /\ winners = {}

Accept(P) ==
    /\ P \cap Known = {}
    /\ queued' = queued \cup P
    /\ UNCHANGED <<buried, acked, live, given, winners>>

Acknowledge(P) ==
    /\ P \subseteq Known
    /\ acked' = acked \cup P
    /\ UNCHANGED <<queued, buried, live, given, winners>>

\* A lease is new, except that attempts are no longer counted past the last.
Deliver(L) ==
    /\ Of(L) \subseteq queued \ Of(live)
    /\ \A l \in L : l \in given => l.attempt = LastAttempt
    /\ \A l, m \in L : l.payload = m.payload => l = m
    /\ live' = live \cup L /\ given' = given \cup L
    /\ UNCHANGED <<queued, buried, acked, winners>>

Lapse ==
    /\ live' \subseteq live
    /\ UNCHANGED <<queued, buried, acked, given, winners>>

Finish(L) ==
    /\ L \subseteq live
    /\ queued' = queued \ Of(L)
    /\ winners' = winners \cup L
    /\ live' \subseteq live \ L
    /\ UNCHANGED <<buried, acked, given>>

Bury(l) ==
    /\ l \in live
    /\ queued' = queued \ {l.payload} /\ buried' = buried \cup {l.payload}
    /\ winners' = winners \cup {l}
    /\ live' \subseteq live \ {l}
    /\ UNCHANGED <<acked, given>>

Requeue(p) ==
    /\ p \in buried
    /\ buried' = buried \ {p} /\ queued' = queued \cup {p}
    /\ UNCHANGED <<acked, live, given, winners>>

\* The leases a step hands out, and those it completes, show in the step.
PNext ==
    \/ \E P \in SUBSET Payloads : Accept(P) \/ Acknowledge(P)
    \/ Lapse
    \/ Deliver(live' \ live)
    \/ Finish(winners' \ winners)
    \/ \E l \in winners' : Bury(l)
    \/ \E p \in Payloads : Requeue(p)

PSpec == PInit /\ [][PNext]_promiseVars
=============================================================================
