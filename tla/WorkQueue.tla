----------------------------- MODULE WorkQueue -----------------------------
(***************************************************************************)
(* What a durable stream promises: records are accepted in one step a      *)
(* batch, at consecutive positions never used before; each waits in the    *)
(* queue or is parked as a dead letter until it is finished; what was      *)
(* acknowledged has been accepted.  No crash, no lock and no cached        *)
(* position appears here.                                                  *)
(***************************************************************************)
EXTENDS Naturals, Sequences, Functions

CONSTANTS Payloads, LastPosition

VARIABLES
    queue, parked,      \* position -> payload
    last,               \* the largest position given out
    finished,           \* payloads completed
    acked               \* payloads whose writer was told they are safe

queueVars == <<queue, parked, last, finished, acked>>

Empty == [p \in {} |-> 0]

Accepted == Range(queue) \cup Range(parked) \cup finished

QInit ==
    queue = Empty /\ parked = Empty /\ last = 0 /\ finished = {} /\ acked = {}

Accept(batch) ==
    /\ last + Len(batch) <= LastPosition
    /\ \A i \in DOMAIN batch : batch[i] \notin Accepted
    /\ queue' = [p \in DOMAIN queue \cup (last + 1)..(last + Len(batch)) |->
                   IF p \in DOMAIN queue THEN queue[p] ELSE batch[p - last]]
    /\ last' = last + Len(batch)
    /\ UNCHANGED <<parked, finished, acked>>

Acknowledge(P) ==
    /\ P \subseteq Accepted
    /\ acked' = acked \cup P
    /\ UNCHANGED <<queue, parked, last, finished>>

Finish(S) ==
    /\ S \subseteq DOMAIN queue
    /\ queue' = Restrict(queue, DOMAIN queue \ S)
    /\ finished' = finished \cup {queue[p] : p \in S}
    /\ UNCHANGED <<parked, last, acked>>

DeadLetterOne(p) ==
    /\ p \in DOMAIN queue
    /\ queue' = Restrict(queue, DOMAIN queue \ {p})
    /\ parked' = [x \in DOMAIN parked \cup {p} |-> IF x = p THEN queue[p] ELSE parked[x]]
    /\ UNCHANGED <<last, finished, acked>>

RequeueOne(p) ==
    /\ p \in DOMAIN parked /\ last < LastPosition
    /\ queue' = [x \in DOMAIN queue \cup {last + 1} |->
                   IF x = last + 1 THEN parked[p] ELSE queue[x]]
    /\ parked' = Restrict(parked, DOMAIN parked \ {p})
    /\ last' = last + 1
    /\ UNCHANGED <<finished, acked>>

QNext ==
    \/ \E n \in 1..LastPosition : \E batch \in [1..n -> Payloads] : Accept(batch)
    \/ \E P \in SUBSET Payloads : Acknowledge(P)
    \/ \E S \in SUBSET (1..LastPosition) : Finish(S)
    \/ \E p \in 1..LastPosition : DeadLetterOne(p) \/ RequeueOne(p)

QSpec == QInit /\ [][QNext]_queueVars
=============================================================================
