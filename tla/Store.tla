------------------------------- MODULE Store -------------------------------
(***************************************************************************)
(* The durable layer of one stream (internal/store) over Badger.           *)
(*                                                                         *)
(* The directory holds the stream's keys and survives a crash.  The Stream *)
(* handle holds a cached tail, guarded by its mutex; a call of AppendBatch *)
(* or Requeue takes the mutex, runs one transaction, and then moves the    *)
(* cached tail and returns.  Commit and DeadLetter are one transaction     *)
(* each and take no mutex.  A transaction is atomic and serializable, and  *)
(* one that returns an error has written nothing.                          *)
(***************************************************************************)
EXTENDS Integers, Sequences, FiniteSets, Functions, FiniteSetsExt

CONSTANTS
    Callers,        \* goroutines that write or requeue
    Payloads,       \* the records written, each once
    Times,          \* clock readings
    MaxSeq,         \* math.MaxUint64
    MaxBatch,       \* bound: records of one BatchWrite
    NoCaller        \* nobody

ASSUME StoreAssumption ==
    MaxSeq \in Nat \ {0} /\ MaxBatch \in Nat \ {0} /\ NoCaller \notin Callers

VARIABLES
    \* the directory: m/schema, m/tail (0 while the key is missing), d/ and x/
    schema, tailKey, pending, dead,
    \* the process: the handle, what load last reported, the cached tail, its mutex
    open, loadErr, tail, mu,
    \* each caller's place, and the locals of the call that holds the mutex
    pc, call,
    \* history: what was first written at each position, the payloads
    \* acknowledged and the payloads committed
    written, acked, done

dirVars  == <<schema, tailKey, pending, dead>>
procVars == <<open, loadErr, tail, mu, pc, call>>
histVars == <<written, acked, done>>
vars == <<dirVars, procVars, histVars>>

Seqs     == 1..MaxSeq
NoOrigin == 0
Envelope == [payload : Payloads, createdAt : Times, origin : 0..MaxSeq]
Keys(f)  == DOMAIN f
Empty    == [s \in {} |-> 0]
Payload(f) == [s \in DOMAIN f |-> f[s].payload]
PayloadsOf(f) == {f[s].payload : s \in DOMAIN f}
\* payloads is the batch of AppendBatch, or the one record Requeue has read.
NoCall   == [payloads |-> <<>>, now |-> 0, seq |-> 0, newTail |-> 0]
Call     == [payloads : Seq(Payloads), now : Times \cup {0}, seq : 0..MaxSeq,
             newTail : 0..MaxSeq]

TypeOK ==
    /\ schema \in {"none", "v1"} /\ tailKey \in 0..MaxSeq
    /\ Keys(pending) \subseteq Seqs /\ pending \in [Keys(pending) -> Envelope]
    /\ Keys(dead) \subseteq Seqs /\ dead \in [Keys(dead) -> Envelope]
    /\ open \in BOOLEAN /\ loadErr \in {"none", "ErrTailRegression", "ErrStateConflict"}
    /\ tail \in 0..MaxSeq /\ mu \in Callers \cup {NoCaller}
    /\ pc \in [Callers -> {"idle", "append", "requeue", "written"}]
    /\ call \in Call
    /\ Keys(written) \subseteq Seqs
    /\ written \in [Keys(written) -> [payload : Payloads, createdAt : Times]]
    /\ acked \subseteq Payloads /\ done \subseteq Payloads

\* An empty directory, not yet opened.
Init ==
    /\ schema = "none" /\ tailKey = 0 /\ pending = Empty /\ dead = Empty
    /\ open = FALSE /\ loadErr = "none" /\ tail = 0 /\ mu = NoCaller
    /\ pc = [c \in Callers |-> "idle"] /\ call = NoCall
    /\ written = Empty /\ acked = {} /\ done = {}

(***************************************************************************)
(* Root.Stream and load: the handle opens only over a directory whose tail *)
(* covers every record and in which no position is both pending and dead.  *)
(***************************************************************************)
LoadCheck ==
    LET regressed == \E s \in Keys(pending) \cup Keys(dead) : tailKey = 0 \/ s > tailKey
        conflict  == Keys(pending) \cap Keys(dead) # {}
    IN  IF regressed THEN "ErrTailRegression"
        ELSE IF conflict THEN "ErrStateConflict" ELSE "none"

LoadedTailGuessed ==                \* mutant: the tail is the last record stored
    Max({0} \cup Keys(pending) \cup Keys(dead))
LoadedTail == tailKey

Load ==
    /\ ~open
    /\ loadErr' = LoadCheck
    /\ open' = (LoadCheck = "none")
    /\ schema' = IF LoadCheck = "none" THEN "v1" ELSE schema
    /\ tail' = IF LoadCheck = "none" THEN LoadedTail ELSE 0
    /\ UNCHANGED <<tailKey, pending, dead, mu, pc, call, histVars>>

(***************************************************************************)
(* Writers.  lock .. transaction .. cached tail and return.                *)
(***************************************************************************)
\* Take the mutex; newTail is the last position the call will use.
Lock(c, place, payloads, now, seq, newTail) ==
    /\ open /\ pc[c] = "idle" /\ mu = NoCaller
    /\ mu' = c
    /\ pc' = [pc EXCEPT ![c] = place]
    /\ call' = [payloads |-> payloads, now |-> now, seq |-> seq, newTail |-> newTail]
    /\ UNCHANGED <<dirVars, open, loadErr, tail, histVars>>

\* mutant: no test for the end of the sequence space
AppendLockUnchecked(c, batch, now) ==
    /\ \A i \in DOMAIN batch : batch[i] \notin PayloadsOf(written)
    /\ Lock(c, "append", batch, now, 0, tail + Len(batch))

AppendLock(c, batch, now) ==
    /\ \A i \in DOMAIN batch : batch[i] \notin PayloadsOf(written)
    /\ Len(batch) <= MaxSeq - tail
    /\ Lock(c, "append", batch, now, 0, tail + Len(batch))

\* What a transaction writes to m/tail, and what txn.Delete leaves.
NewTailKeyOld == tail               \* mutant: the tail before the call
NewTailKey == call.newTail
DeletedNot(f, S) == f               \* mutant: no delete
Deleted(f, S) == Restrict(f, Keys(f) \ S)

AppendTxn(c) ==
    /\ pc[c] = "append"
    /\ LET new == (tail + 1)..call.newTail IN
         /\ pending' = [s \in Keys(pending) \cup new |->
              IF s \in new THEN [payload |-> call.payloads[s - tail], createdAt |-> call.now,
                                origin |-> NoOrigin]
              ELSE pending[s]]
         /\ written' = [s \in Keys(written) \cup new |->
              IF s \in new THEN [payload |-> call.payloads[s - tail], createdAt |-> call.now]
              ELSE written[s]]
    /\ tailKey' = NewTailKey
    /\ pc' = [pc EXCEPT ![c] = "written"]
    /\ UNCHANGED <<schema, dead, open, loadErr, tail, mu, call, acked, done>>

RequeueLock(c, seq) ==
    /\ tail # MaxSeq
    /\ Lock(c, "requeue", <<>>, 0, seq, tail + 1)

RequeueTxn(c) ==
    /\ pc[c] = "requeue" /\ call.seq \in Keys(dead)
    /\ pending' = [s \in Keys(pending) \cup {call.newTail} |->
                     IF s = call.newTail THEN dead[call.seq] ELSE pending[s]]
    /\ tailKey' = NewTailKey
    /\ dead' = Deleted(dead, {call.seq})
    /\ pc' = [pc EXCEPT ![c] = "written"]
    /\ call' = [call EXCEPT !.payloads = <<dead[call.seq].payload>>]
    /\ UNCHANGED <<schema, open, loadErr, tail, mu, histVars>>

\* mutant: the writer is told of success
TxnFailAcks(c) ==
    /\ pc[c] \in {"append", "requeue"}
    /\ mu' = NoCaller
    /\ pc' = [pc EXCEPT ![c] = "idle"]
    /\ call' = NoCall
    /\ acked' = acked \cup Range(call.payloads)
    /\ UNCHANGED <<dirVars, open, loadErr, tail, written, done>>

\* The transaction fails, or Requeue finds no dead letter (ErrNotFound).
TxnFail(c) ==
    /\ pc[c] \in {"append", "requeue"}
    /\ mu' = NoCaller
    /\ pc' = [pc EXCEPT ![c] = "idle"]
    /\ call' = NoCall
    /\ UNCHANGED <<dirVars, open, loadErr, tail, histVars>>

\* s.tail = newTail, and the call returns.
Return(c) ==
    /\ pc[c] = "written"
    /\ tail' = call.newTail
    /\ mu' = NoCaller
    /\ pc' = [pc EXCEPT ![c] = "idle"]
    /\ call' = NoCall
    /\ acked' = acked \cup Range(call.payloads)
    /\ UNCHANGED <<dirVars, open, loadErr, written, done>>

(***************************************************************************)
(* Completions.  A call that fails (ErrNotFound, ErrStateConflict, storage *)
(* error) changes nothing.                                                 *)
(***************************************************************************)
Commit(S) ==
    /\ open /\ S \subseteq Keys(pending)
    /\ pending' = Deleted(pending, S)
    /\ done' = done \cup {pending[s].payload : s \in S}
    /\ UNCHANGED <<schema, tailKey, dead, procVars, written, acked>>

\* The first dead-lettering names the position as the record's origin.
DeadEnvelopeRenames(s) == [pending[s] EXCEPT !.origin = s]  \* mutant: every one does
DeadEnvelope(s) ==
    [pending[s] EXCEPT !.origin = IF @ = NoOrigin THEN s ELSE @]

DeadLetter(s) ==
    /\ open /\ s \in Keys(pending) /\ s \notin Keys(dead)
    /\ dead' = [x \in Keys(dead) \cup {s} |-> IF x = s THEN DeadEnvelope(s) ELSE dead[x]]
    /\ pending' = Deleted(pending, {s})
    /\ UNCHANGED <<schema, tailKey, procVars, histVars>>

(***************************************************************************)
(* The process ends, in the middle of any call or by Root.Close.           *)
(***************************************************************************)
Crash ==
    /\ open
    /\ open' = FALSE /\ tail' = 0 /\ mu' = NoCaller
    /\ pc' = [c \in Callers |-> "idle"] /\ call' = NoCall
    /\ UNCHANGED <<dirVars, loadErr, histVars>>

-----------------------------------------------------------------------------
\* A batch of distinct payloads.
Batches ==
    {b \in UNION {[1..n -> Payloads] : n \in 1..MaxBatch} : IsInjective(b)}

Next ==
    \/ Load \/ Crash
    \/ \E c \in Callers :
         \/ \E batch \in Batches, now \in Times : AppendLock(c, batch, now)
         \/ \E s \in Seqs : RequeueLock(c, s)
         \/ AppendTxn(c) \/ RequeueTxn(c) \/ TxnFail(c) \/ Return(c)
    \/ \E S \in (SUBSET Keys(pending)) \ {{}} : Commit(S)
    \/ \E s \in Keys(pending) : DeadLetter(s)

Spec == Init /\ [][Next]_vars

-----------------------------------------------------------------------------
\* Whatever call a crash interrupts, the directory it leaves opens again:
\* load never meets a tail behind a record or a position in two states.
AlwaysReopens == LoadCheck = "none" /\ loadErr = "none"

\* Every record written is in exactly one place, once: pending, dead or
\* committed; and what a writer was told is safe has been written.
Conserved ==
    /\ acked \subseteq PayloadsOf(written)
    /\ PayloadsOf(written) = PayloadsOf(pending) \cup PayloadsOf(dead) \cup done
    /\ IsInjective(Payload(pending)) /\ IsInjective(Payload(dead))
    /\ PayloadsOf(pending) \cap PayloadsOf(dead) = {}
    /\ done \cap (PayloadsOf(pending) \cup PayloadsOf(dead)) = {}

\* e, stored now, was first written at position s.
WrittenAt(e, s) ==
    s \in Keys(written) /\ written[s] = [payload |-> e.payload, createdAt |-> e.createdAt]

\* Through any number of dead-letter and requeue round trips a record keeps
\* its creation time, and its origin is the position it was first written at.
IdentityKept ==
    /\ \A s \in Keys(pending) :
         WrittenAt(pending[s], IF pending[s].origin = NoOrigin THEN s ELSE pending[s].origin)
    /\ \A s \in Keys(dead) : WrittenAt(dead[s], dead[s].origin)

\* A position is given out once: what becomes pending lies beyond everything
\* the stream ever stored, also after a crash between the transaction and the
\* cached tail.
NoReuse ==
    [][/\ tailKey' >= tailKey
       /\ \A s \in Keys(pending') \ Keys(pending) : s > tailKey /\ s <= tailKey']_vars
=============================================================================
