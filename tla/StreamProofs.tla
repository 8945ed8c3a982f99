---------------------------- MODULE StreamProofs ----------------------------
(***************************************************************************)
(* The log, for any number of callers, readers, records and restarts.      *)
(* Every step of it is one its callers may see and keeps what is used of   *)
(* the log; and the store and the dispatcher keep in the composition the   *)
(* invariants they have on their own, because each is the environment the  *)
(* other assumes.                                                          *)
(***************************************************************************)
EXTENDS StreamSteps

-----------------------------------------------------------------------------
(***************************************************************************)
(* The promise: records are accepted, acknowledged and requeued.           *)
(***************************************************************************)
\* What was written is what the promise knows: it is queued, buried or was
\* completed.
LEMMA KnownWritten ==
    ASSUME StoreFacts, LogInv
    PROVE  P!Known = S!PayloadsOf(written)
<1>1. P!Of(completed) \subseteq S!PayloadsOf(written)
  <2>1. ASSUME NEW l \in completed PROVE l.payload \in S!PayloadsOf(written)
    <3>1. PICK h \in handed : l = Lease(h)
      BY DEF LogInv, HandedInv
    <3>2. l.payload = h.payload
      BY <3>1, Zenon DEF Lease
    <3> QED BY <3>2, Zenon DEF LogInv, HandedInv
  <2> QED BY <2>1, Zenon DEF P!Of
<1>2. done \subseteq P!Of(completed)
  BY DEF LogInv, HandedInv, P!Of
<1>3. S!PayloadsOf(written) = S!PayloadsOf(pending) \cup S!PayloadsOf(dead) \cup done
  BY DEF StoreFacts, S!Conserved
<1> QED BY <1>1, <1>2, <1>3, Zenon DEF P!Known

\* Leases are of the handle, its deliveries and the table of leases.
LEMMA LeaseFrame ==
    ASSUME UNCHANGED <<handed, handle, inFlight>>
    PROVE  LiveLeases' = LiveLeases /\ Given' = Given
<1>1. \A l : l \in LiveLeases' <=> l \in LiveLeases
  BY LiveForm, LiveNext, Zenon
<1>2. Given' = Given
  BY DEF Given, Lease
<1> QED BY <1>1, <1>2, Zenon

\* The transaction of Write accepts the batch.
LEMMA AcceptWrite ==
    ASSUME StoreFacts, LogInv, NEW c \in Callers, S!AppendTxn(c),
           UNCHANGED dispatchVars, UNCHANGED logVars
    PROVE  \E B \in SUBSET Payloads : P!Accept(B)
<1> DEFINE B == {call.payloads[i] : i \in DOMAIN call.payloads}
           new == (tail + 1)..call.newTail
<1>1. /\ tail = tailKey /\ tail \in Nat /\ call.payloads \in Seq(Payloads)
      /\ call.newTail = tail + Len(call.payloads)
      /\ \A i \in DOMAIN call.payloads : call.payloads[i] \notin S!PayloadsOf(written)
  BY SMTT(20) DEF S!AppendTxn, StoreFacts, S!TypeOK, S!Call
<1>2. B \in SUBSET Payloads /\ B \cap P!Known = {}
  BY <1>1, KnownWritten, SMTT(20)
<1>3. /\ \A s \in new : s - tail \in DOMAIN call.payloads /\ s \notin DOMAIN pending
      /\ \A i \in DOMAIN call.payloads : tail + i \in new /\ (tail + i) - tail = i
  BY <1>1 DEF StoreFacts
<1>4. /\ DOMAIN pending' = DOMAIN pending \cup new
      /\ \A s \in DOMAIN pending : pending'[s] = pending[s]
      /\ \A s \in new : pending'[s].payload = call.payloads[s - tail]
  BY <1>3, Zenon DEF S!AppendTxn, S!Keys
<1> HIDE DEF new
<1>5. S!PayloadsOf(pending') = S!PayloadsOf(pending) \cup B
  BY <1>3, <1>4, SMTT(20) DEF S!PayloadsOf
<1>6. UNCHANGED <<dead, acked, completed, handed, handle, inFlight>>
  BY Zenon DEF S!AppendTxn, dispatchVars, logVars
<1>7. LiveLeases' = LiveLeases /\ Given' = Given /\ S!PayloadsOf(dead') = S!PayloadsOf(dead)
  BY <1>6, LeaseFrame DEF S!PayloadsOf
<1> HIDE DEF B
<1>8. P!Accept(B)
  BY <1>2, <1>5, <1>6, <1>7, Zenon DEF P!Accept, Given
<1> QED BY <1>2, <1>8, Zenon

\* The transaction of Requeue takes back one buried record.
LEMMA RequeueBuried ==
    ASSUME StoreFacts, LogInv, NEW c \in Callers, S!RequeueTxn(c),
           UNCHANGED dispatchVars, UNCHANGED logVars
    PROVE  \E p \in Payloads : P!Requeue(p)
<1> DEFINE p == dead[call.seq].payload
<1>1. /\ call.seq \in DOMAIN dead /\ call.newTail = tailKey + 1 /\ tailKey \in Nat
      /\ p \in Payloads
  BY SMTT(20) DEF S!RequeueTxn, StoreFacts, S!TypeOK, S!Keys, S!Envelope
<1>2. call.newTail \notin DOMAIN pending
  BY <1>1 DEF StoreFacts
<1>3. /\ DOMAIN pending' = DOMAIN pending \cup {call.newTail}
      /\ \A s \in DOMAIN pending : pending'[s] = pending[s]
      /\ pending'[call.newTail].payload = p
  BY <1>2 DEF S!RequeueTxn, S!Keys
<1>4. /\ DOMAIN dead' = DOMAIN dead \ {call.seq}
      /\ \A s \in DOMAIN dead' : dead'[s] = dead[s]
  BY Zenon DEF S!RequeueTxn, S!Deleted, S!Restrict, S!Keys
<1>5. \A s \in DOMAIN dead : dead[s].payload = p => s = call.seq
  <2>1. S!IsInjective(S!Payload(dead))
    BY DEF StoreFacts, S!Conserved
  <2>2. /\ DOMAIN S!Payload(dead) = DOMAIN dead
        /\ \A x \in DOMAIN dead : S!Payload(dead)[x] = dead[x].payload
    BY DEF S!Payload
  <2> QED BY <1>1, <2>1, <2>2, Zenon DEF S!IsInjective
<1>6. UNCHANGED <<acked, completed, handed, handle, inFlight>>
  BY DEF S!RequeueTxn, S!histVars, dispatchVars, logVars
<1>7. LiveLeases' = LiveLeases /\ Given' = Given
  BY <1>6, LeaseFrame, Zenon
<1>8. p \in S!PayloadsOf(dead)
  BY <1>1, Zenon DEF S!PayloadsOf
<1> HIDE DEF p
<1>9. S!PayloadsOf(pending') = S!PayloadsOf(pending) \cup {p}
  BY <1>3, SMTT(20) DEF S!PayloadsOf
<1>10. S!PayloadsOf(dead') = S!PayloadsOf(dead) \ {p}
  BY <1>1, <1>4, <1>5 DEF S!PayloadsOf, p
<1>11. P!Requeue(p)
  BY <1>6, <1>7, <1>8, <1>9, <1>10, Zenon DEF P!Requeue, Given
<1> QED BY <1>1, <1>11

\* The return of a call acknowledges what it stored.
LEMMA AcknowledgeReturn ==
    ASSUME StoreFacts, LogInv, NEW c \in Callers, StoreReturn(c)
    PROVE  \E B \in SUBSET Payloads : P!Acknowledge(B)
<1> DEFINE B == S!Range(call.payloads)
<1>1. /\ call.payloads \in Seq(Payloads)
      /\ \A i \in DOMAIN call.payloads : call.payloads[i] \in S!PayloadsOf(written)
  BY Zenon DEF StoreReturn, S!Return, StoreFacts, S!TypeOK, S!Call
<1>2. B \in SUBSET Payloads /\ B \subseteq P!Known
  BY <1>1, KnownWritten, SMTT(20) DEF S!Range
<1> HIDE DEF B
<1>3. /\ UNCHANGED <<pending, dead, completed, handed, handle, inFlight>>
      /\ acked' = acked \cup B
  BY DEF StoreReturn, S!Return, S!dirVars, dispatchVars, B
<1>4. LiveLeases' = LiveLeases /\ Given' = Given
  BY <1>3, LeaseFrame, Zenon
<1>5. UNCHANGED <<S!PayloadsOf(pending), S!PayloadsOf(dead)>>
  BY <1>3, Zenon DEF S!PayloadsOf
<1>6. P!Acknowledge(B)
  BY <1>2, <1>3, <1>4, <1>5, Zenon DEF P!Acknowledge, Given
<1> QED BY <1>2, <1>6, Zenon

-----------------------------------------------------------------------------
(***************************************************************************)
(* Every step of the log is one its callers may see.                       *)
(***************************************************************************)
\* No step of the dispatcher but one of Read begins a lease.
LEMMA OtherShrinks ==
    ASSUME LeaseFacts, NEW I,
           \/ D!Retry(I) \/ D!Reject(I) \/ \E e \in Extensions : D!Extend(I, e)
           \/ D!Snapshot \/ D!Tick \/ D!Close \/ D!Notify
           \/ \E r \in Readers : D!Cancel(r) \/ \E n \in Counts : D!StartRead(r, n)
    PROVE  Shrinking
<1>1. CASE D!Retry(I)
  <2>1. /\ DOMAIN inFlight' = DOMAIN D!Live \ D!ReceiptsOf(I)
        /\ \A x \in DOMAIN inFlight' : inFlight'[x] = D!Live[x]
    BY <1>1, Zenon DEF D!Retry, D!Restrict
  <2> QED BY <2>1, SweepShrinks, Zenon DEF Shrinking
<1>2. CASE D!Reject(I) \/ D!Snapshot
  BY <1>2, SweepShrinks, Zenon DEF D!Reject, D!Snapshot, D!expireLocked, Shrinking
<1>3. ASSUME NEW e \in Extensions, D!Extend(I, e) PROVE Shrinking
  <2>1. DOMAIN inFlight' = DOMAIN D!Live
    BY <1>3 DEF D!Extend
  <2>2. ASSUME NEW x \in DOMAIN inFlight'
        PROVE  /\ x \in DOMAIN inFlight /\ inFlight'[x].seq = inFlight[x].seq
               /\ inFlight'[x].attempt = inFlight[x].attempt
    <3>1. x \in DOMAIN inFlight /\ D!Live[x] = inFlight[x] /\ inFlight[x] \in D!Flight
      BY <2>1, SweepShrinks DEF LeaseFacts, D!TypeOK
    <3>2. inFlight'[x] \in {D!Live[x], [D!Live[x] EXCEPT !.deadline = @ + e]}
      BY <1>3, <2>1 DEF D!Extend
    <3> QED BY <3>1, <3>2, Zenon DEF D!Flight
  <2> QED BY <2>2, Zenon DEF Shrinking
<1>4. CASE D!Tick
  <2>1. /\ DOMAIN inFlight' = DOMAIN inFlight
        /\ \A x \in DOMAIN inFlight :
             inFlight'[x] = [inFlight[x] EXCEPT !.deadline = D!Less1(@)]
    BY <1>4, Zenon DEF D!Tick
  <2>2. \A x \in DOMAIN inFlight : inFlight[x] \in D!Flight
    BY Zenon DEF LeaseFacts, D!TypeOK
  <2> QED BY <2>1, <2>2 DEF Shrinking, D!Flight
<1>5. CASE \/ D!Close \/ D!Notify
           \/ \E r \in Readers : D!Cancel(r) \/ \E n \in Counts : D!StartRead(r, n)
  BY <1>5, Zenon DEF D!Close, D!Notify, D!Cancel, D!StartRead, D!laneVars, Shrinking
<1> QED BY <1>1, <1>2, <1>3, <1>4, <1>5, Zenon

\* The steps that neither store, nor lease, nor complete anything.
LEMMA LapseSteps ==
    ASSUME LeaseFacts, LogInv,
           \/ Open \/ Restart \/ Close \/ Stats \/ Tick
           \/ \E c \in Callers :
                \/ \E batch \in S!Batches, now \in Times : Write(c, batch, now)
                \/ \E s \in S!Seqs : Requeue(c, s)
                \/ S!TxnFail(c) /\ UNCHANGED <<dispatchVars, logVars>>
                \/ Notify(c)
           \/ \E r \in Readers : Cancel(r) \/ \E n \in Counts : StartRead(r, n)
           \/ \E H \in Calls : Reschedule(H)
    PROVE  P!Lapse
<1>1. CASE Restart
  BY <1>1, LapseRestart, Zenon DEF Restart, S!Crash, S!dirVars, S!histVars, PromiseFrame
<1>2. CASE Open \/ \E c \in Callers :
             \/ \E batch \in S!Batches, now \in Times : Write(c, batch, now)
             \/ \E s \in S!Seqs : Requeue(c, s)
             \/ S!TxnFail(c) /\ UNCHANGED <<dispatchVars, logVars>>
  <2>1. UNCHANGED <<inFlight, handed, handle>> /\ PromiseFrame
    BY <1>2, Zenon
         DEF Open, S!Load, Write, Requeue, S!AppendLock, S!RequeueLock, S!Lock, S!TxnFail,
             S!dirVars, S!histVars, dispatchVars, logVars, PromiseFrame
  <2> QED BY <2>1, LapseStep, Zenon DEF Shrinking
<1>3. CASE \/ Close \/ Stats \/ Tick \/ \E c \in Callers : Notify(c)
           \/ \E r \in Readers : Cancel(r) \/ \E n \in Counts : StartRead(r, n)
           \/ \E H \in Calls : Reschedule(H)
  <2>1. UNCHANGED <<handed, handle>> /\ PromiseFrame
    BY <1>3, Zenon
         DEF Close, Stats, Tick, Notify, Cancel, StartRead, Reschedule, storeVars, logVars,
             PromiseFrame
  <2>2. Shrinking
    BY <1>3, OtherShrinks, Zenon DEF Close, Stats, Tick, Notify, Cancel, StartRead, Reschedule
  <2> QED BY <2>1, <2>2, LapseStep
<1> QED BY <1>1, <1>2, <1>3, Zenon

\* A step of Read lets leases lapse, or gives leases that nobody holds.
LEMMA ReadDelivers ==
    ASSUME StoreFacts, LeaseFacts, LogInv, NEW r \in Readers, ReadStep(r)
    PROVE  P!Lapse \/ P!Deliver(LiveLeases' \ LiveLeases)
<1>1. ReadLog /\ D!ReadStep(r) /\ S!TypeOK /\ S!Conserved
  BY DEF ReadStep, ReadLog, Selected, StoreFacts
<1>2. PromiseFrame /\ handle' = handle
  BY <1>1 DEF ReadLog, PromiseFrame, storeVars
<1>3. CASE Shrinking /\ Issued' = Issued
  BY <1>1, <1>2, <1>3, HandedSteps, LapseStep, Zenon
<1>4. ASSUME NEW receipt \in Receipts,
             D!TakeFresh(r, receipt) \/ \E q \in retries : D!TakeRetry(r, q, receipt)
      PROVE  P!Deliver(LiveLeases' \ LiveLeases)
  <2>1. Issued' = Issued
    BY <1>4, TakeLeases, Zenon
  <2>2. PICK s \in DOMAIN pending, a \in D!Attempts :
             /\ Leasing(s, a, receipt) /\ Unused(s, a)
             /\ \A x \in DOMAIN inFlight : inFlight[x].seq # s
    BY <1>4, TakeLeases, Zenon
  <2>3. handed' = handed
    BY <1>1, <2>1, HandedSteps
  <2> QED BY <1>1, <1>2, <2>2, <2>3, DeliverTake, Zenon
<1>5. CASE D!TakeDone(r)
  <2>1. handed' = handed \cup Selected
    BY <1>1, <1>5, HandedSteps, Zenon
  <2>2. inFlight' = inFlight
    BY <1>5 DEF D!TakeDone, D!laneVars
  <2> QED BY <1>1, <1>2, <2>1, <2>2, DeliverReturn, Zenon
<1> QED BY <1>1, <1>3, <1>4, <1>5, ReadCases, Zenon

\* Every step of the log is a step of the promise.
LEMMA PromiseStep ==
    ASSUME StoreFacts, LeaseFacts, LogInv, [Next]_vars
    PROVE  [P!PNext]_(P!promiseVars)
<1>1. ASSUME NEW c \in Callers, StoreStep(c) \/ StoreReturn(c) PROVE P!PNext
  <2>1. CASE S!AppendTxn(c) /\ UNCHANGED <<dispatchVars, logVars>>
    BY <2>1, AcceptWrite DEF P!PNext
  <2>2. CASE S!RequeueTxn(c) /\ UNCHANGED <<dispatchVars, logVars>>
    BY <2>2, RequeueBuried DEF P!PNext
  <2>3. CASE S!TxnFail(c) /\ UNCHANGED <<dispatchVars, logVars>>
    BY <2>3, LapseSteps DEF P!PNext
  <2>4. CASE StoreReturn(c)
    BY <2>4, AcknowledgeReturn DEF P!PNext
  <2> QED BY <1>1, <2>1, <2>2, <2>3, <2>4, Zenon DEF StoreStep
<1>2. ASSUME NEW r \in Readers, ReadStep(r) PROVE P!PNext
  BY <1>2, ReadDelivers, Zenon DEF P!PNext
<1>3. ASSUME NEW H \in Calls, Commit(H) PROVE P!PNext
  BY <1>3, FinishCommit, Zenon DEF StoreFacts, P!PNext
<1>4. ASSUME NEW h \in handed, unwrap(h), DeadLetter(h) PROVE P!PNext
  BY <1>4, BuryDeadLetter DEF StoreFacts, P!PNext
<1>5. CASE \/ Open \/ Restart \/ Close \/ Stats \/ Tick
           \/ \E c \in Callers :
                \/ \E batch \in S!Batches, now \in Times : Write(c, batch, now)
                \/ \E s \in S!Seqs : Requeue(c, s)
                \/ Notify(c)
           \/ \E r \in Readers : Cancel(r) \/ \E n \in Counts : StartRead(r, n)
           \/ \E H \in Calls : Reschedule(H)
  BY <1>5, LapseSteps DEF P!PNext
<1>6. CASE UNCHANGED vars
  <2>1. UNCHANGED <<pending, dead, acked, completed, handed, handle, inFlight>>
    BY <1>6 DEF vars, storeVars, dispatchVars, logVars
  <2>2. LiveLeases' = LiveLeases /\ Given' = Given
    BY <2>1, LeaseFrame, Zenon
  <2>3. UNCHANGED <<S!PayloadsOf(pending), S!PayloadsOf(dead)>>
    BY <2>1 DEF S!PayloadsOf
  <2> QED BY <2>1, <2>2, <2>3, Zenon DEF P!promiseVars, Given
<1> QED BY <1>1, <1>2, <1>3, <1>4, <1>5, <1>6, Zenon DEF Next

-----------------------------------------------------------------------------
(***************************************************************************)
(* The log keeps what is used of it.                                       *)
(***************************************************************************)
\* What a call of the store does to the callers' places.
LEMMA CallSteps ==
    ASSUME FiniteFacts, StoreFacts, CallInv, NEW c \in Callers,
           \/ StoreStep(c) \/ StoreReturn(c) \/ Notify(c)
           \/ \E batch \in S!Batches, now \in Times : Write(c, batch, now)
           \/ \E s \in S!Seqs : Requeue(c, s)
    PROVE  CallInv'
<1> DEFINE places == {"idle", "append", "requeue", "written"}
<1>0. /\ pc \in [Callers -> places] /\ notifying \in [Callers -> BOOLEAN] /\ handle \in Nat
      /\ IsFiniteSet(Announcing)
      /\ \A d \in Callers : notifying[d] => pc[d] = "idle"
  BY DEF StoreFacts, S!TypeOK, CallInv
<1>1. ASSUME NEW batch \in S!Batches, NEW now \in Times, Write(c, batch, now) PROVE CallInv'
  <2>1. /\ UNCHANGED <<handle, notifying>> /\ ~notifying[c] /\ mu = NoCaller
        /\ pc' = [pc EXCEPT ![c] = "append"] /\ call'.payloads = batch
    BY <1>1 DEF Write, S!AppendLock, S!Lock, logVars
  <2>2. Announcing' = Announcing
    <3>1. \A d \in Callers : pc'[d] = "written" <=> pc[d] = "written"
      BY <1>0, <1>1, <2>1 DEF Write, S!AppendLock, S!Lock
    <3> QED BY <2>1, <3>1 DEF Announcing
  <2>3. Len(batch) \in 1..MaxBatch
    <3>1. PICK n \in 1..MaxBatch : batch \in [1..n -> Payloads]
      BY DEF S!Batches
    <3> QED BY <3>1, StoreAssumption
  <2> QED BY <1>0, <2>1, <2>2, <2>3 DEF CallInv
<1>2. ASSUME NEW s \in S!Seqs, Requeue(c, s) PROVE CallInv'
  <2>1. /\ UNCHANGED <<handle, notifying>> /\ ~notifying[c] /\ mu = NoCaller /\ pc[c] = "idle"
        /\ pc' = [pc EXCEPT ![c] = "requeue"]
    BY <1>2 DEF Requeue, S!RequeueLock, S!Lock, logVars
  <2>2. \A d \in Callers : pc[d] = "idle"
    BY <2>1, StoreAssumption, Zenon DEF StoreFacts
  <2>3. \A d \in Callers : pc'[d] = IF d = c THEN "requeue" ELSE "idle"
    BY <1>0, <2>1, <2>2
  <2>4. Announcing' = Announcing
    BY <2>1, <2>2, <2>3 DEF Announcing
  <2> QED BY <1>0, <2>1, <2>3, <2>4 DEF CallInv
<1>3. CASE StoreStep(c)
  <2>1. /\ UNCHANGED <<handle, notifying>> /\ pc[c] \in {"append", "requeue"}
        /\ pc' \in {[pc EXCEPT ![c] = "written"], [pc EXCEPT ![c] = "idle"]}
    BY <1>3 DEF StoreStep, S!AppendTxn, S!RequeueTxn, S!TxnFail, logVars
  <2>2. \A d \in Callers \ {c} : pc[d] = "idle" /\ pc'[d] = "idle"
    BY <1>0, <2>1 DEF StoreFacts
  <2>3. pc'[c] \in {"written", "idle"}
    BY <1>0, <2>1
  <2>4. Announcing' = Announcing \/ Announcing' = Announcing \cup {c}
    BY <2>1, <2>2, <2>3 DEF Announcing
  <2>5. IsFiniteSet(Announcing')
    BY <1>0, <2>4, Zenon DEF FiniteFacts
  <2> QED BY <1>0, <2>1, <2>2, <2>3, <2>5, Zenon DEF CallInv
<1>4. CASE StoreReturn(c)
  <2>1. /\ pc[c] = "written" /\ pc' = [pc EXCEPT ![c] = "idle"] /\ handle' = handle
        /\ notifying' = [notifying EXCEPT ![c] = TRUE]
    BY <1>4 DEF StoreReturn, S!Return
  <2>2. \A d \in Callers \ {c} : pc[d] = "idle" /\ pc'[d] = "idle" /\ notifying'[d] = notifying[d]
    BY <1>0, <2>1 DEF StoreFacts
  <2>3. pc'[c] = "idle" /\ notifying'[c] = TRUE
    BY <1>0, <2>1
  <2>4. Announcing' = Announcing
    BY <2>1, <2>2, <2>3 DEF Announcing
  <2> QED BY <1>0, <2>1, <2>2, <2>3, <2>4, Zenon DEF CallInv
<1>5. CASE Notify(c)
  <2>1. /\ UNCHANGED <<handle, pc, call>> /\ notifying' = [notifying EXCEPT ![c] = FALSE]
    BY <1>5 DEF Notify, storeVars
  <2>2. \A d \in Callers : notifying'[d] => notifying[d]
    BY <1>0, <2>1
  <2>3. Announcing' \subseteq Announcing
    BY <2>1, <2>2 DEF Announcing
  <2>4. IsFiniteSet(Announcing')
    BY <1>0, <2>3, Zenon DEF FiniteFacts
  <2> QED BY <1>0, <2>1, <2>2, <2>4 DEF CallInv
<1> QED BY <1>1, <1>2, <1>3, <1>4, <1>5

\* A restart ends every call.
LEMMA CallRestart ==
    ASSUME FiniteFacts, CallInv, Restart
    PROVE  CallInv'
<1>1. /\ handle' = handle + 1 /\ notifying' = [c \in Callers |-> FALSE]
      /\ pc' = [c \in Callers |-> "idle"]
  BY DEF Restart, S!Crash
<1>2. Announcing' = {}
  BY <1>1 DEF Announcing
<1>3. IsFiniteSet(Announcing')
  BY <1>2, Zenon DEF FiniteFacts
<1> QED BY <1>1, <1>3 DEF CallInv

\* The other steps leave the callers' places alone.
LEMMA CallStep ==
    ASSUME FiniteFacts, StoreFacts, CallInv, [Next]_vars
    PROVE  CallInv'
<1>1. CASE UNCHANGED <<handle, notifying, pc, call>>
  <2>1. Announcing' = Announcing
    BY <1>1, Zenon DEF Announcing
  <2> QED BY <1>1, <2>1 DEF CallInv
<1>2. CASE \/ UNCHANGED vars \/ Open \/ Close \/ Stats \/ Tick
           \/ \E r \in Readers : ReadStep(r) \/ Cancel(r) \/ \E n \in Counts : StartRead(r, n)
           \/ \E H \in Calls : Commit(H) \/ Reschedule(H)
           \/ \E h \in handed : unwrap(h) /\ DeadLetter(h)
  BY <1>1, <1>2, Zenon
       DEF vars, Open, S!Load, Close, Stats, Tick, ReadStep, Cancel, StartRead, Commit,
           Reschedule, DeadLetter, S!Commit, S!DeadLetter, S!procVars, storeVars, logVars
<1> QED BY <1>2, CallSteps, CallRestart, Zenon DEF Next

\* The store grows at its tail: positions that are pending were pending with the
\* same record, or lie past the tail.
Growing ==
    /\ tailKey' \in Nat /\ tailKey <= tailKey'
    /\ \A s \in DOMAIN pending' :
         \/ s \in DOMAIN pending /\ pending'[s].payload = pending[s].payload
         \/ s > tailKey
    /\ S!PayloadsOf(written) \subseteq S!PayloadsOf(written')

\* The store's steps grow at the tail, or take records away.
LEMMA StoreGrows ==
    ASSUME StoreFacts,
           \/ UNCHANGED <<tailKey, pending, written>>
           \/ \E c \in Callers : S!AppendTxn(c) \/ S!RequeueTxn(c)
           \/ \E Q : S!Commit(Q)
           \/ \E s : S!DeadLetter(s)
    PROVE  Growing
<1>0. tailKey \in Nat /\ tail \in Nat /\ call.newTail \in Nat /\ call.payloads \in Seq(Payloads)
  BY DEF StoreFacts, S!TypeOK, S!Call
<1>1. CASE UNCHANGED <<tailKey, pending, written>>
  BY <1>0, <1>1 DEF Growing, S!PayloadsOf
<1>2. ASSUME NEW c \in Callers, S!AppendTxn(c) PROVE Growing
  <2> DEFINE new == (tail + 1)..call.newTail
  <2>1. tail = tailKey /\ call.newTail = tailKey + Len(call.payloads) /\ tailKey' = call.newTail
    BY <1>2, Zenon DEF S!AppendTxn, S!NewTailKey, StoreFacts
  <2>2. \A s \in new : s > tailKey
    BY <1>0, <2>1
  <2>3. /\ DOMAIN pending' = DOMAIN pending \cup new
        /\ \A s \in DOMAIN pending' : s \notin new => pending'[s] = pending[s]
        /\ DOMAIN written' = DOMAIN written \cup new
        /\ \A s \in DOMAIN written' : s \notin new => written'[s] = written[s]
        /\ \A s \in new : written'[s].payload = call.payloads[s - tail]
    BY <1>2 DEF S!AppendTxn, S!Keys
  <2>4. S!PayloadsOf(written) \subseteq S!PayloadsOf(written')
    <3>1. \A s \in DOMAIN written : s \notin new
      BY <1>0, <2>2 DEF StoreFacts
    <3> HIDE DEF new
    <3> QED BY <2>3, <3>1 DEF S!PayloadsOf
  <2> HIDE DEF new
  <2> QED BY <1>0, <2>1, <2>2, <2>3, <2>4, SMTT(20) DEF Growing
<1>3. ASSUME NEW c \in Callers, S!RequeueTxn(c) PROVE Growing
  <2>1. call.newTail = tailKey + 1 /\ tailKey' = call.newTail /\ written' = written
    BY <1>3, Zenon DEF S!RequeueTxn, S!NewTailKey, StoreFacts, S!histVars
  <2>2. /\ DOMAIN pending' = DOMAIN pending \cup {call.newTail}
        /\ \A s \in DOMAIN pending' : s # call.newTail => pending'[s] = pending[s]
    BY <1>3, Zenon DEF S!RequeueTxn, S!Keys
  <2>3. S!PayloadsOf(written') = S!PayloadsOf(written)
    BY <2>1, Zenon DEF S!PayloadsOf
  <2> QED BY <1>0, <2>1, <2>2, <2>3 DEF Growing
<1>4. ASSUME NEW Q, S!Commit(Q) \/ \E s : Q = {s} /\ S!DeadLetter(s) PROVE Growing
  <2>1. UNCHANGED <<tailKey, written>> /\ pending' = S!Deleted(pending, Q)
    BY <1>4, Zenon DEF S!Commit, S!DeadLetter, S!histVars
  <2>2. S!PayloadsOf(written') = S!PayloadsOf(written)
    BY <2>1 DEF S!PayloadsOf
  <2> QED BY <1>0, <2>1, <2>2 DEF Growing, S!Deleted, S!Restrict, S!Keys
<1> QED BY <1>1, <1>2, <1>3, <1>4, Zenon

\* What the deliveries name stays stored while the store grows.
LEMMA HandedGrows ==
    ASSUME StoreFacts, HandedInv, Growing, UNCHANGED <<handed, completed, done>>,
           handle \in Nat, handle' \in Nat, handle <= handle'
    PROVE  HandedInv'
<1>0. tailKey \in Nat
  BY TailNumbers
<1>1. \A h \in handed : h \in Delivery /\ h.owner \in Nat /\ h.seq \in Nat
  BY HandedNumbers
<1>2. ASSUME NEW h \in handed'
      PROVE  /\ h.owner <= handle' /\ h.seq <= tailKey'
             /\ h.payload \in S!PayloadsOf(written')
             /\ h.seq \in DOMAIN pending' => pending'[h.seq].payload = h.payload
  <2>1. /\ h \in handed /\ h.owner <= handle /\ h.seq <= tailKey
        /\ h.payload \in S!PayloadsOf(written)
        /\ h.seq \in DOMAIN pending => pending[h.seq].payload = h.payload
    BY DEF HandedInv
  <2>2. h.owner <= handle' /\ h.seq <= tailKey'
    BY <1>0, <1>1, <2>1 DEF Growing
  <2>3. h.seq \in DOMAIN pending' => pending'[h.seq].payload = h.payload
    BY <1>0, <1>1, <2>1 DEF Growing
  <2> QED BY <2>1, <2>2, <2>3 DEF Growing
<1>3. ASSUME NEW l \in completed' PROVE l.position \notin DOMAIN pending'
  <2>1. PICK h \in handed : l = Lease(h)
    BY DEF HandedInv
  <2>2. l.position = h.seq /\ l.position \notin DOMAIN pending
    BY <2>1 DEF HandedInv, Lease
  <2> QED BY <1>0, <1>1, <2>2 DEF Growing, HandedInv
<1>4. /\ handed' \subseteq Delivery /\ IsFiniteSet(handed')
      /\ completed' \subseteq {Lease(h) : h \in handed'}
      /\ done' \subseteq {l.payload : l \in completed'}
  BY DEF HandedInv
<1> QED BY <1>2, <1>3, <1>4, Zenon DEF HandedInv, Lease

\* The deliveries Read hands out name records that are pending.
LEMMA HandedRead ==
    ASSUME FiniteFacts, StoreFacts, LeaseFacts, LogInv, NEW r \in Readers, ReadStep(r)
    PROVE  HandedInv'
<1>0. UNCHANGED <<handle, completed, done, pending, tailKey, written>> /\ handle \in Nat
  BY DEF ReadStep, storeVars, LogInv, CallInv
<1>1. CASE handed' = handed
  <2>1. Growing
    BY <1>0, StoreGrows
  <2> QED BY <1>0, <1>1, <2>1, HandedGrows DEF LogInv
<1>2. CASE handed' = handed \cup Selected
  <2>1. ASSUME NEW i \in DOMAIN selected
        PROVE  /\ wrap(selected[i]) \in Delivery /\ selected[i].seq \in DOMAIN pending
               /\ wrap(selected[i]).owner = handle
               /\ wrap(selected[i]).seq = selected[i].seq
               /\ wrap(selected[i]).payload = pending[selected[i].seq].payload
    BY <1>0, SelectedFacts DEF StoreFacts, wrap
  <2>2. S!PayloadsOf(pending) \subseteq S!PayloadsOf(written)
    BY DEF StoreFacts, S!Conserved
  <2>3. ASSUME NEW h \in Selected
        PROVE  /\ h \in Delivery /\ h.owner <= handle /\ h.seq <= tailKey
               /\ h.payload \in S!PayloadsOf(written)
               /\ h.seq \in DOMAIN pending => pending[h.seq].payload = h.payload
    <3>1. PICK i \in DOMAIN selected : h = wrap(selected[i])
      BY DEF Selected
    <3>2. h.payload \in S!PayloadsOf(pending)
      BY <2>1, <3>1 DEF S!PayloadsOf
    <3>3. h.seq <= tailKey
      BY <2>1, <3>1 DEF StoreFacts
    <3> QED BY <1>0, <2>1, <2>2, <3>1, <3>2, <3>3
  <2>4. IsFiniteSet(Selected)
    <3> DEFINE f == [i \in DOMAIN selected |-> wrap(selected[i])]
    <3>1. DOMAIN selected = 1..Len(selected) /\ Len(selected) \in Nat
      BY DEF LeaseFacts, D!TypeOK
    <3>2. IsFiniteSet(DOMAIN selected)
      BY <3>1, Zenon DEF FiniteFacts
    <3>3. Selected = {f[i] : i \in DOMAIN selected}
      BY Zenon DEF Selected
    <3> HIDE DEF f
    <3> QED BY <3>2, <3>3, FiniteImage, Zenon
  <2>5. IsFiniteSet(handed') /\ handed' \subseteq Delivery
    BY <1>2, <2>3, <2>4, Zenon DEF FiniteFacts, LogInv, HandedInv
  <2>6. ASSUME NEW h \in handed'
        PROVE  /\ h.owner <= handle' /\ h.seq <= tailKey'
               /\ h.payload \in S!PayloadsOf(written')
               /\ h.seq \in DOMAIN pending' => pending'[h.seq].payload = h.payload
    BY <1>0, <1>2, <2>3 DEF LogInv, HandedInv
  <2>7. /\ completed' \subseteq {Lease(h) : h \in handed'}
        /\ \A l \in completed' : l.position \notin DOMAIN pending'
        /\ done' \subseteq {l.payload : l \in completed'}
    BY <1>0, <1>2 DEF LogInv, HandedInv
  <2> QED BY <2>5, <2>6, <2>7, Zenon DEF HandedInv, Lease
<1> QED BY <1>1, <1>2 DEF ReadStep, Selected

-----------------------------------------------------------------------------
(***************************************************************************)
(* The steps that change what has been handed out, and the log as a whole. *)
(***************************************************************************)
\* Completing deliveries takes their records away for good.
LEMMA HandedCompletes ==
    ASSUME StoreFacts, LogInv, NEW H \in SUBSET handed, Growing,
           UNCHANGED <<handed, handle>>,
           completed' = completed \cup {Lease(h) : h \in H},
           \A h \in H : h.seq \notin DOMAIN pending',
           \A p \in done' : p \in done \/ \E h \in H : p = h.payload
    PROVE  HandedInv'
<1>0. tailKey \in Nat /\ handle \in Nat
  BY TailNumbers, Zenon DEF LogInv, CallInv
<1>1. \A h \in handed : h \in Delivery /\ h.seq \in Nat
  BY HandedNumbers, Zenon DEF LogInv
<1>2. ASSUME NEW h \in handed'
      PROVE  /\ h.owner <= handle' /\ h.seq <= tailKey'
             /\ h.payload \in S!PayloadsOf(written')
             /\ h.seq \in DOMAIN pending' => pending'[h.seq].payload = h.payload
  <2>1. /\ h \in handed /\ h.owner <= handle /\ h.seq <= tailKey
        /\ h.payload \in S!PayloadsOf(written)
        /\ h.seq \in DOMAIN pending => pending[h.seq].payload = h.payload
    BY DEF LogInv, HandedInv
  <2>2. h.owner <= handle' /\ h.seq <= tailKey'
    BY <1>0, <1>1, <2>1 DEF Growing
  <2>3. h.seq \in DOMAIN pending' => pending'[h.seq].payload = h.payload
    BY <1>0, <1>1, <2>1 DEF Growing
  <2> QED BY <2>1, <2>2, <2>3, Zenon DEF Growing
<1>3. ASSUME NEW l \in completed' PROVE l.position \notin DOMAIN pending'
  <2>1. PICK h \in handed : l = Lease(h) /\ (l \in completed \/ h \in H)
    BY DEF LogInv, HandedInv
  <2>2. l.position = h.seq
    BY <2>1 DEF Lease
  <2>3. CASE h \in H
    BY <2>2, <2>3, SMTT(20)
  <2>4. CASE l \in completed
    <3>1. h.seq \notin DOMAIN pending
      BY <2>2, <2>4 DEF LogInv, HandedInv
    <3>2. h.seq <= tailKey
      BY DEF LogInv, HandedInv
    <3> QED BY <1>0, <1>1, <2>2, <3>1, <3>2, SMTT(20) DEF Growing
  <2> QED BY <2>1, <2>3, <2>4
<1>4. /\ handed' \subseteq Delivery /\ IsFiniteSet(handed')
      /\ completed' \subseteq {Lease(h) : h \in handed'}
  BY DEF LogInv, HandedInv
<1>5. \A p \in done' : \E l \in completed' : p = l.payload
  <2>1. \A p \in done : \E l \in completed : p = l.payload
    BY DEF LogInv, HandedInv
  <2>2. \A h \in H : Lease(h) \in completed' /\ Lease(h).payload = h.payload
    BY Zenon DEF Lease
  <2> QED BY <2>1, <2>2
<1>6. done' \subseteq {l.payload : l \in completed'}
  BY <1>5
<1> QED BY <1>2, <1>3, <1>4, <1>6, Zenon DEF HandedInv, Lease

\* Commit and DeadLetter complete deliveries.
LEMMA HandedCommit ==
    ASSUME StoreFacts, LeaseFacts, LogInv,
           \/ \E H \in Calls : Commit(H)
           \/ \E h \in handed : unwrap(h) /\ DeadLetter(h)
    PROVE  HandedInv'
<1>1. ASSUME NEW H \in Calls, Commit(H) PROVE HandedInv'
  <2>1. H \in SUBSET handed /\ \A h \in H : unwrap(h)
    BY DEF Calls
  <2>2. /\ UNCHANGED <<handed, handle>> /\ completed' = completed \cup {Lease(h) : h \in H}
        /\ pending' = S!Deleted(pending, {h.seq : h \in H})
        /\ done' = done \cup {pending[s].payload : s \in {h.seq : h \in H}}
    BY <1>1 DEF Commit, S!Commit
  <2>3. \A h \in H : h.seq \notin DOMAIN pending'
    BY <2>2, Zenon DEF S!Deleted, S!Restrict, S!Keys
  <2>4. Releasing(H)
    BY <1>1, <2>1, ReleaseSteps, Zenon DEF Commit, D!Commit
  <2>5. \A h \in H : pending[h.seq].payload = h.payload
    BY <2>1, <2>4, HeldPending, Zenon DEF Releasing
  <2>6. \A p \in done' : p \in done \/ \E h \in H : p = h.payload
    BY <2>2, <2>5, SMTT(20)
  <2>7. Growing
    BY <1>1, StoreGrows, Zenon DEF Commit
  <2> QED BY <2>1, <2>2, <2>3, <2>6, <2>7, HandedCompletes, Zenon
<1>2. ASSUME NEW h \in handed, DeadLetter(h) PROVE HandedInv'
  <2>1. /\ UNCHANGED <<handed, handle, done>>
        /\ completed' = completed \cup {Lease(g) : g \in {h}}
        /\ pending' = S!Deleted(pending, {h.seq})
    BY <1>2, SMTT(20) DEF DeadLetter, S!DeadLetter, S!histVars
  <2>2. \A g \in {h} : g.seq \notin DOMAIN pending'
    BY <2>1 DEF S!Deleted, S!Restrict, S!Keys
  <2>3. Growing
    BY <1>2, StoreGrows DEF DeadLetter
  <2>4. {h} \in SUBSET handed /\ \A p \in done' : p \in done \/ \E g \in {h} : p = g.payload
    BY <2>1
  <2> QED BY <2>1, <2>2, <2>3, <2>4, HandedCompletes, Zenon
<1> QED BY <1>1, <1>2

\* Every step of the log keeps what is used of it.
LEMMA LogStep ==
    ASSUME FiniteFacts, StoreFacts, LeaseFacts, LogInv, [Next]_vars
    PROVE  LogInv'
<1>0. CallInv /\ HandedInv /\ handle \in Nat
  BY DEF LogInv, CallInv
<1>1. CASE /\ UNCHANGED <<handed, completed, done>> /\ handle' \in {handle, handle + 1}
           /\ \/ UNCHANGED <<tailKey, pending, written>>
              \/ \E c \in Callers : S!AppendTxn(c) \/ S!RequeueTxn(c)
  <2>1. Growing
    BY <1>1, StoreGrows
  <2>2. handle' \in Nat /\ handle <= handle'
    BY <1>0, <1>1, SMTT(20)
  <2> QED BY <1>0, <1>1, <2>1, <2>2, CallStep, HandedGrows, Zenon DEF LogInv
<1>2. CASE \/ UNCHANGED vars \/ Open \/ Close \/ Stats \/ Tick \/ Restart
           \/ \E r \in Readers : Cancel(r) \/ \E n \in Counts : StartRead(r, n)
           \/ \E H \in Calls : Reschedule(H)
  BY <1>1, <1>2, Zenon
       DEF vars, Open, S!Load, Close, Stats, Tick, Restart, S!Crash, Cancel, StartRead,
           Reschedule, S!dirVars, S!histVars, storeVars, logVars
<1>3. ASSUME NEW c \in Callers,
             \/ \E batch \in S!Batches, now \in Times : Write(c, batch, now)
             \/ \E s \in S!Seqs : Requeue(c, s)
             \/ StoreReturn(c) \/ Notify(c)
      PROVE  LogInv'
  BY <1>1, <1>3, Zenon
       DEF Write, Requeue, StoreReturn, Notify, S!AppendLock, S!RequeueLock, S!Lock,
           S!Return, S!dirVars, S!histVars, storeVars, logVars
<1>4. ASSUME NEW c \in Callers, StoreStep(c) PROVE LogInv'
  BY <1>1, <1>4, Zenon
       DEF StoreStep, S!AppendTxn, S!RequeueTxn, S!TxnFail, S!dirVars, S!histVars,
           logVars
<1>5. ASSUME NEW r \in Readers, ReadStep(r) PROVE LogInv'
  BY <1>0, <1>5, CallStep, HandedRead DEF LogInv
<1>6. CASE \/ \E H \in Calls : Commit(H)
           \/ \E h \in handed : unwrap(h) /\ DeadLetter(h)
  BY <1>0, <1>6, CallStep, HandedCommit, Zenon DEF LogInv
<1> QED BY <1>2, <1>3, <1>4, <1>5, <1>6, Zenon DEF Next

\* The log begins with nothing handed out.
LEMMA LogInit ==
    ASSUME FiniteFacts, Init
    PROVE  LogInv
<1>1. /\ handle = 1 /\ notifying = [c \in Callers |-> FALSE] /\ handed = {} /\ completed = {}
      /\ pc = [c \in Callers |-> "idle"] /\ done = {}
  BY DEF Init, S!Init
<1>2. Announcing = {}
  BY <1>1 DEF Announcing
<1>3. IsFiniteSet(Announcing) /\ IsFiniteSet(handed)
  BY <1>1, <1>2, Zenon DEF FiniteFacts
<1> QED BY <1>1, <1>3 DEF LogInv, CallInv, HandedInv

\* Nor is anything promised.
LEMMA PromiseInit == Init => P!PInit
<1> SUFFICES ASSUME Init PROVE P!PInit
  OBVIOUS
<1>1. /\ handed = {} /\ completed = {} /\ pending = S!Empty /\ dead = S!Empty /\ acked = {}
  BY DEF Init, S!Init
<1>2. LiveLeases = {} /\ Given = {}
  <2>1. \A l : l \notin LiveLeases
    BY <1>1, LiveForm
  <2> QED BY <1>1, <2>1 DEF Given
<1>3. S!PayloadsOf(pending) = {} /\ S!PayloadsOf(dead) = {}
  BY <1>1 DEF S!PayloadsOf, S!Empty
<1> QED BY <1>1, <1>2, <1>3 DEF P!PInit, Given

\* Every step of the log is a step of the store, or one it does not see.
LEMMA StoreNext ==
    ASSUME FiniteFacts, [Next]_vars
    PROVE  [S!Next]_(S!vars)
<1>1. CASE UNCHANGED storeVars
  BY <1>1 DEF storeVars, S!vars, S!dirVars, S!procVars, S!histVars
<1>2. CASE \/ UNCHANGED vars \/ Close \/ Stats \/ Tick \/ \E c \in Callers : Notify(c)
           \/ \E r \in Readers : ReadStep(r) \/ Cancel(r) \/ \E n \in Counts : StartRead(r, n)
           \/ \E H \in Calls : Reschedule(H)
  BY <1>1, <1>2, Zenon DEF vars, Close, Stats, Tick, Notify, ReadStep, Cancel, StartRead, Reschedule
<1>3. CASE Open \/ Restart
  BY <1>3, Zenon DEF Open, Restart, S!Next
<1>4. ASSUME NEW c \in Callers,
             \/ \E batch \in S!Batches, now \in Times : Write(c, batch, now)
             \/ \E s \in S!Seqs : Requeue(c, s)
             \/ StoreStep(c) \/ StoreReturn(c)
      PROVE  S!Next
  BY <1>4, Zenon DEF Write, Requeue, StoreStep, StoreReturn, S!Next
<1>5. ASSUME NEW H \in Calls, Commit(H) PROVE S!Next
  <2> DEFINE Q == {h.seq : h \in H}
  <2>1. S!Commit(Q) /\ Q \in SUBSET S!Keys(pending)
    BY <1>5, Zenon DEF Commit, S!Commit
  <2>2. H # {}
    BY StoreAssumption DEF FiniteFacts, Calls
  <2>3. Q # {}
    BY <2>2
  <2> HIDE DEF Q
  <2>4. Q \in (SUBSET S!Keys(pending)) \ {{}}
    BY <2>1, <2>3, Zenon
  <2> QED BY <2>1, <2>4, Zenon DEF S!Next
<1>6. ASSUME NEW h \in handed, DeadLetter(h) PROVE S!Next
  BY <1>6, Zenon DEF DeadLetter, S!DeadLetter, S!Next
<1> QED BY <1>2, <1>3, <1>4, <1>5, <1>6, Zenon DEF Next

\* Two live leases are on two records.
LEMMA LeasesApart ==
    ASSUME LeaseFacts, StoreFacts, LogInv, NEW l \in LiveLeases, NEW m \in LiveLeases,
           l.payload = m.payload
    PROVE  l = m
<1>1. PICK g \in handed : g.owner = handle /\ D!Holds(Inner(g)) /\ l = Lease(g)
  BY LiveForm, Zenon
<1>2. PICK h \in handed : h.owner = handle /\ D!Holds(Inner(h)) /\ m = Lease(h)
  BY LiveForm
<1>3. g.payload = h.payload
  BY <1>1, <1>2, Zenon DEF Lease
<1>4. /\ g.seq \in DOMAIN pending /\ pending[g.seq].payload = g.payload
      /\ h.seq \in DOMAIN pending /\ pending[h.seq].payload = h.payload
  BY <1>1, <1>2, HeldPending, Zenon
<1>5. g.seq = h.seq
  BY <1>3, <1>4, OnePosition, Zenon DEF StoreFacts
<1>6. /\ g.receipt \in DOMAIN inFlight /\ inFlight[g.receipt].seq = g.seq
      /\ inFlight[g.receipt].attempt = g.attempt
      /\ h.receipt \in DOMAIN inFlight /\ inFlight[h.receipt].seq = h.seq
      /\ inFlight[h.receipt].attempt = h.attempt
  BY <1>1, <1>2, LiveForm, Zenon
<1>7. g.receipt = h.receipt
  BY <1>5, <1>6, FlightFacts, Zenon
<1>8. g.attempt = h.attempt
  BY <1>6, <1>7
<1> QED BY <1>1, <1>2, <1>3, <1>5, <1>8, Zenon DEF Lease

-----------------------------------------------------------------------------
(***************************************************************************)
(* Finite sets.                                                            *)
(***************************************************************************)
INSTANCE FiniteSetTheorems

\* What the log relies on of finite sets is so.
LEMMA FiniteHolds == FiniteFacts
<1>1. /\ IsFiniteSet({}) /\ Cardinality({}) = 0
      /\ \A A : IsFiniteSet(A) => Cardinality(A) \in Nat /\ (Cardinality(A) = 0 <=> A = {})
  BY FS_EmptySet, FS_CardinalityType, Zenon
<1>2. \A A, x : IsFiniteSet(A) =>
        /\ IsFiniteSet(A \cup {x})
        /\ x \notin A => Cardinality(A \cup {x}) = Cardinality(A) + 1
  BY FS_AddElement
<1>3. \A A : IsFiniteSet(A) => \A B \in SUBSET A : IsFiniteSet(B)
  BY FS_Subset, Zenon
<1>4. \A A, B : IsFiniteSet(A) /\ IsFiniteSet(B) => IsFiniteSet(A \cup B)
  BY FS_Union, Zenon
<1>5. ASSUME NEW A, NEW f, IsFiniteSet(A)
      PROVE  IsFiniteSet({f[x] : x \in A}) /\ Cardinality({f[x] : x \in A}) <= Cardinality(A)
  <2> DEFINE T == {f[x] : x \in A}
             g == [x \in A |-> f[x]]
  <2>1. g \in Surjection(A, T)
    BY DEF Surjection
  <2> HIDE DEF T, g
  <2>2. IsFiniteSet(T) /\ Cardinality(T) <= Cardinality(A)
    BY <1>5, <2>1, FS_Surjection, Zenon
  <2> QED BY <2>2 DEF T
<1>6. \A n \in Nat : IsFiniteSet(1..n)
  BY FS_Interval
<1> QED BY <1>1, <1>2, <1>3, <1>4, <1>5, <1>6, Zenon DEF FiniteFacts

\* What the dispatcher relies on of finite sets.
LEMMA FiniteInjections ==
    /\ \A n \in Nat : IsFiniteSet(1..n)
    /\ \A A, B, f : f \in Injection(A, B) /\ IsFiniteSet(B) => IsFiniteSet(A)
    /\ \A A : IsFiniteSet(A) => Cardinality(A) \in Nat /\ \A B \in SUBSET A : IsFiniteSet(B)
<1>1. \A A, B, f : f \in Injection(A, B) /\ IsFiniteSet(B) => IsFiniteSet(A)
  BY FS_Injection, Zenon
<1> QED BY <1>1, FiniteHolds, Zenon DEF FiniteFacts

-----------------------------------------------------------------------------
(***************************************************************************)
(* The store with what is proved of it, under the assumptions of the log.  *)
(***************************************************************************)
SP == INSTANCE StoreProofs

\* S and SP are instances of one specification.
LEMMA SameStore == S!Next => SP!Next
<1> SUFFICES ASSUME S!Next PROVE SP!Next
  OBVIOUS
<1> QED
  BY Zenon DEF
       S!Next, SP!Next, S!DeadLetter, SP!DeadLetter, S!histVars, SP!histVars,
       S!procVars, SP!procVars, S!Deleted, SP!Deleted, S!Keys, SP!Keys,
       S!DeadEnvelope, SP!DeadEnvelope, S!NoOrigin, SP!NoOrigin, S!Commit,
       SP!Commit, S!Return, SP!Return, S!dirVars, SP!dirVars, S!NoCall,
       SP!NoCall, S!TxnFail, SP!TxnFail, S!RequeueTxn, SP!RequeueTxn,
       S!NewTailKey, SP!NewTailKey, S!AppendTxn, SP!AppendTxn, S!RequeueLock,
       SP!RequeueLock, S!Lock, SP!Lock, S!Seqs, SP!Seqs, S!AppendLock,
       SP!AppendLock, S!PayloadsOf, SP!PayloadsOf, S!Batches, SP!Batches,
       S!Crash, SP!Crash, S!Load, SP!Load, S!LoadedTail, SP!LoadedTail,
       S!LoadCheck, SP!LoadCheck, S!Restrict, SP!Restrict, S!Range, SP!Range,
       S!IsInjective, SP!IsInjective

\* What changes no variable of the store.
LEMMA SameStoreFrame == UNCHANGED S!vars => UNCHANGED SP!vars
BY Zenon DEF S!vars, SP!vars, S!dirVars, SP!dirVars, S!procVars, SP!procVars, S!histVars,
             SP!histVars

\* A step of the store keeps its invariant.
LEMMA StoreKeeps == SP!IInv /\ [S!Next]_(S!vars) => SP!IInv'
BY SP!InvStep, SameStore, SameStoreFrame, StoreAssumption, Zenon

\* The store gives what the log relies on.
LEMMA StoreGives == SP!IInv => StoreFacts
<1> SUFFICES ASSUME SP!IInv PROVE StoreFacts
  OBVIOUS
<1>1. S!TypeOK
  BY Zenon DEF SP!IInv, SP!TypeOK, S!TypeOK, SP!Keys, S!Keys, SP!Seqs, S!Seqs, SP!Envelope,
               S!Envelope, SP!Call, S!Call
<1>2. S!Conserved
  BY Zenon DEF SP!IInv, SP!Conserved, S!Conserved, SP!PayloadsOf, S!PayloadsOf, SP!Payload,
               S!Payload, SP!IsInjective, S!IsInjective
<1>3. /\ \A s \in DOMAIN pending \cup DOMAIN written : s <= tailKey
      /\ \A c \in Callers : pc[c] # "idle" <=> mu = c
      /\ mu # NoCaller => open
      /\ open /\ (\A c \in Callers : pc[c] # "written") => tail = tailKey
  BY Zenon DEF SP!IInv, SP!DirInv, SP!LockInv, SP!TailInv, SP!Keys
<1>4. \A c \in Callers :
        /\ pc[c] = "append" =>
             /\ call.newTail = tail + Len(call.payloads)
             /\ \A i \in DOMAIN call.payloads : call.payloads[i] \notin S!PayloadsOf(written)
        /\ pc[c] = "requeue" => call.newTail = tail + 1
        /\ pc[c] = "written" =>
             \A i \in DOMAIN call.payloads : call.payloads[i] \in S!PayloadsOf(written)
  BY Zenon DEF SP!IInv, SP!TailInv, SP!PayloadsOf, S!PayloadsOf
<1>5. \A c \in Callers : pc[c] \in {"append", "requeue"} => tail = tailKey
  BY <1>3, StoreAssumption, Zenon
<1> QED BY <1>1, <1>2, <1>3, <1>4, <1>5, Zenon DEF StoreFacts

\* The store of a new directory has its invariant.
LEMMA StoreBegins == S!Init => SP!IInv
<1>1. S!Init => SP!Init
  BY ZenonT(40) DEF S!Init, SP!Init, S!Empty, SP!Empty, S!NoCall, SP!NoCall
<1> QED BY <1>1, SP!InvInit, StoreAssumption, Zenon

-----------------------------------------------------------------------------
(***************************************************************************)
(* The dispatcher with what is proved of it, likewise.                     *)
(***************************************************************************)
DP == INSTANCE DispatcherSteps WITH
        pending <- DOMAIN pending, tail <- tailKey,
        unnotified <- Cardinality({c \in Callers : pc[c] = "written" \/ notifying[c]}),
        mu <- dmu, pc <- rpc, issued <- Issued, AppendBound <- MaxSeq

\* D and DP are instances of one specification.
LEMMA SameNext == D!Next => DP!Next
<1> SUFFICES ASSUME D!Next PROVE DP!Next
  OBVIOUS
<1> QED
  BY ZenonT(60) DEF
       D!Next, DP!Next, D!Tick, DP!Tick, D!takeVars, DP!takeVars, D!scanVars,
       DP!scanVars, D!storeVars, DP!storeVars, D!Less1, DP!Less1, D!FarFuture,
       DP!FarFuture, D!PastOrder, DP!PastOrder, D!Close, DP!Close, D!readerVars,
       DP!readerVars, D!laneVars, DP!laneVars, D!Snapshot, DP!Snapshot,
       D!expireLocked, DP!expireLocked, D!SweptWatermark, DP!SweptWatermark,
       D!Earliest, DP!Earliest, D!Live, DP!Live, D!Due, DP!Due, D!SweptStates,
       DP!SweptStates, D!Seqs, DP!Seqs, D!SweptRetries, DP!SweptRetries,
       D!nextAttempt, DP!nextAttempt, D!Complete, DP!Complete, D!DeadLetter,
       DP!DeadLetter, D!Release, DP!Release, D!SeqsOf, DP!SeqsOf, D!ReceiptsOf,
       DP!ReceiptsOf, D!Accepted, DP!Accepted, D!Valid, DP!Valid, D!Extend,
       DP!Extend, D!Calls, DP!Calls, D!Reject, DP!Reject, D!Retry, DP!Retry,
       D!Commit, DP!Commit, D!StartRead, DP!StartRead, D!Goto, DP!Goto,
       D!Cancel, DP!Cancel, D!ReadStep, DP!ReadStep, D!WakeContext,
       DP!WakeContext, D!Return, DP!Return, D!NoWake, DP!NoWake, D!WakeTimer,
       DP!WakeTimer, D!Resume, DP!Resume, D!WakeSignal, DP!WakeSignal, D!Park,
       DP!Park, D!WaitOver, DP!WaitOver, D!MergeDone, DP!MergeDone, D!NoScan,
       DP!NoScan, D!MergeRecord, DP!MergeRecord, D!MergeStart, DP!MergeStart,
       D!ScanError, DP!ScanError, D!ScanBatch, DP!ScanBatch, D!IsBatch,
       DP!IsBatch, D!Batches, DP!Batches, D!FillStart, DP!FillStart, D!FillSkip,
       DP!FillSkip, D!TakeNone, DP!TakeNone, D!Unlock, DP!Unlock,
       D!nextWakeLocked, DP!nextWakeLocked, D!MoreToTake, DP!MoreToTake,
       D!FreshReady, DP!FreshReady, D!RetryReady, DP!RetryReady, D!TakeDone,
       DP!TakeDone, D!RollbackDone, DP!RollbackDone, D!RollbackOne,
       DP!RollbackOne, D!PushFront, DP!PushFront, D!TakeNoReceipt,
       DP!TakeNoReceipt, D!TakeRetry, DP!TakeRetry, D!Lease, DP!Lease, D!IsHead,
       DP!IsHead, D!Less, DP!Less, D!TakeFresh, DP!TakeFresh, D!ReadTake,
       DP!ReadTake, D!TopUpFirst, DP!TopUpFirst, D!ReadTopUp, DP!ReadTopUp,
       D!ReadClosed, DP!ReadClosed, D!Notify, DP!Notify, D!AppendBatch,
       DP!AppendBatch, D!Restrict, DP!Restrict, D!Min, DP!Min, D!Cardinality,
       DP!Cardinality

\* The dispatcher begins the same in both.
LEMMA SameInit == D!Init => DP!Init
<1> SUFFICES ASSUME D!Init PROVE DP!Init
  OBVIOUS
<1> QED
  BY ZenonT(30) DEF
       D!Init, DP!Init, D!NoWake, DP!NoWake, D!NoScan, DP!NoScan, D!Seqs,
       DP!Seqs, D!NoFlights, DP!NoFlights

\* What changes no variable of the dispatcher.
LEMMA SameFrame == UNCHANGED D!vars => UNCHANGED DP!vars
BY ZenonT(30) DEF D!vars, DP!vars, D!storeVars, DP!storeVars, D!laneVars,
             DP!laneVars, D!scanVars, DP!scanVars, D!takeVars, DP!takeVars,
             D!readerVars, DP!readerVars, D!Cardinality, DP!Cardinality

\* What the dispatcher relies on of finite sets is so.
LEMMA DispatcherFinite == DP!FiniteFacts
BY FiniteInjections, ZenonT(30) DEF DP!FiniteFacts, DP!IsFiniteSet, IsFiniteSet, DP!Cardinality,
                               Cardinality, DP!Injection, Injection, DP!IsInjective,
                               IsInjective

\* A step of the dispatcher keeps its invariants.
LEMMA DispatcherKeeps ==
    DP!IInv /\ DP!AttemptInv /\ DP!AttemptsContiguous /\ [D!Next]_(D!vars)
      => DP!IInv' /\ DP!AttemptInv' /\ DP!AttemptsContiguous'
BY DispatcherFinite, DP!InvStep, DP!AttemptStep, SameNext, SameFrame, StoreAssumption,
   DispatcherAssumption, SMTT(30)

\* The dispatcher gives what the log relies on.
LEMMA DispatcherGives == DP!IInv /\ DP!AttemptInv => LeaseFacts
<1> SUFFICES ASSUME DP!IInv, DP!AttemptInv PROVE LeaseFacts
  BY Zenon
<1>1. D!TypeOK
  BY ZenonT(30) DEF DP!IInv, DP!TypeOK, D!TypeOK, DP!Seqs, D!Seqs, DP!Queued, D!Queued, DP!Flight,
               D!Flight, DP!States, D!States, DP!FarFuture, D!FarFuture, DP!Selection,
               D!Selection, DP!Scan, D!Scan, DP!NoWake, D!NoWake, DP!Issue, D!Issue,
               DP!Attempts, D!Attempts, DP!Cardinality, D!Cardinality
<1>2. D!LaneConsistency /\ D!NothingLost
  BY ZenonT(30) DEF DP!IInv, DP!LaneConsistency, D!LaneConsistency, DP!LanesAgree, D!LanesAgree,
               DP!NothingLost, D!NothingLost, DP!Seqs, D!Seqs
<1>3. \A i \in DOMAIN selected :
        /\ selected[i].receipt \in DOMAIN inFlight
        /\ inFlight[selected[i].receipt].seq = selected[i].seq
        /\ inFlight[selected[i].receipt].attempt = selected[i].attempt
        /\ Unused(selected[i].seq, selected[i].attempt)
  BY ZenonT(30) DEF DP!IInv, DP!SelectionInv, DP!AttemptInv, DP!Later, Unused
<1>4. \A q \in retries : Unused(q.seq, q.attempt)
  BY ZenonT(30) DEF DP!AttemptInv, DP!Later, Unused
<1>5. \A i \in DOMAIN fresh, d \in Issued : d.seq # fresh[i]
  BY DP!FreshUndelivered, StoreAssumption, DispatcherAssumption, SMTT(30)
<1> QED BY <1>1, <1>2, <1>3, <1>4, <1>5, ZenonT(30) DEF LeaseFacts

\* The dispatcher New makes over the directory has its invariants.
LEMMA DispatcherBegins == D!Init => DP!IInv /\ DP!AttemptInv /\ DP!AttemptsContiguous
BY DP!InvInit, DP!AttemptInit, SameInit, StoreAssumption, DispatcherAssumption, SMTT(30)

-----------------------------------------------------------------------------
(***************************************************************************)
(* The theorems.                                                           *)
(***************************************************************************)
\* The invariants of the store, of the dispatcher and of the log together.
ComposedInv ==
    /\ SP!IInv
    /\ DP!IInv /\ DP!AttemptInv /\ DP!AttemptsContiguous
    /\ LogInv

\* Store and dispatcher keep their invariants in the log, across restarts.
THEOREM Composed == Spec => []ComposedInv
<1>1. Init => ComposedInv
  BY StoreBegins, DispatcherBegins, FiniteHolds, LogInit, SMTT(30) DEF Init, ComposedInv
<1>2. ASSUME ComposedInv, [Next]_vars,
             (D!Init => DP!IInv /\ DP!AttemptInv /\ DP!AttemptsContiguous)'
      PROVE  ComposedInv'
  <2>1. StoreFacts /\ LeaseFacts
    BY <1>2, StoreGives, DispatcherGives, ZenonT(30) DEF ComposedInv
  <2>2. LogInv'
    BY <1>2, <2>1, FiniteHolds, LogStep, SMTT(30) DEF ComposedInv
  <2>3. SP!IInv'
    BY <1>2, FiniteHolds, StoreNext, StoreKeeps, SMTT(30) DEF ComposedInv
  <2>4. [D!Next]_(D!vars) \/ D!Init'
    BY <1>2, <2>1, FiniteHolds, EnvStep, SMTT(30) DEF ComposedInv
  <2>5. DP!IInv' /\ DP!AttemptInv' /\ DP!AttemptsContiguous'
    BY <1>2, <2>4, DispatcherKeeps, ZenonT(30) DEF ComposedInv
  <2> QED BY <2>2, <2>3, <2>5, SMTT(30) DEF ComposedInv
<1> QED BY <1>1, <1>2, DispatcherBegins, PTL DEF Spec

\* The store and the log are an environment the dispatcher is verified in.
THEOREM EnvironmentSound == Spec => SoundEnvironment
<1>1. ComposedInv /\ [Next]_vars => [D!Next \/ (handle' # handle /\ D!Init')]_(D!vars)
  BY StoreGives, FiniteHolds, EnvStep, ZenonT(30) DEF ComposedInv
<1> QED BY <1>1, Composed, PTL DEF Spec, SoundEnvironment

\* The log keeps its promise, for any number of callers, readers and restarts.
THEOREM PromiseKept == Spec => KeepsPromise
<1>1. ComposedInv /\ [Next]_vars => [P!PNext]_(P!promiseVars)
  BY StoreGives, DispatcherGives, PromiseStep, SMTT(30) DEF ComposedInv
<1> QED BY <1>1, PromiseInit, Composed, PTL DEF Spec, KeepsPromise, P!PSpec

\* What the components promise holds in the log too, whatever the callers, the
\* readers and the restarts do: every record stored is in one place,
\* every tracked record waits in one lane, none is skipped, and attempts are
\* counted without gaps.
THEOREM ComponentsKept ==
    Spec => [](/\ S!Conserved /\ D!LaneConsistency /\ D!NothingLost
               /\ DP!AttemptsContiguous)
<1>1. ComposedInv => /\ S!Conserved /\ D!LaneConsistency /\ D!NothingLost
                     /\ DP!AttemptsContiguous
  BY StoreGives, DispatcherGives, ZenonT(30) DEF ComposedInv, StoreFacts, LeaseFacts
<1> QED BY <1>1, Composed, PTL

\* What a writer was told is safe is pending, is a dead letter, or was completed
\* by the delivery that held its lease; and no two readers hold leases on one
\* record.
THEOREM AckedAndLeased ==
    Spec => [](/\ acked \subseteq P!Known
               /\ \A l, m \in LiveLeases : l.payload = m.payload => l = m)
<1>1. ComposedInv => acked \subseteq P!Known
  BY StoreGives, KnownWritten, ZenonT(30) DEF ComposedInv, StoreFacts, S!Conserved
<1>2. ComposedInv => \A l, m \in LiveLeases : l.payload = m.payload => l = m
  BY StoreGives, DispatcherGives, LeasesApart, ZenonT(30) DEF ComposedInv
<1> QED BY <1>1, <1>2, Composed, PTL

=============================================================================
