---------------------------- MODULE StoreProofs ----------------------------
(***************************************************************************)
(* The durable layer keeps every record, gives out every position once,    *)
(* always reopens, and implements the abstract queue, for any number of    *)
(* callers, records and positions.                                         *)
(***************************************************************************)
EXTENDS StoreQueue, TLAPS

-----------------------------------------------------------------------------
(***************************************************************************)
(* The inductive invariant.                                                *)
(***************************************************************************)
\* Exactly the caller inside a call holds the mutex, of an open handle.
LockInv ==
    /\ \A c \in Callers : pc[c] # "idle" <=> mu = c
    /\ mu # NoCaller => open
    /\ call.payloads \in Seq(Payloads)

\* The cached tail is the stored one except between the transaction of a call
\* and its return, and the locals of the call in progress are what it computed.
TailInv ==
    /\ open /\ (\A c \in Callers : pc[c] # "written") => tail = tailKey
    /\ \A c \in Callers :
         /\ pc[c] = "append" =>
              /\ call.newTail = tail + Len(call.payloads) /\ call.payloads # <<>>
              /\ call.now \in Times
              /\ IsInjective(call.payloads)
              /\ \A i \in DOMAIN call.payloads : call.payloads[i] \notin PayloadsOf(written)
         /\ pc[c] = "requeue" => call.newTail = tail + 1
         /\ pc[c] = "written" =>
              /\ call.newTail = tailKey
              /\ \A i \in DOMAIN call.payloads : call.payloads[i] \in PayloadsOf(written)

\* The tail covers every position ever used, and none is in two states.
DirInv ==
    /\ \A s \in Keys(pending) \cup Keys(dead) \cup Keys(written) : s <= tailKey
    /\ Keys(pending) \cap Keys(dead) = {}
    /\ loadErr = "none"

IInv == TypeOK /\ LockInv /\ TailInv /\ DirInv /\ Conserved /\ IdentityKept

-----------------------------------------------------------------------------
\* The locals outside a call are well typed.
LEMMA NoCallType == NoCall \in Call
BY StoreAssumption DEF NoCall, Call

\* An empty directory satisfies the invariant.
LEMMA InvInit == Init => IInv
<1> SUFFICES ASSUME Init PROVE IInv
  OBVIOUS
<1> USE DEF Init, Keys, Empty
<1>1. TypeOK
  <2>1. pending \in [Keys(pending) -> Envelope] /\ dead \in [Keys(dead) -> Envelope]
        /\ written \in [Keys(written) -> [payload : Payloads, createdAt : Times]]
    OBVIOUS
  <2>2. tailKey \in 0..MaxSeq /\ tail \in 0..MaxSeq
    BY StoreAssumption
  <2> QED BY <2>1, <2>2, NoCallType, Zenon DEF TypeOK
<1>2. LockInv
  BY StoreAssumption DEF LockInv, NoCall
<1>3. TailInv /\ DirInv
  BY DEF TailInv, DirInv
<1>4. Conserved
  BY DEF Conserved, PayloadsOf, Payload, IsInjective
<1>5. IdentityKept
  BY DEF IdentityKept
<1> QED BY <1>1, <1>2, <1>3, <1>4, <1>5 DEF IInv

\* Every step keeps the state well typed.
LEMMA TypeStep == TypeOK /\ LockInv /\ TailInv /\ [Next]_vars => TypeOK'
<1> SUFFICES ASSUME TypeOK, LockInv, TailInv, [Next]_vars PROVE TypeOK'
  OBVIOUS
<1> USE DEF dirVars, procVars, histVars, Keys
<1>1. CASE Load
  <2>1. tail' \in 0..MaxSeq
    BY <1>1, StoreAssumption DEF Load, LoadedTail, TypeOK
  <2>2. /\ loadErr' \in {"none", "ErrTailRegression", "ErrStateConflict"}
        /\ open' \in BOOLEAN /\ schema' \in {"none", "v1"}
    BY <1>1 DEF Load, LoadCheck, TypeOK
  <2> QED BY <1>1, <2>1, <2>2 DEF Load, TypeOK
<1>2. CASE Crash
  <2>1. tail' \in 0..MaxSeq
    BY <1>2, StoreAssumption DEF Crash
  <2> QED BY <1>2, <2>1, NoCallType, Zenon DEF Crash, TypeOK
<1>3. ASSUME NEW c \in Callers, NEW batch \in Batches, NEW now \in Times, AppendLock(c, batch, now)
      PROVE  TypeOK'
  <2>1. batch \in Seq(Payloads) /\ Len(batch) \in Nat
    BY StoreAssumption DEF Batches
  <2>2. tail + Len(batch) \in 0..MaxSeq
    BY <1>3, <2>1, StoreAssumption DEF AppendLock, TypeOK
  <2>3. call' \in Call
    BY <1>3, <2>1, <2>2, StoreAssumption DEF AppendLock, Lock, Call
  <2> QED BY <1>3, <2>3 DEF AppendLock, Lock, TypeOK
<1>4. ASSUME NEW c \in Callers, NEW s \in Seqs, RequeueLock(c, s)
      PROVE  TypeOK'
  <2>1. tail + 1 \in 0..MaxSeq /\ s \in 0..MaxSeq
    BY <1>4, StoreAssumption DEF RequeueLock, TypeOK, Seqs
  <2>2. call' \in Call
    BY <1>4, <2>1 DEF RequeueLock, Lock, Call
  <2> QED BY <1>4, <2>2 DEF RequeueLock, Lock, TypeOK
<1>5. ASSUME NEW c \in Callers, AppendTxn(c)
      PROVE  TypeOK'
  <2> DEFINE new == (tail + 1)..call.newTail
  <2>1. /\ call.payloads \in Seq(Payloads) /\ call.now \in Times /\ call.newTail \in 0..MaxSeq
        /\ call.newTail = tail + Len(call.payloads) /\ tail \in Nat
    BY <1>5 DEF AppendTxn, LockInv, TailInv, TypeOK, Call
  <2>2. new \subseteq Seqs /\ \A s \in new : s - tail \in DOMAIN call.payloads
    BY <2>1, StoreAssumption DEF Seqs
  <2>3. \A s \in new : call.payloads[s - tail] \in Payloads
    BY <2>1, <2>2
  <2> HIDE DEF new
  <2>4. \A s \in new : [payload |-> call.payloads[s - tail], createdAt |-> call.now,
                        origin |-> NoOrigin] \in Envelope
    BY <2>1, <2>3, StoreAssumption DEF Envelope, NoOrigin
  <2>5. Keys(pending') \subseteq Seqs /\ pending' \in [Keys(pending') -> Envelope]
    BY <1>5, <2>2, <2>4 DEF AppendTxn, TypeOK, new
  <2>6. Keys(written') \subseteq Seqs
        /\ written' \in [Keys(written') -> [payload : Payloads, createdAt : Times]]
    BY <1>5, <2>1, <2>2, <2>3 DEF AppendTxn, TypeOK, new
  <2> QED BY <1>5, <2>1, <2>5, <2>6 DEF AppendTxn, NewTailKey, TypeOK
<1>6. ASSUME NEW c \in Callers, RequeueTxn(c)
      PROVE  TypeOK'
  <2>1. call \in Call /\ call.seq \in Keys(dead) /\ dead[call.seq] \in Envelope
    BY <1>6 DEF RequeueTxn, TypeOK
  <2>2. call.newTail \in Seqs
    BY <1>6, <2>1, StoreAssumption DEF RequeueTxn, TailInv, TypeOK, Call, Seqs
  <2>3. <<dead[call.seq].payload>> \in Seq(Payloads)
    BY <2>1 DEF Envelope
  <2>4. call' \in Call
    BY <1>6, <2>1, <2>3, Zenon DEF RequeueTxn, Call
  <2>5. Keys(pending') \subseteq Seqs /\ pending' \in [Keys(pending') -> Envelope]
    BY <1>6, <2>1, <2>2 DEF RequeueTxn, TypeOK
  <2>6. Keys(dead') \subseteq Seqs /\ dead' \in [Keys(dead') -> Envelope]
    BY <1>6 DEF RequeueTxn, Deleted, Restrict, TypeOK
  <2>7. tailKey' \in 0..MaxSeq
    BY <1>6, <2>1 DEF RequeueTxn, NewTailKey, Call
  <2> QED BY <1>6, <2>4, <2>5, <2>6, <2>7, Zenon DEF RequeueTxn, TypeOK
<1>7. ASSUME NEW c \in Callers, TxnFail(c) \/ Return(c)
      PROVE  TypeOK'
  <2>1. NoCall \in Call
    BY NoCallType
  <2>2. Range(call.payloads) \subseteq Payloads
    BY DEF LockInv, Range
  <2>3. call.newTail \in 0..MaxSeq
    BY DEF TypeOK, Call
  <2> QED BY <1>7, <2>1, <2>2, <2>3 DEF TxnFail, Return, TypeOK
<1>8. ASSUME NEW S \in SUBSET Keys(pending), Commit(S)
      PROVE  TypeOK'
  <2>1. {pending[s].payload : s \in S} \subseteq Payloads
    BY DEF TypeOK, Envelope
  <2>2. Keys(pending') \subseteq Seqs /\ pending' \in [Keys(pending') -> Envelope]
    BY <1>8 DEF Commit, Deleted, Restrict, TypeOK
  <2> QED BY <1>8, <2>1, <2>2 DEF Commit, TypeOK
<1>9. ASSUME NEW s \in Keys(pending), DeadLetter(s)
      PROVE  TypeOK'
  <2>1. DeadEnvelope(s) \in Envelope
    BY StoreAssumption DEF TypeOK, Envelope, DeadEnvelope, Seqs
  <2>2. Keys(pending') \subseteq Seqs /\ pending' \in [Keys(pending') -> Envelope]
    BY <1>9 DEF DeadLetter, Deleted, Restrict, TypeOK
  <2>3. Keys(dead') \subseteq Seqs /\ dead' \in [Keys(dead') -> Envelope]
    BY <1>9, <2>1 DEF DeadLetter, TypeOK
  <2> QED BY <1>9, <2>2, <2>3, Zenon DEF DeadLetter, TypeOK
<1>10. CASE UNCHANGED vars
  BY <1>10 DEF vars, TypeOK
<1> QED BY <1>1, <1>2, <1>3, <1>4, <1>5, <1>6, <1>7, <1>8, <1>9, <1>10 DEF Next

\* Every step keeps the mutex with the caller inside a call.
LEMMA LockStep == TypeOK /\ LockInv /\ [Next]_vars => LockInv'
<1> SUFFICES ASSUME TypeOK, LockInv, [Next]_vars PROVE LockInv'
  OBVIOUS
<1> USE DEF dirVars, procVars, histVars
<1> USE StoreAssumption
<1>0. NoCall.payloads \in Seq(Payloads)
  BY DEF NoCall
<1>1. CASE Load
  BY <1>1 DEF Load, LockInv
<1>2. CASE Crash
  BY <1>0, <1>2 DEF Crash, LockInv
<1>3. ASSUME NEW c \in Callers, NEW batch \in Batches, NEW now \in Times, AppendLock(c, batch, now)
      PROVE  LockInv'
  <2>1. batch \in Seq(Payloads)
    BY DEF Batches
  <2> QED BY <1>3, <2>1 DEF AppendLock, Lock, LockInv, TypeOK
<1>4. ASSUME NEW c \in Callers, NEW s \in Seqs, RequeueLock(c, s)
      PROVE  LockInv'
  BY <1>4 DEF RequeueLock, Lock, LockInv, TypeOK
<1>5. ASSUME NEW c \in Callers, AppendTxn(c)
      PROVE  LockInv'
  BY <1>5 DEF AppendTxn, LockInv, TypeOK
<1>6. ASSUME NEW c \in Callers, RequeueTxn(c)
      PROVE  LockInv'
  <2>1. call \in Call /\ dead[call.seq] \in Envelope
    BY <1>6 DEF RequeueTxn, TypeOK, Keys
  <2>2. call'.payloads \in Seq(Payloads)
    BY <1>6, <2>1 DEF RequeueTxn, Call, Envelope
  <2> QED BY <1>6, <2>2 DEF RequeueTxn, LockInv, TypeOK
<1>7. ASSUME NEW c \in Callers, TxnFail(c) \/ Return(c)
      PROVE  LockInv'
  BY <1>0, <1>7 DEF TxnFail, Return, LockInv, TypeOK
<1>8. ASSUME NEW S \in SUBSET Keys(pending), Commit(S)
      PROVE  LockInv'
  BY <1>8 DEF Commit, LockInv
<1>9. ASSUME NEW s \in Keys(pending), DeadLetter(s)
      PROVE  LockInv'
  BY <1>9 DEF DeadLetter, LockInv
<1>10. CASE UNCHANGED vars
  BY <1>10 DEF vars, LockInv
<1> QED BY <1>1, <1>2, <1>3, <1>4, <1>5, <1>6, <1>7, <1>8, <1>9, <1>10 DEF Next

\* The positions of the append in progress.
NewSeqs == (tail + 1)..call.newTail

\* Where the transaction of an append puts its records: past the tail.
LEMMA AppendFacts ==
    ASSUME TypeOK, LockInv, TailInv, DirInv, NEW c \in Callers, AppendTxn(c)
    PROVE  /\ tail = tailKey /\ tailKey \in Nat /\ tailKey' \in Nat /\ tailKey <= tailKey'
           /\ tailKey' = call.newTail
           /\ \A s \in NewSeqs : s \in Nat /\ s > tailKey /\ s <= tailKey'
           /\ \A s \in NewSeqs : s - tail \in DOMAIN call.payloads
           /\ \A i \in DOMAIN call.payloads : tail + i \in NewSeqs /\ (tail + i) - tail = i
           /\ \A s \in NewSeqs : s \notin Keys(pending) /\ s \notin Keys(dead) /\ s \notin Keys(written)
           /\ Keys(pending') = Keys(pending) \cup NewSeqs
           /\ \A s \in Keys(pending) : pending'[s] = pending[s]
           /\ \A s \in NewSeqs : pending'[s] = [payload |-> call.payloads[s - tail],
                                            createdAt |-> call.now, origin |-> NoOrigin]
           /\ Keys(written') = Keys(written) \cup NewSeqs
           /\ \A s \in Keys(written) : written'[s] = written[s]
           /\ \A s \in NewSeqs : written'[s] = [payload |-> call.payloads[s - tail],
                                            createdAt |-> call.now]
<1>1. open /\ \A d \in Callers : pc[d] # "written"
  BY StoreAssumption DEF AppendTxn, LockInv
<1>2. tail = tailKey /\ tailKey' = call.newTail /\ call.newTail = tail + Len(call.payloads)
  BY <1>1 DEF AppendTxn, TailInv, NewTailKey
<1>3. tail \in Nat /\ call.payloads \in Seq(Payloads) /\ call.newTail \in Nat
  BY DEF TypeOK, LockInv, Call
<1>4. /\ tailKey \in Nat /\ tailKey' \in Nat /\ tailKey <= tailKey'
      /\ \A s \in NewSeqs : s \in Nat /\ s > tailKey /\ s <= tailKey'
      /\ \A s \in NewSeqs : s - tail \in DOMAIN call.payloads
      /\ \A i \in DOMAIN call.payloads : tail + i \in NewSeqs /\ (tail + i) - tail = i
  BY <1>2, <1>3 DEF NewSeqs
<1>5. \A s \in NewSeqs : s \notin Keys(pending) /\ s \notin Keys(dead) /\ s \notin Keys(written)
  BY <1>4 DEF DirInv
<1>6. /\ Keys(pending') = Keys(pending) \cup NewSeqs
      /\ \A s \in Keys(pending) : pending'[s] = pending[s]
      /\ \A s \in NewSeqs : pending'[s] = [payload |-> call.payloads[s - tail],
                                       createdAt |-> call.now, origin |-> NoOrigin]
  BY <1>5 DEF AppendTxn, Keys, NewSeqs
<1>7. /\ Keys(written') = Keys(written) \cup NewSeqs
      /\ \A s \in Keys(written) : written'[s] = written[s]
      /\ \A s \in NewSeqs : written'[s] = [payload |-> call.payloads[s - tail],
                                       createdAt |-> call.now]
  BY <1>5 DEF AppendTxn, Keys, NewSeqs
<1> QED BY <1>2, <1>4, <1>5, <1>6, <1>7, Zenon

\* The transaction of a requeue moves one record to the position past the tail.
LEMMA RequeueFacts ==
    ASSUME TypeOK, LockInv, TailInv, DirInv, NEW c \in Callers, RequeueTxn(c)
    PROVE  /\ tail = tailKey /\ tailKey \in Nat /\ tailKey' = tailKey + 1
           /\ tailKey' = call.newTail /\ call.newTail = tailKey + 1
           /\ call.newTail \notin Keys(pending) /\ call.newTail \notin Keys(dead)
           /\ call.newTail \notin Keys(written) /\ call.seq \in Keys(dead)
           /\ Keys(pending') = Keys(pending) \cup {call.newTail}
           /\ \A s \in Keys(pending) : pending'[s] = pending[s]
           /\ pending'[call.newTail] = dead[call.seq]
           /\ Keys(dead') = Keys(dead) \ {call.seq}
           /\ \A s \in Keys(dead') : dead'[s] = dead[s]
<1>1. open /\ \A d \in Callers : pc[d] # "written"
  BY StoreAssumption DEF RequeueTxn, LockInv
<1>2. tail = tailKey /\ tailKey' = call.newTail /\ call.newTail = tail + 1 /\ tail \in Nat
  BY <1>1 DEF RequeueTxn, TailInv, NewTailKey, TypeOK
<1>3. /\ call.newTail \notin Keys(pending) /\ call.newTail \notin Keys(dead)
      /\ call.newTail \notin Keys(written)
  BY <1>2 DEF DirInv
<1>4. /\ Keys(pending') = Keys(pending) \cup {call.newTail}
      /\ \A s \in Keys(pending) : pending'[s] = pending[s]
      /\ pending'[call.newTail] = dead[call.seq] /\ call.seq \in Keys(dead)
  BY <1>3 DEF RequeueTxn, Keys
<1>5. Keys(dead') = Keys(dead) \ {call.seq} /\ \A s \in Keys(dead') : dead'[s] = dead[s]
  BY DEF RequeueTxn, Keys, Deleted, Restrict
<1> QED BY <1>2, <1>3, <1>4, <1>5

\* Every step keeps the cached tail in step with the stored one.
LEMMA TailStep ==
    TypeOK /\ LockInv /\ TailInv /\ DirInv /\ Conserved /\ [Next]_vars => TailInv'
<1> SUFFICES ASSUME TypeOK, LockInv, TailInv, DirInv, Conserved, [Next]_vars PROVE TailInv'
  OBVIOUS
<1> USE DEF dirVars, procVars, histVars
<1> USE StoreAssumption
<1>1. CASE Load
  <2>1. \A c \in Callers : pc[c] = "idle"
    BY <1>1 DEF Load, LockInv
  <2> QED BY <1>1, <2>1, Zenon DEF Load, LoadedTail, TailInv
<1>2. CASE Crash
  BY <1>2 DEF Crash, TailInv
<1>3. ASSUME NEW c \in Callers, NEW batch \in Batches, NEW now \in Times, AppendLock(c, batch, now)
      PROVE  TailInv'
  <2>1. \A d \in Callers : pc'[d] = IF d = c THEN "append" ELSE "idle"
    BY <1>3 DEF AppendLock, Lock, LockInv, TypeOK
  <2>2. tail = tailKey /\ UNCHANGED <<tail, tailKey, open, written>>
    BY <1>3 DEF AppendLock, Lock, LockInv, TailInv
  <2>3. /\ call'.newTail = tail + Len(call'.payloads) /\ call'.now = now /\ call'.payloads = batch
        /\ IsInjective(batch) /\ \A i \in DOMAIN batch : batch[i] \notin PayloadsOf(written)
    BY <1>3 DEF AppendLock, Lock, Batches
  <2>4. PayloadsOf(written)' = PayloadsOf(written)
    BY <2>2 DEF PayloadsOf
  <2>5. batch # <<>>
    BY DEF Batches
  <2> QED BY <2>1, <2>2, <2>3, <2>4, <2>5 DEF TailInv
<1>4. ASSUME NEW c \in Callers, NEW s \in Seqs, RequeueLock(c, s)
      PROVE  TailInv'
  <2>1. \A d \in Callers : pc'[d] = IF d = c THEN "requeue" ELSE "idle"
    BY <1>4 DEF RequeueLock, Lock, LockInv, TypeOK
  <2>2. tail = tailKey /\ UNCHANGED <<tail, tailKey, open, written>>
    BY <1>4 DEF RequeueLock, Lock, LockInv, TailInv
  <2>3. call'.newTail = tail + 1
    BY <1>4 DEF RequeueLock, Lock
  <2> QED BY <2>1, <2>2, <2>3 DEF TailInv
<1>5. ASSUME NEW c \in Callers, AppendTxn(c)
      PROVE  TailInv'
  <2>1. \A d \in Callers : pc'[d] = IF d = c THEN "written" ELSE "idle"
    BY <1>5 DEF AppendTxn, LockInv, TypeOK
  <2>2. call' = call /\ tailKey' = call.newTail
    BY <1>5 DEF AppendTxn, NewTailKey
  <2>3. ASSUME NEW i \in DOMAIN call.payloads PROVE call.payloads[i] \in PayloadsOf(written')
    <3>1. /\ tail + i \in NewSeqs /\ (tail + i) - tail = i /\ tail + i \in Keys(written')
          /\ written'[tail + i] = [payload |-> call.payloads[(tail + i) - tail],
                                   createdAt |-> call.now]
      BY <1>5, AppendFacts
    <3>2. written'[tail + i].payload = call.payloads[i]
      BY <3>1
    <3> QED BY <3>1, <3>2 DEF PayloadsOf, Keys
  <2> QED BY <2>1, <2>2, <2>3 DEF TailInv
<1>6. ASSUME NEW c \in Callers, RequeueTxn(c)
      PROVE  TailInv'
  <2>1. \A d \in Callers : pc'[d] = IF d = c THEN "written" ELSE "idle"
    BY <1>6 DEF RequeueTxn, LockInv, TypeOK
  <2>2. call.seq \in Keys(dead) /\ call \in Call
    BY <1>6 DEF RequeueTxn, TypeOK
  <2>3. /\ call'.newTail = call.newTail /\ tailKey' = call.newTail /\ written' = written
        /\ call'.payloads = <<dead[call.seq].payload>>
    BY <1>6, <2>2 DEF RequeueTxn, NewTailKey, Call
  <2>4. dead[call.seq].payload \in PayloadsOf(written)
    BY <2>2, Zenon DEF Conserved, PayloadsOf, Keys
  <2>5. \A i \in DOMAIN call'.payloads : call'.payloads[i] \in PayloadsOf(written')
    BY <2>3, <2>4
  <2> QED BY <2>1, <2>3, <2>5 DEF TailInv
<1>7. ASSUME NEW c \in Callers, TxnFail(c) \/ Return(c)
      PROVE  TailInv'
  <2>1. \A d \in Callers : pc'[d] = "idle"
    BY <1>7 DEF TxnFail, Return, LockInv, TypeOK
  <2>2. tail' = tailKey'
    <3>1. CASE TxnFail(c)
      <4>1. open /\ \A d \in Callers : pc[d] # "written"
        BY <3>1 DEF TxnFail, LockInv
      <4> QED BY <3>1, <4>1 DEF TxnFail, TailInv
    <3>2. CASE Return(c)
      BY <3>2 DEF Return, TailInv
    <3> QED BY <1>7, <3>1, <3>2
  <2> QED BY <2>1, <2>2 DEF TailInv
<1>8. ASSUME NEW S \in SUBSET Keys(pending), Commit(S)
      PROVE  TailInv'
  BY <1>8 DEF Commit, TailInv, PayloadsOf
<1>9. ASSUME NEW s \in Keys(pending), DeadLetter(s)
      PROVE  TailInv'
  BY <1>9 DEF DeadLetter, TailInv, PayloadsOf
<1>10. CASE UNCHANGED vars
  BY <1>10 DEF vars, TailInv, PayloadsOf
<1> QED BY <1>1, <1>2, <1>3, <1>4, <1>5, <1>6, <1>7, <1>8, <1>9, <1>10 DEF Next

\* A directory the store has written opens.
LEMMA DirLoads == TypeOK /\ DirInv => LoadCheck = "none"
<1> SUFFICES ASSUME TypeOK, DirInv PROVE LoadCheck = "none"
  OBVIOUS
<1>1. ASSUME NEW s \in Keys(pending) \cup Keys(dead) PROVE ~(tailKey = 0 \/ s > tailKey)
  <2>1. s <= tailKey /\ s \in Nat /\ s > 0 /\ tailKey \in Nat
    BY StoreAssumption DEF DirInv, TypeOK, Seqs
  <2> QED BY <2>1
<1>2. Keys(pending) \cap Keys(dead) = {}
  BY DEF DirInv
<1> QED BY <1>1, <1>2 DEF LoadCheck

\* The steps that leave the directory and the history of writes alone, the
\* four transactions, and the return of a call.
LEMMA DirSteps ==
    ASSUME TypeOK, DirInv, [Next]_vars
    PROVE  \/ UNCHANGED <<tailKey, pending, dead, written, done, acked>> /\ loadErr' = "none"
           \/ \E c \in Callers : AppendTxn(c)
           \/ \E c \in Callers : RequeueTxn(c)
           \/ \E c \in Callers : Return(c)
           \/ \E S \in SUBSET Keys(pending) : Commit(S)
           \/ \E s \in Keys(pending) : DeadLetter(s)
<1> USE DEF dirVars, procVars, histVars
<1>1. CASE Load
  <2>1. LoadCheck = "none"
    BY DirLoads
  <2> QED BY <1>1, <2>1 DEF Load
<1> QED BY <1>1 DEF Next, Crash, AppendLock, RequeueLock, Lock, TxnFail, DirInv, vars

\* Commit deletes exactly the positions it is given.
LEMMA CommitFacts ==
    ASSUME NEW S \in SUBSET Keys(pending), Commit(S)
    PROVE  /\ Keys(pending') = Keys(pending) \ S
           /\ \A s \in Keys(pending') : pending'[s] = pending[s]
           /\ UNCHANGED <<tailKey, dead, loadErr, written, acked>>
BY DEF Commit, Deleted, Restrict, Keys, procVars

\* DeadLetter moves one record to the dead letters, at its own position.
LEMMA DeadLetterFacts ==
    ASSUME NEW s \in Keys(pending), DeadLetter(s)
    PROVE  /\ Keys(pending') = Keys(pending) \ {s}
           /\ \A x \in Keys(pending') : pending'[x] = pending[x]
           /\ Keys(dead') = Keys(dead) \cup {s} /\ s \notin Keys(dead)
           /\ \A x \in Keys(dead) : dead'[x] = dead[x]
           /\ dead'[s] = DeadEnvelope(s)
           /\ UNCHANGED <<tailKey, loadErr, written, acked, done>>
BY DEF DeadLetter, Deleted, Restrict, Keys, procVars, histVars

\* Every step keeps the tail ahead of every position used.
LEMMA DirStep == TypeOK /\ LockInv /\ TailInv /\ DirInv /\ [Next]_vars => DirInv'
<1> SUFFICES ASSUME TypeOK, LockInv, TailInv, DirInv, [Next]_vars PROVE DirInv'
  OBVIOUS
<1>0. \A s \in Keys(pending) \cup Keys(dead) \cup Keys(written) : s \in Nat
  BY StoreAssumption DEF TypeOK, Seqs
<1>1. ASSUME NEW c \in Callers, AppendTxn(c) PROVE DirInv'
  <2>1. dead' = dead /\ loadErr' = loadErr
    BY <1>1 DEF AppendTxn
  <2>2. \A s \in Keys(pending) \cup Keys(dead) \cup Keys(written) : s <= tailKey'
    BY <1>0, <1>1, AppendFacts DEF DirInv
  <2> QED BY <1>1, <2>1, <2>2, AppendFacts DEF DirInv, Keys
<1>2. ASSUME NEW c \in Callers, RequeueTxn(c) PROVE DirInv'
  <2>1. written' = written /\ loadErr' = loadErr
    BY <1>2 DEF RequeueTxn, histVars
  <2>2. /\ \A s \in Keys(pending) \cup Keys(dead) \cup Keys(written) : s <= tailKey'
        /\ call.newTail <= tailKey'
    BY <1>0, <1>2, RequeueFacts DEF DirInv
  <2> QED BY <1>2, <2>1, <2>2, RequeueFacts DEF DirInv, Keys
<1>3. ASSUME NEW S \in SUBSET Keys(pending), Commit(S) PROVE DirInv'
  BY <1>3, CommitFacts, Zenon DEF DirInv, Keys
<1>4. ASSUME NEW s \in Keys(pending), DeadLetter(s) PROVE DirInv'
  <2>1. /\ Keys(pending') = Keys(pending) \ {s}
        /\ \A x \in Keys(pending') : pending'[x] = pending[x]
        /\ Keys(dead') = Keys(dead) \cup {s}
        /\ \A x \in Keys(dead) : dead'[x] = dead[x]
        /\ dead'[s] = DeadEnvelope(s)
        /\ UNCHANGED <<tailKey, loadErr, written, acked, done>>
    BY <1>4, DeadLetterFacts
  <2> QED BY <2>1 DEF DirInv, Keys
<1>5. ASSUME NEW c \in Callers, Return(c) PROVE DirInv'
  BY <1>5 DEF Return, DirInv, dirVars, Keys
<1>6. CASE UNCHANGED <<tailKey, pending, dead, written, done, acked>> /\ loadErr' = "none"
  BY <1>6 DEF DirInv, Keys
<1> QED BY <1>1, <1>2, <1>3, <1>4, <1>5, <1>6, DirSteps

\* Every step keeps the records' identities.
LEMMA IdentityStep ==
    TypeOK /\ LockInv /\ TailInv /\ DirInv /\ IdentityKept /\ [Next]_vars => IdentityKept'
<1> SUFFICES ASSUME TypeOK, LockInv, TailInv, DirInv, IdentityKept, [Next]_vars
             PROVE  IdentityKept'
  OBVIOUS
<1> USE DEF NoOrigin
<1>0. /\ \A s \in Keys(pending) : pending[s] \in Envelope /\ s # 0
      /\ \A s \in Keys(dead) : dead[s] \in Envelope /\ s # 0
      /\ \A s \in Keys(written) : s # 0
  BY StoreAssumption DEF TypeOK, Seqs, Keys
<1>1. ASSUME NEW c \in Callers, AppendTxn(c) PROVE IdentityKept'
  <2>1. dead' = dead
    BY <1>1 DEF AppendTxn
  <2>2. \A s \in Keys(written) : s \in Keys(written') /\ written'[s] = written[s]
    BY <1>1, AppendFacts
  <2>3. \A s \in NewSeqs :
          /\ s \in Keys(written') /\ pending'[s].origin = 0
          /\ written'[s] = [payload |-> pending'[s].payload, createdAt |-> pending'[s].createdAt]
    <3> SUFFICES ASSUME NEW s \in NewSeqs
                 PROVE  /\ s \in Keys(written') /\ pending'[s].origin = 0
                        /\ written'[s] = [payload |-> pending'[s].payload,
                                          createdAt |-> pending'[s].createdAt]
      BY Zenon
    <3>1. /\ s \in Keys(written')
          /\ pending'[s] = [payload |-> call.payloads[s - tail],
                            createdAt |-> call.now, origin |-> NoOrigin]
          /\ written'[s] = [payload |-> call.payloads[s - tail], createdAt |-> call.now]
      BY <1>1, AppendFacts
    <3> QED BY <3>1
  <2>4. Keys(pending') = Keys(pending) \cup NewSeqs
        /\ \A s \in Keys(pending) : pending'[s] = pending[s]
    BY <1>1, AppendFacts
  <2> QED BY <2>1, <2>2, <2>3, <2>4 DEF IdentityKept, WrittenAt, Keys
<1>2. ASSUME NEW c \in Callers, RequeueTxn(c) PROVE IdentityKept'
  <2>1. written' = written
    BY <1>2 DEF RequeueTxn, histVars
  <2>2. dead[call.seq].origin # 0 /\ WrittenAt(dead[call.seq], dead[call.seq].origin)
    BY <1>0, <1>2, RequeueFacts DEF IdentityKept, WrittenAt
  <2> QED BY <1>2, <2>1, <2>2, RequeueFacts DEF IdentityKept, WrittenAt, Keys
<1>3. ASSUME NEW S \in SUBSET Keys(pending), Commit(S) PROVE IdentityKept'
  BY <1>3, CommitFacts, Zenon DEF IdentityKept, WrittenAt, Keys
<1>4. ASSUME NEW s \in Keys(pending), DeadLetter(s) PROVE IdentityKept'
  <2>1. /\ Keys(pending') = Keys(pending) \ {s}
        /\ \A x \in Keys(pending') : pending'[x] = pending[x]
        /\ Keys(dead') = Keys(dead) \cup {s}
        /\ \A x \in Keys(dead) : dead'[x] = dead[x]
        /\ dead'[s] = DeadEnvelope(s)
        /\ UNCHANGED <<tailKey, loadErr, written, acked, done>>
    BY <1>4, DeadLetterFacts
  <2>2. /\ DeadEnvelope(s).payload = pending[s].payload
        /\ DeadEnvelope(s).createdAt = pending[s].createdAt
        /\ DeadEnvelope(s).origin = IF pending[s].origin = 0 THEN s ELSE pending[s].origin
    BY <1>0 DEF DeadEnvelope, Envelope
  <2>3. WrittenAt(dead'[s], dead'[s].origin)
    BY <2>1, <2>2 DEF IdentityKept, WrittenAt
  <2> QED BY <2>1, <2>3 DEF IdentityKept, WrittenAt, Keys
<1>5. ASSUME NEW c \in Callers, Return(c) PROVE IdentityKept'
  BY <1>5 DEF Return, IdentityKept, WrittenAt, dirVars, Keys
<1>6. CASE UNCHANGED <<tailKey, pending, dead, written, done, acked>> /\ loadErr' = "none"
  BY <1>6 DEF IdentityKept, WrittenAt, Keys
<1> QED BY <1>1, <1>2, <1>3, <1>4, <1>5, <1>6, DirSteps

\* Conserved, said of positions.
ConservedPoints ==
    /\ \A p \in acked : \E s \in Keys(written) : written[s].payload = p
    /\ \A s \in Keys(written) :
         \/ \E x \in Keys(pending) : pending[x].payload = written[s].payload
         \/ \E x \in Keys(dead) : dead[x].payload = written[s].payload
         \/ written[s].payload \in done
    /\ \A x \in Keys(pending) : \E s \in Keys(written) : pending[x].payload = written[s].payload
    /\ \A x \in Keys(dead) : \E s \in Keys(written) : dead[x].payload = written[s].payload
    /\ \A p \in done : \E s \in Keys(written) : p = written[s].payload
    /\ \A x, y \in Keys(pending) : pending[x].payload = pending[y].payload => x = y
    /\ \A x, y \in Keys(dead) : dead[x].payload = dead[y].payload => x = y
    /\ \A x \in Keys(pending), y \in Keys(dead) : pending[x].payload # dead[y].payload
    /\ \A x \in Keys(pending) : pending[x].payload \notin done
    /\ \A x \in Keys(dead) : dead[x].payload \notin done

\* The two forms agree.
LEMMA ConservedForms == Conserved <=> ConservedPoints
<1>1. ASSUME Conserved PROVE ConservedPoints
  <2>1. /\ \A p : p \in PayloadsOf(written) <=> (\E s \in Keys(written) : p = written[s].payload)
        /\ \A p : p \in PayloadsOf(pending) <=> (\E s \in Keys(pending) : p = pending[s].payload)
        /\ \A p : p \in PayloadsOf(dead) <=> (\E s \in Keys(dead) : p = dead[s].payload)
    BY DEF PayloadsOf, Keys
  <2>2. /\ \A x, y \in Keys(pending) : pending[x].payload = pending[y].payload => x = y
        /\ \A x, y \in Keys(dead) : dead[x].payload = dead[y].payload => x = y
    BY <1>1 DEF Conserved, IsInjective, Payload, Keys
  <2>3. /\ \A p \in acked : p \in PayloadsOf(written)
        /\ \A p : p \in PayloadsOf(written) <=>
              (p \in PayloadsOf(pending) \/ p \in PayloadsOf(dead) \/ p \in done)
        /\ \A p : ~(p \in PayloadsOf(pending) /\ p \in PayloadsOf(dead))
        /\ \A p \in done : p \notin PayloadsOf(pending) /\ p \notin PayloadsOf(dead)
    BY <1>1 DEF Conserved
  <2> QED BY <2>1, <2>2, <2>3, Zenon DEF ConservedPoints
<1>2. ConservedPoints => Conserved
  BY DEF Conserved, ConservedPoints, PayloadsOf, Payload, IsInjective, Keys
<1> QED BY <1>1, <1>2

\* Every step keeps every record written in exactly one place.
LEMMA ConservedStep ==
    TypeOK /\ LockInv /\ TailInv /\ DirInv /\ ConservedPoints /\ [Next]_vars => ConservedPoints'
<1> SUFFICES ASSUME TypeOK, LockInv, TailInv, DirInv, ConservedPoints, [Next]_vars
             PROVE  ConservedPoints'
  OBVIOUS
<1>1. ASSUME NEW c \in Callers, AppendTxn(c) PROVE ConservedPoints'
  <2>1. dead' = dead /\ acked' = acked /\ done' = done /\ Keys(dead') = Keys(dead)
    BY <1>1 DEF AppendTxn, Keys
  <2>2. /\ Keys(pending') = Keys(pending) \cup NewSeqs /\ Keys(written') = Keys(written) \cup NewSeqs
        /\ \A s \in Keys(pending) : pending'[s] = pending[s]
        /\ \A s \in Keys(written) : written'[s] = written[s]
    BY <1>1, AppendFacts
  <2>3. ASSUME NEW s \in NewSeqs
        PROVE  /\ pending'[s].payload = written'[s].payload
               /\ pending'[s].payload = call.payloads[s - tail]
               /\ s - tail \in DOMAIN call.payloads
    <3>1. /\ s - tail \in DOMAIN call.payloads
          /\ pending'[s] = [payload |-> call.payloads[s - tail],
                            createdAt |-> call.now, origin |-> NoOrigin]
          /\ written'[s] = [payload |-> call.payloads[s - tail], createdAt |-> call.now]
      BY <1>1, AppendFacts
    <3> QED BY <3>1
  <2>4. ASSUME NEW s \in NewSeqs
        PROVE  \A x \in Keys(written) : written[x].payload # pending'[s].payload
    <3>1. call.payloads[s - tail] \notin PayloadsOf(written)
      BY <1>1, <2>3, Zenon DEF AppendTxn, TailInv
    <3> QED BY <2>3, <3>1 DEF PayloadsOf, Keys
  <2>5. ASSUME NEW s \in NewSeqs, NEW r \in NewSeqs, pending'[s].payload = pending'[r].payload
        PROVE  s = r
    <3>0. /\ IsInjective(call.payloads)
          /\ s - tail \in DOMAIN call.payloads /\ r - tail \in DOMAIN call.payloads
          /\ call.payloads[s - tail] = call.payloads[r - tail]
      BY <1>1, <2>3, <2>5, Zenon DEF AppendTxn, TailInv
    <3>1. s - tail = r - tail
      BY <3>0, Zenon DEF IsInjective
    <3>2. s \in Nat /\ r \in Nat /\ tail \in Nat
      BY <1>1, AppendFacts
    <3> QED BY <3>1, <3>2
  <2> QED BY <2>1, <2>2, <2>3, <2>4, <2>5 DEF ConservedPoints
<1>2. ASSUME NEW c \in Callers, RequeueTxn(c) PROVE ConservedPoints'
  <2>1. /\ written' = written /\ acked' = acked /\ done' = done /\ Keys(written') = Keys(written)
    BY <1>2 DEF RequeueTxn, histVars, Keys
  <2>2. /\ call.newTail \notin Keys(pending) /\ call.seq \in Keys(dead)
        /\ Keys(pending') = Keys(pending) \cup {call.newTail}
        /\ \A s \in Keys(pending) : pending'[s] = pending[s]
        /\ pending'[call.newTail] = dead[call.seq]
        /\ Keys(dead') = Keys(dead) \ {call.seq}
        /\ \A s \in Keys(dead') : dead'[s] = dead[s]
    BY <1>2, RequeueFacts
  <2> QED BY <2>1, <2>2 DEF ConservedPoints
<1>3. ASSUME NEW S \in SUBSET Keys(pending), Commit(S) PROVE ConservedPoints'
  <2>1. /\ Keys(pending') = Keys(pending) \ S
        /\ \A s \in Keys(pending') : pending'[s] = pending[s]
        /\ UNCHANGED <<dead, written, acked, Keys(dead), Keys(written)>>
    BY <1>3, CommitFacts, Zenon DEF Keys
  <2>2. /\ \A s \in S : pending[s].payload \in done'
        /\ \A p \in done' : p \in done \/ \E s \in S : p = pending[s].payload
        /\ done \subseteq done'
    BY <1>3 DEF Commit
  <2> QED BY <2>1, <2>2 DEF ConservedPoints
<1>4. ASSUME NEW s \in Keys(pending), DeadLetter(s) PROVE ConservedPoints'
  <2>1. /\ Keys(pending') = Keys(pending) \ {s}
        /\ \A x \in Keys(pending') : pending'[x] = pending[x]
        /\ Keys(dead') = Keys(dead) \cup {s}
        /\ \A x \in Keys(dead) : dead'[x] = dead[x]
        /\ dead'[s] = DeadEnvelope(s) /\ s \notin Keys(dead)
        /\ UNCHANGED <<written, acked, done>>
    BY <1>4, DeadLetterFacts
  <2>2. dead'[s].payload = pending[s].payload /\ Keys(written') = Keys(written)
    BY <2>1 DEF DeadEnvelope, TypeOK, Envelope, Keys
  <2> QED BY <2>1, <2>2 DEF ConservedPoints
<1>5. ASSUME NEW c \in Callers, Return(c) PROVE ConservedPoints'
  <2>1. /\ UNCHANGED <<pending, dead, written, done>>
        /\ UNCHANGED <<Keys(pending), Keys(dead), Keys(written)>>
    BY <1>5 DEF Return, dirVars, Keys
  <2>2. \A p \in acked' : p \in acked \/ \E i \in DOMAIN call.payloads : p = call.payloads[i]
    BY <1>5 DEF Return, Range
  <2>3. \A i \in DOMAIN call.payloads : \E s \in Keys(written) : written[s].payload = call.payloads[i]
    BY <1>5 DEF Return, TailInv, PayloadsOf, Keys
  <2> QED BY <2>1, <2>2, <2>3 DEF ConservedPoints
<1>6. CASE UNCHANGED <<tailKey, pending, dead, written, done, acked>> /\ loadErr' = "none"
  BY <1>6 DEF ConservedPoints, Keys
<1> QED BY <1>1, <1>2, <1>3, <1>4, <1>5, <1>6, DirSteps

-----------------------------------------------------------------------------
\* Every step keeps the invariant.
LEMMA InvStep == IInv /\ [Next]_vars => IInv'
<1> SUFFICES ASSUME IInv, [Next]_vars PROVE IInv'
  OBVIOUS
<1>1. /\ TypeOK /\ LockInv /\ TailInv /\ DirInv /\ Conserved /\ IdentityKept
      /\ ConservedPoints
  BY ConservedForms DEF IInv
<1>2. TypeOK' /\ LockInv' /\ TailInv' /\ DirInv' /\ IdentityKept'
  BY <1>1, TypeStep, LockStep, TailStep, DirStep, IdentityStep
<1>3. ConservedPoints'
  BY <1>1, ConservedStep
<1>4. Conserved'
  BY <1>3, ConservedForms, PTL
<1> QED BY <1>2, <1>4 DEF IInv

\* The invariant holds in every state.
THEOREM Invariant == Spec => []IInv
BY InvStep, InvInit, PTL DEF Spec

\* The cached tail, the stored tail and the keys stay within the sequence
\* space, through appends that fill it and requeues.
THEOREM TypeCorrect == Spec => []TypeOK
<1>1. IInv => TypeOK
  BY DEF IInv
<1> QED BY <1>1, Invariant, PTL

\* Whatever call of AppendBatch, Requeue, Commit or DeadLetter a crash
\* interrupts, load accepts the directory it leaves.
THEOREM Reopens == Spec => []AlwaysReopens
<1>1. IInv => AlwaysReopens
  BY DirLoads DEF IInv, DirInv, AlwaysReopens
<1> QED BY <1>1, Invariant, PTL

\* Every record AppendBatch wrote is pending, dead or committed, in one place
\* only, and an acknowledged one has been written.
THEOREM NothingLostOrDoubled == Spec => []Conserved
<1>1. IInv => Conserved
  BY DEF IInv
<1> QED BY <1>1, Invariant, PTL

\* DeadLetter and Requeue keep a record's creation time and its first position.
THEOREM IdentityCorrect == Spec => []IdentityKept
<1>1. IInv => IdentityKept
  BY DEF IInv
<1> QED BY <1>1, Invariant, PTL

\* AppendBatch and Requeue give out a position once, also when a crash comes
\* between the transaction and the cached tail.
THEOREM PositionsFresh == Spec => NoReuse
<1>1. IInv /\ [Next]_vars =>
        [/\ tailKey' >= tailKey
         /\ \A s \in Keys(pending') \ Keys(pending) : s > tailKey /\ s <= tailKey']_vars
  <2> SUFFICES ASSUME IInv, [Next]_vars
               PROVE  /\ tailKey' >= tailKey
                      /\ \A s \in Keys(pending') \ Keys(pending) : s > tailKey /\ s <= tailKey'
    OBVIOUS
  <2> USE DEF IInv
  <2>0. tailKey \in Nat
    BY StoreAssumption DEF TypeOK
  <2>1. ASSUME NEW c \in Callers, AppendTxn(c)
        PROVE  /\ tailKey' >= tailKey
               /\ \A s \in Keys(pending') \ Keys(pending) : s > tailKey /\ s <= tailKey'
    <3>1. /\ tailKey <= tailKey' /\ tailKey' \in Nat
          /\ Keys(pending') = Keys(pending) \cup NewSeqs
          /\ \A s \in NewSeqs : s \in Nat /\ s > tailKey /\ s <= tailKey'
      BY <2>1, AppendFacts
    <3> QED BY <2>0, <3>1
  <2>2. ASSUME NEW c \in Callers, RequeueTxn(c)
        PROVE  /\ tailKey' >= tailKey
               /\ \A s \in Keys(pending') \ Keys(pending) : s > tailKey /\ s <= tailKey'
    <3>1. /\ tailKey' = tailKey + 1 /\ call.newTail = tailKey + 1
          /\ Keys(pending') = Keys(pending) \cup {call.newTail}
      BY <2>2, RequeueFacts
    <3> QED BY <2>0, <3>1
  <2>3. CASE tailKey' = tailKey /\ Keys(pending') \subseteq Keys(pending)
    BY <2>0, <2>3
  <2>4. ASSUME NEW S \in SUBSET Keys(pending), Commit(S)
        PROVE  tailKey' = tailKey /\ Keys(pending') \subseteq Keys(pending)
    BY <2>4, CommitFacts
  <2>5. ASSUME NEW s \in Keys(pending), DeadLetter(s)
        PROVE  tailKey' = tailKey /\ Keys(pending') \subseteq Keys(pending)
    BY <2>5, DeadLetterFacts
  <2>6. ASSUME NEW c \in Callers, Return(c)
        PROVE  tailKey' = tailKey /\ Keys(pending') \subseteq Keys(pending)
    BY <2>6 DEF Return, dirVars, Keys
  <2>7. CASE UNCHANGED <<tailKey, pending, dead, written, done, acked>> /\ loadErr' = "none"
    BY <2>3, <2>7 DEF Keys
  <2> QED BY <2>1, <2>2, <2>3, <2>4, <2>5, <2>6, <2>7, DirSteps
<1> QED BY <1>1, Invariant, PTL DEF Spec, NoReuse

-----------------------------------------------------------------------------
(***************************************************************************)
(* The store implements the abstract queue.                                *)
(***************************************************************************)
\* What the queue sees of a key space: the payloads, and what a delete leaves.
LEMMA PayloadFacts ==
    ASSUME NEW f
    PROVE  /\ DOMAIN Payload(f) = DOMAIN f
           /\ \A s \in DOMAIN f : Payload(f)[s] = f[s].payload
           /\ Range(Payload(f)) = PayloadsOf(f)
           /\ \A S : Payload(Deleted(f, S)) = Restrict(Payload(f), DOMAIN Payload(f) \ S)
<1>1. /\ DOMAIN Payload(f) = DOMAIN f
      /\ \A s \in DOMAIN f : Payload(f)[s] = f[s].payload
  BY DEF Payload
<1>2. Range(Payload(f)) = PayloadsOf(f)
  BY <1>1 DEF Range, PayloadsOf
<1>3. ASSUME NEW S PROVE Payload(Deleted(f, S)) = Restrict(Payload(f), DOMAIN Payload(f) \ S)
  BY DEF Payload, Deleted, Restrict, Keys
<1> QED BY <1>1, <1>2, <1>3

\* A payload the queue has accepted is one that was written.
LEMMA AcceptedWritten == Conserved => WQ!Accepted = PayloadsOf(written)
BY PayloadFacts DEF Conserved, WQ!Accepted, WQ!Range, Range

\* The transaction of AppendBatch is the queue accepting the batch.
LEMMA AppendAccepts ==
    ASSUME IInv, NEW c \in Callers, AppendTxn(c)
    PROVE  \E n \in 1..MaxSeq : \E batch \in [1..n -> Payloads] : WQ!Accept(batch)
<1> USE DEF IInv
<1> DEFINE batch == call.payloads
<1>1. /\ batch \in Seq(Payloads) /\ batch # <<>>
      /\ \A i \in DOMAIN batch : batch[i] \notin PayloadsOf(written)
      /\ call.newTail = tail + Len(batch) /\ call.newTail \in 0..MaxSeq /\ tail \in Nat
  BY DEF AppendTxn, TailInv, LockInv, TypeOK, Call
<1>2. tail = tailKey /\ tailKey' = call.newTail
  BY AppendFacts
<1>3. Len(batch) \in 1..MaxSeq /\ batch \in [1..Len(batch) -> Payloads]
  BY <1>1, StoreAssumption
<1>4. tailKey + Len(batch) <= MaxSeq /\ tailKey' = tailKey + Len(batch)
  BY <1>1, <1>2, StoreAssumption
<1>5. \A i \in DOMAIN batch : batch[i] \notin WQ!Accepted
  BY <1>1, AcceptedWritten
<1>6. Payload(pending') =
        [p \in DOMAIN Payload(pending) \cup (tailKey + 1)..(tailKey + Len(batch)) |->
           IF p \in DOMAIN Payload(pending) THEN Payload(pending)[p] ELSE batch[p - tailKey]]
  <2>1. /\ NewSeqs = (tailKey + 1)..(tailKey + Len(batch))
        /\ Keys(pending') = Keys(pending) \cup NewSeqs
        /\ \A s \in Keys(pending) : pending'[s] = pending[s]
        /\ \A s \in NewSeqs : s \notin Keys(pending)
    BY <1>1, <1>2, AppendFacts DEF NewSeqs
  <2>2. ASSUME NEW s \in NewSeqs PROVE pending'[s].payload = batch[s - tailKey]
    <3>1. pending'[s] = [payload |-> call.payloads[s - tail],
                         createdAt |-> call.now, origin |-> NoOrigin]
      BY AppendFacts, SMTT(30)
    <3> QED BY <1>2, <3>1
  <2> HIDE DEF batch
  <2> QED BY <2>1, <2>2, PayloadFacts DEF Payload, Keys
<1>7. UNCHANGED <<dead, done, acked>>
  BY Zenon DEF AppendTxn
<1>8. WQ!Accept(batch)
  BY <1>4, <1>5, <1>6, <1>7 DEF WQ!Accept
<1> HIDE DEF batch
<1> QED BY <1>3, <1>8

\* The transaction of Requeue is the queue taking back one parked record.
LEMMA RequeueRequeues ==
    ASSUME IInv, NEW c \in Callers, RequeueTxn(c)
    PROVE  \E p \in 1..MaxSeq : WQ!RequeueOne(p)
<1> USE DEF IInv
<1>1. call.seq \in Keys(dead) /\ call.seq \in 1..MaxSeq
  BY RequeueFacts DEF TypeOK, Seqs
<1>2. /\ tailKey' = tailKey + 1 /\ tailKey < MaxSeq /\ call.newTail = tailKey + 1
  <2>1. tailKey' = tailKey + 1 /\ tailKey \in Nat /\ call.newTail = tailKey + 1
    BY RequeueFacts
  <2>2. call.newTail \in 0..MaxSeq
    BY DEF TypeOK, Call
  <2> QED BY <2>1, <2>2, StoreAssumption
<1>3. Payload(pending') =
        [x \in DOMAIN Payload(pending) \cup {tailKey + 1} |->
           IF x = tailKey + 1 THEN Payload(dead)[call.seq] ELSE Payload(pending)[x]]
  BY <1>1, <1>2 DEF RequeueTxn, Payload, Keys
<1>4. Payload(dead') = Restrict(Payload(dead), DOMAIN Payload(dead) \ {call.seq})
  BY PayloadFacts DEF RequeueTxn
<1>5. UNCHANGED <<done, acked>> /\ call.seq \in DOMAIN Payload(dead)
  BY <1>1, PayloadFacts DEF RequeueTxn, histVars, Keys
<1>6. WQ!RequeueOne(call.seq)
  BY <1>2, <1>3, <1>4, <1>5 DEF WQ!RequeueOne, WQ!Restrict, Restrict
<1> QED BY <1>1, <1>6

\* The return of a call acknowledges what has been accepted.
LEMMA ReturnAcknowledges ==
    ASSUME IInv, NEW c \in Callers, Return(c)
    PROVE  \E P \in SUBSET Payloads : WQ!Acknowledge(P)
<1> USE DEF IInv
<1>1. Range(call.payloads) \subseteq PayloadsOf(written)
  BY DEF Return, TailInv, Range
<1>2. Range(call.payloads) \subseteq Payloads
  BY DEF LockInv, Range
<1>3. UNCHANGED <<pending, dead, tailKey, done>> /\ acked' = acked \cup Range(call.payloads)
  BY DEF Return, dirVars
<1>4. WQ!Acknowledge(Range(call.payloads))
  BY <1>1, <1>3, AcceptedWritten DEF WQ!Acknowledge
<1> QED BY <1>2, <1>4

\* Commit finishes records of the queue.
LEMMA CommitFinishes ==
    ASSUME IInv, NEW S \in SUBSET Keys(pending), Commit(S)
    PROVE  \E T \in SUBSET (1..MaxSeq) : WQ!Finish(T)
<1>1. S \subseteq 1..MaxSeq /\ S \subseteq DOMAIN Payload(pending)
  BY PayloadFacts DEF IInv, TypeOK, Seqs, Keys
<1>2. Payload(pending') = Restrict(Payload(pending), DOMAIN Payload(pending) \ S)
  BY PayloadFacts DEF Commit
<1>3. {pending[s].payload : s \in S} = {Payload(pending)[p] : p \in S}
  BY PayloadFacts DEF Keys
<1>4. UNCHANGED <<dead, tailKey, acked>> /\ done' = done \cup {Payload(pending)[p] : p \in S}
  BY <1>3 DEF Commit
<1>5. WQ!Finish(S)
  BY <1>1, <1>2, <1>4 DEF WQ!Finish, WQ!Restrict, Restrict
<1> QED BY <1>1, <1>5

\* DeadLetter parks one record of the queue.
LEMMA DeadLetterParks ==
    ASSUME IInv, NEW s \in Keys(pending), DeadLetter(s)
    PROVE  \E p \in 1..MaxSeq : WQ!DeadLetterOne(p)
<1>1. s \in 1..MaxSeq /\ s \in DOMAIN Payload(pending)
  BY PayloadFacts DEF IInv, TypeOK, Seqs, Keys
<1>2. Payload(pending') = Restrict(Payload(pending), DOMAIN Payload(pending) \ {s})
  BY PayloadFacts DEF DeadLetter
<1>3. DeadEnvelope(s).payload = Payload(pending)[s]
  BY PayloadFacts DEF DeadEnvelope, IInv, TypeOK, Envelope, Keys
<1>4. Payload(dead') = [x \in DOMAIN Payload(dead) \cup {s} |->
                          IF x = s THEN Payload(pending)[s] ELSE Payload(dead)[x]]
  BY <1>3 DEF DeadLetter, Payload, Keys
<1>5. UNCHANGED <<tailKey, done, acked>>
  BY DEF DeadLetter, histVars
<1>6. WQ!DeadLetterOne(s)
  BY <1>1, <1>2, <1>4, <1>5 DEF WQ!DeadLetterOne, WQ!Restrict, Restrict
<1> QED BY <1>1, <1>6

\* The durable layer, with its mutex, its cached tail, its failing transactions
\* and a crash at any point, behaves as the abstract queue: every step is one
\* step of the queue or changes nothing the queue's user can see.
THEOREM Refines == Spec => ImplementsWorkQueue
<1>1. Init => WQ!QInit
  BY DEF Init, WQ!QInit, WQ!Empty, Empty, Payload
<1>2. IInv /\ [Next]_vars => [WQ!QNext]_(WQ!queueVars)
  <2> SUFFICES ASSUME IInv, [Next]_vars, ~ UNCHANGED WQ!queueVars PROVE WQ!QNext
    OBVIOUS
  <2>1. ASSUME NEW c \in Callers, AppendTxn(c) PROVE WQ!QNext
    BY <2>1, AppendAccepts DEF WQ!QNext
  <2>2. ASSUME NEW c \in Callers, RequeueTxn(c) PROVE WQ!QNext
    BY <2>2, RequeueRequeues DEF WQ!QNext
  <2>3. ASSUME NEW c \in Callers, Return(c) PROVE WQ!QNext
    BY <2>3, ReturnAcknowledges DEF WQ!QNext
  <2>4. ASSUME NEW S \in SUBSET Keys(pending), Commit(S) PROVE WQ!QNext
    BY <2>4, CommitFinishes DEF WQ!QNext
  <2>5. ASSUME NEW s \in Keys(pending), DeadLetter(s) PROVE WQ!QNext
    BY <2>5, DeadLetterParks DEF WQ!QNext
  <2>6. CASE UNCHANGED <<tailKey, pending, dead, written, done, acked>> /\ loadErr' = "none"
    BY <2>6 DEF WQ!queueVars, Payload
  <2> QED BY <2>1, <2>2, <2>3, <2>4, <2>5, <2>6, DirSteps DEF IInv
<1> QED BY <1>1, <1>2, Invariant, PTL DEF Spec, ImplementsWorkQueue, WQ!QSpec

=============================================================================
