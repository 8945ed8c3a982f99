-------------------------- MODULE DispatcherLanes ---------------------------
(***************************************************************************)
(* The inductive invariant of the dispatcher, and the steps that keep its  *)
(* type, its locks, and the agreement of the lanes, the in-flight table    *)
(* and the states of the records.                                          *)
(***************************************************************************)
EXTENDS Dispatcher, WellFoundedInduction, TLAPS

-----------------------------------------------------------------------------
(***************************************************************************)
(* The inductive invariant.                                                *)
(***************************************************************************)
\* mu and scanMu are held exactly inside the sections they guard, and the
\* locals of takeLocked and fillFresh are live only there.
LockInv ==
    /\ \A r \in Readers : pc[r] \in {"take", "rollback", "merge"} <=> mu = r
    /\ \A r \in Readers : pc[r] \in {"scan", "merge"} <=> scanMu = r
    /\ scan.phase = "none" <=> scanMu = NoReader
    /\ \A r \in Readers : pc[r] = "merge" => scan.phase = "merge"
    /\ \A r \in Readers : pc[r] = "scan" => scan.phase \in {"scan", "scanned"}
    /\ scan.phase \in {"none", "scan"} => scan.records = <<>>
    /\ selected # <<>> => \E r \in Readers : pc[r] \in {"take", "rollback"}

\* What takeLocked has selected is in flight, each under its own receipt.
SelectionInv ==
    /\ \A i \in DOMAIN selected :
         /\ selected[i].receipt \in DOMAIN inFlight
         /\ inFlight[selected[i].receipt].seq = selected[i].seq
    /\ \A i, j \in DOMAIN selected : selected[i].receipt = selected[j].receipt => i = j

\* The batch being merged is the ascending run of pending records next to the
\* cursor, and everything tracked is behind the cursor.
ScanInv ==
    /\ pending \subseteq 1..tail /\ cursor <= tail + 1
    /\ scanDone => tail = MaxSeq
    /\ scan.phase \in {"scan", "scanned"} => ~scanDone
    /\ \A s \in Seqs : states[s] # "untracked" => s < cursor \/ scanDone
    /\ \A i \in DOMAIN scan.records :
         scan.records[i] \in pending /\ scan.records[i] >= cursor /\ ~scanDone
    /\ \A i, j \in DOMAIN scan.records : i < j => scan.records[i] < scan.records[j]
    /\ \A s \in pending :
         s >= cursor /\ (\A i \in DOMAIN scan.records : scan.records[i] # s) =>
           \A i \in DOMAIN scan.records : scan.records[i] < s

IInv == TypeOK /\ LockInv /\ LaneConsistency /\ SelectionInv /\ ScanInv /\ NothingLost

-----------------------------------------------------------------------------
(***************************************************************************)
(* Facts about the operators of the model.                                 *)
(***************************************************************************)
\* Min, the earliest deadline or wake-up time, exists for natural numbers.
LEMMA MinNat ==
    ASSUME NEW S \in SUBSET Nat, S # {}
    PROVE  Min(S) \in S /\ \A x \in S : Min(S) <= x
<1> DEFINE R == OpToRel(<, Nat)
<1>1. IsWellFoundedOn(R, Nat)
  BY NatLessThanWellFounded, Zenon
<1>2. PICK x \in S : \A y \in S : ~(<<y, x>> \in R)
  <2> HIDE DEF R
  <2> QED BY <1>1, WFMin, Zenon
<1>3. \A y \in S : ~(y < x)
  BY <1>2, Zenon DEF OpToRel
<1>4. \A y \in S : x <= y
  BY <1>3
<1> QED BY <1>4, Zenon DEF Min

\* Of finite sets, as FiniteSetTheorems has it.
FiniteFacts ==
    /\ \A n \in Nat : IsFiniteSet(1..n)
    /\ \A A, B, f : f \in Injection(A, B) /\ IsFiniteSet(B) => IsFiniteSet(A)
    /\ \A A : IsFiniteSet(A) => Cardinality(A) \in Nat /\ \A B \in SUBSET A : IsFiniteSet(B)

\* The lanes are finite: a lane holds a sequence number at most once.
LEMMA LanesFinite ==
    ASSUME FiniteFacts, TypeOK, LaneConsistency
    PROVE  IsFiniteSet(retries) /\ IsFiniteSet(DOMAIN inFlight)
<1>1. IsFiniteSet(Seqs)
  BY WidthAssumption DEF Seqs, FiniteFacts
<1>2. IsFiniteSet(retries)
  <2> DEFINE f == [q \in retries |-> q.seq]
  <2>1. f \in Injection(retries, Seqs)
    BY DEF TypeOK, Queued, LaneConsistency, LanesAgree, Injection, IsInjective
  <2> HIDE DEF f
  <2> QED BY <1>1, <2>1, Zenon DEF FiniteFacts
<1>3. IsFiniteSet(DOMAIN inFlight)
  <2> DEFINE f == [x \in DOMAIN inFlight |-> inFlight[x].seq]
  <2>1. f \in Injection(DOMAIN inFlight, Seqs)
    BY DEF TypeOK, Flight, LaneConsistency, LanesAgree, Injection, IsInjective
  <2> HIDE DEF f
  <2> QED BY <1>1, <2>1, Zenon DEF FiniteFacts
<1> QED BY <1>2, <1>3

\* What expireLocked leaves is well typed.
LEMMA SweepType ==
    ASSUME TypeOK
    PROVE  /\ Due \subseteq DOMAIN inFlight
           /\ DOMAIN Live = DOMAIN inFlight \ Due
           /\ \A x \in DOMAIN Live : Live[x] = inFlight[x]
           /\ Live \in [DOMAIN Live -> Flight] /\ DOMAIN Live \subseteq Receipts
           /\ SweptRetries \subseteq Queued
           /\ SweptStates \in [Seqs -> States]
           /\ SweptWatermark \in 0..FarFuture
<1>1. Due \subseteq DOMAIN inFlight
  BY DEF Due
<1>2. /\ DOMAIN Live = DOMAIN inFlight \ Due
      /\ \A x \in DOMAIN Live : Live[x] = inFlight[x]
  BY DEF Live, Restrict
<1>3. Live \in [DOMAIN Live -> Flight] /\ DOMAIN Live \subseteq Receipts
  <2>1. Live = [x \in DOMAIN Live |-> Live[x]]
    BY DEF Live, Restrict
  <2>2. \A x \in DOMAIN Live : Live[x] \in Flight
    BY <1>2 DEF TypeOK
  <2> QED BY <1>2, <2>1, <2>2 DEF TypeOK
<1>4. SweptRetries \subseteq Queued
  BY <1>1, WidthAssumption DEF SweptRetries, TypeOK, Queued, Flight, nextAttempt, Attempts
<1>5. SweptStates \in [Seqs -> States]
  BY DEF SweptStates, TypeOK, States
<1>6. SweptWatermark \in 0..FarFuture
  <2> DEFINE S == {FarFuture} \cup {Live[r].deadline : r \in DOMAIN Live}
  <2>1. S \in SUBSET (0..FarFuture) /\ S # {}
    BY <1>3, BoundAssumption DEF Flight, FarFuture
  <2>2. Min(S) \in 0..FarFuture
    <3> HIDE DEF S
    <3>1. S \in SUBSET Nat
      BY <2>1, BoundAssumption DEF FarFuture
    <3> QED BY <2>1, <3>1, MinNat, Zenon
  <2> QED BY <2>2 DEF SweptWatermark, Earliest, TypeOK
<1> QED BY <1>1, <1>2, <1>3, <1>4, <1>5, <1>6

\* expireLocked moves each due lease to the retry lane and nothing else.
LEMMA SweepLanes ==
    ASSUME TypeOK, LaneConsistency
    PROVE  LanesAgree(fresh, SweptRetries, Live, SweptStates)
<1>1. /\ Due \subseteq DOMAIN inFlight
      /\ DOMAIN Live = DOMAIN inFlight \ Due
      /\ \A x \in DOMAIN Live : Live[x] = inFlight[x]
  BY SweepType
<1>2. \A x \in DOMAIN inFlight : inFlight[x].seq \in Seqs
  BY DEF TypeOK, Flight
<1>3. \A q \in SweptRetries :
        \/ q \in retries
        \/ \E x \in Due : q = [seq |-> inFlight[x].seq,
                               attempt |-> nextAttempt(inFlight[x].attempt), readyAt |-> 0]
  BY DEF SweptRetries
<1>4. \A q1, q2 \in SweptRetries : q1.seq = q2.seq => q1 = q2
  <2>1. \A x, y \in Due : inFlight[x].seq = inFlight[y].seq => x = y
    BY <1>1 DEF LaneConsistency, LanesAgree
  <2>2. \A q \in retries, x \in Due : q.seq # inFlight[x].seq
    BY <1>1, <1>2 DEF LaneConsistency, LanesAgree
  <2>3. \A q1, q2 \in retries : q1.seq = q2.seq => q1 = q2
    BY DEF LaneConsistency, LanesAgree
  <2> QED BY <1>3, <2>1, <2>2, <2>3
<1>5. ASSUME NEW s \in Seqs
      PROVE  SweptStates[s] = "retry" <=> \E q \in SweptRetries : q.seq = s
  <2>1. SweptStates[s] = "retry" <=> states[s] = "retry" \/ \E x \in Due : inFlight[x].seq = s
    BY DEF SweptStates
  <2>2. states[s] = "retry" <=> \E q \in retries : q.seq = s
    BY DEF LaneConsistency, LanesAgree
  <2>3. (\E q \in SweptRetries : q.seq = s) <=>
          (\E q \in retries : q.seq = s) \/ \E x \in Due : inFlight[x].seq = s
    <3>1. ASSUME NEW x \in Due, inFlight[x].seq = s
          PROVE  \E q \in SweptRetries : q.seq = s
      <4> DEFINE q == [seq |-> inFlight[x].seq,
                       attempt |-> nextAttempt(inFlight[x].attempt), readyAt |-> 0]
      <4>1. q \in SweptRetries /\ q.seq = s
        BY <3>1 DEF SweptRetries
      <4> QED BY <4>1
    <3> QED BY <1>3, <3>1 DEF SweptRetries
  <2> QED BY <2>1, <2>2, <2>3
<1>6. \A s \in Seqs : SweptStates[s] = "inflight" <=> \E x \in DOMAIN Live : Live[x].seq = s
  BY <1>1, <1>2 DEF SweptStates, LaneConsistency, LanesAgree
<1>7. \A s \in Seqs : SweptStates[s] = "fresh" <=> \E i \in DOMAIN fresh : fresh[i] = s
  BY <1>1, <1>2 DEF SweptStates, LaneConsistency, LanesAgree
<1> QED BY <1>1, <1>4, <1>5, <1>6, <1>7 DEF LaneConsistency, LanesAgree

-----------------------------------------------------------------------------
(***************************************************************************)
(* Type correctness.                                                       *)
(***************************************************************************)
\* New builds a well-typed dispatcher.
LEMMA TypeInit == Init => TypeOK
<1> SUFFICES ASSUME Init PROVE TypeOK
  OBVIOUS
<1>1. AppendBound \in 0..MaxSeq /\ 1 \in Seqs /\ FarFuture \in Nat
  BY WidthAssumption, BoundAssumption DEF Seqs, FarFuture
<1>2. NoScan \in Scan
  BY DEF NoScan, Scan
<1>3. inFlight \in [DOMAIN inFlight -> Flight] /\ DOMAIN inFlight = {}
  BY DEF Init, NoFlights
<1>4. pending \subseteq Seqs /\ tail \in 0..MaxSeq
  BY <1>1, WidthAssumption DEF Init, Seqs
<1>5. cursor \in Seqs /\ expireAt \in 0..FarFuture /\ limit \in Int
      /\ unnotified \in Nat
  BY <1>1 DEF Init
<1>6. fresh \in Seq(Seqs) /\ selected \in Seq(Selection) /\ states \in [Seqs -> States]
  BY DEF Init, States
<1>7. count \in [Readers -> Nat] /\ wakeAt \in [Readers -> Nat \cup {NoWake}]
  BY DEF Init
<1> QED BY <1>2, <1>3, <1>4, <1>5, <1>6, <1>7, Zenon DEF Init, TypeOK

\* Every action of Read preserves the types.
LEMMA TypeRead ==
    ASSUME FiniteFacts, TypeOK, LaneConsistency, NEW r \in Readers, ReadStep(r)
    PROVE  TypeOK'
<1> USE DEF storeVars, laneVars, scanVars, takeVars, readerVars, Goto
<1> USE WidthAssumption, BoundAssumption, ConfigAssumption
<1>0. NoScan \in Scan /\ NoReader \in Readers \cup {NoReader}
  BY DEF NoScan, Scan
<1>1. ASSUME Return(r)
      PROVE  /\ pc' \in [Readers -> {"idle", "loop", "take", "rollback", "fill", "scan",
                                      "merge", "wait", "parked"}]
             /\ count' \in [Readers -> Nat] /\ ctxDone' \in [Readers -> BOOLEAN]
             /\ wakeAt' \in [Readers -> Nat \cup {NoWake}]
             /\ filling' \in [Readers -> {"loop", "wait"}]
  BY <1>1, Zenon DEF Return, TypeOK
<1>2. ASSUME expireLocked
      PROVE  /\ fresh' \in Seq(Seqs) /\ retries' \subseteq Queued
             /\ DOMAIN inFlight' \subseteq Receipts
             /\ inFlight' \in [DOMAIN inFlight' -> Flight]
             /\ states' \in [Seqs -> States] /\ expireAt' \in 0..FarFuture
  BY <1>2, SweepType, Zenon DEF expireLocked, TypeOK
<1>u. ASSUME Unlock
      PROVE  /\ mu' \in Readers \cup {NoReader} /\ limit' \in Int
             /\ selected' \in Seq(Selection) /\ originalPreference' \in BOOLEAN
  <2>1. limit' \in Int /\ selected' \in Seq(Selection)
    BY <1>u DEF Unlock
  <2> QED BY <1>u, <2>1, Zenon DEF Unlock
<1>3. CASE ReadClosed(r)
  BY <1>1, <1>3, Zenon DEF ReadClosed, TypeOK
<1>4. CASE ReadTopUp(r)
  BY <1>2, <1>4, Zenon DEF ReadTopUp, TypeOK
<1>5. CASE ReadTake(r)
  <2>1. Cardinality(DOMAIN Live) \in Nat
    BY LanesFinite, SweepType, Zenon DEF FiniteFacts
  <2>2. limit' \in Int
    BY <1>5, <2>1, SMTT(30) DEF ReadTake, TypeOK
  <2>3. selected' \in Seq(Selection)
    BY <1>5 DEF ReadTake
  <2> QED BY <1>2, <1>5, <2>2, <2>3, Zenon DEF ReadTake, TypeOK
<1>6. ASSUME NEW item, NEW lane \in {"fresh", "retry"}, NEW receipt \in Receipts,
             item \in Queued, Lease(item, lane, receipt)
      PROVE  /\ DOMAIN inFlight' \subseteq Receipts
             /\ inFlight' \in [DOMAIN inFlight' -> Flight]
             /\ expireAt' \in 0..FarFuture /\ states' \in [Seqs -> States]
             /\ selected' \in Seq(Selection)
  <2>1. [seq |-> item.seq, attempt |-> item.attempt, deadline |-> VisibilityTimeout] \in Flight
    BY <1>6 DEF Queued, Flight
  <2>2. inFlight' \in [DOMAIN inFlight \cup {receipt} -> Flight]
    BY <1>6, <2>1 DEF Lease, TypeOK
  <2>3. expireAt' \in 0..FarFuture
    BY <1>6, SMTT(30) DEF Lease, TypeOK, FarFuture
  <2>4. states' \in [Seqs -> States]
    BY <1>6 DEF Lease, TypeOK, Queued, States
  <2>5. selected' \in Seq(Selection)
    BY <1>6 DEF Lease, TypeOK, Queued, Selection
  <2> QED BY <2>2, <2>3, <2>4, <2>5, Zenon DEF TypeOK
<1>7. ASSUME NEW receipt \in Receipts, NEW q \in retries, TakeRetry(r, q, receipt)
      PROVE  TypeOK'
  BY <1>6, <1>7, Zenon DEF TakeRetry, TypeOK
<1>8. ASSUME NEW receipt \in Receipts, TakeFresh(r, receipt)
      PROVE  TypeOK'
  <2>1. [seq |-> Head(fresh), attempt |-> 1, readyAt |-> 0] \in Queued
    <3>1. Head(fresh) \in Seqs
      BY <1>8, SMTT(30) DEF TakeFresh, FreshReady, TypeOK
    <3> QED BY <3>1 DEF Queued, Attempts
  <2>2. fresh' \in Seq(Seqs)
    BY <1>8 DEF TakeFresh, FreshReady, TypeOK
  <2> QED BY <1>6, <1>8, <2>1, <2>2, Zenon DEF TakeFresh, TypeOK
<1>9. CASE TakeNoReceipt(r)
  BY <1>9, Zenon DEF TakeNoReceipt, TypeOK
<1>10. CASE RollbackOne(r)
  <2> DEFINE last == selected[Len(selected)]
  <2>1. last \in Selection
    BY <1>10 DEF RollbackOne, TypeOK
  <2>2. selected' \in Seq(Selection)
    BY <1>10, SMTT(30) DEF RollbackOne, TypeOK
  <2>3. DOMAIN inFlight' \subseteq Receipts /\ inFlight' \in [DOMAIN inFlight' -> Flight]
    BY <1>10, SMTT(30) DEF RollbackOne, TypeOK, Restrict
  <2>4. states' \in [Seqs -> States]
    BY <1>10, <2>1, Zenon DEF RollbackOne, TypeOK, Selection, States
  <2>5. retries' \subseteq Queued
    <3>1. [seq |-> last.seq, attempt |-> last.attempt, readyAt |-> last.readyAt] \in Queued
      BY <2>1 DEF Selection, Queued
    <3> QED BY <1>10, <3>1, SMTT(30) DEF RollbackOne, PushFront, TypeOK
  <2>6. fresh' \in Seq(Seqs)
    <3>1. last.seq \in Seqs
      BY <2>1 DEF Selection
    <3>2. <<last.seq>> \o fresh \in Seq(Seqs)
      BY <3>1 DEF TypeOK
    <3> QED BY <1>10, <3>2, Zenon DEF RollbackOne, PushFront, TypeOK
  <2> QED BY <1>10, <2>2, <2>3, <2>4, <2>5, <2>6, Zenon DEF RollbackOne, TypeOK
<1>11. CASE RollbackDone(r)
  BY <1>1, <1>u, <1>11, Zenon DEF RollbackDone, TypeOK
<1>12. CASE TakeDone(r)
  <2>1. issued' \subseteq Issue
    <3>1. \A i \in DOMAIN selected : selected[i] \in Selection
      BY SMTT(30) DEF TypeOK
    <3>2. \A i \in DOMAIN selected :
            [seq |-> selected[i].seq, attempt |-> selected[i].attempt,
             receipt |-> selected[i].receipt] \in Issue
      BY <3>1 DEF Selection, Issue
    <3> QED BY <1>12, <3>2 DEF TakeDone, TypeOK
  <2> QED BY <1>1, <1>u, <1>12, <2>1, Zenon DEF TakeDone, TypeOK
<1>13. CASE TakeNone(r)
  <2>1. nextWakeLocked \in Nat \cup {NoWake}
    <3> DEFINE instants == {q.readyAt : q \in retries}
                             \cup {inFlight[x].deadline : x \in DOMAIN inFlight}
    <3>1. instants \subseteq Int
      BY SMTT(30) DEF TypeOK, Queued, Flight
    <3>2. ASSUME instants # {}, \A t \in instants : ~(t <= 0)
          PROVE  Min(instants) \in Nat
      <4>1. instants \in SUBSET Nat
        <5> HIDE DEF instants
        <5> QED BY <3>1, <3>2
      <4> HIDE DEF instants
      <4> QED BY <3>2, <4>1, MinNat, Zenon
    <3> QED BY <3>2, Zenon DEF nextWakeLocked
  <2> QED BY <1>u, <1>13, <2>1, Zenon DEF TakeNone, TypeOK
<1>14. CASE FillSkip(r)
  BY <1>14, Zenon DEF FillSkip, TypeOK
<1>15. CASE FillStart(r)
  <2>1. scan' \in Scan
    <3>1. PrefetchCapacity - Len(fresh) \in Nat
      BY <1>15 DEF FillStart, TypeOK
    <3>2. [NoScan EXCEPT !.phase = "scan", !.free = PrefetchCapacity - Len(fresh)] \in Scan
      BY <1>0, <3>1, Zenon DEF Scan
    <3> QED BY <1>15, <3>2 DEF FillStart
  <2> QED BY <1>15, <2>1, SMTT(30) DEF FillStart, TypeOK
<1>16. CASE ScanBatch(r)
  <2>1. scan' \in Scan
    <3>1. PICK batch \in Batches : scan' = [scan EXCEPT !.phase = "scanned", !.records = batch]
      BY <1>16, Zenon DEF ScanBatch
    <3>2. batch \in Seq(Seqs)
      BY DEF Batches
    <3> QED BY <3>1, <3>2, Zenon DEF TypeOK, Scan
  <2> QED BY <1>16, <2>1, Zenon DEF ScanBatch, TypeOK
<1>17. CASE ScanError(r)
  BY <1>0, <1>1, <1>17, Zenon DEF ScanError, TypeOK
<1>18. CASE MergeStart(r)
  <2>1. scan' \in Scan
    BY <1>18, Zenon DEF MergeStart, TypeOK, Scan
  <2> QED BY <1>18, <2>1, Zenon DEF MergeStart, TypeOK
<1>19. CASE MergeRecord(r)
  <2> DEFINE seq == Head(scan.records)
  <2>1. seq \in Seqs /\ Tail(scan.records) \in Seq(Seqs)
    BY <1>19, SMTT(30) DEF MergeRecord, TypeOK, Scan
  <2>2. scan' \in Scan
    BY <1>19, <2>1, Zenon DEF MergeRecord, TypeOK, Scan
  <2>3. cursor' \in Seqs /\ scanDone' \in BOOLEAN
    <3>1. seq # MaxSeq => seq + 1 \in Seqs
      BY <2>1 DEF Seqs
    <3>2. cursor' \in {cursor, seq + 1} /\ (cursor' = seq + 1 => cursor' = cursor \/ seq # MaxSeq)
      BY <1>19 DEF MergeRecord
    <3>3. scanDone' \in {TRUE, scanDone}
      BY <1>19 DEF MergeRecord
    <3> QED BY <3>1, <3>2, <3>3, Zenon DEF TypeOK
  <2>4. states' \in [Seqs -> States] /\ fresh' \in Seq(Seqs)
    <3>1. \/ states' = [states EXCEPT ![seq] = "fresh"] /\ fresh' = Append(fresh, seq)
          \/ states' = states /\ fresh' = fresh
      BY <1>19 DEF MergeRecord
    <3>2. states \in [Seqs -> States] /\ fresh \in Seq(Seqs) /\ "fresh" \in States
      BY DEF TypeOK, States
    <3>3. [states EXCEPT ![seq] = "fresh"] \in [Seqs -> States]
      BY <2>1, <3>2
    <3>4. Append(fresh, seq) \in Seq(Seqs)
      BY <2>1, <3>2
    <3> QED BY <3>1, <3>2, <3>3, <3>4, Zenon
  <2> QED BY <1>19, <2>2, <2>3, <2>4, Zenon DEF MergeRecord, TypeOK
<1>20. CASE MergeDone(r)
  BY <1>0, <1>20, Zenon DEF MergeDone, TypeOK
<1>21. CASE WaitOver(r)
  BY <1>21, Zenon DEF WaitOver, Resume, TypeOK
<1>22. CASE Park(r)
  BY <1>22, Zenon DEF Park, TypeOK
<1>23. CASE WakeSignal(r)
  BY <1>23, Zenon DEF WakeSignal, Resume, TypeOK
<1>24. CASE WakeTimer(r)
  BY <1>24, Zenon DEF WakeTimer, Resume, TypeOK
<1>25. CASE WakeContext(r)
  BY <1>1, <1>25, Zenon DEF WakeContext, TypeOK
<1> QED BY <1>3, <1>4, <1>5, <1>7, <1>8, <1>9, <1>10, <1>11, <1>12, <1>13, <1>14, <1>15,
           <1>16, <1>17, <1>18, <1>19, <1>20, <1>21, <1>22, <1>23, <1>24, <1>25 DEF ReadStep

\* Every step of the dispatcher and its callers keeps the state well typed.
LEMMA TypeStep == FiniteFacts /\ TypeOK /\ LaneConsistency /\ [Next]_vars => TypeOK'
<1> SUFFICES ASSUME FiniteFacts, TypeOK, LaneConsistency, [Next]_vars PROVE TypeOK'
  OBVIOUS
<1> USE DEF storeVars, laneVars, scanVars, takeVars, readerVars, Goto
<1> USE WidthAssumption, BoundAssumption
<1>1. ASSUME NEW n \in 1..MaxBatch, AppendBatch(n) PROVE TypeOK'
  <2>1. tail' \in 0..MaxSeq /\ (tail + 1)..(tail + n) \subseteq Seqs
    <3>1. n \in Nat /\ tail \in Nat /\ tail + n <= MaxSeq
      BY <1>1, SMTT(30) DEF AppendBatch, TypeOK
    <3> QED BY <1>1, <3>1 DEF AppendBatch, Seqs
  <2>2. unnotified' \in Nat
    BY <1>1, SMTT(30) DEF AppendBatch, TypeOK
  <2>3. pending' \subseteq Seqs
    BY <1>1, <2>1 DEF AppendBatch, TypeOK
  <2> QED BY <1>1, <2>1, <2>2, <2>3, Zenon DEF AppendBatch, TypeOK
<1>2. CASE Notify
  <2>1. unnotified' \in Nat
    BY <1>2 DEF Notify, TypeOK
  <2> QED BY <1>2, <2>1, Zenon DEF Notify, TypeOK
<1>3. ASSUME NEW r \in Readers, Cancel(r) PROVE TypeOK'
  BY <1>3, Zenon DEF Cancel, TypeOK
<1>4. ASSUME NEW r \in Readers, NEW n \in Counts, StartRead(r, n) PROVE TypeOK'
  BY <1>4, InputAssumption, Zenon DEF StartRead, TypeOK
<1>5. ASSUME NEW D \in SUBSET issued, Release(D) PROVE TypeOK'
  <2>1. inFlight' \in [DOMAIN inFlight' -> Flight] /\ DOMAIN inFlight' \subseteq Receipts
    BY <1>5, SweepType DEF Release, Restrict
  <2>2. states' \in [Seqs -> States]
    BY <1>5, SweepType DEF Release, States
  <2> QED BY <1>5, <2>1, <2>2, SweepType, Zenon DEF Release, TypeOK
<1>6. ASSUME NEW D \in SUBSET issued, Retry(D) PROVE TypeOK'
  <2>1. inFlight' \in [DOMAIN inFlight' -> Flight] /\ DOMAIN inFlight' \subseteq Receipts
    BY <1>6, SweepType DEF Retry, Restrict
  <2>2. states' \in [Seqs -> States]
    BY <1>6, SweepType DEF Retry, States
  <2>3. \A d \in D : d.seq \in Seqs /\ nextAttempt(d.attempt) \in Attempts
                       /\ RetryDelay(d.attempt) \in Int
    <3>1. \A d \in D : d.seq \in Seqs /\ d.attempt \in 1..MaxAttempt
      BY DEF TypeOK, Issue, Attempts
    <3> QED BY <3>1 DEF nextAttempt, Attempts
  <2>4. retries' \subseteq Queued
    BY <1>6, <2>3, SweepType DEF Retry, Queued
  <2> QED BY <1>6, <2>1, <2>2, <2>4, SweepType, Zenon DEF Retry, TypeOK
<1>7. ASSUME NEW D \in SUBSET issued, NEW e \in Extensions, Extend(D, e) PROVE TypeOK'
  <2>1. \A x \in DOMAIN Live : x \in ReceiptsOf(D) =>
          [Live[x] EXCEPT !.deadline = @ + e] \in Flight
    BY <1>7, SweepType, InputAssumption DEF Extend, ReceiptsOf, Flight
  <2>2. inFlight' \in [DOMAIN Live -> Flight]
    BY <1>7, <2>1, SweepType DEF Extend
  <2> QED BY <1>7, <2>2, SweepType, Zenon DEF Extend, TypeOK
<1>8. ASSUME NEW D \in SUBSET issued, Reject(D) PROVE TypeOK'
  BY <1>8, SweepType, SMTT(30) DEF Reject, expireLocked, TypeOK
<1>9. CASE Snapshot
  BY <1>9, SweepType, SMTT(30) DEF Snapshot, expireLocked, TypeOK
<1>10. CASE Close
  BY <1>10, Zenon DEF Close, TypeOK
<1>11. CASE Tick
  <2>1. inFlight' \in [DOMAIN inFlight -> Flight]
    <3>1. \A t \in 0..MaxLease : Less1(t) \in 0..MaxLease
      BY DEF Less1
    <3>2. \A x \in DOMAIN inFlight : [inFlight[x] EXCEPT !.deadline = Less1(@)] \in Flight
      BY <3>1, Zenon DEF TypeOK, Flight
    <3> QED BY <1>11, <3>2 DEF Tick
  <2>2. retries' \subseteq Queued
    <3>1. ASSUME NEW q \in retries PROVE PastOrder(q.readyAt) \in Int
      <4>1. Cardinality({p \in retries : q.readyAt <= p.readyAt /\ p.readyAt <= 0}) \in Nat
        BY LanesFinite, Zenon DEF FiniteFacts
      <4> QED BY <4>1, SMTT(30) DEF PastOrder, TypeOK, Queued
    <3>2. \A q \in retries : [q EXCEPT !.readyAt = PastOrder(@)] \in Queued
      BY <3>1, Zenon DEF TypeOK, Queued
    <3> QED BY <1>11, <3>2 DEF Tick
  <2>3. expireAt' \in 0..FarFuture
    BY <1>11 DEF Tick, Less1, TypeOK, FarFuture
  <2>4. wakeAt' \in [Readers -> Nat \cup {NoWake}]
    BY <1>11, SMTT(30) DEF Tick, Less1, TypeOK, NoWake
  <2> QED BY <1>11, <2>1, <2>2, <2>3, <2>4, SMTT(30) DEF Tick, TypeOK
<1>12. CASE UNCHANGED vars
  BY <1>12, Zenon DEF vars, TypeOK
<1>13. CASE Complete
  <2>1. Calls \subseteq SUBSET issued
    BY DEF Calls
  <2>2. \A d \in issued : {d} \in SUBSET issued
    OBVIOUS
  <2> QED BY <1>5, <1>6, <1>7, <1>8, <1>13, <2>1, <2>2, Zenon DEF Complete, Commit, DeadLetter
<1> QED BY <1>1, <1>2, <1>3, <1>4, <1>9, <1>10, <1>11, <1>12, <1>13, TypeRead DEF Next

-----------------------------------------------------------------------------
(***************************************************************************)
(* The two locks.                                                          *)
(***************************************************************************)
\* A step of Read keeps both locks, and the locals they guard, in order.
LEMMA LockRead ==
    ASSUME TypeOK, LockInv, NEW r \in Readers, ReadStep(r)
    PROVE  LockInv'
<1> USE DEF storeVars, laneVars, scanVars, takeVars, readerVars, Goto, TypeOK, LockInv
<1> USE InputAssumption
<1>1. CASE ReadClosed(r)
  BY <1>1 DEF ReadClosed, Return
<1>2. CASE ReadTopUp(r)
  BY <1>2 DEF ReadTopUp
<1>3. CASE ReadTake(r)
  BY <1>3 DEF ReadTake
<1>4. ASSUME NEW receipt \in Receipts, NEW q \in retries, TakeRetry(r, q, receipt)
      PROVE  LockInv'
  BY <1>4 DEF TakeRetry
<1>5. ASSUME NEW receipt \in Receipts, TakeFresh(r, receipt)
      PROVE  LockInv'
  BY <1>5 DEF TakeFresh
<1>6. CASE TakeNoReceipt(r)
  BY <1>6 DEF TakeNoReceipt
<1>7. CASE RollbackOne(r)
  BY <1>7 DEF RollbackOne
<1>8. CASE RollbackDone(r)
  BY <1>8 DEF RollbackDone, Unlock, Return
<1>9. CASE TakeDone(r)
  BY <1>9 DEF TakeDone, Unlock, Return
<1>10. CASE TakeNone(r)
  BY <1>10 DEF TakeNone, Unlock
<1>11. CASE FillSkip(r)
  <2>1. filling[r] \in {"loop", "wait"}
    OBVIOUS
  <2> QED BY <1>11, <2>1 DEF FillSkip
<1>12. CASE FillStart(r)
  BY <1>12 DEF FillStart, NoScan
<1>13. CASE ScanBatch(r)
  BY <1>13 DEF ScanBatch, Scan
<1>14. CASE ScanError(r)
  BY <1>14 DEF ScanError, Return, NoScan
<1>15. CASE MergeStart(r)
  BY <1>15 DEF MergeStart, Scan
<1>16. CASE MergeRecord(r)
  BY <1>16 DEF MergeRecord, Scan
<1>17. CASE MergeDone(r)
  BY <1>17 DEF MergeDone, NoScan
<1>18. CASE WaitOver(r)
  BY <1>18 DEF WaitOver, Resume
<1>19. CASE Park(r)
  BY <1>19 DEF Park
<1>20. CASE WakeSignal(r)
  BY <1>20 DEF WakeSignal, Resume
<1>21. CASE WakeTimer(r)
  BY <1>21 DEF WakeTimer, Resume
<1>22. CASE WakeContext(r)
  BY <1>22 DEF WakeContext, Return
<1> HIDE DEF TypeOK, LockInv
<1> QED BY <1>1, <1>2, <1>3, <1>4, <1>5, <1>6, <1>7, <1>8, <1>9, <1>10, <1>11, <1>12,
           <1>13, <1>14, <1>15, <1>16, <1>17, <1>18, <1>19, <1>20, <1>21, <1>22 DEF ReadStep

\* Every step keeps both locks, and the locals they guard, in order.
LEMMA LockStep == TypeOK /\ LockInv /\ [Next]_vars => LockInv'
<1> SUFFICES ASSUME TypeOK, LockInv, [Next]_vars PROVE LockInv'
  OBVIOUS
<1>1. CASE \E r \in Readers : ReadStep(r)
  BY <1>1, LockRead
<1>2. ASSUME NEW r \in Readers, NEW n \in Counts, StartRead(r, n)
      PROVE  LockInv'
  BY <1>2 DEF StartRead, Goto, LockInv, TypeOK, scanVars, takeVars
<1>3. ASSUME UNCHANGED <<pc, mu, scanMu, scan, selected>>
      PROVE  LockInv'
  BY <1>3 DEF LockInv
<1>4. CASE Complete
  <2>1. ASSUME NEW D, Commit(D) \/ Retry(D) \/ Reject(D)
        PROVE  UNCHANGED <<pc, mu, scanMu, scan, selected>>
    BY <2>1 DEF Commit, Release, Retry, Reject, scanVars, takeVars, readerVars
  <2>2. ASSUME NEW D, NEW e, Extend(D, e)
        PROVE  UNCHANGED <<pc, mu, scanMu, scan, selected>>
    BY <2>2 DEF Extend, scanVars, takeVars, readerVars
  <2>3. ASSUME NEW d, DeadLetter(d)
        PROVE  UNCHANGED <<pc, mu, scanMu, scan, selected>>
    BY <2>3 DEF DeadLetter, Release, scanVars, takeVars, readerVars
  <2> QED BY <1>3, <1>4, <2>1, <2>2, <2>3, Zenon DEF Complete
<1>5. ASSUME \/ \E n \in 1..MaxBatch : AppendBatch(n)
             \/ Notify \/ (\E r \in Readers : Cancel(r)) \/ Snapshot \/ Close \/ Tick
      PROVE  UNCHANGED <<pc, mu, scanMu, scan, selected>>
  BY <1>5 DEF AppendBatch, Notify, Cancel, Snapshot, Close, Tick, scanVars, takeVars, readerVars
<1>6. CASE UNCHANGED vars
  BY <1>3, <1>6 DEF vars, scanVars, takeVars, readerVars
<1> QED BY <1>1, <1>2, <1>3, <1>4, <1>5, <1>6 DEF Next


-----------------------------------------------------------------------------
(***************************************************************************)
(* The lanes.                                                              *)
(***************************************************************************)
\* A step that touches neither the lanes nor what was taken from them.
LaneFrame == UNCHANGED <<laneVars, selected, cursor, scanDone, issued>>

\* A step that does no more to the lanes than to sweep them.
SweepOnly ==
    /\ expireLocked /\ mu = NoReader
    /\ selected' \in {selected, <<>>} /\ UNCHANGED <<cursor, scanDone, issued>>

\* Most steps leave the lanes alone; the others are named here.
LEMMA LaneSteps ==
    ASSUME TypeOK, [Next]_vars
    PROVE  \/ LaneFrame \/ SweepOnly
           \/ \E r \in Readers, receipt \in Receipts, q \in retries : TakeRetry(r, q, receipt)
           \/ \E r \in Readers, receipt \in Receipts : TakeFresh(r, receipt)
           \/ \E r \in Readers : RollbackOne(r) \/ MergeRecord(r) \/ TakeDone(r)
           \/ \E D \in SUBSET issued : Release(D) \/ Retry(D)
           \/ \E D \in SUBSET issued, e \in Extensions : Extend(D, e)
           \/ Tick
<1> USE DEF storeVars, laneVars, scanVars, takeVars, readerVars
<1>1. ASSUME NEW r \in Readers, ReadStep(r)
      PROVE  \/ LaneFrame \/ SweepOnly
             \/ \E receipt \in Receipts, q \in retries : TakeRetry(r, q, receipt)
             \/ \E receipt \in Receipts : TakeFresh(r, receipt)
             \/ RollbackOne(r) \/ MergeRecord(r) \/ TakeDone(r)
  <2>1. ASSUME ReadClosed(r) \/ FillSkip(r) \/ FillStart(r) \/ ScanBatch(r) \/ ScanError(r)
        PROVE  LaneFrame
    BY <2>1, Zenon DEF ReadClosed, FillSkip, FillStart, ScanBatch, ScanError, LaneFrame
  <2>2. ASSUME MergeStart(r) \/ MergeDone(r) \/ WaitOver(r) \/ Park(r) \/ WakeSignal(r)
               \/ WakeTimer(r) \/ WakeContext(r)
        PROVE  LaneFrame
    BY <2>2, Zenon DEF MergeStart, MergeDone, WaitOver, Park, WakeSignal, WakeTimer, WakeContext,
                       LaneFrame
  <2>3. ASSUME ReadTopUp(r) \/ ReadTake(r) PROVE SweepOnly
    BY <2>3 DEF ReadTopUp, ReadTake, SweepOnly
  <2>4. ASSUME TakeNoReceipt(r) \/ RollbackDone(r) \/ TakeNone(r)
        PROVE  LaneFrame
    BY <2>4 DEF TakeNoReceipt, RollbackDone, TakeNone, Unlock, LaneFrame
  <2> QED BY <1>1, <2>1, <2>2, <2>3, <2>4, SMTT(30) DEF ReadStep
<1>2. CASE Complete
  <2>1. ASSUME NEW D \in Calls, Reject(D) PROVE SweepOnly
    BY <2>1 DEF Reject, SweepOnly
  <2>2. Calls \subseteq SUBSET issued
    BY DEF Calls
  <2>3. ASSUME NEW d \in issued, DeadLetter(d) PROVE \E D \in SUBSET issued : Release(D)
    BY <2>3 DEF DeadLetter
  <2> QED BY <1>2, <2>1, <2>2, <2>3 DEF Complete, Commit
<1>3. ASSUME Snapshot PROVE SweepOnly
  BY <1>3 DEF Snapshot, SweepOnly
<1>4. ASSUME \/ \E n \in 1..MaxBatch : AppendBatch(n)
             \/ Notify \/ Close
             \/ \E r \in Readers : Cancel(r) \/ \E n \in Counts : StartRead(r, n)
      PROVE  LaneFrame
  BY <1>4 DEF AppendBatch, Notify, Close, Cancel, StartRead, LaneFrame
<1>5. ASSUME UNCHANGED vars PROVE LaneFrame
  BY <1>5 DEF vars, LaneFrame
<1> QED BY <1>1, <1>2, <1>3, <1>4, <1>5 DEF Next

\* Lanes f and R hold what st says of every record but s, and not s.
QueuesWithout(f, R, st, s) ==
    /\ \A i, j \in DOMAIN f : f[i] = f[j] => i = j
    /\ \A q1, q2 \in R : q1.seq = q2.seq => q1 = q2
    /\ \A i \in DOMAIN f : f[i] # s
    /\ \A q \in R : q.seq # s
    /\ \A t \in Seqs : t # s =>
         /\ st[t] = "fresh" <=> \E i \in DOMAIN f : f[i] = t
         /\ st[t] = "retry" <=> \E q \in R : q.seq = t

\* Leasing item under a receipt that is not in flight.
LEMMA LeaseLanes ==
    ASSUME TypeOK, SelectionInv, NEW f \in Seq(Seqs), NEW R \in SUBSET Queued,
           NEW item \in Queued, NEW lane \in {"fresh", "retry"}, NEW receipt \in Receipts,
           receipt \notin DOMAIN inFlight, Lease(item, lane, receipt),
           LaneConsistency, states[item.seq] # "inflight",
           QueuesWithout(f, R, states, item.seq)
    PROVE  LanesAgree(f, R, inFlight', states') /\ SelectionInv'
<1>1. /\ DOMAIN inFlight' = DOMAIN inFlight \cup {receipt}
      /\ inFlight'[receipt].seq = item.seq
      /\ \A x \in DOMAIN inFlight : inFlight'[x] = inFlight[x]
  BY Zenon DEF Lease
<1>2. item.seq \in Seqs /\ states \in [Seqs -> States]
  BY Zenon DEF Queued, TypeOK
<1>3. /\ states'[item.seq] = "inflight"
      /\ \A s \in Seqs : s # item.seq => states'[s] = states[s]
  BY <1>2 DEF Lease
<1>4. \A x \in DOMAIN inFlight : inFlight[x].seq # item.seq
  BY <1>2 DEF LaneConsistency, LanesAgree
<1>5. \A s \in Seqs : states[s] = "inflight" <=> \E x \in DOMAIN inFlight : inFlight[x].seq = s
  BY DEF LaneConsistency, LanesAgree
<1>6. \A x, y \in DOMAIN inFlight' : inFlight'[x].seq = inFlight'[y].seq => x = y
  BY <1>1, <1>4 DEF LaneConsistency, LanesAgree
<1>7. \A s \in Seqs : states'[s] = "inflight" <=> \E x \in DOMAIN inFlight' : inFlight'[x].seq = s
  BY <1>1, <1>2, <1>3, <1>5
<1>8. LanesAgree(f, R, inFlight', states')
  BY <1>2, <1>3, <1>6, <1>7, SMTT(20) DEF LanesAgree, QueuesWithout
<1>9. SelectionInv'
  <2> DEFINE new == [seq |-> item.seq, attempt |-> item.attempt,
                     readyAt |-> item.readyAt, lane |-> lane, receipt |-> receipt]
  <2>1. selected' = Append(selected, new)
    BY DEF Lease
  <2>2. selected \in Seq(Selection)
    BY Zenon DEF TypeOK
  <2>3. /\ Len(selected') = Len(selected) + 1
        /\ DOMAIN selected' = 1..(Len(selected) + 1)
        /\ selected'[Len(selected) + 1] = new
        /\ \A i \in 1..Len(selected) : selected'[i] = selected[i]
        /\ DOMAIN selected = 1..Len(selected) /\ Len(selected) \in Nat
    <3> HIDE DEF new
    <3> QED BY <2>1, <2>2
  <2>4. new.receipt = receipt /\ new.seq = item.seq
    OBVIOUS
  <2> HIDE DEF new
  <2>5. \A i \in DOMAIN selected' : i \in DOMAIN selected \/ i = Len(selected) + 1
    BY <2>3
  <2>6. \A i \in DOMAIN selected : selected'[i] = selected[i]
                                     /\ selected[i].receipt \in DOMAIN inFlight
                                     /\ inFlight[selected[i].receipt].seq = selected[i].seq
    BY <2>3 DEF SelectionInv
  <2>7. \A i, j \in DOMAIN selected : selected[i].receipt = selected[j].receipt => i = j
    BY DEF SelectionInv
  <2> QED BY <1>1, <2>3, <2>4, <2>5, <2>6, <2>7, SMTT(30) DEF SelectionInv
<1> QED BY <1>8, <1>9, Zenon

\* The selection is empty while nobody holds mu.
LEMMA NoSelection ==
    ASSUME TypeOK, LockInv, mu = NoReader
    PROVE  selected = <<>>
BY InputAssumption DEF TypeOK, LockInv

\* takeLocked moves the record it selects from its lane into flight.
LEMMA LaneTake ==
    ASSUME TypeOK, LaneConsistency, SelectionInv,
           NEW r \in Readers, NEW receipt \in Receipts,
           TakeFresh(r, receipt) \/ \E q \in retries : TakeRetry(r, q, receipt)
    PROVE  LaneConsistency' /\ SelectionInv'
<1>1. CASE TakeFresh(r, receipt)
  <2> DEFINE item == [seq |-> Head(fresh), attempt |-> 1, readyAt |-> 0]
  <2>1. /\ fresh \in Seq(Seqs) /\ fresh # <<>> /\ fresh' = Tail(fresh)
        /\ retries' = retries /\ receipt \notin DOMAIN inFlight
        /\ Lease(item, "fresh", receipt)
    BY <1>1 DEF TakeFresh, FreshReady, TypeOK
  <2>2. /\ fresh[1] \in Seqs /\ item.seq = fresh[1] /\ item \in Queued
        /\ Tail(fresh) \in Seq(Seqs)
    BY <2>1, WidthAssumption DEF Queued, Attempts
  <2>3. /\ Len(fresh) \in Nat \ {0} /\ DOMAIN fresh = 1..Len(fresh)
        /\ DOMAIN Tail(fresh) = 1..(Len(fresh) - 1)
        /\ \A i \in 1..(Len(fresh) - 1) : Tail(fresh)[i] = fresh[i + 1]
    BY <2>1
  <2>4. \A i, j \in DOMAIN fresh : fresh[i] = fresh[j] => i = j
    BY DEF LaneConsistency, LanesAgree
  <2>5. \A i \in DOMAIN fresh : i = 1 \/ (i - 1 \in DOMAIN Tail(fresh) /\ Tail(fresh)[i - 1] = fresh[i])
    BY <2>3
  <2>6. \A i \in DOMAIN Tail(fresh) : i + 1 \in DOMAIN fresh /\ Tail(fresh)[i] = fresh[i + 1]
    BY <2>3
  <2>7. /\ \A i, j \in DOMAIN Tail(fresh) : Tail(fresh)[i] = Tail(fresh)[j] => i = j
        /\ \A i \in DOMAIN Tail(fresh) : Tail(fresh)[i] # fresh[1]
    BY <2>3, <2>4, <2>6
  <2>8. \A s \in Seqs : s # fresh[1] =>
          (states[s] = "fresh" <=> \E i \in DOMAIN Tail(fresh) : Tail(fresh)[i] = s)
    BY <2>5, <2>6 DEF LaneConsistency, LanesAgree
  <2>9. states[fresh[1]] = "fresh"
    BY <2>2, <2>3 DEF LaneConsistency, LanesAgree
  <2>10. /\ \A q1, q2 \in retries : q1.seq = q2.seq => q1 = q2
         /\ \A s \in Seqs : states[s] = "retry" <=> \E q \in retries : q.seq = s
    BY Zenon DEF LaneConsistency, LanesAgree
  <2>11. \A q \in retries : q.seq # fresh[1]
    BY <2>2, <2>9, <2>10
  <2>12. retries \in SUBSET Queued /\ "fresh" \in {"fresh", "retry"}
    BY Zenon DEF TypeOK
  <2>13. QueuesWithout(Tail(fresh), retries, states, item.seq)
    BY <2>2, <2>7, <2>8, <2>10, <2>11, Zenon DEF QueuesWithout
  <2>14. states[item.seq] # "inflight"
    BY <2>9
  <2> HIDE DEF item
  <2>15. LanesAgree(Tail(fresh), retries, inFlight', states') /\ SelectionInv'
    BY <2>1, <2>2, <2>12, <2>13, <2>14, LeaseLanes, Zenon
  <2> QED BY <2>1, <2>15 DEF LaneConsistency
<1>2. ASSUME NEW q \in retries, TakeRetry(r, q, receipt)
      PROVE  LaneConsistency' /\ SelectionInv'
  <2>1. /\ retries' = retries \ {q} /\ fresh' = fresh /\ receipt \notin DOMAIN inFlight
        /\ Lease(q, "retry", receipt)
    BY <1>2 DEF TakeRetry
  <2>2. q \in Queued /\ q.seq \in Seqs /\ fresh \in Seq(Seqs) /\ retries \ {q} \in SUBSET Queued
    BY DEF TypeOK, Queued
  <2>3. /\ \A i, j \in DOMAIN fresh : fresh[i] = fresh[j] => i = j
        /\ \A q1, q2 \in retries : q1.seq = q2.seq => q1 = q2
    BY Zenon DEF LaneConsistency, LanesAgree
  <2>4. \A s \in Seqs : states[s] = "fresh" <=> \E i \in DOMAIN fresh : fresh[i] = s
    BY Zenon DEF LaneConsistency, LanesAgree
  <2>5. \A s \in Seqs : states[s] = "retry" <=> \E q1 \in retries : q1.seq = s
    BY Zenon DEF LaneConsistency, LanesAgree
  <2>6. states[q.seq] = "retry"
    BY <2>2, <2>5
  <2>a. \A i \in DOMAIN fresh : fresh[i] # q.seq
    BY <2>2, <2>4, <2>6
  <2>b. \A s \in Seqs : s # q.seq => (states[s] = "retry" <=> \E q1 \in retries \ {q} : q1.seq = s)
    BY <2>5
  <2>7. QueuesWithout(fresh, retries \ {q}, states, q.seq)
    BY <2>3, <2>4, <2>a, <2>b DEF QueuesWithout
  <2>8. states[q.seq] # "inflight" /\ "retry" \in {"fresh", "retry"}
    BY <2>6, Zenon
  <2>9. LanesAgree(fresh, retries \ {q}, inFlight', states') /\ SelectionInv'
    BY <2>1, <2>2, <2>7, <2>8, LeaseLanes, SMTT(30)
  <2> QED BY <2>1, <2>9 DEF LaneConsistency
<1> QED BY <1>1, <1>2

\* rollbackSelectionLocked moves the record back to the lane it came from.
LEMMA LaneRollback ==
    ASSUME TypeOK, LaneConsistency, SelectionInv, NEW r \in Readers, RollbackOne(r)
    PROVE  LaneConsistency' /\ SelectionInv'
<1> DEFINE n == Len(selected)
           last == selected[n]
<1>1. /\ selected \in Seq(Selection) /\ n \in Nat \ {0} /\ DOMAIN selected = 1..n
      /\ last \in Selection /\ n \in DOMAIN selected
  BY DEF RollbackOne, TypeOK
<1>2. last.seq \in Seqs /\ last.lane \in {"fresh", "retry"}
  BY <1>1 DEF Selection
<1>3. /\ selected' = SubSeq(selected, 1, n - 1)
      /\ inFlight' = Restrict(inFlight, DOMAIN inFlight \ {last.receipt})
      /\ states' = [states EXCEPT ![last.seq] = last.lane]
  BY DEF RollbackOne
<1>4. /\ DOMAIN selected' = 1..(n - 1)
      /\ \A i \in 1..(n - 1) : selected'[i] = selected[i]
  BY <1>1, <1>3
<1>5. last.receipt \in DOMAIN inFlight /\ inFlight[last.receipt].seq = last.seq
  BY <1>1 DEF SelectionInv
<1>6. states[last.seq] = "inflight"
  BY <1>2, <1>5 DEF LaneConsistency, LanesAgree
<1>7. /\ DOMAIN inFlight' = DOMAIN inFlight \ {last.receipt}
      /\ \A x \in DOMAIN inFlight' : inFlight'[x] = inFlight[x]
  BY <1>3 DEF Restrict
<1>8. \A s \in Seqs : states'[s] = IF s = last.seq THEN last.lane ELSE states[s]
  BY <1>2, <1>3 DEF TypeOK
<1>9. SelectionInv'
  <2>1. \A i \in 1..(n - 1) : selected[i].receipt # last.receipt
    BY <1>1 DEF SelectionInv
  <2> QED BY <1>1, <1>4, <1>7, <2>1, SMTT(30) DEF SelectionInv
<1>10. /\ \A x, y \in DOMAIN inFlight' : inFlight'[x].seq = inFlight'[y].seq => x = y
       /\ \A s \in Seqs : states'[s] = "inflight" <=> \E x \in DOMAIN inFlight' : inFlight'[x].seq = s
  <2>1. \A x \in DOMAIN inFlight' : inFlight[x].seq # last.seq
    BY <1>5, <1>7, SMTT(20) DEF LaneConsistency, LanesAgree
  <2>2. \A s \in Seqs : states[s] = "inflight" <=> \E x \in DOMAIN inFlight : inFlight[x].seq = s
    BY DEF LaneConsistency, LanesAgree
  <2>3. \A x, y \in DOMAIN inFlight : inFlight[x].seq = inFlight[y].seq => x = y
    BY DEF LaneConsistency, LanesAgree
  <2> HIDE DEF last
  <2> QED BY <1>2, <1>5, <1>7, <1>8, <2>1, <2>2, <2>3, SMTT(30)
<1>11. /\ \A i, j \in DOMAIN fresh : fresh[i] = fresh[j] => i = j
       /\ \A q1, q2 \in retries : q1.seq = q2.seq => q1 = q2
       /\ \A i \in DOMAIN fresh : fresh[i] # last.seq
       /\ \A q \in retries : q.seq # last.seq
       /\ \A s \in Seqs : states[s] = "fresh" <=> \E i \in DOMAIN fresh : fresh[i] = s
       /\ \A s \in Seqs : states[s] = "retry" <=> \E q \in retries : q.seq = s
  BY <1>2, <1>6, Zenon DEF LaneConsistency, LanesAgree
<1>12. CASE last.lane = "retry"
  <2> DEFINE item == [seq |-> last.seq, attempt |-> last.attempt, readyAt |-> last.readyAt]
  <2>1. retries' = retries \cup {item} /\ fresh' = fresh
    BY <1>12, Zenon DEF RollbackOne, PushFront
  <2>2. item.seq = last.seq
    BY Zenon
  <2> HIDE DEF item, last
  <2> QED BY <1>2, <1>8, <1>9, <1>10, <1>11, <1>12, <2>1, <2>2, SMTT(30)
          DEF LaneConsistency, LanesAgree
<1>13. CASE last.lane = "fresh"
  <2>1. retries' = retries /\ fresh' = <<last.seq>> \o fresh
    BY <1>13, Zenon DEF RollbackOne, PushFront
  <2>2. fresh \in Seq(Seqs)
    BY DEF TypeOK
  <2> HIDE DEF last
  <2>3. /\ DOMAIN fresh = 1..Len(fresh) /\ Len(fresh) \in Nat
        /\ DOMAIN fresh' = 1..(Len(fresh) + 1)
        /\ fresh'[1] = last.seq
        /\ \A i \in 1..Len(fresh) : fresh'[i + 1] = fresh[i]
    BY <1>2, <2>1, <2>2
  <2>4. \A i \in DOMAIN fresh' : i = 1 \/ (i - 1 \in DOMAIN fresh /\ fresh'[i] = fresh[i - 1])
    BY <2>3
  <2>5. \A i \in DOMAIN fresh : i + 1 \in DOMAIN fresh' /\ fresh'[i + 1] = fresh[i]
    BY <2>3
  <2>6. 1 \in DOMAIN fresh'
    BY <2>3
  <2>7. \A i, j \in DOMAIN fresh' : fresh'[i] = fresh'[j] => i = j
    BY <1>11, <2>3, <2>4
  <2>8. ASSUME NEW s \in Seqs
        PROVE  states'[s] = "fresh" <=> \E i \in DOMAIN fresh' : fresh'[i] = s
    <3>1. CASE s = last.seq
      BY <1>8, <1>13, <2>3, <2>6, <3>1, Zenon
    <3>2. CASE s # last.seq
      <4>1. states'[s] = "fresh" <=> \E i \in DOMAIN fresh : fresh[i] = s
        BY <1>8, <1>11, <3>2, Zenon
      <4> QED BY <2>3, <2>4, <2>5, <3>2, <4>1
    <3> QED BY <3>1, <3>2
  <2>9. \A s \in Seqs : states'[s] = "retry" <=> \E q \in retries' : q.seq = s
    BY <1>2, <1>8, <1>11, <1>13, <2>1
  <2> QED BY <1>9, <1>10, <1>11, <2>1, <2>7, <2>8, <2>9, SMTT(30) DEF LaneConsistency, LanesAgree
<1> QED BY <1>2, <1>12, <1>13

\* fillFresh queues a record once, however often scans return it.
LEMMA LaneMerge ==
    ASSUME TypeOK, LaneConsistency, SelectionInv, NEW r \in Readers, MergeRecord(r)
    PROVE  LaneConsistency' /\ SelectionInv'
<1> DEFINE seq == Head(scan.records)
<1>1. seq \in Seqs
  BY DEF MergeRecord, TypeOK, Scan
<1>2. retries' = retries /\ inFlight' = inFlight /\ selected' = selected
  BY DEF MergeRecord, takeVars
<1>3. SelectionInv'
  BY <1>2 DEF SelectionInv
<1>4. \/ states[seq] = "untracked" /\ fresh' = Append(fresh, seq)
           /\ states' = [states EXCEPT ![seq] = "fresh"]
      \/ fresh' = fresh /\ states' = states
  BY DEF MergeRecord
<1> HIDE DEF seq
<1>5. CASE /\ states[seq] = "untracked" /\ fresh' = Append(fresh, seq)
           /\ states' = [states EXCEPT ![seq] = "fresh"]
  <2>1. fresh \in Seq(Seqs) /\ states \in [Seqs -> States]
    BY DEF TypeOK
  <2>2. /\ DOMAIN fresh = 1..Len(fresh) /\ Len(fresh) \in Nat
        /\ DOMAIN fresh' = 1..(Len(fresh) + 1)
        /\ fresh'[Len(fresh) + 1] = seq
        /\ \A i \in 1..Len(fresh) : fresh'[i] = fresh[i]
    BY <1>1, <1>5, <2>1
  <2>3. \A i \in DOMAIN fresh' : i = Len(fresh) + 1 \/ (i \in DOMAIN fresh /\ fresh'[i] = fresh[i])
    BY <2>2
  <2>4. /\ Len(fresh) + 1 \in DOMAIN fresh'
        /\ \A i \in DOMAIN fresh : i \in DOMAIN fresh' /\ fresh'[i] = fresh[i]
    BY <2>2
  <2>5. \A i \in DOMAIN fresh : fresh[i] # seq
    BY <1>1, <1>5 DEF LaneConsistency, LanesAgree
  <2>6. \A s \in Seqs : states'[s] = IF s = seq THEN "fresh" ELSE states[s]
    BY <1>5, <2>1
  <2>7. \A i, j \in DOMAIN fresh' : fresh'[i] = fresh'[j] => i = j
    BY <2>2, <2>3, <2>5 DEF LaneConsistency, LanesAgree
  <2>8. \A s \in Seqs : states'[s] = "fresh" <=> \E i \in DOMAIN fresh' : fresh'[i] = s
    BY <2>2, <2>3, <2>4, <2>6, SMTT(30) DEF LaneConsistency, LanesAgree
  <2>9. \A s \in Seqs :
          /\ states'[s] = "retry" <=> \E q \in retries' : q.seq = s
          /\ states'[s] = "inflight" <=> \E x \in DOMAIN inFlight' : inFlight'[x].seq = s
    BY <1>1, <1>2, <1>5, <2>6 DEF LaneConsistency, LanesAgree
  <2> QED BY <1>2, <1>3, <2>7, <2>8, <2>9, Zenon DEF LaneConsistency, LanesAgree
<1>6. CASE fresh' = fresh /\ states' = states
  BY <1>2, <1>3, <1>6 DEF LaneConsistency
<1> QED BY <1>4, <1>5, <1>6

-----------------------------------------------------------------------------
(***************************************************************************)
(* Completions and the clock.                                              *)
(***************************************************************************)
\* Accepted deliveries are in flight after the sweep.
LEMMA AcceptedFacts ==
    ASSUME TypeOK, NEW D \in SUBSET issued, Accepted(D)
    PROVE  /\ \A d \in D : d.seq \in Seqs /\ d.receipt \in DOMAIN Live
                             /\ Live[d.receipt].seq = d.seq
           /\ \A s \in SeqsOf(D) : \E x \in ReceiptsOf(D) : Live[x].seq = s
           /\ \A x \in ReceiptsOf(D) : x \in DOMAIN Live /\ Live[x].seq \in SeqsOf(D)
<1>1. \A d \in D : d.seq \in Seqs
  BY Zenon DEF TypeOK, Issue
<1>2. \A d \in D : d.receipt \in DOMAIN Live /\ Live[d.receipt].seq = d.seq
  BY Zenon DEF Accepted, Valid
<1> QED BY <1>1, <1>2 DEF SeqsOf, ReceiptsOf

\* What Commit, DeadLetter and Retry leave in flight when they accept D.
Kept(D) == Restrict(Live, DOMAIN Live \ ReceiptsOf(D))

\* Taking accepted deliveries out of flight takes out exactly their records.
LEMMA ReleaseFlights ==
    ASSUME TypeOK, LaneConsistency, NEW D \in SUBSET issued, Accepted(D)
    PROVE  /\ \A x, y \in DOMAIN Kept(D) : Kept(D)[x].seq = Kept(D)[y].seq => x = y
           /\ \A s \in Seqs : (\E x \in DOMAIN Kept(D) : Kept(D)[x].seq = s) <=>
                                (SweptStates[s] = "inflight" /\ s \notin SeqsOf(D))
           /\ \A s \in SeqsOf(D) : SweptStates[s] = "inflight"
<1>1. /\ DOMAIN Kept(D) = DOMAIN Live \ ReceiptsOf(D)
      /\ \A x \in DOMAIN Kept(D) : Kept(D)[x] = Live[x]
  BY DEF Restrict, Kept
<1>2. /\ \A x, y \in DOMAIN Live : Live[x].seq = Live[y].seq => x = y
      /\ \A s \in Seqs : SweptStates[s] = "inflight" <=> \E x \in DOMAIN Live : Live[x].seq = s
  BY SweepLanes DEF LanesAgree
<1>3. \A s \in SeqsOf(D) : s \in Seqs
  BY AcceptedFacts DEF SeqsOf
<1>4. \A s \in SeqsOf(D) : SweptStates[s] = "inflight"
  BY <1>2, <1>3, AcceptedFacts
<1>5. \A x \in DOMAIN Kept(D) : Live[x].seq \notin SeqsOf(D)
  BY <1>1, <1>2, AcceptedFacts
<1>6. \A x \in DOMAIN Live : Live[x].seq \notin SeqsOf(D) => x \in DOMAIN Kept(D)
  BY <1>1, AcceptedFacts
<1>7. \A x, y \in DOMAIN Kept(D) : Kept(D)[x].seq = Kept(D)[y].seq => x = y
  BY <1>1, <1>2
<1>8. ASSUME NEW s \in Seqs, NEW x \in DOMAIN Kept(D), Kept(D)[x].seq = s
      PROVE  SweptStates[s] = "inflight" /\ s \notin SeqsOf(D)
  BY <1>1, <1>2, <1>5, <1>8
<1>9. ASSUME NEW s \in Seqs, SweptStates[s] = "inflight", s \notin SeqsOf(D)
      PROVE  \E x \in DOMAIN Kept(D) : Kept(D)[x].seq = s
  BY <1>1, <1>2, <1>6, <1>9
<1> QED BY <1>4, <1>7, <1>8, <1>9

\* Commit and DeadLetter take exactly their records out of the lanes.
LEMMA LaneRelease ==
    ASSUME TypeOK, LaneConsistency, NEW D \in SUBSET issued, Release(D)
    PROVE  LaneConsistency'
<1>1. /\ Accepted(D) /\ fresh' = fresh /\ retries' = SweptRetries
      /\ inFlight' = Kept(D)
      /\ \A s \in Seqs : states'[s] = IF s \in SeqsOf(D) THEN "untracked" ELSE SweptStates[s]
  BY Zenon DEF Release, Kept
<1>2. LanesAgree(fresh, SweptRetries, Live, SweptStates)
  BY SweepLanes, Zenon
<1>3. /\ \A x, y \in DOMAIN inFlight' : inFlight'[x].seq = inFlight'[y].seq => x = y
      /\ \A s \in Seqs : (\E x \in DOMAIN inFlight' : inFlight'[x].seq = s) <=>
                           (SweptStates[s] = "inflight" /\ s \notin SeqsOf(D))
      /\ \A s \in SeqsOf(D) : SweptStates[s] = "inflight"
  <2>1. /\ \A x, y \in DOMAIN Kept(D) : Kept(D)[x].seq = Kept(D)[y].seq => x = y
        /\ \A s \in Seqs : (\E x \in DOMAIN Kept(D) : Kept(D)[x].seq = s) <=>
                             (SweptStates[s] = "inflight" /\ s \notin SeqsOf(D))
        /\ \A s \in SeqsOf(D) : SweptStates[s] = "inflight"
    BY <1>1, ReleaseFlights, Zenon
  <2>2. inFlight' = Kept(D)
    BY <1>1
  <2> QED BY <2>1, <2>2, Zenon
<1>4. /\ \A i, j \in DOMAIN fresh : fresh[i] = fresh[j] => i = j
      /\ \A q1, q2 \in SweptRetries : q1.seq = q2.seq => q1 = q2
  BY <1>2 DEF LanesAgree
<1>5. \A s \in Seqs : /\ SweptStates[s] = "fresh" <=> \E i \in DOMAIN fresh : fresh[i] = s
                      /\ SweptStates[s] = "retry" <=> \E q \in SweptRetries : q.seq = s
  BY <1>2, Zenon DEF LanesAgree
<1>6. \A s \in Seqs : /\ states'[s] = "fresh" <=> SweptStates[s] = "fresh"
                      /\ states'[s] = "retry" <=> SweptStates[s] = "retry"
                      /\ states'[s] = "inflight" <=>
                           SweptStates[s] = "inflight" /\ s \notin SeqsOf(D)
  BY <1>1, <1>3
<1>7. ASSUME NEW s \in Seqs
      PROVE  /\ states'[s] = "fresh" <=> \E i \in DOMAIN fresh' : fresh'[i] = s
             /\ states'[s] = "retry" <=> \E q \in retries' : q.seq = s
             /\ states'[s] = "inflight" <=> \E x \in DOMAIN inFlight' : inFlight'[x].seq = s
  <2>1. states'[s] = "fresh" <=> \E i \in DOMAIN fresh' : fresh'[i] = s
    BY <1>1, <1>5, <1>6
  <2>2. states'[s] = "retry" <=> \E q \in retries' : q.seq = s
    BY <1>1, <1>5, <1>6, Zenon
  <2>3. states'[s] = "inflight" <=> \E x \in DOMAIN inFlight' : inFlight'[x].seq = s
    BY <1>3, <1>6
  <2> QED BY <2>1, <2>2, <2>3, Zenon
<1>8. /\ \A i, j \in DOMAIN fresh' : fresh'[i] = fresh'[j] => i = j
      /\ \A q1, q2 \in retries' : q1.seq = q2.seq => q1 = q2
  BY <1>1, <1>4
<1> QED BY <1>3, <1>7, <1>8, Zenon DEF LaneConsistency, LanesAgree

\* Retry moves each record of the call from flight to the retry lane, once.
LEMMA LaneRetry ==
    ASSUME TypeOK, LaneConsistency, NEW D \in SUBSET issued, Retry(D)
    PROVE  LaneConsistency'
<1> DEFINE item(d) == [seq |-> d.seq, attempt |-> nextAttempt(d.attempt),
                       readyAt |-> RetryDelay(d.attempt)]
<1>1. /\ Accepted(D) /\ fresh' = fresh
      /\ retries' = SweptRetries \cup {item(d) : d \in D}
      /\ inFlight' = Kept(D)
      /\ \A s \in Seqs : states'[s] = IF s \in SeqsOf(D) THEN "retry" ELSE SweptStates[s]
  BY Zenon DEF Retry, Kept
<1>2. LanesAgree(fresh, SweptRetries, Live, SweptStates)
  BY SweepLanes
<1>3. /\ \A x, y \in DOMAIN inFlight' : inFlight'[x].seq = inFlight'[y].seq => x = y
      /\ \A s \in Seqs : (\E x \in DOMAIN inFlight' : inFlight'[x].seq = s) <=>
                           (SweptStates[s] = "inflight" /\ s \notin SeqsOf(D))
      /\ \A s \in SeqsOf(D) : SweptStates[s] = "inflight"
  <2>1. /\ \A x, y \in DOMAIN Kept(D) : Kept(D)[x].seq = Kept(D)[y].seq => x = y
        /\ \A s \in Seqs : (\E x \in DOMAIN Kept(D) : Kept(D)[x].seq = s) <=>
                             (SweptStates[s] = "inflight" /\ s \notin SeqsOf(D))
        /\ \A s \in SeqsOf(D) : SweptStates[s] = "inflight"
    BY <1>1, ReleaseFlights, Zenon
  <2>2. inFlight' = Kept(D)
    BY <1>1, Zenon
  <2> QED BY <2>1, <2>2, Zenon
<1>4. \A d, e \in D : d.seq = e.seq => item(d) = item(e)
  <2>1. \A d \in D : Live[d.receipt].seq = d.seq /\ Live[d.receipt].attempt = d.attempt
                       /\ d.receipt \in DOMAIN Live
    BY <1>1, Zenon DEF Accepted, Valid
  <2>2. \A d, e \in D : d.seq = e.seq => d.attempt = e.attempt
    BY <1>2, <2>1 DEF LanesAgree
  <2> QED BY <2>2, Zenon
<1>5. \A d \in D : item(d).seq = d.seq /\ d.seq \in Seqs /\ d.seq \in SeqsOf(D)
  BY <1>1, AcceptedFacts, Zenon DEF SeqsOf
<1>6. \A s \in SeqsOf(D) : \E d \in D : d.seq = s
  BY Zenon DEF SeqsOf
<1> HIDE DEF item
<1>7. \A q \in SweptRetries : q.seq \in Seqs /\ q.seq \notin SeqsOf(D)
  <2>1. \A q \in SweptRetries : q.seq \in Seqs
    BY SweepType, Zenon DEF Queued
  <2>2. \A q \in SweptRetries : SweptStates[q.seq] = "retry"
    BY <1>2, <2>1 DEF LanesAgree
  <2> QED BY <1>3, <2>1, <2>2
<1>8. /\ \A i, j \in DOMAIN fresh : fresh[i] = fresh[j] => i = j
      /\ \A q1, q2 \in SweptRetries : q1.seq = q2.seq => q1 = q2
  BY <1>2 DEF LanesAgree
<1>9. \A s \in Seqs : /\ SweptStates[s] = "fresh" <=> \E i \in DOMAIN fresh : fresh[i] = s
                      /\ SweptStates[s] = "retry" <=> \E q \in SweptRetries : q.seq = s
  BY <1>2 DEF LanesAgree
<1>10. ASSUME NEW q1 \in retries', NEW q2 \in retries', q1.seq = q2.seq
       PROVE  q1 = q2
  <2>1. /\ q1 \in SweptRetries \/ \E d \in D : q1 = item(d)
        /\ q2 \in SweptRetries \/ \E d \in D : q2 = item(d)
    BY <1>1
  <2>2. CASE q1 \in SweptRetries /\ q2 \in SweptRetries
    BY <1>8, <1>10, <2>2, Zenon
  <2>3. ASSUME NEW d \in D, NEW e \in D, q1 = item(d), q2 = item(e)
        PROVE  q1 = q2
    BY <1>4, <1>5, <1>10, <2>3, Zenon
  <2>4. ASSUME NEW d \in D, \/ q1 = item(d) /\ q2 \in SweptRetries
                            \/ q2 = item(d) /\ q1 \in SweptRetries
        PROVE  FALSE
    BY <1>5, <1>7, <1>10, <2>4, Zenon
  <2> QED BY <2>1, <2>2, <2>3, <2>4
<1>11. ASSUME NEW s \in Seqs
       PROVE  states'[s] = "retry" <=> \E q \in retries' : q.seq = s
  <2>1. CASE s \in SeqsOf(D)
    <3>1. PICK d \in D : d.seq = s
      BY <1>6, <2>1
    <3>2. item(d) \in retries' /\ item(d).seq = s
      BY <1>1, <1>5, <3>1
    <3> QED BY <1>1, <2>1, <3>2
  <2>2. CASE s \notin SeqsOf(D)
    <3>1. \A q \in retries' : q.seq = s => q \in SweptRetries
      BY <1>1, <1>5, <2>2, Zenon
    <3>2. states'[s] = SweptStates[s] /\ \A q \in SweptRetries : q \in retries'
      BY <1>1, <2>2
    <3> QED BY <1>9, <3>1, <3>2
  <2> QED BY <2>1, <2>2
<1>12. ASSUME NEW s \in Seqs
       PROVE  /\ states'[s] = "fresh" <=> \E i \in DOMAIN fresh' : fresh'[i] = s
              /\ states'[s] = "inflight" <=> \E x \in DOMAIN inFlight' : inFlight'[x].seq = s
  <2>1. /\ states'[s] = "fresh" <=> SweptStates[s] = "fresh"
        /\ states'[s] = "inflight" <=> SweptStates[s] = "inflight" /\ s \notin SeqsOf(D)
    BY <1>1, <1>3, Zenon
  <2>2. states'[s] = "fresh" <=> \E i \in DOMAIN fresh' : fresh'[i] = s
    BY <1>1, <1>9, <2>1
  <2>3. states'[s] = "inflight" <=> \E x \in DOMAIN inFlight' : inFlight'[x].seq = s
    BY <1>3, <2>1
  <2> QED BY <2>2, <2>3, Zenon
<1>13. \A i, j \in DOMAIN fresh' : fresh'[i] = fresh'[j] => i = j
  BY <1>1, <1>8, Zenon
<1> QED BY <1>3, <1>10, <1>11, <1>12, <1>13, Zenon DEF LaneConsistency, LanesAgree

\* Extend moves no record between lanes, but for the sweep it starts with.
LEMMA LaneExtend ==
    ASSUME TypeOK, LaneConsistency, NEW D \in SUBSET issued, NEW e \in Extensions, Extend(D, e)
    PROVE  LaneConsistency'
<1>1. /\ fresh' = fresh /\ retries' = SweptRetries /\ states' = SweptStates
      /\ DOMAIN inFlight' = DOMAIN Live
  BY DEF Extend
<1>2. \A x \in DOMAIN Live : inFlight'[x].seq = Live[x].seq
  BY SweepType DEF Extend, Flight
<1>3. LanesAgree(fresh, SweptRetries, Live, SweptStates)
  BY SweepLanes
<1>4. /\ \A x, y \in DOMAIN inFlight' : inFlight'[x].seq = inFlight'[y].seq => x = y
      /\ \A s \in Seqs : (\E x \in DOMAIN inFlight' : inFlight'[x].seq = s) <=>
                           (\E x \in DOMAIN Live : Live[x].seq = s)
  BY <1>1, <1>2, <1>3, Zenon DEF LanesAgree
<1> QED BY <1>1, <1>3, <1>4, Zenon DEF LaneConsistency, LanesAgree

\* Time moves no record between lanes.
LEMMA LaneTick ==
    ASSUME TypeOK, LaneConsistency, Tick
    PROVE  LaneConsistency'
<1>1. fresh' = fresh /\ states' = states /\ DOMAIN inFlight' = DOMAIN inFlight
  BY DEF Tick
<1>2. \A x \in DOMAIN inFlight : inFlight'[x].seq = inFlight[x].seq
  BY DEF Tick, TypeOK, Flight
<1> DEFINE aged(q) == [q EXCEPT !.readyAt = PastOrder(@)]
<1>3. retries' = {aged(q) : q \in retries}
  BY DEF Tick
<1>4. \A q \in retries : aged(q).seq = q.seq
  BY DEF TypeOK, Queued
<1> HIDE DEF aged
<1>5. \A q1, q2 \in retries' : q1.seq = q2.seq => q1 = q2
  BY <1>3, <1>4 DEF LaneConsistency, LanesAgree
<1>6. \A s \in Seqs : (\E q \in retries' : q.seq = s) <=> \E q \in retries : q.seq = s
  BY <1>3, <1>4
<1> QED BY <1>1, <1>2, <1>5, <1>6 DEF LaneConsistency, LanesAgree

\* Every step keeps the lanes and states in agreement.
LEMMA LaneStep ==
    TypeOK /\ LockInv /\ LaneConsistency /\ SelectionInv /\ [Next]_vars
      => LaneConsistency' /\ SelectionInv'
<1> SUFFICES ASSUME TypeOK, LockInv, LaneConsistency, SelectionInv, [Next]_vars
             PROVE  LaneConsistency' /\ SelectionInv'
  OBVIOUS
<1>1. ASSUME selected' = <<>> PROVE SelectionInv'
  BY <1>1, SMTT(20) DEF SelectionInv
<1>2. CASE LaneFrame \/ \E r \in Readers : TakeDone(r)
  BY <1>1, <1>2, Zenon DEF LaneFrame, TakeDone, Unlock, laneVars, LaneConsistency, SelectionInv
<1>3. CASE SweepOnly
  <2>1. LaneConsistency'
    BY <1>3, SweepLanes DEF SweepOnly, expireLocked, LaneConsistency
  <2> QED BY <1>1, <1>3, <2>1, NoSelection DEF SweepOnly
<1>4. ASSUME NEW D \in SUBSET issued, Release(D) \/ Retry(D) \/ \E e \in Extensions : Extend(D, e)
      PROVE  LaneConsistency' /\ SelectionInv'
  <2>1. mu = NoReader /\ selected' = selected
    BY <1>4 DEF Release, Retry, Extend, Accepted, takeVars
  <2> QED BY <1>1, <1>4, <2>1, NoSelection, LaneRelease, LaneRetry, LaneExtend
<1>5. CASE Tick
  <2>1. mu = NoReader /\ selected' = selected
    BY <1>5 DEF Tick, takeVars
  <2> QED BY <1>1, <1>5, <2>1, NoSelection, LaneTick
<1> QED BY <1>2, <1>3, <1>4, <1>5, LaneSteps, LaneTake, LaneRollback, LaneMerge, Zenon

=============================================================================
