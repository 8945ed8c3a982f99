-------------------------- MODULE DispatcherSteps ---------------------------
(***************************************************************************)
(* Every step of the dispatcher keeps its invariant: what the scan owes to *)
(* the merge, the watermark of expiry, and the attempts of each record.    *)
(***************************************************************************)
EXTENDS DispatcherLanes

\* What takeLocked has selected when it takes one more.
LEMMA SelectedAppended ==
    ASSUME selected \in Seq(Selection), NEW new, selected' = Append(selected, new)
    PROVE  /\ DOMAIN selected' = 1..(Len(selected) + 1)
           /\ selected'[Len(selected) + 1] = new
           /\ \A i \in 1..Len(selected) : selected'[i] = selected[i]
           /\ \A i \in DOMAIN selected' : i = Len(selected) + 1 \/ i \in DOMAIN selected
           /\ \A i \in DOMAIN selected : i \in DOMAIN selected' /\ selected'[i] = selected[i]
           /\ Len(selected) + 1 \in DOMAIN selected'
OBVIOUS

\* What is left of a selection when a rollback undoes its last item.
LEMMA SelectedDropped ==
    ASSUME selected \in Seq(Selection), selected # <<>>,
           selected' = SubSeq(selected, 1, Len(selected) - 1)
    PROVE  /\ Len(selected) \in Nat \ {0} /\ Len(selected) \in DOMAIN selected
           /\ selected[Len(selected)] \in Selection
           /\ DOMAIN selected' = 1..(Len(selected) - 1)
           /\ \A i \in 1..(Len(selected) - 1) : selected'[i] = selected[i]
<1>1. Len(selected) \in Nat \ {0} /\ DOMAIN selected = 1..Len(selected)
  OBVIOUS
<1>2. selected[Len(selected)] \in Selection
  BY <1>1
<1>3. /\ DOMAIN selected' = 1..(Len(selected) - 1)
      /\ \A i \in 1..(Len(selected) - 1) : selected'[i] = selected[i]
  BY <1>1
<1> QED BY <1>1, <1>2, <1>3

\* The next number is not in an interval it extends.
LEMMA NextNumber ==
    ASSUME NEW n \in Nat
    PROVE  n + 1 \notin 1..n /\ 1..(n + 1) = (1..n) \cup {n + 1}
OBVIOUS

-----------------------------------------------------------------------------
(***************************************************************************)
(* The scan.                                                               *)
(***************************************************************************)
\* Only appending, scanning, merging and releasing touch what the scan reads.
ScanFrame ==
    /\ UNCHANGED <<pending, tail, cursor, scanDone>>
    /\ scan'.records \in {scan.records, <<>>}
    /\ scan'.phase \in {"scan", "scanned"} => scan.phase \in {"scan", "scanned"} \/ ~scanDone

\* No record becomes tracked or untracked.
TrackedSame == \A s \in Seqs : states'[s] = "untracked" <=> states[s] = "untracked"

\* The steps that touch what the scan reads are named here.
LEMMA ScanSteps ==
    ASSUME TypeOK, [Next]_vars
    PROVE  \/ ScanFrame
           \/ \E n \in 1..MaxBatch : AppendBatch(n)
           \/ \E r \in Readers : ScanBatch(r) \/ MergeRecord(r)
           \/ \E D \in SUBSET issued : Release(D)
<1> USE DEF storeVars, laneVars, scanVars, takeVars, readerVars
<1>1. ASSUME NEW r \in Readers, ReadStep(r)
      PROVE  ScanFrame \/ ScanBatch(r) \/ MergeRecord(r)
  <2>1. CASE ReadClosed(r) \/ ReadTopUp(r) \/ ReadTake(r) \/ FillSkip(r)
    BY <2>1 DEF ReadClosed, ReadTopUp, ReadTake, FillSkip, ScanFrame
  <2>2. ASSUME NEW receipt \in Receipts, NEW q \in retries,
               TakeFresh(r, receipt) \/ TakeRetry(r, q, receipt)
        PROVE  ScanFrame
    BY <2>2, Zenon DEF TakeFresh, TakeRetry, ScanFrame
  <2>3. ASSUME NEW receipt \in Receipts, TakeFresh(r, receipt)
        PROVE  ScanFrame
    BY <2>3, Zenon DEF TakeFresh, ScanFrame
  <2>4. CASE TakeNoReceipt(r) \/ RollbackOne(r) \/ RollbackDone(r) \/ TakeDone(r) \/ TakeNone(r)
    BY <2>4 DEF TakeNoReceipt, RollbackOne, RollbackDone, TakeDone, TakeNone, ScanFrame
  <2>5. CASE FillStart(r) \/ ScanError(r) \/ MergeDone(r)
    <3>1. scan'.records = <<>>
      <4>1. NoScan.records = <<>>
        BY DEF NoScan
      <4>2. \A n : [NoScan EXCEPT !.phase = "scan", !.free = n].records = NoScan.records
        BY DEF NoScan
      <4> QED BY <2>5, <4>1, <4>2, Zenon DEF FillStart, ScanError, MergeDone
    <3>2. scan'.phase \in {"scan", "scanned"} => ~scanDone
      BY <2>5 DEF FillStart, ScanError, MergeDone, NoScan
    <3> QED BY <2>5, <3>1, <3>2 DEF FillStart, ScanError, MergeDone, ScanFrame
  <2>6. CASE MergeStart(r)
    BY <2>6 DEF MergeStart, ScanFrame, TypeOK, Scan
  <2>7. CASE WaitOver(r) \/ Park(r) \/ WakeSignal(r) \/ WakeTimer(r) \/ WakeContext(r)
    BY <2>7 DEF WaitOver, Park, WakeSignal, WakeTimer, WakeContext, ScanFrame
  <2> QED BY <1>1, <2>1, <2>2, <2>3, <2>4, <2>5, <2>6, <2>7 DEF ReadStep
<1>2. CASE Complete
  <2>1. Calls \subseteq SUBSET issued
    BY DEF Calls
  <2>2. ASSUME NEW D \in Calls, Retry(D) \/ Reject(D) PROVE ScanFrame
    BY <2>2 DEF Retry, Reject, ScanFrame
  <2>3. ASSUME NEW D \in Calls, NEW e \in Extensions, Extend(D, e) PROVE ScanFrame
    BY <2>3 DEF Extend, ScanFrame
  <2>4. ASSUME NEW d \in issued, DeadLetter(d) PROVE \E D \in SUBSET issued : Release(D)
    BY <2>4 DEF DeadLetter
  <2> QED BY <1>2, <2>1, <2>2, <2>3, <2>4 DEF Complete, Commit
<1>3. CASE Snapshot \/ Tick \/ Notify \/ Close
  BY <1>3 DEF Snapshot, Tick, Notify, Close, ScanFrame
<1>4. CASE \E r \in Readers : Cancel(r) \/ \E n \in Counts : StartRead(r, n)
  BY <1>4 DEF Cancel, StartRead, ScanFrame
<1>5. CASE UNCHANGED vars
  BY <1>5 DEF vars, ScanFrame
<1> QED BY <1>1, <1>2, <1>3, <1>4, <1>5 DEF Next

\* Only merging and releasing change which records are tracked.
LEMMA TrackedSteps ==
    ASSUME TypeOK, LockInv, LaneConsistency, SelectionInv, [Next]_vars
    PROVE  \/ TrackedSame
           \/ \E r \in Readers : MergeRecord(r)
           \/ \E D \in SUBSET issued : Release(D)
<1>1. \A s \in Seqs : SweptStates[s] = "untracked" <=> states[s] = "untracked"
  <2>1. \A x \in Due : x \in DOMAIN inFlight /\ inFlight[x].seq \in Seqs
    BY SweepType DEF TypeOK, Flight
  <2>2. \A x \in Due : states[inFlight[x].seq] = "inflight"
    BY <2>1 DEF LaneConsistency, LanesAgree
  <2> QED BY <2>2 DEF SweptStates
<1>2. CASE LaneFrame \/ Tick \/ \E r \in Readers : TakeDone(r)
  BY <1>2 DEF LaneFrame, laneVars, Tick, TakeDone, TrackedSame
<1>3. CASE SweepOnly
  BY <1>1, <1>3 DEF SweepOnly, expireLocked, TrackedSame
<1>4. ASSUME NEW r \in Readers, NEW receipt \in Receipts, NEW q \in retries, TakeRetry(r, q, receipt)
      PROVE  TrackedSame
  <2>1. q.seq \in Seqs
    BY DEF TypeOK, Queued
  <2>2. states[q.seq] = "retry"
    BY <2>1 DEF LaneConsistency, LanesAgree
  <2> QED BY <1>4, <2>1, <2>2 DEF TakeRetry, Lease, TrackedSame, TypeOK
<1>5. ASSUME NEW r \in Readers, NEW receipt \in Receipts, TakeFresh(r, receipt)
      PROVE  TrackedSame
  <2>1. fresh # <<>> /\ 1 \in DOMAIN fresh /\ Head(fresh) = fresh[1] /\ Head(fresh) \in Seqs
    BY <1>5 DEF TakeFresh, FreshReady, TypeOK
  <2>2. states[Head(fresh)] = "fresh"
    BY <2>1 DEF LaneConsistency, LanesAgree
  <2>3. states' = [states EXCEPT ![Head(fresh)] = "inflight"]
    BY <1>5 DEF TakeFresh, Lease
  <2> QED BY <2>1, <2>2, <2>3 DEF TrackedSame, TypeOK
<1>6. ASSUME NEW r \in Readers, RollbackOne(r)
      PROVE  TrackedSame
  <2> DEFINE last == selected[Len(selected)]
  <2>1. last \in Selection /\ Len(selected) \in DOMAIN selected
    BY <1>6 DEF RollbackOne, TypeOK
  <2>2. last.seq \in Seqs /\ last.lane \in {"fresh", "retry"}
    BY <2>1 DEF Selection
  <2>3. states[last.seq] = "inflight"
    BY <2>1, <2>2 DEF SelectionInv, LaneConsistency, LanesAgree
  <2>4. states' = [states EXCEPT ![last.seq] = last.lane]
    BY <1>6 DEF RollbackOne
  <2> HIDE DEF last
  <2> QED BY <2>2, <2>3, <2>4 DEF TrackedSame, TypeOK
<1>7. ASSUME NEW D \in SUBSET issued, Retry(D)
      PROVE  TrackedSame
  <2>1. Accepted(D)
    BY <1>7 DEF Retry
  <2>2. \A s \in SeqsOf(D) : SweptStates[s] = "inflight"
    BY <2>1, ReleaseFlights
  <2>3. \A s \in Seqs : states'[s] = IF s \in SeqsOf(D) THEN "retry" ELSE SweptStates[s]
    BY <1>7 DEF Retry
  <2> QED BY <1>1, <2>2, <2>3 DEF TrackedSame
<1>8. ASSUME NEW D \in SUBSET issued, NEW e \in Extensions, Extend(D, e)
      PROVE  TrackedSame
  BY <1>1, <1>8 DEF Extend, TrackedSame
<1> QED BY <1>2, <1>3, <1>4, <1>5, <1>6, <1>7, <1>8, LaneSteps

\* AppendBatch adds records only ahead of the cursor and of the batch.
LEMMA ScanAppend ==
    ASSUME TypeOK, ScanInv, NothingLost, NEW n \in 1..MaxBatch, AppendBatch(n)
    PROVE  ScanInv' /\ NothingLost'
<1>1. /\ n \in Nat \ {0} /\ tail \in Nat /\ cursor \in Nat /\ MaxSeq \in Nat
      /\ tail + n <= MaxSeq /\ tail' = tail + n
      /\ pending' = pending \cup (tail + 1)..(tail + n)
      /\ UNCHANGED <<cursor, scanDone, states, scan>>
  BY BoundAssumption, WidthAssumption, SMTT(30) DEF AppendBatch, TypeOK, laneVars, scanVars, Seqs
<1>2. ~scanDone
  BY <1>1 DEF ScanInv
<1>3. pending' \subseteq 1..tail' /\ cursor' <= tail' + 1
  BY <1>1 DEF ScanInv
<1>4. scan.records \in Seq(Seqs) /\ \A i \in DOMAIN scan.records : scan.records[i] \in pending
  BY DEF ScanInv, TypeOK, Scan
<1>5. ASSUME NEW s \in pending', s \notin pending
      PROVE  s > tail /\ s >= cursor /\ \A i \in DOMAIN scan.records : scan.records[i] < s
  <2>1. s > tail /\ s \in Nat
    BY <1>1, <1>5
  <2>2. \A p \in pending : p \in Nat /\ p <= tail
    BY <1>1 DEF ScanInv
  <2>3. s >= cursor
    BY <1>1, <2>1 DEF ScanInv
  <2> QED BY <1>1, <1>4, <2>1, <2>2, <2>3
<1>6. NothingLost'
  BY <1>1, <1>2, <1>5 DEF NothingLost
<1> QED BY <1>1, <1>2, <1>3, <1>5, <1>6, Zenon DEF ScanInv

\* Store.ScanBatch returns the pending records next to the cursor, in order.
LEMMA ScanScan ==
    ASSUME TypeOK, ScanInv, NothingLost, LockInv, NEW r \in Readers, ScanBatch(r)
    PROVE  ScanInv' /\ NothingLost'
<1>1. PICK batch \in Batches :
         IsBatch(batch) /\ scan' = [scan EXCEPT !.phase = "scanned", !.records = batch]
  BY Zenon DEF ScanBatch
<1>2. scan'.records = batch /\ UNCHANGED <<pending, tail, cursor, scanDone, states>>
  BY <1>1, Zenon DEF ScanBatch, storeVars, laneVars, TypeOK, Scan
<1>3. /\ \A i \in DOMAIN batch : batch[i] \in pending /\ batch[i] >= cursor
      /\ \A i, j \in DOMAIN batch : i < j => batch[i] < batch[j]
      /\ \A s \in pending :
           s >= cursor /\ (\A i \in DOMAIN batch : batch[i] # s) =>
             \A i \in DOMAIN batch : batch[i] < s
  BY <1>1 DEF IsBatch
<1>4. ~scanDone
  BY DEF ScanBatch, ScanInv
<1>5. NothingLost'
  BY <1>2 DEF NothingLost
<1> QED BY <1>2, <1>3, <1>4, <1>5, Zenon DEF ScanInv

\* fillFresh takes the record next to the cursor and moves the cursor past it.
LEMMA ScanMerge ==
    ASSUME TypeOK, ScanInv, NothingLost, LockInv, NEW r \in Readers, MergeRecord(r)
    PROVE  ScanInv' /\ NothingLost'
<1> DEFINE seq == Head(scan.records)  rest == Tail(scan.records)
<1>1. /\ scan.records \in Seq(Seqs) /\ scan.records # <<>>
      /\ seq = scan.records[1] /\ 1 \in DOMAIN scan.records /\ seq \in Seqs
  BY DEF MergeRecord, TypeOK, Scan
<1>2. /\ \A i \in DOMAIN rest : i + 1 \in DOMAIN scan.records /\ rest[i] = scan.records[i + 1]
                                /\ i \in Nat \ {0} /\ rest[i] \in Seqs
      /\ \A i \in DOMAIN scan.records : i = 1 \/ i - 1 \in DOMAIN rest
      /\ \A i \in DOMAIN scan.records : i # 1 => rest[i - 1] = scan.records[i]
  BY <1>1
<1>3. seq \in pending /\ seq >= cursor /\ ~scanDone
  BY <1>1 DEF ScanInv
<1>4. /\ scan'.records = rest /\ scan'.phase = scan.phase
      /\ scan.phase = "merge"
  BY DEF MergeRecord, TypeOK, Scan, LockInv
<1>5. /\ UNCHANGED <<pending, tail>>
      /\ seq = MaxSeq => scanDone' /\ cursor' = cursor
      /\ seq # MaxSeq => ~scanDone' /\ cursor' = seq + 1
  <2>1. ~(seq < cursor)
    BY <1>1, <1>3 DEF TypeOK, Seqs
  <2> QED BY <1>3, <2>1 DEF MergeRecord, storeVars, TypeOK
<1>6. \A s \in Seqs : states'[s] = "untracked" <=> (states[s] = "untracked" /\ s # seq)
  <2>1. ~(seq < cursor)
    BY <1>1, <1>3 DEF TypeOK, Seqs
  <2>2. CASE states[seq] = "untracked"
    <3>1. states' = [states EXCEPT ![seq] = "fresh"]
      BY <2>1, <2>2 DEF MergeRecord
    <3> QED BY <1>1, <3>1 DEF TypeOK
  <2>3. CASE states[seq] # "untracked"
    <3>1. states' = states
      BY <2>1, <2>3 DEF MergeRecord
    <3> QED BY <2>3, <3>1
  <2> QED BY <2>2, <2>3, Zenon
<1>7. \A s \in Seqs : s \in Nat /\ s <= MaxSeq
  BY WidthAssumption DEF Seqs
<1>8. /\ pending \subseteq Seqs /\ cursor \in Seqs /\ tail \in Nat /\ tail <= MaxSeq
      /\ MaxSeq \in Nat /\ \A s \in pending : s <= tail
  BY WidthAssumption DEF TypeOK, ScanInv, Seqs
<1>9. \A i \in DOMAIN rest : rest[i] \in pending /\ rest[i] > seq
  BY <1>1, <1>2, <1>7 DEF ScanInv
<1>10. ASSUME NEW i \in DOMAIN rest, NEW j \in DOMAIN rest, i < j PROVE rest[i] < rest[j]
  <2>1. i + 1 < j + 1 /\ i + 1 \in DOMAIN scan.records /\ j + 1 \in DOMAIN scan.records
    BY <1>2, <1>10
  <2>2. scan.records[i + 1] < scan.records[j + 1]
    BY <2>1 DEF ScanInv
  <2> QED BY <1>2, <2>2
<1>11. ASSUME NEW s \in pending, s >= cursor, s # seq PROVE s > seq
  <2>1. CASE \E i \in DOMAIN scan.records : scan.records[i] = s
    BY <1>1, <1>2, <1>9, <1>11, <2>1
  <2>2. CASE \A i \in DOMAIN scan.records : scan.records[i] # s
    BY <1>1, <1>7, <1>8, <1>11, <2>2 DEF ScanInv
  <2> QED BY <2>1, <2>2
<1> HIDE DEF seq, rest
<1>a. /\ seq \in Nat /\ MaxSeq \in Nat /\ tail \in Nat /\ cursor \in Nat
      /\ cursor <= seq /\ seq <= tail /\ tail <= MaxSeq
  BY <1>1, <1>3, <1>7, <1>8
<1>12. /\ seq = MaxSeq => tail = MaxSeq
       /\ \A i \in DOMAIN rest : seq # MaxSeq
  <2>1. \A i \in DOMAIN rest : rest[i] \in Nat /\ rest[i] <= MaxSeq
    BY <1>2, <1>7
  <2> QED BY <1>9, <1>a, <2>1
<1>13. cursor' <= tail' + 1 /\ (scanDone' => tail' = MaxSeq)
  BY <1>5, <1>12, <1>a
<1>14. \A s \in Seqs : states'[s] # "untracked" => s < cursor' \/ scanDone'
  <2>1. ASSUME NEW s \in Seqs, states'[s] # "untracked" PROVE s <= seq
    <3>1. s = seq \/ s < cursor
      BY <1>3, <1>6, <2>1 DEF ScanInv
    <3> QED BY <1>7, <1>a, <3>1
  <2>2. \A s \in Seqs : s <= seq => s < seq + 1
    BY <1>7, <1>a
  <2> QED BY <1>5, <2>1, <2>2
<1>15. ASSUME NEW i \in DOMAIN rest
       PROVE  rest[i] \in pending /\ rest[i] >= cursor' /\ ~scanDone'
  <2>1. rest[i] \in Nat /\ rest[i] > seq /\ rest[i] \in pending
    BY <1>2, <1>7, <1>9
  <2>2. cursor' = seq + 1 /\ ~scanDone'
    BY <1>5, <1>12
  <2> QED BY <1>a, <2>1, <2>2
<1>16. ASSUME NEW s \in pending, s >= cursor', \A i \in DOMAIN rest : rest[i] # s
       PROVE  \A i \in DOMAIN rest : rest[i] < s
  <2>1. CASE seq = MaxSeq
    BY <1>12, <2>1
  <2>2. CASE seq # MaxSeq
    <3>1. s > seq /\ s >= cursor
      BY <1>1, <1>3, <1>5, <1>7, <1>8, <1>16, <2>2
    <3>2. \A i \in DOMAIN scan.records : scan.records[i] # s
      BY <1>1, <1>2, <1>7, <1>8, <1>16, <3>1
    <3>3. \A i \in DOMAIN scan.records : scan.records[i] < s
      BY <3>1, <3>2 DEF ScanInv
    <3> QED BY <1>2, <3>3
  <2> QED BY <2>1, <2>2
<1>17. ASSUME NEW s \in Seqs
       PROVE  /\ states'[s] # "untracked" => s \in pending'
              /\ s \in pending' /\ states'[s] = "untracked" => s >= cursor' /\ ~scanDone'
  <2>1. states'[s] # "untracked" => s \in pending'
    BY <1>3, <1>5, <1>6 DEF NothingLost
  <2>2. ASSUME s \in pending, states'[s] = "untracked" PROVE s > seq
    BY <1>6, <1>11, <2>2 DEF NothingLost
  <2>3. ASSUME s \in pending, states'[s] = "untracked" PROVE s >= cursor' /\ ~scanDone'
    <3>1. s > seq /\ s \in Nat /\ s <= MaxSeq
      BY <1>7, <2>2, <2>3
    <3>2. cursor' = seq + 1 /\ ~scanDone'
      BY <1>5, <1>a, <3>1
    <3> QED BY <1>a, <3>1, <3>2
  <2> QED BY <1>5, <2>1, <2>3
<1>18. NothingLost'
  BY <1>17 DEF NothingLost
<1>19. pending' \subseteq 1..tail'
  BY <1>5 DEF ScanInv
<1> QED BY <1>4, <1>5, <1>10, <1>13, <1>14, <1>15, <1>16, <1>18, <1>19, Zenon DEF ScanInv

\* Commit and DeadLetter delete and forget the same records, none of them in
\* the batch being merged.
LEMMA ScanRelease ==
    ASSUME TypeOK, LaneConsistency, ScanInv, NothingLost, NEW D \in SUBSET issued, Release(D)
    PROVE  ScanInv' /\ NothingLost'
<1>1. Accepted(D) /\ pending' = pending \ SeqsOf(D) /\ UNCHANGED <<tail, cursor, scanDone, scan>>
  BY DEF Release, scanVars
<1>2. \A s \in SeqsOf(D) : SweptStates[s] = "inflight" /\ s \in Seqs
  BY <1>1, ReleaseFlights, AcceptedFacts DEF SeqsOf
<1>3. \A s \in Seqs : SweptStates[s] = "untracked" <=> states[s] = "untracked"
  <2>1. \A x \in Due : x \in DOMAIN inFlight /\ inFlight[x].seq \in Seqs
    BY SweepType DEF TypeOK, Flight
  <2>2. \A x \in Due : states[inFlight[x].seq] = "inflight"
    BY <2>1 DEF LaneConsistency, LanesAgree
  <2> QED BY <2>2 DEF SweptStates
<1>4. \A s \in Seqs : states'[s] = "untracked" <=> (states[s] = "untracked" \/ s \in SeqsOf(D))
  BY <1>3 DEF Release
<1>5. \A s \in SeqsOf(D) : s < cursor \/ scanDone
  BY <1>2, <1>3 DEF ScanInv
<1>6. \A i \in DOMAIN scan.records : scan.records[i] \notin SeqsOf(D)
  <2>1. \A i \in DOMAIN scan.records : scan.records[i] >= cursor /\ ~scanDone /\ scan.records[i] \in Nat
    BY DEF ScanInv, TypeOK, Scan, Seqs
  <2> QED BY <1>2, <1>5, <2>1 DEF TypeOK, Seqs
<1>7. NothingLost'
  BY <1>1, <1>4 DEF NothingLost
<1> QED BY <1>1, <1>4, <1>6, <1>7, Zenon DEF ScanInv

\* Every step keeps the scan in order and loses no record.
LEMMA ScanStep ==
    TypeOK /\ LockInv /\ LaneConsistency /\ SelectionInv /\ ScanInv /\ NothingLost /\ [Next]_vars
      => ScanInv' /\ NothingLost'
<1> SUFFICES ASSUME TypeOK, LockInv, LaneConsistency, SelectionInv, ScanInv, NothingLost, [Next]_vars
             PROVE  ScanInv' /\ NothingLost'
  OBVIOUS
<1>1. CASE ScanFrame /\ TrackedSame
  BY <1>1 DEF ScanFrame, TrackedSame, ScanInv, NothingLost
<1> QED BY <1>1, ScanSteps, TrackedSteps, ScanAppend, ScanScan, ScanMerge, ScanRelease

-----------------------------------------------------------------------------
(***************************************************************************)
(* The inductive invariant as a whole.                                     *)
(***************************************************************************)
\* New establishes the inductive invariant over any backlog.
LEMMA InvInit == Init => IInv
<1> SUFFICES ASSUME Init PROVE IInv
  OBVIOUS
<1>1. TypeOK
  BY TypeInit
<1>2. LockInv
  BY InputAssumption DEF Init, LockInv, NoScan
<1>3. LaneConsistency /\ SelectionInv
  BY DEF Init, LaneConsistency, LanesAgree, SelectionInv, NoFlights
<1>4. scan.records = <<>> /\ tail \in Nat
  BY BoundAssumption DEF Init, NoScan
<1>5. ScanInv
  BY <1>4 DEF Init, ScanInv
<1>6. NothingLost
  BY <1>5 DEF Init, ScanInv, NothingLost, Seqs
<1> QED BY <1>1, <1>2, <1>3, <1>5, <1>6 DEF IInv

\* Every step keeps the inductive invariant.
LEMMA InvStep == FiniteFacts /\ IInv /\ [Next]_vars => IInv'
BY TypeStep, LockStep, LaneStep, ScanStep DEF IInv

-----------------------------------------------------------------------------
(***************************************************************************)
(* The watermark.                                                          *)
(***************************************************************************)
\* No lease ends before the watermark.
WatermarkInv == \A x \in DOMAIN inFlight : expireAt <= inFlight[x].deadline

\* The watermark a sweep leaves is no later than any lease it keeps.
LEMMA SweptEarliest ==
    ASSUME TypeOK, WatermarkInv
    PROVE  \A x \in DOMAIN Live : SweptWatermark <= Live[x].deadline
<1>1. CASE expireAt > 0
  BY <1>1, SweepType DEF SweptWatermark, WatermarkInv
<1>2. CASE ~(expireAt > 0)
  <2> DEFINE S == {FarFuture} \cup {Live[r].deadline : r \in DOMAIN Live}
  <2>1. S \in SUBSET Nat /\ S # {}
    BY SweepType, BoundAssumption DEF Flight, FarFuture
  <2>2. \A t \in S : Min(S) <= t
    <3> HIDE DEF S
    <3> QED BY <2>1, MinNat, Zenon
  <2>3. SweptWatermark = Min(S)
    BY <1>2 DEF SweptWatermark, Earliest
  <2> QED BY <2>2, <2>3
<1> QED BY <1>1, <1>2

\* Every step keeps the watermark no later than any lease.
LEMMA WatermarkStep ==
    TypeOK /\ WatermarkInv /\ [Next]_vars => WatermarkInv'
<1> SUFFICES ASSUME TypeOK, WatermarkInv, [Next]_vars PROVE WatermarkInv'
  OBVIOUS
<1>1. /\ \A x \in DOMAIN inFlight : inFlight[x] \in Flight /\ inFlight[x].deadline \in Nat
      /\ expireAt \in Nat /\ MaxLease \in Nat /\ VisibilityTimeout \in Nat
      /\ \A x \in DOMAIN inFlight : inFlight[x].deadline < FarFuture
  BY BoundAssumption, ConfigAssumption, SMTT(20) DEF TypeOK, Flight, FarFuture
<1>2. CASE LaneFrame \/ \E r \in Readers : TakeDone(r)
  BY <1>2 DEF LaneFrame, TakeDone, laneVars, WatermarkInv
<1>3. CASE SweepOnly
  BY <1>3, SweptEarliest DEF SweepOnly, expireLocked, WatermarkInv
<1>4. ASSUME NEW item, NEW lane, NEW receipt \in Receipts, Lease(item, lane, receipt)
      PROVE  WatermarkInv'
  <2>1. /\ \A x \in DOMAIN inFlight' : x = receipt \/ x \in DOMAIN inFlight
        /\ inFlight'[receipt].deadline = VisibilityTimeout
        /\ \A x \in DOMAIN inFlight : x # receipt => inFlight'[x] = inFlight[x]
        /\ expireAt' = IF VisibilityTimeout < expireAt THEN VisibilityTimeout ELSE expireAt
    BY <1>4 DEF Lease
  <2> QED BY <1>1, <2>1 DEF WatermarkInv
<1>5. CASE \E r \in Readers, receipt \in Receipts, q \in retries : TakeRetry(r, q, receipt)
  BY <1>4, <1>5 DEF TakeRetry
<1>6. CASE \E r \in Readers, receipt \in Receipts : TakeFresh(r, receipt)
  BY <1>4, <1>6 DEF TakeFresh
<1>7. ASSUME NEW r \in Readers, RollbackOne(r) \/ MergeRecord(r)
      PROVE  WatermarkInv'
  <2>1. /\ expireAt' = expireAt
        /\ \A x \in DOMAIN inFlight' : x \in DOMAIN inFlight /\ inFlight'[x] = inFlight[x]
    BY <1>7, Zenon DEF RollbackOne, MergeRecord, Restrict
  <2> QED BY <2>1 DEF WatermarkInv
<1>8. ASSUME NEW D \in SUBSET issued, Release(D) \/ Retry(D)
      PROVE  WatermarkInv'
  <2>1. /\ expireAt' = SweptWatermark
        /\ \A x \in DOMAIN inFlight' : x \in DOMAIN Live /\ inFlight'[x] = Live[x]
    BY <1>8 DEF Release, Retry, Restrict
  <2> QED BY <2>1, SweptEarliest DEF WatermarkInv
<1>9. ASSUME NEW D \in SUBSET issued, NEW e \in Extensions, Extend(D, e)
      PROVE  WatermarkInv'
  <2>1. \A x \in DOMAIN Live : Live[x] \in Flight /\ Live[x].deadline \in Nat
    BY <1>1, SweepType
  <2>2. e \in Nat /\ SweptWatermark \in Nat
    BY InputAssumption, BoundAssumption, SweepType DEF FarFuture
  <2>3. expireAt' = SweptWatermark /\ DOMAIN inFlight' = DOMAIN Live
    BY <1>9 DEF Extend
  <2>4. \A x \in DOMAIN Live : inFlight'[x].deadline \in {Live[x].deadline, Live[x].deadline + e}
    BY <1>9, <2>1 DEF Extend, Flight
  <2> QED BY <2>1, <2>2, <2>3, <2>4, SweptEarliest DEF WatermarkInv
<1>10. CASE Tick
  <2>1. /\ DOMAIN inFlight' = DOMAIN inFlight
        /\ \A x \in DOMAIN inFlight : inFlight'[x].deadline = Less1(inFlight[x].deadline)
    BY <1>1, <1>10 DEF Tick, Flight
  <2>2. CASE expireAt = FarFuture
    BY <1>1, <2>1, <2>2 DEF WatermarkInv, FarFuture
  <2>3. CASE expireAt # FarFuture
    <3>1. expireAt' = Less1(expireAt)
      BY <1>10, <2>3 DEF Tick
    <3> QED BY <1>1, <2>1, <3>1 DEF WatermarkInv, Less1
  <2> QED BY <2>2, <2>3
<1> QED BY <1>2, <1>3, <1>5, <1>6, <1>7, <1>8, <1>9, <1>10, LaneSteps

-----------------------------------------------------------------------------
(***************************************************************************)
(* Attempts.                                                               *)
(***************************************************************************)
\* Among the deliveries I, attempt a of record s is the last, and follows
\* the one before it.
Latest(I, s, a) ==
    /\ \A d \in I : d.seq = s => d.attempt <= a
    /\ a > 1 => \E e \in I : e.seq = s /\ e.attempt = a - 1

\* Attempt a of record s has yet to be made: below saturation no delivery has it.
Later(I, s, a) ==
    /\ Latest(I, s, a)
    /\ a < MaxAttempt => \A d \in I : d.seq = s => d.attempt # a

\* Records that wait to be leased again come with an attempt yet to be made,
\* and fresh ones were never delivered.  A lease is the latest attempt; it was
\* returned by Read, or is among those takeLocked has selected.
AttemptInv ==
    /\ \A d \in issued : states[d.seq] # "fresh" /\ (d.seq < cursor \/ scanDone)
    /\ \A q \in retries : Later(issued, q.seq, q.attempt)
    /\ \A x \in DOMAIN inFlight :
         /\ Latest(issued, inFlight[x].seq, inFlight[x].attempt)
         /\ \/ [seq |-> inFlight[x].seq, attempt |-> inFlight[x].attempt, receipt |-> x] \in issued
            \/ \E i \in DOMAIN selected : selected[i].receipt = x
    /\ \A i \in DOMAIN selected :
         /\ inFlight[selected[i].receipt].attempt = selected[i].attempt
         /\ Later(issued, selected[i].seq, selected[i].attempt)
         /\ selected[i].lane = "fresh" => \A d \in issued : d.seq # selected[i].seq

\* The attempt after the latest one, if that was returned, has yet to be made.
LEMMA NextLater ==
    ASSUME TypeOK, NEW s \in Seqs, NEW a \in Attempts, Latest(issued, s, a),
           NEW d \in issued, d.seq = s, d.attempt = a
    PROVE  Later(issued, s, nextAttempt(a))
<1>1. \A e \in issued : e.attempt \in Nat
  BY WidthAssumption DEF TypeOK, Issue, Attempts
<1>2. a \in Nat /\ MaxAttempt \in Nat /\ a <= MaxAttempt
  BY WidthAssumption DEF Attempts
<1>3. CASE a = MaxAttempt
  BY <1>2, <1>3 DEF Latest, Later, nextAttempt
<1>4. CASE a # MaxAttempt
  <2>1. nextAttempt(a) = a + 1
    BY <1>4 DEF nextAttempt
  <2>2. \A e \in issued : e.seq = s => e.attempt < a + 1
    BY <1>1, <1>2 DEF Latest
  <2>3. d.attempt = (a + 1) - 1
    BY <1>2
  <2> QED BY <1>1, <1>2, <2>1, <2>2, <2>3 DEF Latest, Later
<1> QED BY <1>3, <1>4

\* What a sweep returns to the retry lane gets the next attempt.
LEMMA SweptLater ==
    ASSUME TypeOK, AttemptInv, selected = <<>>
    PROVE  /\ \A x \in DOMAIN inFlight :
                [seq |-> inFlight[x].seq, attempt |-> inFlight[x].attempt, receipt |-> x] \in issued
           /\ \A q \in SweptRetries : Later(issued, q.seq, q.attempt)
           /\ \A s \in Seqs : SweptStates[s] = "fresh" => states[s] = "fresh"
<1>1. \A x \in DOMAIN inFlight :
        [seq |-> inFlight[x].seq, attempt |-> inFlight[x].attempt, receipt |-> x] \in issued
  BY DEF AttemptInv
<1>2. ASSUME NEW x \in DOMAIN inFlight
      PROVE  Later(issued, inFlight[x].seq, nextAttempt(inFlight[x].attempt))
  <2> DEFINE d == [seq |-> inFlight[x].seq, attempt |-> inFlight[x].attempt, receipt |-> x]
  <2>1. d \in issued /\ d.seq = inFlight[x].seq /\ d.attempt = inFlight[x].attempt
    BY <1>1
  <2>2. inFlight[x].seq \in Seqs /\ inFlight[x].attempt \in Attempts
    BY DEF TypeOK, Flight
  <2>3. Latest(issued, inFlight[x].seq, inFlight[x].attempt)
    BY Zenon DEF AttemptInv
  <2> HIDE DEF d
  <2> QED BY <2>1, <2>2, <2>3, NextLater
<1>3. \A x \in Due : x \in DOMAIN inFlight
  BY SweepType
<1>4. \A q \in SweptRetries :
        q \in retries \/ \E x \in Due : q.seq = inFlight[x].seq
                                       /\ q.attempt = nextAttempt(inFlight[x].attempt)
  BY DEF SweptRetries
<1>5. \A q \in SweptRetries : Later(issued, q.seq, q.attempt)
  BY <1>2, <1>3, <1>4 DEF AttemptInv
<1>6. \A s \in Seqs : SweptStates[s] = "fresh" => states[s] = "fresh"
  BY Zenon DEF SweptStates
<1> QED BY <1>1, <1>5, <1>6

\* Leases that end, and items that wait with an attempt yet to be made.
LEMMA AttemptKept ==
    ASSUME TypeOK, AttemptInv, selected = <<>>, selected' = <<>>,
           UNCHANGED <<cursor, scanDone, issued>>,
           \A x \in DOMAIN inFlight' : /\ x \in DOMAIN inFlight
                                        /\ inFlight'[x].seq = inFlight[x].seq
                                        /\ inFlight'[x].attempt = inFlight[x].attempt,
           \A q \in retries' : Later(issued, q.seq, q.attempt),
           \A s \in Seqs : states'[s] = "fresh" => states[s] = "fresh"
    PROVE  AttemptInv'
<1>1. \A d \in issued : d.seq \in Seqs
  BY DEF TypeOK, Issue
<1>2. \A x \in DOMAIN inFlight :
        [seq |-> inFlight[x].seq, attempt |-> inFlight[x].attempt, receipt |-> x] \in issued
  BY SweptLater
<1>3. \A x \in DOMAIN inFlight :
        Latest(issued, inFlight[x].seq, inFlight[x].attempt)
  BY Zenon DEF AttemptInv
<1>4. \A d \in issued' : states'[d.seq] # "fresh" /\ (d.seq < cursor' \/ scanDone')
  BY <1>1, SMTT(20) DEF AttemptInv
<1>5. \A x \in DOMAIN inFlight' :
        /\ Latest(issued', inFlight'[x].seq, inFlight'[x].attempt)
        /\ [seq |-> inFlight'[x].seq, attempt |-> inFlight'[x].attempt, receipt |-> x] \in issued'
  BY <1>2, <1>3, Zenon
<1> QED BY <1>4, <1>5 DEF AttemptInv

\* Sweeps, completions and the clock.
LEMMA AttemptCompletions ==
    ASSUME TypeOK, LockInv, AttemptInv,
           \/ SweepOnly \/ Tick
           \/ \E D \in SUBSET issued : Release(D) \/ Retry(D)
           \/ \E D \in SUBSET issued, e \in Extensions : Extend(D, e)
    PROVE  AttemptInv'
<1>1. /\ mu = NoReader /\ selected' \in {selected, <<>>}
      /\ UNCHANGED <<cursor, scanDone, issued>>
  BY Zenon DEF SweepOnly, Tick, Release, Retry, Extend, Accepted, takeVars, scanVars
<1>2. selected = <<>> /\ selected' = <<>>
  BY <1>1, NoSelection
<1>3. /\ \A x \in DOMAIN Live : x \in DOMAIN inFlight /\ Live[x] = inFlight[x]
      /\ \A x \in DOMAIN Live : Live[x] \in Flight
  BY SweepType, Zenon
<1>4. CASE SweepOnly
  <2>1. inFlight' = Live /\ retries' = SweptRetries /\ states' = SweptStates
    BY <1>4 DEF SweepOnly, expireLocked
  <2> QED BY <1>1, <1>2, <1>3, <2>1, SweptLater, AttemptKept, Zenon
<1>5. ASSUME NEW D \in SUBSET issued, Release(D)
      PROVE  AttemptInv'
  <2>1. /\ \A x \in DOMAIN inFlight' : x \in DOMAIN Live /\ inFlight'[x] = Live[x]
        /\ retries' = SweptRetries
        /\ \A s \in Seqs : states'[s] = "fresh" => SweptStates[s] = "fresh"
    BY <1>5, Zenon DEF Release, Restrict
  <2> QED BY <1>1, <1>2, <1>3, <2>1, SweptLater, AttemptKept, Zenon
<1>6. ASSUME NEW D \in SUBSET issued, Retry(D)
      PROVE  AttemptInv'
  <2>1. /\ \A x \in DOMAIN inFlight' : x \in DOMAIN Live /\ inFlight'[x] = Live[x]
        /\ \A s \in Seqs : states'[s] = "fresh" => SweptStates[s] = "fresh"
        /\ \A q \in retries' : q \in SweptRetries
              \/ \E d \in D : q.seq = d.seq /\ q.attempt = nextAttempt(d.attempt)
    <3>1. \A x \in DOMAIN inFlight' : x \in DOMAIN Live /\ inFlight'[x] = Live[x]
      BY <1>6, Zenon DEF Retry, Restrict
    <3>2. \A s \in Seqs : states'[s] = "fresh" => SweptStates[s] = "fresh"
      BY <1>6, Zenon DEF Retry
    <3>3. \A q \in retries' : q \in SweptRetries
             \/ \E d \in D : q.seq = d.seq /\ q.attempt = nextAttempt(d.attempt)
      <4>1. ASSUME NEW d \in D, NEW q,
                   q = [seq |-> d.seq, attempt |-> nextAttempt(d.attempt),
                        readyAt |-> RetryDelay(d.attempt)]
            PROVE  q.seq = d.seq /\ q.attempt = nextAttempt(d.attempt)
        BY <4>1, Zenon
      <4>2. \A q \in retries' : q \in SweptRetries
              \/ \E d \in D : q = [seq |-> d.seq, attempt |-> nextAttempt(d.attempt),
                                   readyAt |-> RetryDelay(d.attempt)]
        BY <1>6, Zenon DEF Retry
      <4> QED BY <4>1, <4>2, Zenon
    <3> QED BY <3>1, <3>2, <3>3, Zenon
  <2>2. ASSUME NEW d \in D PROVE Later(issued, d.seq, nextAttempt(d.attempt))
    <3>1. /\ d.receipt \in DOMAIN inFlight
          /\ inFlight[d.receipt].seq = d.seq /\ inFlight[d.receipt].attempt = d.attempt
      BY <1>3, <1>6, Zenon DEF Retry, Accepted, Valid
    <3>2. d \in issued /\ d.seq \in Seqs /\ d.attempt \in Attempts
      BY Zenon DEF TypeOK, Issue
    <3>3. Latest(issued, d.seq, d.attempt)
      BY <3>1, Zenon DEF AttemptInv
    <3> QED BY <3>2, <3>3, NextLater, Zenon
  <2>3. \A q \in retries' : Later(issued, q.seq, q.attempt)
    BY <1>2, <2>1, <2>2, SweptLater, Zenon
  <2> QED BY <1>1, <1>2, <1>3, <2>1, <2>3, SweptLater, AttemptKept, Zenon
<1>7. ASSUME NEW D \in SUBSET issued, NEW e \in Extensions, Extend(D, e)
      PROVE  AttemptInv'
  <2>1. DOMAIN inFlight' = DOMAIN Live /\ retries' = SweptRetries /\ states' = SweptStates
    BY <1>7, Zenon DEF Extend
  <2>2. \A x \in DOMAIN Live :
          inFlight'[x].seq = Live[x].seq /\ inFlight'[x].attempt = Live[x].attempt
    BY <1>3, <1>7, ZenonT(20) DEF Extend, Flight
  <2> QED BY <1>1, <1>2, <1>3, <2>1, <2>2, SweptLater, AttemptKept, Zenon
<1>8. CASE Tick
  <2>1. DOMAIN inFlight' = DOMAIN inFlight /\ states' = states
    BY <1>8 DEF Tick
  <2>2. \A x \in DOMAIN inFlight :
          inFlight'[x].seq = inFlight[x].seq /\ inFlight'[x].attempt = inFlight[x].attempt
    BY <1>8, Zenon DEF Tick, TypeOK, Flight
  <2>3. \A q \in retries' : \E p \in retries : q.seq = p.seq /\ q.attempt = p.attempt
    BY <1>8, Zenon DEF Tick, TypeOK, Queued
  <2>4. \A q \in retries' : Later(issued, q.seq, q.attempt)
    BY <2>3, Zenon DEF AttemptInv
  <2> QED BY <1>1, <1>2, <2>1, <2>2, <2>4, AttemptKept
<1> QED BY <1>4, <1>5, <1>6, <1>7, <1>8

\* takeLocked leases an item with an attempt yet to be made.
LEMMA AttemptLease ==
    ASSUME TypeOK, SelectionInv, AttemptInv, NEW item \in Queued, NEW lane \in {"fresh", "retry"},
           NEW receipt \in Receipts, receipt \notin DOMAIN inFlight,
           Lease(item, lane, receipt), Later(issued, item.seq, item.attempt),
           lane = "fresh" => \A d \in issued : d.seq # item.seq,
           retries' \subseteq retries, UNCHANGED <<cursor, scanDone, issued>>
    PROVE  AttemptInv'
<1> DEFINE new == [seq |-> item.seq, attempt |-> item.attempt,
                   readyAt |-> item.readyAt, lane |-> lane, receipt |-> receipt]
<1>1. /\ DOMAIN inFlight' = DOMAIN inFlight \cup {receipt}
      /\ inFlight'[receipt].seq = item.seq /\ inFlight'[receipt].attempt = item.attempt
      /\ \A x \in DOMAIN inFlight : inFlight'[x] = inFlight[x]
  BY Zenon DEF Lease
<1>2. /\ selected' = Append(selected, new) /\ selected \in Seq(Selection)
      /\ states' = [states EXCEPT ![item.seq] = "inflight"]
  BY Zenon DEF Lease, TypeOK
<1>3. /\ new.seq = item.seq /\ new.attempt = item.attempt
      /\ new.lane = lane /\ new.receipt = receipt
  BY Zenon
<1> HIDE DEF new
<1>4. /\ \A i \in DOMAIN selected' : i = Len(selected) + 1 \/ i \in DOMAIN selected
      /\ \A i \in DOMAIN selected : i \in DOMAIN selected' /\ selected'[i] = selected[i]
      /\ Len(selected) + 1 \in DOMAIN selected' /\ selected'[Len(selected) + 1] = new
  BY <1>2, SelectedAppended, Zenon
<1>5. \A d \in issued' : states'[d.seq] # "fresh" /\ (d.seq < cursor' \/ scanDone')
  BY <1>2, Zenon DEF AttemptInv, TypeOK, Issue
<1>6. \A q \in retries' : Later(issued', q.seq, q.attempt)
  BY Zenon DEF AttemptInv
<1>7. ASSUME NEW x \in DOMAIN inFlight'
      PROVE  /\ Latest(issued', inFlight'[x].seq, inFlight'[x].attempt)
             /\ \/ [seq |-> inFlight'[x].seq, attempt |-> inFlight'[x].attempt, receipt |-> x]
                       \in issued'
                \/ \E i \in DOMAIN selected' : selected'[i].receipt = x
  <2>1. CASE x = receipt
    BY <1>1, <1>3, <1>4, <2>1, Zenon DEF Later
  <2>2. CASE x \in DOMAIN inFlight
    <3>1. inFlight'[x] = inFlight[x] /\ issued' = issued
      BY <1>1, <2>2, Zenon
    <3>2. /\ Latest(issued, inFlight[x].seq, inFlight[x].attempt)
          /\ \/ [seq |-> inFlight[x].seq, attempt |-> inFlight[x].attempt, receipt |-> x]
                    \in issued
             \/ \E i \in DOMAIN selected : selected[i].receipt = x
      BY <2>2, Zenon DEF AttemptInv
    <3>3. ASSUME NEW i \in DOMAIN selected, selected[i].receipt = x
          PROVE  \E j \in DOMAIN selected' : selected'[j].receipt = x
      BY <1>4, <3>3, Zenon
    <3> QED BY <3>1, <3>2, <3>3, Zenon
  <2> QED BY <1>1, <2>1, <2>2, Zenon
<1>8. ASSUME NEW i \in DOMAIN selected'
      PROVE  /\ inFlight'[selected'[i].receipt].attempt = selected'[i].attempt
             /\ Later(issued', selected'[i].seq, selected'[i].attempt)
             /\ selected'[i].lane = "fresh" => \A d \in issued' : d.seq # selected'[i].seq
  <2>1. CASE i = Len(selected) + 1
    BY <1>1, <1>3, <1>4, <2>1, Zenon
  <2>2. CASE i \in DOMAIN selected
    <3>1. /\ selected[i].receipt \in DOMAIN inFlight
          /\ inFlight[selected[i].receipt].attempt = selected[i].attempt
          /\ Later(issued, selected[i].seq, selected[i].attempt)
          /\ selected[i].lane = "fresh" => \A d \in issued : d.seq # selected[i].seq
      BY <2>2, Zenon DEF AttemptInv, SelectionInv
    <3>2. /\ selected'[i] = selected[i] /\ issued' = issued
          /\ inFlight'[selected[i].receipt] = inFlight[selected[i].receipt]
      BY <1>1, <1>4, <2>2, <3>1, Zenon
    <3> QED BY <3>1, <3>2, Zenon
  <2> QED BY <1>4, <2>1, <2>2, Zenon
<1> QED BY <1>5, <1>6, <1>7, <1>8, Zenon DEF AttemptInv

\* The attempts of takeLocked come from the retry lane, or are the first.
LEMMA AttemptTake ==
    ASSUME TypeOK, LaneConsistency, SelectionInv, AttemptInv,
           NEW r \in Readers, NEW receipt \in Receipts,
           \/ TakeFresh(r, receipt)
           \/ \E q \in retries : TakeRetry(r, q, receipt)
    PROVE  AttemptInv'
<1>1. ASSUME NEW q \in retries, TakeRetry(r, q, receipt)
      PROVE  AttemptInv'
  <2>1. q \in Queued /\ Later(issued, q.seq, q.attempt)
    BY DEF TypeOK, AttemptInv
  <2>2. /\ receipt \notin DOMAIN inFlight /\ Lease(q, "retry", receipt)
        /\ retries' \subseteq retries /\ UNCHANGED <<cursor, scanDone, issued>>
    BY <1>1, Zenon DEF TakeRetry, scanVars
  <2> QED BY <2>1, <2>2, AttemptLease, Zenon
<1>2. CASE TakeFresh(r, receipt)
  <2> DEFINE item == [seq |-> Head(fresh), attempt |-> 1, readyAt |-> 0]
  <2>1. fresh # <<>> /\ 1 \in DOMAIN fresh /\ Head(fresh) = fresh[1] /\ Head(fresh) \in Seqs
    BY <1>2 DEF TakeFresh, FreshReady, TypeOK
  <2>2. item \in Queued /\ item.seq = Head(fresh) /\ item.attempt = 1
    <3>1. 1 \in Attempts /\ 0 \in Int
      BY WidthAssumption DEF Attempts
    <3> QED BY <2>1, <3>1, Zenon DEF Queued
  <2>3. states[Head(fresh)] = "fresh"
    BY <2>1, Zenon DEF LaneConsistency, LanesAgree
  <2>4. \A d \in issued : d.seq # Head(fresh)
    BY <2>3, Zenon DEF AttemptInv
  <2>5. /\ receipt \notin DOMAIN inFlight /\ Lease(item, "fresh", receipt)
        /\ retries' \subseteq retries /\ UNCHANGED <<cursor, scanDone, issued>>
    BY <1>2, Zenon DEF TakeFresh, scanVars
  <2> HIDE DEF item
  <2>6. Later(issued, item.seq, item.attempt)
    BY <2>2, <2>4, SMTT(20) DEF Later, Latest
  <2> QED BY <2>2, <2>4, <2>5, <2>6, AttemptLease, Zenon
<1> QED BY <1>1, <1>2

\* A selection that is undone leaves its attempt to be made again.
LEMMA AttemptRollback ==
    ASSUME TypeOK, SelectionInv, AttemptInv, NEW r \in Readers, RollbackOne(r)
    PROVE  AttemptInv'
<1> DEFINE n == Len(selected)
           last == selected[n]
<1>1. /\ selected \in Seq(Selection) /\ n \in Nat \ {0} /\ DOMAIN selected = 1..n
      /\ last \in Selection /\ n \in DOMAIN selected
  BY SMTT(20) DEF RollbackOne, TypeOK
<1>2. /\ selected' = SubSeq(selected, 1, n - 1)
      /\ states' = [states EXCEPT ![last.seq] = last.lane]
      /\ DOMAIN inFlight' = DOMAIN inFlight \ {last.receipt}
      /\ \A x \in DOMAIN inFlight' : inFlight'[x] = inFlight[x]
      /\ UNCHANGED <<cursor, scanDone, issued>>
      /\ retries' = retries
           \/ retries' = retries \cup {[seq |-> last.seq, attempt |-> last.attempt,
                                        readyAt |-> last.readyAt]}
  BY Zenon DEF RollbackOne, Restrict, scanVars
<1>3. DOMAIN selected' = 1..(n - 1) /\ \A i \in 1..(n - 1) : selected'[i] = selected[i]
  BY <1>1, <1>2, SMTT(20)
<1>4. /\ Later(issued, last.seq, last.attempt)
      /\ last.lane = "fresh" => \A d \in issued : d.seq # last.seq
  BY <1>1 DEF AttemptInv
<1>5. \A i \in 1..(n - 1) : i \in DOMAIN selected /\ selected[i].receipt # last.receipt
  BY <1>1, SMTT(20) DEF SelectionInv
<1> HIDE DEF last, n
<1>6. \A d \in issued' : states'[d.seq] # "fresh" /\ (d.seq < cursor' \/ scanDone')
  BY <1>2, <1>4, Zenon DEF AttemptInv, TypeOK, Issue
<1>7. \A q \in retries' : Later(issued', q.seq, q.attempt)
  <2>1. \A q \in retries' : q \in retries \/ (q.seq = last.seq /\ q.attempt = last.attempt)
    BY <1>2, SMTT(20)
  <2> QED BY <1>2, <1>4, <2>1, Zenon DEF AttemptInv
<1>8. ASSUME NEW x \in DOMAIN inFlight'
      PROVE  /\ Latest(issued', inFlight'[x].seq, inFlight'[x].attempt)
             /\ \/ [seq |-> inFlight'[x].seq, attempt |-> inFlight'[x].attempt, receipt |-> x]
                       \in issued'
                \/ \E i \in DOMAIN selected' : selected'[i].receipt = x
  <2>1. x \in DOMAIN inFlight /\ x # last.receipt /\ inFlight'[x] = inFlight[x]
    BY <1>2
  <2>2. ASSUME NEW i \in DOMAIN selected, selected[i].receipt = x
        PROVE  i \in DOMAIN selected' /\ selected'[i].receipt = x
    BY <1>1, <1>3, <2>1, <2>2 DEF last
  <2> QED BY <1>2, <2>1, <2>2, Zenon DEF AttemptInv
<1>9. ASSUME NEW i \in DOMAIN selected'
      PROVE  /\ inFlight'[selected'[i].receipt].attempt = selected'[i].attempt
             /\ Later(issued', selected'[i].seq, selected'[i].attempt)
             /\ selected'[i].lane = "fresh" => \A d \in issued' : d.seq # selected'[i].seq
  <2>1. i \in DOMAIN selected /\ selected'[i] = selected[i] /\ selected[i].receipt # last.receipt
    BY <1>3, <1>5, Zenon
  <2>2. inFlight'[selected[i].receipt] = inFlight[selected[i].receipt]
    BY <1>2, <2>1, Zenon DEF SelectionInv
  <2>3. /\ inFlight[selected[i].receipt].attempt = selected[i].attempt
        /\ Later(issued, selected[i].seq, selected[i].attempt)
        /\ selected[i].lane = "fresh" => \A d \in issued : d.seq # selected[i].seq
    BY <2>1, Zenon DEF AttemptInv
  <2>4. issued' = issued
    BY <1>2, Zenon
  <2> QED BY <2>1, <2>2, <2>3, <2>4, Zenon
<1> QED BY <1>6, <1>7, <1>8, <1>9, Zenon DEF AttemptInv

\* fillFresh queues only records that were never delivered.
LEMMA AttemptMerge ==
    ASSUME TypeOK, ScanInv, AttemptInv, NEW r \in Readers, MergeRecord(r)
    PROVE  AttemptInv'
<1> DEFINE seq == Head(scan.records)
<1>1. /\ scan.records \in Seq(Seqs) /\ 1 \in DOMAIN scan.records
      /\ seq = scan.records[1] /\ seq \in Seqs
  BY DEF MergeRecord, TypeOK, Scan
<1>2. seq >= cursor /\ ~scanDone
  BY <1>1 DEF ScanInv
<1>3. /\ UNCHANGED <<retries, inFlight, selected, issued>>
      /\ states' \in {states, [states EXCEPT ![seq] = "fresh"]}
      /\ scanDone' \in BOOLEAN
      /\ cursor' \in {cursor, seq + 1}
  BY Zenon DEF MergeRecord, takeVars, TypeOK
<1> HIDE DEF seq
<1>4. \A d \in issued : d.seq \in Nat /\ d.seq \in Seqs /\ d.seq < cursor /\ states[d.seq] # "fresh"
  BY <1>2 DEF AttemptInv, TypeOK, Issue, Seqs
<1>5. cursor \in Nat /\ seq \in Nat
  BY <1>1 DEF TypeOK, Seqs
<1>6. \A d \in issued : d.seq < cursor' /\ d.seq # seq
  BY <1>2, <1>3, <1>4, <1>5, SMTT(20)
<1>7. \A d \in issued : states'[d.seq] # "fresh"
  BY <1>3, <1>4, <1>6, Zenon DEF TypeOK
<1> QED BY <1>3, <1>6, <1>7, Zenon DEF AttemptInv

\* Read returns what takeLocked selected: each the next attempt of its record.
LEMMA AttemptReturn ==
    ASSUME TypeOK, LaneConsistency, SelectionInv, ScanInv, AttemptInv, AttemptsContiguous,
           NEW r \in Readers, TakeDone(r)
    PROVE  AttemptInv' /\ AttemptsContiguous'
<1> DEFINE new(i) == [seq |-> selected[i].seq, attempt |-> selected[i].attempt,
                      receipt |-> selected[i].receipt]
<1>1. /\ issued' = issued \cup {new(i) : i \in DOMAIN selected}
      /\ selected' = <<>>
      /\ UNCHANGED <<fresh, retries, inFlight, states, cursor, scanDone>>
  BY Zenon DEF TakeDone, Unlock, laneVars, scanVars
<1>2. \A i \in DOMAIN selected :
        /\ new(i).seq = selected[i].seq /\ new(i).attempt = selected[i].attempt
        /\ new(i).receipt = selected[i].receipt
  BY Zenon
<1>3. \A i \in DOMAIN selected :
        /\ selected[i].seq \in Seqs /\ selected[i].attempt \in Attempts
        /\ selected[i].receipt \in DOMAIN inFlight
        /\ inFlight[selected[i].receipt].seq = selected[i].seq
        /\ inFlight[selected[i].receipt].attempt = selected[i].attempt
        /\ Later(issued, selected[i].seq, selected[i].attempt)
  <2>1. \A i \in DOMAIN selected : selected[i] \in Selection
    BY DEF TypeOK
  <2>2. \A i \in DOMAIN selected : selected[i].seq \in Seqs /\ selected[i].attempt \in Attempts
    BY <2>1, Zenon DEF Selection
  <2>3. \A i \in DOMAIN selected :
          /\ inFlight[selected[i].receipt].attempt = selected[i].attempt
          /\ Later(issued, selected[i].seq, selected[i].attempt)
    BY Zenon DEF AttemptInv
  <2> QED BY <2>2, <2>3, Zenon DEF SelectionInv
<1>4. \A i \in DOMAIN selected : states[selected[i].seq] = "inflight"
  BY <1>3, SMTT(20) DEF LaneConsistency, LanesAgree
<1>5. \A i \in DOMAIN selected, x \in DOMAIN inFlight :
        inFlight[x].seq = selected[i].seq => x = selected[i].receipt
  BY <1>3, SMTT(20) DEF LaneConsistency, LanesAgree
<1>6. \A i, j \in DOMAIN selected : selected[i].seq = selected[j].seq => i = j
  BY <1>3, <1>5, SMTT(20) DEF SelectionInv
<1>7. \A d \in issued' : d \in issued \/ \E i \in DOMAIN selected : d = new(i)
  BY <1>1
<1>8. \A i \in DOMAIN selected : new(i) \in issued'
  BY <1>1, Zenon
<1>9. \A d \in issued : d \in issued' /\ d.attempt \in Nat
  BY <1>1, WidthAssumption, SMTT(20) DEF TypeOK, Issue, Attempts
<1>10. \A i \in DOMAIN selected : selected[i].attempt \in Nat
  BY <1>3, WidthAssumption DEF Attempts
<1> HIDE DEF new
<1>11. \A d \in issued' : states'[d.seq] # "fresh" /\ (d.seq < cursor' \/ scanDone')
  <2>1. \A d \in issued : states[d.seq] # "fresh" /\ (d.seq < cursor \/ scanDone)
    BY Zenon DEF AttemptInv
  <2>2. \A i \in DOMAIN selected : selected[i].seq < cursor \/ scanDone
    BY <1>3, <1>4 DEF ScanInv
  <2>3. UNCHANGED <<states, cursor, scanDone>>
    BY <1>1
  <2>4. ASSUME NEW d \in issued', d \notin issued
        PROVE  states[d.seq] # "fresh" /\ (d.seq < cursor \/ scanDone)
    <3>1. PICK i \in DOMAIN selected : d = new(i)
      BY <1>7, <2>4
    <3>2. d.seq = selected[i].seq
      BY <1>2, <3>1
    <3> QED BY <1>4, <2>2, <3>2
  <2> QED BY <2>1, <2>3, <2>4, Zenon
<1>12. ASSUME NEW q \in retries' PROVE Later(issued', q.seq, q.attempt)
  <2>1. Later(issued, q.seq, q.attempt) /\ q.seq \in Seqs /\ states[q.seq] = "retry"
    <3>1. q \in retries
      BY <1>1, Zenon
    <3>2. Later(issued, q.seq, q.attempt)
      BY <3>1, Zenon DEF AttemptInv
    <3>3. q.seq \in Seqs
      BY <3>1 DEF TypeOK, Queued
    <3>4. states[q.seq] = "retry"
      BY <3>1, <3>3, Zenon DEF LaneConsistency, LanesAgree
    <3> QED BY <3>2, <3>3, <3>4, Zenon
  <2>2. \A d \in issued' : d.seq = q.seq => d \in issued
    BY <1>2, <1>4, <1>7, <2>1, Zenon
  <2> QED BY <1>9, <2>1, <2>2, Zenon DEF Later, Latest
<1>13. ASSUME NEW x \in DOMAIN inFlight'
       PROVE  /\ Latest(issued', inFlight'[x].seq, inFlight'[x].attempt)
              /\ [seq |-> inFlight'[x].seq, attempt |-> inFlight'[x].attempt, receipt |-> x]
                   \in issued'
  <2>1. Latest(issued, inFlight[x].seq, inFlight[x].attempt)
    BY <1>1, Zenon DEF AttemptInv
  <2>2. \A d \in issued' : d.seq = inFlight[x].seq => d \in issued \/ d.attempt = inFlight[x].attempt
    BY <1>1, <1>2, <1>3, <1>5, <1>7
  <2>3. inFlight[x].attempt \in Nat
    BY <1>1, WidthAssumption, SMTT(20) DEF TypeOK, Flight, Attempts
  <2>4. Latest(issued', inFlight[x].seq, inFlight[x].attempt)
    BY <1>9, <2>1, <2>2, <2>3, SMTT(20) DEF Latest
  <2>5. CASE \E i \in DOMAIN selected : selected[i].receipt = x
    BY <1>1, <1>3, <1>8, <2>4, <2>5 DEF new
  <2>6. CASE [seq |-> inFlight[x].seq, attempt |-> inFlight[x].attempt, receipt |-> x] \in issued
    BY <1>1, <2>4, <2>6, Zenon
  <2> QED BY <1>1, <2>5, <2>6, Zenon DEF AttemptInv
<1>14. AttemptInv'
  <2>1. \A i \in DOMAIN selected' : FALSE
    BY <1>1
  <2> QED BY <1>11, <1>12, <1>13, <2>1, Zenon DEF AttemptInv
<1>15. ASSUME NEW d \in issued', d.attempt > 1
       PROVE  \E e \in issued' : e.seq = d.seq /\ e.attempt = d.attempt - 1
  <2>1. \E e \in issued : e.seq = d.seq /\ e.attempt = d.attempt - 1
    <3>1. CASE d \in issued
      BY <1>15, <3>1, Zenon DEF AttemptsContiguous
    <3>2. ASSUME NEW i \in DOMAIN selected, d = new(i)
          PROVE  \E e \in issued : e.seq = d.seq /\ e.attempt = d.attempt - 1
      BY <1>2, <1>3, <1>15, <3>2 DEF Later, Latest
    <3> QED BY <1>7, <3>1, <3>2
  <2> QED BY <1>9, <2>1
<1>16. ASSUME NEW d \in issued', d.attempt < MaxAttempt,
              NEW e \in issued', e.seq = d.seq, e.attempt = d.attempt
       PROVE  e = d
  <2>1. CASE d \in issued /\ e \in issued
    BY <1>16, <2>1, Zenon DEF AttemptsContiguous
  <2>2. ASSUME NEW i \in DOMAIN selected, NEW f \in issued,
               f.seq = selected[i].seq, f.attempt = selected[i].attempt,
               selected[i].attempt < MaxAttempt
        PROVE  FALSE
    BY <1>3, <2>2 DEF Later
  <2>3. ASSUME NEW i \in DOMAIN selected, NEW j \in DOMAIN selected, d = new(i), e = new(j)
        PROVE  e = d
    BY <1>2, <1>6, <1>16, <2>3, Zenon
  <2> QED BY <1>2, <1>7, <1>16, <2>1, <2>2, <2>3
<1>17. AttemptsContiguous'
  BY <1>15, <1>16 DEF AttemptsContiguous
<1> QED BY <1>14, <1>17, Zenon

\* Every step keeps the attempts in order.
LEMMA AttemptStep ==
    IInv /\ AttemptInv /\ AttemptsContiguous /\ [Next]_vars => AttemptInv' /\ AttemptsContiguous'
<1> SUFFICES ASSUME IInv, AttemptInv, AttemptsContiguous, [Next]_vars
             PROVE  AttemptInv' /\ AttemptsContiguous'
  OBVIOUS
<1>1. TypeOK /\ LockInv /\ LaneConsistency /\ SelectionInv /\ ScanInv
  BY DEF IInv
<1>2. ASSUME issued' = issued PROVE AttemptsContiguous'
  BY <1>2, Zenon DEF AttemptsContiguous
<1>3. CASE LaneFrame
  BY <1>2, <1>3, Zenon DEF LaneFrame, laneVars, AttemptInv
<1>4. ASSUME NEW r \in Readers, NEW receipt \in Receipts,
             TakeFresh(r, receipt) \/ \E q \in retries : TakeRetry(r, q, receipt)
      PROVE  AttemptInv' /\ AttemptsContiguous'
  <2>1. issued' = issued
    BY <1>4, Zenon DEF TakeFresh, TakeRetry
  <2> QED BY <1>1, <1>2, <1>4, <2>1, AttemptTake
<1>5. ASSUME NEW r \in Readers, RollbackOne(r) \/ MergeRecord(r)
      PROVE  AttemptInv' /\ AttemptsContiguous'
  <2>1. issued' = issued
    BY <1>5, Zenon DEF RollbackOne, MergeRecord
  <2> QED BY <1>1, <1>2, <1>5, <2>1, AttemptRollback, AttemptMerge
<1>6. ASSUME NEW r \in Readers, TakeDone(r)
      PROVE  AttemptInv' /\ AttemptsContiguous'
  BY <1>1, <1>6, AttemptReturn
<1>7. ASSUME \/ SweepOnly \/ Tick
             \/ \E D \in SUBSET issued : Release(D) \/ Retry(D)
             \/ \E D \in SUBSET issued, e \in Extensions : Extend(D, e)
      PROVE  AttemptInv' /\ AttemptsContiguous'
  <2>1. issued' = issued
    BY <1>7, Zenon DEF SweepOnly, Tick, Release, Retry, Extend
  <2> QED BY <1>1, <1>2, <1>7, <2>1, AttemptCompletions
<1> QED BY <1>1, <1>3, <1>4, <1>5, <1>6, <1>7, LaneSteps, Zenon

\* Nothing is delivered, selected or queued when New returns.
LEMMA AttemptInit == Init => AttemptInv /\ AttemptsContiguous
BY DEF Init, AttemptInv, AttemptsContiguous, NoFlights

\* A record in the fresh lane was never delivered.
LEMMA FreshUndelivered ==
    IInv /\ AttemptInv => \A i \in DOMAIN fresh : \A d \in issued : d.seq # fresh[i]
<1> SUFFICES ASSUME IInv, AttemptInv, NEW i \in DOMAIN fresh, NEW d \in issued
             PROVE  d.seq # fresh[i]
  OBVIOUS
<1>1. fresh[i] \in Seqs
  BY DEF IInv, TypeOK
<1>2. states[fresh[i]] = "fresh"
  BY <1>1 DEF IInv, LaneConsistency, LanesAgree
<1> QED BY <1>2 DEF AttemptInv

\* Only takeLocked makes a lease, and it makes an attempt yet to be made.
LEMMA StaleStep ==
    ASSUME IInv, AttemptInv, [Next]_vars,
           NEW d \in issued, d.attempt < MaxAttempt, Holds(d)'
    PROVE  Holds(d)
<1>1. TypeOK /\ LaneConsistency
  BY DEF IInv
<1>2. /\ d.receipt \in DOMAIN inFlight'
      /\ inFlight'[d.receipt].seq = d.seq /\ inFlight'[d.receipt].attempt = d.attempt
  BY DEF Holds
<1>3. ASSUME \A x \in DOMAIN inFlight' : /\ x \in DOMAIN inFlight
                                          /\ inFlight'[x].seq = inFlight[x].seq
                                          /\ inFlight'[x].attempt = inFlight[x].attempt
      PROVE  Holds(d)
  BY <1>2, <1>3 DEF Holds
<1>4. CASE LaneFrame \/ \E r \in Readers : TakeDone(r) \/ MergeRecord(r)
  BY <1>3, <1>4, Zenon DEF LaneFrame, TakeDone, MergeRecord, laneVars
<1>5. CASE SweepOnly
  BY <1>1, <1>3, <1>5, SweepType, Zenon DEF SweepOnly, expireLocked
<1>6. ASSUME NEW item, NEW lane, NEW receipt \in Receipts, Lease(item, lane, receipt),
             item.seq = d.seq => item.attempt # d.attempt
      PROVE  Holds(d)
  <2>1. /\ DOMAIN inFlight' = DOMAIN inFlight \cup {receipt}
        /\ inFlight'[receipt].seq = item.seq /\ inFlight'[receipt].attempt = item.attempt
        /\ \A x \in DOMAIN inFlight : x # receipt => inFlight'[x] = inFlight[x]
    BY <1>6, Zenon DEF Lease
  <2> QED BY <1>2, <1>6, <2>1, Zenon DEF Holds
<1>7. ASSUME NEW r \in Readers, NEW receipt \in Receipts, NEW q \in retries,
             TakeRetry(r, q, receipt)
      PROVE  Holds(d)
  <2>1. q.seq = d.seq => q.attempt # d.attempt
    BY Zenon DEF AttemptInv, Later
  <2> QED BY <1>6, <1>7, <2>1, Zenon DEF TakeRetry
<1>8. ASSUME NEW r \in Readers, NEW receipt \in Receipts, TakeFresh(r, receipt)
      PROVE  Holds(d)
  <2>1. 1 \in DOMAIN fresh /\ Head(fresh) = fresh[1] /\ Head(fresh) \in Seqs
    BY <1>1, <1>8, SMTT(20) DEF TakeFresh, FreshReady, TypeOK
  <2>2. states[Head(fresh)] = "fresh"
    BY <1>1, <2>1, Zenon DEF LaneConsistency, LanesAgree
  <2>3. Head(fresh) # d.seq
    BY <2>2, Zenon DEF AttemptInv
  <2> QED BY <1>6, <1>8, <2>3, Zenon DEF TakeFresh
<1>9. ASSUME NEW r \in Readers, RollbackOne(r)
      PROVE  Holds(d)
  BY <1>3, <1>9, Zenon DEF RollbackOne, Restrict
<1>10. ASSUME NEW D \in SUBSET issued, Release(D) \/ Retry(D)
       PROVE  Holds(d)
  <2>1. \A x \in DOMAIN inFlight' : x \in DOMAIN Live /\ inFlight'[x] = Live[x]
    BY <1>10, Zenon DEF Release, Retry, Restrict
  <2> QED BY <1>1, <1>3, <2>1, SweepType, Zenon
<1>11. ASSUME NEW D \in SUBSET issued, NEW e \in Extensions, Extend(D, e)
       PROVE  Holds(d)
  <2>1. DOMAIN inFlight' = DOMAIN Live
    BY <1>11 DEF Extend
  <2>2. \A x \in DOMAIN Live :
          inFlight'[x].seq = Live[x].seq /\ inFlight'[x].attempt = Live[x].attempt
    BY <1>1, <1>11, SweepType, Zenon DEF Extend, Flight
  <2> QED BY <1>1, <1>3, <2>1, <2>2, SweepType
<1>12. CASE Tick
  <2>1. DOMAIN inFlight' = DOMAIN inFlight
    BY <1>12 DEF Tick
  <2>2. \A x \in DOMAIN inFlight :
          inFlight'[x].seq = inFlight[x].seq /\ inFlight'[x].attempt = inFlight[x].attempt
    BY <1>1, <1>12, Zenon DEF Tick, TypeOK, Flight
  <2> QED BY <1>3, <2>1, <2>2, Zenon
<1> QED BY <1>1, <1>4, <1>5, <1>7, <1>8, <1>9, <1>10, <1>11, <1>12, LaneSteps, SMTT(20)

=============================================================================
