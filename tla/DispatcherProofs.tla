-------------------------- MODULE DispatcherProofs --------------------------
(***************************************************************************)
(* The dispatcher neither loses nor duplicates a record, for any number of *)
(* readers and any configuration; no delivery is accepted after its lease  *)
(* is over, a stale one stays stale, and attempts are counted without      *)
(* gaps; first deliveries follow the order of the stream, no append is     *)
(* hidden from the scan, and the limits of the configuration hold.         *)
(***************************************************************************)
EXTENDS DispatcherSteps

-----------------------------------------------------------------------------
(***************************************************************************)
(* The order of first deliveries.                                          *)
(***************************************************************************)
\* Record s left the fresh lane and is not completed.
Passed(s) == states[s] \in {"retry", "inflight"}

\* Record s is among sel after item i, from the fresh lane.
FreshAfter(sel, i, s) ==
    \E j \in DOMAIN sel : j > i /\ sel[j].seq = s /\ sel[j].lane = "fresh"

\* Records pass the fresh lane in order, and so do those takeLocked selected
\* from it: all that passed it before selection i are earlier in the stream.
OrderInv ==
    /\ FirstDeliveryInOrder
    /\ \A i \in DOMAIN fresh, s \in Seqs : Passed(s) => s < fresh[i]
    /\ \A i \in DOMAIN selected : selected[i].lane = "fresh" =>
         /\ \A d \in issued : d.seq < selected[i].seq
         /\ \A s \in Seqs : Passed(s) => s <= selected[i].seq \/ FreshAfter(selected, i, s)

\* No record enters or leaves the fresh lane, and nothing is selected.
LEMMA OrderSame ==
    ASSUME OrderInv, fresh' = fresh, issued' = issued, selected' = <<>>,
           \A s \in Seqs : Passed(s)' => Passed(s)
    PROVE  OrderInv'
<1>1. FirstDeliveryInOrder'
  BY DEF OrderInv, FirstDeliveryInOrder
<1>2. \A i \in DOMAIN fresh', s \in Seqs : Passed(s)' => s < fresh'[i]
  BY DEF OrderInv
<1>3. \A i \in DOMAIN selected' : FALSE
  OBVIOUS
<1> QED BY <1>1, <1>2, <1>3 DEF OrderInv

\* takeLocked takes the first record of the fresh lane.
LEMMA OrderTakeFresh ==
    ASSUME TypeOK, OrderInv, NEW r \in Readers, NEW receipt \in Receipts, TakeFresh(r, receipt)
    PROVE  OrderInv'
<1> DEFINE h == Head(fresh)
           n == Len(selected) + 1
<1>1. fresh \in Seq(Seqs) /\ fresh # <<>> /\ 1 \in DOMAIN fresh /\ h = fresh[1] /\ h \in Seqs
  BY DEF TakeFresh, FreshReady, TypeOK
<1>2. fresh' = Tail(fresh) /\ states' = [states EXCEPT ![h] = "inflight"] /\ issued' = issued
  BY DEF TakeFresh, Lease
<1>3. \A i \in DOMAIN fresh' : i + 1 \in DOMAIN fresh /\ i + 1 > 1 /\ fresh'[i] = fresh[i + 1]
  BY <1>1, <1>2
<1>4. /\ selected \in Seq(Selection)
      /\ selected' = Append(selected, [seq |-> h, attempt |-> 1, readyAt |-> 0,
                                       lane |-> "fresh", receipt |-> receipt])
  BY DEF TakeFresh, Lease, TypeOK
<1>5. /\ \A i \in DOMAIN selected' : i = n \/ (i \in DOMAIN selected /\ i < n)
      /\ \A i \in DOMAIN selected : i \in DOMAIN selected' /\ selected'[i] = selected[i]
      /\ n \in DOMAIN selected' /\ selected'[n].seq = h /\ selected'[n].lane = "fresh"
  BY <1>4
<1> HIDE DEF h, n
<1>6. \A s \in Seqs : Passed(s)' <=> Passed(s) \/ s = h
  BY <1>1, <1>2 DEF Passed, TypeOK
<1>7. /\ \A i, j \in DOMAIN fresh : i < j => fresh[i] < fresh[j]
      /\ \A i \in DOMAIN fresh, d \in issued : d.seq < fresh[i]
      /\ \A i \in DOMAIN fresh, s \in Seqs : Passed(s) => s < fresh[i]
  BY DEF OrderInv, FirstDeliveryInOrder
<1>8. FirstDeliveryInOrder'
  <2>1. \A i, j \in DOMAIN fresh' : i < j => i + 1 < j + 1
    BY <1>2, <1>1
  <2> QED BY <1>2, <1>3, <1>7, <2>1 DEF FirstDeliveryInOrder
<1>9. \A i \in DOMAIN fresh', s \in Seqs : Passed(s)' => s < fresh'[i]
  BY <1>1, <1>3, <1>6, <1>7
<1>10. ASSUME NEW i \in DOMAIN selected', selected'[i].lane = "fresh"
       PROVE  /\ \A d \in issued' : d.seq < selected'[i].seq
              /\ \A s \in Seqs : Passed(s)' => s <= selected'[i].seq \/ FreshAfter(selected', i, s)
  <2>1. CASE i = n
    <3>1. \A s \in Seqs : Passed(s)' => s <= h
      BY <1>1, <1>6, <1>7 DEF Seqs
    <3> QED BY <1>1, <1>2, <1>5, <1>7, <2>1, <3>1, Zenon
  <2>2. CASE i # n
    <3>1. i \in DOMAIN selected /\ i < n /\ selected'[i] = selected[i]
      BY <1>5, <2>2
    <3>2. /\ \A d \in issued : d.seq < selected[i].seq
          /\ \A s \in Seqs : Passed(s) => s <= selected[i].seq \/ FreshAfter(selected, i, s)
      BY <1>10, <3>1 DEF OrderInv
    <3>3. n > i
      BY <1>4, <3>1 DEF n
    <3>4. \A s \in Seqs : s = h \/ FreshAfter(selected, i, s) => FreshAfter(selected', i, s)
      BY <1>5, <3>3 DEF FreshAfter
    <3> QED BY <1>2, <1>6, <3>1, <3>2, <3>4, Zenon
  <2> QED BY <2>1, <2>2
<1> QED BY <1>8, <1>9, <1>10 DEF OrderInv

\* takeLocked takes a record that had passed the fresh lane before.
LEMMA OrderTakeRetry ==
    ASSUME TypeOK, LaneConsistency, OrderInv,
           NEW r \in Readers, NEW receipt \in Receipts, NEW q \in retries, TakeRetry(r, q, receipt)
    PROVE  OrderInv'
<1> DEFINE n == Len(selected) + 1
<1>1. q.seq \in Seqs /\ states[q.seq] = "retry"
  BY DEF TypeOK, Queued, LaneConsistency, LanesAgree
<1>2. /\ fresh' = fresh /\ issued' = issued
      /\ states' = [states EXCEPT ![q.seq] = "inflight"]
  BY DEF TakeRetry, Lease
<1>3. /\ selected \in Seq(Selection)
      /\ selected' = Append(selected, [seq |-> q.seq, attempt |-> q.attempt,
                                       readyAt |-> q.readyAt, lane |-> "retry",
                                       receipt |-> receipt])
  BY DEF TakeRetry, Lease, TypeOK
<1>4. /\ \A i \in DOMAIN selected' : i = n \/ i \in DOMAIN selected
      /\ \A i \in DOMAIN selected : i \in DOMAIN selected' /\ selected'[i] = selected[i]
      /\ selected'[n].lane = "retry"
  BY <1>3
<1> HIDE DEF n
<1>5. \A s \in Seqs : Passed(s)' <=> Passed(s)
  BY <1>1, <1>2, Zenon DEF Passed, TypeOK
<1>6. FirstDeliveryInOrder' /\ \A i \in DOMAIN fresh', s \in Seqs : Passed(s)' => s < fresh'[i]
  BY <1>2, <1>5 DEF OrderInv, FirstDeliveryInOrder
<1>7. ASSUME NEW i \in DOMAIN selected', selected'[i].lane = "fresh"
      PROVE  /\ \A d \in issued' : d.seq < selected'[i].seq
             /\ \A s \in Seqs : Passed(s)' => s <= selected'[i].seq \/ FreshAfter(selected', i, s)
  <2>1. i \in DOMAIN selected /\ selected'[i] = selected[i] /\ selected[i].lane = "fresh"
    BY <1>4, <1>7
  <2>2. /\ \A d \in issued : d.seq < selected[i].seq
        /\ \A s \in Seqs : Passed(s) => s <= selected[i].seq \/ FreshAfter(selected, i, s)
    BY <2>1 DEF OrderInv
  <2>3. \A s \in Seqs : FreshAfter(selected, i, s) => FreshAfter(selected', i, s)
    BY <1>4 DEF FreshAfter
  <2> QED BY <1>2, <1>5, <2>1, <2>2, <2>3, Zenon
<1> QED BY <1>6, <1>7 DEF OrderInv

\* The newest selection returns to the head of the fresh lane, where it was,
\* or to the retry lane.
LEMMA OrderRollback ==
    ASSUME TypeOK, LaneConsistency, SelectionInv, OrderInv, NEW r \in Readers, RollbackOne(r)
    PROVE  OrderInv'
<1> DEFINE n == Len(selected)
           last == selected[n]
<1>1. /\ selected \in Seq(Selection) /\ n \in Nat \ {0} /\ DOMAIN selected = 1..n
      /\ last \in Selection /\ n \in DOMAIN selected
  BY DEF RollbackOne, TypeOK
<1>2. last.seq \in Seqs /\ last.lane \in {"fresh", "retry"}
  BY <1>1 DEF Selection
<1>3. /\ selected' = SubSeq(selected, 1, n - 1)
      /\ states' = [states EXCEPT ![last.seq] = last.lane]
      /\ issued' = issued
      /\ \/ last.lane = "retry" /\ fresh' = fresh
         \/ last.lane = "fresh" /\ fresh' = PushFront(last.seq)
  BY DEF RollbackOne
<1>4. /\ DOMAIN selected' = 1..(n - 1)
      /\ \A i \in 1..(n - 1) : selected'[i] = selected[i]
      /\ \A i \in 1..(n - 1) : i \in DOMAIN selected /\ i < n
      /\ \A j \in DOMAIN selected : j = n \/ j \in 1..(n - 1)
  BY <1>1, <1>3
<1>5. states[last.seq] = "inflight"
  BY <1>1, <1>2 DEF SelectionInv, LaneConsistency, LanesAgree
<1>6. \A j \in DOMAIN selected : ~(j > n)
  BY <1>1
<1>7. last.lane = "fresh" =>
        /\ \A d \in issued : d.seq < last.seq
        /\ \A s \in Seqs : Passed(s) => s <= last.seq
  BY <1>1, <1>6 DEF OrderInv, FreshAfter
<1>8. last = selected[n]
  OBVIOUS
<1> HIDE DEF n, last
<1>9. \A s \in Seqs : Passed(s)' => Passed(s) /\ (last.lane = "fresh" => s # last.seq)
  BY <1>2, <1>3, <1>5, Zenon DEF Passed, TypeOK
<1>10. /\ \A i, j \in DOMAIN fresh : i < j => fresh[i] < fresh[j]
       /\ \A i \in DOMAIN fresh, d \in issued : d.seq < fresh[i]
       /\ \A i \in DOMAIN fresh, s \in Seqs : Passed(s) => s < fresh[i]
  BY DEF OrderInv, FirstDeliveryInOrder
<1>11. FirstDeliveryInOrder' /\ \A i \in DOMAIN fresh', s \in Seqs : Passed(s)' => s < fresh'[i]
  <2>1. CASE fresh' = fresh
    BY <1>3, <1>9, <1>10, <2>1 DEF FirstDeliveryInOrder
  <2>2. CASE last.lane = "fresh" /\ fresh' = PushFront(last.seq)
    <3>1. /\ fresh' \in Seq(Seqs) /\ fresh'[1] = last.seq
          /\ \A i \in DOMAIN fresh' :
               /\ i \in Nat
               /\ i # 1 => i - 1 \in DOMAIN fresh /\ i > 1 /\ fresh'[i] = fresh[i - 1]
      BY <1>2, <2>2, SMTT(20) DEF PushFront, TypeOK
    <3>2. \A i \in DOMAIN fresh : last.seq < fresh[i]
      BY <1>2, <1>5, <1>10 DEF Passed
    <3>3. ASSUME NEW i \in DOMAIN fresh', NEW j \in DOMAIN fresh', i < j
          PROVE  fresh'[i] < fresh'[j]
      <4>1. CASE i = 1
        BY <3>1, <3>2, <3>3, <4>1
      <4>2. CASE i # 1
        <5>1. i - 1 \in DOMAIN fresh /\ j - 1 \in DOMAIN fresh /\ i - 1 < j - 1
              /\ fresh'[i] = fresh[i - 1] /\ fresh'[j] = fresh[j - 1]
          BY <3>1, <3>3, <4>2
        <5> QED BY <1>10, <5>1
      <4> QED BY <4>1, <4>2
    <3>4. \A i \in DOMAIN fresh', d \in issued' : d.seq < fresh'[i]
      BY <1>3, <1>7, <1>10, <2>2, <3>1, Zenon
    <3>5. \A s \in Seqs : Passed(s)' => s < last.seq
      BY <1>2, <1>7, <1>9, <2>2 DEF Seqs
    <3>6. \A i \in DOMAIN fresh', s \in Seqs : Passed(s)' => s < fresh'[i]
      BY <1>9, <1>10, <3>1, <3>5
    <3> QED BY <3>3, <3>4, <3>6, Zenon DEF FirstDeliveryInOrder
  <2> QED BY <1>3, <2>1, <2>2
<1>12. ASSUME NEW i \in DOMAIN selected', selected'[i].lane = "fresh"
       PROVE  /\ \A d \in issued' : d.seq < selected'[i].seq
              /\ \A s \in Seqs : Passed(s)' => s <= selected'[i].seq \/ FreshAfter(selected', i, s)
  <2>1. i \in DOMAIN selected /\ selected'[i] = selected[i] /\ selected[i].lane = "fresh"
    BY <1>4, <1>12
  <2>2. /\ \A d \in issued : d.seq < selected[i].seq
        /\ \A s \in Seqs : Passed(s) => s <= selected[i].seq \/ FreshAfter(selected, i, s)
    BY <2>1 DEF OrderInv
  <2>3. ASSUME NEW s \in Seqs, last.lane = "fresh" => s # last.seq, FreshAfter(selected, i, s)
        PROVE  FreshAfter(selected', i, s)
    <3>1. PICK j \in DOMAIN selected : j > i /\ selected[j].seq = s /\ selected[j].lane = "fresh"
      BY <2>3 DEF FreshAfter
    <3>2. j # n
      BY <1>8, <2>3, <3>1
    <3> QED BY <1>4, <3>1, <3>2 DEF FreshAfter
  <2> QED BY <1>3, <1>9, <2>1, <2>2, <2>3, Zenon
<1> QED BY <1>11, <1>12, Zenon DEF OrderInv

\* fillFresh appends a record that is after all that are tracked or delivered.
LEMMA OrderMerge ==
    ASSUME TypeOK, LaneConsistency, ScanInv, AttemptInv, OrderInv, NEW r \in Readers, MergeRecord(r)
    PROVE  OrderInv'
<1> DEFINE seq == Head(scan.records)
<1>1. /\ scan.records \in Seq(Seqs) /\ 1 \in DOMAIN scan.records
      /\ seq = scan.records[1] /\ seq \in Seqs
  BY DEF MergeRecord, TypeOK, Scan
<1>2. seq >= cursor /\ ~scanDone
  BY <1>1 DEF ScanInv
<1>3. /\ selected' = selected /\ issued' = issued
      /\ \/ states' = [states EXCEPT ![seq] = "fresh"] /\ fresh' = Append(fresh, seq)
         \/ states' = states /\ fresh' = fresh
  BY DEF MergeRecord, takeVars
<1> HIDE DEF seq
<1>4. \A s \in Seqs : Passed(s)' => Passed(s)
  BY <1>1, <1>3, Zenon DEF Passed, TypeOK
<1>5. ASSUME NEW i \in DOMAIN selected', selected'[i].lane = "fresh"
      PROVE  /\ \A d \in issued' : d.seq < selected'[i].seq
             /\ \A s \in Seqs : Passed(s)' => s <= selected'[i].seq \/ FreshAfter(selected', i, s)
  BY <1>3, <1>4, <1>5 DEF OrderInv
<1>6. /\ \A i, j \in DOMAIN fresh : i < j => fresh[i] < fresh[j]
      /\ \A i \in DOMAIN fresh, d \in issued : d.seq < fresh[i]
      /\ \A i \in DOMAIN fresh, s \in Seqs : Passed(s) => s < fresh[i]
  BY DEF OrderInv, FirstDeliveryInOrder
<1>7. CASE fresh' = fresh
  BY <1>3, <1>4, <1>5, <1>6, <1>7, Zenon DEF OrderInv, FirstDeliveryInOrder
<1>8. CASE fresh' = Append(fresh, seq)
  <2>1. /\ \A s \in Seqs : states[s] # "untracked" => s < seq
        /\ \A d \in issued : d.seq < seq
    BY <1>1, <1>2, SMTT(20) DEF ScanInv, AttemptInv, TypeOK, Issue, Seqs
  <2>2. fresh \in Seq(Seqs) /\ \A i \in DOMAIN fresh : fresh[i] \in Seqs
    BY DEF TypeOK
  <2>3. \A i \in DOMAIN fresh : fresh[i] < seq
    BY <2>1, <2>2 DEF LaneConsistency, LanesAgree
  <2>4. \A i \in DOMAIN fresh' : \/ i \in DOMAIN fresh /\ fresh'[i] = fresh[i]
                                 \/ i = Len(fresh) + 1 /\ fresh'[i] = seq
    BY <1>1, <1>8, <2>2
  <2>5. \A i \in DOMAIN fresh : i \in Nat /\ i < Len(fresh) + 1
    BY <2>2
  <2>6. \A i, j \in DOMAIN fresh' : i < j => fresh'[i] < fresh'[j]
    BY <1>6, <2>3, <2>4, <2>5
  <2>7. FirstDeliveryInOrder'
    BY <1>3, <1>6, <2>1, <2>4, <2>6, Zenon DEF FirstDeliveryInOrder
  <2>8. \A s \in Seqs : Passed(s) => s < seq
    BY <2>1 DEF Passed
  <2>9. \A i \in DOMAIN fresh', s \in Seqs : Passed(s)' => s < fresh'[i]
    BY <1>4, <1>6, <2>4, <2>8, Zenon
  <2> QED BY <1>5, <2>7, <2>9, Zenon DEF OrderInv
<1> QED BY <1>3, <1>7, <1>8, Zenon

\* Read returns records that passed the fresh lane.
LEMMA OrderReturn ==
    ASSUME TypeOK, LaneConsistency, SelectionInv, OrderInv, NEW r \in Readers, TakeDone(r)
    PROVE  OrderInv'
<1>1. /\ fresh' = fresh /\ states' = states /\ selected' = <<>>
      /\ \A d \in issued' : d \in issued \/ \E i \in DOMAIN selected : d.seq = selected[i].seq
  BY DEF TakeDone, Unlock, laneVars
<1>2. \A i \in DOMAIN selected : selected[i].seq \in Seqs
  <2>1. \A i \in DOMAIN selected : selected[i] \in Selection
    BY DEF TypeOK
  <2> QED BY <2>1 DEF Selection
<1>3. \A i \in DOMAIN selected : Passed(selected[i].seq)
  BY <1>2 DEF SelectionInv, LaneConsistency, LanesAgree, Passed
<1>4. \A i \in DOMAIN fresh, j \in DOMAIN selected : selected[j].seq < fresh[i]
  BY <1>2, <1>3 DEF OrderInv
<1>5. FirstDeliveryInOrder'
  BY <1>1, <1>4 DEF OrderInv, FirstDeliveryInOrder
<1>6. \A i \in DOMAIN fresh', s \in Seqs : Passed(s)' => s < fresh'[i]
  BY <1>1 DEF OrderInv, Passed
<1>7. \A i \in DOMAIN selected' : FALSE
  BY <1>1
<1> QED BY <1>5, <1>6, <1>7, Zenon DEF OrderInv

\* Only takeLocked makes records pass the fresh lane.
LEMMA PassedSteps ==
    ASSUME IInv, [Next]_vars
    PROVE  \/ \A s \in Seqs : Passed(s)' => Passed(s)
           \/ \E r \in Readers, receipt \in Receipts : TakeFresh(r, receipt)
<1>1. TypeOK /\ LaneConsistency /\ SelectionInv
  BY DEF IInv
<1>2. \A s \in Seqs : SweptStates[s] \in {"retry", "inflight"} => Passed(s)
  <2>1. \A x \in Due : x \in DOMAIN inFlight /\ inFlight[x].seq \in Seqs
    BY <1>1, SweepType, Zenon DEF TypeOK, Flight
  <2>2. \A x \in Due : states[inFlight[x].seq] = "inflight"
    BY <1>1, <2>1 DEF LaneConsistency, LanesAgree
  <2> QED BY <2>2 DEF SweptStates, Passed
<1>3. ASSUME states' = states PROVE \A s \in Seqs : Passed(s)' => Passed(s)
  BY <1>3 DEF Passed
<1>4. CASE LaneFrame \/ Tick \/ \E r \in Readers : TakeDone(r)
  BY <1>3, <1>4 DEF LaneFrame, laneVars, Tick, TakeDone
<1>5. CASE SweepOnly \/ \E D \in SUBSET issued, e \in Extensions : Extend(D, e)
  BY <1>2, <1>5 DEF SweepOnly, expireLocked, Extend, Passed
<1>6. ASSUME NEW D \in SUBSET issued, Retry(D) PROVE \A s \in Seqs : Passed(s)' => Passed(s)
  <2>1. \A s \in SeqsOf(D) : SweptStates[s] = "inflight"
    BY <1>1, <1>6, ReleaseFlights, Zenon DEF Retry
  <2>2. \A s \in Seqs : states'[s] = IF s \in SeqsOf(D) THEN "retry" ELSE SweptStates[s]
    BY <1>6, Zenon DEF Retry
  <2> QED BY <1>2, <2>1, <2>2, Zenon DEF Passed
<1>7. ASSUME NEW D \in SUBSET issued, Release(D) PROVE \A s \in Seqs : Passed(s)' => Passed(s)
  BY <1>2, <1>7, Zenon DEF Release, Passed
<1>8. ASSUME NEW r \in Readers, NEW receipt \in Receipts, NEW q \in retries, TakeRetry(r, q, receipt)
      PROVE  \A s \in Seqs : Passed(s)' => Passed(s)
  <2>1. q.seq \in Seqs /\ states[q.seq] = "retry"
    BY <1>1, SMTT(20) DEF TypeOK, Queued, LaneConsistency, LanesAgree
  <2> QED BY <1>1, <1>8, <2>1, Zenon DEF TakeRetry, Lease, Passed, TypeOK
<1>9. ASSUME NEW r \in Readers, RollbackOne(r) PROVE \A s \in Seqs : Passed(s)' => Passed(s)
  <2> DEFINE last == selected[Len(selected)]
  <2>1. last \in Selection /\ Len(selected) \in DOMAIN selected
    BY <1>1, <1>9, SMTT(20) DEF RollbackOne, TypeOK
  <2>2. last.seq \in Seqs /\ states[last.seq] = "inflight"
    BY <1>1, <2>1, SMTT(20) DEF Selection, SelectionInv, LaneConsistency, LanesAgree
  <2>3. states' = [states EXCEPT ![last.seq] = last.lane]
    BY <1>9 DEF RollbackOne
  <2> HIDE DEF last
  <2> QED BY <1>1, <2>2, <2>3, Zenon DEF Passed, TypeOK
<1>10. ASSUME NEW r \in Readers, MergeRecord(r) PROVE \A s \in Seqs : Passed(s)' => Passed(s)
  BY <1>1, <1>10, Zenon DEF MergeRecord, Passed, TypeOK
<1> QED BY <1>1, <1>4, <1>5, <1>6, <1>7, <1>8, <1>9, <1>10, LaneSteps, SMTT(20)

\* Every step keeps the order.
LEMMA OrderStep == IInv /\ AttemptInv /\ OrderInv /\ [Next]_vars => OrderInv'
<1> SUFFICES ASSUME IInv, AttemptInv, OrderInv, [Next]_vars PROVE OrderInv'
  OBVIOUS
<1>1. TypeOK /\ LockInv /\ LaneConsistency /\ SelectionInv /\ ScanInv
  BY DEF IInv
<1>2. CASE LaneFrame
  BY <1>2 DEF LaneFrame, laneVars, OrderInv, FirstDeliveryInOrder, Passed
<1>3. ASSUME \/ SweepOnly \/ Tick
             \/ \E D \in SUBSET issued : Release(D) \/ Retry(D)
             \/ \E D \in SUBSET issued, e \in Extensions : Extend(D, e)
      PROVE  OrderInv'
  <2>1. /\ mu = NoReader /\ selected' \in {selected, <<>>}
        /\ fresh' = fresh /\ issued' = issued
    BY <1>3, Zenon DEF SweepOnly, expireLocked, Tick, Release, Retry, Extend, Accepted, takeVars
  <2>2. selected' = <<>>
    BY <1>1, <2>1, NoSelection
  <2>3. \A r \in Readers, receipt \in Receipts : ~TakeFresh(r, receipt)
    BY <2>1, InputAssumption, Zenon DEF TakeFresh
  <2> QED BY <2>1, <2>2, <2>3, PassedSteps, OrderSame, Zenon
<1> QED BY <1>1, <1>2, <1>3, OrderTakeFresh, OrderTakeRetry, OrderRollback, OrderMerge,
           OrderReturn, LaneSteps

-----------------------------------------------------------------------------
(***************************************************************************)
(* The scan and its flag.                                                  *)
(***************************************************************************)
\* Neither the records, their announcement nor the scan changes.
StreamFrame == UNCHANGED <<pending, unnotified, scanVars>>

\* The steps that touch the stream or the scan are named here.
LEMMA StreamSteps ==
    ASSUME [Next]_vars
    PROVE  \/ StreamFrame \/ Notify
           \/ \E n \in 1..MaxBatch : AppendBatch(n)
           \/ \E r \in Readers : \/ FillStart(r) \/ ScanBatch(r) \/ ScanError(r)
                                 \/ MergeStart(r) \/ MergeRecord(r) \/ MergeDone(r)
           \/ \E D \in SUBSET issued : Release(D)
<1> USE DEF storeVars, scanVars, StreamFrame
<1>1. ASSUME NEW r \in Readers, ReadStep(r)
      PROVE  \/ StreamFrame \/ FillStart(r) \/ ScanBatch(r) \/ ScanError(r)
             \/ MergeStart(r) \/ MergeRecord(r) \/ MergeDone(r)
  <2>1. ASSUME ReadClosed(r) \/ ReadTopUp(r) \/ ReadTake(r) \/ FillSkip(r) PROVE StreamFrame
    BY <2>1, Zenon DEF ReadClosed, ReadTopUp, ReadTake, FillSkip
  <2>2. ASSUME NEW receipt \in Receipts, NEW q \in retries, TakeRetry(r, q, receipt)
        PROVE  StreamFrame
    BY <2>2, Zenon DEF TakeRetry
  <2>3. ASSUME NEW receipt \in Receipts, TakeFresh(r, receipt) PROVE StreamFrame
    BY <2>3, Zenon DEF TakeFresh
  <2>4. ASSUME \/ TakeNoReceipt(r) \/ RollbackOne(r) \/ RollbackDone(r)
               \/ TakeDone(r) \/ TakeNone(r)
        PROVE  StreamFrame
    BY <2>4, Zenon DEF TakeNoReceipt, RollbackOne, RollbackDone, TakeDone, TakeNone
  <2>5. ASSUME WaitOver(r) \/ Park(r) \/ WakeSignal(r) \/ WakeTimer(r) \/ WakeContext(r)
        PROVE  StreamFrame
    BY <2>5, Zenon DEF WaitOver, Park, WakeSignal, WakeTimer, WakeContext
  <2> HIDE DEF StreamFrame
  <2> QED BY <1>1, <2>1, <2>2, <2>3, <2>4, <2>5, Zenon DEF ReadStep
<1>2. CASE Complete
  <2>1. Calls \subseteq SUBSET issued
    BY Zenon DEF Calls
  <2>2. ASSUME NEW D \in Calls, Retry(D) \/ Reject(D) PROVE StreamFrame
    BY <2>2, Zenon DEF Retry, Reject
  <2>3. ASSUME NEW D \in Calls, NEW e \in Extensions, Extend(D, e) PROVE StreamFrame
    BY <2>3 DEF Extend
  <2>4. ASSUME NEW d \in issued, DeadLetter(d) PROVE \E D \in SUBSET issued : Release(D)
    BY <2>4 DEF DeadLetter
  <2> HIDE DEF StreamFrame
  <2> QED BY <1>2, <2>1, <2>2, <2>3, <2>4, Zenon DEF Complete, Commit
<1>3. ASSUME Snapshot \/ Tick \/ Close PROVE StreamFrame
  BY <1>3 DEF Snapshot, Tick, Close
<1>4. ASSUME \E r \in Readers : Cancel(r) \/ \E n \in Counts : StartRead(r, n) PROVE StreamFrame
  BY <1>4 DEF Cancel, StartRead
<1>5. ASSUME UNCHANGED vars PROVE StreamFrame
  BY <1>5 DEF vars
<1> HIDE DEF StreamFrame
<1> QED BY <1>1, <1>2, <1>3, <1>4, <1>5, Zenon DEF Next

\* Every step keeps the flag honest.
LEMMA HiddenStep == IInv /\ NoHiddenAppend /\ [Next]_vars => NoHiddenAppend'
<1> SUFFICES ASSUME IInv, NoHiddenAppend, [Next]_vars PROVE NoHiddenAppend'
  OBVIOUS
<1>1. TypeOK /\ LockInv /\ ScanInv
  BY DEF IInv
<1>2. CASE StreamFrame
  BY <1>2 DEF StreamFrame, scanVars, NoHiddenAppend
<1>3. ASSUME scanEmpty' = FALSE \/ scan'.phase = "scan" PROVE NoHiddenAppend'
  BY <1>3 DEF NoHiddenAppend
<1>4. CASE Notify
  BY <1>3, <1>4, Zenon DEF Notify
<1>5. ASSUME NEW n \in 1..MaxBatch, AppendBatch(n) PROVE NoHiddenAppend'
  <2>1. unnotified' # 0
    BY <1>1, <1>5 DEF AppendBatch, TypeOK
  <2> QED BY <2>1 DEF NoHiddenAppend
<1>6. ASSUME NEW r \in Readers, FillStart(r) PROVE NoHiddenAppend'
  BY <1>3, <1>6 DEF FillStart, NoScan
<1>7. ASSUME NEW r \in Readers, ScanError(r) PROVE NoHiddenAppend'
  BY <1>3, <1>7, Zenon DEF ScanError
<1>8. ASSUME NEW r \in Readers, ScanBatch(r) PROVE NoHiddenAppend'
  <2>1. PICK batch \in Batches :
          IsBatch(batch) /\ scan' = [scan EXCEPT !.phase = "scanned", !.records = batch]
    BY <1>8, Zenon DEF ScanBatch
  <2>2. /\ scan'.phase = "scanned" /\ scan'.records = batch /\ scan'.free = scan.free
        /\ UNCHANGED <<pending, cursor>>
    BY <1>1, <1>8, <2>1, Zenon DEF ScanBatch, TypeOK, Scan, storeVars
  <2>3. ASSUME Len(batch) # scan.free, NEW s \in pending, s >= cursor
        PROVE  \E i \in DOMAIN batch : batch[i] = s
    BY <2>1, <2>3 DEF IsBatch
  <2> QED BY <2>2, <2>3 DEF NoHiddenAppend
<1>9. ASSUME NEW r \in Readers, MergeStart(r) PROVE NoHiddenAppend'
  <2>1. /\ scan.phase = "scanned" /\ scan'.records = scan.records
        /\ scanEmpty' = IF Len(scan.records) = scan.free THEN FALSE ELSE scanEmpty
        /\ UNCHANGED <<pending, unnotified, cursor, scanDone>>
    BY <1>1, <1>9, Zenon DEF MergeStart, TypeOK, Scan, storeVars
  <2> QED BY <2>1, Zenon DEF NoHiddenAppend
<1>10. ASSUME NEW r \in Readers, MergeRecord(r) PROVE NoHiddenAppend'
  <2> DEFINE seq == Head(scan.records)
  <2>1. /\ scan.records \in Seq(Seqs) /\ scan.records # <<>> /\ 1 \in DOMAIN scan.records
        /\ seq = scan.records[1] /\ seq \in Seqs
    BY <1>1, <1>10, SMTT(20) DEF MergeRecord, TypeOK, Scan
  <2>2. seq >= cursor /\ ~scanDone /\ scan.phase = "merge"
    BY <1>1, <1>10, <2>1, Zenon DEF ScanInv, MergeRecord, LockInv
  <2>3. seq \in Nat /\ cursor \in Nat
    BY <1>1, <2>1, SMTT(20) DEF TypeOK, Seqs
  <2>4. /\ UNCHANGED <<pending, unnotified, scanEmpty>>
        /\ scan'.records = Tail(scan.records)
        /\ scanDone' \/ cursor' = seq + 1
    BY <1>1, <1>10, <2>2, <2>3, SMTT(20) DEF MergeRecord, TypeOK, Scan, storeVars
  <2>5. \A i \in DOMAIN scan.records :
          i = 1 \/ (i - 1 \in DOMAIN scan'.records /\ scan'.records[i - 1] = scan.records[i])
    BY <2>1, <2>4
  <2> HIDE DEF seq
  <2>6. ASSUME scanEmpty, unnotified = 0, ~scanDone', NEW s \in pending, s >= cursor'
        PROVE  \E i \in DOMAIN scan'.records : scan'.records[i] = s
    <3>1. s \in Nat /\ s >= seq + 1
      BY <1>1, <2>4, <2>6, SMTT(20) DEF TypeOK, Seqs
    <3>2. s >= cursor /\ s # seq
      BY <2>2, <2>3, <3>1
    <3>3. PICK i \in DOMAIN scan.records : scan.records[i] = s
      BY <2>2, <2>6, <3>2, Zenon DEF NoHiddenAppend
    <3> QED BY <2>1, <2>5, <3>2, <3>3, Zenon
  <2> QED BY <2>4, <2>6 DEF NoHiddenAppend
<1>11. ASSUME NEW r \in Readers, MergeDone(r) PROVE NoHiddenAppend'
  <2>1. /\ scan.records = <<>> /\ scan.phase = "merge" /\ scan'.records = <<>>
        /\ UNCHANGED <<pending, unnotified, cursor, scanDone, scanEmpty>>
    BY <1>1, <1>11, Zenon DEF MergeDone, LockInv, NoScan, storeVars
  <2> QED BY <2>1, Zenon DEF NoHiddenAppend
<1>12. ASSUME NEW D \in SUBSET issued, Release(D) PROVE NoHiddenAppend'
  BY <1>12 DEF Release, scanVars, NoHiddenAppend
<1> QED BY <1>2, <1>4, <1>5, <1>6, <1>7, <1>8, <1>9, <1>10, <1>11, <1>12, StreamSteps, SMTT(20)

-----------------------------------------------------------------------------
(***************************************************************************)
(* The limits of the configuration: those of the fresh lane, of the        *)
(* in-flight table, and of the retry lane and the table together.          *)
(***************************************************************************)
\* Of finite sets and how many elements they have, as FiniteSetTheorems has it.
CountFacts ==
    /\ FiniteFacts
    /\ IsFiniteSet({}) /\ Cardinality({}) = 0
    /\ \A A : IsFiniteSet(A) => \A B \in SUBSET A : Cardinality(B) <= Cardinality(A)
    /\ \A A, x : IsFiniteSet(A) =>
         /\ IsFiniteSet(A \cup {x}) /\ IsFiniteSet(A \ {x})
         /\ Cardinality(A \cup {x}) = IF x \in A THEN Cardinality(A) ELSE Cardinality(A) + 1
         /\ Cardinality(A \ {x}) = IF x \in A THEN Cardinality(A) - 1 ELSE Cardinality(A)
    /\ \A A, B, f : IsFiniteSet(A) /\ f \in Bijection(A, B) =>
         IsFiniteSet(B) /\ Cardinality(B) = Cardinality(A)
    /\ \A A, B : IsFiniteSet(A) /\ IsFiniteSet(B) =>
         Cardinality(A \cup B) = Cardinality(A) + Cardinality(B) - Cardinality(A \cap B)

\* The elements of a finite set can be counted.
LEMMA CountType ==
    ASSUME CountFacts, NEW A, IsFiniteSet(A)
    PROVE  Cardinality(A) \in Nat
BY Zenon DEF CountFacts, FiniteFacts

\* An interval is finite.
LEMMA CountInterval ==
    ASSUME CountFacts, NEW n \in Nat
    PROVE  IsFiniteSet(1..n)
BY Zenon DEF CountFacts, FiniteFacts

\* A subset has no more elements.
LEMMA CountSubset ==
    ASSUME CountFacts, NEW A, IsFiniteSet(A), NEW B \in SUBSET A
    PROVE  IsFiniteSet(B) /\ Cardinality(B) <= Cardinality(A)
BY Zenon DEF CountFacts, FiniteFacts

\* The empty set has none.
LEMMA CountEmpty ==
    ASSUME CountFacts
    PROVE  IsFiniteSet({}) /\ Cardinality({}) = 0
BY Zenon DEF CountFacts

\* One element more.
LEMMA CountAdd ==
    ASSUME CountFacts, NEW A, NEW x, IsFiniteSet(A)
    PROVE  /\ IsFiniteSet(A \cup {x})
           /\ Cardinality(A \cup {x}) = IF x \in A THEN Cardinality(A) ELSE Cardinality(A) + 1
BY Zenon DEF CountFacts

\* One element less.
LEMMA CountRemove ==
    ASSUME CountFacts, NEW A, NEW x, IsFiniteSet(A)
    PROVE  /\ IsFiniteSet(A \ {x})
           /\ Cardinality(A \ {x}) = IF x \in A THEN Cardinality(A) - 1 ELSE Cardinality(A)
BY Zenon DEF CountFacts

\* A bijection keeps the number of elements.
LEMMA CountBijection ==
    ASSUME CountFacts, NEW A, NEW B, NEW f \in Bijection(A, B), IsFiniteSet(A)
    PROVE  IsFiniteSet(B) /\ Cardinality(B) = Cardinality(A)
BY Zenon DEF CountFacts

\* The elements of a union.
LEMMA CountUnion ==
    ASSUME CountFacts, NEW A, NEW B, IsFiniteSet(A), IsFiniteSet(B)
    PROVE  Cardinality(A \cup B) = Cardinality(A) + Cardinality(B) - Cardinality(A \cap B)
BY Zenon DEF CountFacts

\* The records that left the fresh lane and are not completed.
PassedSeqs == {s \in Seqs : Passed(s)}

\* The records selected from the fresh lane, which rollback would put back.
FreshTaken == {i \in DOMAIN selected : selected[i].lane = "fresh"}

\* The room in the fresh lane that the scan in progress counts on.
Reserved == IF scan.phase = "scan" THEN scan.free ELSE Len(scan.records)

\* The fresh lane has room for what a rollback and the scan may add, the
\* in-flight table for what takeLocked may still lease, and no more records
\* have passed the fresh lane than the retry lane and the table may hold.
BoundInv ==
    /\ Len(fresh) + Cardinality(FreshTaken) + Reserved <= PrefetchCapacity
    /\ Len(selected) <= limit
    /\ Cardinality(DOMAIN inFlight) + limit <= MaxInFlight + Len(selected)
    /\ Cardinality(PassedSeqs) <= PrefetchCapacity + MaxInFlight

\* The numbers that BoundInv compares are natural numbers.
LEMMA CountTypes ==
    ASSUME CountFacts, TypeOK, LaneConsistency
    PROVE  /\ IsFiniteSet(DOMAIN inFlight) /\ Cardinality(DOMAIN inFlight) \in Nat
           /\ IsFiniteSet(PassedSeqs) /\ Cardinality(PassedSeqs) \in Nat
           /\ IsFiniteSet(FreshTaken) /\ Cardinality(FreshTaken) \in Nat
           /\ Len(fresh) \in Nat /\ Len(selected) \in Nat /\ Reserved \in Nat
           /\ DOMAIN selected = 1..Len(selected) /\ limit \in Int
           /\ PrefetchCapacity \in Nat /\ MaxInFlight \in Nat
<1>1. IsFiniteSet(DOMAIN inFlight) /\ Cardinality(DOMAIN inFlight) \in Nat
  BY LanesFinite, CountType, Zenon DEF CountFacts
<1>2. IsFiniteSet(Seqs)
  BY CountInterval, WidthAssumption DEF Seqs
<1>3. PassedSeqs \in SUBSET Seqs
  BY DEF PassedSeqs
<1>4. IsFiniteSet(PassedSeqs) /\ Cardinality(PassedSeqs) \in Nat
  BY <1>2, <1>3, CountSubset, CountType, Zenon
<1>5. Len(selected) \in Nat /\ DOMAIN selected = 1..Len(selected) /\ Len(fresh) \in Nat
  BY DEF TypeOK
<1>6. IsFiniteSet(1..Len(selected)) /\ FreshTaken \in SUBSET (1..Len(selected))
  BY <1>5, CountInterval DEF FreshTaken
<1>7. IsFiniteSet(FreshTaken) /\ Cardinality(FreshTaken) \in Nat
  BY <1>6, CountSubset, CountType, Zenon
<1>8. Reserved \in Nat
  BY DEF Reserved, TypeOK, Scan
<1> QED BY <1>1, <1>4, <1>5, <1>7, <1>8, ConfigAssumption, Zenon DEF TypeOK

\* A record that passed the fresh lane waits in the retry lane or is leased,
\* once: together the two hold as many as passed.
LEMMA PassedCount ==
    ASSUME CountFacts, TypeOK, LaneConsistency
    PROVE  Cardinality(retries) + Cardinality(DOMAIN inFlight) = Cardinality(PassedSeqs)
<1> DEFINE Rs == {s \in Seqs : states[s] = "retry"}
           Fs == {s \in Seqs : states[s] = "inflight"}
           f == [q \in retries |-> q.seq]
           g == [x \in DOMAIN inFlight |-> inFlight[x].seq]
<1>1. IsFiniteSet(retries) /\ IsFiniteSet(DOMAIN inFlight)
  BY LanesFinite, Zenon DEF CountFacts
<1>2. f \in Bijection(retries, Rs)
  <2>1. \A q \in retries : q.seq \in Rs
    BY DEF TypeOK, Queued, LaneConsistency, LanesAgree
  <2>2. \A s \in Rs : \E q \in retries : q.seq = s
    BY DEF LaneConsistency, LanesAgree
  <2>3. \A q1, q2 \in retries : q1.seq = q2.seq => q1 = q2
    BY DEF LaneConsistency, LanesAgree
  <2> HIDE DEF Rs
  <2> QED BY <2>1, <2>2, <2>3 DEF Bijection, Injection, Surjection, IsInjective
<1>3. g \in Bijection(DOMAIN inFlight, Fs)
  <2>1. \A x \in DOMAIN inFlight : inFlight[x].seq \in Fs
    BY DEF TypeOK, Flight, LaneConsistency, LanesAgree
  <2>2. \A s \in Fs : \E x \in DOMAIN inFlight : inFlight[x].seq = s
    BY DEF LaneConsistency, LanesAgree
  <2>3. \A x, y \in DOMAIN inFlight : inFlight[x].seq = inFlight[y].seq => x = y
    BY DEF LaneConsistency, LanesAgree
  <2> HIDE DEF Fs
  <2> QED BY <2>1, <2>2, <2>3 DEF Bijection, Injection, Surjection, IsInjective
<1>4. /\ Rs \cup Fs = PassedSeqs /\ Rs \cap Fs = {}
  BY DEF PassedSeqs, Passed
<1> HIDE DEF Rs, Fs, f, g
<1>5. /\ IsFiniteSet(Rs) /\ Cardinality(Rs) = Cardinality(retries)
      /\ IsFiniteSet(Fs) /\ Cardinality(Fs) = Cardinality(DOMAIN inFlight)
  BY <1>1, <1>2, <1>3, CountBijection, Zenon
<1>6. Cardinality(Rs \cup Fs) = Cardinality(Rs) + Cardinality(Fs) - Cardinality(Rs \cap Fs)
  BY <1>5, CountUnion, Zenon
<1>7. Cardinality({}) = 0 /\ Cardinality(Rs) \in Nat /\ Cardinality(Fs) \in Nat
  BY <1>5, CountEmpty, CountType, Zenon
<1>8. Cardinality(Rs \cup Fs) = Cardinality(PassedSeqs) /\ Cardinality(Rs \cap Fs) = Cardinality({})
  BY <1>4, Zenon
<1> QED BY <1>5, <1>6, <1>7, <1>8

\* BoundInv is what the limits need.
LEMMA BoundInvBounds ==
    ASSUME CountFacts, TypeOK, LaneConsistency, BoundInv
    PROVE  Bounded
BY CountTypes, PassedCount DEF BoundInv, Bounded

\* takeLocked lets a fresh record pass only while there is room behind it.
LEMMA BoundPassed ==
    ASSUME CountFacts, IInv, BoundInv, [Next]_vars
    PROVE  Cardinality(PassedSeqs') <= PrefetchCapacity + MaxInFlight
<1>1. TypeOK /\ LaneConsistency
  BY DEF IInv
<1>2. /\ IsFiniteSet(PassedSeqs) /\ Cardinality(PassedSeqs) \in Nat
      /\ PrefetchCapacity \in Nat /\ MaxInFlight \in Nat
      /\ Cardinality(PassedSeqs) <= PrefetchCapacity + MaxInFlight
  BY <1>1, CountTypes DEF BoundInv
<1>3. CASE \A s \in Seqs : Passed(s)' => Passed(s)
  <2>1. PassedSeqs' \in SUBSET PassedSeqs
    BY <1>3 DEF PassedSeqs
  <2>2. Cardinality(PassedSeqs') <= Cardinality(PassedSeqs) /\ Cardinality(PassedSeqs') \in Nat
    BY <1>2, <2>1, CountSubset, CountType, Zenon
  <2> QED BY <1>2, <2>2
<1>4. ASSUME NEW r \in Readers, NEW receipt \in Receipts, TakeFresh(r, receipt)
      PROVE  Cardinality(PassedSeqs') <= PrefetchCapacity + MaxInFlight
  <2>1. Cardinality(PassedSeqs) < PrefetchCapacity + MaxInFlight
    BY <1>1, <1>4, PassedCount, ZenonT(20) DEF TakeFresh, FreshReady
  <2>2. states' = [states EXCEPT ![Head(fresh)] = "inflight"]
    BY <1>4 DEF TakeFresh, Lease
  <2>3. PassedSeqs' \in SUBSET (PassedSeqs \cup {Head(fresh)})
    BY <1>1, <2>2 DEF PassedSeqs, Passed, TypeOK
  <2>4. /\ IsFiniteSet(PassedSeqs \cup {Head(fresh)})
        /\ Cardinality(PassedSeqs \cup {Head(fresh)}) =
             IF Head(fresh) \in PassedSeqs THEN Cardinality(PassedSeqs) ELSE Cardinality(PassedSeqs) + 1
    BY <1>2, CountAdd, Zenon
  <2>5. /\ Cardinality(PassedSeqs') <= Cardinality(PassedSeqs \cup {Head(fresh)})
        /\ Cardinality(PassedSeqs') \in Nat
    BY <2>3, <2>4, CountSubset, CountType, Zenon
  <2> QED BY <1>2, <2>1, <2>4, <2>5
<1> QED BY <1>3, <1>4, PassedSteps

\* limit is set when takeLocked begins and reset with the selection.
LEMMA LimitSteps ==
    ASSUME [Next]_vars
    PROVE  \/ limit' = limit
           \/ limit' = 0 /\ selected' = <<>>
           \/ \E r \in Readers : ReadTake(r)
<1> USE DEF takeVars
<1>1. ASSUME NEW r \in Readers, ReadStep(r)
      PROVE  limit' = limit \/ (limit' = 0 /\ selected' = <<>>) \/ ReadTake(r)
  <2>1. ASSUME ReadClosed(r) \/ ReadTopUp(r) \/ FillSkip(r) \/ FillStart(r) \/ ScanBatch(r)
               \/ ScanError(r) \/ MergeStart(r) \/ MergeRecord(r) \/ MergeDone(r)
        PROVE  limit' = limit
    BY <2>1, Zenon DEF ReadClosed, ReadTopUp, FillSkip, FillStart, ScanBatch, ScanError,
                       MergeStart, MergeRecord, MergeDone
  <2>2. ASSUME NEW receipt \in Receipts, NEW q \in retries, TakeRetry(r, q, receipt)
        PROVE  limit' = limit
    BY <2>2, Zenon DEF TakeRetry
  <2>3. ASSUME NEW receipt \in Receipts, TakeFresh(r, receipt) PROVE limit' = limit
    BY <2>3, Zenon DEF TakeFresh
  <2>4. ASSUME TakeNoReceipt(r) \/ RollbackOne(r) \/ WaitOver(r) \/ Park(r) \/ WakeSignal(r)
               \/ WakeTimer(r) \/ WakeContext(r)
        PROVE  limit' = limit
    BY <2>4, Zenon DEF TakeNoReceipt, RollbackOne, WaitOver, Park, WakeSignal, WakeTimer,
                       WakeContext
  <2>5. ASSUME RollbackDone(r) \/ TakeDone(r) \/ TakeNone(r)
        PROVE  limit' = 0 /\ selected' = <<>>
    BY <2>5, Zenon DEF RollbackDone, TakeDone, TakeNone, Unlock
  <2> QED BY <1>1, <2>1, <2>2, <2>3, <2>4, <2>5, Zenon DEF ReadStep
<1>2. ASSUME Complete PROVE limit' = limit
  BY <1>2, Zenon DEF Complete, Commit, DeadLetter, Release, Retry, Extend, Reject
<1>3. ASSUME \/ \E n \in 1..MaxBatch : AppendBatch(n)
             \/ \E r \in Readers : Cancel(r) \/ \E n \in Counts : StartRead(r, n)
             \/ Notify \/ Snapshot \/ Tick \/ Close \/ UNCHANGED vars
      PROVE  limit' = limit
  BY <1>3 DEF AppendBatch, Cancel, StartRead, Notify, Snapshot, Tick, Close, vars
<1> QED BY <1>1, <1>2, <1>3 DEF Next

\* Fewer leases, and the selection as before or over.
LEMMA FlightsShrink ==
    ASSUME CountFacts, TypeOK, LaneConsistency, BoundInv, DOMAIN inFlight' \subseteq DOMAIN inFlight,
           \/ selected' = selected /\ limit' = limit
           \/ selected' = <<>> /\ limit' = 0
    PROVE  /\ Len(selected') <= limit'
           /\ Cardinality(DOMAIN inFlight') + limit' <= MaxInFlight + Len(selected')
<1> DEFINE S == DOMAIN inFlight
           T == DOMAIN inFlight'
<1>1. IsFiniteSet(S) /\ T \in SUBSET S
  BY CountTypes
<1> HIDE DEF S, T
<1>2. Cardinality(T) <= Cardinality(S) /\ Cardinality(T) \in Nat
  BY <1>1, CountSubset, CountType, Zenon
<1>3. /\ Cardinality(S) \in Nat /\ Len(selected) \in Nat /\ limit \in Int /\ MaxInFlight \in Nat
      /\ Len(selected) <= limit /\ Cardinality(S) + limit <= MaxInFlight + Len(selected)
  BY CountTypes DEF BoundInv, S
<1>4. Cardinality(T) + limit' <= MaxInFlight + Len(selected') /\ Len(selected') <= limit'
  BY <1>2, <1>3
<1> QED BY <1>4 DEF T

\* takeLocked leases no more than the slots it found free.
LEMMA FlightsLease ==
    ASSUME CountFacts, TypeOK, LaneConsistency, BoundInv, NEW item, NEW lane, NEW receipt,
           receipt \notin DOMAIN inFlight, Lease(item, lane, receipt),
           Len(selected) < limit, limit' = limit
    PROVE  /\ Len(selected') <= limit'
           /\ Cardinality(DOMAIN inFlight') + limit' <= MaxInFlight + Len(selected')
<1> DEFINE S == DOMAIN inFlight
           T == DOMAIN inFlight'
<1>1. T = S \cup {receipt} /\ receipt \notin S /\ Len(selected') = Len(selected) + 1
  BY DEF Lease, TypeOK
<1>2. /\ IsFiniteSet(S) /\ Cardinality(S) \in Nat /\ Len(selected) \in Nat /\ limit \in Int
      /\ MaxInFlight \in Nat /\ Cardinality(S) + limit <= MaxInFlight + Len(selected)
  BY CountTypes DEF BoundInv
<1> HIDE DEF S, T
<1>3. Cardinality(T) = Cardinality(S) + 1
  BY <1>1, <1>2, CountAdd, Zenon
<1>4. Cardinality(T) + limit' <= MaxInFlight + Len(selected') /\ Len(selected') <= limit'
  BY <1>1, <1>2, <1>3
<1> QED BY <1>4 DEF T

\* Rollback gives back a slot with each selection it undoes.
LEMMA FlightsRollback ==
    ASSUME CountFacts, TypeOK, LaneConsistency, SelectionInv, BoundInv, NEW r \in Readers, RollbackOne(r)
    PROVE  /\ Len(selected') <= limit'
           /\ Cardinality(DOMAIN inFlight') + limit' <= MaxInFlight + Len(selected')
<1> DEFINE S == DOMAIN inFlight
           T == DOMAIN inFlight'
           x == selected[Len(selected)].receipt
<1>1. /\ selected \in Seq(Selection) /\ Len(selected) \in Nat \ {0}
      /\ Len(selected) \in DOMAIN selected
  BY DEF RollbackOne, TypeOK
<1>2. /\ T = S \ {x} /\ x \in S /\ limit' = limit
      /\ selected' = SubSeq(selected, 1, Len(selected) - 1)
  BY <1>1 DEF RollbackOne, Restrict, SelectionInv
<1>3. Len(selected') = Len(selected) - 1
  <2> DEFINE n == Len(selected)
  <2>1. n \in Nat \ {0} /\ selected' = SubSeq(selected, 1, n - 1) /\ DOMAIN selected = 1..n
    BY <1>1, <1>2
  <2> HIDE DEF n
  <2>2. Len(selected') = n - 1
    BY <1>1, <2>1
  <2> QED BY <2>2 DEF n
<1>4. /\ IsFiniteSet(S) /\ Cardinality(S) \in Nat /\ Len(selected) \in Nat /\ limit \in Int
      /\ MaxInFlight \in Nat /\ Cardinality(S) + limit <= MaxInFlight + Len(selected)
      /\ Len(selected) <= limit
  BY CountTypes DEF BoundInv
<1> HIDE DEF S, T, x
<1>5. Cardinality(T) = Cardinality(S) - 1
  BY <1>2, <1>4, CountRemove, Zenon
<1>6. Cardinality(T) + limit' <= MaxInFlight + Len(selected') /\ Len(selected') <= limit'
  BY <1>2, <1>3, <1>4, <1>5
<1> QED BY <1>6 DEF T

\* takeLocked finds a number of free slots that is not negative.
LEMMA FlightsTake ==
    ASSUME CountFacts, TypeOK, LaneConsistency, BoundInv, NEW r \in Readers, ReadTake(r)
    PROVE  /\ Len(selected') <= limit'
           /\ Cardinality(DOMAIN inFlight') + limit' <= MaxInFlight + Len(selected')
<1> DEFINE S == DOMAIN inFlight
           T == DOMAIN Live
<1>1. IsFiniteSet(S) /\ T \in SUBSET S
  BY CountTypes, SweepType
<1>2. /\ Cardinality(S) \in Nat /\ Len(selected) \in Nat /\ limit \in Int /\ MaxInFlight \in Nat
      /\ Len(selected) <= limit /\ Cardinality(S) + limit <= MaxInFlight + Len(selected)
  BY CountTypes DEF BoundInv
<1>3. /\ limit' = IF count[r] > MaxInFlight - Cardinality(T) THEN MaxInFlight - Cardinality(T)
                  ELSE count[r]
      /\ selected' = <<>> /\ inFlight' = Live /\ count[r] \in Nat
  BY DEF ReadTake, expireLocked, TypeOK
<1>4. DOMAIN inFlight' = T
  BY <1>3
<1> HIDE DEF S, T
<1>5. Cardinality(T) <= Cardinality(S) /\ Cardinality(T) \in Nat
  BY <1>1, CountSubset, CountType, Zenon
<1>6. Cardinality(T) + limit' <= MaxInFlight + Len(selected') /\ Len(selected') <= limit'
  BY <1>2, <1>3, <1>5
<1> QED BY <1>4, <1>6, Zenon

\* Every step keeps the in-flight table within its limit.
LEMMA BoundFlights ==
    ASSUME CountFacts, IInv, BoundInv, [Next]_vars
    PROVE  /\ Len(selected') <= limit'
           /\ Cardinality(DOMAIN inFlight') + limit' <= MaxInFlight + Len(selected')
<1>1. TypeOK /\ LockInv /\ LaneConsistency /\ SelectionInv
  BY DEF IInv
<1>2. CASE \E r \in Readers : ReadTake(r)
  BY <1>1, <1>2, FlightsTake
<1>3. CASE \E r \in Readers : RollbackOne(r)
  BY <1>1, <1>3, FlightsRollback
<1>4. ASSUME NEW r \in Readers, NEW receipt \in Receipts,
             TakeFresh(r, receipt) \/ \E q \in retries : TakeRetry(r, q, receipt)
      PROVE  /\ Len(selected') <= limit'
             /\ Cardinality(DOMAIN inFlight') + limit' <= MaxInFlight + Len(selected')
  <2>1. /\ receipt \notin DOMAIN inFlight /\ Len(selected) < limit /\ limit' = limit
        /\ \E item : \E lane \in {"fresh", "retry"} : Lease(item, lane, receipt)
    <3>1. CASE TakeFresh(r, receipt)
      BY <3>1 DEF TakeFresh, MoreToTake
    <3>2. CASE \E q \in retries : TakeRetry(r, q, receipt)
      BY <3>2 DEF TakeRetry, MoreToTake
    <3> QED BY <1>4, <3>1, <3>2, Zenon
  <2> QED BY <1>1, <2>1, FlightsLease
<1>5. ASSUME DOMAIN inFlight' \subseteq DOMAIN inFlight, selected' \in {selected, <<>>},
             selected = <<>> \/ selected' = selected \/ limit' = 0,
             limit' = limit \/ (limit' = 0 /\ selected' = <<>>)
      PROVE  /\ Len(selected') <= limit'
             /\ Cardinality(DOMAIN inFlight') + limit' <= MaxInFlight + Len(selected')
  BY <1>1, <1>5, FlightsShrink
<1>6. CASE LaneFrame \/ \E r \in Readers : TakeDone(r) \/ MergeRecord(r)
  <2>1. /\ DOMAIN inFlight' \subseteq DOMAIN inFlight
        /\ selected' = selected \/ (selected' = <<>> /\ limit' = 0)
    BY <1>6, Zenon DEF LaneFrame, laneVars, TakeDone, Unlock, MergeRecord, takeVars
  <2> QED BY <1>2, <1>5, <2>1, LimitSteps, Zenon
<1>7. ASSUME \/ SweepOnly \/ Tick
             \/ \E D \in SUBSET issued : Release(D) \/ Retry(D)
             \/ \E D \in SUBSET issued, e \in Extensions : Extend(D, e)
      PROVE  /\ Len(selected') <= limit'
             /\ Cardinality(DOMAIN inFlight') + limit' <= MaxInFlight + Len(selected')
  <2>1. mu = NoReader /\ selected' \in {selected, <<>>}
    BY <1>7, Zenon DEF SweepOnly, Tick, Release, Retry, Extend, Accepted, takeVars
  <2>2. selected = <<>> /\ selected' = <<>>
    BY <1>1, <2>1, NoSelection
  <2>3. DOMAIN inFlight' \subseteq DOMAIN inFlight
    <3>1. DOMAIN Live \subseteq DOMAIN inFlight
      BY <1>1, SweepType
    <3> QED BY <1>7, <3>1, Zenon DEF SweepOnly, expireLocked, Tick, Release, Retry, Extend, Restrict
  <2> QED BY <1>2, <1>5, <2>2, <2>3, LimitSteps
<1> QED BY <1>1, <1>3, <1>4, <1>6, <1>7, LaneSteps, Zenon

\* Only a new scan reserves room; merging a record frees its place.
LEMMA ReservedSteps ==
    ASSUME TypeOK, LockInv, [Next]_vars
    PROVE  /\ \/ Reserved' \in Nat /\ Reserved' <= Reserved
              \/ \E r \in Readers : FillStart(r)
           /\ \A r \in Readers : MergeRecord(r) => Reserved' = Reserved - 1
<1>1. /\ Reserved \in Nat /\ scan \in Scan /\ scan.free \in Nat
      /\ scan.records \in Seq(Seqs) /\ Len(scan.records) \in Nat
  BY DEF Reserved, TypeOK, Scan
<1>2. ASSUME scan' = scan PROVE Reserved' \in Nat /\ Reserved' <= Reserved
  BY <1>1, <1>2 DEF Reserved
<1>3. ASSUME \/ StreamFrame \/ Notify \/ \E n \in 1..MaxBatch : AppendBatch(n)
             \/ \E D \in SUBSET issued : Release(D)
      PROVE  Reserved' \in Nat /\ Reserved' <= Reserved
  BY <1>2, <1>3, Zenon DEF StreamFrame, Notify, AppendBatch, Release, scanVars
<1>4. ASSUME NEW r \in Readers, ScanBatch(r) PROVE Reserved' \in Nat /\ Reserved' <= Reserved
  <2>1. PICK batch \in Batches :
          IsBatch(batch) /\ scan' = [scan EXCEPT !.phase = "scanned", !.records = batch]
    BY <1>4, Zenon DEF ScanBatch
  <2>2. scan.phase = "scan" /\ scan'.phase = "scanned" /\ scan'.records = batch
    BY <1>1, <1>4, <2>1, Zenon DEF ScanBatch, Scan
  <2>3. Len(batch) <= scan.free /\ Len(batch) \in Nat
    <3>1. PICK n \in 0..PrefetchCapacity : batch \in [1..n -> Seqs]
      BY <2>1 DEF Batches
    <3>2. batch \in Seq(Seqs)
      BY <3>1, ConfigAssumption
    <3> QED BY <2>1, <3>2 DEF IsBatch
  <2> QED BY <2>2, <2>3 DEF Reserved
<1>5. ASSUME NEW r \in Readers, ScanError(r) \/ MergeDone(r)
      PROVE  Reserved' \in Nat /\ Reserved' <= Reserved
  <2>1. scan'.phase = "none" /\ scan'.records = <<>>
    BY <1>5 DEF ScanError, MergeDone, NoScan
  <2> QED BY <1>1, <2>1, SMTT(20) DEF Reserved
<1>6. ASSUME NEW r \in Readers, MergeStart(r) PROVE Reserved' \in Nat /\ Reserved' <= Reserved
  <2>1. scan.phase = "scanned" /\ scan'.phase = "merge" /\ scan'.records = scan.records
    BY <1>1, <1>6 DEF MergeStart, Scan
  <2> QED BY <1>1, <2>1 DEF Reserved
<1>7. ASSUME NEW r \in Readers, MergeRecord(r)
      PROVE  Reserved' \in Nat /\ Reserved' <= Reserved /\ Reserved' = Reserved - 1
  <2>1. /\ scan.phase = "merge" /\ scan'.phase = "merge" /\ scan.records # <<>>
        /\ scan'.records = Tail(scan.records)
    BY <1>1, <1>7 DEF MergeRecord, LockInv, Scan
  <2>2. Len(scan'.records) = Len(scan.records) - 1 /\ Len(scan.records) > 0
    BY <1>1, <2>1
  <2> QED BY <1>1, <2>1, <2>2 DEF Reserved
<1> QED BY <1>3, <1>4, <1>5, <1>6, <1>7, StreamSteps

\* A selection moves a place of the fresh lane, a rollback gives it back.
LEMMA FreshTakenSteps ==
    ASSUME CountFacts, TypeOK, LaneConsistency, NEW r \in Readers,
           \/ RollbackOne(r)
           \/ \E receipt \in Receipts : TakeFresh(r, receipt)
           \/ \E receipt \in Receipts, q \in retries : TakeRetry(r, q, receipt)
    PROVE  /\ Cardinality(FreshTaken') \in Nat
           /\ Len(fresh') + Cardinality(FreshTaken') = Len(fresh) + Cardinality(FreshTaken)
<1> DEFINE n == Len(selected)
<1>1. /\ IsFiniteSet(FreshTaken) /\ Cardinality(FreshTaken) \in Nat
      /\ n \in Nat /\ DOMAIN selected = 1..n /\ Len(fresh) \in Nat
      /\ selected \in Seq(Selection) /\ fresh \in Seq(Seqs)
  BY CountTypes DEF TypeOK
<1>2. ASSUME NEW item, NEW lane \in {"fresh", "retry"}, NEW receipt \in Receipts,
             Lease(item, lane, receipt)
      PROVE  Cardinality(FreshTaken') = Cardinality(FreshTaken) + IF lane = "fresh" THEN 1 ELSE 0
  <2>1. PICK new : selected' = Append(selected, new) /\ new.lane = lane
    BY <1>2, SMTT(20) DEF Lease
  <2>2. /\ DOMAIN selected' = 1..(n + 1) /\ selected'[n + 1] = new
        /\ \A i \in 1..n : selected'[i] = selected[i]
    BY <1>1, <2>1, SelectedAppended, Zenon
  <2>3. n + 1 \notin FreshTaken /\ 1..(n + 1) = (1..n) \cup {n + 1}
    <3>1. n + 1 \notin 1..n /\ 1..(n + 1) = (1..n) \cup {n + 1}
      BY <1>1, NextNumber, Zenon
    <3> QED BY <1>1, <3>1, Zenon DEF FreshTaken
  <2> HIDE DEF n
  <2>4. CASE lane = "fresh"
    <3>1. FreshTaken' = FreshTaken \cup {n + 1}
      BY <1>1, <2>1, <2>2, <2>3, <2>4 DEF FreshTaken
    <3>2. Cardinality(FreshTaken') = Cardinality(FreshTaken) + 1
      BY <1>1, <2>3, <3>1, CountAdd, Zenon
    <3> QED BY <2>4, <3>2
  <2>5. CASE lane = "retry"
    <3>1. FreshTaken' = FreshTaken
      BY <1>1, <2>1, <2>2, <2>3, <2>5, Zenon DEF FreshTaken
    <3> QED BY <1>1, <2>5, <3>1
  <2> QED BY <2>4, <2>5, Zenon
<1>3. ASSUME NEW receipt \in Receipts, TakeFresh(r, receipt)
      PROVE  /\ Cardinality(FreshTaken') \in Nat
             /\ Len(fresh') + Cardinality(FreshTaken') = Len(fresh) + Cardinality(FreshTaken)
  <2>1. Cardinality(FreshTaken') = Cardinality(FreshTaken) + 1
    BY <1>2, <1>3, Zenon DEF TakeFresh
  <2>2. fresh # <<>> /\ fresh' = Tail(fresh)
    BY <1>3 DEF TakeFresh, FreshReady
  <2>3. Len(fresh') = Len(fresh) - 1
    BY <1>1, <2>2
  <2> QED BY <1>1, <2>1, <2>3, SMTT(20)
<1>4. ASSUME NEW receipt \in Receipts, NEW q \in retries, TakeRetry(r, q, receipt)
      PROVE  /\ Cardinality(FreshTaken') \in Nat
             /\ Len(fresh') + Cardinality(FreshTaken') = Len(fresh) + Cardinality(FreshTaken)
  <2>1. Cardinality(FreshTaken') = Cardinality(FreshTaken) + 0
    BY <1>2, <1>4 DEF TakeRetry
  <2>2. fresh' = fresh
    BY <1>4 DEF TakeRetry
  <2> QED BY <1>1, <2>1, <2>2
<1>5. CASE RollbackOne(r)
  <2> DEFINE last == selected[n]
  <2>1. /\ n \in Nat \ {0} /\ n \in DOMAIN selected /\ last \in Selection
        /\ selected' = SubSeq(selected, 1, n - 1)
        /\ \/ last.lane = "retry" /\ fresh' = fresh
           \/ last.lane = "fresh" /\ fresh' = PushFront(last.seq)
    <3>1. /\ selected # <<>> /\ selected' = SubSeq(selected, 1, n - 1)
          /\ \/ last.lane = "retry" /\ fresh' = fresh
             \/ last.lane = "fresh" /\ fresh' = PushFront(last.seq)
      BY <1>5, Zenon DEF RollbackOne
    <3> QED BY <1>1, <3>1, SelectedDropped, Zenon
  <2>2. DOMAIN selected' = 1..(n - 1) /\ \A i \in 1..(n - 1) : selected'[i] = selected[i]
    <3>1. selected # <<>>
      BY <1>5, Zenon DEF RollbackOne
    <3> QED BY <1>1, <2>1, <3>1, SelectedDropped, Zenon
  <2>3. last.seq \in Seqs /\ last = selected[n]
    BY <2>1, Zenon DEF Selection
  <2> HIDE DEF n, last
  <2>4. FreshTaken' = FreshTaken \ {n} /\ (n \in FreshTaken <=> last.lane = "fresh")
    BY <1>1, <2>1, <2>2, <2>3 DEF FreshTaken
  <2>5. Cardinality(FreshTaken') =
          IF n \in FreshTaken THEN Cardinality(FreshTaken) - 1 ELSE Cardinality(FreshTaken)
    BY <1>1, <2>4, CountRemove, Zenon
  <2>6. /\ IsFiniteSet(FreshTaken \ {n})
        /\ Cardinality(FreshTaken') \in Nat
    BY <1>1, <2>4, CountRemove, CountType, Zenon
  <2>7. CASE last.lane = "fresh"
    <3>1. Len(fresh') = Len(fresh) + 1
      BY <1>1, <2>1, <2>3, <2>7 DEF PushFront
    <3> QED BY <1>1, <2>4, <2>5, <2>6, <2>7, <3>1, SMTT(20)
  <2>8. CASE last.lane # "fresh"
    <3>1. fresh' = fresh
      BY <2>1, <2>8
    <3> QED BY <1>1, <2>4, <2>5, <2>6, <2>8, <3>1, Zenon
  <2> QED BY <2>7, <2>8, Zenon
<1> QED BY <1>3, <1>4, <1>5, Zenon

\* Every step keeps room in the fresh lane for what the scan has read.
LEMMA BoundFresh ==
    ASSUME CountFacts, IInv, BoundInv, [Next]_vars
    PROVE  Len(fresh') + Cardinality(FreshTaken') + Reserved' <= PrefetchCapacity
<1>1. TypeOK /\ LockInv /\ LaneConsistency
  BY DEF IInv
<1>2. /\ Cardinality(FreshTaken) \in Nat /\ Len(fresh) \in Nat /\ Reserved \in Nat
      /\ PrefetchCapacity \in Nat
      /\ Len(fresh) + Cardinality(FreshTaken) + Reserved <= PrefetchCapacity
  BY <1>1, CountTypes DEF BoundInv
<1>3. ASSUME selected' = <<>> PROVE Cardinality(FreshTaken') = 0
  <2>1. FreshTaken' = {}
    BY <1>3 DEF FreshTaken
  <2> QED BY <2>1, CountEmpty, Zenon
<1>4. ASSUME NEW r \in Readers, FillStart(r)
      PROVE  Len(fresh') + Cardinality(FreshTaken') + Reserved' <= PrefetchCapacity
  <2>1. /\ mu = NoReader /\ fresh' = fresh /\ selected' = selected /\ Len(fresh) < PrefetchCapacity
        /\ scan'.phase = "scan" /\ scan'.free = PrefetchCapacity - Len(fresh)
    BY <1>4 DEF FillStart, NoScan, laneVars, takeVars
  <2>2. Reserved' = PrefetchCapacity - Len(fresh)
    BY <2>1 DEF Reserved
  <2>3. selected' = <<>>
    BY <1>1, <2>1, NoSelection
  <2>4. Cardinality(FreshTaken') = 0
    BY <1>3, <2>3
  <2> QED BY <1>2, <2>1, <2>2, <2>4
<1>5. ASSUME Reserved' \in Nat, Reserved' <= Reserved, fresh' = fresh,
             selected' \in {selected, <<>>}
      PROVE  Len(fresh') + Cardinality(FreshTaken') + Reserved' <= PrefetchCapacity
  <2>1. Cardinality(FreshTaken') = Cardinality(FreshTaken) \/ Cardinality(FreshTaken') = 0
    <3>1. CASE selected' = selected
      <4>1. FreshTaken' = FreshTaken
        BY <3>1 DEF FreshTaken
      <4> QED BY <4>1, Zenon
    <3> QED BY <1>3, <1>5, <3>1
  <2> QED BY <1>2, <1>5, <2>1
<1>6. ASSUME NEW r \in Readers, MergeRecord(r)
      PROVE  Len(fresh') + Cardinality(FreshTaken') + Reserved' <= PrefetchCapacity
  <2>1. selected' = selected /\ (fresh' = fresh \/ fresh' = Append(fresh, Head(scan.records)))
    BY <1>6 DEF MergeRecord, takeVars
  <2>2. Head(scan.records) \in Seqs
    BY <1>1, <1>6 DEF MergeRecord, TypeOK, Scan
  <2>3. Len(fresh') <= Len(fresh) + 1 /\ Len(fresh') \in Nat
    BY <1>1, <1>2, <2>1, <2>2 DEF TypeOK
  <2>4. FreshTaken' = FreshTaken
    BY <2>1 DEF FreshTaken
  <2>5. Cardinality(FreshTaken') = Cardinality(FreshTaken)
    BY <2>4, Zenon
  <2>6. Reserved' = Reserved - 1
    BY <1>1, <1>6, ReservedSteps
  <2> QED BY <1>2, <2>3, <2>5, <2>6
<1>7. ASSUME NEW r \in Readers,
             \/ RollbackOne(r)
             \/ \E receipt \in Receipts : TakeFresh(r, receipt)
             \/ \E receipt \in Receipts, q \in retries : TakeRetry(r, q, receipt)
      PROVE  Len(fresh') + Cardinality(FreshTaken') + Reserved' <= PrefetchCapacity
  <2>1. scan' = scan
    BY <1>7, Zenon DEF RollbackOne, TakeFresh, TakeRetry, scanVars
  <2>2. Reserved' = Reserved
    BY <2>1 DEF Reserved
  <2>3. Len(fresh') + Cardinality(FreshTaken') = Len(fresh) + Cardinality(FreshTaken)
    BY <1>1, <1>7, FreshTakenSteps
  <2> QED BY <1>2, <2>2, <2>3, Zenon
<1>8. CASE LaneFrame \/ \E r \in Readers : TakeDone(r)
  <2>1. fresh' = fresh /\ selected' \in {selected, <<>>}
    BY <1>8, Zenon DEF LaneFrame, laneVars, TakeDone, Unlock
  <2> QED BY <1>1, <1>4, <1>5, <2>1, ReservedSteps
<1>9. CASE \/ SweepOnly \/ Tick
           \/ \E D \in SUBSET issued : Release(D) \/ Retry(D)
           \/ \E D \in SUBSET issued, e \in Extensions : Extend(D, e)
  <2>1. fresh' = fresh /\ selected' \in {selected, <<>>}
    BY <1>9, Zenon DEF SweepOnly, expireLocked, Tick, Release, Retry, Extend, takeVars
  <2> QED BY <1>1, <1>4, <1>5, <2>1, ReservedSteps
<1> QED BY <1>1, <1>6, <1>7, <1>8, <1>9, LaneSteps, Zenon

-----------------------------------------------------------------------------
(***************************************************************************)
(* The theorems.                                                           *)
(***************************************************************************)
INSTANCE FiniteSetTheorems

\* What the steps rely on of finite sets is so.
LEMMA FiniteHolds == FiniteFacts
BY FS_Interval, FS_Injection, FS_CardinalityType, FS_Subset DEF FiniteFacts

\* So is what the limits rely on.
LEMMA CountsHold == CountFacts
<1>1. \A A, x : IsFiniteSet(A) =>
        /\ IsFiniteSet(A \cup {x}) /\ IsFiniteSet(A \ {x})
        /\ Cardinality(A \cup {x}) = IF x \in A THEN Cardinality(A) ELSE Cardinality(A) + 1
        /\ Cardinality(A \ {x}) = IF x \in A THEN Cardinality(A) - 1 ELSE Cardinality(A)
  BY FS_AddElement, FS_RemoveElement, Zenon
<1>2. \A A, B, f : IsFiniteSet(A) /\ f \in Bijection(A, B) =>
        IsFiniteSet(B) /\ Cardinality(B) = Cardinality(A)
  BY FS_Bijection, Zenon DEF ExistsBijection
<1>3. \A A, B : IsFiniteSet(A) /\ IsFiniteSet(B) =>
        Cardinality(A \cup B) = Cardinality(A) + Cardinality(B) - Cardinality(A \cap B)
  BY FS_Union, Zenon
<1>4. \A A : IsFiniteSet(A) => \A B \in SUBSET A : Cardinality(B) <= Cardinality(A)
  BY FS_Subset, Zenon
<1> QED BY <1>1, <1>2, <1>3, <1>4, FiniteHolds, FS_EmptySet, Zenon DEF CountFacts

\* The inductive invariant holds throughout, whatever readers, writers,
\* completions, faults, Close and the clock do.
THEOREM Invariant == Spec => []IInv
<1>1. IInv /\ [Next]_vars => IInv'
  BY InvStep, FiniteHolds
<1> QED BY <1>1, InvInit, PTL DEF Spec

\* Every field of the dispatcher keeps its type: no lease deadline, cursor or
\* attempt number leaves its range.
THEOREM TypeCorrect == Spec => []TypeOK
<1>1. IInv => TypeOK
  BY DEF IInv
<1> QED BY <1>1, Invariant, PTL

\* No record is ever in two lanes, twice in one, or under two receipts.
THEOREM LanesCorrect == Spec => []LaneConsistency
<1>1. IInv => LaneConsistency
  BY DEF IInv
<1> QED BY <1>1, Invariant, PTL

\* The dispatcher skips no pending record and tracks no deleted one, so the
\* persist callback of an accepted completion never meets a missing record.
THEOREM NoRecordLost == Spec => []NothingLost
<1>1. IInv => NothingLost
  BY DEF IInv
<1> QED BY <1>1, Invariant, PTL

\* An accepted delivery holds a lease that is not over: the watermark never
\* lets expireLocked skip a lease that is due.
THEOREM LateRefused == Spec => []NoLateCompletion
<1>1. Init => WatermarkInv
  BY DEF Init, WatermarkInv, NoFlights
<1>2. IInv /\ WatermarkInv /\ [Next]_vars => WatermarkInv'
  BY WatermarkStep DEF IInv
<1>3. IInv /\ WatermarkInv => NoLateCompletion
  <2> SUFFICES ASSUME TypeOK, WatermarkInv, NEW d \in issued, Valid(d)
               PROVE  inFlight[d.receipt].deadline > 0
    BY DEF IInv, NoLateCompletion
  <2>1. d.receipt \in DOMAIN inFlight /\ d.receipt \notin Due
    BY SweepType DEF Valid
  <2>2. expireAt \in Nat /\ inFlight[d.receipt].deadline \in Nat
    BY <2>1, BoundAssumption DEF TypeOK, Flight, FarFuture
  <2> QED BY <2>1, <2>2 DEF Due, WatermarkInv
<1> QED BY <1>1, <1>2, <1>3, Invariant, PTL DEF Spec

\* Attempts are numbered without gaps and, below saturation, never reused,
\* whatever expires, is retried, extended or rolled back.
THEOREM AttemptsCorrect == Spec => []AttemptsContiguous
BY Invariant, AttemptInit, AttemptStep, PTL DEF Spec

\* A delivery that has lost its lease never regains one: only takeLocked makes
\* a lease, and it makes an attempt yet to be made.
THEOREM StaleForGood == Spec => StaleStaysStale
<1>1. IInv /\ AttemptInv /\ [Next]_vars =>
        [\A d \in issued : d.attempt < MaxAttempt /\ ~Holds(d) => ~Holds(d)']_vars
  BY StaleStep
<1> QED BY <1>1, Invariant, AttemptInit, AttemptStep, PTL DEF Spec, StaleStaysStale

\* First deliveries follow sequence order, whatever selections are rolled back
\* and whatever is appended, retried or completed meanwhile.
THEOREM FirstInOrder == Spec => []FirstDeliveryInOrder
<1>1. Init => OrderInv
  BY DEF Init, OrderInv, FirstDeliveryInOrder
<1>2. OrderInv => FirstDeliveryInOrder
  BY DEF OrderInv
<1> QED BY <1>1, <1>2, Invariant, AttemptInit, AttemptStep, OrderStep, PTL DEF Spec

\* While scanEmpty stops the scan, a record ahead of the cursor has yet to be
\* announced or is being merged: no append that races with a scan is hidden.
THEOREM AppendsSeen == Spec => []NoHiddenAppend
<1>1. Init => NoHiddenAppend
  BY DEF Init, NoHiddenAppend
<1> QED BY <1>1, Invariant, HiddenStep, PTL DEF Spec

\* No interleaving of scans, sweeps, retries, rollbacks and completions makes a
\* lane exceed its limit, and takeLocked never finds fewer than no slots free.
THEOREM LimitsHold == Spec => []Bounded
<1>1. Init => BoundInv
  <2> SUFFICES ASSUME Init PROVE BoundInv
    OBVIOUS
  <2>1. /\ FreshTaken = {} /\ PassedSeqs = {} /\ DOMAIN inFlight = {}
        /\ Reserved = 0 /\ Len(fresh) = 0 /\ Len(selected) = 0 /\ limit = 0
    BY DEF Init, FreshTaken, PassedSeqs, Passed, NoFlights, Reserved, NoScan
  <2>2. /\ Cardinality(FreshTaken) = 0 /\ Cardinality(PassedSeqs) = 0
        /\ Cardinality(DOMAIN inFlight) = 0
    BY <2>1, FS_EmptySet, Zenon
  <2> QED BY <2>1, <2>2, ConfigAssumption DEF BoundInv
<1>2. IInv /\ BoundInv /\ [Next]_vars => BoundInv'
  BY CountsHold, BoundFresh, BoundFlights, BoundPassed DEF BoundInv
<1>3. IInv /\ BoundInv => Bounded
  BY CountsHold, BoundInvBounds DEF IInv
<1> QED BY <1>1, <1>2, <1>3, Invariant, PTL DEF Spec

=============================================================================
