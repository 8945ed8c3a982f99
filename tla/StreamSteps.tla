----------------------------- MODULE StreamSteps ----------------------------
(***************************************************************************)
(* How the steps of the log look to the dispatcher it is composed of, and  *)
(* to the callers it makes its promise to.                                 *)
(***************************************************************************)
EXTENDS Stream, TLAPS

-----------------------------------------------------------------------------
(***************************************************************************)
(* What the log relies on.                                                 *)
(***************************************************************************)
\* No delivery of the dispatcher so far has this record and this attempt,
\* unless attempts are no longer counted.
Unused(s, a) == a < MaxAttempt => \A d \in Issued : d.seq = s => d.attempt # a

\* Of the dispatcher: its lanes agree and lose nothing, what takeLocked has
\* selected is in flight, and whatever it may lease next is a new attempt.
LeaseFacts ==
    /\ D!TypeOK /\ D!LaneConsistency /\ D!NothingLost
    /\ \A i \in DOMAIN selected :
         /\ selected[i].receipt \in DOMAIN inFlight
         /\ inFlight[selected[i].receipt].seq = selected[i].seq
         /\ inFlight[selected[i].receipt].attempt = selected[i].attempt
         /\ Unused(selected[i].seq, selected[i].attempt)
    /\ \A q \in retries : Unused(q.seq, q.attempt)
    /\ \A i \in DOMAIN fresh, d \in Issued : d.seq # fresh[i]

\* Of the store: its tail covers what was stored, one call at a time is under
\* way, and the locals of that call are what it computed under the mutex.
StoreFacts ==
    /\ S!TypeOK /\ S!Conserved
    /\ \A s \in DOMAIN pending \cup DOMAIN written : s <= tailKey
    /\ \A c \in Callers : pc[c] # "idle" <=> mu = c
    /\ \A c \in Callers :
         /\ pc[c] \in {"append", "requeue"} => tail = tailKey
         /\ pc[c] = "append" =>
              /\ call.newTail = tail + Len(call.payloads)
              /\ \A i \in DOMAIN call.payloads : call.payloads[i] \notin S!PayloadsOf(written)
         /\ pc[c] = "requeue" => call.newTail = tail + 1
         /\ pc[c] = "written" =>
              \A i \in DOMAIN call.payloads : call.payloads[i] \in S!PayloadsOf(written)

\* A delivery as a caller has it.
Delivery == [payload : Payloads, owner : Nat, seq : S!Seqs, attempt : D!Attempts,
             receipt : Receipts]

\* The callers whose records are stored and who have yet to call Notify.
Announcing == {c \in Callers : pc[c] = "written" \/ notifying[c]}

\* Of the callers: who is about to notify is in no call of the store.
CallInv ==
    /\ handle \in Nat /\ notifying \in [Callers -> BOOLEAN]
    /\ \A c \in Callers : notifying[c] => pc[c] = "idle"
    /\ \A c \in Callers : pc[c] = "append" => Len(call.payloads) \in 1..MaxBatch
    /\ IsFiniteSet(Announcing)

\* Of the deliveries: each names a record that was stored at its position, what
\* has completed is no longer pending, and what the store counts as committed
\* was completed by a delivery.
HandedInv ==
    /\ handed \subseteq Delivery /\ IsFiniteSet(handed)
    /\ \A h \in handed :
         /\ h.owner <= handle /\ h.seq <= tailKey
         /\ h.payload \in S!PayloadsOf(written)
         /\ h.seq \in DOMAIN pending => pending[h.seq].payload = h.payload
    /\ completed \subseteq {Lease(h) : h \in handed}
    /\ \A l \in completed : l.position \notin DOMAIN pending
    /\ done \subseteq {l.payload : l \in completed}

LogInv == CallInv /\ HandedInv

\* Of finite sets, as FiniteSetTheorems has it.
FiniteFacts ==
    /\ IsFiniteSet({}) /\ Cardinality({}) = 0
    /\ \A A : IsFiniteSet(A) => Cardinality(A) \in Nat /\ (Cardinality(A) = 0 <=> A = {})
    /\ \A A, x : IsFiniteSet(A) =>
         /\ IsFiniteSet(A \cup {x})
         /\ x \notin A => Cardinality(A \cup {x}) = Cardinality(A) + 1
    /\ \A A : IsFiniteSet(A) => \A B \in SUBSET A : IsFiniteSet(B)
    /\ \A A, B : IsFiniteSet(A) /\ IsFiniteSet(B) => IsFiniteSet(A \cup B)
    /\ \A A, f : IsFiniteSet(A) =>
         /\ IsFiniteSet({f[x] : x \in A})
         /\ Cardinality({f[x] : x \in A}) <= Cardinality(A)
    /\ \A n \in Nat : IsFiniteSet(1..n)

\* The image of a finite set.
LEMMA FiniteImage ==
    ASSUME FiniteFacts, NEW A, NEW f, IsFiniteSet(A)
    PROVE  IsFiniteSet({f[x] : x \in A}) /\ Cardinality({f[x] : x \in A}) <= Cardinality(A)
<1>1. \A B, g : IsFiniteSet(B) =>
        /\ IsFiniteSet({g[x] : x \in B})
        /\ Cardinality({g[x] : x \in B}) <= Cardinality(B)
  BY Zenon DEF FiniteFacts
<1> QED BY <1>1, Zenon

-----------------------------------------------------------------------------
(***************************************************************************)
(* Leases.                                                                 *)
(***************************************************************************)
\* A record is pending at one position only.
LEMMA OnePosition ==
    ASSUME S!Conserved, NEW s \in DOMAIN pending, NEW t \in DOMAIN pending,
           pending[s].payload = pending[t].payload
    PROVE  s = t
<1>1. S!IsInjective(S!Payload(pending))
  BY DEF S!Conserved
<1>2. /\ DOMAIN S!Payload(pending) = DOMAIN pending
      /\ \A x \in DOMAIN pending : S!Payload(pending)[x] = pending[x].payload
  BY DEF S!Payload
<1> QED BY <1>1, <1>2 DEF S!IsInjective

\* A record in flight is pending, and in flight under one receipt.
LEMMA FlightFacts ==
    ASSUME LeaseFacts, NEW x \in DOMAIN inFlight
    PROVE  /\ inFlight[x].seq \in DOMAIN pending /\ inFlight[x].seq \in D!Seqs
           /\ \A y \in DOMAIN inFlight : inFlight[y].seq = inFlight[x].seq => y = x
<1>1. inFlight[x].seq \in D!Seqs
  BY DEF LeaseFacts, D!TypeOK, D!Flight
<1>2. states[inFlight[x].seq] = "inflight"
  BY <1>1 DEF LeaseFacts, D!LaneConsistency, D!LanesAgree
<1>3. inFlight[x].seq \in DOMAIN pending
  BY <1>1, <1>2 DEF LeaseFacts, D!NothingLost
<1>4. \A y \in DOMAIN inFlight : inFlight[y].seq = inFlight[x].seq => y = x
  BY DEF LeaseFacts, D!LaneConsistency, D!LanesAgree
<1> QED BY <1>1, <1>3, <1>4

\* The live leases, point by point.
LEMMA LiveForm ==
    /\ \A l : l \in LiveLeases <=>
                \E h \in handed : h.owner = handle /\ D!Holds(Inner(h)) /\ l = Lease(h)
    /\ \A h : D!Holds(Inner(h)) <=>
                /\ h.receipt \in DOMAIN inFlight
                /\ inFlight[h.receipt].seq = h.seq
                /\ inFlight[h.receipt].attempt = h.attempt
BY DEF LiveLeases, D!Holds, Inner

\* The live leases after a step.
LEMMA LiveNext ==
    \A l : l \in LiveLeases' <=>
             \E h \in handed' : /\ h.owner = handle' /\ h.receipt \in DOMAIN inFlight'
                              /\ inFlight'[h.receipt].seq = h.seq
                              /\ inFlight'[h.receipt].attempt = h.attempt
                              /\ l = Lease(h)
BY DEF LiveLeases, D!Holds, Inner, Lease

\* A delivery that holds its lease names a pending record by its payload.
LEMMA HeldPending ==
    ASSUME LeaseFacts, LogInv, NEW h \in handed, D!Holds(Inner(h))
    PROVE  h.seq \in DOMAIN pending /\ pending[h.seq].payload = h.payload
<1>1. h.receipt \in DOMAIN inFlight /\ inFlight[h.receipt].seq = h.seq
  BY LiveForm
<1>2. h.seq \in DOMAIN pending
  BY <1>1, FlightFacts
<1> QED BY <1>2 DEF LogInv, CallInv, HandedInv

\* No lease begins in the step: what is in flight was in flight.
Shrinking ==
    \A x \in DOMAIN inFlight' :
      /\ x \in DOMAIN inFlight
      /\ inFlight'[x].seq = inFlight[x].seq /\ inFlight'[x].attempt = inFlight[x].attempt

\* A sweep begins no lease, nor does what follows it in a call.
LEMMA SweepShrinks ==
    /\ DOMAIN D!Live \subseteq DOMAIN inFlight
    /\ \A x \in DOMAIN D!Live : D!Live[x] = inFlight[x]
BY DEF D!Live, D!Restrict

\* Read in progress leases a record, returns what it leased, or begins no
\* lease and hands out nothing.
LEMMA ReadCases ==
    ASSUME NEW r \in Readers, D!ReadStep(r)
    PROVE  \/ Shrinking /\ Issued' = Issued
           \/ \E receipt \in Receipts : D!TakeFresh(r, receipt)
           \/ \E receipt \in Receipts, q \in retries : D!TakeRetry(r, q, receipt)
           \/ D!TakeDone(r)
<1> USE DEF Shrinking, D!laneVars
<1>1. CASE D!ReadTopUp(r) \/ D!ReadTake(r)
  BY <1>1, SweepShrinks DEF D!ReadTopUp, D!ReadTake, D!expireLocked
<1>2. CASE D!RollbackOne(r)
  BY <1>2 DEF D!RollbackOne, D!Restrict
<1>3. CASE D!ReadClosed(r) \/ D!TakeNoReceipt(r) \/ D!RollbackDone(r) \/ D!TakeNone(r)
  BY <1>3, Zenon DEF D!ReadClosed, D!TakeNoReceipt, D!RollbackDone, D!TakeNone
<1>4. CASE \/ D!FillSkip(r) \/ D!FillStart(r) \/ D!ScanBatch(r) \/ D!ScanError(r)
           \/ D!MergeStart(r) \/ D!MergeRecord(r) \/ D!MergeDone(r)
  BY <1>4, Zenon DEF D!FillSkip, D!FillStart, D!ScanBatch, D!ScanError, D!MergeStart,
              D!MergeRecord, D!MergeDone
<1>5. CASE \/ D!WaitOver(r) \/ D!Park(r) \/ D!WakeSignal(r) \/ D!WakeTimer(r)
           \/ D!WakeContext(r)
  BY <1>5 DEF D!WaitOver, D!Park, D!WakeSignal, D!WakeTimer, D!WakeContext
<1> HIDE DEF Shrinking
<1> QED BY <1>1, <1>2, <1>3, <1>4, <1>5, Zenon DEF D!ReadStep

\* What a step that leases a record does to the table of leases.
Leasing(s, a, receipt) ==
    /\ receipt \notin DOMAIN inFlight
    /\ DOMAIN inFlight' = DOMAIN inFlight \cup {receipt}
    /\ inFlight'[receipt].seq = s /\ inFlight'[receipt].attempt = a
    /\ \A x \in DOMAIN inFlight : inFlight'[x] = inFlight[x]

\* takeLocked leases a pending record that is not in flight, for an attempt
\* that is new.
LEMMA TakeLeases ==
    ASSUME LeaseFacts, NEW r \in Readers, NEW receipt \in Receipts,
           D!TakeFresh(r, receipt) \/ \E q \in retries : D!TakeRetry(r, q, receipt)
    PROVE  /\ Issued' = Issued
           /\ \E s \in DOMAIN pending, a \in D!Attempts :
                /\ Leasing(s, a, receipt) /\ Unused(s, a)
                /\ \A x \in DOMAIN inFlight : inFlight[x].seq # s
<1>0. D!TypeOK /\ D!LaneConsistency /\ D!NothingLost
  BY DEF LeaseFacts
<1>1. ASSUME D!TakeFresh(r, receipt)
      PROVE  /\ Issued' = Issued
             /\ \E s \in DOMAIN pending, a \in D!Attempts :
                  /\ Leasing(s, a, receipt) /\ Unused(s, a)
                  /\ \A x \in DOMAIN inFlight : inFlight[x].seq # s
  <2> DEFINE s == Head(fresh)
  <2>1. fresh \in Seq(D!Seqs) /\ fresh # <<>>
    BY <1>0, <1>1 DEF D!TypeOK, D!TakeFresh, D!FreshReady
  <2>2. 1 \in DOMAIN fresh /\ s = fresh[1] /\ s \in D!Seqs
    BY <2>1
  <2>3. states[s] = "fresh"
    BY <1>0, <2>2 DEF D!LaneConsistency, D!LanesAgree
  <2>4. s \in DOMAIN pending
    BY <1>0, <2>2, <2>3 DEF D!NothingLost
  <2>5. \A x \in DOMAIN inFlight : inFlight[x].seq # s
    BY <1>0, <2>2, <2>3, Zenon DEF D!LaneConsistency, D!LanesAgree
  <2>6. Leasing(s, 1, receipt) /\ Issued' = Issued
    BY <1>1 DEF D!TakeFresh, D!Lease, Leasing
  <2>7. Unused(s, 1) /\ 1 \in D!Attempts
    BY <2>2, DispatcherAssumption DEF LeaseFacts, Unused, D!Attempts
  <2> HIDE DEF s
  <2> QED BY <2>4, <2>5, <2>6, <2>7, Zenon
<1>2. ASSUME NEW q \in retries, D!TakeRetry(r, q, receipt)
      PROVE  /\ Issued' = Issued
             /\ \E s \in DOMAIN pending, a \in D!Attempts :
                  /\ Leasing(s, a, receipt) /\ Unused(s, a)
                  /\ \A x \in DOMAIN inFlight : inFlight[x].seq # s
  <2>1. q.seq \in D!Seqs /\ q.attempt \in D!Attempts
    BY <1>0 DEF D!TypeOK, D!Queued
  <2>3. states[q.seq] = "retry"
    BY <1>0, <2>1 DEF D!LaneConsistency, D!LanesAgree
  <2>4. q.seq \in DOMAIN pending
    BY <1>0, <2>1, <2>3 DEF D!NothingLost
  <2>5. \A x \in DOMAIN inFlight : inFlight[x].seq # q.seq
    BY <1>0, <2>1, <2>3, Zenon DEF D!LaneConsistency, D!LanesAgree
  <2>6. Leasing(q.seq, q.attempt, receipt) /\ Issued' = Issued
    BY <1>2 DEF D!TakeRetry, D!Lease, Leasing
  <2>7. Unused(q.seq, q.attempt)
    BY DEF LeaseFacts
  <2> QED BY <2>1, <2>4, <2>5, <2>6, <2>7
<1> QED BY <1>1, <1>2

-----------------------------------------------------------------------------
(***************************************************************************)
(* The deliveries handed to callers.                                       *)
(***************************************************************************)
Selected == {wrap(selected[i]) : i \in DOMAIN selected}

\* The step of Read as the log sees it.
ReadLog ==
    /\ handed' \in {handed, handed \cup Selected}
    /\ UNCHANGED <<storeVars, handle, notifying, completed>>

\* What takeLocked has selected: well formed, pending, and in flight.
LEMMA SelectedFacts ==
    ASSUME LeaseFacts, S!TypeOK, handle \in Nat, NEW i \in DOMAIN selected
    PROVE  /\ selected[i].seq \in DOMAIN pending
           /\ wrap(selected[i]) \in Delivery
           /\ D!Holds(Inner(wrap(selected[i])))
           /\ \A j \in DOMAIN selected : selected[j].seq = selected[i].seq =>
                /\ selected[j].receipt = selected[i].receipt
                /\ selected[j].attempt = selected[i].attempt
<1>1. /\ selected[i].receipt \in DOMAIN inFlight
      /\ inFlight[selected[i].receipt].seq = selected[i].seq
      /\ inFlight[selected[i].receipt].attempt = selected[i].attempt
  BY DEF LeaseFacts
<1>2. selected[i].seq \in DOMAIN pending
  BY <1>1, FlightFacts
<1>3. selected[i] \in D!Selection
  BY DEF LeaseFacts, D!TypeOK
<1>4. pending[selected[i].seq].payload \in Payloads
  BY <1>2 DEF S!TypeOK, S!Keys, S!Envelope
<1>5. wrap(selected[i]) \in Delivery
  BY <1>3, <1>4 DEF wrap, Delivery, D!Selection, D!Seqs, S!Seqs
<1>6. D!Holds(Inner(wrap(selected[i])))
  BY <1>1, Zenon DEF wrap, Inner, D!Holds
<1>7. ASSUME NEW j \in DOMAIN selected, selected[j].seq = selected[i].seq
      PROVE  /\ selected[j].receipt = selected[i].receipt
             /\ selected[j].attempt = selected[i].attempt
  <2>1. /\ selected[j].receipt \in DOMAIN inFlight
        /\ inFlight[selected[j].receipt].seq = selected[j].seq
        /\ inFlight[selected[j].receipt].attempt = selected[j].attempt
    BY DEF LeaseFacts
  <2>2. selected[j].receipt = selected[i].receipt
    BY <1>1, <1>7, <2>1, FlightFacts
  <2> QED BY <1>1, <2>1, <2>2
<1> QED BY <1>2, <1>5, <1>6, <1>7

\* A delivery that the dispatcher has issued before is one the caller has.
LEMMA HandedAlready ==
    ASSUME LeaseFacts, LogInv, S!TypeOK, NEW i \in DOMAIN selected,
           Inner(wrap(selected[i])) \in Issued
    PROVE  wrap(selected[i]) \in handed
<1> DEFINE w == wrap(selected[i])
<1>1. PICK h \in handed : h.owner = handle /\ Inner(w) = Inner(h)
  BY DEF Issued
<1>2. h.seq = w.seq /\ h.attempt = w.attempt /\ h.receipt = w.receipt
  BY <1>1 DEF Inner
<1>3. w.seq = selected[i].seq /\ w.owner = handle /\ w.payload = pending[w.seq].payload
  BY DEF wrap
<1>4. w \in Delivery /\ w.seq \in DOMAIN pending
  BY <1>3, SelectedFacts DEF LogInv, CallInv, HandedInv
<1>5. h.payload = w.payload
  BY <1>2, <1>3, <1>4 DEF LogInv, CallInv, HandedInv
<1>6. h \in Delivery
  BY DEF LogInv, CallInv, HandedInv
<1> HIDE DEF w
<1>7. h = w
  BY <1>1, <1>2, <1>3, <1>4, <1>5, <1>6 DEF Delivery
<1> QED BY <1>7 DEF w

\* Read hands out deliveries in the step that issues them, and in no other.
LEMMA HandedSteps ==
    ASSUME LeaseFacts, LogInv, S!TypeOK, ReadLog
    PROVE  /\ Issued' = Issued => handed' = handed
           /\ \A r \in Readers : D!TakeDone(r) => handed' = handed \cup Selected
<1>1. handle' = handle
  BY DEF ReadLog
<1>2. ASSUME \A i \in DOMAIN selected : Inner(wrap(selected[i])) \in Issued
      PROVE  handed \cup Selected = handed
  BY <1>2, HandedAlready DEF Selected
<1>3. ASSUME Issued' = Issued PROVE handed' = handed
  <2>1. CASE handed' = handed \cup Selected
    <3>1. ASSUME NEW i \in DOMAIN selected PROVE Inner(wrap(selected[i])) \in Issued
      <4>1. wrap(selected[i]) \in handed' /\ wrap(selected[i]).owner = handle'
        BY <1>1, <2>1 DEF Selected, wrap
      <4>2. Inner(wrap(selected[i])) \in Issued'
        BY <4>1 DEF Issued, Inner
      <4> QED BY <1>3, <4>2
    <3> QED BY <1>2, <2>1, <3>1
  <2> QED BY <2>1 DEF ReadLog
<1>4. ASSUME NEW r \in Readers, D!TakeDone(r) PROVE handed' = handed \cup Selected
  <2>1. CASE handed' = handed
    <3>1. Issued' = Issued
      BY <1>1, <2>1 DEF Issued, Inner
    <3>2. ASSUME NEW i \in DOMAIN selected PROVE Inner(wrap(selected[i])) \in Issued
      BY <1>4, <3>1 DEF D!TakeDone, Inner, wrap
    <3> QED BY <1>2, <2>1, <3>2
  <2> QED BY <2>1 DEF ReadLog
<1> QED BY <1>3, <1>4

-----------------------------------------------------------------------------
(***************************************************************************)
(* The promise: leases lapse, and are given.                               *)
(***************************************************************************)
Given == {Lease(h) : h \in handed}

\* What the promise is about, apart from the leases, stays as it is.
PromiseFrame == UNCHANGED <<pending, dead, acked, completed>>

\* A step that begins no lease and hands out nothing lets leases lapse.
LEMMA LapseStep ==
    ASSUME Shrinking, PromiseFrame, UNCHANGED <<handed, handle>>
    PROVE  P!Lapse
<1>1. ASSUME NEW l \in LiveLeases' PROVE l \in LiveLeases
  <2>1. PICK h \in handed' :
             /\ h.owner = handle' /\ h.receipt \in DOMAIN inFlight'
             /\ inFlight'[h.receipt].seq = h.seq /\ inFlight'[h.receipt].attempt = h.attempt
             /\ l = Lease(h)
    BY LiveNext
  <2>3. D!Holds(Inner(h))
    BY <2>1, LiveForm DEF Shrinking
  <2> QED BY <2>1, <2>3, LiveForm
<1>2. LiveLeases' \subseteq LiveLeases
  BY <1>1
<1>3. UNCHANGED <<S!PayloadsOf(pending), S!PayloadsOf(dead), acked, Given, completed>>
  BY DEF PromiseFrame, Given, Lease, S!PayloadsOf
<1> QED BY <1>2, <1>3 DEF P!Lapse, Given

\* A new handle gives its leases anew: every lease of the old one lapses.
LEMMA LapseRestart ==
    ASSUME LogInv, PromiseFrame, handed' = handed, handle' = handle + 1
    PROVE  P!Lapse
<1>1. \A h \in handed' : h.owner # handle'
  BY DEF LogInv, CallInv, HandedInv, Delivery
<1>2. LiveLeases' = {}
  BY <1>1, LiveNext
<1>3. UNCHANGED <<S!PayloadsOf(pending), S!PayloadsOf(dead), acked, Given, completed>>
  BY DEF PromiseFrame, Given, Lease, S!PayloadsOf
<1> QED BY <1>2, <1>3 DEF P!Lapse, Given

\* takeLocked may draw a receipt again when attempts are no longer counted:
\* the delivery that had it before holds the lease, which counts as given.
LEMMA DeliverTake ==
    ASSUME LeaseFacts, LogInv, S!Conserved, PromiseFrame, UNCHANGED <<handed, handle>>,
           NEW s \in DOMAIN pending, NEW a \in D!Attempts, NEW receipt \in Receipts,
           Leasing(s, a, receipt), Unused(s, a),
           \A x \in DOMAIN inFlight : inFlight[x].seq # s
    PROVE  P!Deliver(LiveLeases' \ LiveLeases)
<1> DEFINE L == LiveLeases' \ LiveLeases
           lease == [payload |-> pending[s].payload, position |-> s, owner |-> handle,
                     attempt |-> a]
<1>1. ASSUME NEW l \in LiveLeases PROVE l \in LiveLeases' /\ l.payload # pending[s].payload
  <2>1. PICK h \in handed : h.owner = handle /\ D!Holds(Inner(h)) /\ l = Lease(h)
    BY LiveForm
  <2>2. /\ h.receipt \in DOMAIN inFlight /\ inFlight[h.receipt].seq = h.seq
        /\ inFlight[h.receipt].attempt = h.attempt
    BY <2>1, LiveForm
  <2>4. l \in LiveLeases'
    BY <2>1, <2>2, LiveNext, Zenon DEF Leasing
  <2>5. h.seq \in DOMAIN pending /\ pending[h.seq].payload = h.payload /\ h.seq # s
    BY <2>1, <2>2, HeldPending, Zenon
  <2>6. l.payload = h.payload
    BY <2>1, Zenon DEF Lease
  <2> QED BY <2>4, <2>5, <2>6, OnePosition, Zenon
<1>2. ASSUME NEW l \in L
      PROVE  l = lease /\ l \in Given /\ l.attempt = MaxAttempt
  <2>1. PICK h \in handed :
             /\ h.owner = handle /\ h.receipt \in DOMAIN inFlight'
             /\ inFlight'[h.receipt].seq = h.seq /\ inFlight'[h.receipt].attempt = h.attempt
             /\ l = Lease(h)
    BY LiveNext, Zenon
  <2>3. CASE h.receipt # receipt
    <3>1. D!Holds(Inner(h))
      BY <2>1, <2>3, LiveForm, Zenon DEF Leasing
    <3> QED BY <2>1, <3>1, LiveForm, Zenon
  <2>4. CASE h.receipt = receipt
    <3>1. h.seq = s /\ h.attempt = a
      BY <2>1, <2>4, Zenon DEF Leasing
    <3>2. h.payload = pending[s].payload
      BY <3>1 DEF LogInv, CallInv, HandedInv
    <3>3. l = lease /\ l.attempt = a
      BY <2>1, <3>1, <3>2, Zenon DEF Lease
    <3>4. Inner(h) \in Issued /\ Inner(h).seq = s /\ Inner(h).attempt = a
      BY <2>1, <3>1, Zenon DEF Issued, Inner
    <3>5. a = MaxAttempt
      BY <3>4, DispatcherAssumption, SMTT(20) DEF Unused, D!Attempts
    <3> QED BY <2>1, <3>3, <3>5, Zenon DEF Given
  <2> QED BY <2>3, <2>4, Zenon
<1>3. P!Of(L) \subseteq S!PayloadsOf(pending) \ P!Of(LiveLeases)
  <2>1. \A l \in L : l.payload = pending[s].payload
    BY <1>2
  <2>2. pending[s].payload \in S!PayloadsOf(pending)
    BY DEF S!PayloadsOf
  <2>3. pending[s].payload \notin P!Of(LiveLeases)
    BY <1>1 DEF P!Of
  <2> HIDE DEF L
  <2> QED BY <2>1, <2>2, <2>3, Zenon DEF P!Of
<1>4. LiveLeases' = LiveLeases \cup L
  BY <1>1
<1>5. UNCHANGED <<S!PayloadsOf(pending), S!PayloadsOf(dead), acked, Given, completed>>
  BY DEF PromiseFrame, Given, Lease, S!PayloadsOf
<1>6. Given' = Given \cup L
  BY <1>2, <1>5
<1>7. \A l, m \in L : l = m /\ l.attempt = MaxAttempt
  BY <1>2
<1> HIDE DEF L
<1> QED BY <1>3, <1>4, <1>5, <1>6, <1>7, Zenon DEF P!Deliver, Given, L

\* Read returns: the leases it hands out are new, unless attempts are no longer
\* counted, and nobody else holds a lease on their records.
LEMMA DeliverReturn ==
    ASSUME LeaseFacts, LogInv, S!TypeOK, S!Conserved, PromiseFrame,
           handle' = handle, inFlight' = inFlight, handed' = handed \cup Selected
    PROVE  P!Deliver(LiveLeases' \ LiveLeases)
<1> DEFINE L == LiveLeases' \ LiveLeases
           lease(i) == Lease(wrap(selected[i]))
<1>0. handle \in Nat
  BY Zenon DEF LogInv, CallInv, HandedInv
<1>1. ASSUME NEW i \in DOMAIN selected
      PROVE  /\ lease(i) \in LiveLeases' /\ selected[i].seq \in DOMAIN pending
             /\ lease(i) = [payload |-> pending[selected[i].seq].payload,
                            position |-> selected[i].seq, owner |-> handle,
                            attempt |-> selected[i].attempt]
  <2>1. wrap(selected[i]) \in handed' /\ wrap(selected[i]).owner = handle
    BY Zenon DEF Selected, wrap
  <2>2. D!Holds(Inner(wrap(selected[i]))) /\ selected[i].seq \in DOMAIN pending
    BY <1>0, SelectedFacts, Zenon
  <2>3. lease(i) \in LiveLeases'
    BY <2>1, <2>2, LiveForm, LiveNext, Zenon
  <2> QED BY <2>2, <2>3, Zenon DEF Lease, wrap
<1> HIDE DEF lease
<1>2. LiveLeases \subseteq LiveLeases'
  BY LiveForm, LiveNext
<1>3. ASSUME NEW l \in L PROVE \E i \in DOMAIN selected : l = lease(i)
  <2>1. PICK h \in handed' :
             /\ h.owner = handle' /\ h.receipt \in DOMAIN inFlight'
             /\ inFlight'[h.receipt].seq = h.seq /\ inFlight'[h.receipt].attempt = h.attempt
             /\ l = Lease(h)
    BY LiveNext
  <2>2. h \notin handed
    BY <2>1, LiveForm, Zenon
  <2> QED BY <2>1, <2>2 DEF Selected, lease
<1>4. ASSUME NEW l \in L, l \in Given PROVE l.attempt = MaxAttempt
  <2>1. PICK i \in DOMAIN selected : l = lease(i)
    BY <1>3
  <2>2. PICK h \in handed : l = Lease(h)
    BY <1>4 DEF Given
  <2>3. h.owner = handle /\ h.seq = selected[i].seq /\ h.attempt = selected[i].attempt
    <3>1. l.owner = handle /\ l.position = selected[i].seq /\ l.attempt = selected[i].attempt
      BY <1>1, <2>1
    <3>2. l.owner = h.owner /\ l.position = h.seq /\ l.attempt = h.attempt
      BY <2>2 DEF Lease
    <3> QED BY <3>1, <3>2
  <2>4. Inner(h) \in Issued /\ Inner(h).seq = h.seq /\ Inner(h).attempt = h.attempt
    BY <2>3 DEF Issued, Inner
  <2>5. Unused(selected[i].seq, selected[i].attempt)
    BY DEF LeaseFacts
  <2>6. selected[i].attempt \in D!Attempts
    <3>1. selected[i] \in D!Selection
      BY SMTT(20) DEF LeaseFacts, D!TypeOK
    <3> QED BY <3>1 DEF D!Selection
  <2>7. selected[i].attempt = MaxAttempt
    BY <2>3, <2>4, <2>5, <2>6, DispatcherAssumption, SMTT(20) DEF Unused, D!Attempts
  <2> QED BY <1>1, <2>1, <2>7
<1>5. ASSUME NEW l \in L, NEW m \in LiveLeases', l.payload = m.payload PROVE l = m
  <2>1. PICK i \in DOMAIN selected : l = lease(i)
    BY <1>3
  <2>2. PICK g \in handed' :
             /\ g.owner = handle' /\ g.receipt \in DOMAIN inFlight
             /\ inFlight[g.receipt].seq = g.seq /\ inFlight[g.receipt].attempt = g.attempt
             /\ m = Lease(g)
    BY LiveNext
  <2>3. g.seq \in DOMAIN pending /\ pending[g.seq].payload = g.payload
    <3>1. CASE g \in handed
      BY <2>2, <3>1, LiveForm, HeldPending, Zenon
    <3>2. CASE g \in Selected
      <4>1. PICK j \in DOMAIN selected : g = wrap(selected[j])
        BY <3>2, Zenon DEF Selected
      <4>2. g.seq = selected[j].seq /\ g.payload = pending[selected[j].seq].payload
        BY <4>1, Zenon DEF wrap
      <4> QED BY <1>1, <4>2
    <3> QED BY <3>1, <3>2, Zenon
  <2>4. g.seq = selected[i].seq
    BY <1>1, <1>5, <2>1, <2>2, <2>3, OnePosition, SMTT(20) DEF Lease
  <2>5. /\ selected[i].receipt \in DOMAIN inFlight
        /\ inFlight[selected[i].receipt].seq = selected[i].seq
        /\ inFlight[selected[i].receipt].attempt = selected[i].attempt
    BY Zenon DEF LeaseFacts
  <2>6. g.receipt = selected[i].receipt
    BY <2>2, <2>4, <2>5, FlightFacts, Zenon
  <2>7. g.attempt = selected[i].attempt
    BY <2>2, <2>5, <2>6, Zenon
  <2> QED BY <1>1, <2>1, <2>2, <2>3, <2>4, <2>7, Zenon DEF Lease
<1>6. P!Of(L) \subseteq S!PayloadsOf(pending) \ P!Of(LiveLeases)
  <2>1. ASSUME NEW l \in L
        PROVE  l.payload \in S!PayloadsOf(pending) /\ l.payload \notin P!Of(LiveLeases)
    <3>1. l.payload \in S!PayloadsOf(pending)
      BY <1>1, <1>3 DEF S!PayloadsOf
    <3>2. \A m \in LiveLeases : m.payload # l.payload
      BY <1>2, <1>5
    <3> QED BY <3>1, <3>2, Zenon DEF P!Of
  <2> HIDE DEF L
  <2> QED BY <2>1 DEF P!Of
<1>7. LiveLeases' = LiveLeases \cup L
  BY <1>2
<1>8. Given' = Given \cup L
  <2>1. LiveLeases \subseteq Given
    BY LiveForm DEF Given
  <2>2. Given' = Given \cup {lease(i) : i \in DOMAIN selected}
    BY DEF Given, Selected, Lease, lease
  <2> QED BY <1>1, <1>3, <2>1, <2>2
<1>9. UNCHANGED <<S!PayloadsOf(pending), S!PayloadsOf(dead), acked, completed>>
  BY DEF PromiseFrame, S!PayloadsOf
<1>10. \A l, m \in L : l.payload = m.payload => l = m
  BY <1>5
<1> HIDE DEF L
<1> QED BY <1>4, <1>6, <1>7, <1>8, <1>9, <1>10, Zenon DEF P!Deliver, Given, L

-----------------------------------------------------------------------------
(***************************************************************************)
(* The promise: deliveries complete.                                       *)
(***************************************************************************)
\* The records of a completed call leave the pending ones; nothing else does.
Removed(H) ==
    /\ DOMAIN pending' = DOMAIN pending \ {h.seq : h \in H}
    /\ \A s \in DOMAIN pending' : pending'[s] = pending[s]

\* What a completed call of deliveries H does to the table of leases.
Releasing(H) ==
    /\ \A h \in H : h.owner = handle /\ D!Holds(Inner(h))
    /\ Shrinking
    /\ \A h \in H : h.receipt \notin DOMAIN inFlight'

\* A completed call had the leases of its deliveries, none of which completed
\* before; it ends them, and its records are the ones that are delivered no more.
LEMMA CompleteSteps ==
    ASSUME LeaseFacts, LogInv, S!Conserved, NEW H \in SUBSET handed,
           Removed(H), Releasing(H), UNCHANGED <<handed, handle>>,
           completed' = completed \cup {Lease(h) : h \in H}
    PROVE  /\ completed' \ completed = {Lease(h) : h \in H}
           /\ {Lease(h) : h \in H} \subseteq LiveLeases
           /\ LiveLeases' \subseteq LiveLeases \ {Lease(h) : h \in H}
           /\ S!PayloadsOf(pending') =
                S!PayloadsOf(pending) \ P!Of({Lease(h) : h \in H})
           /\ Given' = Given
<1> DEFINE L == {Lease(h) : h \in H}
<1>1. ASSUME NEW h \in H
      PROVE  /\ h.seq \in DOMAIN pending /\ pending[h.seq].payload = h.payload
             /\ h.receipt \in DOMAIN inFlight /\ inFlight[h.receipt].seq = h.seq
             /\ Lease(h) \in LiveLeases /\ Lease(h) \notin completed
  <2>1. h.owner = handle /\ D!Holds(Inner(h))
    BY Zenon DEF Releasing
  <2>2. h.seq \in DOMAIN pending /\ pending[h.seq].payload = h.payload
    BY <2>1, HeldPending, Zenon
  <2>3. Lease(h).position = h.seq
    BY DEF Lease
  <2>4. Lease(h) \notin completed
    BY <2>2, <2>3, Zenon DEF LogInv, CallInv, HandedInv
  <2> QED BY <2>1, <2>2, <2>4, LiveForm, Zenon
<1>2. completed' \ completed = L /\ L \subseteq LiveLeases
  BY <1>1
<1>3. ASSUME NEW l \in LiveLeases' PROVE l \in LiveLeases /\ l \notin L
  <2>1. PICK g \in handed :
             /\ g.owner = handle /\ g.receipt \in DOMAIN inFlight'
             /\ inFlight'[g.receipt].seq = g.seq /\ inFlight'[g.receipt].attempt = g.attempt
             /\ l = Lease(g)
    BY LiveNext, Zenon
  <2>2. /\ g.receipt \in DOMAIN inFlight /\ inFlight[g.receipt].seq = g.seq
        /\ inFlight[g.receipt].attempt = g.attempt
    BY <2>1, Zenon DEF Releasing, Shrinking
  <2>3. l \in LiveLeases
    BY <2>1, <2>2, LiveForm, Zenon
  <2>4. ASSUME NEW h \in H, l = Lease(h) PROVE FALSE
    <3>1. h.seq = g.seq
      BY <2>1, <2>4, SMTT(20) DEF Lease
    <3>2. h.receipt = g.receipt
      BY <1>1, <2>2, <3>1, FlightFacts, SMTT(20)
    <3> QED BY <2>1, <3>2, Zenon DEF Releasing
  <2> QED BY <2>3, <2>4, Zenon
<1>4. P!Of(L) = {h.payload : h \in H}
  <2>1. \A h \in H : Lease(h).payload = h.payload
    BY DEF Lease
  <2>2. \A p : p \in P!Of(L) <=> \E h \in H : p = Lease(h).payload
    BY Zenon DEF P!Of
  <2> QED BY <2>1, <2>2
<1>5. S!PayloadsOf(pending') = S!PayloadsOf(pending) \ {h.payload : h \in H}
  <2>1. ASSUME NEW s \in DOMAIN pending', NEW h \in H, pending'[s].payload = h.payload
        PROVE  FALSE
    <3>1. s \in DOMAIN pending /\ pending[s].payload = h.payload /\ s # h.seq
      BY <2>1 DEF Removed
    <3> QED BY <1>1, <3>1, OnePosition, Zenon
  <2>2. ASSUME NEW s \in DOMAIN pending, \A h \in H : pending[s].payload # h.payload
        PROVE  s \in DOMAIN pending' /\ pending'[s].payload = pending[s].payload
    BY <1>1, <2>2 DEF Removed
  <2>3. \A s \in DOMAIN pending' : s \in DOMAIN pending /\ pending'[s] = pending[s]
    BY DEF Removed
  <2> QED BY <2>1, <2>2, <2>3 DEF S!PayloadsOf
<1>6. Given' = Given
  BY DEF Given, Lease
<1>7. LiveLeases' \subseteq LiveLeases \ L
  BY <1>3, Zenon
<1> HIDE DEF L
<1>8. S!PayloadsOf(pending') = S!PayloadsOf(pending) \ P!Of(L)
  BY <1>4, <1>5
<1> QED BY <1>2, <1>6, <1>7, <1>8, Zenon DEF L

\* The dispatcher accepts a completion only from holders of leases, and ends them.
LEMMA ReleaseSteps ==
    ASSUME NEW H \in SUBSET handed, \A h \in H : unwrap(h),
           D!Release({Inner(h) : h \in H})
    PROVE  Releasing(H)
<1> DEFINE I == {Inner(h) : h \in H}
<1>1. ASSUME NEW h \in H PROVE D!Valid(Inner(h)) /\ h.receipt \in D!ReceiptsOf(I)
  <2>1. Inner(h) \in I /\ Inner(h).receipt = h.receipt
    BY Zenon DEF Inner
  <2>2. D!Accepted(I)
    BY Zenon DEF D!Release
  <2> HIDE DEF I
  <2> QED BY <2>1, <2>2, Zenon DEF D!Accepted, D!ReceiptsOf
<1>2. ASSUME NEW h \in H PROVE h.owner = handle /\ D!Holds(Inner(h))
  BY <1>1, SweepShrinks, LiveForm, Zenon DEF D!Valid, Inner, unwrap
<1> HIDE DEF I
<1>3. /\ DOMAIN inFlight' = DOMAIN D!Live \ D!ReceiptsOf(I)
      /\ \A x \in DOMAIN inFlight' : inFlight'[x] = D!Live[x]
  BY Zenon DEF D!Release, D!Restrict, I
<1>4. Shrinking
  BY <1>3, SweepShrinks DEF Shrinking
<1> QED BY <1>1, <1>2, <1>3, <1>4, Zenon DEF Releasing

\* Commit finishes the records it is called for.
LEMMA FinishCommit ==
    ASSUME LeaseFacts, LogInv, S!Conserved, NEW H \in Calls, Commit(H)
    PROVE  P!Finish(completed' \ completed)
<1> DEFINE L == {Lease(h) : h \in H}
<1>1. H \in SUBSET handed /\ \A h \in H : unwrap(h)
  BY Zenon DEF Calls
<1>2. UNCHANGED <<handed, handle, dead, acked>> /\ completed' = completed \cup L
  BY DEF Commit, S!Commit
<1>3. Releasing(H)
  BY <1>1, ReleaseSteps DEF Commit, D!Commit
<1>4. Removed(H)
  <2>1. pending' = S!Deleted(pending, {h.seq : h \in H})
    BY DEF Commit, S!Commit
  <2> QED BY <2>1 DEF Removed, S!Deleted, S!Restrict, S!Keys
<1>5. /\ completed' \ completed = L /\ L \subseteq LiveLeases
      /\ LiveLeases' \subseteq LiveLeases \ L
      /\ S!PayloadsOf(pending') = S!PayloadsOf(pending) \ P!Of(L) /\ Given' = Given
  BY <1>1, <1>2, <1>3, <1>4, CompleteSteps, Zenon
<1>6. S!PayloadsOf(dead') = S!PayloadsOf(dead)
  BY <1>2, Zenon DEF S!PayloadsOf
<1> HIDE DEF L
<1> QED BY <1>2, <1>5, <1>6, Zenon DEF P!Finish, Given

\* DeadLetter buries the record it is called for.
LEMMA BuryDeadLetter ==
    ASSUME LeaseFacts, LogInv, S!Conserved, NEW h \in handed, unwrap(h), DeadLetter(h)
    PROVE  P!Bury(Lease(h)) /\ Lease(h) \in completed'
<1> DEFINE H == {h}
<1>1. H \in SUBSET handed /\ \A g \in H : unwrap(g)
  OBVIOUS
<1>2. /\ {Lease(g) : g \in H} = {Lease(h)} /\ {Inner(g) : g \in H} = {Inner(h)}
      /\ {g.seq : g \in H} = {h.seq}
  BY Zenon
<1> HIDE DEF H
<1>3. /\ UNCHANGED <<handed, handle, acked>>
      /\ completed' = completed \cup {Lease(h)}
  BY DEF DeadLetter, S!DeadLetter, S!histVars
<1>4. Releasing(H)
  BY <1>1, <1>2, ReleaseSteps, Zenon DEF DeadLetter, D!DeadLetter
<1>5. Removed(H)
  <2>1. pending' = S!Deleted(pending, {g.seq : g \in H})
    BY <1>2, Zenon DEF DeadLetter, S!DeadLetter
  <2> QED BY <2>1 DEF Removed, S!Deleted, S!Restrict, S!Keys
<1>6. /\ Lease(h) \in LiveLeases /\ LiveLeases' \subseteq LiveLeases \ {Lease(h)}
      /\ S!PayloadsOf(pending') = S!PayloadsOf(pending) \ P!Of({Lease(h)})
      /\ Given' = Given
  BY <1>1, <1>2, <1>3, <1>4, <1>5, CompleteSteps, Zenon
<1>7. P!Of({Lease(h)}) = {Lease(h).payload} /\ Lease(h).payload = h.payload
  BY Zenon DEF P!Of, Lease
<1>8. h.seq \in DOMAIN pending /\ pending[h.seq].payload = h.payload
  <2>1. D!Holds(Inner(h))
    BY <1>4 DEF Releasing, H
  <2> QED BY <2>1, HeldPending
<1>9. S!PayloadsOf(dead') = S!PayloadsOf(dead) \cup {Lease(h).payload}
  <2>1. /\ DOMAIN dead' = DOMAIN dead \cup {h.seq} /\ h.seq \notin DOMAIN dead
        /\ \A s \in DOMAIN dead : dead'[s] = dead[s]
        /\ dead'[h.seq] = S!DeadEnvelope(h.seq)
    BY Zenon DEF DeadLetter, S!DeadLetter, S!Keys
  <2>2. dead'[h.seq].payload = h.payload
    BY <1>8, <2>1, SMTT(20) DEF S!DeadEnvelope
  <2> QED BY <1>7, <2>1, <2>2, SMTT(20) DEF S!PayloadsOf
<1> QED BY <1>3, <1>6, <1>7, <1>9 DEF P!Bury, Given

-----------------------------------------------------------------------------
(***************************************************************************)
(* The numbers the log counts with.                                        *)
(***************************************************************************)
\* The tails of the store are numbers.
LEMMA TailNumbers ==
    ASSUME StoreFacts
    PROVE  tailKey \in Nat /\ tail \in Nat /\ call.newTail \in Nat
BY SMTT(20) DEF StoreFacts, S!TypeOK, S!Call

\* A delivery has the number of the open that handed it out, and a position.
LEMMA HandedNumbers ==
    ASSUME HandedInv
    PROVE  \A h \in handed : h \in Delivery /\ h.owner \in Nat /\ h.seq \in Nat
BY DEF HandedInv, Delivery, S!Seqs

-----------------------------------------------------------------------------
(***************************************************************************)
(* The environment of the dispatcher.                                      *)
(***************************************************************************)
\* What the dispatcher does not see.
LEMMA EnvFrame ==
    ASSUME UNCHANGED dispatchVars, UNCHANGED <<handle, handed, tailKey>>,
           DOMAIN pending' = DOMAIN pending, Announcing' = Announcing
    PROVE  UNCHANGED D!vars
<1>1. Issued' = Issued
  BY DEF Issued, Inner
<1>2. UNCHANGED <<D!laneVars, D!scanVars, D!takeVars, D!readerVars, closed, preferRetry,
                  signal, dmu, scanMu>>
  BY Zenon DEF dispatchVars, D!laneVars, D!scanVars, D!takeVars, D!readerVars
<1>3. UNCHANGED D!storeVars
  BY DEF D!storeVars, Announcing
<1> QED BY <1>1, <1>2, <1>3, Zenon DEF D!vars

\* A transaction that stores the next n records is an append of n records, and
\* one more writer that has yet to call Notify.
LEMMA EnvAppend ==
    ASSUME FiniteFacts, StoreFacts, LogInv, UNCHANGED dispatchVars, UNCHANGED logVars,
           NEW c \in Callers, pc[c] \in {"append", "requeue"},
           pc' = [pc EXCEPT ![c] = "written"], NEW n \in 1..MaxBatch,
           tailKey' = tailKey + n, tailKey + n <= MaxSeq,
           DOMAIN pending' = DOMAIN pending \cup (tailKey + 1)..(tailKey + n)
    PROVE  D!AppendBatch(n)
<1>1. Issued' = Issued
  BY DEF Issued, Inner, logVars
<1>2. UNCHANGED <<D!laneVars, D!scanVars, D!takeVars, D!readerVars, closed, preferRetry,
                  signal, dmu, scanMu>>
  BY DEF dispatchVars, D!laneVars, D!scanVars, D!takeVars, D!readerVars
<1>3. c \notin Announcing /\ Announcing' = Announcing \cup {c}
  <2>1. ~notifying[c] /\ pc \in [Callers -> {"idle", "append", "requeue", "written"}]
    BY DEF LogInv, CallInv, HandedInv, StoreFacts, S!TypeOK
  <2>2. \A d \in Callers : pc'[d] = IF d = c THEN "written" ELSE pc[d]
    BY <2>1
  <2>3. notifying' = notifying
    BY DEF logVars
  <2> QED BY <2>1, <2>2, <2>3, Zenon DEF Announcing
<1>4. Cardinality(Announcing') = Cardinality(Announcing) + 1
  BY <1>3, Zenon DEF FiniteFacts, LogInv, CallInv
<1> QED BY <1>1, <1>2, <1>4, Zenon DEF D!AppendBatch, Announcing

\* Write, BatchWrite and Requeue seen by the dispatcher.
LEMMA EnvStore ==
    ASSUME FiniteFacts, StoreFacts, LogInv, NEW c \in Callers, StoreStep(c)
    PROVE  (\E n \in 1..MaxBatch : D!AppendBatch(n)) \/ UNCHANGED D!vars
<1>0. /\ UNCHANGED dispatchVars /\ UNCHANGED logVars
      /\ tailKey \in 0..MaxSeq /\ call.newTail \in 0..MaxSeq
  BY DEF StoreStep, StoreFacts, S!TypeOK, S!Call
<1>1. CASE S!AppendTxn(c)
  <2>1. /\ pc[c] = "append" /\ pc' = [pc EXCEPT ![c] = "written"]
        /\ tailKey' = call.newTail /\ DOMAIN pending' = DOMAIN pending \cup (tail + 1)..call.newTail
    BY <1>1, Zenon DEF S!AppendTxn, S!NewTailKey, S!Keys
  <2>2. /\ tail = tailKey /\ call.newTail = tailKey + Len(call.payloads)
        /\ Len(call.payloads) \in 1..MaxBatch
    BY <2>1, Zenon DEF StoreFacts, LogInv, CallInv, HandedInv
  <2>3. tailKey + Len(call.payloads) <= MaxSeq
    BY <1>0, <2>2, StoreAssumption
  <2>4. D!AppendBatch(Len(call.payloads))
    BY <1>0, <2>1, <2>2, <2>3, EnvAppend, Zenon
  <2> QED BY <2>2, <2>4, Zenon
<1>2. CASE S!RequeueTxn(c)
  <2>1. /\ pc[c] = "requeue" /\ pc' = [pc EXCEPT ![c] = "written"]
        /\ tailKey' = call.newTail /\ DOMAIN pending' = DOMAIN pending \cup {call.newTail}
    BY <1>2 DEF S!RequeueTxn, S!NewTailKey, S!Keys
  <2>2. tail = tailKey /\ call.newTail = tailKey + 1 /\ 1 \in 1..MaxBatch
    BY <2>1, StoreAssumption DEF StoreFacts
  <2>3. {call.newTail} = (tailKey + 1)..(tailKey + 1) /\ tailKey + 1 <= MaxSeq
    BY <1>0, <2>2, StoreAssumption
  <2>4. D!AppendBatch(1)
    BY <1>0, <2>1, <2>2, <2>3, EnvAppend, Zenon
  <2> QED BY <2>2, <2>4
<1>3. CASE S!TxnFail(c)
  <2>1. /\ pc[c] \in {"append", "requeue"} /\ pc' = [pc EXCEPT ![c] = "idle"]
        /\ UNCHANGED <<pending, tailKey, handle, handed, notifying>>
    BY <1>0, <1>3 DEF S!TxnFail, S!dirVars, logVars
  <2>2. \A d \in Callers : pc'[d] = IF d = c THEN "idle" ELSE pc[d]
    BY <2>1 DEF StoreFacts, S!TypeOK
  <2>3. Announcing' = Announcing
    BY <2>1, <2>2 DEF Announcing
  <2> QED BY <1>0, <2>1, <2>3, EnvFrame
<1> QED BY <1>1, <1>2, <1>3, Zenon DEF StoreStep

\* A call that stored its records has yet to notify, before it returns and after.
LEMMA EnvReturn ==
    ASSUME StoreFacts, LogInv, NEW c \in Callers, StoreReturn(c)
    PROVE  Announcing' = Announcing /\ UNCHANGED D!vars
<1>1. /\ pc[c] = "written" /\ pc' = [pc EXCEPT ![c] = "idle"]
      /\ notifying' = [notifying EXCEPT ![c] = TRUE]
      /\ UNCHANGED <<pending, tailKey, handle, handed>> /\ UNCHANGED dispatchVars
  BY Zenon DEF StoreReturn, S!Return, S!dirVars
<1>2. \A d \in Callers : /\ pc'[d] = IF d = c THEN "idle" ELSE pc[d]
                         /\ notifying'[d] = IF d = c THEN TRUE ELSE notifying[d]
  BY <1>1, Zenon DEF StoreFacts, S!TypeOK, LogInv, CallInv, HandedInv
<1>3. Announcing' = Announcing
  BY <1>1, <1>2, Zenon DEF Announcing
<1> QED BY <1>1, <1>3, EnvFrame

\* The handle opens, or a call takes the store's mutex: the dispatcher sees
\* neither.
LEMMA EnvLock ==
    ASSUME StoreFacts, LogInv,
           \/ Open
           \/ \E c \in Callers :
                \/ \E batch \in S!Batches, now \in Times : Write(c, batch, now)
                \/ \E s \in S!Seqs : Requeue(c, s)
    PROVE  Announcing' = Announcing /\ UNCHANGED D!vars
<1>1. CASE Open
  <2>1. UNCHANGED <<pending, tailKey, pc, handle, handed, notifying>> /\ UNCHANGED dispatchVars
    BY <1>1, Zenon DEF Open, S!Load, logVars
  <2>2. Announcing' = Announcing
    BY <2>1 DEF Announcing
  <2> QED BY <2>1, <2>2, EnvFrame
<1>2. ASSUME NEW c \in Callers,
             \/ \E batch \in S!Batches, now \in Times : Write(c, batch, now)
             \/ \E s \in S!Seqs : Requeue(c, s)
      PROVE  Announcing' = Announcing /\ UNCHANGED D!vars
  <2>1. /\ pc[c] = "idle" /\ pc' \in {[pc EXCEPT ![c] = "append"], [pc EXCEPT ![c] = "requeue"]}
        /\ UNCHANGED <<pending, tailKey, handle, handed, notifying>> /\ UNCHANGED dispatchVars
    BY <1>2, Zenon DEF Write, Requeue, S!AppendLock, S!RequeueLock, S!Lock, S!dirVars, logVars
  <2>2. \A d \in Callers : pc'[d] = "written" <=> pc[d] = "written"
    BY <2>1 DEF StoreFacts, S!TypeOK
  <2>3. Announcing' = Announcing
    BY <2>1, <2>2 DEF Announcing
  <2> QED BY <2>1, <2>3, EnvFrame, Zenon
<1> QED BY <1>1, <1>2

\* The deliveries a caller passes are deliveries the dispatcher has issued.
LEMMA EnvCalls ==
    ASSUME FiniteFacts, LogInv, NEW H \in Calls
    PROVE  {Inner(h) : h \in H} \in D!Calls
<1> DEFINE I == {Inner(h) : h \in H}
           f == [h \in H |-> Inner(h)]
<1>1. /\ H \in SUBSET handed /\ Cardinality(H) \in 1..MaxBatch
      /\ \A h \in H : h.owner = handle
  BY Zenon DEF Calls, unwrap
<1>2. IsFiniteSet(H) /\ H # {}
  <2>1. IsFiniteSet(handed)
    BY Zenon DEF LogInv, HandedInv
  <2>2. IsFiniteSet(H) /\ Cardinality({}) = 0
    BY <1>1, <2>1, Zenon DEF FiniteFacts
  <2>3. Cardinality(H) # 0
    BY <1>1
  <2> QED BY <2>2, <2>3, Zenon
<1>3. I = {f[h] : h \in H}
  BY Zenon
<1>4. I \in SUBSET Issued /\ I # {}
  BY <1>1, <1>2 DEF Issued
<1> HIDE DEF I, f
<1>5. IsFiniteSet(I) /\ Cardinality(I) <= Cardinality(H)
  BY <1>2, <1>3, FiniteImage, Zenon
<1>6. Cardinality(I) \in Nat /\ Cardinality(I) # 0
  BY <1>4, <1>5, Zenon DEF FiniteFacts
<1>7. Cardinality(I) \in 1..MaxBatch
  BY <1>1, <1>5, <1>6, StoreAssumption
<1>8. D!Cardinality(I) = Cardinality(I)
  BY Zenon DEF D!Cardinality, Cardinality
<1> QED BY <1>4, <1>7, <1>8 DEF D!Calls, I

\* A restart leaves the dispatcher New makes over the directory.
LEMMA EnvRestart ==
    ASSUME FiniteFacts, StoreFacts, LogInv, Restart
    PROVE  handle' # handle /\ D!Init'
<1>1. /\ handle' = handle + 1 /\ handle' # handle /\ handed' = handed
      /\ pending' = pending /\ tailKey' = tailKey
  BY SMTT(20) DEF Restart, S!Crash, S!dirVars, LogInv, CallInv, HandedInv
<1>2. Issued' = {}
  BY <1>1, SMTT(20) DEF Issued, LogInv, CallInv, HandedInv, Delivery
<1>3. Cardinality({c \in Callers : pc[c] = "written" \/ notifying[c]})' = 0
  <2>1. \A c \in Callers : pc'[c] = "idle" /\ notifying'[c] = FALSE
    BY DEF Restart, S!Crash
  <2>2. {c \in Callers : pc'[c] = "written" \/ notifying'[c]} = {}
    BY <2>1, Zenon
  <2> QED BY <2>2 DEF FiniteFacts
<1>4. tailKey' \in 0..MaxSeq /\ DOMAIN pending' \in SUBSET (1..tailKey')
  BY <1>1, StoreAssumption DEF StoreFacts, S!TypeOK, S!Keys, S!Seqs
<1>5. DispatcherNew
  BY DEF Restart
<1> QED BY <1>1, <1>2, <1>3, <1>4, <1>5, Zenon DEF DispatcherNew, FirstScan, D!Init

\* Every step of the log is a step of the dispatcher, or one it does not see,
\* or begins a new dispatcher.
LEMMA EnvStep ==
    ASSUME FiniteFacts, StoreFacts, LogInv, [Next]_vars
    PROVE  [D!Next \/ (handle' # handle /\ D!Init')]_(D!vars)
<1>1. CASE Open \/ \E c \in Callers :
             \/ \E batch \in S!Batches, now \in Times : Write(c, batch, now)
             \/ \E s \in S!Seqs : Requeue(c, s)
  BY <1>1, EnvLock
<1>2. ASSUME NEW c \in Callers, StoreStep(c) \/ StoreReturn(c) \/ Notify(c)
      PROVE  D!Next \/ UNCHANGED D!vars
  BY <1>2, EnvStore, EnvReturn DEF Notify, D!Next
<1>3. ASSUME NEW r \in Readers, ReadStep(r) \/ Cancel(r) \/ \E n \in Counts : StartRead(r, n)
      PROVE  D!Next
  BY <1>3, Zenon DEF ReadStep, Cancel, StartRead, D!Next
<1>4. ASSUME NEW H \in Calls, Commit(H) \/ Reschedule(H) PROVE D!Next
  <2>1. {Inner(h) : h \in H} \in D!Calls
    BY EnvCalls
  <2> QED BY <1>4, <2>1, Zenon DEF Commit, Reschedule, D!Complete, D!Next
<1>5. ASSUME NEW h \in handed, unwrap(h), DeadLetter(h) PROVE D!Next
  <2>1. Inner(h) \in Issued
    BY <1>5 DEF Issued, unwrap
  <2> QED BY <1>5, <2>1 DEF DeadLetter, D!Complete, D!Next
<1>6. CASE Close \/ Stats \/ Tick
  BY <1>6 DEF Close, Stats, Tick, D!Next
<1>7. CASE Restart
  BY <1>7, EnvRestart
<1>8. CASE UNCHANGED vars
  <2>1. UNCHANGED <<pending, tailKey, pc, handle, handed, notifying>> /\ UNCHANGED dispatchVars
    BY <1>8, Zenon DEF vars, storeVars, logVars
  <2>2. Announcing' = Announcing
    BY <2>1 DEF Announcing
  <2> QED BY <2>1, <2>2, EnvFrame, Zenon
<1> QED BY <1>1, <1>2, <1>3, <1>4, <1>5, <1>6, <1>7, <1>8, Zenon DEF Next

=============================================================================
