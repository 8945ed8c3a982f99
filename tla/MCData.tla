------------------------------- MODULE MCData -------------------------------
(***************************************************************************)
(* The computations of the program, each against a definition of what it   *)
(* computes, over every small input.  A behaviour is about one subject.    *)
(* Two of them go on: a retried record makes further attempts, and a       *)
(* caller goes on writing to the options it has passed to New.             *)
(***************************************************************************)
EXTENDS Backoff, Envelope, Typed, FiniteSets, FiniteSetsExt

CONSTANTS
    MaxFactor, MaxRetries,  \* bounds: multipliers, attempts
    MaxData,                \* bound: bytes of a stored value
    Alphabet, MaxName,      \* the bytes of stream names; bound: how many
    MaxItems                \* bound: items of a typed batch

ASSUME BoundAssumption ==
    /\ \A bound \in {MaxFactor, MaxRetries, MaxData, MaxName, MaxItems} : bound \in Nat
    /\ Alphabet \subseteq 0..255

VARIABLE subject

\* Keys have real bytes; sequences take two of them.
K == INSTANCE KeySpace WITH Base <- 256, Wide <- 2, Narrow <- 1

Defaults ==
    [PrefetchCapacity |-> 1, MaxInFlight |-> 1, VisibilityTimeout |-> 1,
     Initial |-> 1, Max |-> 2, Multiplier |-> 1]
O == INSTANCE Options WITH DefaultLogConfig <- Defaults

(***************************************************************************)
(* The subjects.                                                           *)
(***************************************************************************)
Backoffs ==
    {c \in [initial : 0..MaxDuration, max : 0..MaxDuration, num : 1..MaxFactor, den : 1..2] :
       ValidBackoff(c)}
Retries == [kind : {"retry"}, attempt : {1}, overflow : Overflows, config : Backoffs]

\* Any bytes where a record should be, and records to store: strings may be
\* longer than a length can tell.  UpTo has the sequences of at most n.
UpTo(S, n) == UNION {[1..m -> S] : m \in 0..n}
Values == [kind : {"value"}, data : UpTo(Byte, MaxData)]
Strings == UpTo(Byte, MaxUint32 + 1)
Records ==
    [kind : {"record"},
     value : [createdAt : Instants, deadAt : {-1, 0}, originSeq : {0, Uints - 1},
              origin : Strings, payload : Strings, reason : Strings]]

\* A database of three streams whose names are neighbours, a. < a/ < a0, with
\* sequences on both sides of the end of a byte, and perhaps a damaged key.
Stream == <<97>>
Neighbours == {<<97, 46>>, <<97, 48>>}
Sequences4 == {1, 255, 256, K!MaxUint64}
KeysOf(stream, waiting, parked) ==
    {K!sequenceKey(K!pendingPrefix(stream), n) : n \in waiting}
      \cup {K!sequenceKey(K!deadPrefix(stream), n) : n \in parked}
      \cup {K!metaKey(stream, <<116>>)}
Databases ==
    {[kind |-> "database", waiting |-> w, parked |-> p, damaged |-> d,
      db |-> KeysOf(Stream, w, p)
               \cup UNION {KeysOf(s, Sequences4, Sequences4) : s \in n}
               \cup IF d THEN {K!pendingPrefix(Stream) \o <<1>>} ELSE {}] :
       w \in SUBSET Sequences4, p \in SUBSET Sequences4,
       n \in {{}, Neighbours}, d \in BOOLEAN}

\* Two names.
Letters == UpTo(Alphabet, MaxName)
Names == [kind : {"names"}, one : Letters, other : Letters]

\* The options of a factory with an override for one of two logs: as they
\* were given to New, and as the caller has rewritten them since.
Configs ==
    {c \in [O!Fields -> -1..3] :
       /\ c["PrefetchCapacity"] \in -1..1 /\ c["MaxInFlight"] = 0
       /\ c["VisibilityTimeout"] = 1 /\ c["Max"] >= 0 /\ c["Multiplier"] \in 0..1}
Overrides == {c \in Configs : c["Multiplier"] = 0}
GivenOptions ==
    {O!WithLog([Dir |-> TRUE, DefaultLog |-> c, Logs |-> <<>>,
                MaintenanceInterval |-> 0, Ratio |-> r], "a", d) :
       c \in Configs, d \in Overrides, r \in {0, 5, 10}}
Factories == {[kind |-> "factory", given |-> o, now |-> o.Logs] : o \in GivenOptions}

\* What the codec does on the items of a batch, and whether the byte log fails.
Batches == [kind : {"batch"}, outcome : UpTo(Outcomes, MaxItems), err : {"nil", "closed"}]

Init ==
    \/ subject \in Retries
    \/ subject \in Values \/ subject \in Records
    \/ subject \in Databases \/ subject \in Names
    \/ subject \in Factories
    \/ subject \in Batches

Retry ==
    /\ subject.kind = "retry" /\ subject.attempt < MaxRetries
    /\ subject' = [subject EXCEPT !.attempt = @ + 1]

Rewrite ==
    /\ subject.kind = "factory"
    /\ subject' = [subject EXCEPT !.now["a"] = [f \in O!Fields |-> -1]]

Next == Retry \/ Rewrite
Spec == Init /\ [][Next]_subject

(***************************************************************************)
(* Backoff.                                                                *)
(***************************************************************************)
DelayAt(attempt) == retryDelay(subject.config, subject.overflow, attempt)

\* The delay stays between RetryInitial and RetryMax, also where the product
\* leaves the range of a duration.
DelayInRange ==
    subject.kind = "retry" =>
      DelayAt(subject.attempt) \in subject.config.initial..subject.config.max

\* A later attempt never waits less than an earlier one.
DelayGrows ==
    [][subject.kind = "retry" => DelayAt(subject'.attempt) >= DelayAt(subject.attempt)]_subject

\* The reference: a whole multiplier m and a positive start give
\* RetryInitial * m^(attempt - 1), capped at RetryMax, as long as this is below
\* 2^53 nanoseconds (104 days), where a float64 starts to round.
ExponentialUpToMax ==
    subject.kind = "retry" /\ subject.config.den = 1 /\ subject.config.initial > 0 =>
      LET exact == subject.config.initial * Power(subject.config.num, subject.attempt - 1)
          capped == Min({exact, subject.config.max})
      IN  capped < Precision => DelayAt(subject.attempt) = capped

(***************************************************************************)
(* Envelope.                                                               *)
(***************************************************************************)
Restricted(value, fields) == [f \in fields |-> value[f]]
PendingFields == {"createdAt", "originSeq", "origin", "payload"}
DeadFields == PendingFields \cup {"deadAt", "reason"}

\* Exactly the bytes an encoder writes are read back, as the record they were
\* written for: a value cut short, or with bytes after its end, is refused.
\* (A decoder also takes a payload longer than the encoders accept.)
DecodesExactly ==
    /\ subject.kind = "value" =>
         /\ LET r == decodePending(subject.data)
            IN  r.err = "nil" => encodePending(r.value) \in
                                   {[err |-> "nil", data |-> subject.data], TooLarge}
         /\ LET r == decodeDead(subject.data)
            IN  r.err = "nil" => encodeDead(r.value) \in
                                   {[err |-> "nil", data |-> subject.data], TooLarge}
    /\ subject.kind = "record" =>
         /\ LET e == encodePending(subject.value)
            IN  e.err = "nil" => decodePending(e.data) =
                  [err |-> "nil", value |-> Restricted(subject.value, PendingFields)]
         /\ LET e == encodeDead(subject.value)
            IN  e.err = "nil" => decodeDead(e.data) =
                  [err |-> "nil", value |-> Restricted(subject.value, DeadFields)]

(***************************************************************************)
(* KeySpace.                                                               *)
(***************************************************************************)
\* page is the limit smallest of the sequences at or above from, in order.
IsPage(page, seqs, from, limit) ==
    /\ page.err = "nil"
    /\ Len(page.seqs) = Min({limit, Cardinality({n \in seqs : n >= from})})
    /\ \A i \in DOMAIN page.seqs :
         /\ page.seqs[i] \in seqs
         /\ Cardinality({n \in seqs : n \in from..page.seqs[i]}) = i

\* Whatever streams share the database, a scan of one that load accepts sees
\* that stream's records, all of them, oldest first, and no other's; the
\* counts agree with it.
ScansInOrder ==
    subject.kind = "database" /\ K!load(subject.db, Stream, K!MaxUint64) = "nil" =>
      /\ \A from \in {0, 2, 256}, limit \in {1, 3} :
           /\ IsPage(K!ScanBatch(subject.db, Stream, from, limit), subject.waiting, from, limit)
           /\ IsPage(K!DeadLetters(subject.db, Stream, from, limit), subject.parked, from, limit)
      /\ K!Counts(subject.db, Stream) =
           [err |-> "nil", Pending |-> Cardinality(subject.waiting),
            DeadLetter |-> Cardinality(subject.parked),
            OldestSeq |-> Min(subject.waiting \cup
                                (IF subject.waiting = {} THEN {0} ELSE {}))]

\* load opens a stream exactly when no key of it is damaged, none of its
\* sequences is beyond the tail (none at all while the tail is missing), and
\* no record is both pending and dead.
LoadAgrees ==
    subject.kind = "database" =>
      \A tail \in {-1, 0, 254, 255, 256, K!MaxUint64} :
        (K!load(subject.db, Stream, tail) = "nil") =
          /\ ~subject.damaged
          /\ \A n \in subject.waiting \cup subject.parked : n <= tail
          /\ subject.waiting \cap subject.parked = {}

\* The streams of two names that are accepted share no key: a key of one,
\* whatever its sequence, is never under a prefix of the other, nor under
\* another of its own.
KeysApart ==
    subject.kind = "names"
      /\ K!ValidateStreamName(subject.one) /\ K!ValidateStreamName(subject.other) =>
      LET KeyPrefixes(name) == {K!pendingPrefix(name), K!deadPrefix(name), K!metaKey(name, <<>>)}
      IN  /\ \A p \in KeyPrefixes(subject.one), q \in KeyPrefixes(subject.other) :
               K!HasPrefix(q, p) => p = q
          /\ subject.one # subject.other =>
               KeyPrefixes(subject.one) \cap KeyPrefixes(subject.other) = {}

(***************************************************************************)
(* Options.                                                                *)
(***************************************************************************)
\* Once New has accepted its options, Open cannot fail on a configuration:
\* every log gets what was asked for it, then what was asked for all logs,
\* then the defaults, and a dispatcher accepts it, whatever the caller has
\* made of its own map since.
AcceptedOpens ==
    subject.kind = "factory" /\ O!NewAccepts(subject.given) =>
      \A name \in {"a", "b"} :
        LET logs == O!cloneLogConfigs(subject.given.Logs, subject.now)
            config == O!OpenConfig(subject.given, logs, name)
            asked == IF name = "a" THEN <<subject.given.Logs["a"]>> ELSE <<>>
            layers == asked \o <<subject.given.DefaultLog, Defaults>>
        IN  /\ O!DispatcherAccepts(config)
            /\ \A f \in O!Fields :
                 config[f] = layers[Min({i \in DOMAIN layers : layers[i][f] # 0})][f]

(***************************************************************************)
(* Typed.                                                                  *)
(***************************************************************************)
\* A codec that fails or panics in the middle of a batch loses nothing: a
\* batch is appended whole, in order, or not at all; and every delivery leased
\* for a Read, and every dead letter of a page, comes to its caller in the order
\* of the byte log, each decoded from its own payload, or all of them raw with
\* an error that names the first that does not decode, so that each lease can be
\* settled.
CodecLosesNothing ==
    subject.kind = "batch" =>
      LET outcome == subject.outcome
          values == [i \in DOMAIN outcome |-> i]
          stored == [i \in DOMAIN outcome |-> [Position |-> i, Payload |-> Encode(i)]]
          raw == [err |-> subject.err, items |-> IF subject.err = "nil" THEN stored ELSE <<>>]
          written == BatchWrite(values, outcome)
          read == Read(raw, outcome)
          page == DeadLetters(raw, outcome)
          IsFirst(i) == /\ i \in DOMAIN outcome /\ outcome[i] # "ok"
                        /\ \A j \in 1..(i - 1) : outcome[j] = "ok"
          InOrder(decoded) ==
            /\ unwrap(decoded) = raw.items
            /\ \A i \in DOMAIN decoded : decoded[i].Position = i /\ decoded[i].Value = i
      IN  /\ \/ /\ \A i \in DOMAIN outcome : outcome[i] = "ok"
                /\ written.err = "nil"
                /\ written.batches = <<[i \in DOMAIN outcome |-> Encode(i)]>>
             \/ written.err # "nil" /\ written.batches = <<>> /\ \E i \in DOMAIN outcome : IsFirst(i)
          /\ \/ read.err = "nil" /\ InOrder(read.deliveries)
             \/ read.err # "nil" /\ read.err = raw.err
             \/ read.err # "nil" /\ read.Deliveries = raw.items /\ IsFirst(read.Index)
          /\ \/ page.err = "nil" /\ InOrder(page.deadLetters)
             \/ page.err # "nil" /\ page.err = raw.err
             \/ page.err # "nil" /\ page.DeadLetters = raw.items /\ IsFirst(page.Index)
=============================================================================
