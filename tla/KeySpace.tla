------------------------------ MODULE KeySpace ------------------------------
(***************************************************************************)
(* How the streams of one database share its ordered key space (keys.go),  *)
(* and the iterations of store.go over it.                                 *)
(*                                                                         *)
(* A key is a string of bytes; characters stand for their ASCII codes.     *)
(* Badger keeps keys in lexicographic order: an iterator seeks a key and   *)
(* goes on, upwards or downwards, while the keys have a prefix.            *)
(***************************************************************************)
EXTENDS Envelope, FiniteSets, FiniteSetsExt

Slash == 47

pendingPrefix(stream) == <<116, Slash>> \o stream \o <<Slash, 100, Slash>>     \* t/../d/
deadPrefix(stream)    == <<116, Slash>> \o stream \o <<Slash, 120, Slash>>     \* t/../x/
metaKey(stream, name) == <<116, Slash>> \o stream \o <<Slash, 109, Slash>> \o name

seqLen == Wide
MaxUint64 == Power(Base, Wide) - 1
\* mutant: little-endian
sequenceKeyLittle(prefix, seq) ==
    prefix \o [i \in 1..seqLen |-> AppendUint(seqLen, seq)[seqLen + 1 - i]]
sequenceKey(prefix, seq) == prefix \o AppendUint(seqLen, seq)

HasPrefix(key, prefix) == Len(prefix) <= Len(key) /\ First(key, Len(prefix)) = prefix

\* The sequence a key holds behind the prefix, if it is one of ours.
Unparsed == -2
parseSequence(prefix, key) ==
    IF Len(key) # Len(prefix) + seqLen \/ ~HasPrefix(key, prefix) THEN Unparsed
    ELSE Uint(Rest(key, Len(prefix)))

\* Letters, digits, '.', '_' and '-'.
NameByte == (97..122) \cup (65..90) \cup (48..57) \cup {46, 95, 45}
ValidateStreamNameAny(name) ==      \* mutant: any character is allowed
    Len(name) \in 1..100
ValidateStreamName(name) ==
    Len(name) \in 1..100 /\ \A i \in DOMAIN name : name[i] \in NameByte

(***************************************************************************)
(* Badger's iterators over the set of keys db.                             *)
(***************************************************************************)
Before(k, l) ==
    \/ HasPrefix(l, k) /\ k # l
    \/ \E i \in DOMAIN k \cap DOMAIN l :
         k[i] < l[i] /\ \A j \in 1..(i - 1) : k[j] = l[j]

Ordered(keys) ==
    LET rank == [k \in keys |-> Cardinality({l \in keys : Before(l, k)})]
    IN  [i \in 1..Cardinality(keys) |-> CHOOSE k \in keys : rank[k] = i - 1]

\* The keys met from Seek(key) on, as long as they have the prefix.
Upwards(db, key, prefix) ==
    LET met == Ordered({k \in db : ~Before(k, key)})
        end == {i \in DOMAIN met : ~HasPrefix(met[i], prefix)}
    IN  IF end = {} THEN met ELSE First(met, Min(end) - 1)

\* The keys met from Seek(key) downwards.
Downwards(db, key) ==
    LET met == Ordered({k \in db : ~Before(key, k)})
    IN  [i \in DOMAIN met |-> met[Len(met) + 1 - i]]

(***************************************************************************)
(* store.go.  A page is the sequences of at most limit records; their      *)
(* values are decoded by Envelope.                                         *)
(***************************************************************************)
Page(db, prefix, from, limit) ==
    LET met == Upwards(db, sequenceKey(prefix, from), prefix)
        seqs == [i \in 1..Min({limit, Len(met)}) |-> parseSequence(prefix, met[i])]
    IN  IF limit <= 0 THEN [err |-> "ErrInvalidBatchSize"]
        ELSE IF \E i \in DOMAIN seqs : seqs[i] = Unparsed THEN Corrupt
        ELSE [err |-> "nil", seqs |-> seqs]
ScanBatch(db, stream, from, limit)   == Page(db, pendingPrefix(stream), from, limit)
DeadLetters(db, stream, from, limit) == Page(db, deadPrefix(stream), from, limit)

Counts(db, stream) ==
    LET waiting == Upwards(db, pendingPrefix(stream), pendingPrefix(stream))
        parked  == Upwards(db, deadPrefix(stream), deadPrefix(stream))
        oldest  == IF waiting = <<>> THEN 0
                   ELSE parseSequence(pendingPrefix(stream), Head(waiting))
    IN  IF oldest = Unparsed THEN Corrupt
        ELSE [err |-> "nil", Pending |-> Len(waiting), DeadLetter |-> Len(parked),
              OldestSeq |-> oldest]

\* The largest sequence under the prefix; -1 if there is none.
maxStoredSequenceFirst(db, prefix) ==       \* mutant: the iterator goes upwards
    LET met == Upwards(db, sequenceKey(prefix, 0), prefix)
    IN  IF met # <<>> THEN parseSequence(prefix, Head(met)) ELSE -1
maxStoredSequence(db, prefix) ==
    LET met == Downwards(db, sequenceKey(prefix, MaxUint64))
    IN  IF met # <<>> /\ HasPrefix(Head(met), prefix) THEN parseSequence(prefix, Head(met)) ELSE -1

\* Both prefixes are walked side by side, the smaller sequence first.
validateStoredStates(db, stream) ==
    LET Under(prefix) == LET met == Upwards(db, prefix, prefix)
                         IN  [i \in DOMAIN met |-> parseSequence(prefix, met[i])]
        waiting == Under(pendingPrefix(stream))
        parked  == Under(deadPrefix(stream))
        walk[i \in 1..(Len(waiting) + 1), j \in 1..(Len(parked) + 1)] ==
          CASE \/ i <= Len(waiting) /\ waiting[i] = Unparsed
               \/ j <= Len(parked) /\ parked[j] = Unparsed      -> "ErrCorruptEnvelope"
            [] i > Len(waiting) /\ j > Len(parked)              -> "nil"
            [] OTHER ->
                 IF i > Len(waiting) THEN walk[i, j + 1]
                 ELSE IF j > Len(parked) THEN walk[i + 1, j]
                 ELSE IF waiting[i] = parked[j] THEN "ErrStateConflict"
                 ELSE IF waiting[i] < parked[j] THEN walk[i + 1, j] ELSE walk[i, j + 1]
    IN  walk[1, 1]

\* The checks of load on the sequences; tail is -1 while the tail key is
\* missing.  The first check that fails is reported.
load(db, stream, tail) ==
    LET Bounded(prefix) ==
          LET maximum == maxStoredSequence(db, prefix)
          IN  CASE maximum = Unparsed -> "ErrCorruptEnvelope"
                [] maximum > tail     -> "ErrTailRegression"
                [] OTHER              -> "nil"
        checks == <<Bounded(pendingPrefix(stream)), Bounded(deadPrefix(stream)),
                    validateStoredStates(db, stream)>>
        failed == {i \in DOMAIN checks : checks[i] # "nil"}
    IN  IF failed = {} THEN "nil" ELSE checks[Min(failed)]
=============================================================================
