------------------------------ MODULE Envelope ------------------------------
(***************************************************************************)
(* The stored form of a record (internal/store/envelope.go): a version,    *)
(* fixed-width big-endian numbers, and byte strings behind their length.   *)
(*                                                                         *)
(* A byte is a digit below Base; a uint64 takes Wide digits and a uint32   *)
(* takes Narrow.  A decoder takes its fields off the front of the data and *)
(* fails at the first that is not there.                                   *)
(***************************************************************************)
EXTENDS Integers, Sequences, Powers

CONSTANTS Base, Wide, Narrow        \* 256, 8 and 4

ASSUME WidthAssumption == Base \in Nat \ {0, 1} /\ Wide \in Nat \ {0} /\ Narrow \in 1..Wide

Byte == 0..(Base - 1)
MaxUint32 == Power(Base, Narrow) - 1
envelopeVersion == 1

\* binary.BigEndian
AppendUint(width, n) == [i \in 1..width |-> (n \div Power(Base, width - i)) % Base]
Uint(digits) ==
    LET value[i \in 0..Len(digits)] ==
          IF i = 0 THEN 0 ELSE value[i - 1] * Base + digits[i]
    IN  value[Len(digits)]

\* uint64(t.UnixNano()) and time.Unix(0, int64(n)): two's complement.  A uint64
\* is one of Uints numbers.
Uints == Power(Base, Wide)
Instants == -(Uints \div 2)..(Uints \div 2 - 1)
FromInstant(t) == t % Uints
ToInstant(n) == IF n \in Instants THEN n ELSE n - Uints

String32(s) == AppendUint(Narrow, Len(s)) \o s
Bytes64(s)  == AppendUint(Wide, Len(s)) \o s

Corrupt == [err |-> "ErrCorruptEnvelope"]
Unsupported == [err |-> "ErrUnsupportedEnvelope"]
TooLarge == [err |-> "ErrValueTooLarge"]

encodePending(value) ==
    IF Len(value.origin) > MaxUint32 \/ Len(value.payload) > MaxUint32 THEN TooLarge
    ELSE [err |-> "nil",
          data |-> <<envelopeVersion>> \o AppendUint(Wide, FromInstant(value.createdAt))
                     \o AppendUint(Wide, value.originSeq)
                     \o String32(value.origin) \o Bytes64(value.payload)]

encodeDead(value) ==
    IF \E s \in {value.origin, value.payload, value.reason} : Len(s) > MaxUint32 THEN TooLarge
    ELSE [err |-> "nil",
          data |-> <<envelopeVersion>> \o AppendUint(Wide, FromInstant(value.createdAt))
                     \o AppendUint(Wide, FromInstant(value.deadAt))
                     \o AppendUint(Wide, value.originSeq)
                     \o String32(value.origin) \o Bytes64(value.payload)
                     \o String32(value.reason)]

(***************************************************************************)
(* envelopeReader.  A reader is the fields read so far, the data left, and *)
(* ok: whether every field was there.                                      *)
(***************************************************************************)
Reader(data) == [ok |-> TRUE, fields |-> <<>>, data |-> data]

Failed(r) == [r EXCEPT !.ok = FALSE]
Taken(r, field, rest) == [ok |-> TRUE, fields |-> Append(r.fields, field), data |-> rest]

\* The first size bytes, and the bytes behind them.
First(data, size) == SubSeq(data, 1, size)
Rest(data, size)  == SubSeq(data, size + 1, Len(data))

readUint64(r) ==
    IF ~r.ok \/ Len(r.data) < Wide THEN Failed(r)
    ELSE Taken(r, Uint(First(r.data, Wide)), Rest(r.data, Wide))

\* The length, and then as many bytes.
readString(r, width) ==
    LET size == Uint(First(r.data, width))
        bytes == Rest(r.data, width)
    IN  IF ~r.ok \/ Len(r.data) < width \/ size > Len(bytes) THEN Failed(r)
        ELSE Taken(r, First(bytes, size), Rest(bytes, size))
string32(r) == readString(r, Narrow)
bytes64(r)  == readString(r, Wide)

\* The reader's verdict: every field was there and nothing is left over.
FinishedAnyhow(r) == r.ok           \* mutant: trailing bytes are not refused
Finished(r) == r.ok /\ r.data = <<>>

Versioned(data, decoded) ==
    IF data = <<>> THEN Corrupt
    ELSE IF Head(data) # envelopeVersion THEN Unsupported ELSE decoded

decodePending(data) ==
    LET r == bytes64(string32(readUint64(readUint64(Reader(Tail(data))))))
    IN  Versioned(data,
          IF ~Finished(r) THEN Corrupt
          ELSE [err |-> "nil",
                value |-> [createdAt |-> ToInstant(r.fields[1]), originSeq |-> r.fields[2],
                           origin |-> r.fields[3], payload |-> r.fields[4]]])

decodeDead(data) ==
    LET r == string32(bytes64(string32(
               readUint64(readUint64(readUint64(Reader(Tail(data))))))))
    IN  Versioned(data,
          IF ~Finished(r) THEN Corrupt
          ELSE [err |-> "nil",
                value |-> [createdAt |-> ToInstant(r.fields[1]),
                           deadAt |-> ToInstant(r.fields[2]), originSeq |-> r.fields[3],
                           origin |-> r.fields[4], payload |-> r.fields[5],
                           reason |-> r.fields[6]]])
=============================================================================
