------------------------------- MODULE Typed -------------------------------
(***************************************************************************)
(* The typed log (typed/typed.go): a codec before and behind a byte log.   *)
(*                                                                         *)
(* The codec is the caller's and may fail or panic on any item of a batch: *)
(* outcome gives what it does on each of them.  raw is what the byte log   *)
(* returns for a Read or a DeadLetters: an error, or items with a Payload. *)
(* Of the fields that are copied to a decoded item, Position stands for    *)
(* all.                                                                    *)
(***************************************************************************)
EXTENDS Integers, Sequences

Outcomes == {"ok", "error", "panic"}

\* The codec, where it does not fail.
Encode(value) == [value |-> value]
Decode(data) == data.value

\* safeEncode and safeDecode turn a panic into an error.
Recovered(outcome) ==
    CASE outcome = "ok" -> "nil" [] outcome = "error" -> "codec"
      [] outcome = "panic" -> "CodecPanicError"

\* mutant: an item that fails is left out and the loop goes on
RoundSkips(state, index, outcome, item) ==
    IF Recovered(outcome) # "nil" THEN state
    ELSE [state EXCEPT !.made[index] = item]
\* One round of the loops over a batch: once one has failed the call has
\* returned, and no later round happens.
Round(state, index, outcome, item) ==
    IF state.err # "nil" THEN state
    ELSE IF Recovered(outcome) # "nil"
         THEN [state EXCEPT !.err = Recovered(outcome), !.Index = index]
    ELSE [state EXCEPT !.made[index] = item]

\* The loop: made starts with zero values, state[n] is what n rounds leave.
\* Index counts from one.
Zero == <<>>
Loop(items, outcome) ==
    LET state[n \in 0..Len(items)] ==
          IF n = 0 THEN [err |-> "nil", Index |-> 0, made |-> [i \in DOMAIN items |-> Zero]]
          ELSE Round(state[n - 1], n, outcome[n], items[n])
    IN  state[Len(items)]

\* BatchWrite, and Write for a batch of one: what is passed to the byte log.
BatchWritePrefix(values, outcome) ==    \* mutant: appends what was encoded before
    LET end == Loop([i \in DOMAIN values |-> Encode(values[i])], outcome)
        data == IF end.err = "nil" THEN end.made ELSE SubSeq(end.made, 1, end.Index - 1)
    IN  [err |-> end.err, batches |-> <<data>>]
BatchWrite(values, outcome) ==
    LET end == Loop([i \in DOMAIN values |-> Encode(values[i])], outcome)
    IN  IF end.err # "nil" THEN [err |-> end.err, batches |-> <<>>]
        ELSE [err |-> "nil", batches |-> <<end.made>>]

Decoded(raw) == [Position |-> raw.Position, Value |-> Decode(raw.Payload), raw |-> raw]

\* Read: typed deliveries, or DecodeError with the raw ones.
ReadRest(raw, outcome) ==               \* mutant: the error keeps the rest only
    LET end == Loop([i \in DOMAIN raw.items |-> Decoded(raw.items[i])], outcome)
    IN  IF raw.err # "nil" THEN [err |-> raw.err, deliveries |-> <<>>]
        ELSE IF end.err # "nil"
             THEN [err |-> end.err, deliveries |-> <<>>, Index |-> end.Index,
                   Deliveries |-> SubSeq(raw.items, end.Index, Len(raw.items))]
        ELSE [err |-> "nil", deliveries |-> end.made]
Read(raw, outcome) ==
    LET end == Loop([i \in DOMAIN raw.items |-> Decoded(raw.items[i])], outcome)
    IN  IF raw.err # "nil" THEN [err |-> raw.err, deliveries |-> <<>>]
        ELSE IF end.err # "nil"
             THEN [err |-> end.err, deliveries |-> <<>>, Index |-> end.Index,
                   Deliveries |-> raw.items]
        ELSE [err |-> "nil", deliveries |-> end.made]

\* DeadLetters: the same of a page of dead letters.
DeadLetters(raw, outcome) ==
    LET end == Loop([i \in DOMAIN raw.items |-> Decoded(raw.items[i])], outcome)
    IN  IF raw.err # "nil" THEN [err |-> raw.err, deadLetters |-> <<>>]
        ELSE IF end.err # "nil"
             THEN [err |-> end.err, deadLetters |-> <<>>, Index |-> end.Index,
                   DeadLetters |-> raw.items]
        ELSE [err |-> "nil", deadLetters |-> end.made]

\* The raw deliveries Commit, Retry and Extend pass on.
unwrap(deliveries) == [i \in DOMAIN deliveries |-> deliveries[i].raw]
=============================================================================
