------------------------------ MODULE Backoff ------------------------------
(***************************************************************************)
(* The delay before a retried record is delivered again (retryDelay).      *)
(*                                                                         *)
(* A config holds RetryInitial, RetryMax and the multiplier num/den, where *)
(* den is a power of two and num < Precision, as of any float64 that is at *)
(* least one.  The code multiplies in float64, which rounds, and converts  *)
(* back to an int64 duration: the conversion truncates, and beyond         *)
(* MaxDuration its value depends on the platform (overflow: the least      *)
(* int64 on amd64, the greatest on arm64).                                 *)
(***************************************************************************)
EXTENDS Powers

CONSTANTS
    MaxDuration,        \* math.MaxInt64
    Precision           \* 2^53: a float64 has 53 bits

ASSUME DurationAssumption ==
    /\ MaxDuration \in Nat \ {0}
    /\ Precision \in Nat \ {0} /\ Precision % 2 = 0

Overflows == {-MaxDuration - 1, MaxDuration}

\* What New accepts.
ValidBackoff(config) ==
    /\ config.initial >= 0 /\ config.max >= config.initial /\ config.max <= MaxDuration
    /\ config.num >= config.den

\* The float64 nearest to n.  From Precision on only the multiples of a power
\* of two are representable, the unit; a number halfway goes to the even one.
Unit(n) ==
    Power(2, CHOOSE k \in 1..n : /\ Precision * Power(2, k - 1) <= n
                                 /\ n < Precision * Power(2, k))
Float(n) ==
    IF n < Precision THEN n
    ELSE LET u == Unit(n)
             q == n \div u
             rest == 2 * (n % u)
         IN  IF rest > u \/ (rest = u /\ q % 2 = 1) THEN (q + 1) * u ELSE q * u

\* time.Duration(float64(delay) * RetryMultiplier).  To divide by den, a power
\* of two, does not round.
Scaled(config, overflow, delay) ==
    LET product == Float(Float(delay) * config.num) \div config.den
    IN  IF product > MaxDuration THEN overflow ELSE product

\* mutant: the guard against a product that did not grow, or overflowed, is gone
GrownUnguarded(config, overflow, delay) ==
    LET next == Scaled(config, overflow, delay)
    IN  IF next > config.max THEN config.max ELSE next
\* mutant: no cap
GrownUncapped(config, overflow, delay) ==
    LET next == Scaled(config, overflow, delay)
    IN  IF next <= delay THEN config.max ELSE next
\* One round of the loop, for a delay below RetryMax.
Grown(config, overflow, delay) ==
    LET next == Scaled(config, overflow, delay)
    IN  IF next <= delay \/ next > config.max THEN config.max ELSE next

\* mutant: one round too many
retryDelayLate(config, overflow, attempt) ==
    LET delay[n \in 0..attempt] ==
          IF n = 0 THEN config.initial
          ELSE IF delay[n - 1] >= config.max THEN delay[n - 1]
          ELSE Grown(config, overflow, delay[n - 1])
    IN  IF config.num <= config.den THEN config.initial ELSE delay[attempt]
\* delay[n] is the delay after n - 1 rounds.
retryDelay(config, overflow, attempt) ==
    LET delay[n \in 1..attempt] ==
          IF n = 1 THEN config.initial
          ELSE IF delay[n - 1] >= config.max THEN delay[n - 1]
          ELSE Grown(config, overflow, delay[n - 1])
    IN  IF config.num <= config.den THEN config.initial ELSE delay[attempt]
=============================================================================
