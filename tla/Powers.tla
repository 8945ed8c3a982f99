------------------------------- MODULE Powers -------------------------------
(***************************************************************************)
(* Powers of a natural number, as a recursive function.                    *)
(***************************************************************************)
EXTENDS Integers

\* b to the power n.
Power(b, n) ==
    LET power[i \in 0..n] == IF i = 0 THEN 1 ELSE b * power[i - 1]
    IN  power[n]
=============================================================================
