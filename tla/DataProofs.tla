----------------------------- MODULE DataProofs -----------------------------
(***************************************************************************)
(* The computations of the program, for inputs of every size.              *)
(***************************************************************************)
EXTENDS MCData, SequenceTheorems, WellFoundedInduction, TLAPS

\* A set of natural numbers has a least element.
LEMMA MinNat ==
    ASSUME NEW S \in SUBSET Nat, S # {}
    PROVE  Min(S) \in S /\ \A x \in S : Min(S) <= x
<1> DEFINE R == OpToRel(<, Nat)
<1>1. IsWellFoundedOn(R, Nat)
  BY NatLessThanWellFounded, Zenon
<1>2. PICK x \in S : \A y \in S : ~(<<y, x>> \in R)
  <2> HIDE DEF R
  <2> QED BY <1>1, WFMin, Zenon
<1>3. \A y \in S : ~(y < x)
  BY <1>2, Zenon DEF OpToRel
<1>4. \A y \in S : x <= y
  BY <1>3
<1> QED BY <1>4, Zenon DEF Min

\* Induction over the natural numbers, for a set.
LEMMA NatSet ==
    ASSUME NEW T, 0 \in T, \A n \in Nat : n \in T => n + 1 \in T
    PROVE  Nat \subseteq T
<1> DEFINE Missing == Nat \ T
<1>1. ASSUME Missing # {} PROVE FALSE
  <2>1. Missing \in SUBSET Nat
    OBVIOUS
  <2> HIDE DEF Missing
  <2>2. Min(Missing) \in Missing /\ \A x \in Missing : Min(Missing) <= x
    BY <1>1, <2>1, MinNat
  <2>3. Min(Missing) \in Nat /\ Min(Missing) \notin T
    BY <2>2 DEF Missing
  <2>4. Min(Missing) # 0
    BY <2>3
  <2>5. Min(Missing) - 1 \in Nat /\ Min(Missing) - 1 \notin Missing
    BY <2>1, <2>2, <2>3, <2>4
  <2>6. Min(Missing) - 1 \in T
    BY <2>5 DEF Missing
  <2>7. (Min(Missing) - 1) + 1 = Min(Missing)
    BY <2>3
  <2> QED BY <2>3, <2>5, <2>6, <2>7
<1> QED BY <1>1

\* f is the first n + 1 values of what starts with x and goes on by G.
Begins(S, x, G, n, f) ==
    f \in [0..n -> S] /\ f[0] = x /\ \A i \in 0..(n - 1) : f[i + 1] = G[i][f[i]]

\* Two beginnings agree as far as both go.
LEMMA BeginningsAgree ==
    ASSUME NEW S, NEW x \in S, NEW G \in [Nat -> [S -> S]], NEW m \in Nat, NEW n \in Nat,
           NEW f, NEW g, Begins(S, x, G, m, f), Begins(S, x, G, n, g)
    PROVE  \A i \in Nat : i <= m /\ i <= n => f[i] = g[i]
<1> DEFINE T == {i \in Nat : i <= m /\ i <= n => f[i] = g[i]}
<1>1. 0 \in T
  BY DEF Begins
<1>2. ASSUME NEW i \in Nat, i \in T PROVE i + 1 \in T
  <2> SUFFICES ASSUME i + 1 <= m, i + 1 <= n PROVE f[i + 1] = g[i + 1]
    OBVIOUS
  <2>1. i \in 0..(m - 1) /\ i \in 0..(n - 1) /\ f[i] = g[i]
    BY <1>2
  <2> QED BY <2>1 DEF Begins
<1> HIDE DEF T
<1>3. Nat \subseteq T
  BY <1>1, <1>2, NatSet
<1> QED BY <1>3 DEF T

\* h starts with x and goes on by G.
GoesOn(S, x, G, h) ==
    h \in [Nat -> S] /\ h[0] = x /\ \A i \in Nat : h[i + 1] = G[i][h[i]]

\* Recursion over the natural numbers: there is such a function.
LEMMA Recursion ==
    ASSUME NEW S, NEW x \in S, NEW G \in [Nat -> [S -> S]]
    PROVE  \E h : GoesOn(S, x, G, h)
<1> DEFINE T == {n \in Nat : \E f : Begins(S, x, G, n, f)}
<1>1. 0 \in T
  <2>1. Begins(S, x, G, 0, [i \in 0..0 |-> x])
    BY DEF Begins
  <2> QED BY <2>1
<1>2. ASSUME NEW n \in Nat, n \in T PROVE n + 1 \in T
  <2>1. PICK f : Begins(S, x, G, n, f)
    BY <1>2
  <2> DEFINE g == [i \in 0..(n + 1) |-> IF i = n + 1 THEN G[n][f[n]] ELSE f[i]]
  <2>2. f[n] \in S /\ G[n][f[n]] \in S
    BY <2>1 DEF Begins
  <2>3. g \in [0..(n + 1) -> S] /\ g[0] = x
    BY <2>1, <2>2 DEF Begins
  <2>4. ASSUME NEW i \in 0..((n + 1) - 1) PROVE g[i + 1] = G[i][g[i]]
    BY <2>1, <2>4 DEF Begins
  <2>5. Begins(S, x, G, n + 1, g)
    BY <2>3, <2>4, Zenon DEF Begins
  <2> QED BY <2>5
<1>3. Nat \subseteq T
  <2> HIDE DEF T
  <2> QED BY <1>1, <1>2, NatSet
<1> DEFINE F(n) == CHOOSE f : Begins(S, x, G, n, f)
           h == [n \in Nat |-> F(n)[n]]
<1>4. ASSUME NEW n \in Nat PROVE Begins(S, x, G, n, F(n))
  BY <1>3
<1> HIDE DEF F
<1>5. ASSUME NEW n \in Nat PROVE h[n] \in S
  BY <1>4 DEF Begins
<1>6. h[0] = x
  BY <1>4 DEF Begins
<1>7. ASSUME NEW i \in Nat PROVE h[i + 1] = G[i][h[i]]
  <2>1. Begins(S, x, G, i, F(i)) /\ Begins(S, x, G, i + 1, F(i + 1))
    BY <1>4
  <2>2. F(i)[i] = F(i + 1)[i]
    BY <2>1, BeginningsAgree
  <2>3. F(i + 1)[i + 1] = G[i][F(i + 1)[i]]
    BY <2>1 DEF Begins
  <2> QED BY <2>2, <2>3
<1>8. h \in [Nat -> S]
  BY <1>5
<1> HIDE DEF h
<1>9. GoesOn(S, x, G, h)
  BY <1>6, <1>7, <1>8 DEF GoesOn
<1> QED BY <1>9

-----------------------------------------------------------------------------
(***************************************************************************)
(* Powers.                                                                 *)
(***************************************************************************)
\* p gives the first powers of b.
IsPowers(b, n, p) == p = [i \in 0..n |-> IF i = 0 THEN 1 ELSE b * p[i - 1]]

\* Power looks up the last of them.
LEMMA PowerForm ==
    ASSUME NEW b, NEW n
    PROVE  Power(b, n) = (CHOOSE p : IsPowers(b, n, p))[n]
BY Zenon DEF Power, IsPowers

\* A power is the next lower one times the base.
LEMMA PowerStep ==
    ASSUME NEW b \in Nat
    PROVE  /\ Power(b, 0) = 1
           /\ \A n \in Nat : Power(b, n) \in Nat /\ Power(b, n + 1) = b * Power(b, n)
<1> DEFINE G == [i \in Nat |-> [v \in Nat |-> b * v]]
<1>1. G \in [Nat -> [Nat -> Nat]]
  OBVIOUS
<1>2. PICK h : GoesOn(Nat, 1, G, h)
  <2>1. 1 \in Nat
    OBVIOUS
  <2> HIDE DEF G
  <2> QED BY <1>1, <2>1, Recursion, Zenon
<1>3. h[0] = 1 /\ \A i \in Nat : h[i] \in Nat /\ h[i + 1] = b * h[i]
  BY <1>2, Zenon DEF GoesOn
<1> HIDE DEF G
<1>4. ASSUME NEW n \in Nat PROVE Power(b, n) = h[n]
  <2> DEFINE q == [i \in 0..n |-> h[i]]
             p == CHOOSE p : IsPowers(b, n, p)
  <2>1. ASSUME NEW i \in 0..n PROVE q[i] = IF i = 0 THEN 1 ELSE b * q[i - 1]
    <3>1. CASE i = 0
      BY <1>3, <3>1
    <3>2. CASE i # 0
      <4>1. i - 1 \in Nat /\ i - 1 \in 0..n /\ (i - 1) + 1 = i
        BY <3>2
      <4>2. h[i] = b * h[i - 1]
        BY <1>3, <4>1
      <4> QED BY <3>2, <4>1, <4>2
    <3> QED BY <3>1, <3>2
  <2>2. IsPowers(b, n, q)
    BY <2>1 DEF IsPowers
  <2>3. IsPowers(b, n, p)
    BY <2>2
  <2> HIDE DEF p, q
  <2> DEFINE T == {i \in Nat : i <= n => p[i] = h[i]}
  <2>4. 0 \in T
    BY <1>3, <2>3 DEF IsPowers
  <2>5. ASSUME NEW i \in Nat, i \in T PROVE i + 1 \in T
    <3> SUFFICES ASSUME i + 1 <= n PROVE p[i + 1] = h[i + 1]
      OBVIOUS
    <3>1. i + 1 \in 0..n /\ i + 1 # 0 /\ (i + 1) - 1 = i /\ p[i] = h[i]
      BY <2>5
    <3>2. p[i + 1] = b * p[i]
      BY <2>3, <3>1 DEF IsPowers
    <3> QED BY <1>3, <3>1, <3>2
  <2> HIDE DEF T
  <2>6. Nat \subseteq T
    BY <2>4, <2>5, NatSet
  <2>7. p[n] = h[n]
    BY <2>6 DEF T
  <2> QED BY <2>7, PowerForm DEF p
<1> QED BY <1>3, <1>4

\* A power of a positive number is positive.
LEMMA PowerPositive ==
    ASSUME NEW b \in Nat \ {0}
    PROVE  \A n \in Nat : Power(b, n) \in Nat \ {0}
<1> DEFINE T == {n \in Nat : Power(b, n) > 0}
<1>1. 0 \in T
  BY PowerStep
<1>2. ASSUME NEW n \in Nat, n \in T PROVE n + 1 \in T
  <2>1. Power(b, n) \in Nat /\ Power(b, n) > 0 /\ Power(b, n + 1) = b * Power(b, n)
    BY <1>2, PowerStep
  <2>2. \A k \in Nat : k > 0 => b * k > 0
    OBVIOUS
  <2> QED BY <2>1, <2>2
<1> HIDE DEF T
<1>3. Nat \subseteq T
  BY <1>1, <1>2, NatSet
<1> QED BY <1>3, PowerStep DEF T

\* Products of natural numbers grow with their factors.
LEMMA Monotone ==
    ASSUME NEW a \in Nat, NEW b \in Nat, NEW c \in Nat, a <= b
    PROVE  a * c <= b * c /\ a * c \in Nat /\ b * c \in Nat
OBVIOUS

\* Division with a remainder.
LEMMA Division ==
    ASSUME NEW n \in Nat, NEW d \in Nat \ {0}
    PROVE  /\ n \div d \in Nat /\ n % d \in 0..(d - 1)
           /\ n = (n \div d) * d + (n % d)
           /\ (n \div d) * d <= n /\ n < ((n \div d) + 1) * d
OBVIOUS

-----------------------------------------------------------------------------
(***************************************************************************)
(* The subjects of MCData.                                                 *)
(***************************************************************************)
\* A retry goes on with its configuration, the options given to New stay what
\* they were, and nothing else changes.
SubjectInv ==
    \/ subject \in [kind : {"retry"}, attempt : Nat \ {0}, overflow : Overflows,
                    config : Backoffs]
    \/ subject \in Values \/ subject \in Records
    \/ subject \in Databases \/ subject \in Names
    \/ /\ DOMAIN subject = {"kind", "given", "now"} /\ subject.kind = "factory"
       /\ \E o \in GivenOptions : subject.given = o
    \/ subject \in Batches

\* The kind of a subject tells which of these it is.
LEMMA Kinds ==
    /\ subject \in Values => subject.kind = "value"
    /\ subject \in Records => subject.kind = "record"
    /\ subject \in Databases => subject.kind = "database"
    /\ subject \in Names => subject.kind = "names"
    /\ subject \in Batches => subject.kind = "batch"
<1>1. subject \in Values => subject.kind = "value"
  BY DEF Values
<1>2. subject \in Records => subject.kind = "record"
  BY DEF Records
<1>3. subject \in Databases => subject.kind = "database"
  BY DEF Databases
<1>4. subject \in Names => subject.kind = "names"
  BY DEF Names
<1>5. subject \in Batches => subject.kind = "batch"
  BY DEF Batches
<1> QED BY <1>1, <1>2, <1>3, <1>4, <1>5

\* The subjects stay what they are.
THEOREM SubjectsKept == Spec => []SubjectInv
<1>1. Init => SubjectInv
  <2> SUFFICES ASSUME Init PROVE SubjectInv
    OBVIOUS
  <2>1. CASE subject \in Retries
    BY <2>1 DEF Retries, SubjectInv
  <2>2. CASE subject \in Factories
    <3>1. PICK o \in GivenOptions :
            subject = [kind |-> "factory", given |-> o, now |-> o.Logs]
      BY <2>2, Zenon DEF Factories
    <3>2. DOMAIN subject = {"kind", "given", "now"} /\ subject.kind = "factory"
          /\ subject.given = o
      BY <3>1
    <3> QED BY <3>2, Zenon DEF SubjectInv
  <2> QED BY <2>1, <2>2, Zenon DEF Init, SubjectInv
<1>2. SubjectInv /\ [Next]_subject => SubjectInv'
  <2> SUFFICES ASSUME SubjectInv, [Next]_subject PROVE SubjectInv'
    OBVIOUS
  <2>1. CASE Retry
    <3>1. subject \in [kind : {"retry"}, attempt : Nat \ {0}, overflow : Overflows,
                       config : Backoffs]
      <4>1. subject.kind = "retry"
        BY <2>1 DEF Retry
      <4> QED BY <4>1, Kinds DEF SubjectInv
    <3>2. subject' \in [kind : {"retry"}, attempt : Nat \ {0}, overflow : Overflows,
                        config : Backoffs]
      BY <2>1, <3>1 DEF Retry
    <3> QED BY <3>2, Zenon DEF SubjectInv
  <2>2. CASE Rewrite
    <3>1. PICK o \in GivenOptions :
            /\ DOMAIN subject = {"kind", "given", "now"} /\ subject.kind = "factory"
            /\ subject.given = o
      <4>1. subject.kind = "factory"
        BY <2>2 DEF Rewrite
      <4>2. subject \notin [kind : {"retry"}, attempt : Nat \ {0}, overflow : Overflows,
                            config : Backoffs]
        BY <4>1
      <4> QED BY <4>1, <4>2, Kinds DEF SubjectInv
    <3>2. PICK map : subject' = [subject EXCEPT !.now = map]
      BY <2>2, Zenon DEF Rewrite
    <3>3. /\ DOMAIN subject' = {"kind", "given", "now"} /\ subject'.kind = "factory"
          /\ subject'.given = o
      BY <3>1, <3>2
    <3> QED BY <3>3, Zenon DEF SubjectInv
  <2>3. CASE UNCHANGED subject
    BY <2>3, Zenon DEF SubjectInv
  <2> QED BY <2>1, <2>2, <2>3 DEF Next
<1> QED BY <1>1, <1>2, PTL DEF Spec

-----------------------------------------------------------------------------
(***************************************************************************)
(* Sequences.                                                              *)
(***************************************************************************)
\* The elements of a concatenation.
LEMMA Concat ==
    ASSUME NEW S, NEW s \in Seq(S), NEW t \in Seq(S)
    PROVE  /\ s \o t \in Seq(S) /\ Len(s) \in Nat /\ Len(t) \in Nat
           /\ Len(s \o t) = Len(s) + Len(t)
           /\ \A i \in 1..Len(s) : (s \o t)[i] = s[i]
           /\ \A i \in 1..Len(t) : (s \o t)[Len(s) + i] = t[i]
<1>1. Len(s) \in Nat /\ Len(t) \in Nat
  BY LenProperties
<1> DEFINE u == s \o t
<1>2. /\ u \in Seq(S) /\ Len(u) = Len(s) + Len(t)
      /\ \A i \in 1..(Len(s) + Len(t)) : u[i] = IF i <= Len(s) THEN s[i] ELSE t[i - Len(s)]
  BY ConcatProperties
<1> HIDE DEF u
<1>3. \A i \in 1..Len(s) : u[i] = s[i]
  BY <1>1, <1>2
<1>4. ASSUME NEW i \in 1..Len(t) PROVE u[Len(s) + i] = t[i]
  <2>1. Len(s) + i \in 1..(Len(s) + Len(t)) /\ ~(Len(s) + i <= Len(s)) /\ (Len(s) + i) - Len(s) = i
    BY <1>1
  <2> QED BY <1>2, <2>1
<1> QED BY <1>1, <1>2, <1>3, <1>4 DEF u

\* A sequence of at most n elements is a sequence.
LEMMA UpToSeq ==
    ASSUME NEW S, NEW n \in Nat, NEW s \in UpTo(S, n)
    PROVE  s \in Seq(S)
<1>1. PICK m \in 0..n : s \in [1..m -> S]
  BY DEF UpTo
<1> QED BY <1>1

-----------------------------------------------------------------------------
(***************************************************************************)
(* Keys.                                                                   *)
(***************************************************************************)
\* The prefix of one of the kinds of keys of a stream, byte by byte.
IsKeyPrefix(p, a, x) ==
    /\ p \in Seq(Int) /\ Len(p) = Len(a) + 5
    /\ p[1] = 116 /\ p[2] = 47
    /\ \A i \in 1..Len(a) : p[i + 2] = a[i]
    /\ p[Len(a) + 3] = 47 /\ p[Len(a) + 4] = x /\ p[Len(a) + 5] = 47

\* pendingPrefix, deadPrefix and metaKey differ in one byte.
LEMMA KeyPrefix ==
    ASSUME NEW a \in Seq(Int)
    PROVE  /\ IsKeyPrefix(K!pendingPrefix(a), a, 100)
           /\ IsKeyPrefix(K!deadPrefix(a), a, 120)
           /\ IsKeyPrefix(K!metaKey(a, <<>>), a, 109)
<1>1. ASSUME NEW x \in Int
      PROVE  IsKeyPrefix(<<116, 47>> \o a \o <<47, x, 47>>, a, x)
  <2> DEFINE b == <<116, 47>> \o a
             c == <<47, x, 47>>
             p == b \o c
  <2>1. /\ b \in Seq(Int) /\ Len(b) = Len(a) + 2 /\ b[1] = 116 /\ b[2] = 47
        /\ \A i \in 1..Len(a) : b[i + 2] = a[i]
    OBVIOUS
  <2>2. c \in Seq(Int) /\ Len(c) = 3 /\ c[1] = 47 /\ c[2] = x /\ c[3] = 47
    OBVIOUS
  <2> HIDE DEF b, c
  <2>3. /\ p \in Seq(Int) /\ Len(p) = Len(b) + 3
        /\ \A i \in 1..Len(b) : p[i] = b[i]
        /\ \A i \in 1..3 : p[Len(b) + i] = c[i]
    <3>0. b \in Seq(Int) /\ c \in Seq(Int)
      BY <2>1, <2>2
    <3>1. /\ p \in Seq(Int) /\ Len(p) = Len(b) + Len(c)
          /\ \A i \in 1..Len(b) : p[i] = b[i]
          /\ \A i \in 1..Len(c) : p[Len(b) + i] = c[i]
      BY <3>0, Concat
    <3> QED BY <2>2, <3>1, Zenon
  <2> HIDE DEF p
  <2>4. IsKeyPrefix(p, a, x)
    <3>1. Len(a) \in Nat /\ Len(b) = Len(a) + 2
      BY <2>1
    <3>2. p[1] = 116 /\ p[2] = 47 /\ \A i \in 1..Len(a) : p[i + 2] = a[i]
      <4>1. 1 \in 1..Len(b) /\ 2 \in 1..Len(b) /\ \A i \in 1..Len(a) : i + 2 \in 1..Len(b)
        BY <3>1
      <4>2. p[1] = b[1] /\ p[2] = b[2] /\ \A i \in 1..Len(a) : p[i + 2] = b[i + 2]
        BY <2>3, <4>1, Zenon
      <4> QED BY <2>1, <4>2, Zenon
    <3>3. /\ Len(p) = Len(a) + 5 /\ Len(b) + 1 = Len(a) + 3 /\ Len(b) + 2 = Len(a) + 4
          /\ Len(b) + 3 = Len(a) + 5
      BY <2>3, <3>1
    <3>4. p[Len(b) + 1] = c[1] /\ p[Len(b) + 2] = c[2] /\ p[Len(b) + 3] = c[3]
      BY <2>3
    <3> QED BY <2>2, <2>3, <3>2, <3>3, <3>4, Zenon DEF IsKeyPrefix
  <2> QED BY <2>4 DEF p, b, c
<1>2. /\ IsKeyPrefix(<<116, 47>> \o a \o <<47, 100, 47>>, a, 100)
      /\ IsKeyPrefix(<<116, 47>> \o a \o <<47, 120, 47>>, a, 120)
      /\ IsKeyPrefix(<<116, 47>> \o a \o <<47, 109, 47>>, a, 109)
  BY <1>1
<1>3. (<<116, 47>> \o a \o <<47, 109, 47>>) \o <<>> = <<116, 47>> \o a \o <<47, 109, 47>>
  BY <1>2, ConcatEmptySeq, Zenon DEF IsKeyPrefix
<1> QED BY <1>2, <1>3, Zenon DEF K!pendingPrefix, K!deadPrefix, K!metaKey, K!Slash

\* Where no name has the separator in it, a prefix that is the beginning of
\* another is that other, and belongs to the same stream.
LEMMA PrefixesApart ==
    ASSUME NEW a \in Seq(Int), NEW b \in Seq(Int), NEW p, NEW q, NEW x, NEW y,
           IsKeyPrefix(p, a, x), IsKeyPrefix(q, b, y), K!HasPrefix(q, p),
           \A i \in 1..Len(b) : b[i] # 47
    PROVE  p = q /\ a = b
<1>0. Len(a) \in Nat /\ Len(b) \in Nat /\ p \in Seq(Int) /\ q \in Seq(Int)
  BY DEF IsKeyPrefix
<1>1. Len(p) <= Len(q) /\ \A i \in 1..Len(p) : q[i] = p[i]
  BY <1>0 DEF K!HasPrefix, K!First
<1>2. ~(Len(a) < Len(b))
  <2> SUFFICES ASSUME Len(a) < Len(b) PROVE FALSE
    OBVIOUS
  <2>1. q[Len(a) + 3] = 47
    <3>1. Len(p) = Len(a) + 5 /\ p[Len(a) + 3] = 47
      BY DEF IsKeyPrefix
    <3>2. Len(a) + 3 \in 1..Len(p)
      BY <1>0, <3>1
    <3> QED BY <1>1, <3>1, <3>2
  <2>2. Len(a) + 1 \in 1..Len(b) /\ (Len(a) + 1) + 2 = Len(a) + 3
    BY <1>0
  <2>3. q[(Len(a) + 1) + 2] = b[Len(a) + 1]
    BY <2>2, Zenon DEF IsKeyPrefix
  <2> QED BY <2>1, <2>2, <2>3
<1>3. Len(a) = Len(b) /\ Len(p) = Len(q)
  BY <1>0, <1>1, <1>2 DEF IsKeyPrefix
<1>4. p = q
  <2>1. \A i \in 1..Len(p) : p[i] = q[i]
    BY <1>1
  <2> QED BY <1>0, <1>3, <2>1, SeqEqual
<1>5. ASSUME NEW i \in 1..Len(a) PROVE a[i] = b[i]
  BY <1>3, <1>4 DEF IsKeyPrefix
<1> QED BY <1>3, <1>4, <1>5

\* Streams whose names New accepts share no key, and the keys of one stream are
\* of one kind each, for names of any length.
THEOREM KeysSeparate == Spec => []KeysApart
<1>1. SubjectInv => KeysApart
  <2> SUFFICES ASSUME SubjectInv, subject.kind = "names",
                      K!ValidateStreamName(subject.one), K!ValidateStreamName(subject.other)
               PROVE  KeysApart
    BY DEF KeysApart
  <2> DEFINE a == subject.one
             b == subject.other
             Of(name) == {K!pendingPrefix(name), K!deadPrefix(name), K!metaKey(name, <<>>)}
  <2>1. a \in Seq(Int) /\ b \in Seq(Int)
    <3>1. a \in Letters /\ b \in Letters
      BY Kinds DEF SubjectInv, Names
    <3>2. MaxName \in Nat /\ Alphabet \subseteq Int
      BY BoundAssumption
    <3> QED BY <3>1, <3>2, UpToSeq, SeqMonotonic, Zenon DEF Letters
  <2>2. \A i \in 1..Len(b) : b[i] # 47
    <3>1. DOMAIN b = 1..Len(b) /\ \A i \in DOMAIN b : b[i] \in K!NameByte
      BY <2>1 DEF K!ValidateStreamName
    <3>2. 47 \notin K!NameByte
      BY DEF K!NameByte
    <3> QED BY <3>1, <3>2, Zenon
  <2> HIDE DEF a, b
  <2>3. /\ \A p \in Of(a) : \E x : IsKeyPrefix(p, a, x)
        /\ \A q \in Of(b) : \E y : IsKeyPrefix(q, b, y)
    BY <2>1, KeyPrefix
  <2> HIDE DEF Of
  <2>4. ASSUME NEW p \in Of(a), NEW q \in Of(b), K!HasPrefix(q, p)
        PROVE  p = q /\ a = b
    <3>1. PICK x, y : IsKeyPrefix(p, a, x) /\ IsKeyPrefix(q, b, y)
      BY <2>3
    <3> QED BY <2>1, <2>2, <2>4, <3>1, PrefixesApart
  <2>5. ASSUME NEW p \in Of(a) PROVE K!HasPrefix(p, p)
    <3>1. p \in Seq(Int)
      BY <2>3 DEF IsKeyPrefix
    <3> QED BY <3>1 DEF K!HasPrefix, K!First
  <2>6. a # b => Of(a) \cap Of(b) = {}
    BY <2>4, <2>5
  <2> QED BY <2>4, <2>6, Zenon DEF KeysApart, Of, a, b
<1> QED BY <1>1, SubjectsKept, PTL

-----------------------------------------------------------------------------
(***************************************************************************)
(* Options.                                                                *)
(***************************************************************************)
\* A field is taken from the first layer that sets it.
LEMMA FirstSet ==
    ASSUME NEW layers, NEW f, DOMAIN layers \in SUBSET Nat, NEW k \in DOMAIN layers,
           layers[k][f] # 0, \A i \in DOMAIN layers : i < k => layers[i][f] = 0
    PROVE  Min({i \in DOMAIN layers : layers[i][f] # 0}) = k
<1> DEFINE set == {i \in DOMAIN layers : layers[i][f] # 0}
<1>1. set \in SUBSET Nat /\ k \in set
  OBVIOUS
<1>2. Min(set) \in set /\ Min(set) <= k
  <2> HIDE DEF set
  <2> QED BY <1>1, MinNat
<1>3. Min(set) \in DOMAIN layers /\ ~(Min(set) < k)
  BY <1>2
<1>4. Min(set) \in Nat /\ k \in Nat
  BY <1>3
<1> HIDE DEF set
<1>5. Min(set) = k
  BY <1>2, <1>3, <1>4
<1> QED BY <1>5 DEF set

\* One layer before two others.
LEMMA Prepended ==
    ASSUME NEW x, NEW y, NEW z
    PROVE  <<x>> \o <<y, z>> = <<x, y, z>>
<1> DEFINE S == {x, y, z}
           s == <<x>>
           t == <<y, z>>
           u == <<x, y, z>>
<1>1. s \in Seq(S) /\ t \in Seq(S) /\ u \in Seq(S)
  OBVIOUS
<1>2. Len(s) = 1 /\ Len(t) = 2 /\ Len(u) = 3 /\ u[1] = s[1] /\ u[2] = t[1] /\ u[3] = t[2]
  OBVIOUS
<1> HIDE DEF S, s, t, u
<1>3. /\ s \o t \in Seq(S) /\ Len(s \o t) = 3
      /\ (s \o t)[1] = s[1] /\ (s \o t)[2] = t[1] /\ (s \o t)[3] = t[2]
  <2>1. /\ s \o t \in Seq(S) /\ Len(s \o t) = Len(s) + Len(t)
        /\ \A i \in 1..Len(s) : (s \o t)[i] = s[i]
        /\ \A i \in 1..Len(t) : (s \o t)[Len(s) + i] = t[i]
    BY <1>1, Concat
  <2>2. (s \o t)[1 + 1] = t[1] /\ (s \o t)[1 + 2] = t[2] /\ (s \o t)[1] = s[1]
    BY <1>2, <2>1
  <2> QED BY <1>2, <2>1, <2>2
<1>4. s \o t = u
  BY <1>1, <1>2, <1>3, SeqEqual
<1> QED BY <1>4 DEF s, t, u

\* What validateLogConfig accepts, a dispatcher accepts.
LEMMA ValidAccepted ==
    ASSUME NEW config, O!validateLogConfig(config)
    PROVE  O!DispatcherAccepts(config)
BY DEF O!validateLogConfig, O!DispatcherAccepts, O!Limits

\* Options with overrides for the logs named in N.
OptionsOver(N) ==
    [Dir : BOOLEAN, DefaultLog : [O!Fields -> Int], Logs : [N -> [O!Fields -> Int]],
     MaintenanceInterval : Int, Ratio : Int]

\* Any options that New accepts, for any log: Open takes a field from the
\* override, then from the default of the factory, then from the defaults of the
\* program, and dispatch.New accepts the result.
THEOREM OpenLayers ==
    ASSUME NEW N, NEW o \in OptionsOver(N), O!NewAccepts(o), NEW name
    PROVE  LET config == O!OpenConfig(o, o.Logs, name) IN
           /\ O!DispatcherAccepts(config)
           /\ \A f \in O!Fields :
                config[f] = IF name \in N /\ o.Logs[name][f] # 0 THEN o.Logs[name][f]
                            ELSE IF o.DefaultLog[f] # 0 THEN o.DefaultLog[f] ELSE Defaults[f]
<1> DEFINE default == O!normalizeLogConfig(o.DefaultLog)
           config == O!OpenConfig(o, o.Logs, name)
<1>1. O!Normalized(o).Logs = o.Logs /\ O!Normalized(o).DefaultLog = default /\ DOMAIN o.Logs = N
  BY DEF O!Normalized, OptionsOver
<1>2. config = IF name \in N THEN O!mergeLogConfig(o.Logs[name], default) ELSE default
  BY <1>1 DEF O!OpenConfig
<1>3. O!validateLogConfig(config)
  BY <1>1, <1>2 DEF O!NewAccepts, O!validateOptions
<1>4. ASSUME NEW f \in O!Fields
      PROVE  /\ default[f] = IF o.DefaultLog[f] = 0 THEN Defaults[f] ELSE o.DefaultLog[f]
             /\ O!mergeLogConfig(o.Logs[name], default)[f] =
                  IF o.Logs[name][f] = 0 THEN default[f] ELSE o.Logs[name][f]
  BY DEF O!normalizeLogConfig, O!mergeLogConfig
<1> HIDE DEF config, default
<1>5. ASSUME NEW f \in O!Fields
      PROVE  config[f] = IF name \in N /\ o.Logs[name][f] # 0 THEN o.Logs[name][f]
                         ELSE IF o.DefaultLog[f] # 0 THEN o.DefaultLog[f] ELSE Defaults[f]
  BY <1>2, <1>4, Zenon
<1> QED BY <1>3, <1>5, ValidAccepted DEF config

\* Whatever options New accepts, and whatever becomes of the caller's map, Open
\* gives a log the configuration that was asked for it, and dispatch.New
\* accepts that configuration.
THEOREM OpensAccepted == Spec => []AcceptedOpens
<1>1. SubjectInv => AcceptedOpens
  <2> SUFFICES ASSUME SubjectInv, subject.kind = "factory", O!NewAccepts(subject.given),
                      NEW name \in {"a", "b"}
               PROVE  LET logs == O!cloneLogConfigs(subject.given.Logs, subject.now)
                          config == O!OpenConfig(subject.given, logs, name)
                          asked == IF name = "a" THEN <<subject.given.Logs["a"]>> ELSE <<>>
                          layers == asked \o <<subject.given.DefaultLog, Defaults>>
                      IN  /\ O!DispatcherAccepts(config)
                          /\ \A f \in O!Fields :
                               config[f] = layers[Min({i \in DOMAIN layers : layers[i][f] # 0})][f]
    BY Zenon DEF AcceptedOpens
  <2> DEFINE o == subject.given
             x == o.Logs["a"]
             y == o.DefaultLog
             config == O!OpenConfig(o, o.Logs, name)
             asked == IF name = "a" THEN <<x>> ELSE <<>>
             layers == asked \o <<y, Defaults>>
  <2>0. o \in GivenOptions /\ O!NewAccepts(o)
    BY Kinds DEF SubjectInv
  <2> HIDE DEF o
  <2>1. o \in OptionsOver({"a"})
    <3>1. PICK c \in Configs, d \in Overrides, r \in {0, 5, 10} :
             o = O!WithLog([Dir |-> TRUE, DefaultLog |-> c, Logs |-> <<>>,
                            MaintenanceInterval |-> 0, Ratio |-> r], "a", d)
      BY <2>0 DEF GivenOptions
    <3>2. [n \in DOMAIN <<>> \cup {"a"} |-> IF n = "a" THEN d ELSE <<>>[n]] = [n \in {"a"} |-> d]
      OBVIOUS
    <3>3. o = [Dir |-> TRUE, DefaultLog |-> c, Logs |-> [n \in {"a"} |-> d],
               MaintenanceInterval |-> 0, Ratio |-> r]
      BY <3>1, <3>2, Zenon DEF O!WithLog
    <3>4. c \in [O!Fields -> Int] /\ d \in [O!Fields -> Int]
      BY DEF Configs, Overrides
    <3> QED BY <3>3, <3>4 DEF OptionsOver
  <2>2. /\ O!DispatcherAccepts(config)
        /\ \A f \in O!Fields :
             config[f] = IF name \in {"a"} /\ o.Logs[name][f] # 0 THEN o.Logs[name][f]
                         ELSE IF y[f] # 0 THEN y[f] ELSE Defaults[f]
    BY <2>0, <2>1, OpenLayers
  <2>3. ASSUME NEW f \in O!Fields
        PROVE  config[f] = layers[Min({i \in DOMAIN layers : layers[i][f] # 0})][f]
    <3>1. config[f] = IF name = "a" /\ x[f] # 0 THEN x[f]
                      ELSE IF y[f] # 0 THEN y[f] ELSE Defaults[f]
      BY <2>2
    <3>2. Defaults[f] # 0
      BY DEF Defaults, O!Fields, O!Limits
    <3>3. layers = IF name = "a" THEN <<x, y, Defaults>> ELSE <<y, Defaults>>
      <4>1. <<x>> \o <<y, Defaults>> = <<x, y, Defaults>>
        BY Prepended, Zenon
      <4>2. <<>> \o <<y, Defaults>> = <<y, Defaults>>
        OBVIOUS
      <4> QED BY <4>1, <4>2, Zenon
    <3> HIDE DEF x, y, config, layers
    <3>4. PICK k \in DOMAIN layers :
            /\ config[f] = layers[k][f] /\ DOMAIN layers \in SUBSET Nat /\ layers[k][f] # 0
            /\ \A i \in DOMAIN layers : i < k => layers[i][f] = 0
      <4>1. CASE name = "a"
        <5>1. DOMAIN layers = 1..3 /\ layers[1] = x /\ layers[2] = y /\ layers[3] = Defaults
          BY <3>3, <4>1
        <5> DEFINE k == IF x[f] # 0 THEN 1 ELSE IF y[f] # 0 THEN 2 ELSE 3
        <5> QED BY <3>1, <3>2, <4>1, <5>1 DEF k
      <4>2. CASE name # "a"
        <5>1. DOMAIN layers = 1..2 /\ layers[1] = y /\ layers[2] = Defaults
          BY <3>3, <4>2
        <5> QED BY <3>1, <3>2, <4>2, <5>1
      <4> QED BY <4>1, <4>2
    <3>5. Min({i \in DOMAIN layers : layers[i][f] # 0}) = k
      BY <3>4, FirstSet
    <3> QED BY <3>4, <3>5
  <2> QED BY <2>2, <2>3, Zenon DEF O!cloneLogConfigs, o
<1> QED BY <1>1, SubjectsKept, PTL

-----------------------------------------------------------------------------
(***************************************************************************)
(* Numbers and their digits.                                               *)
(***************************************************************************)
\* The quotient is the one number with this property.
LEMMA Quotient ==
    ASSUME NEW n \in Nat, NEW d \in Nat \ {0}, NEW q \in Nat, q * d <= n, n < (q + 1) * d
    PROVE  n \div d = q
<1> DEFINE p == n \div d
<1>1. p \in Nat /\ p * d <= n /\ n < (p + 1) * d
  BY Division
<1> HIDE DEF p
<1>2. ASSUME p < q PROVE FALSE
  <2>1. (p + 1) * d <= q * d
    BY <1>1, <1>2, Monotone
  <2> QED BY <1>1, <2>1
<1>3. ASSUME q < p PROVE FALSE
  <2>1. (q + 1) * d <= p * d
    BY <1>1, <1>3, Monotone
  <2> QED BY <1>1, <2>1
<1>4. p = q
  BY <1>1, <1>2, <1>3
<1> QED BY <1>4 DEF p

\* The remainder too.
LEMMA Remainder ==
    ASSUME NEW q \in Nat, NEW d \in Nat \ {0}, NEW r \in 0..(d - 1)
    PROVE  (q * d + r) % d = r
<1> DEFINE n == q * d + r
<1>1. n \in Nat /\ q * d <= n /\ n < (q + 1) * d
  OBVIOUS
<1> HIDE DEF n
<1>2. n \div d = q
  BY <1>1, Quotient
<1>3. n = (n \div d) * d + (n % d) /\ n % d \in Int
  BY <1>1, Division
<1>4. n % d = r
  BY <1>2, <1>3 DEF n
<1> QED BY <1>4 DEF n

\* To divide by a product is to divide twice.
LEMMA DivideTwice ==
    ASSUME NEW n \in Nat, NEW b \in Nat \ {0}, NEW p \in Nat \ {0}
    PROVE  n \div (b * p) = (n \div p) \div b
<1> DEFINE x == n \div p
           y == x \div b
<1>1. x \in Nat /\ x * p <= n /\ n < (x + 1) * p
  BY Division
<1>2. y \in Nat /\ y * b <= x /\ x < (y + 1) * b
  <2> HIDE DEF x
  <2> QED BY <1>1, Division
<1> HIDE DEF x, y
<1>3. b * p \in Nat \ {0}
  OBVIOUS
<1>4. (y * b) * p <= x * p
  BY <1>1, <1>2, Monotone
<1>5. (x + 1) * p <= ((y + 1) * b) * p
  <2>1. x + 1 <= (y + 1) * b /\ (y + 1) * b \in Nat /\ x + 1 \in Nat
    BY <1>1, <1>2
  <2> HIDE DEF x
  <2> QED BY <2>1, Monotone
<1>6. y * (b * p) = (y * b) * p /\ (y + 1) * (b * p) = ((y + 1) * b) * p
  BY <1>2
<1>7. y * (b * p) <= n /\ n < (y + 1) * (b * p)
  BY <1>1, <1>2, <1>4, <1>5, <1>6
<1>8. n \div (b * p) = y
  <2> DEFINE d == b * p
  <2> HIDE DEF d
  <2>1. d \in Nat \ {0} /\ y * d <= n /\ n < (y + 1) * d
    BY <1>3, <1>7 DEF d
  <2>2. n \div d = y
    BY <1>2, <2>1, Quotient
  <2> QED BY <2>2 DEF d
<1> QED BY <1>8 DEF x, y

\* v gives the values of the beginnings of d.
IsValue(d, v) == v = [i \in 0..Len(d) |-> IF i = 0 THEN 0 ELSE v[i - 1] * Base + d[i]]

\* Uint looks up the last of them.
LEMMA UintForm ==
    ASSUME NEW d
    PROVE  Uint(d) = (CHOOSE v : IsValue(d, v))[Len(d)]
BY Zenon DEF Uint, IsValue

\* h reads the digits of d one by one.
Reads(d, h) ==
    /\ \A i \in Nat : h[i] \in Nat
    /\ h[0] = 0 /\ \A i \in 0..(Len(d) - 1) : h[i + 1] = h[i] * Base + d[i + 1]
    /\ Uint(d) = h[Len(d)]

\* There is such a function.
LEMMA UintReads ==
    ASSUME NEW d \in Seq(Byte)
    PROVE  \E h : Reads(d, h)
<1> DEFINE n == Len(d)
           G == [i \in Nat |-> [v \in Nat |-> IF i < n THEN v * Base + d[i + 1] ELSE 0]]
<1>0. n \in Nat /\ Base \in Nat
  BY WidthAssumption, LenProperties
<1>1. ASSUME NEW i \in Nat, i < n PROVE d[i + 1] \in Nat
  <2>1. i + 1 \in 1..n
    BY <1>0, <1>1
  <2>2. d[i + 1] \in Byte
    BY <2>1, ElementOfSeq
  <2> QED BY <1>0, <2>2 DEF Byte
<1>2. G \in [Nat -> [Nat -> Nat]]
  <2>1. ASSUME NEW i \in Nat, NEW v \in Nat
        PROVE  (IF i < n THEN v * Base + d[i + 1] ELSE 0) \in Nat
    BY <1>0, <1>1
  <2> QED BY <2>1, Zenon
<1> HIDE DEF n
<1>3. PICK h : GoesOn(Nat, 0, G, h)
  <2>1. 0 \in Nat
    OBVIOUS
  <2> HIDE DEF G
  <2> QED BY <1>2, <2>1, Recursion, Zenon
<1>4. h[0] = 0 /\ \A i \in Nat : h[i] \in Nat
  BY <1>3 DEF GoesOn
<1>5. ASSUME NEW i \in Nat, i < n PROVE h[i + 1] = h[i] * Base + d[i + 1]
  BY <1>3, <1>5, Zenon DEF GoesOn
<1> HIDE DEF G
<1> DEFINE q == [i \in 0..n |-> h[i]]
           p == CHOOSE v : IsValue(d, v)
<1>6. ASSUME NEW i \in 0..n PROVE q[i] = IF i = 0 THEN 0 ELSE q[i - 1] * Base + d[i]
  <2>1. CASE i = 0
    BY <1>0, <1>4, <2>1
  <2>2. CASE i # 0
    <3>1. i - 1 \in Nat /\ i - 1 < n /\ i - 1 \in 0..n /\ (i - 1) + 1 = i
      BY <1>0, <2>2
    <3>2. h[i] = h[i - 1] * Base + d[i]
      BY <1>5, <3>1
    <3> QED BY <2>2, <3>1, <3>2
  <2> QED BY <2>1, <2>2
<1>7. IsValue(d, q)
  BY <1>6 DEF IsValue, n
<1>8. IsValue(d, p)
  BY <1>7
<1> HIDE DEF p, q
<1> DEFINE T == {i \in Nat : i <= n => p[i] = h[i]}
<1>9. 0 \in T
  BY <1>0, <1>4, <1>8 DEF IsValue, n
<1>10. ASSUME NEW i \in Nat, i \in T PROVE i + 1 \in T
  <2> SUFFICES ASSUME i + 1 <= n PROVE p[i + 1] = h[i + 1]
    OBVIOUS
  <2>1. i + 1 \in 0..n /\ i + 1 # 0 /\ (i + 1) - 1 = i /\ p[i] = h[i] /\ i < n
    BY <1>0, <1>10
  <2>2. p[i + 1] = p[i] * Base + d[i + 1]
    BY <1>8, <2>1 DEF IsValue, n
  <2> QED BY <1>5, <2>1, <2>2
<1> HIDE DEF T
<1>11. Nat \subseteq T
  BY <1>9, <1>10, NatSet
<1>12. p[n] = h[n]
  BY <1>0, <1>11 DEF T
<1>13. Uint(d) = h[n]
  BY <1>12, UintForm DEF p, n
<1>14. \A i \in 0..(n - 1) : h[i + 1] = h[i] * Base + d[i + 1]
  BY <1>0, <1>5
<1>15. Reads(d, h)
  BY <1>4, <1>13, <1>14 DEF Reads, n
<1> QED BY <1>15

\* The powers of the base.
LEMMA BasePower ==
    /\ Base \in Nat /\ Base > 1 /\ Power(Base, 0) = 1
    /\ \A n \in Nat : Power(Base, n) \in Nat \ {0} /\ Power(Base, n + 1) = Base * Power(Base, n)
BY WidthAssumption, PowerStep, PowerPositive

\* A number that has width digits is what they read as.
LEMMA UintOfDigits ==
    ASSUME NEW width \in Nat, NEW n \in 0..(Power(Base, width) - 1)
    PROVE  /\ AppendUint(width, n) \in Seq(Byte) /\ Len(AppendUint(width, n)) = width
           /\ Uint(AppendUint(width, n)) = n
<1> DEFINE d == AppendUint(width, n)
<1>0. n \in Nat /\ n < Power(Base, width)
  BY BasePower
<1>1. ASSUME NEW i \in 1..width
      PROVE  /\ width - i \in Nat /\ d[i] = (n \div Power(Base, width - i)) % Base
             /\ n \div Power(Base, width - i) \in Nat
             /\ d[i] \in 0..(Base - 1)
  <2>1. width - i \in Nat /\ d[i] = (n \div Power(Base, width - i)) % Base
    BY DEF AppendUint
  <2> DEFINE p == Power(Base, width - i)
  <2>2. p \in Nat \ {0} /\ Base \in Nat \ {0}
    BY <2>1, BasePower
  <2> HIDE DEF p, d
  <2>3. n \div p \in Nat
    BY <1>0, <2>2, Division, Zenon
  <2>4. (n \div p) % Base \in 0..(Base - 1)
    BY <2>2, <2>3, Division
  <2> QED BY <2>1, <2>3, <2>4 DEF p
<1>2. d \in Seq(Byte) /\ Len(d) = width
  BY <1>1 DEF AppendUint, Byte
<1> HIDE DEF d
<1>3. PICK h : Reads(d, h)
  BY <1>2, UintReads
<1> DEFINE T == {i \in Nat : i <= width => h[i] = n \div Power(Base, width - i)}
<1>4. 0 \in T
  <2>1. Power(Base, width) \in Nat \ {0}
    BY BasePower
  <2>2. 0 * Power(Base, width) <= n /\ n < (0 + 1) * Power(Base, width)
    BY <1>0, <2>1
  <2>3. n \div Power(Base, width) = 0
    BY <1>0, <2>1, <2>2, Quotient
  <2> QED BY <1>3, <2>3 DEF Reads
<1>5. ASSUME NEW i \in Nat, i \in T PROVE i + 1 \in T
  <2> SUFFICES ASSUME i + 1 <= width PROVE h[i + 1] = n \div Power(Base, width - (i + 1))
    OBVIOUS
  <2> DEFINE p == Power(Base, width - (i + 1))
             m == n \div p
  <2>1. i + 1 \in 1..width /\ i \in 0..(width - 1) /\ width - (i + 1) \in Nat
        /\ (width - (i + 1)) + 1 = width - i
    OBVIOUS
  <2>2. p \in Nat \ {0} /\ Power(Base, width - i) = Base * p /\ Base \in Nat \ {0}
    BY <2>1, BasePower
  <2>3. h[i] = n \div (Base * p)
    BY <1>5, <2>2
  <2>4. m \in Nat /\ d[i + 1] = m % Base
    BY <1>1, <2>1
  <2> HIDE DEF p
  <2>5. h[i] = m \div Base
    BY <1>0, <2>2, <2>3, DivideTwice
  <2> HIDE DEF m
  <2>6. m = (m \div Base) * Base + (m % Base)
    BY <2>2, <2>4, Division, Zenon
  <2>7. h[i + 1] = h[i] * Base + d[i + 1]
    BY <1>2, <1>3, <2>1 DEF Reads
  <2>8. h[i + 1] = m
    BY <2>4, <2>5, <2>6, <2>7
  <2> QED BY <2>8 DEF m, p
<1> HIDE DEF T
<1>6. Nat \subseteq T
  BY <1>4, <1>5, NatSet
<1>7. h[width] = n \div Power(Base, width - width)
  BY <1>6 DEF T
<1>8. h[width] = n
  BY <1>0, <1>7, BasePower
<1> QED BY <1>2, <1>3, <1>8 DEF Reads, d

\* What is read from i on stays between the multiples that the number read so
\* far allows.
LEMMA ReadsBetween ==
    ASSUME NEW d \in Seq(Byte), NEW h, Reads(d, h), NEW i \in 0..Len(d)
    PROVE  \A k \in Nat : k <= Len(d) - i =>
             /\ h[i] * Power(Base, k) <= h[i + k]
             /\ h[i + k] < (h[i] + 1) * Power(Base, k)
<1> DEFINE T == {k \in Nat : k <= Len(d) - i =>
                   /\ h[i] * Power(Base, k) <= h[i + k]
                   /\ h[i + k] < (h[i] + 1) * Power(Base, k)}
<1>0. Len(d) \in Nat /\ i \in Nat /\ h[i] \in Nat
  BY LenProperties DEF Reads
<1>1. 0 \in T
  <2>1. Power(Base, 0) = 1
    BY BasePower
  <2>2. h[i + 0] = h[i] /\ h[i] * 1 = h[i] /\ (h[i] + 1) * 1 = h[i] + 1
    BY <1>0
  <2> QED BY <1>0, <2>1, <2>2
<1>2. ASSUME NEW k \in Nat, k \in T PROVE k + 1 \in T
  <2> SUFFICES ASSUME k + 1 <= Len(d) - i
               PROVE  /\ h[i] * Power(Base, k + 1) <= h[i + (k + 1)]
                      /\ h[i + (k + 1)] < (h[i] + 1) * Power(Base, k + 1)
    OBVIOUS
  <2> DEFINE a == h[i]
             b == h[i + k]
             c == d[(i + k) + 1]
             p == Power(Base, k)
  <2>1. /\ i + k \in 0..(Len(d) - 1) /\ i + k \in Nat /\ (i + k) + 1 \in 1..Len(d)
        /\ i + (k + 1) = (i + k) + 1
    BY <1>0
  <2>2. a \in Nat /\ b \in Nat /\ h[i + (k + 1)] = b * Base + c
    BY <2>1 DEF Reads
  <2>3. p \in Nat /\ Power(Base, k + 1) = Base * p /\ Base \in Nat
    BY BasePower, Zenon
  <2>4. c \in 0..(Base - 1)
    <3>1. c \in Byte
      BY <2>1, ElementOfSeq
    <3> QED BY <3>1 DEF Byte
  <2>5. a * p <= b /\ b < (a + 1) * p
    BY <1>0, <1>2
  <2> HIDE DEF a, b, c, p
  <2>6. a * p \in Nat /\ (a + 1) * p \in Nat /\ b + 1 <= (a + 1) * p
    BY <2>2, <2>3, <2>5
  <2>7. (a * p) * Base <= b * Base
    BY <2>2, <2>3, <2>5, <2>6, Monotone
  <2>8. (b + 1) * Base <= ((a + 1) * p) * Base
    BY <2>2, <2>3, <2>6, Monotone
  <2>9. a * (Base * p) = (a * p) * Base /\ (a + 1) * (Base * p) = ((a + 1) * p) * Base
    BY <2>2, <2>3
  <2>10. b * Base + c < (b + 1) * Base /\ b * Base <= b * Base + c
    BY <2>2, <2>3, <2>4
  <2>11. a * (Base * p) <= b * Base + c /\ b * Base + c < (a + 1) * (Base * p)
    <3> DEFINE x == b * Base
               y == (b + 1) * Base
               u == (a * p) * Base
               v == ((a + 1) * p) * Base
    <3>1. x \in Nat /\ y \in Nat /\ u \in Nat /\ v \in Nat /\ c \in Nat
      BY <2>2, <2>3, <2>4, <2>6
    <3>2. u <= x /\ y <= v /\ x + c < y /\ x <= x + c
      BY <2>7, <2>8, <2>10
    <3>3. u <= x + c /\ x + c < v
      <4> HIDE DEF x, y, u, v
      <4> QED BY <3>1, <3>2
    <3> QED BY <2>9, <3>3
  <2> QED BY <2>2, <2>3, <2>11 DEF a
<1> HIDE DEF T
<1>3. Nat \subseteq T
  BY <1>1, <1>2, NatSet
<1> QED BY <1>3 DEF T

\* Digits are those of the number they read as.
LEMMA DigitsOfUint ==
    ASSUME NEW width \in Nat, NEW d \in Seq(Byte), Len(d) = width
    PROVE  Uint(d) \in 0..(Power(Base, width) - 1) /\ AppendUint(width, Uint(d)) = d
<1>1. PICK h : Reads(d, h)
  BY UintReads
<1>2. Uint(d) = h[width] /\ \A i \in Nat : h[i] \in Nat
  BY <1>1 DEF Reads
<1>3. Power(Base, width) \in Nat
  BY BasePower
<1>4. Uint(d) \in 0..(Power(Base, width) - 1)
  <2>1. 0 \in 0..Len(d) /\ width <= Len(d) - 0 /\ 0 + width = width
    OBVIOUS
  <2>2. h[width] < (h[0] + 1) * Power(Base, width) /\ h[0] = 0
    BY <1>1, <2>1, ReadsBetween, Zenon DEF Reads
  <2> QED BY <1>2, <1>3, <2>2
<1> DEFINE u == Uint(d)
<1>5. u \in Nat
  BY <1>2
<1>6. ASSUME NEW j \in 1..width PROVE (u \div Power(Base, width - j)) % Base = d[j]
  <2> DEFINE p == Power(Base, width - j)
  <2>1. /\ j \in 0..Len(d) /\ width - j \in Nat /\ width - j <= Len(d) - j
        /\ j + (width - j) = width /\ j - 1 \in 0..(Len(d) - 1) /\ (j - 1) + 1 = j
        /\ j - 1 \in Nat /\ j \in Nat
    OBVIOUS
  <2>2. h[j] * p <= h[width] /\ h[width] < (h[j] + 1) * p
    BY <1>1, <2>1, ReadsBetween
  <2>3. p \in Nat \ {0} /\ Base \in Nat \ {0}
    <3>1. \A n \in Nat : Power(Base, n) \in Nat \ {0}
      BY BasePower, Zenon
    <3>2. Base \in Nat \ {0}
      BY BasePower
    <3> QED BY <2>1, <3>1, <3>2, Zenon
  <2>4. h[j] = h[j - 1] * Base + d[j] /\ h[j] \in Nat /\ h[j - 1] \in Nat
    BY <1>1, <2>1 DEF Reads
  <2>5. d[j] \in 0..(Base - 1)
    <3>1. d[j] \in Byte
      BY ElementOfSeq
    <3> QED BY <3>1 DEF Byte
  <2> HIDE DEF p, u
  <2>6. u \div p = h[j]
    BY <1>2, <1>5, <2>2, <2>3, <2>4, Quotient, Zenon DEF u
  <2>7. h[j] % Base = d[j]
    BY <2>3, <2>4, <2>5, Remainder, Zenon
  <2> QED BY <2>6, <2>7 DEF p
<1>7. AppendUint(width, u) = d
  <2> HIDE DEF u
  <2>1. AppendUint(width, u) = [i \in 1..width |-> d[i]]
    BY <1>6 DEF AppendUint
  <2>2. d = [i \in 1..width |-> d[i]]
    OBVIOUS
  <2> QED BY <2>1, <2>2
<1> QED BY <1>4, <1>7

-----------------------------------------------------------------------------
(***************************************************************************)
(* Stored records.                                                         *)
(***************************************************************************)
\* The first n elements, and those behind them.
LEMMA Pieces ==
    ASSUME NEW S, NEW u \in Seq(S), NEW n \in 0..Len(u)
    PROVE  /\ First(u, n) \in Seq(S) /\ Len(First(u, n)) = n
           /\ \A i \in 1..n : First(u, n)[i] = u[i]
           /\ Rest(u, n) \in Seq(S) /\ Len(Rest(u, n)) = Len(u) - n
           /\ \A i \in 1..(Len(u) - n) : Rest(u, n)[i] = u[n + i]
           /\ First(u, n) \o Rest(u, n) = u
<1>0. Len(u) \in Nat /\ n \in Nat /\ n <= Len(u)
  BY LenProperties
<1>1. \A i \in 1..Len(u) : u[i] \in S
  BY ElementOfSeq
<1>2. /\ First(u, n) \in Seq(S) /\ Len(First(u, n)) = n
      /\ \A i \in 1..n : First(u, n)[i] = u[i]
  <2>1. \A i \in 1..n : u[i] \in S
    BY <1>0, <1>1
  <2>2. /\ SubSeq(u, 1, n) \in Seq(S)
        /\ Len(SubSeq(u, 1, n)) = IF 1 <= n THEN n - 1 + 1 ELSE 0
        /\ \A i \in 1..(n - 1 + 1) : SubSeq(u, 1, n)[i] = u[1 + i - 1]
    BY <1>0, <2>1, SubSeqProperties
  <2> QED BY <1>0, <2>2 DEF First
<1>3. /\ Rest(u, n) \in Seq(S) /\ Len(Rest(u, n)) = Len(u) - n
      /\ \A i \in 1..(Len(u) - n) : Rest(u, n)[i] = u[n + i]
  <2> DEFINE m == Len(u)
  <2>1. \A i \in (n + 1)..m : u[i] \in S
    BY <1>0, <1>1
  <2>2. /\ SubSeq(u, n + 1, m) \in Seq(S)
        /\ Len(SubSeq(u, n + 1, m)) = IF n + 1 <= m THEN m - (n + 1) + 1 ELSE 0
        /\ \A i \in 1..(m - (n + 1) + 1) : SubSeq(u, n + 1, m)[i] = u[(n + 1) + i - 1]
    BY <1>0, <2>1, SubSeqProperties, SMTT(20)
  <2> QED BY <1>0, <2>2 DEF Rest
<1>4. First(u, n) \o Rest(u, n) = u
  <2>1. /\ 1 \in 1..(Len(u) + 1) /\ n \in (1 - 1)..Len(u) /\ Len(u) \in n..Len(u)
    BY <1>0
  <2>2. SubSeq(u, 1, n) \o SubSeq(u, n + 1, Len(u)) = SubSeq(u, 1, Len(u))
    BY <2>1, ConcatAdjacentSubSeq, Zenon
  <2>3. SubSeq(u, 1, Len(u)) = u
    BY SubSeqFull
  <2> QED BY <2>2, <2>3, Zenon DEF First, Rest
<1> QED BY <1>2, <1>3, <1>4, Zenon

\* What was put together comes apart.
LEMMA Cut ==
    ASSUME NEW S, NEW s \in Seq(S), NEW t \in Seq(S)
    PROVE  /\ First(s \o t, Len(s)) = s /\ Rest(s \o t, Len(s)) = t
           /\ s \o t \in Seq(S) /\ Len(s \o t) = Len(s) + Len(t)
<1> DEFINE u == s \o t
           n == Len(s)
<1>1. /\ u \in Seq(S) /\ n \in Nat /\ Len(t) \in Nat /\ Len(u) = n + Len(t)
      /\ \A i \in 1..n : u[i] = s[i]
      /\ \A i \in 1..Len(t) : u[n + i] = t[i]
  BY Concat
<1> HIDE DEF u
<1>2. n \in 0..Len(u) /\ Len(u) - n = Len(t)
  BY <1>1
<1> HIDE DEF n
<1>3. /\ First(u, n) \in Seq(S) /\ Len(First(u, n)) = n
      /\ \A i \in 1..n : First(u, n)[i] = u[i]
      /\ Rest(u, n) \in Seq(S) /\ Len(Rest(u, n)) = Len(u) - n
      /\ \A i \in 1..(Len(u) - n) : Rest(u, n)[i] = u[n + i]
  BY <1>1, <1>2, Pieces, Zenon
<1>4. First(u, n) = s
  <2>1. Len(First(u, n)) = Len(s) /\ \A i \in 1..Len(First(u, n)) : First(u, n)[i] = s[i]
    BY <1>1, <1>3 DEF n
  <2> QED BY <1>3, <2>1, SeqEqual
<1>5. Rest(u, n) = t
  <2>1. Len(Rest(u, n)) = Len(t) /\ \A i \in 1..Len(Rest(u, n)) : Rest(u, n)[i] = t[i]
    BY <1>1, <1>2, <1>3
  <2> QED BY <1>3, <2>1, SeqEqual, Zenon
<1> QED BY <1>1, <1>4, <1>5 DEF u, n

\* The readers: fields are numbers and byte strings.
Fields == Nat \cup Seq(Byte)
Readers == [ok : BOOLEAN, fields : Seq(Fields), data : Seq(Byte)]

\* The fields of a reader that has taken one more.
LEMMA Appended ==
    ASSUME NEW s \in Seq(Fields), NEW e \in Fields, NEW n \in Nat, Len(s) = n
    PROVE  /\ Append(s, e) \in Seq(Fields) /\ Len(Append(s, e)) = n + 1
           /\ Append(s, e)[n + 1] = e /\ \A i \in 1..n : Append(s, e)[i] = s[i]
BY AppendProperties

\* r has k fields.
Counts(r, k) == r.ok /\ r.fields \in Seq(Fields) /\ Len(r.fields) = k

\* t is r with one more field, and rest left.
TakenAs(r, t, k, x, rest) ==
    /\ Counts(t, k + 1) /\ t.data = rest /\ t.fields[k + 1] = x
    /\ \A i \in 1..k : t.fields[i] = r.fields[i]

\* Taken takes a field.
LEMMA TakesField ==
    ASSUME NEW r, NEW k \in Nat, Counts(r, k), NEW x \in Fields, NEW rest
    PROVE  TakenAs(r, Taken(r, x, rest), k, x, rest)
<1>1. PICK f \in Seq(Fields) : f = r.fields /\ Len(f) = k
  BY DEF Counts
<1>2. /\ Append(f, x) \in Seq(Fields) /\ Len(Append(f, x)) = k + 1
      /\ Append(f, x)[k + 1] = x /\ \A i \in 1..k : Append(f, x)[i] = f[i]
  BY <1>1, Appended
<1>3. Taken(r, x, rest) = [ok |-> TRUE, fields |-> Append(f, x), data |-> rest]
  BY <1>1 DEF Taken
<1> QED BY <1>1, <1>2, <1>3 DEF TakenAs, Counts

\* A number at the front of the data is read.
LEMMA ReadsUint ==
    ASSUME NEW r, NEW k \in Nat, Counts(r, k), NEW n \in 0..(Uints - 1),
           NEW rest \in Seq(Byte), r.data = AppendUint(Wide, n) \o rest
    PROVE  TakenAs(r, readUint64(r), k, n, rest)
<1> DEFINE d == AppendUint(Wide, n)
<1>1. d \in Seq(Byte) /\ Len(d) = Wide /\ Uint(d) = n
  BY WidthAssumption, UintOfDigits DEF Uints
<1> HIDE DEF d
<1>2. /\ First(d \o rest, Wide) = d /\ Rest(d \o rest, Wide) = rest
      /\ Len(d \o rest) = Wide + Len(rest)
  BY <1>1, Cut, Zenon
<1>3. Len(rest) \in Nat /\ Wide \in Nat
  BY WidthAssumption, LenProperties
<1>4. ~(Len(d \o rest) < Wide)
  BY <1>2, <1>3
<1>5. r.data = d \o rest
  BY DEF d
<1>6. readUint64(r) = Taken(r, n, rest)
  BY <1>1, <1>2, <1>4, <1>5 DEF readUint64, Counts
<1>7. n \in Fields
  <2>1. Uints \in Nat
    BY <1>3, BasePower DEF Uints
  <2> QED BY <2>1 DEF Fields
<1> QED BY <1>6, <1>7, TakesField, Zenon

\* A byte string behind its length is read.
LEMMA ReadsString ==
    ASSUME NEW r, NEW k \in Nat, Counts(r, k), NEW width \in Nat, NEW s \in Seq(Byte),
           Len(s) < Power(Base, width), NEW rest \in Seq(Byte),
           r.data = (AppendUint(width, Len(s)) \o s) \o rest
    PROVE  TakenAs(r, readString(r, width), k, s, rest)
<1> DEFINE d == AppendUint(width, Len(s))
<1>0. Len(s) \in Nat /\ Len(rest) \in Nat /\ Power(Base, width) \in Nat
  BY LenProperties, BasePower
<1>1. d \in Seq(Byte) /\ Len(d) = width /\ Uint(d) = Len(s)
  <2>1. Len(s) \in 0..(Power(Base, width) - 1)
    BY <1>0
  <2> QED BY <2>1, UintOfDigits
<1> HIDE DEF d
<1>2. r.data = d \o (s \o rest)
  <2>1. r.data = (d \o s) \o rest
    BY DEF d
  <2> QED BY <1>1, <2>1, ConcatAssociative, SMTT(20)
<1>3. /\ First(s \o rest, Len(s)) = s /\ Rest(s \o rest, Len(s)) = rest
      /\ s \o rest \in Seq(Byte) /\ Len(s \o rest) = Len(s) + Len(rest)
  BY Cut
<1> DEFINE t == s \o rest
<1> HIDE DEF t
<1>4. /\ First(d \o t, width) = d /\ Rest(d \o t, width) = t
      /\ Len(d \o t) = width + Len(t) /\ t \in Seq(Byte) /\ Len(t) = Len(s) + Len(rest)
  <2>1. t \in Seq(Byte) /\ Len(t) = Len(s) + Len(rest)
    BY <1>3 DEF t
  <2>2. /\ First(d \o t, Len(d)) = d /\ Rest(d \o t, Len(d)) = t
        /\ Len(d \o t) = Len(d) + Len(t)
    BY <1>1, <2>1, Cut, Zenon
  <2> QED BY <1>1, <2>1, <2>2
<1>5. ~(Len(d \o t) < width) /\ ~(Len(s) > Len(t))
  BY <1>0, <1>4
<1>6. r.data = d \o t /\ First(t, Len(s)) = s /\ Rest(t, Len(s)) = rest
  BY <1>2, <1>3 DEF t
<1>7. readString(r, width) = Taken(r, s, rest)
  BY <1>1, <1>4, <1>5, <1>6 DEF readString, Counts
<1>8. s \in Fields
  BY DEF Fields
<1> QED BY <1>7, <1>8, TakesField, Zenon

\* t is what is left of r once a number has been read off its data, or failed.
NumberRead(r, t) ==
    t.ok => /\ r.ok
            /\ \E n \in 0..(Uints - 1) :
                 t.fields = Append(r.fields, n) /\ r.data = AppendUint(Wide, n) \o t.data

\* t is what is left of r once a byte string has been read, or failed.
BytesRead(width, r, t) ==
    t.ok => /\ r.ok
            /\ \E s \in Seq(Byte) :
                 /\ Len(s) < Power(Base, width) /\ t.fields = Append(r.fields, s)
                 /\ r.data = (AppendUint(width, Len(s)) \o s) \o t.data

\* A number that is read stood at the front of the data.
LEMMA UintRead ==
    ASSUME NEW r \in Readers
    PROVE  readUint64(r) \in Readers /\ NumberRead(r, readUint64(r))
<1>0. r.ok \in BOOLEAN /\ r.fields \in Seq(Fields) /\ r.data \in Seq(Byte) /\ Len(r.data) \in Nat
  BY LenProperties DEF Readers
<1>1. CASE ~r.ok \/ Len(r.data) < Wide
  <2>1. readUint64(r) = Failed(r)
    BY <1>1 DEF readUint64
  <2>2. Failed(r) \in Readers /\ ~Failed(r).ok
    BY Zenon DEF Failed, Readers
  <2> QED BY <2>1, <2>2 DEF NumberRead
<1>2. CASE r.ok /\ ~(Len(r.data) < Wide)
  <2> DEFINE u == r.data
             d == First(u, Wide)
             rest == Rest(u, Wide)
             n == Uint(d)
  <2>1. Wide \in 0..Len(u) /\ Wide \in Nat /\ u \in Seq(Byte)
    BY <1>0, <1>2, WidthAssumption
  <2>2. d \in Seq(Byte) /\ Len(d) = Wide /\ rest \in Seq(Byte) /\ d \o rest = u
    <3> HIDE DEF u
    <3> QED BY <2>1, Pieces
  <2> HIDE DEF d, rest
  <2>3. n \in 0..(Uints - 1) /\ AppendUint(Wide, n) = d
    BY <2>1, <2>2, DigitsOfUint DEF Uints
  <2>4. readUint64(r) = Taken(r, n, rest)
    BY <1>2 DEF readUint64, d, rest
  <2> HIDE DEF n
  <2>5. n \in Fields
    BY <2>3, BasePower, WidthAssumption DEF Fields, Uints
  <2>6. Append(r.fields, n) \in Seq(Fields)
    BY <1>0, <2>5, AppendProperties
  <2>7. Taken(r, n, rest) \in Readers
    BY <2>2, <2>6 DEF Taken, Readers
  <2>8. /\ Taken(r, n, rest).fields = Append(r.fields, n)
        /\ r.data = AppendUint(Wide, n) \o Taken(r, n, rest).data
    BY <2>2, <2>3 DEF Taken
  <2> QED BY <1>2, <2>3, <2>4, <2>7, <2>8, Zenon DEF NumberRead
<1> QED BY <1>0, <1>1, <1>2

\* A byte string that is read stood there behind its length.
LEMMA StringRead ==
    ASSUME NEW r \in Readers, NEW width \in Nat
    PROVE  readString(r, width) \in Readers /\ BytesRead(width, r, readString(r, width))
<1> DEFINE u == r.data
           d == First(u, width)
           b == Rest(u, width)
           n == Uint(d)
<1>0. r.ok \in BOOLEAN /\ r.fields \in Seq(Fields) /\ r.data \in Seq(Byte) /\ Len(r.data) \in Nat
  BY LenProperties DEF Readers
<1>1. CASE ~r.ok \/ Len(r.data) < width \/ n > Len(b)
  <2>1. readString(r, width) = Failed(r)
    BY <1>1 DEF readString
  <2>2. Failed(r) \in Readers /\ ~Failed(r).ok
    BY Zenon DEF Failed, Readers
  <2> QED BY <2>1, <2>2, Zenon DEF BytesRead
<1>2. CASE r.ok /\ ~(Len(r.data) < width) /\ ~(n > Len(b))
  <2>1. width \in 0..Len(u) /\ u \in Seq(Byte)
    BY <1>0, <1>2
  <2>2. d \in Seq(Byte) /\ Len(d) = width /\ b \in Seq(Byte) /\ d \o b = u
    <3> HIDE DEF u
    <3> QED BY <2>1, Pieces
  <2>3. readString(r, width) = Taken(r, First(b, n), Rest(b, n))
    BY <1>2 DEF readString
  <2> HIDE DEF d, b
  <2>4. n \in 0..(Power(Base, width) - 1) /\ AppendUint(width, n) = d
    BY <2>2, DigitsOfUint
  <2> HIDE DEF n
  <2>5. n \in Nat /\ n < Power(Base, width) /\ n \in 0..Len(b)
    <3>1. Power(Base, width) \in Nat /\ Len(b) \in Nat
      BY <2>2, BasePower, LenProperties
    <3> QED BY <1>2, <2>4, <3>1
  <2> DEFINE s == First(b, n)
             rest == Rest(b, n)
  <2>6. s \in Seq(Byte) /\ Len(s) = n /\ rest \in Seq(Byte) /\ s \o rest = b
    BY <2>2, <2>5, Pieces, Zenon
  <2> HIDE DEF s, rest
  <2>7. r.data = (AppendUint(width, Len(s)) \o s) \o rest
    <3>1. d \in Seq(Byte) /\ s \in Seq(Byte) /\ rest \in Seq(Byte)
      BY <2>2, <2>6
    <3>2. (d \o s) \o rest = d \o (s \o rest)
      BY <3>1, ConcatAssociative
    <3> QED BY <2>2, <2>4, <2>6, <3>2, Zenon
  <2>8. Append(r.fields, s) \in Seq(Fields)
    BY <1>0, <2>6, AppendProperties DEF Fields
  <2>9. Taken(r, s, rest) \in Readers
    BY <2>6, <2>8 DEF Taken, Readers
  <2>10. Taken(r, s, rest).fields = Append(r.fields, s) /\ Taken(r, s, rest).data = rest
    BY DEF Taken
  <2>11. readString(r, width) = Taken(r, s, rest) /\ Len(s) < Power(Base, width)
    BY <2>3, <2>5, <2>6 DEF s, rest
  <2> QED BY <1>2, <2>6, <2>7, <2>9, <2>10, <2>11, Zenon DEF BytesRead
<1> QED BY <1>0, <1>1, <1>2

\* The remainder of a number below the divisor, and of a negative one.
LEMMA SmallRemainder ==
    ASSUME NEW d \in Nat \ {0}, NEW n \in 0..(d - 1)
    PROVE  n % d = n /\ (n - d) % d = n
<1>1. n % d = n
  BY Remainder
<1>2. (n - d) % d = n
  OBVIOUS
<1> QED BY <1>1, <1>2

\* An instant is kept by its number.
LEMMA Instant ==
    /\ Uints \in Nat /\ Uints > 1 /\ {-1, 0} \subseteq Instants
    /\ \A t \in Instants : FromInstant(t) \in 0..(Uints - 1) /\ ToInstant(FromInstant(t)) = t
    /\ \A n \in 0..(Uints - 1) : FromInstant(ToInstant(n)) = n
<1> DEFINE half == Uints \div 2
<1>1. Uints \in Nat /\ Uints > 1
  <2>1. Wide - 1 \in Nat /\ (Wide - 1) + 1 = Wide
    BY WidthAssumption
  <2>2. Power(Base, Wide - 1) \in Nat \ {0} /\ Power(Base, Wide) = Base * Power(Base, Wide - 1)
    BY <2>1, BasePower
  <2>3. \A k \in Nat \ {0} : Base * k \in Nat /\ Base * k > 1
    BY BasePower
  <2> QED BY <2>2, <2>3 DEF Uints
<1>2. half \in Nat /\ half > 0 /\ half + half <= Uints
  <2> DEFINE u == Uints
  <2> HIDE DEF u
  <2>1. u \in Nat /\ u > 1
    BY <1>1 DEF u
  <2>2. u \div 2 \in Nat /\ u \div 2 > 0 /\ u \div 2 + u \div 2 <= u
    BY <2>1
  <2> QED BY <2>2 DEF u
<1>3. Instants = (-half)..(half - 1)
  BY DEF Instants
<1> HIDE DEF half
<1>4. ASSUME NEW t \in Instants
      PROVE  FromInstant(t) \in 0..(Uints - 1) /\ ToInstant(FromInstant(t)) = t
  <2>1. CASE t >= 0
    <3>1. t \in 0..(Uints - 1)
      BY <1>1, <1>2, <1>3, <2>1
    <3>2. FromInstant(t) = t
      BY <1>1, <3>1, SmallRemainder DEF FromInstant
    <3> QED BY <3>1, <3>2 DEF ToInstant
  <2>2. CASE t < 0
    <3> DEFINE n == t + Uints
    <3>1. n \in 0..(Uints - 1) /\ n \notin Instants /\ n - Uints = t
      BY <1>1, <1>2, <1>3, <2>2
    <3> HIDE DEF n
    <3>2. FromInstant(t) = n
      BY <1>1, <3>1, SmallRemainder DEF FromInstant
    <3> QED BY <3>1, <3>2 DEF ToInstant
  <2> QED BY <1>2, <1>3, <2>1, <2>2
<1>5. ASSUME NEW n \in 0..(Uints - 1) PROVE FromInstant(ToInstant(n)) = n
  <2>1. ToInstant(n) \in {n, n - Uints}
    BY DEF ToInstant
  <2>2. n % Uints = n /\ (n - Uints) % Uints = n
    BY <1>1, SmallRemainder
  <2> QED BY <2>1, <2>2 DEF FromInstant
<1>6. {-1, 0} \subseteq Instants
  BY <1>2, <1>3
<1> QED BY <1>1, <1>4, <1>5, <1>6

\* Three sequences can be put together in either order.
Associate(a, b, c) == (a \o b) \o c = a \o (b \o c)

\* Concatenation is associative.
LEMMA Associative ==
    ASSUME NEW S, NEW a \in Seq(S), NEW b \in Seq(S), NEW c \in Seq(S)
    PROVE  Associate(a, b, c)
BY ConcatAssociative DEF Associate

\* So can five.
Joins(v, a, b, c, d) == (((v \o a) \o b) \o c) \o d = v \o (a \o (b \o (c \o d)))

\* From either end.
LEMMA Joined ==
    ASSUME NEW S, NEW v \in Seq(S), NEW a \in Seq(S), NEW b \in Seq(S), NEW c \in Seq(S),
           NEW d \in Seq(S)
    PROVE  Joins(v, a, b, c, d)
<1>1. PICK cd \in Seq(S) : cd = c \o d
  BY ConcatProperties, Zenon
<1>2. PICK bcd \in Seq(S) : bcd = b \o cd
  BY ConcatProperties, Zenon
<1>3. PICK va \in Seq(S) : va = v \o a
  BY ConcatProperties, Zenon
<1>4. PICK vab \in Seq(S) : vab = va \o b
  BY ConcatProperties, Zenon
<1>5. Associate(v, a, bcd)
  BY Associative, Zenon
<1>6. Associate(va, b, cd)
  BY Associative, Zenon
<1>7. Associate(vab, c, d)
  BY Associative, Zenon
<1> QED BY <1>1, <1>2, <1>3, <1>4, <1>5, <1>6, <1>7, Zenon DEF Associate, Joins

\* A sequence is its head and the rest.
LEMMA Headed ==
    ASSUME NEW S, NEW x \in S, NEW t \in Seq(S)
    PROVE  Head(<<x>> \o t) = x /\ Tail(<<x>> \o t) = t /\ <<x>> \o t # <<>>
           /\ <<x>> \o t \in Seq(S)
OBVIOUS

\* The stored form of a string.
LEMMA Strings32 ==
    /\ Power(Base, Narrow) \in Nat /\ Power(Base, Wide) \in Nat
    /\ Power(Base, Narrow) <= Power(Base, Wide)
    /\ \A s \in Seq(Byte) :
         /\ Len(s) \in Nat
         /\ Len(s) < Power(Base, Narrow) => String32(s) \in Seq(Byte)
         /\ Len(s) < Power(Base, Wide) => Bytes64(s) \in Seq(Byte)
<1>0. Narrow \in Nat /\ Wide \in Nat /\ Narrow <= Wide
  BY WidthAssumption
<1>1. Power(Base, Narrow) \in Nat /\ Power(Base, Wide) \in Nat
  BY <1>0, BasePower
<1>2. Power(Base, Narrow) <= Power(Base, Wide)
  <2> DEFINE T == {k \in Nat : Power(Base, Narrow) <= Power(Base, Narrow + k)}
  <2>1. 0 \in T
    BY <1>0, <1>1
  <2>2. ASSUME NEW k \in Nat, k \in T PROVE k + 1 \in T
    <3> DEFINE p == Power(Base, Narrow)
               q == Power(Base, Narrow + k)
    <3>1. Narrow + k \in Nat /\ Narrow + (k + 1) = (Narrow + k) + 1
      BY <1>0
    <3>2. q \in Nat /\ Power(Base, (Narrow + k) + 1) = Base * q /\ Base \in Nat /\ Base > 1
      BY <3>1, BasePower
    <3>3. p \in Nat /\ p <= q
      BY <1>1, <2>2
    <3> HIDE DEF p, q
    <3>4. q <= Base * q
      BY <3>2
    <3>5. p <= Base * q
      BY <3>2, <3>3, <3>4
    <3> QED BY <3>1, <3>2, <3>5 DEF p
  <2> HIDE DEF T
  <2>3. Nat \subseteq T
    BY <2>1, <2>2, NatSet
  <2>4. Wide - Narrow \in Nat /\ Narrow + (Wide - Narrow) = Wide
    BY <1>0
  <2>5. Wide - Narrow \in T
    BY <2>3, <2>4
  <2> QED BY <2>4, <2>5 DEF T
<1>3. ASSUME NEW s \in Seq(Byte), NEW width \in Nat, Len(s) < Power(Base, width)
      PROVE  AppendUint(width, Len(s)) \o s \in Seq(Byte)
  <2>1. Len(s) \in Nat /\ Power(Base, width) \in Nat
    BY BasePower, LenProperties, Zenon
  <2>2. Len(s) \in 0..(Power(Base, width) - 1)
    BY <1>3, <2>1
  <2>3. AppendUint(width, Len(s)) \in Seq(Byte)
    BY <2>2, UintOfDigits
  <2> QED BY <2>3, ConcatProperties
<1>4. ASSUME NEW s \in Seq(Byte)
      PROVE  /\ Len(s) \in Nat
             /\ Len(s) < Power(Base, Narrow) => String32(s) \in Seq(Byte)
             /\ Len(s) < Power(Base, Wide) => Bytes64(s) \in Seq(Byte)
  <2>1. Len(s) \in Nat
    BY LenProperties
  <2> QED BY <1>0, <1>3, <2>1 DEF String32, Bytes64
<1> QED BY <1>1, <1>2, <1>4

\* The reader has k fields, which stood in the data as pre.
Progress(data, pre, r, k) ==
    /\ r \in Readers /\ r.ok /\ Len(r.fields) = k
    /\ pre \in Seq(Byte) /\ data = pre \o r.data

\* It goes on by the field x, which stood there as w.
Advances(data, pre, r, t, k, x, w) ==
    /\ Progress(data, pre \o w, t, k + 1) /\ t.fields[k + 1] = x
    /\ \A i \in 1..k : t.fields[i] = r.fields[i]

\* A field taken off the front of the data is such a field.
LEMMA Progressed ==
    ASSUME NEW data, NEW pre, NEW r, NEW k \in Nat, Progress(data, pre, r, k),
           NEW t \in Readers, t.ok, NEW x \in Fields, t.fields = Append(r.fields, x),
           NEW w \in Seq(Byte), r.data = w \o t.data
    PROVE  Advances(data, pre, r, t, k, x, w)
<1>1. t.data \in Seq(Byte) /\ r.fields \in Seq(Fields) /\ Len(r.fields) = k /\ pre \in Seq(Byte)
  BY DEF Readers, Progress
<1>2. /\ Len(t.fields) = k + 1 /\ t.fields[k + 1] = x
      /\ \A i \in 1..k : t.fields[i] = r.fields[i]
  <2> DEFINE f == r.fields
  <2> HIDE DEF f
  <2>1. f \in Seq(Fields) /\ Len(f) = k /\ t.fields = Append(f, x)
    BY <1>1 DEF f
  <2>2. /\ Len(Append(f, x)) = k + 1 /\ Append(f, x)[k + 1] = x
        /\ \A i \in 1..k : Append(f, x)[i] = f[i]
    BY <2>1, Appended
  <2> QED BY <2>1, <2>2 DEF f
<1>3. Associate(pre, w, t.data)
  BY <1>1, Associative, Zenon
<1>4. data = (pre \o w) \o t.data
  BY <1>3 DEF Associate, Progress
<1>5. pre \o w \in Seq(Byte)
  BY <1>1, ConcatProperties
<1> QED BY <1>2, <1>4, <1>5, Zenon DEF Progress, Advances

\* t is r after a number.
NumberTaken(data, pre, r, t, k) ==
    \E n \in 0..(Uints - 1) : Advances(data, pre, r, t, k, n, AppendUint(Wide, n))

\* readUint64 takes one.
LEMMA TakesNumber ==
    ASSUME NEW data, NEW pre, NEW r, NEW k \in Nat, Progress(data, pre, r, k),
           readUint64(r).ok
    PROVE  NumberTaken(data, pre, r, readUint64(r), k)
<1>1. PICK t : t = readUint64(r)
  OBVIOUS
<1>2. t \in Readers /\ NumberRead(r, t) /\ t.ok
  BY <1>1, UintRead DEF Progress
<1>3. PICK n \in 0..(Uints - 1) :
        t.fields = Append(r.fields, n) /\ r.data = AppendUint(Wide, n) \o t.data
  BY <1>2, Zenon DEF NumberRead
<1>4. AppendUint(Wide, n) \in Seq(Byte) /\ n \in Fields
  <2>1. Wide \in Nat
    BY WidthAssumption
  <2>2. n \in Nat
    BY Instant
  <2> QED BY <2>1, <2>2, UintOfDigits DEF Uints, Fields
<1>5. Advances(data, pre, r, t, k, n, AppendUint(Wide, n))
  BY <1>2, <1>3, <1>4, Progressed, Zenon
<1> QED BY <1>1, <1>5, Zenon DEF NumberTaken

\* t is r after a byte string.
StringTaken(data, pre, r, t, k, width) ==
    \E s \in Seq(Byte) :
      /\ Len(s) < Power(Base, width)
      /\ Advances(data, pre, r, t, k, s, AppendUint(width, Len(s)) \o s)

\* readString takes one.
LEMMA TakesString ==
    ASSUME NEW data, NEW pre, NEW r, NEW k \in Nat, Progress(data, pre, r, k),
           NEW width \in Nat, readString(r, width).ok
    PROVE  StringTaken(data, pre, r, readString(r, width), k, width)
<1>1. PICK t : t = readString(r, width)
  OBVIOUS
<1>2. t \in Readers /\ BytesRead(width, r, t) /\ t.ok
  BY <1>1, StringRead DEF Progress
<1>3. PICK s \in Seq(Byte) :
        /\ Len(s) < Power(Base, width) /\ t.fields = Append(r.fields, s)
        /\ r.data = (AppendUint(width, Len(s)) \o s) \o t.data
  BY <1>2, Zenon DEF BytesRead
<1>4. AppendUint(width, Len(s)) \o s \in Seq(Byte) /\ s \in Fields
  <2>1. Len(s) \in 0..(Power(Base, width) - 1)
    <3>1. Power(Base, width) \in Nat /\ Len(s) \in Nat
      BY BasePower, LenProperties, Zenon
    <3> QED BY <1>3, <3>1
  <2>2. AppendUint(width, Len(s)) \in Seq(Byte)
    BY <2>1, UintOfDigits
  <2> QED BY <2>2, ConcatProperties DEF Fields
<1>5. Advances(data, pre, r, t, k, s, AppendUint(width, Len(s)) \o s)
  BY <1>2, <1>3, <1>4, Progressed, Zenon
<1> QED BY <1>1, <1>3, <1>5, Zenon DEF StringTaken

\* A reader stays a reader, and one that has failed stays failed.
LEMMA StaysFailed ==
    ASSUME NEW r \in Readers
    PROVE  /\ readUint64(r) \in Readers /\ (readUint64(r).ok => r.ok)
           /\ string32(r) \in Readers /\ (string32(r).ok => r.ok)
           /\ bytes64(r) \in Readers /\ (bytes64(r).ok => r.ok)
<1>1. readUint64(r) \in Readers /\ (readUint64(r).ok => r.ok)
  BY UintRead DEF NumberRead
<1>2. ASSUME NEW width \in Nat
      PROVE  readString(r, width) \in Readers /\ (readString(r, width).ok => r.ok)
  BY StringRead, Zenon DEF BytesRead
<1>3. Narrow \in Nat /\ Wide \in Nat
  BY WidthAssumption
<1> QED BY <1>1, <1>2, <1>3, Zenon DEF string32, bytes64

\* The reader of a value with a version is at its first field.
LEMMA Starts ==
    ASSUME NEW data \in Seq(Byte), data # <<>>, Head(data) = envelopeVersion
    PROVE  Progress(data, <<envelopeVersion>>, Reader(Tail(data)), 0)
<1>1. PICK v, t : v = envelopeVersion /\ t = Tail(data)
  BY Zenon
<1>2. v \in Byte
  BY <1>1, BasePower DEF Byte, envelopeVersion
<1>3. t \in Seq(Byte)
  BY <1>1, HeadTailProperties
<1>4. <<v>> \in Seq(Byte)
  BY <1>2
<1>5. data = <<v>> \o t
  <2>1. Len(data) \in Nat \ {0}
    BY LenProperties, EmptySeq
  <2>2. 1 \in 1..Len(data) /\ Len(data) \in 1..Len(data) /\ 1 + 1 = 2
    BY <2>1
  <2>3. SubSeq(data, 1, Len(data)) = <<data[1]>> \o SubSeq(data, 1 + 1, Len(data))
    BY <2>2, SubSeqRecursiveFirst
  <2>4. SubSeq(data, 1, Len(data)) = data
    BY SubSeqFull
  <2>5. t = SubSeq(data, 2, Len(data))
    BY <1>1, TailIsSubSeq
  <2>6. data[1] = v
    BY <1>1
  <2> QED BY <2>2, <2>3, <2>4, <2>5, <2>6, Zenon
<1>6. PICK r : r = [ok |-> TRUE, fields |-> <<>>, data |-> t]
  BY Zenon
<1>7. <<>> \in Seq(Fields) /\ Len(<<>>) = 0
  BY EmptySeq
<1>8. r \in Readers
  BY <1>3, <1>6, <1>7 DEF Readers
<1>9. Progress(data, <<v>>, r, 0)
  BY <1>4, <1>5, <1>6, <1>7, <1>8 DEF Progress
<1>10. Reader(Tail(data)) = r
  BY <1>1, <1>6, Zenon DEF Reader
<1> QED BY <1>1, <1>9, <1>10, Zenon

\* A value that decodePending takes is what encodePending writes for it.
LEMMA PendingBack ==
    ASSUME NEW data \in Seq(Byte), decodePending(data).err = "nil"
    PROVE  encodePending(decodePending(data).value) \in
             {[err |-> "nil", data |-> data], TooLarge}
<1>1. PICK r0, r1, r2, r3, r4 :
        /\ r0 = Reader(Tail(data)) /\ r1 = readUint64(r0) /\ r2 = readUint64(r1)
        /\ r3 = string32(r2) /\ r4 = bytes64(r3)
  BY Zenon
<1> DEFINE f == r4.fields
<1>2. /\ data # <<>> /\ Head(data) = envelopeVersion /\ r4.ok /\ r4.data = <<>>
      /\ decodePending(data).value =
           [createdAt |-> ToInstant(f[1]), originSeq |-> f[2], origin |-> f[3], payload |-> f[4]]
  BY <1>1 DEF decodePending, Versioned, Corrupt, Unsupported, Finished
<1>3. Progress(data, <<envelopeVersion>>, r0, 0)
  BY <1>1, <1>2, Starts
<1>4. r0 \in Readers /\ r1 \in Readers /\ r2 \in Readers /\ r3 \in Readers /\ r4 \in Readers
  <2>1. r0 \in Readers
    BY <1>3 DEF Progress
  <2> QED BY <1>1, <2>1, StaysFailed, Zenon
<1>5. r1.ok /\ r2.ok /\ r3.ok
  BY <1>1, <1>2, <1>4, StaysFailed, Zenon
<1>6. PICK n \in 0..(Uints - 1) :
        Advances(data, <<envelopeVersion>>, r0, r1, 0, n, AppendUint(Wide, n))
  <2>1. NumberTaken(data, <<envelopeVersion>>, r0, r1, 0)
    BY <1>1, <1>3, <1>5, TakesNumber
  <2> QED BY <2>1, Zenon DEF NumberTaken
<1>7. PICK p1 : p1 = <<envelopeVersion>> \o AppendUint(Wide, n)
  BY Zenon
<1>8. Progress(data, p1, r1, 1) /\ r1.fields[1] = n
  BY <1>6, <1>7 DEF Advances
<1>9. PICK m \in 0..(Uints - 1) : Advances(data, p1, r1, r2, 1, m, AppendUint(Wide, m))
  <2>1. NumberTaken(data, p1, r1, r2, 1)
    BY <1>1, <1>5, <1>8, TakesNumber
  <2> QED BY <2>1, Zenon DEF NumberTaken
<1>10. PICK p2 : p2 = p1 \o AppendUint(Wide, m)
  BY Zenon
<1>11. Progress(data, p2, r2, 2) /\ r2.fields[1] = n /\ r2.fields[2] = m
  BY <1>8, <1>9, <1>10 DEF Advances
<1>12. Narrow \in Nat /\ Wide \in Nat
  BY WidthAssumption
<1>13. PICK s \in Seq(Byte) : Advances(data, p2, r2, r3, 2, s, String32(s))
  <2>1. StringTaken(data, p2, r2, r3, 2, Narrow)
    BY <1>1, <1>5, <1>11, <1>12, TakesString, Zenon DEF string32
  <2> QED BY <2>1, Zenon DEF StringTaken, String32
<1>14. PICK p3 : p3 = p2 \o String32(s)
  BY Zenon
<1>15. /\ Progress(data, p3, r3, 3)
       /\ r3.fields[1] = n /\ r3.fields[2] = m /\ r3.fields[3] = s
  BY <1>11, <1>13, <1>14 DEF Advances
<1>16. PICK z \in Seq(Byte) : Advances(data, p3, r3, r4, 3, z, Bytes64(z))
  <2>1. StringTaken(data, p3, r3, r4, 3, Wide)
    BY <1>1, <1>2, <1>12, <1>15, TakesString, Zenon DEF bytes64
  <2> QED BY <2>1, Zenon DEF StringTaken, Bytes64
<1>17. PICK p4 : p4 = p3 \o Bytes64(z)
  BY Zenon
<1>18. Progress(data, p4, r4, 4) /\ f[1] = n /\ f[2] = m /\ f[3] = s /\ f[4] = z
  BY <1>15, <1>16, <1>17 DEF Advances
<1>19. data = p4
  <2>1. p4 \in Seq(Byte) /\ data = p4 \o <<>>
    BY <1>2, <1>18, Zenon DEF Progress
  <2> QED BY <2>1, ConcatEmptySeq, Zenon
<1>20. PICK v : v = [createdAt |-> ToInstant(n), originSeq |-> m, origin |-> s, payload |-> z]
  BY Zenon
<1>21. decodePending(data).value = v
  BY <1>2, <1>18, <1>20, Zenon
<1>22. FromInstant(v.createdAt) = n /\ v.originSeq = m /\ v.origin = s /\ v.payload = z
  BY <1>20, Instant
<1>23. encodePending(v) = TooLarge \/ encodePending(v) = [err |-> "nil", data |-> p4]
  BY <1>7, <1>10, <1>14, <1>17, <1>22, Zenon DEF encodePending
<1> QED BY <1>19, <1>21, <1>23, Zenon

\* A value that decodeDead takes is what encodeDead writes for it.
LEMMA DeadBack ==
    ASSUME NEW data \in Seq(Byte), decodeDead(data).err = "nil"
    PROVE  encodeDead(decodeDead(data).value) \in
             {[err |-> "nil", data |-> data], TooLarge}
<1>1. PICK r0, r1, r2, r3, r4, r5, r6 :
        /\ r0 = Reader(Tail(data)) /\ r1 = readUint64(r0) /\ r2 = readUint64(r1)
        /\ r3 = readUint64(r2) /\ r4 = string32(r3) /\ r5 = bytes64(r4) /\ r6 = string32(r5)
  BY Zenon
<1> DEFINE f == r6.fields
<1>2. /\ data # <<>> /\ Head(data) = envelopeVersion /\ r6.ok /\ r6.data = <<>>
      /\ decodeDead(data).value =
           [createdAt |-> ToInstant(f[1]), deadAt |-> ToInstant(f[2]), originSeq |-> f[3],
            origin |-> f[4], payload |-> f[5], reason |-> f[6]]
  BY <1>1, Zenon DEF decodeDead, Versioned, Corrupt, Unsupported, Finished
<1>3. Progress(data, <<envelopeVersion>>, r0, 0)
  BY <1>1, <1>2, Starts
<1>4. /\ r0 \in Readers /\ r1 \in Readers /\ r2 \in Readers /\ r3 \in Readers
      /\ r4 \in Readers /\ r5 \in Readers
  <2>1. r0 \in Readers
    BY <1>3 DEF Progress
  <2>2. r1 \in Readers /\ r2 \in Readers /\ r3 \in Readers
    BY <1>1, <2>1, StaysFailed, Zenon
  <2> QED BY <1>1, <2>1, <2>2, StaysFailed, Zenon
<1>5. r1.ok /\ r2.ok /\ r3.ok /\ r4.ok /\ r5.ok
  <2>1. r5.ok /\ r4.ok /\ r3.ok
    BY <1>1, <1>2, <1>4, StaysFailed, Zenon
  <2> QED BY <1>1, <1>4, <2>1, StaysFailed, Zenon
<1>6. Narrow \in Nat /\ Wide \in Nat
  BY WidthAssumption
<1>7. PICK l \in 0..(Uints - 1) :
        Advances(data, <<envelopeVersion>>, r0, r1, 0, l, AppendUint(Wide, l))
  <2>1. NumberTaken(data, <<envelopeVersion>>, r0, r1, 0)
    BY <1>1, <1>3, <1>5, TakesNumber, Zenon
  <2> QED BY <2>1, Zenon DEF NumberTaken
<1>8. PICK p1 : p1 = <<envelopeVersion>> \o AppendUint(Wide, l)
  BY Zenon
<1>9. Progress(data, p1, r1, 1) /\ r1.fields[1] = l
  BY <1>7, <1>8 DEF Advances
<1>10. PICK m \in 0..(Uints - 1) : Advances(data, p1, r1, r2, 1, m, AppendUint(Wide, m))
  <2>1. NumberTaken(data, p1, r1, r2, 1)
    BY <1>1, <1>5, <1>9, TakesNumber, Zenon
  <2> QED BY <2>1, Zenon DEF NumberTaken
<1>11. PICK p2 : p2 = p1 \o AppendUint(Wide, m)
  BY Zenon
<1>12. Progress(data, p2, r2, 2) /\ r2.fields[1] = l /\ r2.fields[2] = m
  BY <1>9, <1>10, <1>11 DEF Advances
<1>13. PICK n \in 0..(Uints - 1) : Advances(data, p2, r2, r3, 2, n, AppendUint(Wide, n))
  <2>1. NumberTaken(data, p2, r2, r3, 2)
    BY <1>1, <1>5, <1>12, TakesNumber, Zenon
  <2> QED BY <2>1, Zenon DEF NumberTaken
<1>14. PICK p3 : p3 = p2 \o AppendUint(Wide, n)
  BY Zenon
<1>15. /\ Progress(data, p3, r3, 3)
       /\ r3.fields[1] = l /\ r3.fields[2] = m /\ r3.fields[3] = n
  BY <1>12, <1>13, <1>14 DEF Advances
<1>16. PICK s \in Seq(Byte) : Advances(data, p3, r3, r4, 3, s, String32(s))
  <2>1. StringTaken(data, p3, r3, r4, 3, Narrow)
    BY <1>1, <1>5, <1>6, <1>15, TakesString, Zenon DEF string32
  <2> QED BY <2>1, Zenon DEF StringTaken, String32
<1>17. PICK p4 : p4 = p3 \o String32(s)
  BY Zenon
<1>18. /\ Progress(data, p4, r4, 4)
       /\ r4.fields[1] = l /\ r4.fields[2] = m /\ r4.fields[3] = n /\ r4.fields[4] = s
  BY <1>15, <1>16, <1>17 DEF Advances
<1>19. PICK z \in Seq(Byte) : Advances(data, p4, r4, r5, 4, z, Bytes64(z))
  <2>1. StringTaken(data, p4, r4, r5, 4, Wide)
    BY <1>1, <1>5, <1>6, <1>18, TakesString DEF bytes64
  <2> QED BY <2>1, Zenon DEF StringTaken, Bytes64
<1>20. PICK p5 : p5 = p4 \o Bytes64(z)
  BY Zenon
<1>21. /\ Progress(data, p5, r5, 5)
       /\ r5.fields[1] = l /\ r5.fields[2] = m /\ r5.fields[3] = n /\ r5.fields[4] = s /\ r5.fields[5] = z
  BY <1>18, <1>19, <1>20 DEF Advances
<1>22. PICK x \in Seq(Byte) : Advances(data, p5, r5, r6, 5, x, String32(x))
  <2>1. StringTaken(data, p5, r5, r6, 5, Narrow)
    BY <1>1, <1>2, <1>6, <1>21, TakesString, Zenon DEF string32
  <2> QED BY <2>1, Zenon DEF StringTaken, String32
<1>23. PICK p6 : p6 = p5 \o String32(x)
  BY Zenon
<1>24. /\ Progress(data, p6, r6, 6)
       /\ f[1] = l /\ f[2] = m /\ f[3] = n /\ f[4] = s /\ f[5] = z /\ f[6] = x
  BY <1>21, <1>22, <1>23, SMTT(20) DEF Advances
<1>25. data = p6
  <2>1. p6 \in Seq(Byte) /\ data = p6 \o <<>>
    BY <1>2, <1>24 DEF Progress
  <2> QED BY <2>1, ConcatEmptySeq, Zenon
<1>26. PICK v : v = [createdAt |-> ToInstant(l), deadAt |-> ToInstant(m), originSeq |-> n,
                   origin |-> s, payload |-> z, reason |-> x]
  BY Zenon
<1>27. decodeDead(data).value = v
  BY <1>2, <1>24, <1>26, Zenon
<1>28. /\ FromInstant(v.createdAt) = l /\ FromInstant(v.deadAt) = m /\ v.originSeq = n
       /\ v.origin = s /\ v.payload = z /\ v.reason = x
  BY <1>26, Instant
<1>29. encodeDead(v) = TooLarge \/ encodeDead(v) = [err |-> "nil", data |-> p6]
  BY <1>8, <1>11, <1>14, <1>17, <1>20, <1>23, <1>28, Zenon DEF encodeDead
<1> QED BY <1>25, <1>27, <1>29, Zenon

\* A record that encodePending writes, decodePending reads.
LEMMA PendingForth ==
    ASSUME NEW value, value.createdAt \in Instants, value.originSeq \in 0..(Uints - 1),
           value.origin \in Seq(Byte), value.payload \in Seq(Byte),
           encodePending(value).err = "nil"
    PROVE  decodePending(encodePending(value).data) =
             [err |-> "nil", value |-> Restricted(value, PendingFields)]
<1>1. PICK n, m, s, z :
        /\ n = FromInstant(value.createdAt) /\ m = value.originSeq
        /\ s = value.origin /\ z = value.payload
  OBVIOUS
<1>2. PICK v, a, b, c, d :
        /\ v = <<envelopeVersion>> /\ a = AppendUint(Wide, n) /\ b = AppendUint(Wide, m)
        /\ c = String32(s) /\ d = Bytes64(z)
  BY Zenon
<1>3. ~(Len(s) > MaxUint32) /\ ~(Len(z) > MaxUint32)
  BY <1>1 DEF encodePending, TooLarge
<1>4. encodePending(value).data = (((v \o a) \o b) \o c) \o d
  BY <1>1, <1>2, <1>3, Zenon DEF encodePending
<1>5. /\ n \in 0..(Uints - 1) /\ m \in 0..(Uints - 1) /\ ToInstant(n) = value.createdAt
      /\ s \in Seq(Byte) /\ z \in Seq(Byte)
  BY <1>1, Instant
<1>6. Len(s) < Power(Base, Narrow) /\ Len(z) < Power(Base, Wide)
  <2>1. /\ Len(s) \in Nat /\ Len(z) \in Nat /\ Power(Base, Narrow) \in Nat
        /\ Power(Base, Wide) \in Nat /\ Power(Base, Narrow) <= Power(Base, Wide)
    BY <1>5, Strings32
  <2> QED BY <1>3, <2>1 DEF MaxUint32
<1>7. envelopeVersion \in Byte
  BY BasePower DEF Byte, envelopeVersion
<1>8. v \in Seq(Byte) /\ a \in Seq(Byte) /\ b \in Seq(Byte) /\ c \in Seq(Byte) /\ d \in Seq(Byte)
  <2>1. v \in Seq(Byte)
    BY <1>2, <1>7
  <2>2. Wide \in Nat
    BY WidthAssumption
  <2>3. a \in Seq(Byte) /\ b \in Seq(Byte)
    BY <1>2, <1>5, <2>2, UintOfDigits, Zenon DEF Uints
  <2>4. c \in Seq(Byte) /\ d \in Seq(Byte)
    BY <1>2, <1>5, <1>6, Strings32, Zenon
  <2> QED BY <2>1, <2>3, <2>4
<1>9. PICK cd \in Seq(Byte) : cd = c \o d
  BY <1>8, ConcatProperties, Zenon
<1>10. PICK bcd \in Seq(Byte) : bcd = b \o cd
  BY <1>8, ConcatProperties, Zenon
<1>11. PICK t \in Seq(Byte) : t = a \o bcd
  BY <1>8, ConcatProperties, Zenon
<1>12. PICK data : data = v \o t
  BY Zenon
<1>13. encodePending(value).data = data
  <2>1. Joins(v, a, b, c, d)
    BY <1>8, Joined, Zenon
  <2> QED BY <1>4, <1>9, <1>10, <1>11, <1>12, <2>1, Zenon DEF Joins
<1>14. Head(data) = envelopeVersion /\ Tail(data) = t /\ data # <<>>
  BY <1>2, <1>7, <1>12, Headed, Zenon
<1>15. PICK r0, r1, r2, r3, r4 :
         /\ r0 = Reader(t) /\ r1 = readUint64(r0) /\ r2 = readUint64(r1)
         /\ r3 = string32(r2) /\ r4 = bytes64(r3)
  OBVIOUS
<1>16. Counts(r0, 0) /\ r0.data = a \o bcd
  BY <1>11, <1>15, EmptySeq, Zenon DEF Reader, Counts
<1>17. TakenAs(r0, r1, 0, n, bcd)
  BY <1>2, <1>5, <1>15, <1>16, ReadsUint, Zenon
<1>18. Counts(r1, 1) /\ r1.data = b \o cd /\ r1.fields[1] = n
  BY <1>10, <1>17 DEF TakenAs
<1>19. TakenAs(r1, r2, 1, m, cd)
  BY <1>2, <1>5, <1>15, <1>18, ReadsUint, Zenon
<1>20. Counts(r2, 2) /\ r2.data = c \o d /\ r2.fields[1] = n /\ r2.fields[2] = m
  BY <1>9, <1>18, <1>19 DEF TakenAs
<1>21. Narrow \in Nat /\ Wide \in Nat /\ 2 \in Nat /\ 3 \in Nat
  BY WidthAssumption
<1>22. TakenAs(r2, r3, 2, s, d)
  <2>1. r2.data = (AppendUint(Narrow, Len(s)) \o s) \o d
    BY <1>2, <1>20, Zenon DEF String32
  <2>2. TakenAs(r2, readString(r2, Narrow), 2, s, d)
    BY <1>5, <1>6, <1>8, <1>20, <1>21, <2>1, ReadsString, Zenon
  <2> QED BY <1>15, <2>2, Zenon DEF string32
<1>23. /\ Counts(r3, 3) /\ r3.data = d
       /\ r3.fields[1] = n /\ r3.fields[2] = m /\ r3.fields[3] = s
  BY <1>20, <1>22 DEF TakenAs
<1>24. TakenAs(r3, r4, 3, z, <<>>)
  <2>1. d = d \o <<>> /\ <<>> \in Seq(Byte)
    BY <1>8, ConcatEmptySeq, EmptySeq, Zenon
  <2>2. r3.data = (AppendUint(Wide, Len(z)) \o z) \o <<>>
    BY <1>2, <1>23, <2>1 DEF Bytes64
  <2>3. TakenAs(r3, readString(r3, Wide), 3, z, <<>>)
    BY <1>5, <1>6, <1>21, <1>23, <2>1, <2>2, ReadsString, Zenon
  <2> QED BY <1>15, <2>3, Zenon DEF bytes64
<1> DEFINE f == r4.fields
<1>25. r4.ok /\ r4.data = <<>>
  BY <1>24 DEF TakenAs, Counts
<1>26. f[1] = n /\ f[2] = m /\ f[3] = s /\ f[4] = z
  BY <1>23, <1>24 DEF TakenAs
<1>27. decodePending(data) =
         [err |-> "nil",
          value |-> [createdAt |-> ToInstant(n), originSeq |-> m, origin |-> s, payload |-> z]]
  BY <1>14, <1>15, <1>25, <1>26, Zenon DEF decodePending, Versioned, Finished
<1>28. Restricted(value, PendingFields) =
         [createdAt |-> ToInstant(n), originSeq |-> m, origin |-> s, payload |-> z]
  BY <1>1, <1>5 DEF Restricted, PendingFields
<1> QED BY <1>13, <1>27, <1>28, Zenon

\* A record that encodeDead writes, decodeDead reads.
LEMMA DeadForth ==
    ASSUME NEW value, value.createdAt \in Instants, value.deadAt \in Instants,
           value.originSeq \in 0..(Uints - 1), value.origin \in Seq(Byte),
           value.payload \in Seq(Byte), value.reason \in Seq(Byte),
           encodeDead(value).err = "nil"
    PROVE  decodeDead(encodeDead(value).data) =
             [err |-> "nil", value |-> Restricted(value, DeadFields)]
<1>1. PICK l, m, n, s, z, x :
        /\ l = FromInstant(value.createdAt) /\ m = FromInstant(value.deadAt)
        /\ n = value.originSeq /\ s = value.origin /\ z = value.payload /\ x = value.reason
  OBVIOUS
<1>2. PICK v, a, b, c, d, e, g :
        /\ v = <<envelopeVersion>> /\ a = AppendUint(Wide, l) /\ b = AppendUint(Wide, m)
        /\ c = AppendUint(Wide, n) /\ d = String32(s) /\ e = Bytes64(z) /\ g = String32(x)
  BY Zenon
<1>3. ~(Len(s) > MaxUint32) /\ ~(Len(z) > MaxUint32) /\ ~(Len(x) > MaxUint32)
  BY <1>1 DEF encodeDead, TooLarge
<1>4. encodeDead(value).data = (((((v \o a) \o b) \o c) \o d) \o e) \o g
  <2>1. ~(\E q \in {value.origin, value.payload, value.reason} : Len(q) > MaxUint32)
    BY <1>1, <1>3, Zenon
  <2> QED BY <1>1, <1>2, <2>1, Zenon DEF encodeDead
<1>5. /\ l \in 0..(Uints - 1) /\ ToInstant(l) = value.createdAt
      /\ m \in 0..(Uints - 1) /\ ToInstant(m) = value.deadAt
      /\ n \in 0..(Uints - 1) /\ s \in Seq(Byte) /\ z \in Seq(Byte) /\ x \in Seq(Byte)
  BY <1>1, Instant
<1>6. Len(s) < Power(Base, Narrow) /\ Len(z) < Power(Base, Wide) /\ Len(x) < Power(Base, Narrow)
  <2>1. /\ Len(s) \in Nat /\ Len(z) \in Nat /\ Len(x) \in Nat /\ Power(Base, Narrow) \in Nat
        /\ Power(Base, Wide) \in Nat /\ Power(Base, Narrow) <= Power(Base, Wide)
    BY <1>5, Strings32
  <2> QED BY <1>3, <2>1 DEF MaxUint32
<1>7. envelopeVersion \in Byte
  BY BasePower DEF Byte, envelopeVersion
<1>8. /\ v \in Seq(Byte) /\ a \in Seq(Byte) /\ b \in Seq(Byte) /\ c \in Seq(Byte)
      /\ d \in Seq(Byte) /\ e \in Seq(Byte) /\ g \in Seq(Byte)
  <2>1. v \in Seq(Byte)
    BY <1>2, <1>7
  <2>2. Wide \in Nat
    BY WidthAssumption
  <2>3. a \in Seq(Byte) /\ b \in Seq(Byte) /\ c \in Seq(Byte)
    BY <1>2, <1>5, <2>2, UintOfDigits, Zenon DEF Uints
  <2>4. d \in Seq(Byte) /\ e \in Seq(Byte) /\ g \in Seq(Byte)
    BY <1>2, <1>5, <1>6, Strings32, Zenon
  <2> QED BY <2>1, <2>3, <2>4, Zenon
<1>9. PICK t5 \in Seq(Byte) : t5 = e \o g
  BY <1>8, ConcatProperties, Zenon
<1>10. PICK t4 \in Seq(Byte) : t4 = d \o t5
  BY <1>8, ConcatProperties, Zenon
<1>11. PICK t3 \in Seq(Byte) : t3 = c \o t4
  BY <1>8, ConcatProperties, Zenon
<1>12. PICK t2 \in Seq(Byte) : t2 = b \o t3
  BY <1>8, ConcatProperties, Zenon
<1>13. PICK t \in Seq(Byte) : t = a \o t2
  BY <1>8, ConcatProperties, Zenon
<1>14. PICK data : data = v \o t
  BY Zenon
<1>15. encodeDead(value).data = data
  <2>1. PICK va \in Seq(Byte) : va = v \o a
    BY <1>8, ConcatProperties, Zenon
  <2>2. PICK vab \in Seq(Byte) : vab = va \o b
    BY <1>8, ConcatProperties, Zenon
  <2>3. Joins(vab, c, d, e, g)
    BY <1>8, Joined, Zenon
  <2>4. encodeDead(value).data = vab \o t3
    BY <1>4, <1>9, <1>10, <1>11, <2>1, <2>2, <2>3, Zenon DEF Joins
  <2>5. Associate(va, b, t3) /\ Associate(v, a, t2)
    BY <1>8, Associative, Zenon
  <2> QED BY <1>12, <1>13, <1>14, <2>1, <2>2, <2>4, <2>5, Zenon DEF Associate
<1>16. Head(data) = envelopeVersion /\ Tail(data) = t /\ data # <<>>
  BY <1>2, <1>7, <1>14, Headed, Zenon
<1>17. PICK r0, r1, r2, r3, r4, r5, r6 :
         /\ r0 = Reader(t) /\ r1 = readUint64(r0) /\ r2 = readUint64(r1)
         /\ r3 = readUint64(r2) /\ r4 = string32(r3) /\ r5 = bytes64(r4) /\ r6 = string32(r5)
  BY Zenon
<1>18. Counts(r0, 0) /\ r0.data = a \o t2
  BY <1>13, <1>17, EmptySeq, Zenon DEF Reader, Counts
<1>19. TakenAs(r0, r1, 0, l, t2)
  BY <1>2, <1>5, <1>17, <1>18, ReadsUint, Zenon
<1>20. Counts(r1, 1) /\ r1.data = b \o t3 /\ r1.fields[1] = l
  BY <1>12, <1>19 DEF TakenAs
<1>21. TakenAs(r1, r2, 1, m, t3)
  BY <1>2, <1>5, <1>17, <1>20, ReadsUint, Zenon
<1>22. Counts(r2, 2) /\ r2.data = c \o t4 /\ r2.fields[1] = l /\ r2.fields[2] = m
  BY <1>11, <1>20, <1>21, SMTT(20) DEF TakenAs
<1>23. TakenAs(r2, r3, 2, n, t4)
  BY <1>2, <1>5, <1>17, <1>22, ReadsUint, Zenon
<1>24. /\ Counts(r3, 3) /\ r3.data = d \o t5
       /\ r3.fields[1] = l /\ r3.fields[2] = m /\ r3.fields[3] = n
  BY <1>10, <1>22, <1>23, SMTT(20) DEF TakenAs
<1>25. Narrow \in Nat /\ Wide \in Nat /\ 3 \in Nat /\ 4 \in Nat /\ 5 \in Nat
  BY WidthAssumption
<1>26. TakenAs(r3, r4, 3, s, t5)
  <2>1. r3.data = (AppendUint(Narrow, Len(s)) \o s) \o t5
    BY <1>2, <1>24 DEF String32
  <2>2. TakenAs(r3, readString(r3, Narrow), 3, s, t5)
    BY <1>5, <1>6, <1>24, <1>25, <2>1, ReadsString, Zenon
  <2> QED BY <1>17, <2>2, Zenon DEF string32
<1>27. /\ Counts(r4, 4) /\ r4.data = e \o g
       /\ r4.fields[1] = l /\ r4.fields[2] = m /\ r4.fields[3] = n /\ r4.fields[4] = s
  BY <1>9, <1>24, <1>26, SMTT(20) DEF TakenAs
<1>28. TakenAs(r4, r5, 4, z, g)
  <2>1. r4.data = (AppendUint(Wide, Len(z)) \o z) \o g
    BY <1>2, <1>27 DEF Bytes64
  <2>2. TakenAs(r4, readString(r4, Wide), 4, z, g)
    BY <1>5, <1>6, <1>8, <1>25, <1>27, <2>1, ReadsString, Zenon
  <2> QED BY <1>17, <2>2, Zenon DEF bytes64
<1>29. /\ Counts(r5, 5) /\ r5.data = g /\ r5.fields[1] = l /\ r5.fields[2] = m
       /\ r5.fields[3] = n /\ r5.fields[4] = s /\ r5.fields[5] = z
  BY <1>27, <1>28, SMTT(20) DEF TakenAs
<1>30. TakenAs(r5, r6, 5, x, <<>>)
  <2>1. g = g \o <<>> /\ <<>> \in Seq(Byte)
    BY <1>8, ConcatEmptySeq, EmptySeq, Zenon
  <2>2. r5.data = (AppendUint(Narrow, Len(x)) \o x) \o <<>>
    BY <1>2, <1>29, <2>1 DEF String32
  <2>3. TakenAs(r5, readString(r5, Narrow), 5, x, <<>>)
    BY <1>5, <1>6, <1>25, <1>29, <2>1, <2>2, ReadsString, Zenon
  <2> QED BY <1>17, <2>3, Zenon DEF string32
<1> DEFINE f == r6.fields
<1>31. r6.ok /\ r6.data = <<>>
  BY <1>30 DEF TakenAs, Counts
<1>32. f[1] = l /\ f[2] = m /\ f[3] = n /\ f[4] = s /\ f[5] = z /\ f[6] = x
  <2>1. f[5 + 1] = x /\ \A i \in 1..5 : f[i] = r5.fields[i]
    BY <1>30, Zenon DEF TakenAs
  <2> QED BY <1>29, <2>1, SMTT(20)
<1>33. PICK w : w = [createdAt |-> ToInstant(l), deadAt |-> ToInstant(m), originSeq |-> n,
                     origin |-> s, payload |-> z, reason |-> x]
  BY Zenon
<1>34. decodeDead(data) = [err |-> "nil", value |-> w]
  BY <1>16, <1>17, <1>31, <1>32, <1>33, Zenon DEF decodeDead, Versioned, Finished
<1>35. Restricted(value, DeadFields) = w
  BY <1>1, <1>5, <1>33, SMTT(20) DEF Restricted, DeadFields, PendingFields
<1> QED BY <1>15, <1>34, <1>35, Zenon

\* Exactly the bytes an encoder writes are read back, as the record they were
\* written for, whatever the base and the widths and however long the value.
THEOREM DecodesBack == Spec => []DecodesExactly
<1>1. SubjectInv => DecodesExactly
  <2> SUFFICES ASSUME SubjectInv PROVE DecodesExactly
    OBVIOUS
  <2>1. ASSUME subject.kind = "value"
        PROVE  /\ decodePending(subject.data).err = "nil" =>
                    encodePending(decodePending(subject.data).value) \in
                      {[err |-> "nil", data |-> subject.data], TooLarge}
               /\ decodeDead(subject.data).err = "nil" =>
                    encodeDead(decodeDead(subject.data).value) \in
                      {[err |-> "nil", data |-> subject.data], TooLarge}
    <3>1. subject \in Values
      <4>1. subject \notin [kind : {"retry"}, attempt : Nat \ {0}, overflow : Overflows,
                            config : Backoffs]
        BY <2>1
      <4> QED BY <2>1, <4>1, Kinds DEF SubjectInv
    <3>2. subject.data \in UpTo(Byte, MaxData)
      BY <3>1 DEF Values
    <3>3. PICK data \in Seq(Byte) : data = subject.data
      BY <3>2, UpToSeq, BoundAssumption
    <3>4. decodePending(data).err = "nil" =>
            encodePending(decodePending(data).value) \in
              {[err |-> "nil", data |-> data], TooLarge}
      BY PendingBack, Zenon
    <3>5. decodeDead(data).err = "nil" =>
            encodeDead(decodeDead(data).value) \in {[err |-> "nil", data |-> data], TooLarge}
      BY DeadBack, Zenon
    <3> QED BY <3>3, <3>4, <3>5, Zenon
  <2>2. ASSUME subject.kind = "record"
        PROVE  /\ encodePending(subject.value).err = "nil" =>
                    decodePending(encodePending(subject.value).data) =
                      [err |-> "nil", value |-> Restricted(subject.value, PendingFields)]
               /\ encodeDead(subject.value).err = "nil" =>
                    decodeDead(encodeDead(subject.value).data) =
                      [err |-> "nil", value |-> Restricted(subject.value, DeadFields)]
    <3>1. subject \in Records
      <4>1. subject \notin [kind : {"retry"}, attempt : Nat \ {0}, overflow : Overflows,
                            config : Backoffs]
        BY <2>2
      <4> QED BY <2>2, <4>1, Kinds DEF SubjectInv
    <3>2. PICK value : value = subject.value
      OBVIOUS
    <3>3. /\ value.createdAt \in Instants /\ value.deadAt \in {-1, 0}
          /\ value.originSeq \in {0, Uints - 1} /\ value.origin \in Strings
          /\ value.payload \in Strings /\ value.reason \in Strings
      BY <3>1, <3>2 DEF Records
    <3>4. MaxUint32 + 1 \in Nat
      BY BasePower, WidthAssumption DEF MaxUint32
    <3>5. value.origin \in Seq(Byte) /\ value.payload \in Seq(Byte) /\ value.reason \in Seq(Byte)
      <4>1. ASSUME NEW s \in Strings PROVE s \in Seq(Byte)
        BY <3>4, UpToSeq DEF Strings
      <4> QED BY <3>3, <4>1
    <3>6. value.deadAt \in Instants /\ value.originSeq \in 0..(Uints - 1)
      BY <3>3, Instant
    <3>7. encodePending(value).err = "nil" =>
            decodePending(encodePending(value).data) =
              [err |-> "nil", value |-> Restricted(value, PendingFields)]
      BY <3>3, <3>5, <3>6, PendingForth, Zenon
    <3>8. encodeDead(value).err = "nil" =>
            decodeDead(encodeDead(value).data) =
              [err |-> "nil", value |-> Restricted(value, DeadFields)]
      BY <3>3, <3>5, <3>6, DeadForth, Zenon
    <3> QED BY <3>2, <3>7, <3>8, Zenon
  <2> QED BY <2>1, <2>2, Zenon DEF DecodesExactly
<1> QED BY <1>1, SubjectsKept, PTL

-----------------------------------------------------------------------------
(***************************************************************************)
(* Rounding to a float64.                                                  *)
(***************************************************************************)
\* The powers of two grow without end.
LEMMA PowerTwo ==
    /\ Power(2, 0) = 1
    /\ \A n \in Nat : /\ Power(2, n) \in Nat \ {0} /\ Power(2, n) > n
                      /\ Power(2, n + 1) = 2 * Power(2, n)
<1>1. Power(2, 0) = 1 /\ \A n \in Nat : Power(2, n) \in Nat /\ Power(2, n + 1) = 2 * Power(2, n)
  BY PowerStep
<1> DEFINE T == {n \in Nat : Power(2, n) > n}
<1>2. 0 \in T
  BY <1>1
<1>3. ASSUME NEW n \in Nat, n \in T PROVE n + 1 \in T
  <2>1. Power(2, n) \in Nat /\ Power(2, n) > n /\ Power(2, n + 1) = 2 * Power(2, n)
    BY <1>1, <1>3
  <2>2. Power(2, n + 1) > n + 1
    BY <2>1
  <2> QED BY <2>2
<1> HIDE DEF T
<1>4. Nat \subseteq T
  BY <1>2, <1>3, NatSet
<1>5. \A n \in Nat : Power(2, n) > n
  BY <1>4 DEF T
<1>6. ASSUME NEW n \in Nat PROVE Power(2, n) \in Nat \ {0}
  BY <1>1, <1>5
<1> QED BY <1>1, <1>5, <1>6, Zenon

\* The unit of a number is even, and half of it is too small.
LEMMA UnitRange ==
    ASSUME NEW n \in Nat, n >= Precision
    PROVE  \E v \in Nat \ {0} : Unit(n) = 2 * v /\ Precision * v <= n
<1> DEFINE Below(k) == n < Precision * Power(2, k)
           T == {k \in Nat : Below(k)}
           m == Min(T)
<1>1. Precision \in Nat \ {0}
  BY DurationAssumption
<1>2. n \in T
  <2>1. Power(2, n) \in Nat /\ Power(2, n) > n
    BY PowerTwo
  <2>2. \A p, a \in Nat : p > 0 => a <= p * a
    OBVIOUS
  <2> QED BY <1>1, <2>1, <2>2
<1>3. m \in T /\ \A k \in T : m <= k
  <2>1. T \in SUBSET Nat /\ T # {}
    BY <1>2
  <2> HIDE DEF T
  <2> QED BY <2>1, MinNat
<1> HIDE DEF m
<1>4. m \in Nat /\ Below(m) /\ m <= n
  BY <1>2, <1>3
<1>5. m # 0
  BY <1>1, <1>4, PowerTwo
<1>6. m \in 1..n /\ m - 1 \in Nat /\ m - 1 \notin T
  BY <1>3, <1>4, <1>5
<1>7. Precision * Power(2, m - 1) <= n
  <2>1. Power(2, m - 1) \in Nat /\ ~Below(m - 1)
    BY <1>6, PowerTwo
  <2> QED BY <1>1, <2>1
<1> DEFINE k == CHOOSE i \in 1..n : /\ Precision * Power(2, i - 1) <= n
                                    /\ n < Precision * Power(2, i)
<1>8. k \in 1..n /\ Precision * Power(2, k - 1) <= n
  BY <1>4, <1>6, <1>7, Zenon
<1>9. Unit(n) = Power(2, k)
  BY Zenon DEF Unit
<1> HIDE DEF k
<1>10. k - 1 \in Nat /\ (k - 1) + 1 = k
  BY <1>8
<1>11. Power(2, k - 1) \in Nat \ {0} /\ Power(2, k) = 2 * Power(2, k - 1)
  BY <1>10, PowerTwo
<1> QED BY <1>8, <1>9, <1>11, Zenon

\* Float is the identity below Precision, and rounds nothing above it to a
\* number below it.
LEMMA FloatRange ==
    ASSUME NEW n \in Int
    PROVE  /\ Float(n) \in Int
           /\ n < Precision => Float(n) = n
           /\ n >= Precision => Float(n) >= Precision
<1>1. /\ Precision \in Nat \ {0} /\ Precision % 2 = 0
  BY DurationAssumption
<1>2. CASE n < Precision
  BY <1>1, <1>2 DEF Float
<1>3. CASE n >= Precision
  <2>0. n \in Nat
    BY <1>1, <1>3
  <2>1. PICK v \in Nat \ {0} : Unit(n) = 2 * v /\ Precision * v <= n
    BY <1>3, <2>0, UnitRange
  <2> DEFINE u == Unit(n)
             q == n \div u
             h == Precision \div 2
  <2>2. u \in Nat \ {0} /\ u = 2 * v
    BY <2>1
  <2> HIDE DEF u
  <2>3. q \in Nat /\ n < (q + 1) * u
    BY <2>0, <2>2, Division, Zenon
  <2>4. h \in Nat /\ Precision = 2 * h
    BY <1>1
  <2>5. Float(n) = (q + 1) * u \/ Float(n) = q * u
    BY <1>1, <1>3, <2>0 DEF Float, u
  <2> HIDE DEF q, h
  <2>6. h * u <= n
    <3>1. h * (2 * v) = (2 * h) * v
      BY <2>4
    <3> QED BY <2>1, <2>2, <2>4, <3>1
  <2>7. h <= q
    <3> SUFFICES ASSUME q + 1 <= h PROVE FALSE
      BY <2>3, <2>4
    <3>1. (q + 1) * u <= h * u
      BY <2>2, <2>3, <2>4, Monotone
    <3>2. h * u \in Nat /\ (q + 1) * u \in Nat
      BY <2>2, <2>3, <2>4
    <3> QED BY <2>0, <2>3, <2>6, <3>1, <3>2
  <2>8. h * u <= q * u /\ q * u \in Nat /\ h * u \in Nat
    BY <2>2, <2>3, <2>4, <2>7, Monotone
  <2>9. (q + 1) * u \in Nat /\ q * u <= (q + 1) * u
    BY <2>2, <2>3, Monotone
  <2>10. Precision <= h * u
    <3>1. \A a, b \in Nat : b > 0 => 2 * a <= a * (2 * b)
      OBVIOUS
    <3> QED BY <2>2, <2>4, <3>1
  <2> QED BY <1>1, <1>3, <2>5, <2>8, <2>9, <2>10
<1> QED BY <1>1, <1>2, <1>3

-----------------------------------------------------------------------------
(***************************************************************************)
(* Backoff.                                                                *)
(***************************************************************************)
\* A configuration that New accepts.
IsBackoff(config) ==
    /\ config.initial \in Int /\ config.max \in Int /\ config.num \in Int
    /\ config.den \in Nat \ {0}
    /\ ValidBackoff(config)

\* The delay after a delay that was waited.
Longer(config, overflow, delay) ==
    IF delay >= config.max THEN delay ELSE Grown(config, overflow, delay)

\* f gives the delays of the first n attempts.
IsDelays(config, overflow, n, f) ==
    f = [m \in 1..n |-> IF m = 1 THEN config.initial ELSE Longer(config, overflow, f[m - 1])]

\* retryDelay looks up the last of them.
LEMMA DelayForm ==
    ASSUME NEW config, NEW overflow, NEW attempt
    PROVE  retryDelay(config, overflow, attempt) =
             IF config.num <= config.den THEN config.initial
             ELSE (CHOOSE f : IsDelays(config, overflow, attempt, f))[attempt]
BY Zenon DEF retryDelay, IsDelays, Longer

\* A round gives a delay again, not less than the one before; and from a delay
\* in range, one in range.
LEMMA LongerRange ==
    ASSUME NEW config, IsBackoff(config), NEW overflow \in Overflows, NEW delay \in Int
    PROVE  /\ Longer(config, overflow, delay) \in Int
           /\ Longer(config, overflow, delay) >= delay
           /\ delay <= config.max => Longer(config, overflow, delay) <= config.max
<1> DEFINE exact == Float(delay) * config.num
           product == Float(exact) \div config.den
           next == Scaled(config, overflow, delay)
<1>1. product \in Int
  <2>1. Float(delay) \in Int
    BY FloatRange
  <2>2. exact \in Int
    BY <2>1 DEF IsBackoff
  <2> HIDE DEF exact
  <2>3. Float(exact) \in Int
    BY <2>2, FloatRange
  <2> QED BY <2>3 DEF IsBackoff
<1>2. overflow \in Int
  BY DurationAssumption DEF Overflows
<1>3. next \in Int
  <2>1. next = IF product > MaxDuration THEN overflow ELSE product
    BY DEF Scaled
  <2> QED BY <1>1, <1>2, <2>1
<1> HIDE DEF product, next
<1>4. Longer(config, overflow, delay) =
        IF delay >= config.max THEN delay
        ELSE IF next <= delay \/ next > config.max THEN config.max ELSE next
  BY DEF Longer, Grown, next
<1> QED BY <1>3, <1>4 DEF IsBackoff

\* The delays of a configuration are the values of one function.
LEMMA DelayFunction ==
    ASSUME NEW config, IsBackoff(config), NEW overflow \in Overflows,
           ~(config.num <= config.den)
    PROVE  \E h : /\ h[0] = config.initial
                  /\ \A i \in Nat : /\ h[i] \in Int
                                    /\ h[i + 1] = Longer(config, overflow, h[i])
                                    /\ retryDelay(config, overflow, i + 1) = h[i]
<1> DEFINE G == [i \in Nat |-> [v \in Int |-> Longer(config, overflow, v)]]
<1>1. G \in [Nat -> [Int -> Int]]
  <2>1. \A v \in Int : Longer(config, overflow, v) \in Int
    BY LongerRange
  <2> QED BY <2>1, Zenon
<1>2. PICK h : GoesOn(Int, config.initial, G, h)
  <2>1. config.initial \in Int
    BY DEF IsBackoff
  <2> HIDE DEF G
  <2> QED BY <1>1, <2>1, Recursion, Zenon
<1>3. h[0] = config.initial /\ \A i \in Nat : h[i] \in Int /\ h[i + 1] = G[i][h[i]]
  <2> HIDE DEF G
  <2> QED BY <1>2 DEF GoesOn
<1>4. \A i \in Nat : h[i] \in Int /\ h[i + 1] = Longer(config, overflow, h[i])
  BY <1>3, Zenon
<1> HIDE DEF G
<1>5. ASSUME NEW k \in Nat PROVE retryDelay(config, overflow, k + 1) = h[k]
  <2> DEFINE n == k + 1
             q == [m \in 1..n |-> h[m - 1]]
             f == CHOOSE f : IsDelays(config, overflow, n, f)
  <2>1. ASSUME NEW m \in 1..n
        PROVE  q[m] = IF m = 1 THEN config.initial ELSE Longer(config, overflow, q[m - 1])
    <3>1. CASE m = 1
      BY <1>3, <3>1
    <3>2. CASE m # 1
      <4>1. m - 2 \in Nat /\ m - 1 \in 1..n /\ (m - 2) + 1 = m - 1 /\ (m - 1) - 1 = m - 2
        BY <3>2
      <4>2. h[m - 1] = Longer(config, overflow, h[m - 2])
        BY <1>4, <4>1
      <4> QED BY <3>2, <4>1, <4>2
    <3> QED BY <3>1, <3>2
  <2>2. IsDelays(config, overflow, n, q)
    BY <2>1, Zenon DEF IsDelays
  <2>3. IsDelays(config, overflow, n, f)
    BY <2>2
  <2> HIDE DEF f, q
  <2> DEFINE T == {i \in Nat : i < n => f[i + 1] = h[i]}
  <2>4. 0 \in T
    BY <1>3, <2>3 DEF IsDelays
  <2>5. ASSUME NEW i \in Nat, i \in T PROVE i + 1 \in T
    <3> SUFFICES ASSUME i + 1 < n PROVE f[(i + 1) + 1] = h[i + 1]
      OBVIOUS
    <3>1. /\ (i + 1) + 1 \in 1..n /\ (i + 1) + 1 # 1
          /\ ((i + 1) + 1) - 1 = i + 1 /\ f[i + 1] = h[i]
      BY <2>5
    <3>2. f[(i + 1) + 1] = Longer(config, overflow, f[i + 1])
      BY <2>3, <3>1, Zenon DEF IsDelays
    <3> QED BY <1>4, <3>1, <3>2
  <2> HIDE DEF T
  <2>6. Nat \subseteq T
    BY <2>4, <2>5, NatSet
  <2>7. f[n] = h[k]
    BY <2>6 DEF T
  <2> QED BY <2>7, DelayForm DEF f
<1> QED BY <1>3, <1>4, <1>5

\* The first attempt waits RetryInitial, and each later one the delay a round
\* makes of the delay before.
LEMMA DelayStep ==
    ASSUME NEW config, IsBackoff(config), NEW overflow \in Overflows
    PROVE  /\ retryDelay(config, overflow, 1) = config.initial
           /\ \A n \in Nat \ {0} :
                /\ retryDelay(config, overflow, n) \in Int
                /\ retryDelay(config, overflow, n + 1) =
                     IF config.num <= config.den THEN config.initial
                     ELSE Longer(config, overflow, retryDelay(config, overflow, n))
<1>1. CASE config.num <= config.den
  BY <1>1, DelayForm, Zenon DEF IsBackoff
<1>2. CASE ~(config.num <= config.den)
  <2>1. PICK h : /\ h[0] = config.initial
                 /\ \A i \in Nat : /\ h[i] \in Int
                                   /\ h[i + 1] = Longer(config, overflow, h[i])
                                   /\ retryDelay(config, overflow, i + 1) = h[i]
    BY <1>2, DelayFunction
  <2>2. ASSUME NEW n \in Nat \ {0}
        PROVE  /\ retryDelay(config, overflow, n) = h[n - 1]
               /\ h[n - 1] \in Int
               /\ retryDelay(config, overflow, n + 1) = Longer(config, overflow, h[n - 1])
    <3>1. n - 1 \in Nat /\ (n - 1) + 1 = n
      OBVIOUS
    <3> QED BY <2>1, <3>1
  <2> QED BY <1>2, <2>1, <2>2
<1> QED BY <1>1, <1>2

\* A delay is between RetryInitial and RetryMax.
LEMMA DelayRange ==
    ASSUME NEW config, IsBackoff(config), NEW overflow \in Overflows, NEW n \in Nat \ {0}
    PROVE  retryDelay(config, overflow, n) \in config.initial..config.max
<1> DEFINE D(i) == retryDelay(config, overflow, i)
           T == {i \in Nat : D(i + 1) \in config.initial..config.max}
<1>1. /\ config.initial \in Int /\ config.max \in Int /\ config.initial <= config.max
  BY DEF IsBackoff, ValidBackoff
<1>2. 0 \in T
  BY <1>1, DelayStep
<1>3. ASSUME NEW i \in Nat, i \in T PROVE i + 1 \in T
  <2>1. /\ D(i + 1) \in Int
        /\ D((i + 1) + 1) = IF config.num <= config.den THEN config.initial
                            ELSE Longer(config, overflow, D(i + 1))
    BY DelayStep
  <2> HIDE DEF D
  <2>2. D(i + 1) \in config.initial..config.max
    BY <1>3
  <2>3. Longer(config, overflow, D(i + 1)) \in config.initial..config.max
    BY <1>1, <2>1, <2>2, LongerRange
  <2> QED BY <1>1, <2>1, <2>3
<1> HIDE DEF T
<1>4. Nat \subseteq T
  BY <1>2, <1>3, NatSet
<1>5. n - 1 \in Nat /\ (n - 1) + 1 = n
  OBVIOUS
<1> QED BY <1>4, <1>5 DEF T

\* The smaller of two numbers.
LEMMA MinTwo ==
    ASSUME NEW a \in Int, NEW b \in Int
    PROVE  Min({a, b}) = IF a <= b THEN a ELSE b
<1> DEFINE m == IF a <= b THEN a ELSE b
<1>1. m \in {a, b} /\ \A y \in {a, b} : m <= y
  OBVIOUS
<1>2. \A x \in {a, b} : (\A y \in {a, b} : x <= y) => x = m
  OBVIOUS
<1> HIDE DEF m
<1>3. Min({a, b}) = m
  BY <1>1, <1>2 DEF Min
<1> QED BY <1>3 DEF m

\* The smaller of a number and the longest delay.
Capped(config, e) == IF e <= config.max THEN e ELSE config.max

\* One round with a whole multiplier of at least two, from a delay that is a
\* number or the maximum below it, gives the product or the maximum below that,
\* if this is not too large for a float64.
LEMMA LongerExact ==
    ASSUME NEW config, IsBackoff(config), NEW overflow \in Overflows,
           config.den = 1, config.num >= 2, NEW e \in Nat \ {0},
           Capped(config, e * config.num) < Precision
    PROVE  Longer(config, overflow, Capped(config, e)) = Capped(config, e * config.num)
<1>1. /\ config.num \in Int /\ config.max \in Int /\ config.max <= MaxDuration
      /\ MaxDuration \in Nat /\ Precision \in Nat
  BY DurationAssumption DEF IsBackoff, ValidBackoff
<1> DEFINE product == e * config.num
<1>2. product \in Int /\ product > e
  <2>1. \A m \in Int : m >= 2 => e * m \in Int /\ e * m > e
    OBVIOUS
  <2> QED BY <1>1, <2>1
<1>3. CASE e >= config.max
  BY <1>1, <1>2, <1>3 DEF Longer, Capped
<1>4. CASE e < config.max
  <2> DEFINE next == Scaled(config, overflow, e)
             rounded == Float(product)
  <2>1. e < Precision
    BY <1>1, <1>2, <1>4 DEF Capped
  <2>2. Float(e) = e
    BY <2>1, FloatRange
  <2>3. /\ rounded \in Int
        /\ product < Precision => rounded = product
        /\ product >= Precision => rounded >= Precision
    <3> HIDE DEF product
    <3> QED BY <1>2, FloatRange
  <2>4. next = IF rounded > MaxDuration THEN overflow ELSE rounded
    <3>1. next = IF rounded \div 1 > MaxDuration THEN overflow ELSE rounded \div 1
      BY <2>2, Zenon DEF Scaled
    <3>2. rounded \div 1 = rounded
      <4> HIDE DEF rounded
      <4> QED BY <2>3
    <3> QED BY <3>1, <3>2, Zenon
  <2>5. Longer(config, overflow, e) =
          IF next <= e \/ next > config.max THEN config.max ELSE next
    BY <1>1, <1>4 DEF Longer, Grown
  <2>6. overflow = -MaxDuration - 1 \/ overflow = MaxDuration
    BY DEF Overflows
  <2>7. /\ Capped(config, e) = e
        /\ Capped(config, product) = IF product <= config.max THEN product ELSE config.max
        /\ Capped(config, product) < Precision
    BY <1>1, <1>4 DEF Capped
  <2> HIDE DEF product, next, rounded
  <2>8. Longer(config, overflow, e) = Capped(config, product)
    <3>1. CASE product <= config.max
      <4>1. product < Precision /\ rounded = product
        BY <1>1, <1>2, <2>3, <2>7, <3>1, SMTT(20)
      <4>2. next = product
        BY <1>1, <1>2, <2>4, <3>1, <4>1, SMTT(20)
      <4> QED BY <1>1, <1>2, <2>5, <2>7, <3>1, <4>2, SMTT(20)
    <3>2. CASE product > config.max
      <4>1. config.max < Precision /\ rounded > config.max
        BY <1>1, <1>2, <2>3, <2>7, <3>2, SMTT(20)
      <4>2. next > config.max \/ next <= e \/ next = config.max
        BY <1>1, <1>4, <2>3, <2>4, <2>6, <4>1, SMTT(20)
      <4>3. next \in Int
        BY <1>1, <2>3, <2>4, <2>6
      <4> QED BY <1>1, <1>2, <2>5, <2>7, <3>2, <4>2, <4>3
    <3> QED BY <1>1, <1>2, <3>1, <3>2
  <2> QED BY <2>7, <2>8 DEF product
<1> QED BY <1>1, <1>3, <1>4

\* With a whole multiplier and a positive start the delays are the exponential,
\* capped, as far as a float64 is exact.
LEMMA DelayExact ==
    ASSUME NEW config, IsBackoff(config), NEW overflow \in Overflows,
           config.den = 1, config.initial > 0, NEW n \in Nat \ {0},
           Min({config.initial * Power(config.num, n - 1), config.max}) < Precision
    PROVE  retryDelay(config, overflow, n) =
             Min({config.initial * Power(config.num, n - 1), config.max})
<1> DEFINE D(i) == retryDelay(config, overflow, i)
           E(i) == config.initial * Power(config.num, i)
           T == {i \in Nat : /\ E(i) \in Nat \ {0}
                             /\ config.num = 1 => E(i) = config.initial
                             /\ Capped(config, E(i)) < Precision =>
                                  D(i + 1) = Capped(config, E(i))}
<1>1. /\ config.initial \in Nat \ {0} /\ config.max \in Int /\ config.initial <= config.max
      /\ config.num \in Nat \ {0} /\ Precision \in Nat
  BY DurationAssumption DEF IsBackoff, ValidBackoff
<1>2. 0 \in T
  <2>1. E(0) = config.initial
    <3>1. Power(config.num, 0) = 1
      BY <1>1, PowerStep, Zenon
    <3> QED BY <1>1, <3>1
  <2>2. D(0 + 1) = config.initial
    BY DelayStep
  <2> HIDE DEF D, E
  <2> QED BY <1>1, <2>1, <2>2 DEF Capped
<1>3. ASSUME NEW i \in Nat, i \in T PROVE i + 1 \in T
  <2>1. E(i + 1) = E(i) * config.num
    <3>1. Power(config.num, i) \in Nat
          /\ Power(config.num, i + 1) = config.num * Power(config.num, i)
      BY <1>1, PowerStep, Zenon
    <3>2. \A a, m, p \in Nat : a * (m * p) = (a * p) * m
      OBVIOUS
    <3> QED BY <1>1, <3>1, <3>2
  <2>2. D((i + 1) + 1) = IF config.num <= config.den THEN config.initial
                         ELSE Longer(config, overflow, D(i + 1))
    BY DelayStep
  <2> HIDE DEF D, E
  <2>3. /\ E(i) \in Nat \ {0}
        /\ config.num = 1 => E(i) = config.initial
        /\ Capped(config, E(i)) < Precision => D(i + 1) = Capped(config, E(i))
    BY <1>3
  <2>4. E(i + 1) \in Nat \ {0} /\ E(i) <= E(i + 1)
    <3>1. \A e, m \in Nat \ {0} : e * m \in Nat \ {0} /\ e <= e * m
      OBVIOUS
    <3> QED BY <1>1, <2>1, <2>3, <3>1
  <2>5. CASE config.num = 1
    <3>1. E(i + 1) = config.initial
      BY <2>1, <2>3, <2>5
    <3> QED BY <1>1, <2>2, <2>4, <2>5, <3>1 DEF Capped
  <2>6. CASE config.num >= 2
    <3>1. ASSUME Capped(config, E(i + 1)) < Precision
          PROVE  D((i + 1) + 1) = Capped(config, E(i + 1))
      <4>1. Capped(config, E(i)) < Precision
        BY <1>1, <2>3, <2>4, <3>1 DEF Capped
      <4>2. D((i + 1) + 1) = Longer(config, overflow, Capped(config, E(i)))
        BY <1>1, <2>2, <2>3, <2>6, <4>1
      <4>3. Capped(config, E(i) * config.num) < Precision
        BY <2>1, <3>1
      <4>4. Longer(config, overflow, Capped(config, E(i))) = Capped(config, E(i) * config.num)
        BY <2>3, <2>6, <4>3, LongerExact
      <4> QED BY <2>1, <4>2, <4>4
    <3> QED BY <2>4, <2>6, <3>1
  <2> QED BY <1>1, <2>5, <2>6
<1>4. Nat \subseteq T
  <2> HIDE DEF T
  <2> QED BY <1>2, <1>3, NatSet
<1>5. n - 1 \in Nat /\ (n - 1) + 1 = n
  OBVIOUS
<1>6. /\ E(n - 1) \in Nat
      /\ Capped(config, E(n - 1)) < Precision => D(n) = Capped(config, E(n - 1))
  <2> HIDE DEF D, E
  <2> QED BY <1>4, <1>5
<1>7. Min({E(n - 1), config.max}) = Capped(config, E(n - 1))
  <2> HIDE DEF E
  <2> QED BY <1>1, <1>6, MinTwo DEF Capped
<1> HIDE DEF T
<1> QED BY <1>6, <1>7

\* A subject that is retried has a configuration New accepts.
LEMMA RetrySubject ==
    ASSUME SubjectInv, subject.kind = "retry"
    PROVE  /\ subject.attempt \in Nat \ {0} /\ subject.overflow \in Overflows
           /\ IsBackoff(subject.config)
<1>1. subject \in [kind : {"retry"}, attempt : Nat \ {0}, overflow : Overflows,
                   config : Backoffs]
  BY Kinds DEF SubjectInv
<1>2. MaxFactor \in Nat /\ MaxDuration \in Nat
  BY BoundAssumption, DurationAssumption
<1>3. subject.config \in [initial : 0..MaxDuration, max : 0..MaxDuration,
                          num : 1..MaxFactor, den : 1..2]
      /\ ValidBackoff(subject.config)
  BY <1>1 DEF Backoffs
<1> QED BY <1>1, <1>2, <1>3 DEF IsBackoff

\* Every delay is between RetryInitial and RetryMax, for durations of any width
\* and on both platforms, whatever the multiplier and the attempt.
THEOREM DelaysInRange == Spec => []DelayInRange
<1>1. SubjectInv => DelayInRange
  BY RetrySubject, DelayRange DEF DelayInRange, DelayAt
<1> QED BY <1>1, SubjectsKept, PTL

\* With a whole multiplier the delays are the exponential, capped at RetryMax,
\* as long as this is exact in a float64: neither truncation nor overflow shows.
THEOREM DelaysExponential == Spec => []ExponentialUpToMax
<1>1. SubjectInv => ExponentialUpToMax
  BY RetrySubject, DelayExact, Zenon DEF ExponentialUpToMax, DelayAt
<1> QED BY <1>1, SubjectsKept, PTL

\* A later attempt never waits less than an earlier one.
THEOREM DelaysGrow == Spec => DelayGrows
<1>1. SubjectInv /\ [Next]_subject =>
        [subject.kind = "retry" => DelayAt(subject'.attempt) >= DelayAt(subject.attempt)]_subject
  <2> SUFFICES ASSUME SubjectInv, Next, subject.kind = "retry"
               PROVE  DelayAt(subject'.attempt) >= DelayAt(subject.attempt)
    OBVIOUS
  <2>1. /\ subject.attempt \in Nat \ {0} /\ subject.overflow \in Overflows
        /\ IsBackoff(subject.config)
    BY RetrySubject
  <2>2. subject'.attempt = subject.attempt + 1
    <3>1. subject \in [kind : {"retry"}, attempt : Nat \ {0}, overflow : Overflows,
                       config : Backoffs]
      BY Kinds DEF SubjectInv
    <3>2. Retry
      BY DEF Next, Rewrite
    <3> QED BY <3>1, <3>2 DEF Retry
  <2> DEFINE config == subject.config
             overflow == subject.overflow
             now == retryDelay(config, overflow, subject.attempt)
             later == retryDelay(config, overflow, subject.attempt + 1)
  <2>3. now \in Int /\ now >= config.initial /\ config.initial \in Int
    BY <2>1, DelayRange DEF IsBackoff
  <2>4. later = IF config.num <= config.den THEN config.initial
                ELSE Longer(config, overflow, now)
    BY <2>1, DelayStep
  <2>5. CASE config.num <= config.den
    BY <2>2, <2>3, <2>4, <2>5, DelayForm, Zenon DEF DelayAt
  <2>6. CASE ~(config.num <= config.den)
    <3>1. Longer(config, overflow, now) >= now
      BY <2>1, <2>3, LongerRange
    <3> QED BY <2>2, <2>4, <2>6, <3>1 DEF DelayAt
  <2> QED BY <2>5, <2>6
<1> QED BY <1>1, SubjectsKept, PTL DEF Spec, DelayGrows

-----------------------------------------------------------------------------
(***************************************************************************)
(* Typed.                                                                  *)
(***************************************************************************)
\* k is the first item of m that the codec refuses, or comes after the last.
IsFirstFailure(outcome, m, k) ==
    /\ k \in 1..(m + 1)
    /\ \A j \in 1..(k - 1) : outcome[j] = "ok"
    /\ k <= m => outcome[k] \in {"error", "panic"}

\* There is one.
LEMMA FirstFailure ==
    ASSUME NEW m \in Nat, NEW outcome \in [1..m -> Outcomes]
    PROVE  \E k \in Nat : IsFirstFailure(outcome, m, k)
<1> DEFINE failed == {i \in 1..m : outcome[i] # "ok"} \cup {m + 1}
           k == Min(failed)
<1>1. failed \in SUBSET Nat /\ failed # {} /\ failed \in SUBSET (1..(m + 1))
  OBVIOUS
<1>2. k \in failed /\ \A x \in failed : k <= x
  <2> HIDE DEF failed
  <2> QED BY <1>1, MinNat
<1> HIDE DEF k
<1>3. k \in 1..(m + 1) /\ k \in Nat
  BY <1>2
<1>4. ASSUME NEW j \in 1..(k - 1) PROVE outcome[j] = "ok"
  <2>1. j \in 1..m /\ j < k
    BY <1>3
  <2> QED BY <1>2, <1>3, <2>1
<1>5. k <= m => outcome[k] \in {"error", "panic"}
  BY <1>2, <1>3 DEF Outcomes
<1> QED BY <1>3, <1>4, <1>5 DEF IsFirstFailure

\* What n rounds leave, if k is the first item that fails.
After(items, outcome, m, k, n) ==
    [err |-> IF n < k THEN "nil" ELSE Recovered(outcome[k]),
     Index |-> IF n < k THEN 0 ELSE k,
     made |-> [i \in 1..m |-> IF i <= n /\ i < k THEN items[i] ELSE Zero]]

\* The next round leaves what it should.
LEMMA RoundAfter ==
    ASSUME NEW m \in Nat, NEW outcome, NEW items, NEW k \in Nat, IsFirstFailure(outcome, m, k),
           NEW n \in 0..(m - 1)
    PROVE  Round(After(items, outcome, m, k, n), n + 1, outcome[n + 1], items[n + 1]) =
             After(items, outcome, m, k, n + 1)
<1> DEFINE Made(i) == [j \in 1..m |-> IF j <= i /\ j < k THEN items[j] ELSE Zero]
           before == After(items, outcome, m, k, n)
           after == After(items, outcome, m, k, n + 1)
<1>1. /\ k \in 1..(m + 1)
      /\ \A j \in 1..(k - 1) : outcome[j] = "ok"
      /\ k <= m => outcome[k] \in {"error", "panic"}
  BY Zenon DEF IsFirstFailure
<1>2. CASE k <= n
  <2>1. Made(n) = Made(n + 1)
    BY <1>2
  <2>2. /\ before = [err |-> Recovered(outcome[k]), Index |-> k, made |-> Made(n)]
        /\ after = [err |-> Recovered(outcome[k]), Index |-> k, made |-> Made(n + 1)]
    <3>1. ~(n < k) /\ ~(n + 1 < k)
      BY <1>2
    <3> QED BY <3>1, Zenon DEF After
  <2>3. Recovered(outcome[k]) # "nil"
    <3>1. outcome[k] \in {"error", "panic"}
      BY <1>1, <1>2
    <3> QED BY <3>1 DEF Recovered
  <2> HIDE DEF before, after, Made
  <2>4. before = after /\ before.err # "nil"
    BY <2>1, <2>2, <2>3
  <2>5. Round(before, n + 1, outcome[n + 1], items[n + 1]) = before
    BY <2>4, Zenon DEF Round
  <2> QED BY <2>4, <2>5, Zenon DEF before, after
<1>3. CASE k = n + 1
  <2>1. Made(n) = Made(n + 1)
    BY <1>3
  <2>2. /\ before = [err |-> "nil", Index |-> 0, made |-> Made(n)]
        /\ after = [err |-> Recovered(outcome[n + 1]), Index |-> n + 1, made |-> Made(n + 1)]
    <3>1. n < k /\ ~(n + 1 < k)
      BY <1>3
    <3> QED BY <1>3, <3>1, Zenon DEF After
  <2>3. Recovered(outcome[n + 1]) # "nil"
    <3>1. outcome[n + 1] \in {"error", "panic"}
      BY <1>1, <1>3
    <3> QED BY <3>1 DEF Recovered
  <2> DEFINE e == Recovered(outcome[n + 1])
  <2>4. Round(before, n + 1, outcome[n + 1], items[n + 1]) =
          IF before.err # "nil" THEN before
          ELSE [before EXCEPT !.err = e, !.Index = n + 1]
    BY <2>3, Zenon DEF Round
  <2>5. before.err = "nil" /\ [before EXCEPT !.err = e, !.Index = n + 1] = after
    <3> DEFINE failing == [before EXCEPT !.err = e]
    <3>1. /\ before = [err |-> "nil", Index |-> 0, made |-> Made(n)]
          /\ after = [err |-> e, Index |-> n + 1, made |-> Made(n)]
      BY <2>1, <2>2, Zenon
    <3> HIDE DEF before, after, Made, e
    <3>2. before.err = "nil" /\ failing = [err |-> e, Index |-> 0, made |-> Made(n)]
      BY <3>1
    <3>3. [failing EXCEPT !.Index = n + 1] = after
      <4> HIDE DEF failing
      <4> QED BY <3>1, <3>2
    <3> QED BY <3>2, <3>3
  <2> HIDE DEF before, after, Made, e
  <2> QED BY <2>4, <2>5, Zenon DEF before, after
<1>4. CASE n + 1 < k
  <2>1. /\ before = [err |-> "nil", Index |-> 0, made |-> Made(n)]
        /\ after = [err |-> "nil", Index |-> 0, made |-> Made(n + 1)]
    <3>1. n < k /\ n + 1 < k
      BY <1>4
    <3> QED BY <3>1, Zenon DEF After
  <2>2. Recovered(outcome[n + 1]) = "nil"
    <3>1. outcome[n + 1] = "ok"
      BY <1>1, <1>4
    <3> QED BY <3>1 DEF Recovered
  <2>3. [Made(n) EXCEPT ![n + 1] = items[n + 1]] = Made(n + 1)
    <3>1. ASSUME NEW j \in 1..m
          PROVE  [Made(n) EXCEPT ![n + 1] = items[n + 1]][j] = Made(n + 1)[j]
      <4>1. CASE j = n + 1
        BY <1>4, <4>1
      <4>2. CASE j # n + 1
        BY <1>4, <4>2
      <4> QED BY <4>1, <4>2
    <3> QED BY <3>1, Zenon
  <2>4. Round(before, n + 1, outcome[n + 1], items[n + 1]) =
          IF before.err # "nil" THEN before
          ELSE [before EXCEPT !.made[n + 1] = items[n + 1]]
    BY <2>2, Zenon DEF Round
  <2> HIDE DEF before, after, Made
  <2>5. before.err = "nil" /\ [before EXCEPT !.made[n + 1] = items[n + 1]] = after
    BY <2>1, <2>3
  <2> QED BY <2>4, <2>5, Zenon DEF before, after
<1> QED BY <1>1, <1>2, <1>3, <1>4

\* f gives what the rounds of a loop leave.
IsRounds(items, outcome, f) ==
    f = [n \in 0..Len(items) |->
           IF n = 0 THEN [err |-> "nil", Index |-> 0, made |-> [i \in DOMAIN items |-> Zero]]
           ELSE Round(f[n - 1], n, outcome[n], items[n])]

\* The loop looks up the last.
LEMMA LoopForm ==
    ASSUME NEW items, NEW outcome
    PROVE  Loop(items, outcome) = (CHOOSE f : IsRounds(items, outcome, f))[Len(items)]
BY Zenon DEF Loop, IsRounds

\* The loops of the typed log stop at the first item that fails, and reach the
\* end if none does.
LEMMA LoopResult ==
    ASSUME NEW m \in Nat, NEW outcome, NEW items, DOMAIN items = 1..m, Len(items) = m,
           NEW k \in Nat, IsFirstFailure(outcome, m, k)
    PROVE  Loop(items, outcome) = After(items, outcome, m, k, m)
<1> DEFINE A(n) == After(items, outcome, m, k, n)
           start == [err |-> "nil", Index |-> 0, made |-> [i \in DOMAIN items |-> Zero]]
           q == [n \in 0..m |-> A(n)]
           p == CHOOSE f : IsRounds(items, outcome, f)
<1>1. A(0) = start
  <2>1. 0 < k
    BY DEF IsFirstFailure
  <2>2. [i \in 1..m |-> IF i <= 0 /\ i < k THEN items[i] ELSE Zero] = [i \in 1..m |-> Zero]
    OBVIOUS
  <2> QED BY <2>1, <2>2, Zenon DEF After
<1>2. ASSUME NEW n \in 0..(m - 1)
      PROVE  Round(A(n), n + 1, outcome[n + 1], items[n + 1]) = A(n + 1)
  BY RoundAfter
<1> HIDE DEF A, start
<1>3. ASSUME NEW n \in 0..m
      PROVE  q[n] = IF n = 0 THEN start ELSE Round(q[n - 1], n, outcome[n], items[n])
  <2>1. CASE n = 0
    BY <1>1, <2>1
  <2>2. CASE n # 0
    <3>1. n - 1 \in 0..(m - 1) /\ n - 1 \in 0..m /\ (n - 1) + 1 = n
      BY <2>2
    <3>2. Round(A(n - 1), n, outcome[n], items[n]) = A(n)
      BY <1>2, <3>1
    <3>3. q[n] = A(n) /\ q[n - 1] = A(n - 1)
      BY <3>1
    <3> HIDE DEF q
    <3> QED BY <2>2, <3>2, <3>3, Zenon
  <2> QED BY <2>1, <2>2
<1>4. IsRounds(items, outcome, q)
  BY <1>3, Zenon DEF IsRounds, start
<1>5. IsRounds(items, outcome, p)
  BY <1>4, Zenon
<1> HIDE DEF p, q
<1>6. p = [n \in 0..m |-> IF n = 0 THEN start ELSE Round(p[n - 1], n, outcome[n], items[n])]
  BY <1>5, Zenon DEF IsRounds, start
<1> DEFINE T == {n \in Nat : n <= m => p[n] = A(n)}
<1>7. 0 \in T
  <2>1. 0 \in 0..m
    OBVIOUS
  <2>2. p[0] = start
    BY <1>6, <2>1, Zenon
  <2> QED BY <1>1, <2>2
<1>8. ASSUME NEW n \in Nat, n \in T PROVE n + 1 \in T
  <2> SUFFICES ASSUME n + 1 <= m PROVE p[n + 1] = A(n + 1)
    OBVIOUS
  <2>1. /\ n + 1 \in 0..m /\ n + 1 # 0 /\ (n + 1) - 1 = n /\ n \in 0..(m - 1)
        /\ p[n] = A(n)
    BY <1>8
  <2>2. p[n + 1] = Round(p[n], n + 1, outcome[n + 1], items[n + 1])
    BY <1>6, <2>1, Zenon
  <2> QED BY <1>2, <2>1, <2>2, Zenon
<1> HIDE DEF T
<1>9. Nat \subseteq T
  BY <1>7, <1>8, NatSet
<1>10. p[m] = A(m)
  BY <1>9 DEF T
<1> QED BY <1>10, LoopForm, Zenon DEF p, A

\* A loop leaves all items, or an error with the number of the first that fails.
LoopFits(items, outcome, m, k) ==
    /\ k = m + 1 => Loop(items, outcome).err = "nil" /\ Loop(items, outcome).made = items
    /\ k # m + 1 => Loop(items, outcome).err # "nil" /\ Loop(items, outcome).Index = k

\* So does every loop.
LEMMA LoopEnds ==
    ASSUME NEW m \in Nat, NEW outcome, NEW items, items = [i \in 1..m |-> items[i]],
           NEW k \in Nat, IsFirstFailure(outcome, m, k)
    PROVE  LoopFits(items, outcome, m, k)
<1> DEFINE Made == [i \in 1..m |-> IF i <= m /\ i < k THEN items[i] ELSE Zero]
           end == Loop(items, outcome)
<1>1. DOMAIN items = 1..m /\ Len(items) = m
  <2> DEFINE S == {items[i] : i \in 1..m}
  <2>1. items \in [1..m -> S]
    OBVIOUS
  <2> HIDE DEF S
  <2> QED BY <2>1
<1>2. end = After(items, outcome, m, k, m)
  BY <1>1, LoopResult
<1>3. end = [err |-> IF m < k THEN "nil" ELSE Recovered(outcome[k]),
             Index |-> IF m < k THEN 0 ELSE k, made |-> Made]
  BY <1>2, Zenon DEF After
<1>4. /\ end.err = IF m < k THEN "nil" ELSE Recovered(outcome[k])
      /\ end.Index = IF m < k THEN 0 ELSE k
      /\ end.made = Made
  <2> HIDE DEF Made, end
  <2> QED BY <1>3
<1>5. k \in 1..(m + 1) /\ (k <= m => outcome[k] \in {"error", "panic"})
  BY DEF IsFirstFailure
<1>6. CASE k = m + 1
  <2>1. Made = items
    BY <1>6
  <2>2. m < k
    BY <1>6
  <2> HIDE DEF Made, end
  <2>3. end.err = "nil" /\ end.made = items
    BY <1>4, <2>1, <2>2, Zenon
  <2> QED BY <1>6, <2>3, Zenon DEF end, LoopFits
<1>7. CASE k # m + 1
  <2>1. ~(m < k) /\ outcome[k] \in {"error", "panic"}
    BY <1>5, <1>7
  <2>2. Recovered(outcome[k]) # "nil"
    BY <2>1 DEF Recovered
  <2> HIDE DEF Made, end
  <2>3. end.err # "nil" /\ end.Index = k
    BY <1>4, <2>1, <2>2, Zenon
  <2> QED BY <1>7, <2>3, Zenon DEF end, LoopFits
<1> QED BY <1>6, <1>7

\* Whatever the codec does on the items of a batch of any length, the batch is
\* appended whole or not at all, and what was leased or read comes to its
\* caller, decoded in order or raw with an error that names the first item that
\* does not decode.
THEOREM CodecSafe == Spec => []CodecLosesNothing
<1>1. SubjectInv => CodecLosesNothing
  <2> SUFFICES ASSUME SubjectInv, subject.kind = "batch" PROVE CodecLosesNothing
    BY Zenon DEF CodecLosesNothing
  <2> DEFINE outcome == subject.outcome
             values == [i \in DOMAIN outcome |-> i]
             stored == [i \in DOMAIN outcome |-> [Position |-> i, Payload |-> Encode(i)]]
             raw == [err |-> subject.err, items |-> IF subject.err = "nil" THEN stored ELSE <<>>]
             written == BatchWrite(values, outcome)
             read == Read(raw, outcome)
             page == DeadLetters(raw, outcome)
             IsFirst(i) == /\ i \in DOMAIN outcome /\ outcome[i] # "ok"
                           /\ \A j \in 1..(i - 1) : outcome[j] = "ok"
             InOrder(decoded) ==
               /\ unwrap(decoded) = raw.items
               /\ \A i \in DOMAIN decoded : decoded[i].Position = i /\ decoded[i].Value = i
  <2>1. PICK m \in Nat : outcome \in [1..m -> Outcomes]
    <3>1. subject \in Batches
      BY Kinds DEF SubjectInv
    <3>2. MaxItems \in Nat
      BY BoundAssumption
    <3> QED BY <3>1, <3>2 DEF Batches, UpTo
  <2>2. PICK k \in Nat : IsFirstFailure(outcome, m, k)
    BY <2>1, FirstFailure
  <2>3. DOMAIN outcome = 1..m
    BY <2>1
  <2>4. /\ k = m + 1 => \A i \in DOMAIN outcome : outcome[i] = "ok"
        /\ k # m + 1 => IsFirst(k)
    BY <2>2, <2>3 DEF IsFirstFailure
  <2> DEFINE encoded == [i \in DOMAIN values |-> Encode(values[i])]
             decoded == [i \in DOMAIN stored |-> Decoded(stored[i])]
  <2>5. LoopFits(encoded, outcome, m, k)
    <3>1. encoded = [i \in 1..m |-> encoded[i]]
      BY <2>3, Zenon
    <3> HIDE DEF encoded, outcome
    <3> QED BY <2>2, <3>1, LoopEnds, Zenon
  <2>6. LoopFits(decoded, outcome, m, k)
    <3>1. decoded = [i \in 1..m |-> decoded[i]]
      BY <2>3
    <3> HIDE DEF decoded, outcome
    <3> QED BY <2>2, <3>1, LoopEnds, Zenon
  <2>7. \/ /\ \A i \in DOMAIN outcome : outcome[i] = "ok"
           /\ written.err = "nil"
           /\ written.batches = <<[i \in DOMAIN outcome |-> Encode(i)]>>
        \/ written.err # "nil" /\ written.batches = <<>> /\ \E i \in DOMAIN outcome : IsFirst(i)
    <3> DEFINE end == Loop(encoded, outcome)
    <3>1. encoded = [i \in DOMAIN outcome |-> Encode(i)]
      OBVIOUS
    <3>2. written = IF end.err # "nil" THEN [err |-> end.err, batches |-> <<>>]
                    ELSE [err |-> "nil", batches |-> <<end.made>>]
      BY Zenon DEF BatchWrite
    <3> HIDE DEF end, written, encoded
    <3>3. /\ end.err = "nil" => written.err = "nil" /\ written.batches = <<end.made>>
          /\ end.err # "nil" => written.err # "nil" /\ written.batches = <<>>
      BY <3>2
    <3>4. CASE k = m + 1
      BY <2>4, <2>5, <3>1, <3>3, <3>4, Zenon DEF end, LoopFits
    <3>5. CASE k # m + 1
      BY <2>4, <2>5, <3>3, <3>5, Zenon DEF end, LoopFits
    <3> QED BY <3>4, <3>5
  <2>8. subject.err = "nil" =>
          /\ raw.err = "nil" /\ raw.items = stored
          /\ InOrder(decoded)
    <3>1. subject.err = "nil" => raw.err = "nil" /\ raw.items = stored
      <4> HIDE DEF stored
      <4> QED OBVIOUS
    <3>2. unwrap(decoded) = stored
      BY DEF unwrap, Decoded
    <3>3. \A i \in DOMAIN decoded : decoded[i].Position = i /\ decoded[i].Value = i
      BY DEF Decoded, Encode, Decode
    <3> QED BY <3>1, <3>2, <3>3, Zenon
  <2>9. raw.err = subject.err
    OBVIOUS
  <2> DEFINE end == Loop(decoded, outcome)
  <2> HIDE DEF raw, decoded, end, InOrder, IsFirst
  <2>10. \/ read.err = "nil" /\ InOrder(read.deliveries)
         \/ read.err # "nil" /\ read.err = raw.err
         \/ read.err # "nil" /\ read.Deliveries = raw.items /\ IsFirst(read.Index)
    <3>1. CASE subject.err # "nil"
      <4>1. read = [err |-> raw.err, deliveries |-> <<>>]
        BY <2>9, <3>1, Zenon DEF Read
      <4> QED BY <2>9, <3>1, <4>1
    <3>2. CASE subject.err = "nil"
      <4>1. read = IF end.err # "nil"
                   THEN [err |-> end.err, deliveries |-> <<>>, Index |-> end.Index,
                         Deliveries |-> raw.items]
                   ELSE [err |-> "nil", deliveries |-> end.made]
        BY <2>8, <3>2, Zenon DEF Read, end, decoded
      <4> HIDE DEF read
      <4>2. /\ end.err = "nil" => read.err = "nil" /\ read.deliveries = end.made
            /\ end.err # "nil" => /\ read.err # "nil" /\ read.Deliveries = raw.items
                                  /\ read.Index = end.Index
        BY <4>1, Zenon
      <4> QED BY <2>4, <2>6, <2>8, <3>2, <4>2, Zenon DEF end, LoopFits
    <3> QED BY <3>1, <3>2
  <2>11. \/ page.err = "nil" /\ InOrder(page.deadLetters)
         \/ page.err # "nil" /\ page.err = raw.err
         \/ page.err # "nil" /\ page.DeadLetters = raw.items /\ IsFirst(page.Index)
    <3>1. CASE subject.err # "nil"
      <4>1. page = [err |-> raw.err, deadLetters |-> <<>>]
        BY <2>9, <3>1, Zenon DEF DeadLetters
      <4> QED BY <2>9, <3>1, <4>1
    <3>2. CASE subject.err = "nil"
      <4>1. page = IF end.err # "nil"
                   THEN [err |-> end.err, deadLetters |-> <<>>, Index |-> end.Index,
                         DeadLetters |-> raw.items]
                   ELSE [err |-> "nil", deadLetters |-> end.made]
        BY <2>8, <3>2, Zenon DEF DeadLetters, end, decoded
      <4> HIDE DEF page
      <4>2. /\ end.err = "nil" => page.err = "nil" /\ page.deadLetters = end.made
            /\ end.err # "nil" => /\ page.err # "nil" /\ page.DeadLetters = raw.items
                                  /\ page.Index = end.Index
        BY <4>1
      <4> QED BY <2>4, <2>6, <2>8, <3>2, <4>2, Zenon DEF end, LoopFits
    <3> QED BY <3>1, <3>2, Zenon
  <2> HIDE DEF written, read, page
  <2> QED BY <2>7, <2>10, <2>11, Zenon DEF CodecLosesNothing, written, read, page, raw, InOrder, IsFirst
<1> QED BY <1>1, SubjectsKept, PTL

=============================================================================
