--------------------------- MODULE NaturalLemmas ---------------------------
(***************************************************************************)
(* Facts about natural numbers, and about what is defined by recursion     *)
(* along them, that the proofs of several components use.                  *)
(***************************************************************************)
EXTENDS Integers, Sequences, NaturalsInduction, WellFoundedInduction, TLAPS

\* A set of natural numbers that is not empty has a least element.
LEMMA LeastNat ==
  ASSUME NEW T \in SUBSET Nat, T # {}
  PROVE  \E x \in T : \A y \in T : x <= y
<1>1. IsWellFoundedOn(OpToRel(<, Nat), Nat)
  BY NatLessThanWellFounded
<1>2. PICK x \in T : \A y \in T : ~ (<<y, x>> \in OpToRel(<, Nat))
  BY <1>1, WFMin
<1>3. \A y \in T : ~ (y < x)
  BY <1>2 DEF OpToRel
<1> QED
  BY <1>3

\* ... and, when it is bounded, a greatest one.
LEMMA GreatestNat ==
  ASSUME NEW T \in SUBSET Nat, T # {}, NEW b \in Nat, \A x \in T : x <= b
  PROVE  \E x \in T : \A y \in T : y <= x
<1> DEFINE D == {b - x : x \in T}
<1>1. D \in SUBSET Nat /\ D # {}
  <2>1. \A x \in T : b - x \in Nat
    OBVIOUS
  <2>2. PICK x \in T : TRUE
    OBVIOUS
  <2> QED
    BY <2>1, <2>2
<1>2. PICK d \in D : \A c \in D : d <= c
  BY <1>1, LeastNat
<1>3. PICK x \in T : d = b - x
  BY <1>2
<1>4. \A y \in T : y <= x
  <2> SUFFICES ASSUME NEW y \in T
               PROVE  y <= x
    OBVIOUS
  <2>1. d <= b - y
    BY <1>2
  <2> QED
    BY <2>1, <1>3
<1> QED
  BY <1>4

\* Induction, for a set of natural numbers.
LEMMA NatInduct ==
  ASSUME NEW T \in SUBSET Nat, 0 \in T, \A n \in T : n + 1 \in T
  PROVE  T = Nat
<1> SUFFICES ASSUME Nat \ T # {}
             PROVE  FALSE
  OBVIOUS
<1>1. PICK x \in Nat \ T : \A y \in Nat \ T : x <= y
  BY LeastNat
<1>2. x - 1 \in Nat /\ x - 1 \notin Nat \ T
  BY <1>1
<1> QED
  BY <1>1, <1>2

-----------------------------------------------------------------------------
(* Running concatenations of a sequence of sequences *)

JoinOf(f, s, n) ==
  f = [i \in 1 .. n |-> IF i = 1 THEN s[i] ELSE f[i - 1] \o s[i]]

\* There is one.
LEMMA JoinExists ==
  ASSUME NEW s, NEW m \in Nat
  PROVE  \E f : JoinOf(f, s, m)
<1> DEFINE T == {n \in Nat : \E f : JoinOf(f, s, n)}
<1>1. 0 \in T
  <2>1. JoinOf([i \in 1 .. 0 |-> s[i]], s, 0)
    BY DEF JoinOf
  <2> QED
    BY <2>1
<1>2. ASSUME NEW n \in T
      PROVE  n + 1 \in T
  <2>1. PICK f : JoinOf(f, s, n)
    BY <1>2
  <2> DEFINE g == [i \in 1 .. (n + 1) |->
                     IF i <= n THEN f[i] ELSE IF i = 1 THEN s[i] ELSE f[i - 1] \o s[i]]
  <2>2. ASSUME NEW i \in 1 .. (n + 1)
        PROVE  g[i] = IF i = 1 THEN s[i] ELSE g[i - 1] \o s[i]
    <3>1. i # 1 => i - 1 \in 1 .. (n + 1) /\ i - 1 <= n
      OBVIOUS
    <3>2. CASE i <= n
      <4>1. f[i] = IF i = 1 THEN s[i] ELSE f[i - 1] \o s[i]
        <5>1. i \in 1 .. n
          BY <3>2
        <5> QED
          BY <2>1, <5>1 DEF JoinOf
      <4> QED
        BY <3>1, <3>2, <4>1
    <3>3. CASE ~(i <= n)
      BY <3>1, <3>3
    <3> QED
      BY <3>2, <3>3
  <2>3. g = [i \in 1 .. (n + 1) |-> IF i = 1 THEN s[i] ELSE g[i - 1] \o s[i]]
    <3> DEFINE h == [i \in 1 .. (n + 1) |-> IF i = 1 THEN s[i] ELSE g[i - 1] \o s[i]]
    <3>1. DOMAIN g = 1 .. (n + 1) /\ g = [i \in 1 .. (n + 1) |-> g[i]]
      OBVIOUS
    <3> HIDE DEF g
    <3>2. \A i \in 1 .. (n + 1) : g[i] = h[i]
      BY <2>2
    <3> QED
      BY <3>1, <3>2
  <2>4. JoinOf(g, s, n + 1)
    <3> HIDE DEF g
    <3> QED
      BY <2>3 DEF JoinOf
  <2> QED
    BY <2>4
<1>3. T = Nat
  <2> HIDE DEF T
  <2>1. T \in SUBSET Nat
    BY DEF T
  <2> QED
    BY <1>1, <1>2, <2>1, NatInduct
<1> QED
  BY <1>3

Agree(s, t, n) == \A i \in 1 .. n : s[i] = t[i]

\* What it comes to at a place depends on the sequences up to there only.
LEMMA JoinUnique ==
  ASSUME NEW s, NEW t, NEW n \in Nat, NEW m \in Nat, n <= m,
         NEW f, JoinOf(f, s, n), NEW g, JoinOf(g, t, m), Agree(s, t, n)
  PROVE  \A i \in 1 .. n : f[i] = g[i]
<1> DEFINE T == {i \in Nat : i \in 1 .. n => f[i] = g[i]}
<1>1. 0 \in T
  OBVIOUS
<1>2. ASSUME NEW k \in T
      PROVE  k + 1 \in T
  <2> SUFFICES ASSUME k + 1 \in 1 .. n
               PROVE  f[k + 1] = g[k + 1]
    OBVIOUS
  <2> DEFINE i == k + 1
  <2>1. i \in 1 .. n /\ i \in 1 .. m /\ i - 1 = k /\ (i # 1 => k \in 1 .. n)
    OBVIOUS
  <2>2. i # 1 => f[k] = g[k]
    BY <1>2, <2>1
  <2> HIDE DEF i
  <2>3. f[i] = IF i = 1 THEN s[i] ELSE f[i - 1] \o s[i]
    BY <2>1 DEF JoinOf
  <2>4. g[i] = IF i = 1 THEN t[i] ELSE g[i - 1] \o t[i]
    BY <2>1 DEF JoinOf
  <2>5. f[i] = g[i]
    BY <2>1, <2>2, <2>3, <2>4 DEF Agree
  <2> QED
    BY <2>5 DEF i
<1>3. T = Nat
  <2> HIDE DEF T
  <2>1. T \in SUBSET Nat
    BY DEF T
  <2> QED
    BY <1>1, <1>2, <2>1, NatInduct
<1> QED
  BY <1>3

LEMMA Concatenated ==
  ASSUME NEW S, NEW u \in Seq(S), NEW v \in Seq(S)
  PROVE  /\ u \o v \in Seq(S) /\ Len(u \o v) = Len(u) + Len(v)
         /\ Len(u) \in Nat /\ Len(v) \in Nat
         /\ \A j \in 1 .. Len(u) : (u \o v)[j] = u[j]
         /\ \A j \in 1 .. Len(v) : (u \o v)[Len(u) + j] = v[j]
OBVIOUS

\* Sequence u begins with a.
Begins(a, u) == Len(a) <= Len(u) /\ \A k \in 1 .. Len(a) : u[k] = a[k]

LEMMA BeginsOn ==
  ASSUME NEW S, NEW a \in Seq(S), NEW u \in Seq(S), NEW v \in Seq(S), Begins(a, u)
  PROVE  Begins(a, u \o v)
BY Concatenated DEF Begins

\* It is a sequence of elements, and the first of the sequences stands at its head.
LEMMA JoinTyped ==
  ASSUME NEW S, NEW s \in Seq(Seq(S)), NEW f, JoinOf(f, s, Len(s))
  PROVE  \A i \in 1 .. Len(s) : f[i] \in Seq(S) /\ Begins(s[1], f[i])
<1> DEFINE T == {i \in Nat : i \in 1 .. Len(s) => f[i] \in Seq(S) /\ Begins(s[1], f[i])}
<1>1. 0 \in T
  OBVIOUS
<1>2. ASSUME NEW k \in Nat, k \in T
      PROVE  k + 1 \in T
  <2> DEFINE i == k + 1
  <2> SUFFICES ASSUME i \in 1 .. Len(s)
               PROVE  f[i] \in Seq(S) /\ Begins(s[1], f[i])
    OBVIOUS
  <2>1. i - 1 = k /\ (i # 1 => k \in 1 .. Len(s)) /\ 1 \in 1 .. Len(s)
    OBVIOUS
  <2>2. i # 1 => f[k] \in Seq(S) /\ Begins(s[1], f[k])
    BY <1>2, <2>1
  <2> HIDE DEF i, T
  <2>3. s[i] \in Seq(S) /\ s[1] \in Seq(S) /\ Len(s[1]) \in Nat
    BY <2>1
  <2>4. f[i] = IF i = 1 THEN s[i] ELSE f[i - 1] \o s[i]
    BY DEF JoinOf
  <2>5. CASE i = 1
    BY <2>3, <2>4, <2>5 DEF Begins
  <2>6. CASE i # 1
    <3>1. f[i] = f[k] \o s[i] /\ f[k] \in Seq(S) /\ Begins(s[1], f[k])
      BY <2>1, <2>2, <2>4, <2>6
    <3> QED
      BY <2>3, <3>1, BeginsOn, Concatenated
  <2> QED
    BY <2>5, <2>6
<1>3. T = Nat
  <2> HIDE DEF T
  <2>1. T \in SUBSET Nat
    BY DEF T
  <2> QED
    BY <1>1, <1>2, <2>1, NatInduct
<1> QED
  BY <1>3

-----------------------------------------------------------------------------
(* Functions defined by recursion on a stretch of natural numbers *)

\* f begins with b and goes on by step, up to m.
Follows(f, V, b, step, m) ==
  /\ f \in [0 .. m -> V] /\ f[0] = b
  /\ \A n \in 1 .. m : f[n] = step[<<n, f[n - 1]>>]

LEMMA Recursion ==
  ASSUME NEW V, NEW b \in V, NEW m \in Nat, NEW step \in [Nat \X V -> V]
  PROVE  \E f : Follows(f, V, b, step, m)
<1> DEFINE Rec(f, k) == /\ f \in [0 .. k -> V] /\ f[0] = b
                        /\ \A n \in 1 .. k : f[n] = step[<<n, f[n - 1]>>]
           T == {k \in Nat : \E f : Rec(f, k)}
<1>1. 0 \in T
  <2>1. Rec([n \in 0 .. 0 |-> b], 0)
    OBVIOUS
  <2> HIDE DEF Rec
  <2> QED
    BY <2>1
<1>2. ASSUME NEW k \in Nat, k \in T
      PROVE  k + 1 \in T
  <2>1. PICK f : Rec(f, k)
    BY <1>2
  <2> DEFINE w == step[<<k + 1, f[k]>>]
             g == [n \in 0 .. (k + 1) |-> IF n <= k THEN f[n] ELSE w]
  <2>2. f[k] \in V /\ w \in V /\ f \in [0 .. k -> V] /\ f[0] = b
    BY <2>1
  <2>3. g \in [0 .. (k + 1) -> V] /\ g[0] = b
    <3> HIDE DEF w
    <3> QED
      BY <2>2
  <2>4. ASSUME NEW n \in 1 .. (k + 1)
        PROVE  g[n] = step[<<n, g[n - 1]>>]
    <3>1. n - 1 \in 0 .. (k + 1) /\ n - 1 <= k /\ n \in 0 .. (k + 1)
      OBVIOUS
    <3>2. g[n - 1] = f[n - 1]
      BY <3>1
    <3>3. CASE n <= k
      <4>1. n \in 1 .. k
        BY <3>3
      <4>2. f[n] = step[<<n, f[n - 1]>>]
        BY <2>1, <4>1
      <4> QED
        BY <3>1, <3>2, <3>3, <4>2
    <3>4. CASE ~(n <= k)
      <4>1. n = k + 1 /\ n - 1 = k
        BY <3>4
      <4>2. g[n] = w
        <5> HIDE DEF w
        <5> QED
          BY <3>1, <3>4
      <4> QED
        BY <3>2, <4>1, <4>2
    <3> QED
      BY <3>3, <3>4
  <2>5. Rec(g, k + 1)
    <3> HIDE DEF g
    <3> QED
      BY <2>3, <2>4
  <2> HIDE DEF Rec, g
  <2> QED
    BY <2>5
<1>3. T = Nat
  <2> HIDE DEF T
  <2>1. T \in SUBSET Nat
    BY DEF T
  <2> QED
    BY <1>1, <1>2, <2>1, NatInduct
<1>4. \E f : Rec(f, m)
  BY <1>3
<1> QED
  BY <1>4 DEF Follows

-----------------------------------------------------------------------------
(* Quotients *)

LEMMA Quotient ==
  ASSUME NEW x \in Nat, NEW a \in Nat \ {0}
  PROVE  /\ x \div a \in Nat /\ x % a \in 0 .. (a - 1)
         /\ x = ((x \div a) * a) + (x % a)
OBVIOUS

\* Only one number is the quotient.
LEMMA QuotientIs ==
  ASSUME NEW x \in Nat, NEW a \in Nat \ {0}, NEW q \in Nat, q * a <= x, x < q * a + a
  PROVE  x \div a = q
OBVIOUS

LEMMA Scaled ==
  ASSUME NEW x \in Nat, NEW y \in Nat, NEW a \in Nat \ {0}, x < y
  PROVE  x * a + a <= y * a
OBVIOUS

\* Dividing twice.
LEMMA QuotientTwice ==
  \A x \in Nat : \A a, b \in Nat \ {0} : (x \div a) \div b = x \div (a * b)
<1> SUFFICES ASSUME NEW x \in Nat, NEW a \in Nat \ {0}, NEW b \in Nat \ {0}
             PROVE  (x \div a) \div b = x \div (a * b)
  OBVIOUS
<1> DEFINE q == x \div a
           r == q \div b
<1>1. q \in Nat /\ q * a <= x /\ x < q * a + a
  BY Quotient
<1> HIDE DEF q
<1>2. r \in Nat /\ r * b <= q /\ q + 1 <= r * b + b /\ r * b \in Nat
  <2> DEFINE m == q % b
  <2>1. r \in Nat /\ m \in 0 .. (b - 1) /\ q = r * b + m
    BY <1>1, Quotient
  <2> HIDE DEF m, r
  <2> QED
    BY <1>1, <2>1
<1> HIDE DEF r
<1>3. a * b \in Nat \ {0} /\ (r * b) * a \in Nat /\ q * a \in Nat
  BY <1>1, <1>2
<1>4. (r * b) * a = r * (a * b)
  BY <1>2
<1>5. r * (a * b) <= x
  <2>1. (r * b) * a <= q * a
    BY <1>1, <1>2
  <2> QED
    BY <1>1, <1>3, <1>4, <2>1
<1>6. x < r * (a * b) + a * b
  <2>1. q * a + a <= (r * b + b) * a
    <3>1. (q + 1) * a = q * a + a
      BY <1>1
    <3>2. (q + 1) * a <= (r * b + b) * a
      BY <1>1, <1>2
    <3> QED
      BY <3>1, <3>2
  <2>2. (r * b + b) * a = r * (a * b) + a * b
    BY <1>2
  <2>3. x < (r * b + b) * a
    <3>1. (r * b + b) * a \in Nat
      BY <1>2
    <3> QED
      BY <1>1, <1>3, <2>1, <3>1
  <2> QED
    BY <2>2, <2>3
<1>7. x \div (a * b) = r
  <2> DEFINE c == a * b
  <2>1. c \in Nat \ {0} /\ r * c <= x /\ x < r * c + c
    BY <1>3, <1>5, <1>6
  <2> HIDE DEF c
  <2>2. x \div c = r
    BY <1>2, <2>1, QuotientIs
  <2> QED
    BY <2>2 DEF c
<1> QED
  BY <1>7 DEF q, r

-----------------------------------------------------------------------------
(* Two functions with the same beginning and the same steps agree. *)

LEMMA AgreeAlong ==
  ASSUME NEW n \in Nat, NEW f, NEW g, f[0] = g[0],
         \A i \in 1 .. n : f[i - 1] = g[i - 1] => f[i] = g[i]
  PROVE  \A i \in 0 .. n : f[i] = g[i]
<1> DEFINE T == {i \in Nat : i \in 0 .. n => f[i] = g[i]}
<1>1. 0 \in T
  OBVIOUS
<1>2. ASSUME NEW k \in T
      PROVE  k + 1 \in T
  <2> SUFFICES ASSUME k + 1 \in 0 .. n
               PROVE  f[k + 1] = g[k + 1]
    OBVIOUS
  <2> DEFINE i == k + 1
  <2>1. i \in 1 .. n /\ i - 1 = k /\ k \in 0 .. n
    OBVIOUS
  <2>2. f[k] = g[k]
    BY <1>2, <2>1
  <2> HIDE DEF i
  <2>3. f[i] = g[i]
    BY <2>1, <2>2
  <2> QED
    BY <2>3 DEF i
<1>3. T = Nat
  <2> HIDE DEF T
  <2>1. T \in SUBSET Nat
    BY DEF T
  <2> QED
    BY <1>1, <1>2, <2>1, NatInduct
<1> QED
  BY <1>3
=============================================================================
