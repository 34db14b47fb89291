---------------------------- MODULE NaturalsLemmas ----------------------------
(***************************************************************************)
(* What the proofs about tile and work-group numbers need of the naturals: *)
(* products, quotients and remainders, induction over a set of naturals,   *)
(* and running sums.                                                       *)
(***************************************************************************)
EXTENDS Integers, WellFoundedInduction, TLAPS

(* Products and quotients.                                                 *)

LEMMA TimesMonotone ==
    ASSUME NEW a \in Int, NEW b \in Int, NEW n \in Nat, a <= b
    PROVE  a * n <= b * n
  OBVIOUS

LEMMA TimesCancels ==
    ASSUME NEW a \in Int, NEW b \in Int, NEW n \in Nat, a * n < b * n
    PROVE  a < b
  BY TimesMonotone

LEMMA TimesTypes ==
    \A a, b \in Nat : a * b \in Nat /\ (a + 1) * b = a * b + b /\ a * b = b * a
  OBVIOUS

LEMMA Quotient ==
    ASSUME NEW a \in Nat, NEW n \in Nat \ {0}
    PROVE  /\ a \div n \in Nat /\ a % n \in 0 .. n - 1
           /\ a = (a \div n) * n + (a % n)
  OBVIOUS

\* A number has one quotient and one remainder.
LEMMA QuotientUnique ==
    ASSUME NEW n \in Nat \ {0}, NEW p \in Nat, NEW q \in Nat,
           NEW r \in 0 .. n - 1, NEW s \in 0 .. n - 1, p * n + r = q * n + s
    PROVE  p = q /\ r = s
  <1>1. p * n \in Nat /\ q * n \in Nat
    BY TimesTypes
  <1>2. ~(p < q)
    <2> SUFFICES ASSUME p < q PROVE FALSE
      OBVIOUS
    <2>1. (p + 1) * n <= q * n
      BY TimesMonotone
    <2>2. (p + 1) * n = p * n + n
      BY TimesTypes
    <2> QED BY <1>1, <2>1, <2>2
  <1>3. ~(q < p)
    <2> SUFFICES ASSUME q < p PROVE FALSE
      OBVIOUS
    <2>1. (q + 1) * n <= p * n
      BY TimesMonotone
    <2>2. (q + 1) * n = q * n + n
      BY TimesTypes
    <2> QED BY <1>1, <2>1, <2>2
  <1>4. p = q
    BY <1>2, <1>3
  <1> QED BY <1>1, <1>4

LEMMA QuotientIs ==
    ASSUME NEW n \in Nat \ {0}, NEW q \in Nat, NEW r \in 0 .. n - 1
    PROVE  q * n + r \in Nat /\ (q * n + r) \div n = q /\ (q * n + r) % n = r
  <1> DEFINE a == q * n + r
  <1>1. a \in Nat
    BY TimesTypes
  <1> HIDE DEF a
  <1>2. a \div n \in Nat /\ a % n \in 0 .. n - 1 /\ a = (a \div n) * n + (a % n)
    BY <1>1, Quotient
  <1> DEFINE p == a \div n
             s == a % n
  <1> HIDE DEF p, s
  <1>3. p \in Nat /\ s \in 0 .. n - 1 /\ p * n + s = q * n + r
    BY <1>2 DEF a, p, s
  <1>4. p = q /\ s = r
    BY <1>3, QuotientUnique
  <1> QED BY <1>1, <1>4 DEF a, p, s

LEMMA ModOfSmall ==
    ASSUME NEW a \in Nat, NEW n \in Nat \ {0}
    PROVE  a % n <= a /\ (a < n => a % n = a)
  <1> DEFINE q == a \div n
             r == a % n
  <1>1. q \in Nat /\ r \in 0 .. n - 1 /\ a = q * n + r
    BY Quotient
  <1> HIDE DEF q, r
  <1>2. q * n \in Nat
    BY <1>1, TimesTypes
  <1>3. r <= a
    BY <1>1, <1>2
  <1>4. ASSUME a < n PROVE r = a
    <2>1. 0 * n + a = q * n + r
      BY <1>1
    <2>2. a \in 0 .. n - 1
      BY <1>4
    <2> QED BY <1>1, <2>1, <2>2, QuotientUnique
  <1> QED BY <1>3, <1>4 DEF r

\* The numbers of one residue are a whole n apart.
LEMMA ModStep ==
    ASSUME NEW a \in Nat, NEW n \in Nat \ {0}
    PROVE  /\ (a + n) % n = a % n
           /\ \A b \in Nat : a <= b /\ b < a + n /\ b % n = a % n => b = a
  <1> DEFINE q == a \div n
             r == a % n
  <1>1. q \in Nat /\ r \in 0 .. n - 1 /\ a = q * n + r
    BY Quotient
  <1> HIDE DEF q, r
  <1>2. a + n = (q + 1) * n + r
    BY <1>1, TimesTypes
  <1>3. (a + n) % n = r
    BY <1>1, <1>2, QuotientIs
  <1>4. ASSUME NEW b \in Nat, a <= b, b < a + n, b % n = r PROVE b = a
    <2> DEFINE p == b \div n
    <2>1. p \in Nat /\ b = p * n + r
      BY <1>4, Quotient
    <2> HIDE DEF p
    <2>2. q * n \in Nat /\ p * n \in Nat /\ (q + 1) * n = q * n + n
      BY <1>1, <2>1, TimesTypes
    <2>3. q * n <= p * n /\ p * n < (q + 1) * n
      BY <1>1, <1>4, <2>1, <2>2
    <2>4. p < q + 1
      BY <1>1, <2>1, <2>3, TimesCancels
    <2>5. ~(p < q)
      <3> SUFFICES ASSUME p < q PROVE FALSE
        OBVIOUS
      <3>1. (p + 1) * n <= q * n /\ (p + 1) * n = p * n + n
        BY <1>1, <2>1, TimesMonotone, TimesTypes
      <3> QED BY <2>2, <2>3, <3>1
    <2>6. p = q
      BY <1>1, <2>1, <2>4, <2>5
    <2> QED BY <1>1, <2>1, <2>6
  <1> QED BY <1>3, <1>4 DEF r

-----------------------------------------------------------------------------
(* Induction, for a set instead of a predicate.                            *)

Less == OpToRel(<, Nat)

LEMMA LessIs == \A a, b \in Nat : <<a, b>> \in Less <=> a < b
  BY DEF Less, OpToRel

LEMMA LessWellFounded == IsWellFoundedOn(Less, Nat)
  BY NatLessThanWellFounded DEF Less

LEMMA NatSetInduction ==
    ASSUME NEW S, 0 \in S, \A n \in Nat : n \in S => n + 1 \in S
    PROVE  \A n \in Nat : n \in S
  <1> DEFINE U == Nat \ S
  <1> SUFFICES ASSUME U # {} PROVE FALSE
    OBVIOUS
  <1>1. PICK x \in U : \A y \in U : ~(<<y, x>> \in Less)
    <2>1. U \subseteq Nat
      OBVIOUS
    <2> HIDE DEF U
    <2> QED BY <2>1, LessWellFounded, WFMin
  <1>2. x \in Nat /\ x # 0
    OBVIOUS
  <1>3. x - 1 \in Nat /\ x - 1 < x
    BY <1>2
  <1>4. x - 1 \in S
    BY <1>1, <1>3, LessIs
  <1> QED BY <1>2, <1>3, <1>4

-----------------------------------------------------------------------------
(* Sequences of naturals that grow.                                        *)

LEMMA StepsUp ==
    ASSUME NEW n \in Nat, NEW f \in [0 .. n -> Nat], \A i \in 0 .. n - 1 : f[i] <= f[i + 1]
    PROVE  \A i, j \in 0 .. n : i <= j => f[i] <= f[j]
  <1> DEFINE S == {d \in Nat : \A i \in 0 .. n : i + d <= n => f[i] <= f[i + d]}
  <1>1. 0 \in S
    OBVIOUS
  <1>2. ASSUME NEW d \in Nat, d \in S PROVE d + 1 \in S
    <2> SUFFICES ASSUME NEW i \in 0 .. n, i + (d + 1) <= n PROVE f[i] <= f[i + (d + 1)]
      OBVIOUS
    <2>1. f[i] <= f[i + d]
      BY <1>2
    <2>2. f[i + d] <= f[(i + d) + 1] /\ (i + d) + 1 = i + (d + 1)
      OBVIOUS
    <2>3. f[i] \in Nat /\ f[i + d] \in Nat /\ f[i + (d + 1)] \in Nat
      OBVIOUS
    <2> QED BY <2>1, <2>2, <2>3
  <1> HIDE DEF S
  <1>3. \A d \in Nat : d \in S
    BY <1>1, <1>2, NatSetInduction
  <1>4. ASSUME NEW i \in 0 .. n, NEW j \in 0 .. n, i <= j PROVE f[i] <= f[j]
    <2>1. j - i \in Nat /\ i + (j - i) = j
      BY <1>4
    <2>2. j - i \in S
      BY <1>3, <2>1
    <2> QED BY <2>1, <2>2 DEF S
  <1> QED BY <1>4

LEMMA Between ==
    ASSUME NEW n \in Nat, NEW f \in [0 .. n -> Nat], NEW x \in Nat, f[0] <= x, x < f[n]
    PROVE  \E i \in 0 .. n - 1 : f[i] <= x /\ x < f[i + 1]
  <1> SUFFICES ASSUME \A i \in 0 .. n - 1 : f[i] <= x => ~(x < f[i + 1])
               PROVE  FALSE
    OBVIOUS
  <1> DEFINE S == {i \in Nat : i <= n => f[i] <= x}
  <1>1. 0 \in S
    OBVIOUS
  <1>2. ASSUME NEW i \in Nat, i \in S PROVE i + 1 \in S
    <2> SUFFICES ASSUME i + 1 <= n PROVE f[i + 1] <= x
      OBVIOUS
    <2>1. f[i] <= x /\ i \in 0 .. n - 1
      BY <1>2
    <2>2. f[i + 1] \in Nat
      OBVIOUS
    <2> QED BY <2>1, <2>2
  <1> HIDE DEF S
  <1>3. n \in S
    BY <1>1, <1>2, NatSetInduction
  <1> QED BY <1>3 DEF S

-----------------------------------------------------------------------------
(* Running sums: f[g] is the sum of t below g.                             *)

IsSum(f, n, t) ==
    /\ f \in [0 .. n -> Nat]
    /\ f[0] = 0
    /\ \A g \in 0 .. n - 1 : f[g + 1] = f[g] + t[g]

HasSum(n, t) == \E f : IsSum(f, n, t)

LEMMA SumsExist ==
    ASSUME NEW t \in [Nat -> Nat]
    PROVE  \A n \in Nat : HasSum(n, t)
  <1> DEFINE S == {n \in Nat : HasSum(n, t)}
  <1>1. 0 \in S
    <2>1. IsSum([g \in 0 .. 0 |-> 0], 0, t)
      BY DEF IsSum
    <2> QED BY <2>1 DEF HasSum
  <1>2. ASSUME NEW n \in Nat, n \in S PROVE n + 1 \in S
    <2>1. PICK f : IsSum(f, n, t)
      BY <1>2 DEF HasSum
    <2> DEFINE h == [g \in 0 .. n + 1 |-> IF g = n + 1 THEN f[n] + t[n] ELSE f[g]]
    <2>2. \A g \in 0 .. n + 1 : h[g] \in Nat
      <3>1. f[n] \in Nat /\ t[n] \in Nat
        BY <2>1 DEF IsSum
      <3>2. ASSUME NEW g \in 0 .. n + 1 PROVE h[g] \in Nat
        <4>1. CASE g = n + 1
          BY <3>1, <4>1
        <4>2. CASE g \in 0 .. n
          <5>1. h[g] = f[g]
            BY <4>2
          <5> HIDE DEF h
          <5> QED BY <2>1, <4>2, <5>1 DEF IsSum
        <4> QED BY <4>1, <4>2
      <3> QED BY <3>2
    <2>3. h \in [0 .. n + 1 -> Nat]
      BY <2>2
    <2>4. h[0] = 0
      BY <2>1 DEF IsSum
    <2>5. ASSUME NEW g \in 0 .. n PROVE h[g + 1] = h[g] + t[g]
      <3>1. CASE g = n
        BY <3>1
      <3>2. CASE g \in 0 .. n - 1
        BY <2>1, <3>2 DEF IsSum
      <3> QED BY <3>1, <3>2
    <2> HIDE DEF h
    <2>6. IsSum(h, n + 1, t)
      BY <2>3, <2>4, <2>5, SMTT(30) DEF IsSum
    <2>7. HasSum(n + 1, t)
      BY <2>6 DEF HasSum
    <2> QED BY <2>7
  <1> HIDE DEF S
  <1>3. \A n \in Nat : n \in S
    BY <1>1, <1>2, NatSetInduction
  <1> QED BY <1>3 DEF S

LEMMA SumsMonotone ==
    ASSUME NEW t \in [Nat -> Nat], NEW n \in Nat, NEW f, IsSum(f, n, t)
    PROVE  \A g, h \in 0 .. n : g <= h => f[g] <= f[h]
  <1>1. f \in [0 .. n -> Nat]
    BY DEF IsSum
  <1>2. ASSUME NEW g \in 0 .. n - 1 PROVE f[g] <= f[g + 1]
    <2>1. f[g] \in Nat /\ t[g] \in Nat
      <3>1. g \in 0 .. n /\ g \in Nat
        OBVIOUS
      <3> QED BY <1>1, <3>1
    <2> QED BY <2>1 DEF IsSum
  <1> QED BY <1>1, <1>2, StepsUp
=============================================================================
