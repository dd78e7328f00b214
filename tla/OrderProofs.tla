----------------------------- MODULE OrderProofs -----------------------------
(***************************************************************************)
(* Numbers: a set of them has a smallest, a set that is closed under "and  *)
(* the next" has them all, and what InOrder makes of a set is known from   *)
(* any sequence that is found to be one of its members in their order.     *)
(***************************************************************************)
EXTENDS Order, FiniteSetTheorems, WellFoundedInduction, TLAPS

LEMMA SmallestMember ==
  ASSUME NEW T \in SUBSET Nat, T # {}
  PROVE  \E n \in T : \A m \in T : n <= m
<1> DEFINE R == OpToRel(<, Nat)
<1>1. \A x, y \in Nat : x < y => <<x, y>> \in R
  BY DEF OpToRel
<1>2. IsWellFoundedOn(R, Nat)
  BY NatLessThanWellFounded
<1> HIDE DEF R
<1>3. PICK n \in T : \A m \in T : ~ (<<m, n>> \in R)
  BY <1>2, WFMin
<1>4. \A m \in T : m \in Nat /\ n \in Nat /\ ~(m < n)
  BY <1>1, <1>3
<1> QED
  BY <1>4

\* Induction, done with the set of the numbers a fact holds for: the library's
\* theorem that < is well founded on Nat gives a smallest number outside of it.
LEMMA SetInduction ==
  ASSUME NEW S, 0 \in S, \A n \in Nat : n \in S => n + 1 \in S
  PROVE  Nat \subseteq S
<1> DEFINE T == Nat \ S
<1>1. SUFFICES ASSUME T # {} PROVE FALSE
  OBVIOUS
<1>2. PICK x \in T : \A y \in T : x <= y
  BY <1>1, SmallestMember
<1>3. x \in Nat /\ x # 0 /\ x \notin S
  BY <1>2
<1>4. x - 1 \in Nat /\ x - 1 < x /\ (x - 1) + 1 = x
  BY <1>3
<1>5. x - 1 \in S
  BY <1>2, <1>3, <1>4
<1> QED
  BY <1>3, <1>4, <1>5

-----------------------------------------------------------------------------
\* The smaller members of a set are counted as the members are ordered.
LEMMA SmallerMembers ==
  ASSUME NEW S \in SUBSET Nat, IsFiniteSet(S), NEW p \in S
  PROVE  /\ Cardinality({q \in S : q < p}) \in Nat
         /\ \A r \in S : p < r => Cardinality({q \in S : q < p}) < Cardinality({q \in S : q < r})
<1> DEFINE Below(r) == {q \in S : q < r}
<1>1. \A r : IsFiniteSet(Below(r)) /\ Cardinality(Below(r)) \in Nat
  BY FS_Subset, FS_CardinalityType
<1>2. ASSUME NEW r \in S, p < r PROVE Cardinality(Below(p)) < Cardinality(Below(r))
  <2>0. p \notin Below(p) /\ p \in Below(r) /\ \A q \in S : q \in Nat
    BY <1>2
  <2>2. \A q \in Below(p) : q \in Below(r)
    BY <1>2, <2>0
  <2> HIDE DEF Below
  <2>1. Cardinality(Below(p) \cup {p}) = Cardinality(Below(p)) + 1
    BY <1>1, <2>0, FS_AddElement
  <2>3. Cardinality(Below(p) \cup {p}) <= Cardinality(Below(r))
    BY <1>1, <2>0, <2>2, FS_Subset
  <2> QED
    BY <1>1, <2>1, <2>3
<1> QED
  BY <1>1, <1>2

Increasing(s, n) == \A a, b \in 1 .. n : a < b => s[a] < s[b]

AllBelow(S, n, s, f) == {s[a] : a \in 1 .. n} = {q \in S : q < f}

\* A sequence of members of a set, each larger than those before it, with
\* nothing of the set left out up to some bound, is the beginning of InOrder.
LEMMA InOrderIs ==
  ASSUME NEW S \in SUBSET Nat, IsFiniteSet(S), NEW n \in Nat, NEW s \in [1 .. n -> S],
         Increasing(s, n),
         NEW f \in Nat, AllBelow(S, n, s, f)
  PROVE  /\ n <= Cardinality(S) /\ Cardinality(S) \in Nat
         /\ \A a \in 1 .. n : InOrder(S)[a] = s[a]
         /\ (\A q \in S : q < f) => n = Cardinality(S)
<1>0. Cardinality(S) \in Nat
  BY FS_CardinalityType
<1>1. \A a, b \in 1 .. n : s[a] = s[b] => a = b
  <2>0. \A q \in S : q \in Nat
    OBVIOUS
  <2>1. \A a \in 1 .. n : a \in Nat /\ s[a] \in Nat
    <3> SUFFICES ASSUME NEW a \in 1 .. n PROVE a \in Nat /\ s[a] \in Nat
      OBVIOUS
    <3>1. s[a] \in S
      OBVIOUS
    <3>2. s[a] \in Nat
      BY <2>0, <3>1, Zenon
    <3>3. a \in Nat
      OBVIOUS
    <3> QED
      BY <3>2, <3>3, Zenon
  <2>2. \A a, b \in 1 .. n : a < b \/ b < a \/ a = b
    OBVIOUS
  <2> QED
    BY <2>1, <2>2 DEF Increasing
<1>2. s \in Injection(1 .. n, S)
  BY <1>1 DEF Injection, IsInjective
<1>3. Cardinality(1 .. n) = n
  BY FS_Interval
<1>4. n <= Cardinality(S)
  BY <1>2, <1>3, FS_Injection
<1>5. ASSUME \A q \in S : q < f PROVE n = Cardinality(S)
  <2>1. \A q \in S : \E a \in 1 .. n : s[a] = q
    BY <1>5 DEF AllBelow
  <2>2. s \in Surjection(1 .. n, S)
    BY <2>1 DEF Surjection
  <2> QED
    BY <1>2, <1>3, <2>2, FS_Injection
<1>6. ASSUME NEW a \in 1 .. n PROVE InOrder(S)[a] = s[a]
  <2> DEFINE B == {q \in S : q < s[a]}
             t == [b \in 1 .. a - 1 |-> s[b]]
  <2>1. IsFiniteSet(B)
    BY FS_Subset
  <2>2. \A b \in 1 .. a - 1 : s[b] \in B
    BY DEF Increasing
  <2>3. ASSUME NEW q \in B PROVE \E b \in 1 .. a - 1 : s[b] = q
    <3>1. s[a] \in Nat /\ q \in Nat /\ q \in S /\ q < s[a]
      OBVIOUS
    <3>2. PICK b \in 1 .. n : s[b] = q
      <4>1. q < f
        <5>1. s[a] \in {x \in S : x < f}
          BY DEF AllBelow
        <5>2. s[a] < f /\ q < s[a]
          BY <5>1
        <5> QED
          BY <3>1, <5>2
      <4> QED
        BY <3>1, <4>1 DEF AllBelow
    <3>3. b < a
      BY <3>1, <3>2 DEF Increasing
    <3> QED
      BY <3>2, <3>3
  <2>4. t \in Injection(1 .. a - 1, B)
    BY <1>1, <2>2 DEF Injection, IsInjective
  <2>5. t \in Surjection(1 .. a - 1, B)
    BY <2>2, <2>3 DEF Surjection
  <2>6. Cardinality(1 .. a - 1) = a - 1
    BY FS_Interval
  <2>7. Cardinality(B) = a - 1
    BY <2>1, <2>4, <2>5, <2>6, FS_Injection
  <2> DEFINE Below(p) == {q \in S : q < p}
  <2>8. \A p, r \in S : p < r => Cardinality(Below(p)) < Cardinality(Below(r))
    BY SmallerMembers
  <2>11. Cardinality(Below(s[a])) = a - 1 /\ s[a] \in S /\ \A p \in S : p \in Nat
    BY <2>7
  <2> HIDE DEF Below, B, t
  <2>12. \A p \in S : Cardinality(Below(p)) = a - 1 => p = s[a]
    <3> SUFFICES ASSUME NEW p \in S, Cardinality(Below(p)) = a - 1 PROVE p = s[a]
      OBVIOUS
    <3>1. PICK x : x = s[a]
      OBVIOUS
    <3>2. x \in S /\ Cardinality(Below(x)) = a - 1 /\ x \in Nat /\ p \in Nat
      BY <2>11, <3>1
    <3>3. PICK c, d : c = Cardinality(Below(p)) /\ d = Cardinality(Below(x))
      OBVIOUS
    <3>4. c = d /\ c \in Int
      BY <3>2, <3>3
    <3>5. (p < x => c < d) /\ (x < p => d < c)
      BY <2>8, <3>2, <3>3, Zenon
    <3>6. ~(p < x) /\ ~(x < p)
      BY <3>4, <3>5
    <3> QED
      BY <3>1, <3>2, <3>6
  <2>9. (CHOOSE p \in S : Cardinality(Below(p)) = a - 1) = s[a]
    BY <2>11, <2>12
  <2>10. a \in 1 .. Cardinality(S)
    BY <1>0, <1>4
  <2> QED
    BY <2>9, <2>10 DEF InOrder, Below
<1> QED
  BY <1>0, <1>4, <1>5, <1>6

\* The sequence goes on with the next number, if that is a member.
LEMMA InOrderGrows ==
  ASSUME NEW S, \A q \in S : q \in Int, NEW n \in Nat, NEW s \in [1 .. n -> S],
         Increasing(s, n), NEW k \in Int, AllBelow(S, n, s, k)
  PROVE  /\ \A a \in 1 .. n : s[a] \in Int /\ s[a] < k
         /\ k \notin S => AllBelow(S, n, s, k + 1)
         /\ k \in S => \E t \in [1 .. n + 1 -> S] :
              /\ t[n + 1] = k /\ \A a \in 1 .. n : t[a] = s[a]
              /\ Increasing(t, n + 1) /\ AllBelow(S, n + 1, t, k + 1)
<1>1. ASSUME NEW a \in 1 .. n PROVE s[a] \in S /\ s[a] \in Int /\ s[a] < k
  <2>1. s[a] \in {q \in S : q < k}
    BY DEF AllBelow
  <2> QED
    BY <2>1
<1>2. CASE k \notin S
  <2>1. {q \in S : q < k + 1} = {q \in S : q < k}
    BY <1>2
  <2> QED
    BY <1>1, <1>2, <2>1 DEF AllBelow
<1>3. CASE k \in S
  <2>1. PICK t : t = [a \in 1 .. n + 1 |-> IF a = n + 1 THEN k ELSE s[a]]
    OBVIOUS
  <2>2. \A a \in 1 .. n + 1 : a \in 1 .. n \/ a = n + 1
    OBVIOUS
  <2>3. t[n + 1] = k /\ \A a \in 1 .. n : t[a] = s[a]
    BY <2>1
  <2>4. t \in [1 .. n + 1 -> S]
    BY <1>3, <2>1, <2>2
  <2>5. Increasing(t, n + 1)
    <3> SUFFICES ASSUME NEW a \in 1 .. n + 1, NEW b \in 1 .. n + 1, a < b PROVE t[a] < t[b]
      BY DEF Increasing
    <3>1. a \in 1 .. n
      OBVIOUS
    <3>2. CASE b \in 1 .. n
      BY <2>3, <3>1, <3>2 DEF Increasing
    <3>3. CASE b = n + 1
      BY <1>1, <2>3, <3>1, <3>3
    <3> QED
      BY <3>2, <3>3
  <2>6. {t[a] : a \in 1 .. n + 1} = {s[a] : a \in 1 .. n} \cup {k}
    <3>1. \A a \in 1 .. n + 1 : t[a] \in {s[b] : b \in 1 .. n} \cup {k}
      BY <2>2, <2>3
    <3>2. \A a \in 1 .. n : s[a] \in {t[b] : b \in 1 .. n + 1}
      BY <2>3
    <3>3. k \in {t[b] : b \in 1 .. n + 1}
      BY <2>3
    <3> QED
      BY <3>1, <3>2, <3>3
  <2>7. {q \in S : q < k + 1} = {q \in S : q < k} \cup {k}
    <3>1. \A q \in S : q < k + 1 <=> q < k \/ q = k
      OBVIOUS
    <3>2. k < k + 1
      OBVIOUS
    <3> QED
      BY <1>3, <3>1, <3>2, Zenon
  <2>8. AllBelow(S, n + 1, t, k + 1)
    BY <2>6, <2>7 DEF AllBelow
  <2> QED
    BY <1>1, <1>3, <2>3, <2>4, <2>5, <2>8
<1> QED
  BY <1>1, <1>2, <1>3

\* s, of length n, lists the members of S in their order.
Lists(s, n, S) ==
  /\ S \in SUBSET Nat /\ IsFiniteSet(S) /\ n \in Nat
  /\ s \in [1 .. n -> S] /\ Increasing(s, n)
  /\ \A q \in S : \E a \in 1 .. n : s[a] = q

LEMMA WholeInOrder ==
  ASSUME NEW S, NEW n, NEW s, Lists(s, n, S)
  PROVE  InOrder(S) = s
<1>1. /\ S \in SUBSET Nat /\ IsFiniteSet(S) /\ n \in Nat
      /\ s \in [1 .. n -> S] /\ Increasing(s, n)
      /\ \A q \in S : \E a \in 1 .. n : s[a] = q
  BY DEF Lists
<1>2. PICK f \in Nat : \A q \in S : q < f
  <2>1. CASE n = 0
    BY <1>1, <2>1
  <2>2. CASE n # 0
    <3>1. n \in 1 .. n /\ \A a \in 1 .. n : a = n \/ a < n
      BY <1>1, <2>2
    <3>2. \A a \in 1 .. n : s[a] \in Nat
      BY <1>1
    <3>3. \A a \in 1 .. n : a = n \/ s[a] < s[n]
      BY <1>1, <3>1 DEF Increasing
    <3>4. PICK last : last = s[n]
      OBVIOUS
    <3>5. last \in Nat /\ \A a \in 1 .. n : s[a] < last + 1
      BY <3>1, <3>2, <3>3, <3>4
    <3>6. last + 1 \in Nat
      BY <3>5
    <3> QED
      BY <1>1, <3>5, <3>6
  <2> QED
    BY <2>1, <2>2
<1>3. AllBelow(S, n, s, f)
  BY <1>1, <1>2 DEF AllBelow
<1>4. n = Cardinality(S) /\ \A a \in 1 .. n : InOrder(S)[a] = s[a]
  BY <1>1, <1>2, <1>3, InOrderIs
<1> QED
  BY <1>1, <1>4 DEF InOrder
=============================================================================
