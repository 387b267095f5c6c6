------------------------------- MODULE Induction -------------------------------
(***************************************************************************)
(* Induction and recursion over the naturals in a first-order form: a set  *)
(* of naturals that is not empty has a least element, and a step function  *)
(* has an iteration.  The proofs about delays that double and about        *)
(* collections of any length rest on these two.                            *)
(***************************************************************************)
EXTENDS Sequences, WellFoundedInduction, TLAPS

\* Every set of naturals that is not empty has a least element.
LEMMA LeastNatural ==
  ASSUME NEW T \in SUBSET Nat, T # {}
  PROVE  \E least \in T : \A k \in T : least <= k
<1> DEFINE Less == {p \in Nat \X Nat : p[1] < p[2]}
<1>1. IsWellFoundedOn(Less, Nat)
  BY NatLessThanWellFounded DEF OpToRel
<1>2. PICK least \in T : \A k \in T : ~(<<k, least>> \in Less)
  <2> HIDE DEF Less
  <2> QED
    BY <1>1, WFMin
<1>3. ASSUME NEW k \in T, ~(least <= k) PROVE FALSE
  <2>1. k \in Nat /\ least \in Nat /\ k < least
    BY <1>3
  <2> DEFINE p == <<k, least>>
  <2>2. p \in Nat \X Nat /\ p[1] = k /\ p[2] = least
    BY <2>1
  <2> HIDE DEF p
  <2>3. p \in Less
    BY <2>1, <2>2
  <2> QED
    BY <1>2, <2>3 DEF p
<1> QED
  BY <1>3

\* What holds at 0 and goes on from every number to the next holds everywhere
\* below a bound: G is the set of the numbers it holds for.
LEMMA UpTo ==
  ASSUME NEW bound \in Nat, NEW G, 0 \in G,
         \A n \in 0..bound - 1 : n \in G => n + 1 \in G
  PROVE  0..bound \subseteq G
<1> DEFINE Missing == (0..bound) \ G
<1> SUFFICES ASSUME Missing # {} PROVE FALSE
  OBVIOUS
<1>1. Missing \in SUBSET Nat
  OBVIOUS
<1>2. PICK n \in Missing : \A k \in Missing : n <= k
  <2> HIDE DEF Missing
  <2> QED
    BY <1>1, LeastNatural
<1>3. n # 0 /\ n - 1 \in 0..bound - 1
  BY <1>2
<1>4. n - 1 \in G
  BY <1>2, <1>3
<1> QED
  BY <1>2, <1>3, <1>4

\* What leads from each number to the next, and what it leads to.
Steps(S) == [Nat -> [S -> S]]
Iterates(g, S, start, step) ==
  /\ g \in [Nat -> S] /\ g[0] = start
  /\ \A n \in Nat : g[n + 1] = step[n + 1][g[n]]

\* A step function has an iteration from every start.
LEMMA Iteration ==
  ASSUME NEW S, NEW start \in S, NEW step \in Steps(S)
  PROVE  \E g : Iterates(g, S, start, step)
<1> USE DEF Steps
<1> DEFINE Begins(h, n) == /\ h \in [0..n -> S] /\ h[0] = start
                           /\ \A k \in 0..n - 1 : h[k + 1] = step[k + 1][h[k]]
<1>1. ASSUME NEW bound \in Nat PROVE \E h : Begins(h, bound)
  <2> DEFINE G == {n \in Nat : \E h : Begins(h, n)}
  <2>1. 0 \in G
    <3>1. Begins([k \in 0..0 |-> start], 0)
      OBVIOUS
    <3> QED
      BY <3>1
  <2>2. ASSUME NEW n \in Nat, n \in G PROVE n + 1 \in G
    <3>1. PICK h : Begins(h, n)
      BY <2>2
    <3> DEFINE next == [k \in 0..n + 1 |-> IF k = n + 1 THEN step[n + 1][h[n]] ELSE h[k]]
    <3>2. Begins(next, n + 1)
      <4>1. h[n] \in S /\ step[n + 1][h[n]] \in S
        BY <3>1
      <4>2. next \in [0..n + 1 -> S] /\ next[0] = start
        BY <3>1, <4>1
      <4>3. ASSUME NEW k \in 0..n PROVE next[k + 1] = step[k + 1][next[k]]
        <5>1. CASE k = n
          BY <5>1
        <5>2. CASE k # n
          BY <3>1, <5>2
        <5> QED
          BY <5>1, <5>2
      <4>4. 0..(n + 1) - 1 = 0..n
        OBVIOUS
      <4> HIDE DEF next
      <4> QED
        BY <4>2, <4>3, <4>4
    <3> HIDE DEF next
    <3> QED
      BY <3>2
  <2> HIDE DEF G
  <2>3. 0..bound \subseteq G
    BY <2>1, <2>2, UpTo
  <2> QED
    BY <2>3 DEF G
<1>2. ASSUME NEW n \in Nat, NEW m \in Nat, NEW h, NEW k, Begins(h, n), Begins(k, m), n <= m
      PROVE  h[n] = k[n]
  <2> DEFINE G == {j \in Nat : h[j] = k[j]}
  <2>1. 0 \in G
    BY <1>2
  <2>2. ASSUME NEW j \in 0..n - 1, j \in G PROVE j + 1 \in G
    <3>1. h[j + 1] = step[j + 1][h[j]] /\ k[j + 1] = step[j + 1][k[j]]
      <4>1. j \in 0..m - 1
        BY <1>2
      <4> QED
        BY <1>2, <4>1
    <3> QED
      BY <2>2, <3>1
  <2> HIDE DEF G
  <2>3. 0..n \subseteq G
    BY <2>1, <2>2, UpTo
  <2> QED
    BY <2>3 DEF G
<1> DEFINE at(n) == CHOOSE h : Begins(h, n)
           g == [n \in Nat |-> at(n)[n]]
<1>3. ASSUME NEW n \in Nat PROVE Begins(at(n), n)
  <2> HIDE DEF Begins
  <2> QED
    BY <1>1
<1>4. g \in [Nat -> S] /\ g[0] = start
  <2> HIDE DEF at
  <2> QED
    BY <1>3
<1>5. ASSUME NEW n \in Nat PROVE g[n + 1] = step[n + 1][g[n]]
  <2>1. Begins(at(n), n) /\ Begins(at(n + 1), n + 1)
    <3> HIDE DEF at, Begins
    <3> QED
      BY <1>3
  <2> HIDE DEF at
  <2>2. at(n)[n] = at(n + 1)[n]
    <3> HIDE DEF Begins
    <3> QED
      BY <1>2, <2>1
  <2>3. at(n + 1)[n + 1] = step[n + 1][at(n + 1)[n]]
    BY <2>1
  <2> QED
    BY <2>2, <2>3
<1> QED
  <2> HIDE DEF g
  <2> QED
    BY <1>4, <1>5 DEF Iterates

\* What a sequence is after an element was appended.
LEMMA Appended ==
  ASSUME NEW S, NEW s \in Seq(S), NEW e \in S
  PROVE  /\ Append(s, e) \in Seq(S) /\ Len(s) \in Nat /\ Len(Append(s, e)) = Len(s) + 1
         /\ \A i \in 1..Len(s) : Append(s, e)[i] = s[i]
         /\ Append(s, e)[Len(s) + 1] = e
         /\ s # <<>> <=> Len(s) # 0
OBVIOUS
===============================================================================
