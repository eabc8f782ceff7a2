---------------------------- MODULE LeastNumber ----------------------------
(***************************************************************************)
(* Induction on sets of natural numbers, and what it says of functions     *)
(* that are defined step by step, for the proofs that need either.         *)
(***************************************************************************)
EXTENDS Integers, NaturalsInduction, WellFoundedInduction, TLAPS

\* "Less than" as a set of pairs.
NatLess == {ss \in Nat \X Nat : ss[1] < ss[2]}

\* A set of natural numbers that is not empty has a least member.
LEMMA LeastMember ==
    ASSUME NEW T \in SUBSET Nat, T # {}
    PROVE  \E x \in T : \A y \in T : x <= y
<1>1. OpToRel(<, Nat) = NatLess
  BY Zenon DEF OpToRel, NatLess
<1>2. IsWellFoundedOn(OpToRel(<, Nat), Nat)
  BY NatLessThanWellFounded, Zenon
<1>3. IsWellFoundedOn(NatLess, Nat)
  BY <1>1, <1>2, Zenon
<1>4. \E x \in T : \A y \in T : ~(<<y, x>> \in NatLess)
  BY <1>3, WFMin, Zenon
<1>5. ASSUME NEW x \in T, NEW y \in T, ~(<<y, x>> \in NatLess)
      PROVE  x <= y
  <2>1. <<y, x>> \in Nat \X Nat /\ <<y, x>>[1] = y /\ <<y, x>>[2] = x
    OBVIOUS
  <2>2. ~(y < x)
    BY <1>5, <2>1, Zenon DEF NatLess
  <2>3. QED
    BY <2>2
<1>6. QED
  BY <1>4, <1>5, Zenon

\* A set of natural numbers that holds 0 and the successor of each of its
\* members below n holds everything up to n.
LEMMA InductionUpTo ==
    ASSUME NEW n \in Nat, NEW T, 0 \in T,
           \A k \in 0..(n - 1) : k \in T => k + 1 \in T
    PROVE  \A k \in 0..n : k \in T
<1> SUFFICES ASSUME (0..n) \ T # {}
             PROVE  FALSE
  OBVIOUS
<1>1. (0..n) \ T \in SUBSET Nat
  OBVIOUS
<1>2. PICK k \in (0..n) \ T : \A j \in (0..n) \ T : k <= j
  BY <1>1, LeastMember
<1>3. k # 0 /\ k - 1 \in 0..(n - 1)
  BY <1>2
<1>4. k - 1 \in T
  BY <1>2, <1>3
<1>5. (k - 1) + 1 = k
  BY <1>2
<1>6. QED
  BY <1>2, <1>3, <1>4, <1>5

\* n steps through S: what the i-th makes of a member of S.
Steps(n, S) == [(1..n) \X S -> S]

\* f begins with base and takes the first n steps.
Takes(f, n, S, base, step) ==
    /\ f \in [0..n -> S]
    /\ f[0] = base
    /\ \A i \in 1..n : f[i] = step[<<i, f[i - 1]>>]

\* What is defined at 0 and from each number to the next is defined up to n.
LEMMA StepByStep ==
    ASSUME NEW n \in Nat, NEW S, NEW base \in S, NEW step \in Steps(n, S)
    PROVE  \E f : Takes(f, n, S, base, step)
<1> USE DEF Steps
<1> DEFINE Upto(k, f) ==
      f[0] = base /\ \A i \in 1..k : f[i] = step[<<i, f[i - 1]>>]
<1> DEFINE T == {k \in 0..n : \E f \in [0..k -> S] : Upto(k, f)}
<1>a. ASSUME NEW k \in 0..n, NEW f \in [0..k -> S], Upto(k, f)
      PROVE  k \in T
  BY <1>a, Zenon
<1>1. 0 \in T
  <2>1. [i \in 0..0 |-> base] \in [0..0 -> S]
    OBVIOUS
  <2>2. Upto(0, [i \in 0..0 |-> base])
    OBVIOUS
  <2>3. QED
    <3> HIDE DEF Upto, T
    <3>1. 0 \in 0..n
      OBVIOUS
    <3>2. QED
      BY <1>a, <2>1, <2>2, <3>1, Zenon
<1>2. ASSUME NEW k \in 0..(n - 1), k \in T
      PROVE  k + 1 \in T
  <2>1. PICK f \in [0..k -> S] : Upto(k, f)
    BY <1>2
  <2> DEFINE g == [i \in 0..(k + 1) |->
                     IF i = k + 1 THEN step[<<k + 1, f[k]>>] ELSE f[i]]
  <2>2. f[k] \in S /\ k + 1 \in 1..n
    OBVIOUS
  <2>3. step[<<k + 1, f[k]>>] \in S
    BY <2>2
  <2>4. g \in [0..(k + 1) -> S]
    BY <2>3
  <2>5. g[0] = base
    BY <2>1
  <2>6. ASSUME NEW i \in 1..(k + 1)
        PROVE  g[i] = step[<<i, g[i - 1]>>]
    <3>1. i - 1 \in 0..k /\ i - 1 # k + 1
      OBVIOUS
    <3>2. g[i - 1] = f[i - 1]
      BY <3>1
    <3>3. CASE i = k + 1
      <4>1. i - 1 = k /\ i \in 0..(k + 1)
        BY <3>3
      <4>2. g[i] = step[<<k + 1, f[k]>>]
        BY <3>3, <4>1
      <4>3. g[i - 1] = f[k]
        BY <3>2, <4>1
      <4>4. QED
        BY <3>3, <4>2, <4>3, Zenon
    <3>4. CASE i # k + 1
      <4>1. i \in 1..k /\ g[i] = f[i]
        BY <3>4
      <4>2. QED
        BY <2>1, <3>2, <4>1
    <3>5. QED
      BY <3>3, <3>4
  <2>7. Upto(k + 1, g)
    <3> HIDE DEF g
    <3>1. QED
      BY <2>5, <2>6, Zenon
  <2>8. QED
    <3> HIDE DEF Upto, T, g
    <3>1. k + 1 \in 0..n
      OBVIOUS
    <3>2. QED
      BY <1>a, <2>4, <2>7, <3>1, Zenon
<1>3. n \in T
  <2> HIDE DEF T
  <2>1. \A k \in 0..(n - 1) : k \in T => k + 1 \in T
    BY <1>2, Zenon
  <2>2. \A k \in 0..n : k \in T
    BY <1>1, <2>1, InductionUpTo, Zenon
  <2>3. n \in 0..n
    OBVIOUS
  <2>4. QED
    BY <2>2, <2>3, Zenon
<1>4. QED
  BY <1>3, Zenon DEF Takes
=============================================================================
