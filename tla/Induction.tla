------------------------------ MODULE Induction ------------------------------
(***************************************************************************)
(* Induction over the natural numbers in a form without operator           *)
(* parameters, and what it says about functions defined by recursion: the  *)
(* facts that the proofs about the log of MCPServer and the paths of Paths *)
(* rest on.                                                                *)
(***************************************************************************)
EXTENDS Integers, FiniteSetTheorems, TLAPS

\* Every set of natural numbers has a least one: the intervals that end in
\* its elements are finite sets, and these are well founded.
LEMMA LeastNumber ==
  ASSUME NEW T, T \subseteq Nat, T # {}
  PROVE  \E x \in T : \A y \in T : x <= y
<1> DEFINE U == {0 .. n : n \in T}
           R == StrictSubsetOrdering(Nat)
<1>1. U \subseteq FiniteSubsetsOf(Nat) /\ U # {}
  <2>1. \A n \in T : IsFiniteSet(0 .. n)
    BY FS_Interval
  <2>2. \A n \in T : 0 .. n \in SUBSET Nat
    OBVIOUS
  <2>3. QED
    BY <2>1, <2>2 DEF FiniteSubsetsOf
<1>2. IsWellFoundedOn(R, FiniteSubsetsOf(Nat))
  BY FS_StrictSubsetOrderingWellFounded
<1>3. \E u \in U : \A w \in U : ~ (<<w, u>> \in R)
  BY <1>1, <1>2, WFMin
<1>4. PICK x \in T : \A y \in T : ~ (<<0 .. y, 0 .. x>> \in R)
  BY <1>3
<1>5. ASSUME NEW y \in T, y < x PROVE FALSE
  <2>1. 0 .. y \subseteq 0 .. x /\ x \in 0 .. x /\ x \notin 0 .. y
    BY <1>5
  <2>2. <<0 .. y, 0 .. x>> \in R
    BY <2>1 DEF StrictSubsetOrdering
  <2>3. QED
    BY <2>2, <1>4
<1>6. QED
  BY <1>5

\* A set that holds 0 and, with every i below n, also i + 1, holds 0 .. n.
LEMMA UpTo ==
  ASSUME NEW n \in Nat, NEW T, 0 \in T,
         \A i \in 0 .. n - 1 : i \in T => i + 1 \in T
  PROVE  0 .. n \subseteq T
<1>1. SUFFICES ASSUME (0 .. n) \ T # {} PROVE FALSE
  OBVIOUS
<1>2. PICK x \in (0 .. n) \ T : \A y \in (0 .. n) \ T : x <= y
  <2>1. (0 .. n) \ T \subseteq Nat
    OBVIOUS
  <2>2. QED
    BY <1>1, <2>1, LeastNumber
<1>3. x \in 1 .. n
  BY <1>2
<1>4. x - 1 \in 0 .. n - 1
  BY <1>3
<1>5. x - 1 \in T
  BY <1>2, <1>4
<1>6. (x - 1) + 1 \in T
  BY <1>4, <1>5
<1>7. QED
  BY <1>3, <1>6

\* What it takes to continue a function on 0 .. n whose values are in A, and
\* a function that goes on that way.
Continuations(n, A) == [(1 .. n) \X A -> A]

Continues(g, n, A, first, step) ==
  /\ g \in [0 .. n -> A]
  /\ g[0] = first
  /\ \A i \in 1 .. n : g[i] = step[<<i, g[i - 1]>>]

\* A function may be defined on 0 .. n by its first value and a step.
LEMMA RecursionDefines ==
  ASSUME NEW n \in Nat, NEW A, NEW first \in A, NEW step \in Continuations(n, A)
  PROVE  \E g : Continues(g, n, A, first, step)
<1> DEFINE Satisfies(g, m) ==
             \A i \in 0 .. m : g[i] = IF i = 0 THEN first ELSE step[<<i, g[i - 1]>>]
           T == {m \in 0 .. n : \E g \in [0 .. m -> A] : Satisfies(g, m)}
<1>0. step \in [(1 .. n) \X A -> A]
  BY DEF Continuations
<1>1. 0 \in T
  <2>1. [i \in 0 .. 0 |-> first] \in [0 .. 0 -> A] /\ Satisfies([i \in 0 .. 0 |-> first], 0)
    OBVIOUS
  <2>2. \E g \in [0 .. 0 -> A] : Satisfies(g, 0)
    BY <2>1
  <2>3. 0 \in 0 .. n
    OBVIOUS
  <2>4. QED
    BY <2>2, <2>3
<1>2. ASSUME NEW m \in 0 .. n - 1, m \in T PROVE m + 1 \in T
  <2>1. PICK g \in [0 .. m -> A] : Satisfies(g, m)
    BY <1>2
  <2> DEFINE h == [i \in 0 .. m + 1 |-> IF i <= m THEN g[i] ELSE step[<<m + 1, g[m]>>]]
  <2>2. m + 1 \in 1 .. n /\ m \in 0 .. m /\ m + 1 \in 0 .. n
    OBVIOUS
  <2>3. g[m] \in A
    BY <2>2
  <2>4. step[<<m + 1, g[m]>>] \in A
    BY <1>0, <2>2, <2>3
  <2>5. h \in [0 .. m + 1 -> A]
    BY <2>4
  <2>6. Satisfies(h, m + 1)
    <3>1. TAKE i \in 0 .. m + 1
    <3>2. CASE i = m + 1
      <4>1. h[i] = step[<<m + 1, g[m]>>] /\ h[i - 1] = g[m] /\ i # 0
        BY <3>2
      <4> HIDE DEF h, T
      <4>2. QED
        BY <4>1, <3>2
    <3>3. CASE i \in 1 .. m
      <4>1. h[i] = g[i] /\ h[i - 1] = g[i - 1] /\ i \in 0 .. m /\ i # 0
        BY <3>3
      <4>2. QED
        BY <4>1, <2>1
    <3>4. CASE i = 0
      <4>1. h[i] = g[0] /\ 0 \in 0 .. m
        BY <3>4
      <4>2. QED
        BY <4>1, <2>1, <3>4
    <3>5. QED
      BY <3>2, <3>3, <3>4
  <2>7. QED
    BY <2>2, <2>5, <2>6
<1>3. n \in T
  <2>1. \A m \in 0 .. n - 1 : m \in T => m + 1 \in T
    BY <1>2
  <2> HIDE DEF T
  <2>2. 0 .. n \subseteq T
    BY <1>1, <2>1, UpTo
  <2>3. QED
    BY <2>2
<1>4. PICK g \in [0 .. n -> A] : Satisfies(g, n)
  BY <1>3
<1>5. g[0] = first /\ \A i \in 1 .. n : g[i] = step[<<i, g[i - 1]>>]
  <2>1. 0 \in 0 .. n /\ \A i \in 1 .. n : i \in 0 .. n /\ i # 0
    OBVIOUS
  <2>2. QED
    BY <1>4, <2>1
<1>6. QED
  BY <1>5 DEF Continues

\* What is kept from one value to the next holds of all of them.
LEMMA RecursionKeeps ==
  ASSUME NEW n \in Nat, NEW A, NEW g, g[0] \in A,
         \A i \in 1 .. n : g[i - 1] \in A => g[i] \in A
  PROVE  \A i \in 0 .. n : g[i] \in A
<1> DEFINE T == {i \in 0 .. n : g[i] \in A}
<1>1. 0 \in T
  OBVIOUS
<1>2. ASSUME NEW i \in 0 .. n - 1, i \in T PROVE i + 1 \in T
  <2>1. i + 1 \in 1 .. n /\ (i + 1) - 1 = i /\ i + 1 \in 0 .. n
    OBVIOUS
  <2>2. g[i] \in A
    BY <1>2
  <2>3. g[i + 1] \in A
    BY <2>1, <2>2
  <2>4. QED
    BY <2>1, <2>3
<1>3. \A i \in 0 .. n - 1 : i \in T => i + 1 \in T
  BY <1>2
<1>4. 0 .. n \subseteq T
  <2> HIDE DEF T
  <2>1. QED
    BY <1>1, <1>3, UpTo
<1>5. QED
  BY <1>4
=============================================================================
