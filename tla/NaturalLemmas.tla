---------------------------- MODULE NaturalLemmas ----------------------------
(***************************************************************************)
(* What the proofs use in place of induction over the naturals: the least  *)
(* counterexample, and the existence of the iterates of a function.  A     *)
(* recursive function stands for the solution of its equation only where   *)
(* there is one.                                                           *)
(***************************************************************************)
EXTENDS Integers, WellFoundedInduction, TLAPS

\* A set of numbers that is not empty has a least one (for the functions that
\* follow a list or a journal to its end).
LEMMA Least ==
    ASSUME NEW T \in SUBSET Nat, T # {}
    PROVE  \E x \in T : \A y \in T : x <= y
<1>1. PICK x \in T : \A y \in T : ~ (<<y, x>> \in OpToRel(<, Nat))
  BY NatLessThanWellFounded, WFMin
<1>2. \A y \in T : ~ (y < x)
  BY <1>1 DEF OpToRel
<1> QED BY <1>2

\* A number that can be counted up to from zero (the steps of a loop).
LEMMA CountUp ==
    ASSUME NEW n \in Nat, NEW S, 0 \in S, \A k \in 1 .. n : k - 1 \in S => k \in S
    PROVE  n \in S
<1> DEFINE Bad == {k \in 0 .. n : k \notin S}
<1> SUFFICES ASSUME Bad # {} PROVE FALSE
  OBVIOUS
<1>1. PICK k \in Bad : \A j \in Bad : k <= j
  <2>1. Bad \in SUBSET Nat  OBVIOUS
  <2> HIDE DEF Bad
  <2> QED BY <2>1, Least
<1>2. k \in 1 .. n /\ k \notin S
  BY <1>1
<1>3. k - 1 \in 0 .. n /\ k - 1 \notin Bad
  BY <1>1, <1>2
<1> QED BY <1>2, <1>3

\* h holds the first n iterates of step, from start on.
Iterates(h, T, start, step, n) ==
    /\ h \in [0 .. n -> T]
    /\ h[0] = start
    /\ \A k \in 1 .. n : h[k] = step[h[k - 1]]

\* However many iterates are wanted, there are that many (what follows the
\* pointers of a list takes one step after the other).
LEMMA SomeIterates ==
    ASSUME NEW T, NEW start \in T, NEW step \in [T -> T]
    PROVE  \A n \in Nat : \E h : Iterates(h, T, start, step, n)
<1> DEFINE Bad == {n \in Nat : ~\E h : Iterates(h, T, start, step, n)}
<1> SUFFICES ASSUME Bad # {} PROVE FALSE
  OBVIOUS
<1>1. PICK n \in Bad : \A m \in Bad : n <= m
  <2>1. Bad \in SUBSET Nat  OBVIOUS
  <2> HIDE DEF Bad
  <2> QED BY <2>1, Least
<1>2. CASE n = 0
  <2>1. Iterates([k \in 0 .. 0 |-> start], T, start, step, 0)
    BY DEF Iterates
  <2> QED BY <2>1, <1>1, <1>2
<1>3. CASE n # 0
  <2>0. n \in Nat /\ n - 1 \in Nat
    BY <1>1, <1>3
  <2>1. PICK h : Iterates(h, T, start, step, n - 1)
    <3>1. n - 1 \notin Bad
      <4> HIDE DEF Bad
      <4> QED BY <2>0, <1>1
    <3> QED BY <3>1, <2>0
  <2> DEFINE e == [k \in 0 .. n |-> IF k = n THEN step[h[n - 1]] ELSE h[k]]
  <2>2. h[n - 1] \in T
    BY <2>0, <2>1 DEF Iterates
  <2>3. \A k \in 0 .. n : k # n => k \in 0 .. n - 1 /\ h[k] \in T
    BY <2>0, <2>1 DEF Iterates
  <2>4. e \in [0 .. n -> T]
    BY <2>2, <2>3
  <2>5. e[0] = start
    BY <2>0, <2>1, <1>3 DEF Iterates
  <2>6. ASSUME NEW k \in 1 .. n PROVE e[k] = step[e[k - 1]]
    <3>1. k - 1 \in 0 .. n - 1 /\ k - 1 # n /\ k \in 0 .. n /\ k - 1 \in 0 .. n
      BY <2>0
    <3>2. e[k - 1] = h[k - 1]
      BY <3>1
    <3>3. CASE k = n
      BY <3>1, <3>2, <3>3
    <3>4. CASE k # n
      <4>1. k \in 1 .. n - 1
        BY <2>0, <3>4
      <4> QED BY <2>1, <3>1, <3>2, <3>4, <4>1 DEF Iterates
    <3> QED BY <3>3, <3>4
  <2> HIDE DEF e
  <2>7. Iterates(e, T, start, step, n)
    BY <2>4, <2>5, <2>6 DEF Iterates
  <2> QED BY <2>7, <1>1
<1> QED BY <1>2, <1>3

\* Two lists of iterates agree as far as both go.
LEMMA IteratesAgree ==
    ASSUME NEW T, NEW start \in T, NEW step \in [T -> T],
           NEW m \in Nat, NEW n \in Nat, m <= n, NEW g, NEW h,
           Iterates(g, T, start, step, m), Iterates(h, T, start, step, n)
    PROVE  g[m] = h[m]
<1> DEFINE Bad == {k \in 0 .. m : g[k] # h[k]}
<1>1. SUFFICES ASSUME Bad # {} PROVE FALSE
  <2>1. m \in 0 .. m  OBVIOUS
  <2> QED BY <1>1, <2>1
<1>2. PICK k \in Bad : \A l \in Bad : k <= l
  <2>1. Bad \in SUBSET Nat  OBVIOUS
  <2> HIDE DEF Bad
  <2> QED BY <2>1, <1>1, Least
<1>3. k \in 0 .. m /\ g[k] # h[k]
  OBVIOUS
<1>4. k # 0
  BY <1>3 DEF Iterates
<1>5. k \in 1 .. m /\ k \in 1 .. n /\ k - 1 \in 0 .. m
  BY <1>3, <1>4
<1>6. k - 1 \notin Bad
  <2> HIDE DEF Bad
  <2> QED BY <1>2, <1>5
<1>7. g[k - 1] = h[k - 1]
  BY <1>5, <1>6
<1> QED BY <1>3, <1>5, <1>7 DEF Iterates

\* There is a function that gives all iterates.
LEMMA Iteration ==
    ASSUME NEW T, NEW start \in T, NEW step \in [T -> T]
    PROVE  \E g \in [Nat -> T] :
              g[0] = start /\ \A n \in Nat : n # 0 => g[n] = step[g[n - 1]]
<1> DEFINE I(h, n) == Iterates(h, T, start, step, n)
           first(n) == CHOOSE h : I(h, n)
           g == [n \in Nat |-> first(n)[n]]
<1>1. ASSUME NEW n \in Nat PROVE I(first(n), n)
  BY SomeIterates
<1> HIDE DEF first
<1>2. g \in [Nat -> T]
  BY <1>1 DEF Iterates
<1>3. g[0] = start
  BY <1>1 DEF Iterates
<1>4. ASSUME NEW n \in Nat, n # 0 PROVE g[n] = step[g[n - 1]]
  <2>1. n - 1 \in Nat /\ n \in 1 .. n /\ n - 1 <= n
    BY <1>4
  <2>2. I(first(n), n) /\ I(first(n - 1), n - 1)
    BY <1>1, <2>1
  <2>3. first(n - 1)[n - 1] = first(n)[n - 1]
    BY <2>1, <2>2, IteratesAgree
  <2>4. first(n)[n] = step[first(n)[n - 1]]
    BY <2>1, <2>2 DEF Iterates
  <2> QED BY <2>1, <2>3, <2>4
<1> QED BY <1>2, <1>3, <1>4
==============================================================================
