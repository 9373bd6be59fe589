----------------------------- MODULE FoldLemmas -----------------------------
(***************************************************************************)
(* Induction along a FoldLeft.  Op(a, .., f, x, y) is what the fold makes  *)
(* of the value x and the element y in the context a .. f, Inv(a, .., f,   *)
(* k, x) what holds of the value x after k elements.  A proof about one    *)
(* fold of the model is an instance of this module whose Op is the body of *)
(* that fold; Fold is what FoldLeft stands for, written out.               *)
(***************************************************************************)
EXTENDS NaturalLemmas
CONSTANTS Op(_, _, _, _, _, _, _, _), Inv(_, _, _, _, _, _, _, _)

Largest(T) == CHOOSE x \in T : \A y \in T : x >= y
Folds(h, a, b, c, d, e, f, base, s, D) ==
    h = [T \in SUBSET D |->
           IF T = {} THEN base ELSE Op(a, b, c, d, e, f, h[T \ {Largest(T)}], s[Largest(T)])]
Fold(a, b, c, d, e, f, base, s) ==
    (CHOOSE h : h = [T \in SUBSET DOMAIN s |->
        IF T = {} THEN base
        ELSE Op(a, b, c, d, e, f, h[T \ {Largest(T)}], s[Largest(T)])])[DOMAIN s]

Trace(t, a, b, c, d, e, f, base, s, n) ==
    /\ t[0] = base
    /\ \A k \in 1 .. n : t[k] = Op(a, b, c, d, e, f, t[k - 1], s[k])
    /\ Fold(a, b, c, d, e, f, base, s) = t[n]

\* A set of the first k + 1 numbers that has the last of them has it as its
\* largest.
LEMMA LargestIsLast ==
    ASSUME NEW k \in Nat, NEW T \in SUBSET (1 .. k + 1), k + 1 \in T
    PROVE  T # {} /\ Largest(T) = k + 1 /\ T \ {k + 1} \in SUBSET (1 .. k)
<1>1. \A y \in T : k + 1 >= y
  OBVIOUS
<1>2. \A x \in T : (\A y \in T : x >= y) => x = k + 1
  OBVIOUS
<1>3. \E x \in T : \A y \in T : x >= y
  BY <1>1
<1>4. Largest(T) \in T /\ \A y \in T : Largest(T) >= y
  BY <1>3, Zenon DEF Largest
<1>5. Largest(T) = k + 1
  BY <1>2, <1>4
<1>6. T \ {k + 1} \in SUBSET (1 .. k)
  OBVIOUS
<1> QED BY <1>5, <1>6

\* The largest of some numbers is one of them (in what is left of a fold).
LEMMA LargestIn ==
    ASSUME NEW n \in Nat, NEW T \in SUBSET (1 .. n), T # {}
    PROVE  Largest(T) \in T
<1> DEFINE Gap == {n - x : x \in T}
<1>1. Gap # {} /\ Gap \in SUBSET Nat
  <2>1. \A x \in T : n - x \in Nat
    OBVIOUS
  <2> QED BY <2>1
<1> HIDE DEF Gap
<1>2. PICK g \in Gap : \A h \in Gap : g <= h
  BY <1>1, Least
<1> USE DEF Gap
<1>3. PICK x \in T : g = n - x
  BY <1>2
<1>4. \A y \in T : x >= y
  <2> SUFFICES ASSUME NEW y \in T PROVE x >= y
    OBVIOUS
  <2>1. n - y \in Gap
    OBVIOUS
  <2> QED BY <1>2, <1>3, <2>1
<1> QED BY <1>4 DEF Largest

\* The recursive function of a fold exists.
LEMMA FoldExists ==
    ASSUME NEW a, NEW b, NEW c, NEW d, NEW e, NEW f, NEW base, NEW s, NEW n \in Nat
    PROVE  \E h : Folds(h, a, b, c, d, e, f, base, s, 1 .. n)
<1> DEFINE S == {k \in Nat : \E h : Folds(h, a, b, c, d, e, f, base, s, 1 .. k)}
<1>1. 0 \in S
  <2> DEFINE h == [T \in SUBSET (1 .. 0) |-> base]
  <2>1. \A T \in SUBSET (1 .. 0) : T = {}
    OBVIOUS
  <2>2. Folds(h, a, b, c, d, e, f, base, s, 1 .. 0)
    BY <2>1 DEF Folds
  <2> QED BY <2>2
<1>2. ASSUME NEW k \in Nat, k \in S PROVE k + 1 \in S
  <2>1. PICK h : Folds(h, a, b, c, d, e, f, base, s, 1 .. k)
    BY <1>2
  <2> DEFINE g == [T \in SUBSET (1 .. k + 1) |->
                     IF k + 1 \in T THEN Op(a, b, c, d, e, f, h[T \ {k + 1}], s[k + 1]) ELSE h[T]]
  <2>2. ASSUME NEW T \in SUBSET (1 .. k + 1)
        PROVE  g[T] = IF T = {} THEN base
                      ELSE Op(a, b, c, d, e, f, g[T \ {Largest(T)}], s[Largest(T)])
    <3>1. CASE k + 1 \in T
      <4>1. T # {} /\ Largest(T) = k + 1 /\ T \ {k + 1} \in SUBSET (1 .. k)
        BY <3>1, LargestIsLast
      <4>2. g[T \ {k + 1}] = h[T \ {k + 1}]
        OBVIOUS
      <4> QED BY <3>1, <4>1, <4>2
    <3>2. CASE k + 1 \notin T
      <4>1. T \in SUBSET (1 .. k) /\ g[T] = h[T]
        BY <3>2
      <4>2. CASE T = {}
        BY <2>1, <4>1, <4>2 DEF Folds
      <4>3. CASE T # {}
        <5>1. Largest(T) \in T
          BY <4>1, <4>3, LargestIn
        <5>2. g[T \ {Largest(T)}] = h[T \ {Largest(T)}]
          BY <3>2
        <5> QED BY <2>1, <4>1, <4>3, <5>2 DEF Folds
      <4> QED BY <4>2, <4>3
    <3> QED BY <3>1, <3>2
  <2>3. Folds(g, a, b, c, d, e, f, base, s, 1 .. k + 1)
    <3>1. g = [T \in SUBSET (1 .. k + 1) |-> g[T]]
      OBVIOUS
    <3> HIDE DEF g
    <3> QED BY <2>2, <3>1 DEF Folds
  <2> QED BY <2>3
<1>3. \A k \in 1 .. n : k - 1 \in S => k \in S
  <2> SUFFICES ASSUME NEW k \in 1 .. n, k - 1 \in S PROVE k \in S
    OBVIOUS
  <2>1. k - 1 \in Nat /\ (k - 1) + 1 = k
    OBVIOUS
  <2> HIDE DEF S
  <2> QED BY <1>2, <2>1
<1>4. n \in S
  <2> HIDE DEF S
  <2> QED BY <1>1, <1>3, CountUp
<1> QED BY <1>4

\* A fold goes through one value after the other (two folds along the same list
\* are compared value by value).
THEOREM FoldTrace ==
    ASSUME NEW a, NEW b, NEW c, NEW d, NEW e, NEW f, NEW base, NEW s,
           NEW n \in Nat, DOMAIN s = 1 .. n
    PROVE  \E t : Trace(t, a, b, c, d, e, f, base, s, n)
<1> DEFINE h == CHOOSE h : Folds(h, a, b, c, d, e, f, base, s, 1 .. n)
           t == [k \in 0 .. n |-> h[1 .. k]]
<1>1. Folds(h, a, b, c, d, e, f, base, s, 1 .. n)
  BY FoldExists
<1>2. Fold(a, b, c, d, e, f, base, s) = h[1 .. n]
  BY DEF Fold, Folds
<1> HIDE DEF h
<1>3. t[0] = base
  <2>1. 1 .. 0 = {} /\ 1 .. 0 \in SUBSET (1 .. n)
    OBVIOUS
  <2>2. h[1 .. 0] = base
    BY <1>1, <2>1 DEF Folds
  <2> QED BY <2>2
<1>4. ASSUME NEW k \in 1 .. n PROVE t[k] = Op(a, b, c, d, e, f, t[k - 1], s[k])
  <2>1. k - 1 \in Nat /\ (k - 1) + 1 = k /\ 1 .. k \in SUBSET (1 .. n) /\ k \in 1 .. k
    OBVIOUS
  <2>2. 1 .. k # {} /\ Largest(1 .. k) = k
    <3> DEFINE j == k - 1
    <3>1. j \in Nat /\ j + 1 = k
      BY <2>1
    <3>2. 1 .. k \in SUBSET (1 .. j + 1) /\ j + 1 \in 1 .. k
      BY <2>1, <3>1
    <3> HIDE DEF j
    <3> QED BY <3>1, <3>2, LargestIsLast
  <2>3. (1 .. k) \ {k} = 1 .. k - 1
    OBVIOUS
  <2>4. h[1 .. k] = Op(a, b, c, d, e, f, h[1 .. k - 1], s[k])
    BY <1>1, <2>1, <2>2, <2>3 DEF Folds
  <2>5. t[k] = h[1 .. k] /\ t[k - 1] = h[1 .. k - 1]
    OBVIOUS
  <2> QED BY <2>4, <2>5
<1>5. t[n] = h[1 .. n]
  OBVIOUS
<1> HIDE DEF t
<1>6. Trace(t, a, b, c, d, e, f, base, s, n)
  BY <1>2, <1>3, <1>4, <1>5 DEF Trace
<1> QED BY <1>6

\* What holds at the start of a fold and is kept by every step of it holds at
\* its end (every loop of the code that the model writes as a fold).
THEOREM FoldKeeps ==
    ASSUME NEW a, NEW b, NEW c, NEW d, NEW e, NEW f, NEW base, NEW s,
           NEW n \in Nat, DOMAIN s = 1 .. n,
           Inv(a, b, c, d, e, f, 0, base),
           \A k \in 1 .. n : \A x : Inv(a, b, c, d, e, f, k - 1, x) =>
                                    Inv(a, b, c, d, e, f, k, Op(a, b, c, d, e, f, x, s[k]))
    PROVE  Inv(a, b, c, d, e, f, n, Fold(a, b, c, d, e, f, base, s))
<1>1. PICK t : Trace(t, a, b, c, d, e, f, base, s, n)
  BY FoldTrace, Zenon
<1> DEFINE S == {k \in 0 .. n : Inv(a, b, c, d, e, f, k, t[k])}
<1>2. 0 \in S
  BY <1>1 DEF Trace
<1>3. ASSUME NEW k \in 1 .. n, k - 1 \in S PROVE k \in S
  <2>1. Inv(a, b, c, d, e, f, k - 1, t[k - 1])
    BY <1>3
  <2>2. Inv(a, b, c, d, e, f, k, t[k])
    BY <1>1, <2>1 DEF Trace
  <2> QED BY <2>2
<1>4. n \in S
  <2> HIDE DEF S
  <2> QED BY <1>2, <1>3, CountUp
<1> QED BY <1>1, <1>4 DEF Trace
=============================================================================
