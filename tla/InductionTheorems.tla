------------------------------ MODULE InductionTheorems ---------------------------
(***************************************************************************)
(* Induction without an operator parameter, and what it gives: the least   *)
(* number of a set, the existence of functions defined by recursion, and   *)
(* the laws of SumFunctionOnSet, the sum of a function over a finite set.   *)
(***************************************************************************)
EXTENDS Integers, FiniteSets, Functions, FiniteSetTheorems, WellFoundedInduction, TLAPS

-----------------------------------------------------------------------------
\* Natural numbers.

LEMMA NatLess == \A x, y \in Nat : <<x, y>> \in OpToRel(<, Nat) <=> x < y
BY DEF OpToRel

\* A set of numbers that is not empty has a least one.
LEMMA LeastNumber ==
    ASSUME NEW T, T \subseteq Nat, T # {}
    PROVE  \E x \in T : \A y \in T : x <= y
<1>1. PICK x \in T : \A y \in T : ~(<<y, x>> \in OpToRel(<, Nat))
    BY NatLessThanWellFounded, WFMin
<1>2. \A y \in T : ~(y < x)
    BY <1>1, NatLess
<1> QED BY <1>2

\* A set that holds zero and the successor of its numbers holds them all.
LEMMA InductionOverNat ==
    ASSUME NEW S, 0 \in S, \A n \in Nat : n \in S => n + 1 \in S
    PROVE  Nat \subseteq S
<1> SUFFICES ASSUME Nat \ S # {} PROVE FALSE
    OBVIOUS
<1>1. PICK x \in Nat \ S : \A y \in Nat \ S : x <= y
    BY LeastNumber
<1>2. x # 0 /\ x - 1 \in Nat /\ x - 1 < x /\ (x - 1) + 1 = x
    BY <1>1
<1>3. x - 1 \in S
    BY <1>1, <1>2
<1> QED BY <1>2, <1>3

-----------------------------------------------------------------------------
\* Recursion over the subsets of a finite set.

\* One step of the sum: what is left over, and what it adds.
Picked(T) == CHOOSE x \in T : TRUE

Recurs(g, w, T) == IF T = {} THEN 0 ELSE w[Picked(T)] + g[T \ {Picked(T)}]

\* A finite set over which a function can be summed, and its partial sums.
Summable(w, S) == IsFiniteSet(S) /\ \A x \in S : w[x] \in Int

Sums(g, w, S) == g \in [SUBSET S -> Int] /\ \A T \in SUBSET S : g[T] = Recurs(g, w, T)

LEMMA SumRecursion ==
    ASSUME NEW w, NEW S, Summable(w, S)
    PROVE  \E g : Sums(g, w, S)
<1>0. IsFiniteSet(S) /\ \A x \in S : w[x] \in Int
    BY DEF Summable
<1> DEFINE Small(n) == {T \in SUBSET S : Cardinality(T) <= n}
           Good == {n \in Nat : \E g \in [SUBSET S -> Int] :
                                   \A T \in Small(n) : g[T] = Recurs(g, w, T)}
<1>1. \A T \in SUBSET S : IsFiniteSet(T) /\ Cardinality(T) \in Nat
    BY <1>0, FS_Subset, FS_CardinalityType
<1>2. \A T \in SUBSET S : T # {} => /\ Picked(T) \in T /\ T \ {Picked(T)} \in SUBSET S
                                    /\ Cardinality(T \ {Picked(T)}) = Cardinality(T) - 1
    BY <1>1, FS_RemoveElement DEF Picked
<1>3. 0 \in Good
  <2> DEFINE g == [T \in SUBSET S |-> 0]
  <2>1. \A T \in Small(0) : T = {}
      BY <1>1, FS_EmptySet
  <2>2. \A T \in Small(0) : g[T] = Recurs(g, w, T)
      BY <2>1 DEF Recurs
  <2>3. g \in [SUBSET S -> Int]
      OBVIOUS
  <2> HIDE DEF g, Small
  <2> QED BY <2>2, <2>3
<1>4. ASSUME NEW n \in Nat, n \in Good PROVE n + 1 \in Good
  <2>1. PICK g \in [SUBSET S -> Int] : \A T \in Small(n) : g[T] = Recurs(g, w, T)
      BY <1>4
  <2> DEFINE h == [T \in SUBSET S |-> IF Cardinality(T) = n + 1 THEN Recurs(g, w, T) ELSE g[T]]
  <2>2. h \in [SUBSET S -> Int]
    <3>1. ASSUME NEW T \in SUBSET S PROVE Recurs(g, w, T) \in Int
      <4>1. T # {} => w[Picked(T)] \in Int /\ g[T \ {Picked(T)}] \in Int
          BY <1>0, <1>2
      <4> QED BY <4>1 DEF Recurs
    <3> QED BY <3>1
  <2>3. ASSUME NEW T \in Small(n) PROVE h[T] = g[T]
      BY <1>1
  <2>4. ASSUME NEW T \in Small(n + 1) PROVE h[T] = Recurs(h, w, T)
    <3>1. Recurs(h, w, T) = Recurs(g, w, T)
      <4>1. CASE T = {}
          BY <4>1 DEF Recurs
      <4>2. CASE T # {}
        <5>1. T \ {Picked(T)} \in Small(n)
          <6>1. T \in SUBSET S /\ Cardinality(T) <= n + 1 /\ Cardinality(T) \in Nat
              BY <1>1
          <6>2. T \ {Picked(T)} \in SUBSET S /\ Cardinality(T \ {Picked(T)}) = Cardinality(T) - 1
              BY <6>1, <1>2, <4>2
          <6>3. Cardinality(T \ {Picked(T)}) <= n
              BY <6>1, <6>2
          <6> QED BY <6>2, <6>3
        <5>2. h[T \ {Picked(T)}] = g[T \ {Picked(T)}]
            BY <2>3, <5>1
        <5> QED BY <4>2, <5>2 DEF Recurs
      <4> QED BY <4>1, <4>2
    <3>2. CASE Cardinality(T) = n + 1
        BY <3>1, <3>2
    <3>3. CASE Cardinality(T) # n + 1
      <4>1. T \in Small(n)
          BY <1>1, <3>3
      <4> QED BY <2>1, <2>3, <3>1, <4>1
    <3> QED BY <3>2, <3>3
  <2> HIDE DEF h, Small
  <2> QED BY <2>2, <2>4
<1>5. Cardinality(S) \in Good
  <2> HIDE DEF Good
  <2> QED BY <1>3, <1>4, <1>0, InductionOverNat, FS_CardinalityType
<1>6. \A T \in SUBSET S : T \in Small(Cardinality(S))
    BY <1>0, FS_Subset
<1> HIDE DEF Small
<1> QED BY <1>5, <1>6 DEF Sums

\* Two solutions over functions with the same values agree.
LEMMA SumsAgree ==
    ASSUME NEW w, NEW v, NEW g, NEW h, NEW S,
           IsFiniteSet(S), \A x \in S : w[x] = v[x],
           \A T \in SUBSET S : g[T] = Recurs(g, w, T),
           \A T \in SUBSET S : h[T] = Recurs(h, v, T)
    PROVE  \A T \in SUBSET S : g[T] = h[T]
<1> DEFINE Good == {n \in Nat : \A T \in SUBSET S : Cardinality(T) <= n => g[T] = h[T]}
<1>1. \A T \in SUBSET S : IsFiniteSet(T) /\ Cardinality(T) \in Nat
    BY FS_Subset, FS_CardinalityType
<1>2. 0 \in Good
  <2>1. \A T \in SUBSET S : Cardinality(T) <= 0 => T = {}
      BY <1>1, FS_EmptySet
  <2> QED BY <2>1 DEF Recurs
<1>3. ASSUME NEW n \in Nat, n \in Good PROVE n + 1 \in Good
  <2> SUFFICES ASSUME NEW T \in SUBSET S, Cardinality(T) <= n + 1 PROVE g[T] = h[T]
      OBVIOUS
  <2>1. CASE T = {}
      BY <2>1 DEF Recurs
  <2>2. CASE T # {}
    <3> DEFINE R == T \ {Picked(T)}
    <3>1. Picked(T) \in T
        BY <2>2 DEF Picked
    <3>2. R \in SUBSET S /\ Cardinality(R) = Cardinality(T) - 1
        BY <1>1, <3>1, FS_RemoveElement
    <3>3. Cardinality(R) <= n
        BY <1>1, <3>2
    <3>4. g[R] = h[R]
        BY <1>3, <3>2, <3>3
    <3>5. g[T] = w[Picked(T)] + g[R] /\ h[T] = v[Picked(T)] + h[R]
        BY <2>2 DEF Recurs
    <3> QED BY <3>1, <3>4, <3>5
  <2> QED BY <2>1, <2>2
<1>4. Cardinality(S) \in Good
  <2> HIDE DEF Good
  <2> QED BY <1>2, <1>3, FS_CardinalityType, InductionOverNat
<1> QED BY <1>4, FS_Subset

\* It does not matter which element of a set is taken out.
LEMMA SumsTakeAny ==
    ASSUME NEW w, NEW S, NEW g, Summable(w, S), Sums(g, w, S)
    PROVE  \A x \in S : g[S] = w[x] + g[S \ {x}]
<1> DEFINE Good == {n \in Nat : \A T \in SUBSET S : \A x \in T :
                                   Cardinality(T) <= n => g[T] = w[x] + g[T \ {x}]}
<1>1. \A T \in SUBSET S : IsFiniteSet(T) /\ Cardinality(T) \in Nat
    BY FS_Subset, FS_CardinalityType DEF Summable
<1>2. 0 \in Good
  <2>1. \A T \in SUBSET S : Cardinality(T) <= 0 => T = {}
      BY <1>1, FS_EmptySet
  <2> QED BY <2>1
<1>3. ASSUME NEW n \in Nat, n \in Good PROVE n + 1 \in Good
  <2> SUFFICES ASSUME NEW T \in SUBSET S, NEW x \in T, Cardinality(T) <= n + 1
               PROVE  g[T] = w[x] + g[T \ {x}]
      OBVIOUS
  <2> DEFINE p == Picked(T)
             U == T \ {x}
             V == T \ {p}
  <2>1. p \in T
      BY DEF Picked
  <2>2. g[T] = w[p] + g[V]
      BY DEF Sums, Recurs
  <2>3. /\ U \in SUBSET S /\ Cardinality(U) = Cardinality(T) - 1
        /\ V \in SUBSET S /\ Cardinality(V) = Cardinality(T) - 1
      BY <1>1, <2>1, FS_RemoveElement
  <2>4. Cardinality(U) <= n /\ Cardinality(V) <= n
      BY <1>1, <2>3
  <2> HIDE DEF p
  <2>5. CASE x = p
      BY <2>2, <2>5
  <2>6. CASE x # p
    <3>1. p \in U /\ x \in V /\ U \ {p} = V \ {x}
        BY <2>1, <2>6
    <3>2. g[U] = w[p] + g[U \ {p}] /\ g[V] = w[x] + g[V \ {x}]
        BY <1>3, <2>3, <2>4, <3>1
    <3>3. w[p] \in Int /\ w[x] \in Int
        BY <2>1 DEF Summable
    <3>4. U \ {p} \in SUBSET S
        BY <2>3
    <3>5. g[U \ {p}] \in Int
        BY <3>4 DEF Sums
    <3>6. g[V] = w[x] + g[U \ {p}]
        BY <3>1, <3>2
    <3>7. g[U] = w[p] + g[U \ {p}]
        BY <3>2
    <3> HIDE DEF U, V
    <3> QED BY <2>2, <3>3, <3>5, <3>6, <3>7 DEF U
  <2> QED BY <2>5, <2>6
<1>4. Cardinality(S) \in Good
  <2>1. Cardinality(S) \in Nat
      BY FS_CardinalityType DEF Summable
  <2> HIDE DEF Good
  <2> QED BY <1>2, <1>3, <2>1, InductionOverNat
<1>5. \A T \in SUBSET S : Cardinality(T) <= Cardinality(S)
    BY FS_Subset DEF Summable
<1>6. S \in SUBSET S
    OBVIOUS
<1> QED BY <1>4, <1>5, <1>6

-----------------------------------------------------------------------------
\* The sum of a function.

\* The sum over any part of a set is the value of the recursion there.
LEMMA SumIsRecursion ==
    ASSUME NEW w, NEW S, NEW g, Summable(w, S), Sums(g, w, S)
    PROVE  \A T \in SUBSET S : SumFunctionOnSet(w, T) = g[T]
<1> SUFFICES ASSUME NEW T \in SUBSET S PROVE SumFunctionOnSet(w, T) = g[T]
    OBVIOUS
<1> DEFINE Eq(f) == f = [U \in SUBSET T |->
                           IF U = {} THEN 0 ELSE w[Picked(U)] + f[U \ {Picked(U)}]]
           iter == CHOOSE f : Eq(f)
           part == [U \in SUBSET T |-> g[U]]
<1>1. SumFunctionOnSet(w, T) = iter[T]
    BY DEF SumFunctionOnSet, FoldFunctionOnSet, MapThenFoldSet, Picked
<1>2. Eq(part)
  <2>1. ASSUME NEW U \in SUBSET T
        PROVE  part[U] = IF U = {} THEN 0 ELSE w[Picked(U)] + part[U \ {Picked(U)}]
    <3>1. U \in SUBSET S /\ U \ {Picked(U)} \in SUBSET T
        OBVIOUS
    <3>2. g[U] = Recurs(g, w, U)
        BY <3>1 DEF Sums
    <3> QED BY <3>1, <3>2 DEF Recurs
  <2> QED BY <2>1
<1>3. Eq(iter)
  <2> HIDE DEF Eq, part
  <2> QED BY <1>2
<1> HIDE DEF iter, part
<1>4. \A U \in SUBSET T : iter[U] = Recurs(iter, w, U)
    BY <1>3 DEF Recurs
<1>5. \A U \in SUBSET T : g[U] = Recurs(g, w, U)
    BY DEF Sums
<1>6. IsFiniteSet(T)
    BY FS_Subset DEF Summable
<1>7. iter[T] = g[T]
    BY <1>4, <1>5, <1>6, SumsAgree
<1> QED BY <1>1, <1>7

\* A sum of integers is an integer, of no terms zero, and taking one element
\* out of the set takes its value out of the sum.
LEMMA SumLaws ==
    ASSUME NEW w, NEW S, Summable(w, S)
    PROVE  /\ SumFunctionOnSet(w, S) \in Int
           /\ SumFunctionOnSet(w, {}) = 0
           /\ \A x \in S : SumFunctionOnSet(w, S) = w[x] + SumFunctionOnSet(w, S \ {x})
<1>1. PICK g : Sums(g, w, S)
    BY SumRecursion
<1>2. \A T \in SUBSET S : SumFunctionOnSet(w, T) = g[T]
    BY <1>1, SumIsRecursion
<1>3. SumFunctionOnSet(w, S) \in Int
    BY <1>1, <1>2 DEF Sums
<1>4. SumFunctionOnSet(w, {}) = 0
    BY <1>1, <1>2 DEF Sums, Recurs
<1>5. \A x \in S : SumFunctionOnSet(w, S) = w[x] + SumFunctionOnSet(w, S \ {x})
  <2>1. \A x \in S : g[S] = w[x] + g[S \ {x}]
      BY <1>1, SumsTakeAny
  <2> QED BY <1>2, <2>1
<1> QED BY <1>3, <1>4, <1>5

\* Adding an element adds its value.
LEMMA SumAdd ==
    ASSUME NEW w, NEW S, NEW x, Summable(w, S), x \notin S, w[x] \in Int
    PROVE  /\ Summable(w, S \cup {x})
           /\ SumFunctionOnSet(w, S \cup {x}) = w[x] + SumFunctionOnSet(w, S)
<1>1. IsFiniteSet(S \cup {x})
    BY FS_AddElement DEF Summable
<1>2. Summable(w, S \cup {x})
    BY <1>1 DEF Summable
<1>3. (S \cup {x}) \ {x} = S
    OBVIOUS
<1>4. SumFunctionOnSet(w, S \cup {x}) = w[x] + SumFunctionOnSet(w, (S \cup {x}) \ {x})
    BY <1>2, SumLaws
<1> QED BY <1>2, <1>3, <1>4

\* A sum depends on the values alone.
LEMMA SumOfEquals ==
    ASSUME NEW w, NEW v, NEW S, Summable(w, S), \A x \in S : w[x] = v[x]
    PROVE  SumFunctionOnSet(w, S) = SumFunctionOnSet(v, S)
<1>1. Summable(v, S)
    BY DEF Summable
<1>2. PICK g : Sums(g, w, S)
    BY SumRecursion
<1>3. PICK h : Sums(h, v, S)
    BY <1>1, SumRecursion
<1>4. SumFunctionOnSet(w, S) = g[S] /\ SumFunctionOnSet(v, S) = h[S]
    BY <1>1, <1>2, <1>3, SumIsRecursion
<1>5. /\ IsFiniteSet(S)
      /\ \A T \in SUBSET S : g[T] = Recurs(g, w, T)
      /\ \A T \in SUBSET S : h[T] = Recurs(h, v, T)
    BY <1>2, <1>3 DEF Summable, Sums
<1>6. \A T \in SUBSET S : g[T] = h[T]
    BY <1>5, SumsAgree
<1> QED BY <1>4, <1>6

LEMMA SumOfZeros ==
    ASSUME NEW w, NEW S, IsFiniteSet(S), \A x \in S : w[x] = 0
    PROVE  SumFunctionOnSet(w, S) = 0
<1> DEFINE g == [T \in SUBSET S |-> 0]
<1>1. Summable(w, S)
    BY DEF Summable
<1>2. ASSUME NEW T \in SUBSET S PROVE g[T] = Recurs(g, w, T)
  <2>1. CASE T = {}
      BY <2>1 DEF Recurs
  <2>2. CASE T # {}
    <3>1. Picked(T) \in T
        BY <2>2 DEF Picked
    <3>2. w[Picked(T)] = 0 /\ g[T \ {Picked(T)}] = 0
        BY <3>1
    <3> QED
        BY <2>2, <3>2 DEF Recurs
  <2> QED
      BY <2>1, <2>2
<1>3. Sums(g, w, S)
    BY <1>2 DEF Sums
<1>4. SumFunctionOnSet(w, S) = g[S]
    BY <1>1, <1>3, SumIsRecursion
<1> QED
    BY <1>4

\* A sum of numbers is at least the sum over any part of the set, and any of
\* its terms.
LEMMA SumGrows ==
    ASSUME NEW w, NEW S, NEW T \in SUBSET S, IsFiniteSet(S), \A x \in S : w[x] \in Nat
    PROVE  /\ SumFunctionOnSet(w, T) \in Nat
           /\ SumFunctionOnSet(w, S) \in Nat
           /\ SumFunctionOnSet(w, T) <= SumFunctionOnSet(w, S)
<1> DEFINE Sum(U) == SumFunctionOnSet(w, U)
           Good == {n \in Nat : \A U \in SUBSET S : Cardinality(U) <= n =>
                      \A V \in SUBSET U : Sum(V) \in Nat /\ Sum(V) <= Sum(U)}
<1>1. \A U \in SUBSET S : IsFiniteSet(U) /\ Cardinality(U) \in Nat
    BY FS_Subset, FS_CardinalityType
<1>2. \A U \in SUBSET S : Summable(w, U)
    BY <1>1 DEF Summable
<1>3. Sum({}) = 0
    BY <1>2, SumLaws
<1>4. \A U \in SUBSET S : \A x \in U : Sum(U) = w[x] + Sum(U \ {x})
    BY <1>2, SumLaws
<1> HIDE DEF Sum
<1>5. 0 \in Good
  <2>1. \A U \in SUBSET S : Cardinality(U) <= 0 => U = {}
      BY <1>1, FS_EmptySet
  <2>2. \A V \in SUBSET {} : V = {}
      OBVIOUS
  <2> QED BY <1>3, <2>1, <2>2
<1>6. ASSUME NEW n \in Nat, n \in Good PROVE n + 1 \in Good
  <2> SUFFICES ASSUME NEW U \in SUBSET S, Cardinality(U) <= n + 1, NEW V \in SUBSET U
               PROVE  Sum(V) \in Nat /\ Sum(V) <= Sum(U)
      OBVIOUS
  <2>1. CASE U = {}
    <3>1. V = {}
        BY <2>1
    <3> QED BY <1>3, <2>1, <3>1
  <2>2. CASE V # U
    <3>1. PICK x \in U : x \notin V
        BY <2>2
    <3>2. U \ {x} \in SUBSET S /\ V \in SUBSET (U \ {x})
        BY <3>1
    <3>3. Cardinality(U \ {x}) <= n
      <4>1. Cardinality(U \ {x}) = Cardinality(U) - 1
          BY <1>1, <3>1, FS_RemoveElement
      <4> QED BY <1>1, <4>1
    <3>4. Sum(V) \in Nat /\ Sum(V) <= Sum(U \ {x})
        BY <1>6, <3>2, <3>3
    <3>5. Sum(U \ {x}) \in Nat
        BY <1>6, <3>2, <3>3
    <3>6. Sum(U) = w[x] + Sum(U \ {x}) /\ w[x] \in Nat
        BY <1>4, <3>1
    <3> QED BY <3>4, <3>5, <3>6
  <2>3. CASE U # {} /\ V = U
    <3>1. PICK x \in U : TRUE
        BY <2>3
    <3>2. Cardinality(U \ {x}) <= n
      <4>1. Cardinality(U \ {x}) = Cardinality(U) - 1
          BY <1>1, <3>1, FS_RemoveElement
      <4> QED BY <1>1, <4>1
    <3>3. Sum(U \ {x}) \in Nat
        BY <1>6, <3>2
    <3>4. Sum(U) = w[x] + Sum(U \ {x}) /\ w[x] \in Nat
        BY <1>4, <3>1
    <3> QED BY <2>3, <3>3, <3>4
  <2> QED BY <2>1, <2>2, <2>3
<1>7. Cardinality(S) \in Good
  <2>1. Cardinality(S) \in Nat
      BY FS_CardinalityType
  <2> HIDE DEF Good
  <2> QED BY <1>5, <1>6, <2>1, InductionOverNat
<1>8. Cardinality(S) <= Cardinality(S)
    BY <1>1
<1> QED BY <1>7, <1>8 DEF Sum
=============================================================================
