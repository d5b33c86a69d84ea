----------------------------- MODULE FoldTheorems -----------------------------
(***************************************************************************)
(* What FoldLeft computes, for any operator: the theorems of a module that *)
(* is instantiated with the operator of a fold.  A fold runs through as    *)
(* many values as the sequence has elements, each made from the one        *)
(* before, and anything that holds of all of them holds of the fold.       *)
(***************************************************************************)
EXTENDS SequencesExt, Integers, WellFoundedInduction, FiniteSetTheorems, TLAPS

CONSTANT Op(_, _)

Fold(base, seq) == FoldLeft(Op, base, seq)

-----------------------------------------------------------------------------
\* Induction on the natural numbers, for a set: a least number outside of it would
\* have one before it.
LEMMA SetInduction ==
  ASSUME NEW S, 0 \in S, \A k \in Nat : k \in S => k + 1 \in S
  PROVE  Nat \subseteq S
<1> DEFINE R == OpToRel(<, Nat)
           T == Nat \ S
<1> SUFFICES ASSUME T # {} PROVE FALSE
  OBVIOUS
<1>1. PICK n \in T : \A m \in T : ~(<<m, n>> \in R)
  BY NatLessThanWellFounded, WFMin, Zenon
<1>2. n \in Nat /\ n # 0
  OBVIOUS
<1>3. n - 1 \in Nat /\ n - 1 < n /\ (n - 1) + 1 = n
  BY <1>2
<1>4. <<n - 1, n>> \in R
  BY <1>2, <1>3, Zenon DEF OpToRel
<1> QED
  BY <1>1, <1>2, <1>3, <1>4

\* The largest of the first numbers.
LEMMA MaxOfFirst ==
  ASSUME NEW n \in Nat \ {0}
  PROVE  Max(1..n) = n
BY DEF Max

\* The function that the fold over elements seq[1..n] is defined by.
Iterates(iter, base, seq, n) ==
  iter = [s \in SUBSET (1..n) |->
            IF s = {} THEN base ELSE Op(iter[s \ {Max(s)}], seq[Max(s)])]

\* A set of some of the first numbers has a largest one.
LEMMA MaxInSet ==
  ASSUME NEW n \in Nat, NEW s \in SUBSET (1..n), s # {}
  PROVE  Max(s) \in s /\ \A y \in s : Max(s) >= y
<1> DEFINE B == {k \in Nat : \A S \in SUBSET (1..k) : S # {} => \E x \in S : \A y \in S : x >= y}
<1>1. 0 \in B
  <2>1. 1..0 = {}
    OBVIOUS
  <2>2. \A S \in SUBSET (1..0) : S = {}
    BY <2>1, Zenon
  <2> QED
    BY <2>2
<1>2. ASSUME NEW k \in Nat, k \in B PROVE k + 1 \in B
  <2> SUFFICES ASSUME NEW S \in SUBSET (1..(k + 1)), S # {}
               PROVE  \E x \in S : \A y \in S : x >= y
    OBVIOUS
  <2>1. CASE k + 1 \in S
    BY <2>1
  <2>2. CASE k + 1 \notin S
    <3>1. S \in SUBSET (1..k)
      BY <2>2
    <3> QED
      BY <1>2, <3>1
  <2> QED
    BY <2>1, <2>2
<1> HIDE DEF B
<1>3. Nat \subseteq B
  BY <1>1, <1>2, SetInduction
<1>4. \E x \in s : \A y \in s : x >= y
  BY <1>3 DEF B
<1> QED
  BY <1>4 DEF Max

\* That function exists: it is made longer by one element at a time.
LEMMA IterExists ==
  ASSUME NEW base, NEW seq, NEW n \in Nat
  PROVE  \E iter : Iterates(iter, base, seq, n)
<1> DEFINE G == {k \in Nat : \E iter : Iterates(iter, base, seq, k)}
<1>1. 0 \in G
  <2> DEFINE iter == [s \in SUBSET (1..0) |-> base]
  <2>1. Iterates(iter, base, seq, 0)
    BY DEF Iterates
  <2> QED
    BY <2>1
<1>2. ASSUME NEW k \in Nat, k \in G PROVE k + 1 \in G
  <2>1. PICK g : Iterates(g, base, seq, k)
    BY <1>2
  <2> DEFINE h == [s \in SUBSET (1..(k + 1)) |->
                    IF s \in SUBSET (1..k) THEN g[s]
                    ELSE Op(g[s \ {k + 1}], seq[k + 1])]
  <2>2. ASSUME NEW s \in SUBSET (1..(k + 1)), s # {}
        PROVE  h[s] = Op(h[s \ {Max(s)}], seq[Max(s)])
    <3>1. Max(s) \in s /\ \A y \in s : Max(s) >= y
      <4>1. k + 1 \in Nat
        OBVIOUS
      <4> QED
        BY <2>2, <4>1, MaxInSet, Zenon
    <3>2. CASE s \in SUBSET (1..k)
      <4>1. h[s] = g[s] /\ s \ {Max(s)} \in SUBSET (1..k)
        BY <3>2
      <4>2. h[s \ {Max(s)}] = g[s \ {Max(s)}]
        BY <4>1
      <4>3. g[s] = Op(g[s \ {Max(s)}], seq[Max(s)])
        BY <2>1, <2>2, <3>2 DEF Iterates
      <4> QED
        BY <4>1, <4>2, <4>3
    <3>3. CASE s \notin SUBSET (1..k)
      <4>1. Max(s) = k + 1
        <5>1. k + 1 \in s
          BY <3>3
        <5>2. Max(s) \in 1..(k + 1) /\ Max(s) >= k + 1
          BY <3>1, <5>1
        <5> QED
          BY <5>2
      <4>2. s \ {k + 1} \in SUBSET (1..k)
        OBVIOUS
      <4>3. h[s \ {k + 1}] = g[s \ {k + 1}]
        BY <4>2
      <4> QED
        BY <3>3, <4>1, <4>3
    <3> QED
      BY <3>2, <3>3
  <2>3. h[{}] = base
    BY <2>1 DEF Iterates
  <2>4. Iterates(h, base, seq, k + 1)
    <3>1. \A s \in SUBSET (1..(k + 1)) :
            h[s] = IF s = {} THEN base ELSE Op(h[s \ {Max(s)}], seq[Max(s)])
      BY <2>2, <2>3
    <3> HIDE DEF h
    <3>2. h = [s \in SUBSET (1..(k + 1)) |-> h[s]]
      BY DEF h
    <3> QED
      BY <3>1, <3>2 DEF Iterates
  <2> QED
    BY <2>4
<1> HIDE DEF G
<1>3. Nat \subseteq G
  BY <1>1, <1>2, SetInduction
<1> QED
  BY <1>3 DEF G

\* The values a fold of n elements runs through.
IsTrace(trace, base, seq, n) ==
  /\ trace[0] = base
  /\ \A k \in 1..n : trace[k] = Op(trace[k - 1], seq[k])
  /\ Fold(base, seq) = trace[n]

\* A fold runs through one value per element, each made from the one before.
THEOREM FoldTrace ==
  ASSUME NEW base, NEW seq, NEW n \in Nat, DOMAIN seq = 1..n
  PROVE  \E trace : IsTrace(trace, base, seq, n)
<1> DEFINE iter == CHOOSE i : Iterates(i, base, seq, n)
<1>1. Iterates(iter, base, seq, n)
  BY IterExists
<1>2. Fold(base, seq) = iter[1..n]
  BY DEF Fold, FoldLeft, MapThenFoldSet, Iterates
<1> HIDE DEF iter
<1> DEFINE trace == [k \in 0..n |-> iter[1..k]]
<1>3. iter[1..0] = base
  BY <1>1 DEF Iterates
<1>4. ASSUME NEW k \in 1..n PROVE iter[1..k] = Op(iter[1..(k - 1)], seq[k])
  <2>1. /\ k \in Nat \ {0}
        /\ (1..k) \in SUBSET (1..n)
        /\ (1..k) # {}
    <3>1. k \in Nat \ {0} /\ k \in 1..k
      OBVIOUS
    <3>2. \A j \in 1..k : j \in 1..n
      OBVIOUS
    <3> QED
      BY <3>1, <3>2
  <2>2. (1..k) \ {k} = 1..(k - 1)
    OBVIOUS
  <2>3. iter[1..k] = Op(iter[(1..k) \ {Max(1..k)}], seq[Max(1..k)])
    BY <1>1, <2>1 DEF Iterates
  <2>4. Max(1..k) = k
    BY <2>1, MaxOfFirst
  <2> QED
    BY <2>2, <2>3, <2>4
<1>5. \A k \in 1..n : trace[k] = Op(trace[k - 1], seq[k])
  BY <1>4
<1>6. trace[0] = base /\ Fold(base, seq) = trace[n]
  <2>1. 0 \in 0..n /\ n \in 0..n
    OBVIOUS
  <2> QED
    BY <1>2, <1>3, <2>1
<1> HIDE DEF trace
<1>7. IsTrace(trace, base, seq, n)
  BY <1>5, <1>6 DEF IsTrace
<1> QED
  BY <1>7

\* A set that holds the base and is closed under the operator holds the fold.
THEOREM FoldInvariant ==
  ASSUME NEW base, NEW seq, NEW n \in Nat, DOMAIN seq = 1..n, NEW I, base \in I,
         \A x \in I, k \in 1..n : Op(x, seq[k]) \in I
  PROVE  Fold(base, seq) \in I
<1>0. PICK trace : IsTrace(trace, base, seq, n)
  BY FoldTrace
<1>1. /\ trace[0] = base
      /\ \A k \in 1..n : trace[k] = Op(trace[k - 1], seq[k])
      /\ Fold(base, seq) = trace[n]
  BY <1>0 DEF IsTrace
<1> DEFINE P == {k \in Nat : k <= n => trace[k] \in I}
<1>2. 0 \in P
  BY <1>1
<1>3. ASSUME NEW k \in Nat, k \in P PROVE k + 1 \in P
  <2> SUFFICES ASSUME k + 1 <= n PROVE trace[k + 1] \in I
    OBVIOUS
  <2>1. trace[k] \in I /\ k + 1 \in 1..n /\ (k + 1) - 1 = k
    BY <1>3
  <2> QED
    BY <1>1, <2>1
<1> HIDE DEF P
<1>4. Nat \subseteq P
  BY <1>2, <1>3, SetInduction
<1> QED
  BY <1>1, <1>4 DEF P

\* A fold that reaches a set with one of the elements, and cannot leave it, ends there.
THEOREM FoldReaches ==
  ASSUME NEW base, NEW seq, NEW n \in Nat, DOMAIN seq = 1..n, NEW I, base \in I,
         \A x \in I, k \in 1..n : Op(x, seq[k]) \in I,
         NEW J, NEW m \in 1..n, \A x \in I : Op(x, seq[m]) \in J,
         \A x \in J, k \in 1..n : Op(x, seq[k]) \in J
  PROVE  Fold(base, seq) \in J
<1>0. PICK trace : IsTrace(trace, base, seq, n)
  BY FoldTrace
<1>1. /\ trace[0] = base
      /\ \A k \in 1..n : trace[k] = Op(trace[k - 1], seq[k])
      /\ Fold(base, seq) = trace[n]
  BY <1>0 DEF IsTrace
<1> DEFINE P == {k \in Nat : k <= n => trace[k] \in I /\ (m <= k => trace[k] \in J)}
<1>2. 0 \in P
  BY <1>1
<1>3. ASSUME NEW k \in Nat, k \in P PROVE k + 1 \in P
  <2> SUFFICES ASSUME k + 1 <= n
               PROVE  trace[k + 1] \in I /\ (m <= k + 1 => trace[k + 1] \in J)
    OBVIOUS
  <2>1. trace[k] \in I /\ (m <= k => trace[k] \in J) /\ k + 1 \in 1..n /\ (k + 1) - 1 = k
    BY <1>3
  <2>2. trace[k + 1] = Op(trace[k], seq[k + 1])
    BY <1>1, <2>1
  <2>3. CASE m = k + 1
    BY <2>1, <2>2, <2>3
  <2>4. CASE m # k + 1
    <3>1. m <= k + 1 => m <= k
      BY <2>4
    <3> QED
      BY <2>1, <2>2, <3>1
  <2> QED
    BY <2>3, <2>4
<1> HIDE DEF P
<1>4. Nat \subseteq P
  BY <1>2, <1>3, SetInduction
<1> QED
  BY <1>1, <1>4 DEF P

-----------------------------------------------------------------------------
(* Sums over a finite set.                                                  *)

Sum(fun, S) == SumFunctionOnSet(fun, S)

AnyOf(s) == CHOOSE x \in s : TRUE

\* The function that the sum over S is defined by.
Sums(sum, fun, S) ==
  sum = [s \in SUBSET S |-> IF s = {} THEN 0 ELSE fun[AnyOf(s)] + sum[s \ {AnyOf(s)}]]

\* What is left of a finite set without one of its elements.
LEMMA Smaller ==
  ASSUME NEW S, IsFiniteSet(S), NEW x \in S
  PROVE  /\ IsFiniteSet(S \ {x}) /\ Cardinality(S) \in Nat /\ Cardinality(S) # 0
         /\ Cardinality(S \ {x}) \in Nat /\ Cardinality(S \ {x}) + 1 = Cardinality(S)
<1>1. IsFiniteSet(S \ {x}) /\ Cardinality(S \ {x}) = Cardinality(S) - 1
  BY FS_RemoveElement
<1>2. Cardinality(S) \in Nat /\ Cardinality(S \ {x}) \in Nat
  BY <1>1, FS_CardinalityType
<1> QED
  BY <1>1, <1>2

\* That function exists, for a finite set: it is defined on larger and larger parts.
LEMMA SumsExist ==
  ASSUME NEW fun, NEW S, IsFiniteSet(S)
  PROVE  \E sum : Sums(sum, fun, S)
<1> DEFINE Holds(sum, s) ==
             sum[s] = IF s = {} THEN 0 ELSE fun[AnyOf(s)] + sum[s \ {AnyOf(s)}]
           G == {k \in Nat : \E sum : \A s \in SUBSET S : Cardinality(s) <= k => Holds(sum, s)}
<1>1. \A s \in SUBSET S : IsFiniteSet(s) /\ Cardinality(s) \in Nat
  BY FS_Subset, FS_CardinalityType
<1>2. \A s \in SUBSET S : s # {} => /\ AnyOf(s) \in s /\ s \ {AnyOf(s)} \in SUBSET S
                                   /\ Cardinality(s \ {AnyOf(s)}) \in Nat
                                   /\ Cardinality(s \ {AnyOf(s)}) + 1 = Cardinality(s)
  <2> TAKE s \in SUBSET S
  <2> HAVE s # {}
  <2>1. AnyOf(s) \in s
    BY DEF AnyOf
  <2> QED
    BY <1>1, <2>1, Smaller
<1>3. 0 \in G
  <2> DEFINE zero == [s \in SUBSET S |-> 0]
  <2>1. ASSUME NEW s \in SUBSET S, Cardinality(s) <= 0 PROVE Holds(zero, s)
    <3>1. s = {}
      BY <1>1, <2>1, FS_EmptySet
    <3> QED
      BY <3>1
  <2> QED
    BY <2>1
<1>4. ASSUME NEW k \in Nat, k \in G PROVE k + 1 \in G
  <2>1. PICK g : \A s \in SUBSET S : Cardinality(s) <= k => Holds(g, s)
    BY <1>4
  <2> DEFINE h == [s \in SUBSET S |-> IF Cardinality(s) <= k THEN g[s]
                                      ELSE fun[AnyOf(s)] + g[s \ {AnyOf(s)}]]
  <2>2. ASSUME NEW s \in SUBSET S, Cardinality(s) <= k + 1 PROVE Holds(h, s)
    <3>1. CASE s = {}
      <4>1. Cardinality(s) <= k
        BY <3>1, FS_EmptySet
      <4> QED
        BY <2>1, <3>1, <4>1
    <3>2. CASE s # {}
      <4>1. Cardinality(s \ {AnyOf(s)}) <= k /\ s \ {AnyOf(s)} \in SUBSET S
        BY <1>1, <1>2, <2>2, <3>2
      <4>2. h[s \ {AnyOf(s)}] = g[s \ {AnyOf(s)}]
        BY <4>1
      <4>3. h[s] = fun[AnyOf(s)] + g[s \ {AnyOf(s)}]
        BY <2>1, <3>2
      <4> QED
        BY <3>2, <4>2, <4>3
    <3> QED
      BY <3>1, <3>2
  <2> HIDE DEF h
  <2>3. k + 1 \in Nat /\ \A s \in SUBSET S : Cardinality(s) <= k + 1 => Holds(h, s)
    BY <2>2
  <2> QED
    BY <2>3
<1> HIDE DEF G
<1>5. Nat \subseteq G
  BY <1>3, <1>4, SetInduction
<1>6. PICK g : \A s \in SUBSET S : Cardinality(s) <= Cardinality(S) => Holds(g, s)
  <2>1. Cardinality(S) \in G
    BY <1>1, <1>5
  <2> QED
    BY <2>1 DEF G
<1>7. \A s \in SUBSET S : Cardinality(s) <= Cardinality(S)
  BY FS_Subset
<1> DEFINE sum == [s \in SUBSET S |-> g[s]]
<1>8. \A s \in SUBSET S :
        sum[s] = IF s = {} THEN 0 ELSE fun[AnyOf(s)] + sum[s \ {AnyOf(s)}]
  BY <1>2, <1>6, <1>7
<1>9. sum = [s \in SUBSET S |-> sum[s]]
  OBVIOUS
<1> HIDE DEF sum
<1> QED
  BY <1>8, <1>9 DEF Sums

\* A part of the set has the same sum wherever it is a part of.
LEMMA SumsAgree ==
  ASSUME NEW fun, NEW S, IsFiniteSet(S), NEW T \in SUBSET S, NEW sum, NEW part,
         Sums(sum, fun, S), Sums(part, fun, T)
  PROVE  \A s \in SUBSET T : sum[s] = part[s]
<1> DEFINE G == {k \in Nat : \A s \in SUBSET T : Cardinality(s) = k => sum[s] = part[s]}
<1>1. \A s \in SUBSET T : IsFiniteSet(s) /\ Cardinality(s) \in Nat /\ s \in SUBSET S
  BY FS_Subset, FS_CardinalityType
<1>2. 0 \in G
  <2> SUFFICES ASSUME NEW s \in SUBSET T, Cardinality(s) = 0 PROVE sum[s] = part[s]
    OBVIOUS
  <2>1. s = {} /\ s \in SUBSET S
    BY <1>1, FS_EmptySet
  <2> QED
    BY <2>1 DEF Sums
<1>3. ASSUME NEW k \in Nat, k \in G PROVE k + 1 \in G
  <2> SUFFICES ASSUME NEW s \in SUBSET T, Cardinality(s) = k + 1 PROVE sum[s] = part[s]
    OBVIOUS
  <2>1. s # {}
    BY FS_EmptySet
  <2>2. AnyOf(s) \in s
    BY <2>1 DEF AnyOf
  <2>3. Cardinality(s \ {AnyOf(s)}) = k /\ s \ {AnyOf(s)} \in SUBSET T
    BY <1>1, <2>2, Smaller
  <2>4. sum[s \ {AnyOf(s)}] = part[s \ {AnyOf(s)}]
    BY <1>3, <2>3
  <2>5. sum[s] = fun[AnyOf(s)] + sum[s \ {AnyOf(s)}]
    BY <1>1, <2>1 DEF Sums
  <2>6. part[s] = fun[AnyOf(s)] + part[s \ {AnyOf(s)}]
    BY <2>1 DEF Sums
  <2> QED
    BY <2>4, <2>5, <2>6
<1> HIDE DEF G
<1>4. Nat \subseteq G
  BY <1>2, <1>3, SetInduction
<1> QED
  BY <1>1, <1>4 DEF G

\* A sum is an element's value and the sum without that element.
LEMMA SumChosen ==
  ASSUME NEW fun, NEW S, IsFiniteSet(S)
  PROVE  /\ S = {} => Sum(fun, S) = 0
         /\ S # {} => Sum(fun, S) = fun[AnyOf(S)] + Sum(fun, S \ {AnyOf(S)})
<1> DEFINE T == S \ {AnyOf(S)}
           sum == CHOOSE i : Sums(i, fun, S)
           part == CHOOSE i : Sums(i, fun, T)
<1>1. IsFiniteSet(T) /\ T \in SUBSET S
  BY FS_Subset
<1>2. Sums(sum, fun, S)
  BY SumsExist
<1>3. Sums(part, fun, T)
  BY <1>1, SumsExist
<1>4. Sum(fun, S) = sum[S]
  BY DEF Sum, SumFunctionOnSet, FoldFunctionOnSet, MapThenFoldSet, Sums, AnyOf
<1>5. Sum(fun, T) = part[T]
  BY DEF Sum, SumFunctionOnSet, FoldFunctionOnSet, MapThenFoldSet, Sums, AnyOf
<1> HIDE DEF sum, part, T
<1>6. sum[T] = part[T]
  <2>1. \A s \in SUBSET T : sum[s] = part[s]
    BY <1>1, <1>2, <1>3, SumsAgree
  <2> QED
    BY <2>1
<1>7. sum[S] = IF S = {} THEN 0 ELSE fun[AnyOf(S)] + sum[T]
  BY <1>2 DEF Sums, T
<1> QED
  BY <1>4, <1>5, <1>6, <1>7 DEF T

\* A sum is any element's value and the sum of the others.
THEOREM SumRemove ==
  ASSUME NEW S, IsFiniteSet(S), NEW fun, \A x \in S : fun[x] \in Nat
  PROVE  /\ Sum(fun, S) \in Nat
         /\ \A x \in S : Sum(fun, S) = fun[x] + Sum(fun, S \ {x})
<1> DEFINE Holds(s) == /\ Sum(fun, s) \in Nat
                       /\ \A x \in s : Sum(fun, s) = fun[x] + Sum(fun, s \ {x})
           G == {k \in Nat : \A s \in SUBSET S : Cardinality(s) <= k => Holds(s)}
<1>1. \A s \in SUBSET S : IsFiniteSet(s) /\ Cardinality(s) \in Nat
  BY FS_Subset, FS_CardinalityType
<1>2. 0 \in G
  <2> SUFFICES ASSUME NEW s \in SUBSET S, Cardinality(s) <= 0 PROVE Holds(s)
    OBVIOUS
  <2>1. s = {} /\ IsFiniteSet(s)
    BY <1>1, FS_EmptySet
  <2>2. Sum(fun, s) = 0
    BY <2>1, SumChosen
  <2> QED
    BY <2>1, <2>2
<1>3. ASSUME NEW k \in Nat, k \in G PROVE k + 1 \in G
  <2> SUFFICES ASSUME NEW s \in SUBSET S, Cardinality(s) = k + 1 PROVE Holds(s)
    BY <1>1, <1>3
  <2> DEFINE c == AnyOf(s)
  <2>1. s # {} /\ IsFiniteSet(s)
    BY <1>1, FS_EmptySet
  <2>2. c \in s
    BY <2>1 DEF AnyOf
  <2>3. Sum(fun, s) = fun[c] + Sum(fun, s \ {c})
    BY <2>1, SumChosen
  <2> HIDE DEF c
  <2>4. \A x \in s : Cardinality(s \ {x}) = k /\ s \ {x} \in SUBSET S
    <3> TAKE x \in s
    <3>1. Cardinality(s \ {x}) \in Nat /\ Cardinality(s \ {x}) + 1 = Cardinality(s)
      BY <2>1, Smaller
    <3> QED
      BY <3>1
  <2>5. \A x \in s : Holds(s \ {x})
    BY <1>3, <2>4
  <2>6. \A x \in s : fun[x] \in Nat
    OBVIOUS
  <2>7. \A x \in s : Sum(fun, s \ {x}) \in Nat
    BY <2>5
  <2>8. Sum(fun, s) \in Nat
    BY <2>2, <2>3, <2>6, <2>7
  <2>9. ASSUME NEW x \in s PROVE Sum(fun, s) = fun[x] + Sum(fun, s \ {x})
    <3>1. CASE x = c
      BY <2>3, <3>1
    <3>2. CASE x # c
      <4> DEFINE rest == (s \ {c}) \ {x}
      <4>1. rest = (s \ {x}) \ {c} /\ c \in s \ {x} /\ x \in s \ {c}
        BY <2>2, <3>2
      <4>2. Sum(fun, s \ {c}) = fun[x] + Sum(fun, rest)
        BY <2>2, <2>5, <4>1
      <4>3. Sum(fun, s \ {x}) = fun[c] + Sum(fun, rest)
        BY <2>5, <4>1
      <4>4. rest \in SUBSET S /\ Cardinality(rest) <= k
        <5>1. Cardinality(rest) + 1 = Cardinality(s \ {c}) /\ Cardinality(rest) \in Nat
          BY <1>1, <2>2, <2>4, <4>1, Smaller
        <5> QED
          BY <2>2, <2>4, <5>1
      <4>5. Sum(fun, rest) \in Nat
        BY <1>3, <4>4
      <4> HIDE DEF rest
      <4>6. /\ fun[x] \in Nat /\ fun[c] \in Nat
            /\ Sum(fun, s \ {c}) \in Nat /\ Sum(fun, s \ {x}) \in Nat
        BY <2>2, <2>6, <2>7
      <4> QED
        BY <2>3, <4>2, <4>3, <4>5, <4>6
    <3> QED
      BY <3>1, <3>2
  <2> QED
    BY <2>8, <2>9
<1> HIDE DEF G
<1>4. Nat \subseteq G
  BY <1>2, <1>3, SetInduction
<1> QED
  BY <1>1, <1>4 DEF G

\* The values a function has on a finite set are as many as the set has elements, or fewer.
THEOREM ImageFinite ==
  ASSUME NEW S, IsFiniteSet(S), NEW fun
  PROVE  /\ IsFiniteSet({fun[x] : x \in S})
         /\ Cardinality({fun[x] : x \in S}) <= Cardinality(S)
         /\ (\A x, y \in S : fun[x] = fun[y] => x = y)
              => Cardinality({fun[x] : x \in S}) = Cardinality(S)
<1> DEFINE T == {fun[x] : x \in S}
           map == [x \in S |-> fun[x]]
<1>1. map \in Surjection(S, T)
  BY DEF Surjection
<1>2. (\A x, y \in S : fun[x] = fun[y] => x = y) => map \in Injection(S, T)
  BY DEF Injection, IsInjective
<1> HIDE DEF map
<1> QED
  BY <1>1, <1>2, FS_Surjection

\* The sum of as many values, one for each element, is the sum of those values: sums over
\* two sets with a one to one correspondence.
THEOREM SumMap ==
  ASSUME NEW S, IsFiniteSet(S), NEW fun, NEW T, NEW gun, NEW to,
         \A x \in S : fun[x] \in Nat /\ to[x] \in T /\ gun[to[x]] = fun[x],
         \A x, y \in S : to[x] = to[y] => x = y,
         \A z \in T : \E x \in S : to[x] = z
  PROVE  Sum(gun, T) = Sum(fun, S)
<1> DEFINE To(s) == {to[x] : x \in s}
           G == {k \in Nat : \A s \in SUBSET S : Cardinality(s) = k =>
                                                  Sum(gun, To(s)) = Sum(fun, s)}
<1>1. \A s \in SUBSET S : IsFiniteSet(s) /\ Cardinality(s) \in Nat
  BY FS_Subset, FS_CardinalityType
<1>2. \A s \in SUBSET S : IsFiniteSet(To(s))
  BY <1>1, ImageFinite
<1>3. 0 \in G
  <2> SUFFICES ASSUME NEW s \in SUBSET S, Cardinality(s) = 0
               PROVE  Sum(gun, To(s)) = Sum(fun, s)
    OBVIOUS
  <2>1. s = {} /\ To(s) = {} /\ IsFiniteSet({})
    BY <1>1, FS_EmptySet
  <2>2. Sum(fun, {}) = 0 /\ Sum(gun, {}) = 0
    BY <2>1, SumChosen
  <2> QED
    BY <2>1, <2>2
<1>4. ASSUME NEW k \in Nat, k \in G PROVE k + 1 \in G
  <2> SUFFICES ASSUME NEW s \in SUBSET S, Cardinality(s) = k + 1
               PROVE  Sum(gun, To(s)) = Sum(fun, s)
    OBVIOUS
  <2>1. s # {}
    BY FS_EmptySet
  <2> PICK x \in s : TRUE
    BY <2>1
  <2>2. Cardinality(s \ {x}) = k /\ s \ {x} \in SUBSET S
    <3>1. Cardinality(s \ {x}) \in Nat /\ Cardinality(s \ {x}) + 1 = Cardinality(s)
      BY <1>1, Smaller
    <3> QED
      BY <3>1
  <2>3. Sum(gun, To(s \ {x})) = Sum(fun, s \ {x})
    BY <1>4, <2>2
  <2>4. To(s \ {x}) = To(s) \ {to[x]} /\ to[x] \in To(s)
    <3>1. \A y \in s : y # x => to[y] # to[x]
      OBVIOUS
    <3> QED
      BY <3>1
  <2>5. Sum(fun, s) = fun[x] + Sum(fun, s \ {x})
    BY <1>1, SumRemove
  <2>6. Sum(gun, To(s)) = gun[to[x]] + Sum(gun, To(s) \ {to[x]})
    <3>1. IsFiniteSet(To(s))
      BY <1>2
    <3>2. \A z \in To(s) : gun[z] \in Nat
      OBVIOUS
    <3> HIDE DEF To
    <3> QED
      BY <2>4, <3>1, <3>2, SumRemove
  <2>7. gun[to[x]] = fun[x]
    OBVIOUS
  <2> HIDE DEF To
  <2> QED
    BY <2>3, <2>4, <2>5, <2>6, <2>7
<1>5. To(S) = T
  OBVIOUS
<1> HIDE DEF G, To
<1>6. Nat \subseteq G
  BY <1>3, <1>4, SetInduction
<1>7. Cardinality(S) \in G
  BY <1>1, <1>6
<1> QED
  BY <1>5, <1>7 DEF G

\* A sum depends on the values only.
THEOREM SumSame ==
  ASSUME NEW S, IsFiniteSet(S), NEW fun, NEW gun,
         \A x \in S : fun[x] \in Nat /\ gun[x] = fun[x]
  PROVE  Sum(gun, S) = Sum(fun, S)
<1> DEFINE to == [x \in S |-> x]
<1>1. /\ \A x \in S : fun[x] \in Nat /\ to[x] \in S /\ gun[to[x]] = fun[x]
      /\ \A x, y \in S : to[x] = to[y] => x = y
      /\ \A z \in S : \E x \in S : to[x] = z
  OBVIOUS
<1> HIDE DEF to
<1> QED
  BY <1>1, SumMap

\* One more element.
THEOREM SumAdd ==
  ASSUME NEW S, IsFiniteSet(S), NEW fun, NEW gun, NEW x, x \notin S, gun[x] \in Nat,
         \A y \in S : fun[y] \in Nat /\ gun[y] = fun[y]
  PROVE  Sum(gun, S \cup {x}) = Sum(fun, S) + gun[x]
<1>1. IsFiniteSet(S \cup {x})
  BY FS_AddElement
<1>2. \A y \in S \cup {x} : gun[y] \in Nat
  OBVIOUS
<1>3. (S \cup {x}) \ {x} = S /\ x \in S \cup {x}
  OBVIOUS
<1>4. Sum(gun, S \cup {x}) = gun[x] + Sum(gun, S)
  BY <1>1, <1>2, <1>3, SumRemove
<1>5. Sum(gun, S) = Sum(fun, S) /\ Sum(fun, S) \in Nat
  BY SumSame, SumRemove
<1> QED
  BY <1>4, <1>5

\* One other value.
THEOREM SumChange ==
  ASSUME NEW S, IsFiniteSet(S), NEW fun, NEW gun, NEW x \in S, gun[x] \in Nat,
         \A y \in S : fun[y] \in Nat /\ (y # x => gun[y] = fun[y])
  PROVE  /\ Sum(gun, S) + fun[x] = Sum(fun, S) + gun[x]
         /\ Sum(gun, S) \in Nat /\ Sum(fun, S) \in Nat
<1>1. IsFiniteSet(S \ {x})
  BY FS_RemoveElement
<1>2. Sum(fun, S) = fun[x] + Sum(fun, S \ {x}) /\ Sum(fun, S) \in Nat
  BY SumRemove
<1>3. \A y \in S : gun[y] \in Nat
  OBVIOUS
<1>4. Sum(gun, S) = gun[x] + Sum(gun, S \ {x}) /\ Sum(gun, S) \in Nat
  BY <1>3, SumRemove
<1>5. \A y \in S \ {x} : fun[y] \in Nat /\ gun[y] = fun[y]
  OBVIOUS
<1>6. Sum(gun, S \ {x}) = Sum(fun, S \ {x}) /\ Sum(fun, S \ {x}) \in Nat
  BY <1>1, <1>5, SumSame, SumRemove
<1> QED
  BY <1>2, <1>4, <1>6

\* The sum of a sequence that is appended to.
THEOREM SumAppend ==
  ASSUME NEW n \in Nat, NEW fun, NEW gun, DOMAIN fun = 1..n, DOMAIN gun = 1..(n + 1),
         gun[n + 1] \in Nat, \A i \in 1..n : fun[i] \in Nat /\ gun[i] = fun[i]
  PROVE  /\ SumFunction(gun) = SumFunction(fun) + gun[n + 1]
         /\ SumFunction(fun) \in Nat
<1>1. 1..(n + 1) = (1..n) \cup {n + 1} /\ n + 1 \notin 1..n
  OBVIOUS
<1>2. IsFiniteSet(1..n)
  BY FS_Interval
<1>3. Sum(gun, (1..n) \cup {n + 1}) = Sum(fun, 1..n) + gun[n + 1]
  BY <1>1, <1>2, SumAdd
<1>4. Sum(fun, 1..n) \in Nat
  BY <1>2, SumRemove
<1> QED
  BY <1>1, <1>3, <1>4 DEF Sum, SumFunction

\* Nothing to sum.
THEOREM SumNothing == \A fun : DOMAIN fun = {} => SumFunction(fun) = 0
<1> TAKE fun
<1>1. Sum(fun, {}) = 0
  BY FS_EmptySet, SumChosen
<1> QED
  BY <1>1 DEF Sum, SumFunction

\* The sum of two values each; each counted once.
THEOREM SumPlus ==
  ASSUME NEW S, IsFiniteSet(S), NEW fun, NEW gun, NEW both,
         \A x \in S : fun[x] \in Nat /\ gun[x] \in Nat /\ both[x] = fun[x] + gun[x]
  PROVE  Sum(both, S) = Sum(fun, S) + Sum(gun, S)
<1> DEFINE G == {k \in Nat : \A s \in SUBSET S : Cardinality(s) = k =>
                                       Sum(both, s) = Sum(fun, s) + Sum(gun, s)}
<1>1. \A s \in SUBSET S : IsFiniteSet(s) /\ Cardinality(s) \in Nat
  BY FS_Subset, FS_CardinalityType
<1>2. 0 \in G
  <2> SUFFICES ASSUME NEW s \in SUBSET S, Cardinality(s) = 0
               PROVE  Sum(both, s) = Sum(fun, s) + Sum(gun, s)
    OBVIOUS
  <2>1. s = {} /\ IsFiniteSet(s)
    BY <1>1, FS_EmptySet
  <2>2. Sum(fun, s) = 0 /\ Sum(gun, s) = 0 /\ Sum(both, s) = 0
    BY <2>1, SumChosen
  <2> QED
    BY <2>2
<1>3. ASSUME NEW k \in Nat, k \in G PROVE k + 1 \in G
  <2> SUFFICES ASSUME NEW s \in SUBSET S, Cardinality(s) = k + 1
               PROVE  Sum(both, s) = Sum(fun, s) + Sum(gun, s)
    OBVIOUS
  <2>1. s # {} /\ IsFiniteSet(s)
    BY <1>1, FS_EmptySet
  <2> PICK x \in s : TRUE
    BY <2>1
  <2> DEFINE r == s \ {x}
  <2>2. Cardinality(r) = k /\ r \in SUBSET S /\ IsFiniteSet(r)
    <3>1. Cardinality(r) \in Nat /\ Cardinality(r) + 1 = Cardinality(s) /\ IsFiniteSet(r)
      BY <2>1, Smaller
    <3> QED
      BY <3>1
  <2>3. \A y \in s : fun[y] \in Nat /\ gun[y] \in Nat /\ both[y] \in Nat
    OBVIOUS
  <2>4. Sum(fun, s) = fun[x] + Sum(fun, r) /\ Sum(fun, r) \in Nat
    BY <2>1, <2>2, <2>3, SumRemove
  <2>5. Sum(gun, s) = gun[x] + Sum(gun, r) /\ Sum(gun, r) \in Nat
    BY <2>1, <2>2, <2>3, SumRemove
  <2>6. Sum(both, s) = both[x] + Sum(both, r)
    BY <2>1, <2>2, <2>3, SumRemove
  <2> HIDE DEF r
  <2>7. Sum(both, r) = Sum(fun, r) + Sum(gun, r)
    BY <1>3, <2>2
  <2> QED
    BY <2>3, <2>4, <2>5, <2>6, <2>7
<1> HIDE DEF G
<1>4. Nat \subseteq G
  BY <1>2, <1>3, SetInduction
<1> QED
  BY <1>1, <1>4 DEF G

\* As many ones as there are.
THEOREM SumOfOnes ==
  ASSUME NEW n \in Nat, NEW fun, \A i \in 1..n : fun[i] = 1
  PROVE  Sum(fun, 1..n) = n
<1> DEFINE G == {k \in Nat : k <= n => Sum(fun, 1..k) = k}
<1>1. 0 \in G
  <2>1. 1..0 = {} /\ IsFiniteSet({})
    BY FS_EmptySet
  <2>2. Sum(fun, {}) = 0
    BY <2>1, SumChosen
  <2> QED
    BY <2>1, <2>2
<1>2. ASSUME NEW k \in Nat, k \in G PROVE k + 1 \in G
  <2> SUFFICES ASSUME k + 1 <= n PROVE Sum(fun, 1..(k + 1)) = k + 1
    OBVIOUS
  <2>1. /\ 1..(k + 1) = (1..k) \cup {k + 1} /\ k + 1 \notin 1..k
        /\ \A i \in 1..k : i \in 1..n
        /\ k + 1 \in 1..n
    OBVIOUS
  <2> HIDE DEF G
  <2>5. fun[k + 1] = 1 /\ fun[k + 1] \in Nat /\ \A i \in 1..k : fun[i] \in Nat
    BY <2>1
  <2>2. IsFiniteSet(1..k)
    BY FS_Interval
  <2>3. Sum(fun, (1..k) \cup {k + 1}) = Sum(fun, 1..k) + fun[k + 1]
    <3> DEFINE T == 1..k
               x == k + 1
    <3>1. IsFiniteSet(T) /\ x \notin T /\ fun[x] \in Nat /\ \A y \in T : fun[y] \in Nat
      BY <2>1, <2>2, <2>5
    <3> HIDE DEF T, x
    <3>2. Sum(fun, T \cup {x}) = Sum(fun, T) + fun[x]
      BY <3>1, SumAdd
    <3> QED
      BY <3>2 DEF T, x
  <2>4. Sum(fun, 1..k) = k
    BY <1>2 DEF G
  <2> QED
    BY <2>1, <2>3, <2>4, <2>5
<1> HIDE DEF G
<1>3. Nat \subseteq G
  BY <1>1, <1>2, SetInduction
<1> QED
  BY <1>3 DEF G
=============================================================================
