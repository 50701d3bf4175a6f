----------------------------- MODULE SumTheorems -----------------------------
(***************************************************************************)
(* Sums of functions over finite sets, for the proofs about stock, credits *)
(* and payouts.                                                            *)
(*                                                                         *)
(* A sum is defined by recursion over the subsets of its set.  That it is  *)
(* defined at all, and does not depend on the order in which elements are  *)
(* taken, is proved by induction in the form SetInduction, which is about  *)
(* a set of sets: a set without a smallest counterexample has none.        *)
(***************************************************************************)
EXTENDS FiniteSetTheorems, TLAPS

\* A collection of subsets that contains a set whenever it contains all that
\* have one element less contains every subset of a finite set.
LEMMA SetInduction ==
  ASSUME NEW S, IsFiniteSet(S), NEW G,
         \A T \in SUBSET S : (\A x \in T : T \ {x} \in G) => T \in G
  PROVE  SUBSET S \subseteq G
<1> DEFINE R == StrictSubsetOrdering(S)
           B == {T \in SUBSET S : T \notin G}
<1>1. SUFFICES ASSUME B # {} PROVE FALSE
  OBVIOUS
<1>2. IsWellFoundedOn(R, SUBSET S)
  BY FS_StrictSubsetOrderingWellFounded, FS_FiniteSubsetsOfFinite
<1>3. B \subseteq SUBSET S
  OBVIOUS
<1> HIDE DEF R
<1>4. PICK T \in B : \A U \in B : <<U, T>> \notin R
  BY <1>1, <1>2, <1>3, WFMin
<1>5. PICK x \in T : T \ {x} \notin G
  BY <1>4
<1>6. T \ {x} \in B /\ <<T \ {x}, T>> \in R
  BY <1>4, <1>5 DEF R, StrictSubsetOrdering
<1> QED BY <1>4, <1>6

-----------------------------------------------------------------------------
(* A sum that takes its elements in any order.                               *)

Sums(f, S) ==
    {g \in [SUBSET S -> Int] :
        /\ g[{}] = 0
        /\ \A T \in SUBSET S : \A x \in T : g[T] = f[x] + g[T \ {x}]}

\* There is one, from the sums over the sets with an element less.
LEMMA SumsExist ==
  ASSUME NEW S, IsFiniteSet(S), NEW f, \A x \in S : f[x] \in Int
  PROVE  Sums(f, S) # {}
<1> DEFINE G == {T \in SUBSET S : Sums(f, T) # {}}
<1>1. ASSUME NEW T \in SUBSET S, \A x \in T : T \ {x} \in G
      PROVE  T \in G
  <2>1. CASE T = {}
    <3>1. [U \in SUBSET T |-> 0] \in Sums(f, T)
      BY <2>1 DEF Sums
    <3> QED BY <3>1
  <2>2. CASE T # {}
    <3>1. PICK x \in T : TRUE
      BY <2>2
    <3>2. PICK g : g \in Sums(f, T \ {x})
      BY <1>1, <3>1
    <3> DEFINE h == [U \in SUBSET T |-> IF x \in U THEN f[x] + g[U \ {x}] ELSE g[U]]
    <3>3. f[x] \in Int /\ g \in [SUBSET (T \ {x}) -> Int] /\ g[{}] = 0
      BY <3>2 DEF Sums
    <3>4. h \in [SUBSET T -> Int]
      BY <3>3
    <3>5. h[{}] = 0
      BY <3>3
    <3>6. ASSUME NEW U \in SUBSET T, NEW y \in U PROVE h[U] = f[y] + h[U \ {y}]
      <4>1. f[y] \in Int
        OBVIOUS
      <4>2. CASE x \notin U
        <5>1. U \in SUBSET (T \ {x}) /\ g[U] = f[y] + g[U \ {y}]
          BY <3>2, <4>2 DEF Sums
        <5> QED BY <4>2, <5>1
      <4>3. CASE x \in U /\ y = x
        BY <4>3
      <4>4. CASE x \in U /\ y # x
        <5>1. U \ {x} \in SUBSET (T \ {x}) /\ y \in U \ {x}
          BY <4>4
        <5>2. g[U \ {x}] = f[y] + g[(U \ {x}) \ {y}]
          BY <3>2, <5>1 DEF Sums
        <5>3. (U \ {x}) \ {y} = (U \ {y}) \ {x} /\ (U \ {y}) \ {x} \in SUBSET (T \ {x})
          OBVIOUS
        <5>4. g[(U \ {y}) \ {x}] \in Int
          BY <3>3, <5>3
        <5>5. h[U] = f[x] + g[U \ {x}] /\ h[U \ {y}] = f[x] + g[(U \ {y}) \ {x}]
          BY <4>4
        <5> DEFINE rest == g[(U \ {y}) \ {x}]
        <5>6. h[U] = f[x] + (f[y] + rest) /\ h[U \ {y}] = f[x] + rest /\ rest \in Int
          BY <5>2, <5>3, <5>4, <5>5
        <5> HIDE DEF h, rest
        <5> QED BY <3>3, <4>1, <5>6
      <4> QED BY <4>2, <4>3, <4>4
    <3>7. h \in Sums(f, T)
      <4> HIDE DEF h
      <4> QED BY <3>4, <3>5, <3>6 DEF Sums
    <3> QED BY <3>7
  <2> QED BY <2>1, <2>2
<1>2. SUBSET S \subseteq G
  <2> HIDE DEF G
  <2> QED BY <1>1, SetInduction
<1> QED BY <1>2

\* The recursion over the subsets that the library's sum is taken from.
Recursion(f, S, g) ==
    g = [s \in SUBSET S |-> IF s = {} THEN 0
                            ELSE f[CHOOSE x \in s : TRUE] + g[s \ {CHOOSE x \in s : TRUE}]]

LEMMA SumIsRecursion ==
  ASSUME NEW S, NEW f
  PROVE  SumFunctionOnSet(f, S) = (CHOOSE g : Recursion(f, S, g))[S]
BY Zenon DEF SumFunctionOnSet, FoldFunctionOnSet, MapThenFoldSet, Recursion

\* Every sum in any order satisfies the recursion, and nothing else does.
LEMMA RecursionIsSum ==
  ASSUME NEW S, IsFiniteSet(S), NEW f, \A x \in S : f[x] \in Int,
         NEW g, Recursion(f, S, g), NEW h \in Sums(f, S)
  PROVE  \A T \in SUBSET S : g[T] = h[T]
<1> DEFINE G == {T \in SUBSET S : g[T] = h[T]}
<1>1. ASSUME NEW T \in SUBSET S, \A x \in T : T \ {x} \in G
      PROVE  T \in G
  <2> DEFINE x == CHOOSE x \in T : TRUE
  <2>1. g[T] = IF T = {} THEN 0 ELSE f[x] + g[T \ {x}]
    BY DEF Recursion
  <2>2. CASE T = {}
    BY <2>1, <2>2 DEF Sums
  <2>3. CASE T # {}
    <3>1. x \in T
      BY <2>3
    <3> HIDE DEF x
    <3>2. g[T \ {x}] = h[T \ {x}] /\ h[T] = f[x] + h[T \ {x}]
      BY <1>1, <3>1 DEF Sums
    <3> QED BY <2>1, <2>3, <3>2
  <2> QED BY <2>2, <2>3
<1> HIDE DEF G
<1>2. SUBSET S \subseteq G
  BY <1>1, SetInduction
<1> QED BY <1>2 DEF G

LEMMA SumSatisfiesRecursion ==
  ASSUME NEW S, NEW f, NEW h \in Sums(f, S)
  PROVE  Recursion(f, S, h)
<1>1. ASSUME NEW s \in SUBSET S
      PROVE  h[s] = IF s = {} THEN 0
                    ELSE f[CHOOSE x \in s : TRUE] + h[s \ {CHOOSE x \in s : TRUE}]
  <2>1. s # {} => (CHOOSE x \in s : TRUE) \in s
    OBVIOUS
  <2> QED BY <2>1 DEF Sums
<1>2. h \in [SUBSET S -> Int]
  BY DEF Sums
<1> QED BY <1>1, <1>2 DEF Recursion

\* The library's sum is the sum in any order, of every subset.
LEMMA SumIsAnyOrder ==
  ASSUME NEW S, IsFiniteSet(S), NEW f, \A x \in S : f[x] \in Int
  PROVE  \E h \in Sums(f, S) : \A T \in SUBSET S : SumFunctionOnSet(f, T) = h[T]
<1>1. PICK h : h \in Sums(f, S)
  BY SumsExist
<1>2. ASSUME NEW T \in SUBSET S PROVE SumFunctionOnSet(f, T) = h[T]
  <2> DEFINE k == [U \in SUBSET T |-> h[U]]
  <2>1. k \in Sums(f, T)
    <3>1. h \in [SUBSET S -> Int] /\ h[{}] = 0
      BY <1>1 DEF Sums
    <3>2. k \in [SUBSET T -> Int] /\ k[{}] = 0
      BY <3>1
    <3>3. ASSUME NEW U \in SUBSET T, NEW x \in U PROVE k[U] = f[x] + k[U \ {x}]
      BY <1>1 DEF Sums
    <3> QED BY <3>2, <3>3 DEF Sums
  <2> HIDE DEF k
  <2>2. Recursion(f, T, k)
    BY <2>1, SumSatisfiesRecursion
  <2> DEFINE g == CHOOSE g : Recursion(f, T, g)
  <2>3. Recursion(f, T, g)
    BY <2>2
  <2>4. SumFunctionOnSet(f, T) = g[T]
    BY SumIsRecursion
  <2> HIDE DEF g
  <2>5. IsFiniteSet(T) /\ \A x \in T : f[x] \in Int
    BY FS_Subset
  <2>6. g[T] = k[T]
    BY <2>1, <2>3, <2>5, RecursionIsSum
  <2> QED BY <2>4, <2>6 DEF k
<1> QED BY <1>1, <1>2

-----------------------------------------------------------------------------
(* What the proofs use.                                                      *)

LEMMA SumEmpty == \A f : SumFunctionOnSet(f, {}) = 0
<1> TAKE f
<1>1. PICK h \in Sums(f, {}) : SumFunctionOnSet(f, {}) = h[{}]
  BY SumIsAnyOrder, FS_EmptySet
<1> QED BY <1>1 DEF Sums

LEMMA SumIsInteger ==
  ASSUME NEW S, IsFiniteSet(S), NEW f, \A x \in S : f[x] \in Int
  PROVE  SumFunctionOnSet(f, S) \in Int
<1>1. PICK h \in Sums(f, S) : SumFunctionOnSet(f, S) = h[S]
  BY SumIsAnyOrder
<1> QED BY <1>1 DEF Sums

LEMMA SumTakes ==
  ASSUME NEW S, IsFiniteSet(S), NEW f, \A x \in S : f[x] \in Int, NEW x \in S
  PROVE  SumFunctionOnSet(f, S) = f[x] + SumFunctionOnSet(f, S \ {x})
<1>1. PICK h \in Sums(f, S) : \A T \in SUBSET S : SumFunctionOnSet(f, T) = h[T]
  BY SumIsAnyOrder
<1> QED BY <1>1 DEF Sums

LEMMA SumAdds ==
  ASSUME NEW S, IsFiniteSet(S), NEW x, x \notin S, NEW f, \A y \in S \cup {x} : f[y] \in Int
  PROVE  SumFunctionOnSet(f, S \cup {x}) = f[x] + SumFunctionOnSet(f, S)
<1>1. IsFiniteSet(S \cup {x}) /\ (S \cup {x}) \ {x} = S
  BY FS_AddElement
<1> QED BY <1>1, SumTakes

\* A sum depends on the values over its set only.
LEMMA SumAgrees ==
  ASSUME NEW S, IsFiniteSet(S), NEW f, NEW g, \A x \in S : f[x] \in Int /\ g[x] = f[x]
  PROVE  SumFunctionOnSet(g, S) = SumFunctionOnSet(f, S)
<1> DEFINE G == {T \in SUBSET S : SumFunctionOnSet(g, T) = SumFunctionOnSet(f, T)}
<1>1. ASSUME NEW T \in SUBSET S, \A x \in T : T \ {x} \in G PROVE T \in G
  <2>1. IsFiniteSet(T)
    BY FS_Subset
  <2>2. CASE T = {}
    BY <2>2, SumEmpty
  <2>3. ASSUME NEW x \in T PROVE T \in G
    <3>1. SumFunctionOnSet(f, T) = f[x] + SumFunctionOnSet(f, T \ {x})
      BY <2>1, SumTakes
    <3>2. SumFunctionOnSet(g, T) = g[x] + SumFunctionOnSet(g, T \ {x})
      BY <2>1, SumTakes
    <3> QED BY <1>1, <3>1, <3>2
  <2> QED BY <2>2, <2>3
<1> HIDE DEF G
<1>2. SUBSET S \subseteq G
  BY <1>1, SetInduction
<1> QED BY <1>2 DEF G

\* A sum over one more element, of functions that agree on the others.
LEMMA SumOfOneMore ==
  ASSUME NEW S, IsFiniteSet(S), NEW x, x \notin S, NEW f, NEW g,
         \A y \in S : f[y] \in Int /\ g[y] = f[y], g[x] \in Int
  PROVE  SumFunctionOnSet(g, S \cup {x}) = SumFunctionOnSet(f, S) + g[x]
<1>1. SumFunctionOnSet(g, S \cup {x}) = g[x] + SumFunctionOnSet(g, S)
  BY SumAdds
<1>2. SumFunctionOnSet(g, S) = SumFunctionOnSet(f, S) /\ SumFunctionOnSet(f, S) \in Int
  BY SumAgrees, SumIsInteger
<1> QED BY <1>1, <1>2

\* If one value changes, the sum changes by as much.
LEMMA SumChanges ==
  ASSUME NEW S, IsFiniteSet(S), NEW f, NEW g, NEW x \in S,
         \A y \in S : f[y] \in Int /\ g[y] \in Int, \A y \in S \ {x} : g[y] = f[y]
  PROVE  SumFunctionOnSet(g, S) = SumFunctionOnSet(f, S) - f[x] + g[x]
<1>1. SumFunctionOnSet(f, S) = f[x] + SumFunctionOnSet(f, S \ {x})
  BY SumTakes
<1>2. SumFunctionOnSet(g, S) = g[x] + SumFunctionOnSet(g, S \ {x})
  BY SumTakes
<1>3. IsFiniteSet(S \ {x})
  BY FS_Subset
<1>4. SumFunctionOnSet(g, S \ {x}) = SumFunctionOnSet(f, S \ {x})
  BY <1>3, SumAgrees
<1>5. SumFunctionOnSet(f, S \ {x}) \in Int
  BY <1>3, SumIsInteger
<1> QED BY <1>1, <1>2, <1>4, <1>5

\* Nothing adds up to nothing.
LEMMA SumZero ==
  ASSUME NEW S, IsFiniteSet(S), NEW f, \A x \in S : f[x] = 0
  PROVE  SumFunctionOnSet(f, S) = 0
<1> DEFINE G == {T \in SUBSET S : SumFunctionOnSet(f, T) = 0}
<1>1. ASSUME NEW T \in SUBSET S, \A x \in T : T \ {x} \in G PROVE T \in G
  <2>1. IsFiniteSet(T)
    BY FS_Subset
  <2>2. CASE T = {}
    BY <2>2, SumEmpty
  <2>3. ASSUME NEW x \in T PROVE T \in G
    <3>1. SumFunctionOnSet(f, T) = f[x] + SumFunctionOnSet(f, T \ {x})
      BY <2>1, SumTakes
    <3> QED BY <1>1, <3>1
  <2> QED BY <2>2, <2>3
<1> HIDE DEF G
<1>2. SUBSET S \subseteq G
  BY <1>1, SetInduction
<1> QED BY <1>2 DEF G

\* A sum of natural numbers is one, and no less than each of them.
LEMMA SumIsNatural ==
  ASSUME NEW S, IsFiniteSet(S), NEW f, \A x \in S : f[x] \in Nat
  PROVE  SumFunctionOnSet(f, S) \in Nat /\ \A x \in S : f[x] <= SumFunctionOnSet(f, S)
<1> DEFINE G == {T \in SUBSET S : SumFunctionOnSet(f, T) \in Nat}
<1>1. ASSUME NEW T \in SUBSET S, \A x \in T : T \ {x} \in G PROVE T \in G
  <2>1. IsFiniteSet(T)
    BY FS_Subset
  <2>2. CASE T = {}
    BY <2>2, SumEmpty
  <2>3. ASSUME NEW x \in T PROVE T \in G
    <3>1. SumFunctionOnSet(f, T) = f[x] + SumFunctionOnSet(f, T \ {x})
      BY <2>1, SumTakes
    <3> QED BY <1>1, <3>1
  <2> QED BY <2>2, <2>3
<1> HIDE DEF G
<1>2. SUBSET S \subseteq G
  BY <1>1, SetInduction
<1>3. \A T \in SUBSET S : SumFunctionOnSet(f, T) \in Nat
  BY <1>2 DEF G
<1>4. ASSUME NEW x \in S PROVE f[x] <= SumFunctionOnSet(f, S)
  <2>1. SumFunctionOnSet(f, S) = f[x] + SumFunctionOnSet(f, S \ {x})
    BY SumTakes
  <2>2. SumFunctionOnSet(f, S \ {x}) \in Nat
    BY <1>3
  <2> QED BY <2>1, <2>2
<1> QED BY <1>3, <1>4

\* Of two sums the one of the larger values is the larger.
LEMMA SumIsMonotonic ==
  ASSUME NEW S, IsFiniteSet(S), NEW f, NEW g, \A x \in S : f[x] \in Int /\ g[x] \in Int /\ f[x] <= g[x]
  PROVE  SumFunctionOnSet(f, S) <= SumFunctionOnSet(g, S)
<1> DEFINE G == {T \in SUBSET S : SumFunctionOnSet(f, T) <= SumFunctionOnSet(g, T)}
<1>1. ASSUME NEW T \in SUBSET S, \A x \in T : T \ {x} \in G PROVE T \in G
  <2>1. IsFiniteSet(T)
    BY FS_Subset
  <2>2. CASE T = {}
    BY <2>2, SumEmpty
  <2>3. ASSUME NEW x \in T PROVE T \in G
    <3>1. SumFunctionOnSet(f, T) = f[x] + SumFunctionOnSet(f, T \ {x})
      BY <2>1, SumTakes
    <3>2. SumFunctionOnSet(g, T) = g[x] + SumFunctionOnSet(g, T \ {x})
      BY <2>1, SumTakes
    <3>3. SumFunctionOnSet(f, T \ {x}) \in Int /\ SumFunctionOnSet(g, T \ {x}) \in Int
      BY <2>1, FS_Subset, SumIsInteger
    <3> QED BY <1>1, <3>1, <3>2, <3>3
  <2> QED BY <2>2, <2>3
<1> HIDE DEF G
<1>2. SUBSET S \subseteq G
  BY <1>1, SetInduction
<1> QED BY <1>2 DEF G

=============================================================================
