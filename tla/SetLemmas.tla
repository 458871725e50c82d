----------------------------- MODULE SetLemmas -----------------------------
(***************************************************************************)
(* Lemmas on finite sets.  Least and greatest elements, for the operators  *)
(* that CHOOSE one: the proposer first in quality order, the answers with  *)
(* the most votes, the time of the next token.  Sums over a set, for the   *)
(* ledgers.  The library's induction theorems take an operator as a        *)
(* parameter, so the least element comes from WFMin, which takes a set,    *)
(* and an induction is the search for a least counterexample.              *)
(***************************************************************************)
EXTENDS Integers, FiniteSets, Functions, FiniteSetTheorems, WellFoundedInduction, TLAPS

-----------------------------------------------------------------------------
(* Extremes.                                                                 *)

\* A set of naturals that is not empty has a least element.
LEMMA LeastExists ==
  ASSUME NEW S, S \subseteq Nat, S # {}
  PROVE  \E m \in S : \A x \in S : m <= x
<1>1. \E m \in S : \A x \in S : ~(<<x, m>> \in OpToRel(<, Nat))
  BY NatLessThanWellFounded, WFMin
<1>2. \A x, m \in Nat : x < m => <<x, m>> \in OpToRel(<, Nat)
  BY DEF OpToRel
<1>3. \A x, m \in Nat : ~(x < m) => m <= x
  OBVIOUS
<1> QED
  BY <1>1, <1>2, <1>3

\* A function to the naturals takes its least value somewhere ...
LEMMA LeastValue ==
  ASSUME NEW S, S # {}, NEW f \in [S -> Nat]
  PROVE  \E a \in S : \A b \in S : f[a] <= f[b]
<1> DEFINE V == {f[a] : a \in S}
<1>1. V \subseteq Nat /\ V # {}
  OBVIOUS
<1>2. PICK m \in V : \A x \in V : m <= x
  <2> HIDE DEF V
  <2> QED
    BY <1>1, LeastExists
<1> QED
  BY <1>2

\* ... and, if it is bounded, its greatest.
LEMMA GreatestValue ==
  ASSUME NEW S, S # {}, NEW f \in [S -> Nat], NEW k \in Nat, \A a \in S : f[a] <= k
  PROVE  \E a \in S : \A b \in S : f[b] <= f[a]
<1> DEFINE g == [a \in S |-> k - f[a]]
<1>1. g \in [S -> Nat]
  OBVIOUS
<1>2. PICK a \in S : \A b \in S : g[a] <= g[b]
  <2> HIDE DEF g
  <2> QED
    BY <1>1, LeastValue
<1>3. \A b \in S : f[b] <= f[a]
  BY <1>2
<1> QED
  BY <1>3

\* A bounded set of naturals that is not empty has a greatest element.
LEMMA GreatestExists ==
  ASSUME NEW S, S \subseteq Nat, S # {}, NEW k \in Nat, \A x \in S : x <= k
  PROVE  \E m \in S : \A x \in S : x <= m
<1> DEFINE f == [x \in S |-> x]
<1>1. f \in [S -> Nat] /\ \A a \in S : f[a] <= k
  OBVIOUS
<1>2. PICK a \in S : \A b \in S : f[b] <= f[a]
  <2> HIDE DEF f
  <2> QED
    BY <1>1, GreatestValue
<1> QED
  BY <1>2

\* A set of finite sets that is not empty has one of least cardinality.
LEMMA SmallestExists ==
  ASSUME NEW B, B # {}, \A s \in B : IsFiniteSet(s)
  PROVE  \E s \in B : \A t \in B : Cardinality(s) <= Cardinality(t)
<1> DEFINE f == [s \in B |-> Cardinality(s)]
<1>1. f \in [B -> Nat]
  BY FS_CardinalityType
<1>2. PICK s \in B : \A t \in B : f[s] <= f[t]
  <2> HIDE DEF f
  <2> QED
    BY <1>1, LeastValue
<1> QED
  BY <1>2

-----------------------------------------------------------------------------
(* Sums.  SumFunctionOnSet takes the elements in an order of its own: the    *)
(* lemmas make it a sum in any order.                                        *)

First(s) == CHOOSE x \in s : TRUE

\* g sums f over the subsets of S, as MapThenFoldSet does it.
Sums(g, f, S) ==
  g = [s \in SUBSET S |-> IF s = {} THEN 0 ELSE f[First(s)] + g[s \ {First(s)}]]

\* It does so for the subsets of at most n elements.
SumsTo(g, f, S, n) ==
  \A s \in SUBSET S :
    Cardinality(s) <= n => g[s] = IF s = {} THEN 0 ELSE f[First(s)] + g[s \ {First(s)}]

LEMMA WithoutFirst ==
  ASSUME NEW s, IsFiniteSet(s), s # {}
  PROVE  /\ First(s) \in s /\ IsFiniteSet(s \ {First(s)})
         /\ Cardinality(s) \in Nat /\ Cardinality(s) > 0
         /\ Cardinality(s \ {First(s)}) = Cardinality(s) - 1
<1>1. First(s) \in s
  BY DEF First
<1>2. Cardinality(s) \in Nat
  BY FS_CardinalityType
<1> QED
  BY <1>1, <1>2, FS_RemoveElement, FS_EmptySet

\* There is such a function, defined for larger and larger subsets ...
LEMMA SumsUpTo ==
  ASSUME NEW f, NEW S, IsFiniteSet(S), NEW n \in Nat
  PROVE  \E g : SumsTo(g, f, S, n)
<1> DEFINE Bad == {m \in Nat : ~ \E g : SumsTo(g, f, S, m)}
<1> SUFFICES ASSUME Bad # {} PROVE FALSE
  OBVIOUS
<1>1. PICK m \in Bad : \A k \in Bad : m <= k
  BY LeastExists
<1>2. \A s \in SUBSET S : IsFiniteSet(s) /\ Cardinality(s) \in Nat
  BY FS_Subset, FS_CardinalityType
<1>3. CASE m = 0
  <2> DEFINE g == [s \in SUBSET S |-> 0]
  <2>1. \A s \in SUBSET S : Cardinality(s) <= 0 => s = {}
    BY <1>2, FS_EmptySet
  <2>2. SumsTo(g, f, S, 0)
    BY <2>1 DEF SumsTo
  <2> QED
    BY <1>3, <2>2
<1>4. CASE m > 0
  <2>1. PICK old : SumsTo(old, f, S, m - 1)
    BY <1>1, <1>4
  <2> DEFINE g == [s \in SUBSET S |-> IF Cardinality(s) < m THEN old[s]
                                      ELSE f[First(s)] + old[s \ {First(s)}]]
  <2>2. \A s \in SUBSET S : Cardinality(s) < m => g[s] = old[s]
    OBVIOUS
  <2>3. ASSUME NEW s \in SUBSET S, Cardinality(s) <= m
        PROVE  g[s] = IF s = {} THEN 0 ELSE f[First(s)] + g[s \ {First(s)}]
    <3>1. CASE s = {}
      <4>1. Cardinality(s) = 0
        BY <3>1, FS_EmptySet
      <4>2. old[s] = 0
        <5>1. m - 1 >= 0
          BY <1>1, <1>4
        <5> HIDE DEF g, Bad
        <5> QED
          BY <2>1, <3>1, <4>1, <5>1 DEF SumsTo
      <4>3. g[s] = old[s]
        <5> HIDE DEF g
        <5> QED
          BY <1>4, <2>2, <4>1
      <4> HIDE DEF g
      <4> QED
        BY <3>1, <4>2, <4>3
    <3>2. CASE s # {}
      <4>1. /\ First(s) \in s /\ s \ {First(s)} \in SUBSET S
            /\ Cardinality(s) \in Nat /\ Cardinality(s \ {First(s)}) = Cardinality(s) - 1
        BY <1>2, <3>2, WithoutFirst
      <4>2. g[s \ {First(s)}] = old[s \ {First(s)}]
        <5>1. Cardinality(s \ {First(s)}) < m
          BY <2>3, <4>1
        <5> HIDE DEF g
        <5> QED
          BY <2>2, <4>1, <5>1
      <4>3. g[s] = f[First(s)] + old[s \ {First(s)}]
        <5>1. CASE Cardinality(s) < m
          <6>1. g[s] = old[s] /\ Cardinality(s) <= m - 1
            BY <2>2, <4>1, <5>1
          <6> HIDE DEF g
          <6> QED
            BY <2>1, <3>2, <6>1 DEF SumsTo
        <5>2. CASE ~(Cardinality(s) < m)
          BY <5>2
        <5> QED
          BY <5>1, <5>2
      <4> HIDE DEF g
      <4> QED
        BY <3>2, <4>2, <4>3
    <3> QED
      BY <3>1, <3>2
  <2>4. SumsTo(g, f, S, m)
    <3> HIDE DEF g
    <3> QED
      BY <2>3 DEF SumsTo
  <2> QED
    BY <1>1, <2>4
<1> QED
  BY <1>1, <1>3, <1>4

\* ... and only one.
LEMMA SumsAgree ==
  ASSUME NEW f, NEW S, NEW T, NEW g, NEW k, IsFiniteSet(T), T \subseteq S,
         Sums(g, f, S), Sums(k, f, T)
  PROVE  g[T] = k[T]
<1> DEFINE Bad == {s \in SUBSET T : g[s] # k[s]}
<1> SUFFICES ASSUME Bad # {} PROVE FALSE
  OBVIOUS
<1>1. \A s \in SUBSET T : IsFiniteSet(s)
  BY FS_Subset
<1>2. PICK s \in Bad : \A t \in Bad : Cardinality(s) <= Cardinality(t)
  BY <1>1, SmallestExists
<1>3. s \in SUBSET S /\ s \in SUBSET T /\ g[s] # k[s]
  BY <1>2
<1>4. /\ g[s] = IF s = {} THEN 0 ELSE f[First(s)] + g[s \ {First(s)}]
      /\ k[s] = IF s = {} THEN 0 ELSE f[First(s)] + k[s \ {First(s)}]
  BY <1>3 DEF Sums
<1>5. s # {}
  BY <1>3, <1>4
<1> PICK t : t = s \ {First(s)}
  OBVIOUS
<1>6. t \in SUBSET T /\ Cardinality(s) \in Nat /\ Cardinality(t) = Cardinality(s) - 1
  BY <1>1, <1>3, <1>5, WithoutFirst
<1>7. g[t] = k[t]
  BY <1>2, <1>6
<1> QED
  BY <1>3, <1>4, <1>5, <1>7

LEMMA SumsExists ==
  ASSUME NEW f, NEW S, IsFiniteSet(S)
  PROVE  \E g : Sums(g, f, S)
<1>1. \A s \in SUBSET S : Cardinality(s) <= Cardinality(S) /\ Cardinality(S) \in Nat
  BY FS_Subset, FS_CardinalityType
<1>2. PICK g : SumsTo(g, f, S, Cardinality(S))
  BY <1>1, SumsUpTo
<1> DEFINE k == [s \in SUBSET S |-> g[s]]
<1>3. \A s \in SUBSET S : s # {} => s \ {First(s)} \in SUBSET S
  OBVIOUS
<1>4. \A s \in SUBSET S : s # {} => k[s \ {First(s)}] = g[s \ {First(s)}]
  BY <1>3
<1>5. k = [s \in SUBSET S |-> IF s = {} THEN 0 ELSE f[First(s)] + k[s \ {First(s)}]]
  <2> DEFINE body == [s \in SUBSET S |-> IF s = {} THEN 0 ELSE f[First(s)] + k[s \ {First(s)}]]
  <2>1. \A s \in SUBSET S : k[s] = body[s]
    BY <1>1, <1>2, <1>4 DEF SumsTo
  <2> QED
    BY <2>1
<1> QED
  BY <1>5 DEF Sums

LEMMA SumIs ==
  ASSUME NEW f, NEW S, IsFiniteSet(S)
  PROVE  \E g : Sums(g, f, S) /\ SumFunctionOnSet(f, S) = g[S]
<1> DEFINE g == CHOOSE k : Sums(k, f, S)
<1>1. \E k : Sums(k, f, S)
  BY SumsExists
<1>2. Sums(g, f, S)
  BY <1>1
<1>3. SumFunctionOnSet(f, S) = g[S]
  BY DEF SumFunctionOnSet, FoldFunctionOnSet, MapThenFoldSet, First, Sums
<1> QED
  BY <1>2, <1>3

LEMMA SumEmpty ==
  ASSUME NEW f
  PROVE  SumFunctionOnSet(f, {}) = 0
<1>1. PICK g : Sums(g, f, {}) /\ SumFunctionOnSet(f, {}) = g[{}]
  BY SumIs, FS_EmptySet
<1> QED
  BY <1>1 DEF Sums

LEMMA SumStep ==
  ASSUME NEW f, NEW S, IsFiniteSet(S), S # {}
  PROVE  SumFunctionOnSet(f, S) = f[First(S)] + SumFunctionOnSet(f, S \ {First(S)})
<1> PICK T : T = S \ {First(S)}
  OBVIOUS
<1>1. IsFiniteSet(T)
  BY WithoutFirst
<1>2. PICK g : Sums(g, f, S) /\ SumFunctionOnSet(f, S) = g[S]
  BY SumIs
<1>3. PICK k : Sums(k, f, T) /\ SumFunctionOnSet(f, T) = k[T]
  BY <1>1, SumIs
<1>4. g[T] = k[T]
  BY <1>1, <1>2, <1>3, SumsAgree
<1>5. g[S] = f[First(S)] + g[T]
  BY <1>2 DEF Sums
<1> QED
  BY <1>2, <1>3, <1>4, <1>5

\* A sum of integers is one, and of naturals one.
LEMMA SumTyped ==
  ASSUME NEW f, NEW S, IsFiniteSet(S), \A x \in S : f[x] \in Int
  PROVE  /\ SumFunctionOnSet(f, S) \in Int
         /\ (\A x \in S : f[x] \in Nat) => SumFunctionOnSet(f, S) \in Nat
<1> DEFINE Ok(s) == /\ SumFunctionOnSet(f, s) \in Int
                    /\ (\A x \in s : f[x] \in Nat) => SumFunctionOnSet(f, s) \in Nat
           Bad == {s \in SUBSET S : ~Ok(s)}
<1> SUFFICES ASSUME Bad # {} PROVE FALSE
  OBVIOUS
<1>1. \A s \in SUBSET S : IsFiniteSet(s)
  BY FS_Subset
<1>2. PICK s \in Bad : \A t \in Bad : Cardinality(s) <= Cardinality(t)
  BY <1>1, SmallestExists
<1>3. s # {}
  BY <1>2, SumEmpty
<1> PICK t : t = s \ {First(s)}
  OBVIOUS
<1>4. /\ First(s) \in s /\ t \in SUBSET S
      /\ Cardinality(s) \in Nat /\ Cardinality(t) = Cardinality(s) - 1
  BY <1>1, <1>2, <1>3, WithoutFirst
<1>5. Ok(t)
  BY <1>2, <1>4
<1>6. SumFunctionOnSet(f, s) = f[First(s)] + SumFunctionOnSet(f, t)
  BY <1>1, <1>2, <1>3, SumStep
<1>7. f[First(s)] \in Int /\ ~Ok(s)
  BY <1>2, <1>4
<1> QED
  BY <1>4, <1>5, <1>6, <1>7

\* Any element may come first.
LEMMA SumWithout ==
  ASSUME NEW f, NEW S, IsFiniteSet(S), \A x \in S : f[x] \in Int, NEW x \in S
  PROVE  SumFunctionOnSet(f, S) = f[x] + SumFunctionOnSet(f, S \ {x})
<1> DEFINE Total(s) == SumFunctionOnSet(f, s)
           Bad == {s \in SUBSET S : \E y \in s : Total(s) # f[y] + Total(s \ {y})}
<1> SUFFICES ASSUME Bad # {} PROVE FALSE
  OBVIOUS
<1>1. \A s \in SUBSET S : IsFiniteSet(s) /\ Total(s) \in Int
  BY FS_Subset, SumTyped
<1>2. PICK s \in Bad : \A t \in Bad : Cardinality(s) <= Cardinality(t)
  BY <1>1, SmallestExists
<1>3. PICK y \in s : Total(s) # f[y] + Total(s \ {y})
  BY <1>2
<1> PICK first : first = First(s)
  OBVIOUS
<1>4. /\ s \in SUBSET S /\ s # {} /\ first \in s /\ Cardinality(s) \in Nat
      /\ Total(s) = f[first] + Total(s \ {first})
  BY <1>1, <1>2, <1>3, SumStep, WithoutFirst
<1>5. y # first
  BY <1>3, <1>4
<1>6. \A z \in s : s \ {z} \in SUBSET S /\ s \ {z} \notin Bad
  <2> SUFFICES ASSUME NEW z \in s PROVE s \ {z} \in SUBSET S /\ s \ {z} \notin Bad
    OBVIOUS
  <2>1. Cardinality(s \ {z}) = Cardinality(s) - 1
    BY <1>1, <1>4, FS_RemoveElement
  <2> HIDE DEF Bad
  <2> QED
    BY <1>2, <1>4, <2>1
<1>7. Total(s \ {first}) = f[y] + Total((s \ {first}) \ {y})
  BY <1>4, <1>5, <1>6
<1>8. Total(s \ {y}) = f[first] + Total((s \ {y}) \ {first})
  BY <1>4, <1>5, <1>6
<1>9. (s \ {y}) \ {first} = (s \ {first}) \ {y} /\ (s \ {first}) \ {y} \in SUBSET S
  BY <1>4
<1>10. f[y] \in Int /\ f[first] \in Int
  BY <1>3, <1>4
<1> PICK rest \in Int : rest = Total((s \ {first}) \ {y})
  BY <1>1, <1>9
<1> QED
  BY <1>3, <1>4, <1>7, <1>8, <1>9, <1>10

LEMMA SumOfOne ==
  ASSUME NEW f, NEW x, f[x] \in Int
  PROVE  IsFiniteSet({x}) /\ Cardinality({x}) = 1 /\ SumFunctionOnSet(f, {x}) = f[x]
<1>1. IsFiniteSet({x}) /\ Cardinality({x}) = 1
  BY FS_Singleton
<1>2. SumFunctionOnSet(f, {x}) = f[x] + SumFunctionOnSet(f, {x} \ {x})
  BY <1>1, SumWithout
<1>3. {x} \ {x} = {}
  OBVIOUS
<1> QED
  BY <1>1, <1>2, <1>3, SumEmpty

LEMMA SumOfTwo ==
  ASSUME NEW f, NEW x, NEW y, x # y, f[x] \in Int, f[y] \in Int
  PROVE  /\ IsFiniteSet({x, y}) /\ Cardinality({x, y}) = 2
         /\ SumFunctionOnSet(f, {x, y}) = f[x] + f[y]
<1> PICK S : S = {x, y}
  OBVIOUS
<1>1. IsFiniteSet({y}) /\ Cardinality({y}) = 1 /\ SumFunctionOnSet(f, {y}) = f[y]
  BY SumOfOne
<1>2. S = {y} \union {x} /\ S \ {x} = {y} /\ x \in S /\ (\A z \in S : f[z] \in Int) /\ x \notin {y}
  OBVIOUS
<1>3. IsFiniteSet(S) /\ Cardinality(S) = 2
  BY <1>1, <1>2, FS_AddElement
<1>4. SumFunctionOnSet(f, S) = f[x] + SumFunctionOnSet(f, S \ {x})
  BY <1>2, <1>3, SumWithout
<1> QED
  BY <1>1, <1>2, <1>3, <1>4

\* Only the values at the elements matter.
LEMMA SumSame ==
  ASSUME NEW f, NEW g, NEW S, IsFiniteSet(S), \A x \in S : f[x] = g[x]
  PROVE  SumFunctionOnSet(f, S) = SumFunctionOnSet(g, S)
<1> DEFINE Bad == {s \in SUBSET S : SumFunctionOnSet(f, s) # SumFunctionOnSet(g, s)}
<1> SUFFICES ASSUME Bad # {} PROVE FALSE
  OBVIOUS
<1>1. \A s \in SUBSET S : IsFiniteSet(s)
  BY FS_Subset
<1>2. PICK s \in Bad : \A t \in Bad : Cardinality(s) <= Cardinality(t)
  BY <1>1, SmallestExists
<1>3. s # {}
  BY <1>2, SumEmpty
<1> PICK t : t = s \ {First(s)}
  OBVIOUS
<1>4. /\ First(s) \in s /\ t \in SUBSET S
      /\ Cardinality(s) \in Nat /\ Cardinality(t) = Cardinality(s) - 1
  BY <1>1, <1>2, <1>3, WithoutFirst
<1>5. SumFunctionOnSet(f, t) = SumFunctionOnSet(g, t)
  BY <1>2, <1>4
<1>6. /\ SumFunctionOnSet(f, s) = f[First(s)] + SumFunctionOnSet(f, t)
      /\ SumFunctionOnSet(g, s) = g[First(s)] + SumFunctionOnSet(g, t)
  BY <1>1, <1>2, <1>3, SumStep
<1> QED
  BY <1>2, <1>4, <1>5, <1>6

\* A larger set of naturals has no smaller sum, nor have larger naturals.
LEMMA SumGrows ==
  ASSUME NEW f, NEW S, IsFiniteSet(S), \A x \in S : f[x] \in Nat, NEW T \in SUBSET S
  PROVE  SumFunctionOnSet(f, T) <= SumFunctionOnSet(f, S)
<1> DEFINE Total(s) == SumFunctionOnSet(f, s)
           Bad == {s \in SUBSET S : T \subseteq s /\ ~(Total(T) <= Total(s))}
<1> SUFFICES ASSUME Bad # {} PROVE FALSE
  OBVIOUS
<1>1. \A s \in SUBSET S : IsFiniteSet(s) /\ Total(s) \in Nat
  BY FS_Subset, SumTyped
<1>2. PICK s \in Bad : \A t \in Bad : Cardinality(s) <= Cardinality(t)
  BY <1>1, SmallestExists
<1>3. s # T
  BY <1>1, <1>2
<1>4. PICK x \in s : x \notin T
  BY <1>2, <1>3
<1>5. Total(s) = f[x] + Total(s \ {x})
  BY <1>1, <1>2, <1>4, SumWithout
<1>6. /\ s \ {x} \in SUBSET S /\ T \subseteq s \ {x}
      /\ Cardinality(s) \in Nat /\ Cardinality(s \ {x}) = Cardinality(s) - 1
  BY <1>1, <1>2, <1>4, FS_RemoveElement, FS_CardinalityType
<1>7. Total(T) <= Total(s \ {x})
  BY <1>2, <1>6
<1>8. f[x] \in Nat /\ Total(T) \in Nat /\ Total(s \ {x}) \in Nat
  BY <1>1, <1>2, <1>4, <1>6
<1> QED
  BY <1>2, <1>5, <1>7, <1>8

\* Of two sums over a set that is not empty, that of the smaller values is smaller.
LEMMA SumLess ==
  ASSUME NEW f, NEW g, NEW S, IsFiniteSet(S), S # {},
         \A x \in S : f[x] \in Int /\ g[x] \in Int /\ f[x] < g[x]
  PROVE  SumFunctionOnSet(f, S) < SumFunctionOnSet(g, S)
<1> DEFINE Bad == {s \in SUBSET S : s # {} /\ ~(SumFunctionOnSet(f, s) < SumFunctionOnSet(g, s))}
<1> SUFFICES ASSUME Bad # {} PROVE FALSE
  OBVIOUS
<1>1. \A s \in SUBSET S :
        IsFiniteSet(s) /\ SumFunctionOnSet(f, s) \in Int /\ SumFunctionOnSet(g, s) \in Int
  BY FS_Subset, SumTyped
<1>2. PICK s \in Bad : \A t \in Bad : Cardinality(s) <= Cardinality(t)
  BY <1>1, SmallestExists
<1> PICK x : x = First(s)
  OBVIOUS
<1> PICK t : t = s \ {x}
  OBVIOUS
<1>3. /\ x \in s /\ t \in SUBSET S
      /\ Cardinality(s) \in Nat /\ Cardinality(t) = Cardinality(s) - 1
  BY <1>1, <1>2, WithoutFirst
<1>4. /\ SumFunctionOnSet(f, s) = f[x] + SumFunctionOnSet(f, t)
      /\ SumFunctionOnSet(g, s) = g[x] + SumFunctionOnSet(g, t)
  BY <1>1, <1>2, SumStep
<1>5. f[x] \in Int /\ g[x] \in Int /\ f[x] < g[x]
  BY <1>2, <1>3
<1>6. t # {} => SumFunctionOnSet(f, t) < SumFunctionOnSet(g, t)
  BY <1>2, <1>3
<1>7. t = {} => SumFunctionOnSet(f, t) = 0 /\ SumFunctionOnSet(g, t) = 0
  BY SumEmpty
<1> PICK a \in Int : a = SumFunctionOnSet(f, t)
  BY <1>1, <1>3
<1> PICK b \in Int : b = SumFunctionOnSet(g, t)
  BY <1>1, <1>3
<1>8. f[x] + a < g[x] + b
  BY <1>5, <1>6, <1>7
<1> QED
  BY <1>2, <1>4, <1>8

\* A sum of naturals is 0 exactly when they are.
LEMMA SumZero ==
  ASSUME NEW f, NEW S, IsFiniteSet(S), \A x \in S : f[x] \in Nat
  PROVE  SumFunctionOnSet(f, S) = 0 <=> \A x \in S : f[x] = 0
<1>1. ASSUME \A x \in S : f[x] = 0, SumFunctionOnSet(f, S) # 0 PROVE FALSE
  <2> DEFINE Bad == {s \in SUBSET S : SumFunctionOnSet(f, s) # 0}
  <2>1. \A s \in SUBSET S : IsFiniteSet(s)
    BY FS_Subset
  <2>2. PICK s \in Bad : \A t \in Bad : Cardinality(s) <= Cardinality(t)
    BY <1>1, <2>1, SmallestExists
  <2>3. s # {}
    BY <2>2, SumEmpty
  <2> PICK t : t = s \ {First(s)}
    OBVIOUS
  <2>4. /\ First(s) \in S /\ t \in SUBSET S
        /\ Cardinality(s) \in Nat /\ Cardinality(t) = Cardinality(s) - 1
    BY <2>1, <2>2, <2>3, WithoutFirst
  <2>5. SumFunctionOnSet(f, s) = f[First(s)] + SumFunctionOnSet(f, t) /\ SumFunctionOnSet(f, t) = 0
    BY <2>1, <2>2, <2>3, <2>4, SumStep
  <2> QED
    BY <1>1, <2>2, <2>4, <2>5
<1>2. ASSUME SumFunctionOnSet(f, S) = 0, NEW x \in S PROVE f[x] = 0
  <2>1. SumFunctionOnSet(f, S) = f[x] + SumFunctionOnSet(f, S \ {x})
    BY SumWithout
  <2>2. IsFiniteSet(S \ {x})
    BY FS_Subset
  <2>3. SumFunctionOnSet(f, S \ {x}) \in Nat
    BY <2>2, SumTyped
  <2> QED
    BY <1>2, <2>1, <2>3
<1> QED
  BY <1>1, <1>2

\* What is missing to m at each element is missing to m times their number in the sum.
LEMMA SumMissing ==
  ASSUME NEW f, NEW g, NEW S, IsFiniteSet(S), NEW m \in Int,
         \A x \in S : f[x] \in Int /\ g[x] = m - f[x]
  PROVE  /\ SumFunctionOnSet(g, S) = m * Cardinality(S) - SumFunctionOnSet(f, S)
         /\ SumFunctionOnSet(f, S) \in Int /\ Cardinality(S) \in Nat
<1> DEFINE Bad == {s \in SUBSET S :
                     SumFunctionOnSet(g, s) # m * Cardinality(s) - SumFunctionOnSet(f, s)}
<1>1. \A s \in SUBSET S : IsFiniteSet(s) /\ SumFunctionOnSet(f, s) \in Int /\ Cardinality(s) \in Nat
  BY FS_Subset, SumTyped, FS_CardinalityType
<1> SUFFICES ASSUME Bad # {} PROVE FALSE
  BY <1>1
<1>2. PICK s \in Bad : \A t \in Bad : Cardinality(s) <= Cardinality(t)
  BY <1>1, SmallestExists
<1>3. s # {}
  <2> SUFFICES ASSUME s = {} PROVE FALSE
    OBVIOUS
  <2> PICK n : n = Cardinality(s)
    OBVIOUS
  <2>1. SumFunctionOnSet(f, s) = 0 /\ SumFunctionOnSet(g, s) = 0 /\ n = 0
    BY SumEmpty, FS_EmptySet
  <2>2. m * 0 = 0
    BY Z3
  <2>3. m * n = 0
    BY <2>1, <2>2
  <2>4. SumFunctionOnSet(g, s) # m * n - SumFunctionOnSet(f, s)
    BY <1>2
  <2> QED
    BY <2>1, <2>3, <2>4
<1> PICK x : x = First(s)
  OBVIOUS
<1> PICK t : t = s \ {x}
  OBVIOUS
<1>4. /\ x \in s /\ t \in SUBSET S
      /\ Cardinality(s) \in Nat /\ Cardinality(t) = Cardinality(s) - 1
  BY <1>1, <1>2, <1>3, WithoutFirst
<1>5. /\ SumFunctionOnSet(f, s) = f[x] + SumFunctionOnSet(f, t)
      /\ SumFunctionOnSet(g, s) = g[x] + SumFunctionOnSet(g, t)
  BY <1>1, <1>2, <1>3, SumStep
<1>6. SumFunctionOnSet(g, t) = m * Cardinality(t) - SumFunctionOnSet(f, t)
  BY <1>2, <1>4
<1>7. f[x] \in Int /\ g[x] = m - f[x]
  BY <1>2, <1>4
<1> PICK a \in Int : a = SumFunctionOnSet(f, t)
  BY <1>1, <1>4
<1> PICK n \in Nat : n = Cardinality(t)
  BY <1>1, <1>4
<1> PICK b \in Int : b = f[x]
  BY <1>7
<1>8. Cardinality(s) = n + 1
  BY <1>4
<1>9. m * (n + 1) = m * n + m
  BY Z3
<1>10. m * n \in Int
  BY Z3
<1>11. SumFunctionOnSet(g, s) = (m - b) + (m * n - a)
  BY <1>5, <1>6, <1>7
<1>12. m * Cardinality(s) - SumFunctionOnSet(f, s) = (m * n + m) - (b + a)
  BY <1>5, <1>8, <1>9
<1> QED
  BY <1>2, <1>10, <1>11, <1>12

-----------------------------------------------------------------------------
(* Orders.  R is an order on S, as a set of pairs.                           *)

Orders(R, S) ==
  /\ \A a, b \in S : a = b \/ <<a, b>> \in R \/ <<b, a>> \in R
  /\ \A a, b, c \in S : <<a, b>> \in R /\ <<b, c>> \in R => <<a, c>> \in R

\* A finite set has a last element.
LEMMA LastExists ==
  ASSUME NEW S, NEW R, Orders(R, S), NEW T \in SUBSET S, IsFiniteSet(T), T # {}
  PROVE  \E m \in T : \A x \in T : x = m \/ <<x, m>> \in R
<1> DEFINE Bad == {s \in SUBSET T : s # {} /\ ~ \E m \in s : \A x \in s : x = m \/ <<x, m>> \in R}
<1> SUFFICES ASSUME Bad # {} PROVE FALSE
  OBVIOUS
<1>1. \A s \in SUBSET T : IsFiniteSet(s) /\ Cardinality(s) \in Nat
  BY FS_Subset, FS_CardinalityType
<1>2. PICK s \in Bad : \A t \in Bad : Cardinality(s) <= Cardinality(t)
  BY <1>1, SmallestExists
<1>3. PICK x : x \in s
  BY <1>2
<1> PICK t : t = s \ {x}
  OBVIOUS
<1>4. t \in SUBSET T /\ Cardinality(t) = Cardinality(s) - 1 /\ Cardinality(s) \in Nat
  BY <1>1, <1>2, <1>3, FS_RemoveElement
<1>5. t # {}
  BY <1>2, <1>3
<1>6. PICK m \in t : \A y \in t : y = m \/ <<y, m>> \in R
  <2>1. t \notin Bad
    <3> HIDE DEF Bad
    <3> QED
      BY <1>2, <1>4
  <2> QED
    BY <1>4, <1>5, <2>1
<1>7. ~(<<x, m>> \in R) /\ x # m
  BY <1>2, <1>3, <1>6
<1>8. <<m, x>> \in R
  BY <1>2, <1>3, <1>4, <1>7 DEF Orders
<1>9. \A y \in s : y = x \/ <<y, x>> \in R
  BY <1>2, <1>3, <1>4, <1>6, <1>8 DEF Orders
<1> QED
  BY <1>2, <1>3, <1>9
=============================================================================
