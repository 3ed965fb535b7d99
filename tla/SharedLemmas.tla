------------------------------ MODULE SharedLemmas ------------------------------
(***************************************************************************)
(* What several of the proofs use: of finite sets least elements, from     *)
(* which every induction here is made, the first in a strict order and     *)
(* sums; and of the options engine that what it proposes is one of the     *)
(* contracts it was given.                                                 *)
(*                                                                         *)
(* The induction theorems of the library take a predicate as an operator   *)
(* and no prover here can instantiate them.  WFMin takes a set instead, so *)
(* an induction is done by looking at a least counterexample.              *)
(***************************************************************************)
EXTENDS OptionsEngine, FiniteSetsExt, FiniteSetTheorems, WellFoundedInduction, TLAPS

-----------------------------------------------------------------------------
(* Least elements                                                          *)

\* Of some subsets of a finite set one contains no other.
LEMMA MinimalSubset ==
  ASSUME NEW S, IsFiniteSet(S), NEW T, T \subseteq SUBSET S, T # {}
  PROVE  \E U \in T : \A V \in T : V \subseteq U => V = U
<1>1. IsWellFoundedOn(StrictSubsetOrdering(S), FiniteSubsetsOf(S))
  BY FS_StrictSubsetOrderingWellFounded
<1>2. T \subseteq FiniteSubsetsOf(S)
  BY FS_FiniteSubsetsOfFinite
<1>3. PICK U \in T : \A V \in T : ~ (<<V, U>> \in StrictSubsetOrdering(S))
  BY <1>1, <1>2, WFMin
<1>4. ASSUME NEW V \in T, V \subseteq U
      PROVE  V = U
  BY <1>3, <1>4 DEF StrictSubsetOrdering
<1> QED BY <1>4

\* Of some natural numbers one is the least.
LEMMA LeastNatural ==
  ASSUME NEW T, T \subseteq Nat, T # {}
  PROVE  \E n \in T : \A m \in T : n <= m
<1> DEFINE R == {ss \in Nat \X Nat : ss[1] < ss[2]}
<1>1. IsWellFoundedOn(R, Nat)
  BY NatLessThanWellFounded DEF OpToRel
<1>2. PICK n \in T : \A m \in T : ~ (<<m, n>> \in R)
  <2> HIDE DEF R
  <2> QED BY <1>1, WFMin
<1>3. ASSUME NEW m \in T PROVE n <= m
  <2>1. m \in Nat /\ n \in Nat
    OBVIOUS
  <2>2. ~ (m < n)
    BY <1>2, <2>1
  <2> QED BY <2>1, <2>2
<1> QED BY <1>3

\* Induction over the natural numbers, of a set.
LEMMA SetOfNaturals ==
  ASSUME NEW G, 0 \in G, \A n \in Nat : n \in G => n + 1 \in G
  PROVE  Nat \subseteq G
<1> DEFINE Bad == {n \in Nat : n \notin G}
<1>1. SUFFICES ASSUME Bad # {} PROVE FALSE
  OBVIOUS
<1>2. PICK n \in Bad : \A m \in Bad : n <= m
  <2>1. Bad \subseteq Nat
    OBVIOUS
  <2> HIDE DEF Bad
  <2> QED BY <1>1, <2>1, LeastNatural
<1>3. n \in Nat /\ n # 0
  BY <1>2
<1>4. n - 1 \in Nat /\ ~ (n <= n - 1) /\ n = (n - 1) + 1
  BY <1>3
<1>5. n - 1 \in G
  BY <1>2, <1>4
<1>6. n \in G
  <2>1. (n - 1) + 1 \in G
    BY <1>4, <1>5
  <2> QED BY <1>4, <2>1
<1> QED BY <1>2, <1>6

\* Induction over the subsets of a finite set, of a set of sets.
LEMMA SetOfSubsets ==
  ASSUME NEW S, IsFiniteSet(S), NEW G, {} \in G,
         \A U \in SUBSET S : U # {} => \E x \in U : U \ {x} \in G => U \in G
  PROVE  S \in G
<1> DEFINE Bad == {U \in SUBSET S : U \notin G}
<1>1. SUFFICES ASSUME Bad # {} PROVE FALSE
  OBVIOUS
<1>2. PICK U \in Bad : \A V \in Bad : V \subseteq U => V = U
  <2>1. Bad \subseteq SUBSET S
    OBVIOUS
  <2> HIDE DEF Bad
  <2> QED BY <1>1, <2>1, MinimalSubset
<1>3. PICK x \in U : U \ {x} \in G => U \in G
  BY <1>2
<1>4. U \ {x} \in SUBSET S /\ U \ {x} \subseteq U /\ U \ {x} # U
  BY <1>2, <1>3
<1> QED BY <1>2, <1>3, <1>4

\* A finite set has a first element in a strict order that compares any two.
LEMMA FirstInOrder ==
  ASSUME NEW S, IsFiniteSet(S), S # {}, NEW R,
         \A x, y \in S : x # y => <<x, y>> \in R \/ <<y, x>> \in R,
         \A x, y, z \in S : <<x, y>> \in R /\ <<y, z>> \in R => <<x, z>> \in R
  PROVE  \E x \in S : \A y \in S \ {x} : <<x, y>> \in R
<1> DEFINE First(U) == \E x \in U : \A y \in U \ {x} : <<x, y>> \in R
           Bad == {U \in SUBSET S : U # {} /\ ~ First(U)}
<1>1. SUFFICES ASSUME Bad # {} PROVE FALSE
  OBVIOUS
<1>2. PICK U \in Bad : \A V \in Bad : V \subseteq U => V = U
  <2>1. Bad \subseteq SUBSET S
    OBVIOUS
  <2> HIDE DEF Bad
  <2> QED BY <1>1, <2>1, MinimalSubset
<1>3. PICK u \in U : TRUE
  OBVIOUS
<1>4. U \ {u} # {}
  BY <1>3
<1>5. First(U \ {u})
  <2>1. U \ {u} \in SUBSET S /\ U \ {u} # U
    BY <1>2, <1>3
  <2>2. U \ {u} \notin Bad
    BY <1>2, <2>1
  <2> HIDE DEF First
  <2> QED BY <1>4, <2>1, <2>2
<1>6. PICK x \in U \ {u} : \A y \in (U \ {u}) \ {x} : <<x, y>> \in R
  BY <1>5
<1>7. CASE <<x, u>> \in R
  BY <1>6, <1>7
<1>8. CASE <<u, x>> \in R
  <2>1. ASSUME NEW y \in U \ {u} PROVE <<u, y>> \in R
    BY <1>6, <1>8
  <2> QED BY <2>1
<1> QED BY <1>6, <1>7, <1>8

-----------------------------------------------------------------------------
(* Sums                                                                    *)

SumOver(w, S) == MapThenSumSet(LAMBDA x : w[x], S)

\* The recursion of a sum.
Sums(f, w, S) ==
  f = [s \in SUBSET S |->
         IF s = {} THEN 0
         ELSE w[CHOOSE x \in s : TRUE] + f[s \ {CHOOSE x \in s : TRUE}]]

LEMMA SumOverChosen ==
  ASSUME NEW w, NEW S
  PROVE  SumOver(w, S) = (CHOOSE f : Sums(f, w, S))[S]
BY Zenon DEF SumOver, MapThenSumSet, MapThenFoldSet, Sums

\* A sum of the values of a function.
LEMMA SumOfFunction ==
  ASSUME NEW w
  PROVE  SumFunction(w) = SumOver(w, DOMAIN w)
<1>1. SumFunction(w) = (CHOOSE f : Sums(f, w, DOMAIN w))[DOMAIN w]
  BY Zenon DEF SumFunction, SumFunctionOnSet, FoldFunctionOnSet, MapThenFoldSet, Sums
<1> QED BY <1>1, SumOverChosen

\* Some function satisfies the recursion: the one for the sets of at most n
\* elements is extended to those with one more.
LEMMA SumsExist ==
  ASSUME NEW S, IsFiniteSet(S), NEW w
  PROVE  \E f : Sums(f, w, S)
<1> DEFINE Small(n) == {s \in SUBSET S : Cardinality(s) <= n}
           Next(f, s) == IF s = {} THEN 0
                         ELSE w[CHOOSE x \in s : TRUE] + f[s \ {CHOOSE x \in s : TRUE}]
           Upto(f, n) == f = [s \in Small(n) |-> Next(f, s)]
           Bad == {n \in Nat : ~ \E f : Upto(f, n)}
<1>1. \A s \in SUBSET S : IsFiniteSet(s) /\ Cardinality(s) \in Nat
  BY FS_Subset, FS_CardinalityType
<1>2. \A s \in SUBSET S : s # {} =>
        /\ s \ {CHOOSE x \in s : TRUE} \in SUBSET S
        /\ Cardinality(s \ {CHOOSE x \in s : TRUE}) = Cardinality(s) - 1
  BY <1>1, FS_RemoveElement
<1>3. Bad = {}
  <2>1. SUFFICES ASSUME Bad # {} PROVE FALSE
    OBVIOUS
  <2>2. PICK n \in Bad : \A m \in Bad : n <= m
    <3>1. Bad \subseteq Nat
      OBVIOUS
    <3> HIDE DEF Bad
    <3> QED BY <2>1, <3>1, LeastNatural
  <2>3. CASE n = 0
    <3> DEFINE f == [s \in Small(0) |-> 0]
    <3>1. \A s \in Small(0) : s = {}
      BY <1>1, FS_EmptySet
    <3>2. Upto(f, 0)
      BY <3>1
    <3> HIDE DEF f, Upto
    <3> QED BY <2>2, <2>3, <3>2
  <2>4. CASE n # 0
    <3>1. n \in Nat /\ n - 1 \in Nat /\ n - 1 \notin Bad
      <4>1. n \in Nat
        BY <2>2
      <4>2. n - 1 \in Nat /\ ~ (n <= n - 1)
        BY <2>4, <4>1
      <4> HIDE DEF Bad
      <4> QED BY <2>2, <4>1, <4>2
    <3>2. PICK g : Upto(g, n - 1)
      <4> HIDE DEF Upto
      <4> QED BY <3>1
    <3> DEFINE f == [s \in Small(n) |-> Next(g, s)]
    <3>3. \A s \in Small(n - 1) : g[s] = Next(g, s)
      BY <3>2
    <3>4. \A s \in Small(n - 1) : f[s] = g[s]
      <4>1. \A s \in Small(n - 1) : s \in Small(n)
        BY <1>1, <3>1
      <4> HIDE DEF Small, Next
      <4> QED BY <3>3, <4>1
    <3>5. \A s \in Small(n) : s # {} => s \ {CHOOSE x \in s : TRUE} \in Small(n - 1)
      BY <1>1, <1>2, <3>1
    <3>6. \A s \in Small(n) : Next(g, s) = Next(f, s)
      <4> HIDE DEF Small, f
      <4> TAKE s \in Small(n)
      <4>1. CASE s = {}
        BY <4>1
      <4>2. CASE s # {}
        <5>1. f[s \ {CHOOSE x \in s : TRUE}] = g[s \ {CHOOSE x \in s : TRUE}]
          BY <3>4, <3>5, <4>2
        <5> QED BY <5>1
      <4> QED BY <4>1, <4>2
    <3>7. Upto(f, n)
      <4> HIDE DEF Small, Next
      <4> QED BY <3>6
    <3> HIDE DEF f, Upto
    <3> QED BY <2>2, <3>7
  <2> QED BY <2>3, <2>4
<1>4. Cardinality(S) \in Nat /\ Small(Cardinality(S)) = SUBSET S
  BY <1>1, FS_Subset, FS_CardinalityType
<1>5. PICK f : Upto(f, Cardinality(S))
  <2> HIDE DEF Upto
  <2> QED BY <1>3, <1>4
<1>6. Sums(f, w, S)
  <2> HIDE DEF Small
  <2> QED BY <1>4, <1>5 DEF Sums
<1> QED BY <1>6

\* Two sums of the same terms are the same, whatever they are part of.
LEMMA SumsLocal ==
  ASSUME NEW S, IsFiniteSet(S), NEW T, NEW f, NEW g, NEW w, NEW v,
         Sums(f, w, S), Sums(g, v, T),
         NEW U \in SUBSET S, U \in SUBSET T, \A x \in U : w[x] = v[x]
  PROVE  f[U] = g[U]
<1> DEFINE G == {V \in SUBSET U : f[V] = g[V]}
<1>1. IsFiniteSet(U)
  BY FS_Subset
<1>2. {} \in G
  BY DEF Sums
<1>3. ASSUME NEW V \in SUBSET U, V # {}
      PROVE  \E x \in V : V \ {x} \in G => V \in G
  <2> DEFINE c == CHOOSE x \in V : TRUE
  <2>1. c \in V
    BY <1>3
  <2>2. f[V] = w[c] + f[V \ {c}]
    BY <1>3 DEF Sums
  <2>3. g[V] = v[c] + g[V \ {c}]
    BY <1>3 DEF Sums
  <2>4. w[c] = v[c]
    BY <2>1
  <2> HIDE DEF c
  <2> QED BY <2>1, <2>2, <2>3, <2>4
<1>4. U \in G
  <2> HIDE DEF G
  <2> QED BY <1>1, <1>2, <1>3, SetOfSubsets
<1> QED BY <1>4

\* What SumOver is, of any set that holds the one summed over.
LEMMA SumOverPart ==
  ASSUME NEW S, IsFiniteSet(S), NEW T \in SUBSET S, NEW w
  PROVE  SumOver(w, T) = (CHOOSE f : Sums(f, w, S))[T]
<1> DEFINE f == CHOOSE h : Sums(h, w, S)
           g == CHOOSE h : Sums(h, w, T)
<1>1. IsFiniteSet(T)
  BY FS_Subset
<1>2. Sums(f, w, S) /\ Sums(g, w, T)
  BY <1>1, SumsExist
<1>3. T \in SUBSET T
  OBVIOUS
<1>4. f[T] = g[T]
  <2> HIDE DEF f, g
  <2> QED BY <1>2, <1>3, SumsLocal
<1>5. SumOver(w, T) = g[T]
  BY SumOverChosen
<1> QED BY <1>4, <1>5

LEMMA SumEmpty ==
  ASSUME NEW w
  PROVE  SumOver(w, {}) = 0
<1>1. IsFiniteSet({})
  BY FS_EmptySet
<1>2. Sums(CHOOSE f : Sums(f, w, {}), w, {})
  BY <1>1, SumsExist
<1>3. SumOver(w, {}) = (CHOOSE f : Sums(f, w, {}))[{}]
  BY SumOverChosen
<1>4. ASSUME NEW f, Sums(f, w, {}) PROVE f[{}] = 0
  BY <1>4 DEF Sums
<1> QED BY <1>2, <1>3, <1>4

\* One element taken out: the one that CHOOSE takes.
LEMMA SumChosen ==
  ASSUME NEW S, IsFiniteSet(S), S # {}, NEW w
  PROVE  \E c \in S : SumOver(w, S) = w[c] + SumOver(w, S \ {c})
<1> DEFINE f == CHOOSE h : Sums(h, w, S)
           c == CHOOSE x \in S : TRUE
<1>1. Sums(f, w, S)
  BY SumsExist
<1>2. c \in S
  OBVIOUS
<1>3. SumOver(w, S) = f[S] /\ SumOver(w, S \ {c}) = f[S \ {c}]
  BY <1>2, SumOverPart
<1>4. f[S] = w[c] + f[S \ {c}]
  <2> HIDE DEF f
  <2> QED BY <1>1 DEF Sums
<1> HIDE DEF f, c
<1> QED BY <1>2, <1>3, <1>4

LEMMA SumLocal ==
  ASSUME NEW S, IsFiniteSet(S), NEW w, NEW v, \A x \in S : w[x] = v[x]
  PROVE  SumOver(w, S) = SumOver(v, S)
<1> DEFINE f == CHOOSE h : Sums(h, w, S)
           g == CHOOSE h : Sums(h, v, S)
<1>1. Sums(f, w, S) /\ Sums(g, v, S)
  BY SumsExist
<1>2. SumOver(w, S) = f[S] /\ SumOver(v, S) = g[S]
  BY SumOverChosen
<1>3. S \in SUBSET S
  OBVIOUS
<1> HIDE DEF f, g
<1> QED BY <1>1, <1>2, <1>3, SumsLocal

LEMMA SumType ==
  ASSUME NEW S, IsFiniteSet(S), NEW w, \A x \in S : w[x] \in Int
  PROVE  SumOver(w, S) \in Int
<1> DEFINE G == {U \in SUBSET S : SumOver(w, U) \in Int}
<1>1. {} \in G
  BY SumEmpty
<1>2. ASSUME NEW U \in SUBSET S, U # {}
      PROVE  \E x \in U : U \ {x} \in G => U \in G
  <2>1. IsFiniteSet(U)
    BY FS_Subset
  <2>2. PICK c \in U : SumOver(w, U) = w[c] + SumOver(w, U \ {c})
    BY <1>2, <2>1, SumChosen
  <2>3. U \ {c} \in G => U \in G
    <3> HAVE SumOver(w, U \ {c}) \in Int
    <3>1. w[c] \in Int
      OBVIOUS
    <3> QED BY <2>2, <3>1
  <2> QED BY <2>3
<1>3. S \in G
  <2> HIDE DEF G
  <2> QED BY <1>1, <1>2, SetOfSubsets
<1> QED BY <1>3

\* Any element may be taken out.
LEMMA SumRemove ==
  ASSUME NEW S, IsFiniteSet(S), NEW w, \A x \in S : w[x] \in Int, NEW y \in S
  PROVE  SumOver(w, S) = w[y] + SumOver(w, S \ {y})
<1> DEFINE Free(U) == \A x \in U : SumOver(w, U) = w[x] + SumOver(w, U \ {x})
           Bad == {U \in SUBSET S : ~ Free(U)}
<1>1. \A V \in SUBSET S : IsFiniteSet(V) /\ SumOver(w, V) \in Int
  BY FS_Subset, SumType
<1>2. SUFFICES ASSUME Bad # {} PROVE FALSE
  OBVIOUS
<1>3. PICK U \in Bad : \A V \in Bad : V \subseteq U => V = U
  <2>1. Bad \subseteq SUBSET S
    OBVIOUS
  <2> HIDE DEF Bad
  <2> QED BY <1>2, <2>1, MinimalSubset
<1>4. PICK x \in U : SumOver(w, U) # w[x] + SumOver(w, U \ {x})
  BY <1>3
<1>5. PICK c \in U : SumOver(w, U) = w[c] + SumOver(w, U \ {c})
  BY <1>1, <1>3, <1>4, SumChosen
<1>6. x # c
  BY <1>4, <1>5
<1>7. Free(U \ {c}) /\ Free(U \ {x})
  <2>1. \A z \in U : U \ {z} \in SUBSET S /\ U \ {z} \subseteq U /\ U \ {z} # U
    BY <1>3
  <2>2. \A z \in U : U \ {z} \notin Bad
    BY <1>3, <2>1
  <2> HIDE DEF Free
  <2> QED BY <2>1, <2>2
<1>8. SumOver(w, U \ {c}) = w[x] + SumOver(w, (U \ {c}) \ {x})
  BY <1>6, <1>7
<1>9. SumOver(w, U \ {x}) = w[c] + SumOver(w, (U \ {c}) \ {x})
  <2>1. (U \ {c}) \ {x} = (U \ {x}) \ {c}
    OBVIOUS
  <2>2. SumOver(w, U \ {x}) = w[c] + SumOver(w, (U \ {x}) \ {c})
    BY <1>6, <1>7
  <2> QED BY <2>1, <2>2
<1>10. /\ w[x] \in Int /\ w[c] \in Int
       /\ SumOver(w, (U \ {c}) \ {x}) \in Int
  BY <1>1, <1>3
<1> QED BY <1>4, <1>5, <1>8, <1>9, <1>10

\* One element put in.
LEMMA SumAdd ==
  ASSUME NEW S, IsFiniteSet(S), NEW y, y \notin S,
         NEW w, \A x \in S \cup {y} : w[x] \in Int
  PROVE  SumOver(w, S \cup {y}) = w[y] + SumOver(w, S)
<1>1. IsFiniteSet(S \cup {y})
  BY FS_AddElement
<1>2. (S \cup {y}) \ {y} = S
  OBVIOUS
<1>3. SumOver(w, S \cup {y}) = w[y] + SumOver(w, (S \cup {y}) \ {y})
  BY <1>1, SumRemove
<1> QED BY <1>2, <1>3

LEMMA SumSingle ==
  ASSUME NEW y, NEW w, w[y] \in Int
  PROVE  SumOver(w, {y}) = w[y]
<1>1. IsFiniteSet({}) /\ SumOver(w, {}) = 0
  BY FS_EmptySet, SumEmpty
<1>2. SumOver(w, {} \cup {y}) = w[y] + SumOver(w, {})
  BY <1>1, SumAdd
<1>3. {} \cup {y} = {y}
  OBVIOUS
<1> QED BY <1>1, <1>2, <1>3

\* Larger terms, larger sum.
LEMMA SumMonotone ==
  ASSUME NEW S, IsFiniteSet(S), NEW w, NEW v,
         \A x \in S : w[x] \in Int /\ v[x] \in Int /\ w[x] <= v[x]
  PROVE  SumOver(w, S) <= SumOver(v, S)
<1> DEFINE G == {U \in SUBSET S : SumOver(w, U) <= SumOver(v, U)}
<1>1. {} \in G
  BY SumEmpty
<1>2. ASSUME NEW U \in SUBSET S, U # {}
      PROVE  \E x \in U : U \ {x} \in G => U \in G
  <2>1. \A V \in SUBSET S : IsFiniteSet(V) /\ SumOver(w, V) \in Int
                              /\ SumOver(v, V) \in Int
    BY FS_Subset, SumType
  <2>2. PICK c \in U : TRUE
    BY <1>2
  <2>3. /\ SumOver(w, U) = w[c] + SumOver(w, U \ {c})
        /\ SumOver(v, U) = v[c] + SumOver(v, U \ {c})
    BY <2>1, SumRemove
  <2>4. U \ {c} \in G => U \in G
    <3> HAVE SumOver(w, U \ {c}) <= SumOver(v, U \ {c})
    <3>1. /\ w[c] \in Int /\ v[c] \in Int /\ w[c] <= v[c]
          /\ SumOver(w, U \ {c}) \in Int /\ SumOver(v, U \ {c}) \in Int
      BY <2>1
    <3> QED BY <2>3, <3>1
  <2> QED BY <2>4
<1>3. S \in G
  <2> HIDE DEF G
  <2> QED BY <1>1, <1>2, SetOfSubsets
<1> QED BY <1>3

\* Terms that are sums.
LEMMA SumPlus ==
  ASSUME NEW S, IsFiniteSet(S), NEW w, NEW v, NEW u,
         \A x \in S : v[x] \in Int /\ u[x] \in Int /\ w[x] = v[x] + u[x]
  PROVE  SumOver(w, S) = SumOver(v, S) + SumOver(u, S)
<1> DEFINE G == {U \in SUBSET S : SumOver(w, U) = SumOver(v, U) + SumOver(u, U)}
<1>1. {} \in G
  BY SumEmpty
<1>2. ASSUME NEW U \in SUBSET S, U # {}
      PROVE  \E x \in U : U \ {x} \in G => U \in G
  <2>1. \A V \in SUBSET S : /\ IsFiniteSet(V) /\ SumOver(v, V) \in Int
                            /\ SumOver(u, V) \in Int
    BY FS_Subset, SumType
  <2>2. PICK c \in U : TRUE
    BY <1>2
  <2>3. \A x \in U : w[x] \in Int
    OBVIOUS
  <2>4. /\ SumOver(w, U) = w[c] + SumOver(w, U \ {c})
        /\ SumOver(v, U) = v[c] + SumOver(v, U \ {c})
        /\ SumOver(u, U) = u[c] + SumOver(u, U \ {c})
    BY <2>1, <2>3, SumRemove
  <2>5. U \ {c} \in G => U \in G
    <3> HAVE SumOver(w, U \ {c}) = SumOver(v, U \ {c}) + SumOver(u, U \ {c})
    <3>1. /\ v[c] \in Int /\ u[c] \in Int /\ w[c] = v[c] + u[c]
          /\ SumOver(v, U \ {c}) \in Int /\ SumOver(u, U \ {c}) \in Int
      BY <2>1
    <3> QED BY <2>4, <3>1
  <2> QED BY <2>5
<1>3. S \in G
  <2> HIDE DEF G
  <2> QED BY <1>1, <1>2, SetOfSubsets
<1> QED BY <1>3

\* A sum over two sets that have nothing in common.
LEMMA SumUnion ==
  ASSUME NEW S, IsFiniteSet(S), NEW T, IsFiniteSet(T), S \cap T = {},
         NEW w, \A x \in S \cup T : w[x] \in Int
  PROVE  SumOver(w, S \cup T) = SumOver(w, S) + SumOver(w, T)
<1> DEFINE G == {U \in SUBSET T : SumOver(w, S \cup U) = SumOver(w, S) + SumOver(w, U)}
<1>1. {} \in G
  <2>1. SumOver(w, S) \in Int /\ SumOver(w, {}) = 0 /\ S \cup {} = S
    BY SumType, SumEmpty
  <2> QED BY <2>1
<1>2. ASSUME NEW U \in SUBSET T, U # {}
      PROVE  \E x \in U : U \ {x} \in G => U \in G
  <2>1. PICK c \in U : TRUE
    BY <1>2
  <2>2. IsFiniteSet(U) /\ IsFiniteSet(U \ {c}) /\ IsFiniteSet(S \cup U)
    BY FS_Subset, FS_Union
  <2>3. SumOver(w, U) = w[c] + SumOver(w, U \ {c})
    BY <2>2, SumRemove
  <2>4. SumOver(w, S \cup U) = w[c] + SumOver(w, (S \cup U) \ {c})
    BY <2>2, SumRemove
  <2>5. (S \cup U) \ {c} = S \cup (U \ {c})
    OBVIOUS
  <2>6. U \ {c} \in G => U \in G
    <3> HAVE SumOver(w, S \cup (U \ {c})) = SumOver(w, S) + SumOver(w, U \ {c})
    <3>1. w[c] \in Int /\ SumOver(w, S) \in Int /\ SumOver(w, U \ {c}) \in Int
      BY <2>2, SumType
    <3>2. SumOver(w, S \cup U) = w[c] + (SumOver(w, S) + SumOver(w, U \ {c}))
      BY <2>4, <2>5
    <3>3. SumOver(w, S \cup U) = SumOver(w, S) + SumOver(w, U)
      BY <2>3, <3>1, <3>2
    <3> QED BY <3>3
  <2> QED BY <2>6
<1>3. T \in G
  <2> HIDE DEF G
  <2> QED BY <1>1, <1>2, SetOfSubsets
<1> QED BY <1>3

\* A sum over the image of a set: of the terms at the images, which are distinct.
LEMMA SumImage ==
  ASSUME NEW S, IsFiniteSet(S), NEW g, \A x, y \in S : g[x] = g[y] => x = y,
         NEW w, NEW v, \A x \in S : w[g[x]] \in Int /\ v[x] = w[g[x]]
  PROVE  /\ IsFiniteSet({g[x] : x \in S})
         /\ SumOver(w, {g[x] : x \in S}) = SumOver(v, S)
<1> DEFINE Image(U) == {g[x] : x \in U}
           G == {U \in SUBSET S : /\ IsFiniteSet(Image(U))
                                  /\ SumOver(w, Image(U)) = SumOver(v, U)}
<1>1. {} \in G
  <2>1. Image({}) = {}
    OBVIOUS
  <2> QED BY <2>1, SumEmpty, FS_EmptySet
<1>2. ASSUME NEW U \in SUBSET S, U # {}
      PROVE  \E x \in U : U \ {x} \in G => U \in G
  <2>1. PICK c \in U : TRUE
    BY <1>2
  <2>2. /\ IsFiniteSet(U) /\ IsFiniteSet(U \ {c})
        /\ \A x \in U : v[x] \in Int
    BY FS_Subset
  <2>3. SumOver(v, U) = v[c] + SumOver(v, U \ {c})
    BY <2>2, SumRemove
  <2>4. Image(U) = Image(U \ {c}) \cup {g[c]} /\ g[c] \notin Image(U \ {c})
    OBVIOUS
  <2>5. \A y \in Image(U) : w[y] \in Int
    OBVIOUS
  <2>6. U \ {c} \in G => U \in G
    <3> HAVE U \ {c} \in G
    <3>1. /\ IsFiniteSet(Image(U \ {c}))
          /\ SumOver(w, Image(U \ {c})) = SumOver(v, U \ {c})
      OBVIOUS
    <3>2. /\ IsFiniteSet(Image(U))
          /\ SumOver(w, Image(U)) = w[g[c]] + SumOver(w, Image(U \ {c}))
      <4> HIDE DEF Image, G
      <4>1. \A y \in Image(U \ {c}) \cup {g[c]} : w[y] \in Int
        BY <2>4, <2>5
      <4>2. IsFiniteSet(Image(U \ {c}) \cup {g[c]})
        BY <3>1, FS_AddElement
      <4>3. SumOver(w, Image(U \ {c}) \cup {g[c]}) = w[g[c]] + SumOver(w, Image(U \ {c}))
        BY <2>4, <3>1, <4>1, SumAdd
      <4> QED BY <2>4, <4>2, <4>3
    <3>3. w[g[c]] = v[c]
      OBVIOUS
    <3> QED BY <2>3, <3>1, <3>2, <3>3
  <2> QED BY <2>6
<1>3. S \in G
  <2> HIDE DEF G
  <2> QED BY <1>1, <1>2, SetOfSubsets
<1> QED BY <1>3

\* Nothing but zeros.
LEMMA SumZero ==
  ASSUME NEW S, IsFiniteSet(S), NEW w, \A x \in S : w[x] = 0
  PROVE  SumOver(w, S) = 0
<1> DEFINE G == {U \in SUBSET S : SumOver(w, U) = 0}
<1>1. {} \in G
  BY SumEmpty
<1>2. ASSUME NEW U \in SUBSET S, U # {}
      PROVE  \E x \in U : U \ {x} \in G => U \in G
  <2>1. IsFiniteSet(U)
    BY FS_Subset
  <2>2. PICK c \in U : SumOver(w, U) = w[c] + SumOver(w, U \ {c})
    BY <1>2, <2>1, SumChosen
  <2> QED BY <2>2
<1>3. S \in G
  <2> HIDE DEF G
  <2> QED BY <1>1, <1>2, SetOfSubsets
<1> QED BY <1>3

\* No term below zero, no sum below zero.
LEMMA SumNatural ==
  ASSUME NEW S, IsFiniteSet(S), NEW w, \A x \in S : w[x] \in Nat
  PROVE  SumOver(w, S) \in Nat
<1> DEFINE v == [x \in S |-> 0]
<1>1. SumOver(v, S) = 0
  BY SumZero
<1>2. SumOver(v, S) <= SumOver(w, S)
  <2>1. \A x \in S : v[x] \in Int /\ w[x] \in Int /\ v[x] <= w[x]
    OBVIOUS
  <2> HIDE DEF v
  <2> QED BY <2>1, SumMonotone
<1>3. SumOver(w, S) \in Int
  BY SumType
<1> QED BY <1>1, <1>2, <1>3

\* A part of a sum and the rest of it.
LEMMA SumPart ==
  ASSUME NEW S, IsFiniteSet(S), NEW T \in SUBSET S, NEW w, \A x \in S : w[x] \in Int
  PROVE  SumOver(w, S) = SumOver(w, T) + SumOver(w, S \ T)
<1>1. IsFiniteSet(T) /\ IsFiniteSet(S \ T) /\ T \cap (S \ T) = {} /\ T \cup (S \ T) = S
  BY FS_Subset
<1> QED BY <1>1, SumUnion

-----------------------------------------------------------------------------
(* The contract a signal buys                                              *)

\* Numbers, the missing ones 0.
InNumbers(v) == {v.bid, v.ask, v.ltp, v.volume, v.oi} \subseteq Nat

\* A chain of one index whose quotes are what a provider may tell.
SoundChain(chain, u) ==
  /\ chain.contracts \subseteq {c \in Listed : UnderlyingOf[c] = u}
  /\ chain.spot \in Int
  /\ chain.today \in Int
  /\ \A c \in chain.contracts :
       chain.quotes[c] # NothingTold => InNumbers(chain.quotes[c].value)

\* A share is a number, of whatever.
LEMMA ShareNat ==
  ASSUME NEW a \in Int, NEW b \in Int
  PROVE  Share(a, b) \in Nat
<1>1. CASE b <= 0
  BY <1>1 DEF Share
<1>2. CASE b > 0
  <2>1. Magnitude(a) * 10000 \in Nat
    BY DEF Magnitude
  <2>2. (Magnitude(a) * 10000) \div b \in Nat
    <3> DEFINE m == Magnitude(a) * 10000
    <3> HIDE DEF m
    <3>1. \A x \in Nat : x \div b \in Nat
      BY <1>2
    <3> QED BY <2>1, <3>1 DEF m
  <2> QED BY <1>2, <2>2 DEF Share
<1> QED BY <1>1, <1>2

\* Nor is a score anything else.
LEMMA ScoreInt ==
  ASSUME NEW chain, NEW c \in Listed, NEW atm, InNumbers(chain.quotes[c].value),
         chain.spot \in Int, chain.today \in Int
  PROVE  Score(c, chain, atm) \in Int
<1> DEFINE v == chain.quotes[c].value
           kind == Moneyness(TypeOf[c], chain.spot, StrikeOf[c], atm)
           money == CASE kind = "ATM" -> 10000 [] kind = "ITM" -> 7000 [] OTHER -> 4500
           oi == Share(v.oi, IF MinOpenInterest > 0 THEN 4 * MinOpenInterest ELSE 1)
           volume == Share(v.volume, IF MinVolume > 0 THEN 4 * MinVolume ELSE 1)
           tight == IF MaxSpreadPct = 0 THEN 0
                    ELSE 10000 - Share(200 * (v.ask - v.bid),
                                       MaxSpreadPct * (v.bid + v.ask))
           days == ExpiryOf[c] - chain.today
           tenor == CASE days <= 0 -> 0
                      [] days = 1 -> 5500
                      [] days <= 10 -> 10000
                      [] OTHER -> 5000
<1>1. money \in Int
  <2> HIDE DEF kind
  <2> QED OBVIOUS
<1>2. oi \in Int /\ volume \in Int
  <2>1. \A a, b \in Int : Share(a, b) \in Int
    BY ShareNat
  <2>2. /\ v.oi \in Int /\ v.volume \in Int
        /\ (IF MinOpenInterest > 0 THEN 4 * MinOpenInterest ELSE 1) \in Int
        /\ (IF MinVolume > 0 THEN 4 * MinVolume ELSE 1) \in Int
    BY OptionsParameters DEF InNumbers
  <2> QED BY <2>1, <2>2
<1>3. tight \in Int
  <2>1. 200 * (v.ask - v.bid) \in Int /\ MaxSpreadPct * (v.bid + v.ask) \in Int
    BY OptionsParameters DEF InNumbers
  <2>2. Share(200 * (v.ask - v.bid), MaxSpreadPct * (v.bid + v.ask)) \in Nat
    BY <2>1, ShareNat
  <2> QED BY <2>2
<1>4. tenor \in Int
  <2>1. days \in Int
    BY OptionsParameters
  <2> HIDE DEF days
  <2> QED BY <2>1
<1>5. Score(c, chain, atm) =
        (12 * 10000 + 12 * money + 5 * (oi + volume) + 12 * tight + 10 * oi
           + 10 * volume + 10 * tenor + 8 * 10000) \div 100
  BY DEF Score
<1> HIDE DEF money, oi, volume, tight, tenor
<1> QED BY <1>1, <1>2, <1>3, <1>4, <1>5

\* The keys of a ranking as numbers: three to be large, a fraction and a last
\* number to be small.
Precedes(j, k) ==
  \/ j.first > k.first
  \/ j.first = k.first /\ j.second > k.second
  \/ j.first = k.first /\ j.second = k.second /\ j.third > k.third
  \/ /\ j.first = k.first /\ j.second = k.second /\ j.third = k.third
     /\ \/ j.part * k.whole < k.part * j.whole
        \/ j.part * k.whole = k.part * j.whole /\ j.last < k.last

Keys == [first : Int, second : Int, third : Int, part : Int, whole : Nat \ {0}, last : Int]

\* Fractions are ordered like numbers.
LEMMA Fractions ==
  ASSUME NEW a \in Int, NEW b \in Nat \ {0}, NEW c \in Int, NEW d \in Nat \ {0},
         NEW e \in Int, NEW f \in Nat \ {0}, a * d <= c * b, c * f <= e * d
  PROVE  /\ a * f <= e * b
         /\ a * f = e * b => a * d = c * b /\ c * f = e * d
<1>1. (a * d) * f <= (c * b) * f /\ (c * f) * b <= (e * d) * b
  OBVIOUS
<1>2. (a * d) * f = (a * f) * d /\ (c * b) * f = (c * f) * b /\ (e * d) * b = (e * b) * d
  OBVIOUS
<1>3. (a * f) * d <= (e * b) * d
  BY <1>1, <1>2
<1>4. \A x, y \in Int : x * d <= y * d => x <= y
  OBVIOUS
<1>5. a * f <= e * b
  BY <1>3, <1>4
<1>6. ASSUME a * f = e * b
      PROVE  a * d = c * b /\ c * f = e * d
  <2>1. (a * d) * f = (c * b) * f /\ (c * f) * b = (e * d) * b
    BY <1>1, <1>2, <1>6
  <2>2. \A x, y \in Int : /\ x * f = y * f => x = y
                          /\ x * b = y * b => x = y
    OBVIOUS
  <2> QED BY <2>1, <2>2
<1> QED BY <1>5, <1>6

LEMMA PrecedesTransitive ==
  ASSUME NEW i \in Keys, NEW j \in Keys, NEW k \in Keys, Precedes(i, j), Precedes(j, k)
  PROVE  Precedes(i, k)
<1>1. /\ i.part \in Int /\ j.part \in Int /\ k.part \in Int
      /\ i.whole \in Nat \ {0} /\ j.whole \in Nat \ {0} /\ k.whole \in Nat \ {0}
      /\ {i.first, j.first, k.first, i.second, j.second, k.second,
          i.third, j.third, k.third, i.last, j.last, k.last} \subseteq Int
  BY DEF Keys
<1> DEFINE Same(x, y) == x.first = y.first /\ x.second = y.second /\ x.third = y.third
           Ahead(x, y) == \/ x.first > y.first
                          \/ x.first = y.first /\ x.second > y.second
                          \/ x.first = y.first /\ x.second = y.second /\ x.third > y.third
<1>2. CASE Ahead(i, j) \/ Ahead(j, k)
  BY <1>1, <1>2 DEF Precedes
<1>3. CASE Same(i, j) /\ Same(j, k)
  <2>1. /\ i.part * j.whole \in Int /\ j.part * i.whole \in Int
        /\ j.part * k.whole \in Int /\ k.part * j.whole \in Int
        /\ i.part * k.whole \in Int /\ k.part * i.whole \in Int
    BY <1>1
  <2>2. /\ i.part * j.whole <= j.part * i.whole
        /\ j.part * k.whole <= k.part * j.whole
        /\ \/ i.part * j.whole < j.part * i.whole
           \/ j.part * k.whole < k.part * j.whole
           \/ i.last < k.last
    BY <1>1, <1>3, <2>1 DEF Precedes
  <2>3. /\ i.part * k.whole <= k.part * i.whole
        /\ i.part * k.whole = k.part * i.whole =>
             /\ i.part * j.whole = j.part * i.whole
             /\ j.part * k.whole = k.part * j.whole
    <3> DEFINE a == i.part  b == i.whole  c == j.part
               d == j.whole  e == k.part  f == k.whole
    <3>1. /\ a \in Int /\ c \in Int /\ e \in Int
          /\ b \in Nat \ {0} /\ d \in Nat \ {0} /\ f \in Nat \ {0}
          /\ a * d <= c * b /\ c * f <= e * d
      BY <1>1, <2>2
    <3> HIDE DEF a, b, c, d, e, f
    <3>2. /\ a * f <= e * b
          /\ a * f = e * b => a * d = c * b /\ c * f = e * d
      BY <3>1, Fractions
    <3> QED BY <3>2 DEF a, b, c, d, e, f
  <2>4. Same(i, k)
    BY <1>3
  <2> QED BY <2>1, <2>2, <2>3, <2>4 DEF Precedes
<1> QED BY <1>1, <1>2, <1>3 DEF Precedes

\* Of two different keys one precedes.
LEMMA PrecedesTotal ==
  ASSUME NEW j \in Keys, NEW k \in Keys, j.last # k.last
  PROVE  Precedes(j, k) \/ Precedes(k, j)
<1>1. /\ {j.first, k.first, j.second, k.second, j.third, k.third, j.last, k.last} \subseteq Int
      /\ j.part * k.whole \in Int /\ k.part * j.whole \in Int
  BY DEF Keys
<1> QED BY <1>1 DEF Precedes

KeyOf(c, chain, atm) ==
  LET v == chain.quotes[c].value
  IN [first |-> Score(c, chain, atm), second |-> v.oi, third |-> v.volume,
      part |-> v.ask - v.bid, whole |-> v.bid + v.ask, last |-> StrikeOf[c]]

\* rank_key compares what KeyOf collects.
LEMMA RankedByKey ==
  ASSUME NEW c, NEW d, NEW chain, NEW atm
  PROVE  Outranks(c, d, chain, atm) <=>
           Precedes(KeyOf(c, chain, atm), KeyOf(d, chain, atm))
<1> DEFINE v == chain.quotes[c].value
           w == chain.quotes[d].value
           s == Score(c, chain, atm)
           t == Score(d, chain, atm)
           j == <<s, v.oi, v.volume>>
           k == <<t, w.oi, w.volume>>
           cSpread == (v.ask - v.bid) * (w.bid + w.ask)
           dSpread == (w.ask - w.bid) * (v.bid + v.ask)
           Smaller == \/ cSpread < dSpread
                      \/ cSpread = dSpread /\ StrikeOf[c] < StrikeOf[d]
<1>1. Outranks(c, d, chain, atm) <=>
        \/ \E n \in 1..3 : j[n] > k[n] /\ \A i \in 1..(n - 1) : j[i] = k[i]
        \/ j = k /\ Smaller
  BY DEF Outranks
<1>2. Precedes(KeyOf(c, chain, atm), KeyOf(d, chain, atm)) <=>
        \/ s > t
        \/ s = t /\ v.oi > w.oi
        \/ s = t /\ v.oi = w.oi /\ v.volume > w.volume
        \/ s = t /\ v.oi = w.oi /\ v.volume = w.volume /\ Smaller
  BY DEF Precedes, KeyOf
<1> HIDE DEF s, t, Smaller
<1>3. (\E n \in 1..3 : j[n] > k[n] /\ \A i \in 1..(n - 1) : j[i] = k[i]) <=>
        \/ s > t
        \/ s = t /\ v.oi > w.oi
        \/ s = t /\ v.oi = w.oi /\ v.volume > w.volume
  <2>1. /\ j[1] = s /\ j[2] = v.oi /\ j[3] = v.volume
        /\ k[1] = t /\ k[2] = w.oi /\ k[3] = w.volume
    OBVIOUS
  <2> HIDE DEF j, k
  <2>2. /\ 1..3 = {1, 2, 3} /\ 1..(1 - 1) = {} /\ 1..(2 - 1) = {1} /\ 1..(3 - 1) = {1, 2}
    OBVIOUS
  <2>3. (\E n \in 1..3 : j[n] > k[n] /\ \A i \in 1..(n - 1) : j[i] = k[i]) <=>
          \/ j[1] > k[1]
          \/ j[2] > k[2] /\ j[1] = k[1]
          \/ j[3] > k[3] /\ j[1] = k[1] /\ j[2] = k[2]
    BY <2>2
  <2> QED BY <2>1, <2>3
<1>4. j = k <=> s = t /\ v.oi = w.oi /\ v.volume = w.volume
  OBVIOUS
<1> QED BY <1>1, <1>2, <1>3, <1>4

\* What the engine proposes is a valid and liquid contract of the chain.
LEMMA BestSound ==
  ASSUME NEW u, NEW chain, SoundChain(chain, u), NEW direction,
         BestContract(chain, u, direction) # NoContract
  PROVE  /\ BestContract(chain, u, direction) \in Kept(chain)
         /\ Liquid(chain.quotes[BestContract(chain, u, direction)].value)
<1> DEFINE type == AllowedType(direction)
           expiry == SelectedExpiry(chain, u)
           choice == Tradeable(chain, u, type)
           strikes == {StrikeOf[c] : c \in {k \in Kept(chain) : ExpiryOf[k] = expiry}}
           atm == AtmStrike(chain.spot, strikes)
           best == CHOOSE c \in choice : \A d \in choice \ {c} : Outranks(c, d, chain, atm)
           R == {e \in choice \X choice : Outranks(e[1], e[2], chain, atm)}
<1>1. choice # {} /\ BestContract(chain, u, direction) = best
  BY DEF BestContract
<1>2. \A c \in choice : /\ c \in Kept(chain) /\ ExpiryOf[c] = expiry
                        /\ TypeOf[c] = type /\ Liquid(chain.quotes[c].value)
  <2> HIDE DEF type
  <2> QED BY DEF Tradeable
<1> HIDE DEF choice, strikes, atm, expiry, type
<1>3. \A c \in choice : /\ c \in Listed /\ UnderlyingOf[c] = u
                        /\ InNumbers(chain.quotes[c].value)
  BY <1>2 DEF Kept, Valid, SoundChain
<1>4. \A c \in choice : KeyOf(c, chain, atm) \in Keys
  <2> TAKE c \in choice
  <2>1. Score(c, chain, atm) \in Int
    BY <1>3, ScoreInt DEF SoundChain
  <2>2. StrikeOf[c] \in Int
    BY <1>3, OptionsParameters
  <2>3. HasBoth(chain.quotes[c].value)
    BY <1>2 DEF Liquid
  <2> QED BY <1>3, <2>1, <2>2, <2>3 DEF KeyOf, Keys, InNumbers, HasBoth
<1>5. ASSUME NEW c \in choice, NEW d \in choice, c # d
      PROVE  <<c, d>> \in R \/ <<d, c>> \in R
  <2>1. StrikeOf[c] # StrikeOf[d]
    BY <1>2, <1>3, <1>5, CatalogContracts
  <2>2. KeyOf(c, chain, atm).last # KeyOf(d, chain, atm).last
    BY <2>1 DEF KeyOf
  <2> QED BY <1>4, <2>2, PrecedesTotal, RankedByKey
<1>6. ASSUME NEW c \in choice, NEW d \in choice, NEW e \in choice,
             <<c, d>> \in R, <<d, e>> \in R
      PROVE  <<c, e>> \in R
  BY <1>4, <1>6, PrecedesTransitive, RankedByKey
<1>7. IsFiniteSet(choice)
  BY <1>3, CatalogContracts, FS_Subset
<1>8. \E c \in choice : \A d \in choice \ {c} : <<c, d>> \in R
  <2> HIDE DEF R
  <2> QED BY <1>1, <1>5, <1>6, <1>7, FirstInOrder
<1>9. best \in choice
  BY <1>8
<1> QED BY <1>1, <1>2, <1>9
================================================================================
