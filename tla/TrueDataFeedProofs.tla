-------------------------- MODULE TrueDataFeedProofs --------------------------
(***************************************************************************)
(* Theorems about the vendor adapter.  The inductive invariant ties the    *)
(* adapter's map to the numbering of the line it listens on: every entry   *)
(* of the map is an entry of that numbering (of an earlier one only after  *)
(* a connect that raised, when nobody polls).  A number that resolves then *)
(* resolves to the symbol the vendor meant.  With it every call of the     *)
(* adapter is a call of the provider the loop relies on.  It also keeps    *)
(* the plan within the vendor's limit: the planner's order of the options  *)
(* is a strict one, so those with few before them are few.                 *)
(***************************************************************************)
EXTENDS TrueDataFeed, FiniteSetTheorems, WellFoundedInduction, TLAPS

-----------------------------------------------------------------------------
(* Numbers and ranks                                                       *)

\* Of some natural numbers one is the least.
LEMMA LeastNatural ==
  ASSUME NEW T, T \subseteq Nat, T # {}
  PROVE  \E n \in T : \A m \in T : n <= m
<1> DEFINE R == {ss \in Nat \X Nat : ss[1] < ss[2]}
<1>1. IsWellFoundedOn(R, Nat)
  BY NatLessThanWellFounded DEF OpToRel
<1>2. PICK n \in T : \A m \in T : ~ (<<m, n>> \in R)
  <2> HIDE DEF R
  <2> QED BY <1>1, WFMin
<1>3. ASSUME NEW m \in T PROVE n <= m
  <2>1. m \in Nat /\ n \in Nat
    OBVIOUS
  <2>2. ~ (m < n)
    BY <1>2, <2>1
  <2> QED BY <2>1, <2>2
<1> QED BY <1>3

\* A set that maps one to one into a finite one is no larger.
LEMMA NoLarger ==
  ASSUME NEW S, NEW T, IsFiniteSet(T), NEW g,
         \A x \in S : g[x] \in T, \A x, y \in S : g[x] = g[y] => x = y
  PROVE  IsFiniteSet(S) /\ Cardinality(S) <= Cardinality(T)
<1> DEFINE h == [x \in S |-> g[x]]
<1>1. h \in Injection(S, T)
  BY DEF Injection, IsInjective
<1> HIDE DEF h
<1> QED BY <1>1, FS_Injection

\* The values of a function on a finite set.
LEMMA FiniteImage ==
  ASSUME NEW S, IsFiniteSet(S), NEW g
  PROVE  IsFiniteSet({g[x] : x \in S})
<1> DEFINE T == {g[x] : x \in S}
           h == [x \in S |-> g[x]]
<1>1. h \in Surjection(S, T)
  BY DEF Surjection
<1> HIDE DEF h
<1> QED BY <1>1, FS_Surjection

Before(S, R, x) == {y \in S : <<y, x>> \in R}

\* In a strict order of a finite set no more than n elements have fewer than
\* n elements before them.
LEMMA FirstFew ==
  ASSUME NEW S, IsFiniteSet(S), NEW R, NEW n \in Nat,
         \A x \in S : <<x, x>> \notin R,
         \A x, y \in S : x # y => <<x, y>> \in R \/ <<y, x>> \in R,
         \A x, y, z \in S : <<x, y>> \in R /\ <<y, z>> \in R => <<x, z>> \in R,
         NEW F \in SUBSET S,
         \A x \in F : Cardinality(Before(S, R, x)) < n
  PROVE  IsFiniteSet(F) /\ Cardinality(F) <= n
<1> DEFINE rank == [x \in S |-> Cardinality(Before(S, R, x))]
<1>1. ASSUME NEW x \in S
      PROVE  IsFiniteSet(Before(S, R, x)) /\ rank[x] \in Nat
  <2>1. Before(S, R, x) \in SUBSET S
    BY DEF Before
  <2>2. IsFiniteSet(Before(S, R, x))
    BY <2>1, FS_Subset
  <2> QED BY <2>2, FS_CardinalityType
<1>2. ASSUME NEW x \in S, NEW y \in S, <<x, y>> \in R
      PROVE  rank[x] # rank[y]
  <2>1. Before(S, R, x) \in SUBSET Before(S, R, y)
    BY <1>2 DEF Before
  <2>2. x \in Before(S, R, y) /\ x \notin Before(S, R, x)
    BY <1>2 DEF Before
  <2>3. IsFiniteSet(Before(S, R, y))
    BY <1>1
  <2>4. Cardinality(Before(S, R, y)) = Cardinality(Before(S, R, x)) => Before(S, R, y) = Before(S, R, x)
    BY <2>1, <2>3, FS_Subset
  <2> QED BY <2>2, <2>4
<1>3. \A x, y \in S : rank[x] = rank[y] => x = y
  BY <1>2
<1>4. \A x \in F : rank[x] \in 0..(n - 1)
  <2> SUFFICES ASSUME NEW x \in F PROVE rank[x] \in 0..(n - 1)
    OBVIOUS
  <2>1. x \in S /\ rank[x] < n
    OBVIOUS
  <2>2. rank[x] \in Nat
    BY <1>1, <2>1
  <2> HIDE DEF rank
  <2> QED BY <2>1, <2>2
<1>5. IsFiniteSet(0..(n - 1)) /\ Cardinality(0..(n - 1)) = n
  BY FS_Interval
<1>6. \A x, y \in F : rank[x] = rank[y] => x = y
  BY <1>3
<1> HIDE DEF rank
<1>7. IsFiniteSet(F) /\ Cardinality(F) <= Cardinality(0..(n - 1))
  BY <1>4, <1>5, <1>6, NoLarger
<1> QED BY <1>5, <1>7

\* Finitely many natural numbers have an upper bound.
LEMMA UpperBound ==
  ASSUME NEW S, IsFiniteSet(S), NEW g, \A x \in S : g[x] \in Nat
  PROVE  \E b \in Nat : \A x \in S : g[x] <= b
<1> DEFINE Above(x) == {y \in S : g[y] > g[x]}
           N == {Cardinality(Above(x)) : x \in S}
<1>1. CASE S = {}
  BY <1>1
<1>2. CASE S # {}
  <2>1. \A x \in S : IsFiniteSet(Above(x)) /\ Cardinality(Above(x)) \in Nat
    BY FS_Subset, FS_CardinalityType
  <2>2. PICK n \in N : \A m \in N : n <= m
    <3>1. N \subseteq Nat /\ N # {}
      BY <1>2, <2>1
    <3> HIDE DEF N
    <3> QED BY <3>1, LeastNatural
  <2>3. PICK x \in S : n = Cardinality(Above(x))
    OBVIOUS
  <2>4. ASSUME NEW y \in Above(x) PROVE FALSE
    <3>1. /\ y \in S /\ y \notin Above(y)
          /\ Above(y) \in SUBSET Above(x)
      OBVIOUS
    <3>2. Cardinality(Above(y)) <= Cardinality(Above(x))
      BY <2>1, <3>1, FS_Subset
    <3>3. Cardinality(Above(y)) # Cardinality(Above(x))
      BY <2>1, <2>4, <3>1, FS_Subset
    <3>4. Cardinality(Above(x)) <= Cardinality(Above(y))
      BY <2>2, <2>3, <3>1
    <3> HIDE DEF Above
    <3> QED BY <2>1, <3>1, <3>2, <3>3, <3>4
  <2> QED BY <2>4
<1> QED BY <1>1, <1>2

\* A finite family of positive naturals has a median.
LEMMA Median ==
  ASSUME NEW S, IsFiniteSet(S), S # {}, NEW g, \A s \in S : g[s] \in Nat \ {0}
  PROVE  LET half == Cardinality(S) \div 2
         IN \E m \in {g[s] : s \in S} :
              /\ Cardinality({s \in S : g[s] < m}) <= half
              /\ Cardinality({s \in S : g[s] <= m}) > half
<1> DEFINE half == Cardinality(S) \div 2
           Upto(m) == {s \in S : g[s] <= m}
           Many == {m \in Nat : Cardinality(Upto(m)) > half}
<1>1. Cardinality(S) \in Nat \ {0}
  BY FS_CardinalityType, FS_EmptySet
<1>2. half \in Nat /\ half < Cardinality(S)
  BY <1>1
<1>3. \A m \in Nat : IsFiniteSet(Upto(m)) /\ Cardinality(Upto(m)) \in Nat
  BY FS_Subset, FS_CardinalityType
<1>4. PICK b \in Nat : \A s \in S : g[s] <= b
  BY UpperBound
<1>5. Upto(b) = S
  BY <1>4
<1>6. b \in Many
  BY <1>2, <1>5
<1>7. PICK m \in Many : \A n \in Many : m <= n
  <2>1. Many \subseteq Nat /\ Many # {}
    BY <1>6
  <2> HIDE DEF Many
  <2> QED BY <2>1, LeastNatural
<1>8. m # 0
  <2>1. Upto(0) = {}
    OBVIOUS
  <2>2. Cardinality(Upto(0)) = 0
    BY <2>1, FS_EmptySet
  <2>3. Cardinality(Upto(m)) > half
    BY <1>7
  <2> HIDE DEF Upto, half
  <2> QED BY <1>2, <2>2, <2>3
<1>9. m - 1 \in Nat /\ m - 1 \notin Many
  BY <1>7, <1>8
<1>10. Cardinality(Upto(m - 1)) <= half
  <2> HIDE DEF Upto, half
  <2> QED BY <1>2, <1>3, <1>9
<1>11. {s \in S : g[s] < m} = Upto(m - 1)
  OBVIOUS
<1>12. Cardinality({s \in S : g[s] < m}) <= half
  BY <1>10, <1>11
<1>13. Cardinality(Upto(m)) > half
  OBVIOUS
<1>14. \E s \in S : g[s] = m
  <2> SUFFICES ASSUME \A s \in S : g[s] # m PROVE FALSE
    OBVIOUS
  <2>1. Upto(m) = Upto(m - 1)
    OBVIOUS
  <2> QED BY <1>2, <1>3, <1>9, <1>10, <1>13, <2>1
<1> QED BY <1>12, <1>13, <1>14

-----------------------------------------------------------------------------
(* Fractions                                                               *)

\* Products with a positive factor keep the order, and show it.
LEMMA Cancel ==
  ASSUME NEW s \in Nat \ {0}, NEW a \in Int, NEW b \in Int
  PROVE  /\ s * a <= s * b => a <= b
         /\ s * a < s * b => a < b
<1>1. CASE a < b
  BY <1>1
<1>2. CASE a = b
  BY <1>2
<1>3. CASE b < a
  <2>1. PICK d \in Nat \ {0} : a = b + d
    <3>1. a - b \in Nat \ {0} /\ a = b + (a - b)
      BY <1>3
    <3> QED BY <3>1
  <2>2. s * a = s * b + s * d
    BY <2>1
  <2>3. s * d > 0
    BY <2>1
  <2> QED BY <2>2, <2>3
<1> QED BY <1>1, <1>2, <1>3

LEMMA Scaled ==
  ASSUME NEW s \in Nat \ {0}, NEW a \in Int, NEW b \in Int
  PROVE  /\ a <= b => a * s <= b * s
         /\ a < b => a * s < b * s
<1>1. PICK d \in Int : b = a + d
  <2>1. b - a \in Int /\ b = a + (b - a)
    OBVIOUS
  <2> QED BY <2>1
<1>2. b * s = a * s + d * s
  BY <1>1
<1>3. d > 0 => d * s > 0
  OBVIOUS
<1>4. d = 0 => d * s = 0
  OBVIOUS
<1> QED BY <1>1, <1>2, <1>3, <1>4

\* The order of fractions a/s, b/t, c/u, multiplied out.
LEMMA CrossOrder ==
  ASSUME NEW a \in Int, NEW b \in Int, NEW c \in Int,
         NEW s \in Nat \ {0}, NEW t \in Nat \ {0}, NEW u \in Nat \ {0},
         a * t <= b * s, b * u <= c * t
  PROVE  /\ a * u <= c * s
         /\ a * t < b * s \/ b * u < c * t => a * u < c * s
<1>1. (a * t) * u = t * (a * u)
  OBVIOUS
<1>2. (b * s) * u = (b * u) * s
  OBVIOUS
<1>3. (c * t) * s = t * (c * s)
  OBVIOUS
<1>4. /\ (a * t) * u <= (b * s) * u
      /\ a * t < b * s => (a * t) * u < (b * s) * u
  BY Scaled
<1>5. /\ (b * u) * s <= (c * t) * s
      /\ b * u < c * t => (b * u) * s < (c * t) * s
  BY Scaled
<1> DEFINE x == a * u
           y == c * s
<1>6. x \in Int /\ y \in Int
  OBVIOUS
<1>7. /\ t * x <= t * y
      /\ a * t < b * s \/ b * u < c * t => t * x < t * y
  BY <1>1, <1>2, <1>3, <1>4, <1>5
<1>8. /\ t * x <= t * y => x <= y
      /\ t * x < t * y => x < y
  <2> HIDE DEF x, y
  <2> QED BY <1>6, Cancel
<1> QED BY <1>7, <1>8

-----------------------------------------------------------------------------
(* The invariant                                                           *)

Feeds ==
  [state: States, ids: [Ids -> Symbols \cup {Nothing}], ready: BOOLEAN,
   desired: SUBSET Symbols, told: [Symbols -> Told \cup {Nothing}],
   stamp: Stampable \cup {Never}, active: Times \cup {Never},
   attempts: 0..MaxAttempts, retryAt: Int]

Lines ==
  [numbering: Numberings, subscribed: SUBSET Symbols, missed: SUBSET Symbols]

\* The map of the adapter is part of the vendor's numbering.
FromLine(f, n) ==
  \A i \in Ids : f.ids[i] # Nothing => n[f.ids[i]] = i

\* What is booked was meant.
Meant(f) == \A s \in Symbols : f.told[s] # Nothing => f.told[s].of = s

Good(f, n) ==
  /\ f \in Feeds
  /\ FromLine(f, n)
  /\ f.ready => Mapped(f)
  /\ Meant(f)
  /\ Cardinality(f.desired) <= MaxSymbols

Answers == {"none", "raised", "refused", "control", "snapshot"}

\* The map is always part of a numbering; when the adapter may be polled it is
\* the one of the line it listens on.
MapSound == \E n \in Numberings : Good(feed, n) /\ (Polled => n = line.numbering)

IInv ==
  /\ clock \in Times
  /\ policy \in Policies
  /\ line \in Lines
  /\ answer \in Answers
  /\ MapSound

-----------------------------------------------------------------------------
(* The helpers of the adapter keep Good.                                   *)

LEMMA NothingIsNoSymbol == Nothing \notin Symbols
  BY AdapterConstants

\* Changes of the fields the invariant does not speak of.
LEMMA StateGood ==
  ASSUME NEW f, NEW n, Good(f, n), NEW st \in States
  PROVE  Good([f EXCEPT !.state = st], n)
  BY DEF Good, Feeds, FromLine, Meant, Mapped

LEMMA AliveGood ==
  ASSUME NEW f, NEW n, Good(f, n), clock \in Times
  PROVE  Good(Alive(f), n) /\ Alive(f).state = f.state
  BY DEF Good, Feeds, FromLine, Meant, Mapped, Alive

LEMMA RetryGood ==
  ASSUME NEW f, NEW n, Good(f, n), NEW r \in Int
  PROVE  Good([f EXCEPT !.retryAt = r], n)
  BY DEF Good, Feeds, FromLine, Meant, Mapped

LEMMA LivelyGood ==
  ASSUME NEW f, NEW n, Good(f, n), clock \in Times
  PROVE  Good(Lively(f), n)
<1> DEFINE g == Alive(f)
           st == IF g.state = "READY" THEN "RUNNING" ELSE g.state
<1>1. Good(g, n)
  BY AliveGood
<1>2. st \in States
  BY <1>1 DEF Good, Feeds, States
<1>3. Lively(f) = [g EXCEPT !.state = st]
  BY DEF Lively
<1> HIDE DEF g, st
<1> QED
  BY <1>1, <1>2, <1>3, StateGood

\* An empty map fits every numbering.
LEMMA UnmappedGood ==
  ASSUME NEW f, NEW n, NEW m, Good(f, n)
  PROVE  Good(Unmapped(f), m)
<1> DEFINE none == [i \in Ids |-> Nothing]
           g == [f EXCEPT !.ids = none]
           h == [g EXCEPT !.ready = FALSE]
<1>1. none \in [Ids -> Symbols \cup {Nothing}] /\ \A i \in Ids : none[i] = Nothing
  OBVIOUS
<1>2. f \in Feeds /\ Meant(f) /\ Cardinality(f.desired) <= MaxSymbols
  BY DEF Good
<1>3. Unmapped(f) = h
  BY <1>2 DEF Unmapped, Feeds
<1> HIDE DEF none
<1>4. /\ g \in Feeds /\ g.ids = none /\ g.told = f.told
      /\ g.desired = f.desired
  BY <1>1, <1>2 DEF Feeds
<1> HIDE DEF g
<1>5. /\ h \in Feeds /\ h.ids = none /\ h.told = f.told /\ h.ready = FALSE
      /\ h.desired = f.desired
  BY <1>4 DEF Feeds
<1> HIDE DEF h
<1>6. FromLine(h, m) /\ Meant(h)
  BY <1>1, <1>2, <1>5 DEF FromLine, Meant
<1> QED
  BY <1>2, <1>3, <1>5, <1>6 DEF Good

-----------------------------------------------------------------------------
(* The plan keeps to the vendor's limit.                                   *)

\* The least of a set of naturals, or none.
LEMMA EarliestIs ==
  ASSUME NEW S, S \subseteq Nat
  PROVE  /\ S = {} <=> Earliest(S) = NoDate
         /\ S # {} => Earliest(S) \in S /\ \A e \in S : Earliest(S) <= e
<1>1. CASE S = {}
  BY <1>1 DEF Earliest
<1>2. CASE S # {}
  <2>1. \E d \in S : \A e \in S : d <= e
    BY <1>2, LeastNatural
  <2>2. Earliest(S) \in S /\ \A e \in S : Earliest(S) <= e
    BY <1>2, <2>1 DEF Earliest
  <2>3. Earliest(S) # NoDate
    BY <2>2 DEF NoDate
  <2> QED BY <1>2, <2>2, <2>3
<1> QED BY <1>1, <1>2

\* The step of a chain is positive.
LEMMA PlanStepPositive ==
  ASSUME NEW T, T \subseteq Nat, IsFiniteSet(T)
  PROVE  PlanStep(T) \in Nat \ {0}
<1> DEFINE next(s) == Earliest({t \in T : t > s})
           lower == {s \in T : next(s) # NoDate}
           gap(s) == next(s) - s
           half == Cardinality(lower) \div 2
           Mid(m) == /\ Cardinality({s \in lower : gap(s) < m}) <= half
                     /\ Cardinality({s \in lower : gap(s) <= m}) > half
           g == [s \in lower |-> gap(s)]
<1>1. PlanStep(T) = IF lower = {} THEN 50
                    ELSE CHOOSE m \in {gap(s) : s \in lower} : Mid(m)
  BY DEF PlanStep
<1>2. ASSUME NEW s \in lower
      PROVE  gap(s) \in Nat \ {0}
  <2> DEFINE U == {t \in T : t > s}
  <2>1. U \subseteq Nat /\ Earliest(U) # NoDate
    OBVIOUS
  <2>2. Earliest(U) \in U
    <3> HIDE DEF U
    <3> QED BY <2>1, EarliestIs
  <2>3. next(s) \in Nat /\ next(s) > s /\ s \in Nat
    BY <2>2
  <2> HIDE DEF next
  <2> QED BY <2>3
<1>3. IsFiniteSet(lower)
  BY FS_Subset
<1>4. CASE lower = {}
  <2> HIDE DEF lower
  <2> QED BY <1>1, <1>4
<1>5. CASE lower # {}
  <2>1. \A s \in lower : g[s] = gap(s) /\ g[s] \in Nat \ {0}
    BY <1>2
  <2>2. \E m \in {g[s] : s \in lower} :
          /\ Cardinality({s \in lower : g[s] < m}) <= Cardinality(lower) \div 2
          /\ Cardinality({s \in lower : g[s] <= m}) > Cardinality(lower) \div 2
    <3> HIDE DEF g, lower
    <3> QED BY <1>3, <1>5, <2>1, Median
  <2>3. {g[s] : s \in lower} = {gap(s) : s \in lower}
    BY <2>1
  <2>4. \A m : /\ {s \in lower : g[s] < m} = {s \in lower : gap(s) < m}
               /\ {s \in lower : g[s] <= m} = {s \in lower : gap(s) <= m}
    BY <2>1
  <2>5. \E m \in {gap(s) : s \in lower} : Mid(m)
    <3> HIDE DEF g, lower, gap
    <3> QED BY <2>2, <2>3, <2>4
  <2> DEFINE m == CHOOSE k \in {gap(s) : s \in lower} : Mid(k)
  <2>6. m \in {gap(s) : s \in lower}
    <3> HIDE DEF lower, gap, Mid
    <3> QED BY <2>5
  <2>7. PlanStep(T) = m
    BY <1>1, <1>5
  <2> HIDE DEF m, gap
  <2> QED BY <1>2, <2>6, <2>7
<1> QED BY <1>4, <1>5

\* The planner keeps to the room it has: the nearest options are few.
LEMMA PlanFits ==
  ASSUME NEW options, IsFiniteSet(options), NEW selected, NEW spots, NEW window,
         NEW room \in Nat,
         \A o \in options : /\ o.strike \in Nat /\ o.name \in Nat
                            /\ spots[o.underlying] \in Nat,
         \A o, p \in options : o.name = p.name => o = p
  PROVE  LET near == PlanOptions(options, selected, spots, window, room)
         IN IsFiniteSet(near) /\ Cardinality(near) <= room
<1> DEFINE peers(u) == {o \in options : o.underlying = u /\ o.expiry = selected[u]}
           step(u) == PlanStep({o.strike : o \in peers(u)})
           far(o) == Gap(o.strike, PlanAtm(spots[o.underlying],
                                           step(o.underlying)))
           wanted == {o \in options : /\ spots[o.underlying] > 0
                                      /\ o \in peers(o.underlying)
                                      /\ far(o) <= window * step(o.underlying)}
           nearer(o, p) ==
             \/ far(o) * step(p.underlying) < far(p) * step(o.underlying)
             \/ /\ far(o) * step(p.underlying) = far(p) * step(o.underlying)
                /\ o.name < p.name
           R == {z \in wanted \X wanted : nearer(z[1], z[2])}
           F == {x \in wanted : Cardinality({y \in wanted : <<y, x>> \in R}) < room}
<1>1. wanted \in SUBSET options /\ IsFiniteSet(wanted)
  BY FS_Subset
<1>2. ASSUME NEW u
      PROVE  step(u) \in Nat \ {0}
  <2> DEFINE h == [o \in options |-> o.strike]
             T == {o.strike : o \in peers(u)}
  <2>1. IsFiniteSet(peers(u))
    BY FS_Subset
  <2>2. T = {h[o] : o \in peers(u)}
    OBVIOUS
  <2>3. IsFiniteSet({h[o] : o \in peers(u)})
    <3> HIDE DEF h, peers
    <3> QED BY <2>1, FiniteImage
  <2>4. T \subseteq Nat
    OBVIOUS
  <2>5. IsFiniteSet(T)
    BY <2>2, <2>3
  <2> HIDE DEF T
  <2>6. PlanStep(T) \in Nat \ {0}
    BY <2>4, <2>5, PlanStepPositive
  <2> QED BY <2>6 DEF T
<1>3. ASSUME NEW o \in wanted
      PROVE  far(o) \in Int
  <2> DEFINE u == o.underlying
             s == step(u)
             x == spots[u]
  <2>1. o.strike \in Nat /\ x \in Nat
    OBVIOUS
  <2>2. s \in Nat \ {0}
    BY <1>2
  <2>3. far(o) = Gap(o.strike, PlanAtm(x, s))
    OBVIOUS
  <2> HIDE DEF s, x, far
  <2>4. x \div s \in Int /\ x % s \in Int
    BY <2>1, <2>2
  <2>5. PlanAtm(x, s) \in Int
    <3> DEFINE q == x \div s
    <3>1. (q + 1) * s \in Int /\ q * s \in Int
      <4> HIDE DEF q
      <4> QED BY <2>2, <2>4 DEF q
    <3>2. PlanAtm(x, s) = (q + 1) * s \/ PlanAtm(x, s) = q * s
      BY DEF PlanAtm
    <3> HIDE DEF q
    <3> QED BY <3>1, <3>2
  <2> QED BY <2>1, <2>3, <2>5 DEF Gap
<1>4. \A x, y \in wanted : <<x, y>> \in R <=> nearer(x, y)
  <2> HIDE DEF wanted, nearer
  <2> QED OBVIOUS
<1>5. PlanOptions(options, selected, spots, window, room) = F
  <2>1. PlanOptions(options, selected, spots, window, room)
          = {o \in wanted : Cardinality({p \in wanted : nearer(p, o)}) < room}
    BY DEF PlanOptions
  <2>2. \A o \in wanted : {p \in wanted : nearer(p, o)}
                            = {p \in wanted : <<p, o>> \in R}
    <3> HIDE DEF wanted, nearer, R
    <3> QED BY <1>4
  <2> HIDE DEF wanted, nearer, R
  <2> QED BY <2>1, <2>2
<1>6. \A o, p \in wanted : /\ o.name \in Nat /\ p.name \in Nat
                           /\ o.name = p.name => o = p
  BY <1>1
<1> HIDE DEF step, far, wanted, R
<1>7. ASSUME NEW x \in wanted, NEW y \in wanted
      PROVE  far(x) * step(y.underlying) \in Int
  BY <1>2, <1>3
<1>8. \A x \in wanted : <<x, x>> \notin R
  BY <1>4, <1>6, <1>7
<1>9. \A x, y \in wanted : x # y => <<x, y>> \in R \/ <<y, x>> \in R
  BY <1>4, <1>6, <1>7
<1>10. ASSUME NEW x \in wanted, NEW y \in wanted, NEW z \in wanted,
              <<x, y>> \in R, <<y, z>> \in R
       PROVE  <<x, z>> \in R
  <2> DEFINE a == far(x)
             b == far(y)
             c == far(z)
             s == step(x.underlying)
             t == step(y.underlying)
             u == step(z.underlying)
  <2>1. nearer(x, y) /\ nearer(y, z)
    BY <1>4, <1>10
  <2>2. a \in Int /\ b \in Int /\ c \in Int
    BY <1>3
  <2>3. s \in Nat \ {0} /\ t \in Nat \ {0} /\ u \in Nat \ {0}
    BY <1>2
  <2>4. /\ a * t < b * s \/ (a * t = b * s /\ x.name < y.name)
        /\ b * u < c * t \/ (b * u = c * t /\ y.name < z.name)
    BY <2>1
  <2>5. (a * u < c * s \/ (a * u = c * s /\ x.name < z.name)) => nearer(x, z)
    OBVIOUS
  <2> HIDE DEF a, b, c, s, t, u, nearer
  <2>6. a * t <= b * s /\ b * u <= c * t
    <3>1. a * t \in Int /\ b * s \in Int /\ b * u \in Int /\ c * t \in Int
      BY <2>2, <2>3
    <3> QED BY <2>4, <3>1
  <2>7. /\ a * u <= c * s
        /\ a * t < b * s \/ b * u < c * t => a * u < c * s
    BY <2>2, <2>3, <2>6, CrossOrder
  <2>8. a * u \in Int /\ c * s \in Int
    BY <2>2, <2>3
  <2>9. CASE a * t < b * s \/ b * u < c * t
    BY <1>4, <2>5, <2>7, <2>9
  <2>10. CASE x.name < y.name /\ y.name < z.name
    <3>1. x.name < z.name
      BY <1>6, <2>10
    <3>2. a * u < c * s \/ a * u = c * s
      BY <2>7, <2>8
    <3> QED BY <1>4, <2>5, <3>1, <3>2
  <2> QED BY <2>4, <2>9, <2>10
<1>11. \A x, y, z \in wanted : <<x, y>> \in R /\ <<y, z>> \in R => <<x, z>> \in R
  BY <1>10
<1>12. IsFiniteSet(F) /\ Cardinality(F) <= room
  <2>1. F \in SUBSET wanted
    OBVIOUS
  <2>2. \A x \in F : Cardinality(Before(wanted, R, x)) < room
    BY DEF Before
  <2> HIDE DEF F
  <2> QED BY <1>1, <1>8, <1>9, <1>11, <2>1, <2>2, FirstFew
<1> QED BY <1>5, <1>12

\* A plan is made of symbols, no more of them than the vendor allows.
LEMMA PlannedSymbols ==
  ASSUME NEW f \in Feeds
  PROVE  /\ Planned(f) \in SUBSET Symbols
         /\ Cardinality(Planned(f)) <= MaxSymbols
<1> DEFINE records == {OptionOf[o] : o \in Listed}
           count == Cardinality(Indices)
           room == IF MaxSymbols > count THEN MaxSymbols - count ELSE 0
           spots == PlanSpots(f)
           near == PlanOptions(records, Selected, spots, StrikeWindow, room)
           chosen == {o \in Listed : OptionOf[o] \in near}
<1>1. Planned(f) = Indices \cup chosen
  BY DEF Planned
<1>2. Planned(f) \in SUBSET Symbols
  BY DEF Planned, Listed, Symbols
<1>3. Listed \in SUBSET Options
  BY DEF Listed
<1>4. IsFiniteSet(Listed) /\ IsFiniteSet(Indices)
  BY <1>3, PlanConstants, FS_Subset, FiniteImage DEF Indices
<1>5. IsFiniteSet(records)
  BY <1>4, FiniteImage
<1>6. count \in Nat /\ MaxSymbols \in Nat /\ count <= MaxSymbols
  BY <1>4, FS_CardinalityType, PlanConstants, AdapterConstants
<1>7. room = MaxSymbols - count /\ room \in Nat
  <2> HIDE DEF count
  <2> QED BY <1>6
<1>8. \A u \in Underlyings : spots[u] \in Nat
  <2> SUFFICES ASSUME NEW u \in Underlyings PROVE spots[u] \in Nat
    OBVIOUS
  <2>1. IndexOf[u] \in Symbols
    BY DEF Symbols, Indices
  <2>2. f.told[IndexOf[u]] # Nothing => f.told[IndexOf[u]] \in Told
    BY <2>1 DEF Feeds
  <2>3. \A e \in Told : e.value \in Nat
    BY PlanConstants DEF Told
  <2>4. PlanSpot[u] \in Nat
    BY PlanConstants
  <2> QED BY <2>2, <2>3, <2>4 DEF PlanSpots
<1>9. \A r \in records : /\ r.strike \in Nat /\ r.name \in Nat
                         /\ spots[r.underlying] \in Nat
  BY <1>3, <1>8, PlanConstants
<1>10. \A r, q \in records : r.name = q.name => r = q
  BY <1>3, PlanConstants
<1> HIDE DEF records, count, room, spots
<1>11. IsFiniteSet(near) /\ Cardinality(near) <= room
  BY <1>5, <1>7, <1>9, <1>10, PlanFits
<1>12. \A o, p \in chosen : OptionOf[o] = OptionOf[p] => o = p
  BY <1>3, PlanConstants
<1>13. \A o \in chosen : OptionOf[o] \in near
  OBVIOUS
<1> HIDE DEF near, chosen
<1>14. IsFiniteSet(chosen) /\ Cardinality(chosen) <= Cardinality(near)
  BY <1>11, <1>12, <1>13, NoLarger
<1>15. Cardinality(Indices \cup chosen)
         = Cardinality(Indices) + Cardinality(chosen) - Cardinality(Indices \cap chosen)
  BY <1>4, <1>14, FS_Union
<1>16. /\ Cardinality(Indices \cap chosen) \in Nat
       /\ Cardinality(chosen) \in Nat /\ Cardinality(near) \in Nat
  <2>1. IsFiniteSet(Indices \cap chosen)
    BY <1>4, FS_Subset
  <2> QED BY <1>11, <1>14, <2>1, FS_CardinalityType
<1>17. Cardinality(Planned(f)) <= MaxSymbols
  <2>1. Cardinality(Indices) = count
    BY DEF count
  <2> QED BY <1>1, <1>6, <1>7, <1>11, <1>14, <1>15, <1>16, <2>1
<1> QED BY <1>2, <1>17

-----------------------------------------------------------------------------
(* The helpers that make a plan keep Good.                                 *)

LEMMA ReplanGood ==
  ASSUME NEW f, NEW n, Good(f, n)
  PROVE  /\ Good(Replan(f), n)
         /\ Replan(f).state = f.state
<1> DEFINE p == Planned(f)
           g == [f EXCEPT !.desired = p]
           h == [g EXCEPT !.ready = Mapped(g)]
<1>1. p \in SUBSET Symbols /\ Cardinality(p) <= MaxSymbols
  BY PlannedSymbols DEF Good
<1>2. Replan(f) = h
  BY DEF Replan
<1>3. f \in Feeds /\ Meant(f) /\ FromLine(f, n)
  BY DEF Good
<1> HIDE DEF p
<1>4. /\ g \in Feeds /\ g.ids = f.ids /\ g.told = f.told
      /\ g.state = f.state /\ g.desired = p
  BY <1>1, <1>3 DEF Feeds
<1> HIDE DEF g
<1>5. Mapped(g) \in BOOLEAN
  BY DEF Mapped
<1>6. /\ h \in Feeds /\ h.ids = f.ids /\ h.told = f.told
      /\ h.desired = g.desired /\ h.ready = Mapped(g)
      /\ h.state = f.state
  BY <1>4, <1>5 DEF Feeds
<1> HIDE DEF h
<1>7. h.ready => Mapped(h)
  BY <1>4, <1>6 DEF Mapped
<1>8. FromLine(h, n) /\ Meant(h)
  BY <1>3, <1>6 DEF FromLine, Meant
<1>9. Cardinality(h.desired) <= MaxSymbols
  BY <1>1, <1>4, <1>6
<1> QED
  BY <1>2, <1>6, <1>7, <1>8, <1>9 DEF Good

\* Replanning tells the vendor on the line that is there.
LEMMA ResubscribeLine ==
  ASSUME NEW l \in Lines, NEW f, NEW g, g.desired \in SUBSET Symbols
  PROVE  /\ Resubscribe(l, f, g) \in Lines
         /\ Resubscribe(l, f, g).numbering = l.numbering
<1> DEFINE S == (l.subscribed \ (f.desired \ g.desired))
                   \cup (g.desired \ f.desired)
           M == l.missed \cap g.desired
<1>1. S \in SUBSET Symbols /\ M \in SUBSET Symbols
  BY DEF Lines
<1>2. Resubscribe(l, f, g) = [l EXCEPT !.subscribed = S, !.missed = M]
  BY DEF Resubscribe, Lines
<1> HIDE DEF S, M
<1> QED
  BY <1>1, <1>2 DEF Lines

\* A number that resolves, resolves to the symbol that was meant.
LEMMA ResolvedMeans ==
  ASSUME NEW f, NEW l \in Lines, Good(f, l.numbering),
         NEW s \in Symbols, NEW byId \in BOOLEAN,
         Resolved(f, l, s, byId) # Nothing
  PROVE  Resolved(f, l, s, byId) = s
<1> DEFINE n == l.numbering
           r == f.ids[n[s]]
<1>1. CASE ~ byId
  BY <1>1 DEF Resolved
<1>2. CASE byId
  <2>1. Resolved(f, l, s, byId) = r
    BY <1>2 DEF Resolved
  <2>2. n \in Numberings
    BY DEF Lines
  <2>3. /\ n \in [Symbols -> Ids]
        /\ \A t, u \in Symbols : n[t] = n[u] => t = u
    BY <2>2, AdapterConstants
  <2>4. r \in Symbols
    BY <2>1, <2>3 DEF Good, Feeds
  <2>5. n[r] = n[s]
    BY <2>1, <2>3 DEF Good, FromLine
  <2> QED
    BY <2>1, <2>3, <2>4, <2>5
<1> QED
  BY <1>1, <1>2

LEMMA IngestedGood ==
  ASSUME NEW f, NEW n, Good(f, n), NEW s \in Symbols, NEW v \in Values[s],
         NEW t \in Stampable
  PROVE  Good(Ingested(f, s, s, v, t), n)
<1> DEFINE e == [of |-> s, value |-> v, at |-> t]
           told == [f.told EXCEPT ![s] = e]
           a == [f EXCEPT !.told = told]
           g == [a EXCEPT !.stamp = t]
<1>1. e \in Told /\ e.of = s
  BY DEF Told
<1>2. f \in Feeds /\ Meant(f) /\ FromLine(f, n) /\ (f.ready => Mapped(f))
  BY DEF Good
<1>3. g = [f EXCEPT !.told[s] = [of |-> s, value |-> v, at |-> t],
                    !.stamp = t]
  BY <1>2 DEF Feeds
<1> HIDE DEF e
<1>4. /\ told \in [Symbols -> Told \cup {Nothing}]
      /\ told[s] = e
      /\ \A q \in Symbols \ {s} : told[q] = f.told[q]
  BY <1>1, <1>2 DEF Feeds
<1> HIDE DEF told
<1>5. /\ a \in Feeds /\ a.told = told /\ a.ids = f.ids
      /\ a.desired = f.desired /\ a.ready = f.ready
  BY <1>2, <1>4 DEF Feeds
<1> HIDE DEF a
<1>6. /\ g \in Feeds /\ g.told = told /\ g.ids = f.ids
      /\ g.desired = f.desired /\ g.ready = f.ready
  BY <1>5 DEF Feeds
<1> HIDE DEF g
<1>7. Meant(g)
  BY <1>1, <1>2, <1>4, <1>6 DEF Meant
<1>8. Good(g, n)
  BY <1>2, <1>6, <1>7 DEF Good, FromLine, Mapped
<1>9. Ingested(f, s, s, v, t) \in {g, Replan(g)}
  BY <1>3 DEF Ingested
<1> QED
  BY <1>8, <1>9, ReplanGood

\* The acknowledgement of a subscription on the line itself.
LEMMA AcknowledgeGood ==
  ASSUME NEW f, NEW l \in Lines, Good(f, l.numbering), clock \in Times,
         NEW S, Acknowledge(f, l, S)
  PROVE  Good(feed', line'.numbering) /\ line' \in Lines /\ answer' \in Answers
<1> DEFINE n == l.numbering
           named(i) == {s \in S : l.numbering[s] = i}
           b == Alive(f)
           ids == [i \in Ids |-> IF named(i) = {} THEN b.ids[i]
                                 ELSE CHOOSE s \in named(i) : TRUE]
           g == [b EXCEPT !.ids = ids]
           h == [g EXCEPT !.ready = Mapped(g)]
<1>1. Good(b, n)
  BY AliveGood
<1>2. S \subseteq Symbols
  BY DEF Acknowledge, Lines
<1>3. feed' = h /\ line' = l /\ answer' = "control"
  <2>1. b \in Feeds
    BY <1>1 DEF Good
  <2>2. g = [b EXCEPT !.ids = [i \in Ids |->
                         IF named(i) = {} THEN b.ids[i]
                         ELSE CHOOSE s \in named(i) : TRUE]]
    OBVIOUS
  <2> HIDE DEF b
  <2> QED
    BY DEF Acknowledge, Answer, b
<1>4. ASSUME NEW i \in Ids
      PROVE  /\ ids[i] \in Symbols \cup {Nothing}
             /\ ids[i] # Nothing => n[ids[i]] = i
  <2>1. CASE named(i) = {}
    <3>1. ids[i] = b.ids[i]
      BY <2>1
    <3> HIDE DEF ids, b
    <3> QED
      BY <1>1, <3>1 DEF Good, Feeds, FromLine
  <2>2. CASE named(i) # {}
    <3>1. ids[i] = (CHOOSE s \in named(i) : TRUE)
      BY <2>2
    <3>2. PICK s \in named(i) : TRUE
      BY <2>2
    <3>3. ids[i] \in named(i)
      BY <3>1, <3>2
    <3> HIDE DEF ids
    <3> QED
      BY <1>2, <3>3
  <2> QED
    BY <2>1, <2>2
<1>5. ids \in [Ids -> Symbols \cup {Nothing}]
  BY <1>4
<1>6. \A i \in Ids : ids[i] # Nothing => n[ids[i]] = i
  BY <1>4
<1>7. b \in Feeds /\ Meant(b) /\ Cardinality(b.desired) <= MaxSymbols
  BY <1>1 DEF Good
<1> HIDE DEF ids, b
<1>8. /\ g \in Feeds /\ g.ids = ids /\ g.told = b.told
      /\ g.desired = b.desired
  BY <1>5, <1>7 DEF Feeds
<1> HIDE DEF g
<1>9. Mapped(g) \in BOOLEAN
  BY DEF Mapped
<1>10. /\ h \in Feeds /\ h.ids = ids /\ h.told = b.told
       /\ h.desired = g.desired /\ h.ready = Mapped(g)
  BY <1>8, <1>9 DEF Feeds
<1> HIDE DEF h
<1>11. h.ready => Mapped(h)
  BY <1>8, <1>10 DEF Mapped
<1>12. FromLine(h, n) /\ Meant(h)
  BY <1>6, <1>7, <1>10 DEF FromLine, Meant
<1>13. Cardinality(h.desired) <= MaxSymbols
  BY <1>7, <1>8, <1>10
<1> QED
  BY <1>3, <1>10, <1>11, <1>12, <1>13 DEF Good, Answers

LEMMA TickGood ==
  ASSUME NEW f, NEW l \in Lines, Good(f, l.numbering), clock \in Times,
         NEW s \in Symbols, NEW byId \in BOOLEAN, NEW v \in Values[s],
         NEW t \in Stampable, Tick(f, l, s, byId, v, t)
  PROVE  Good(feed', line'.numbering) /\ line' \in Lines /\ answer' \in Answers
<1> DEFINE n == l.numbering
           g == Ingested(f, Resolved(f, l, s, byId), s, v, t)
<1>1. CASE TickRefused(f, l, s, byId, t)
  BY <1>1, AliveGood DEF Tick, Answer, Answers
<1>2. CASE ~ TickRefused(f, l, s, byId, t)
  <2>1. Resolved(f, l, s, byId) = s
    BY <1>2, ResolvedMeans DEF TickRefused
  <2>2. Good(g, n)
    BY <2>1, IngestedGood
  <2>3. /\ feed' = (IF SpotKnown(g) THEN Lively(g) ELSE Alive(g))
        /\ line' = Resubscribe(l, f, g)
        /\ answer' \in Answers
    BY <1>2 DEF Tick, Answer, Answers
  <2> HIDE DEF g
  <2>4. Good(feed', n)
    BY <2>2, <2>3, AliveGood, LivelyGood
  <2>5. line' \in Lines /\ line'.numbering = n
    BY <2>2, <2>3, ResubscribeLine DEF Good, Feeds
  <2> QED
    BY <2>3, <2>4, <2>5
<1> QED
  BY <1>1, <1>2

\* Whatever arrives, received in a good state on a line of the vendor.
LEMMA FrameGood ==
  ASSUME NEW f, NEW l \in Lines, Good(f, l.numbering), clock \in Times,
         Frame(f, l)
  PROVE  Good(feed', line'.numbering) /\ line' \in Lines /\ answer' \in Answers
<1> DEFINE n == l.numbering
<1>1. CASE Silence(f, l)
  BY <1>1 DEF Silence, Answer, Answers
<1>2. CASE Heartbeat(f, l)
  BY <1>2, LivelyGood DEF Heartbeat, Answer, Answers
<1>3. CASE Login(f, l)
  <2>1. Good(Alive(f), n)
    BY AliveGood
  <2>2. Good([Alive(f) EXCEPT !.state = "STOPPED"], n)
    BY <2>1, StateGood DEF States
  <2> QED
    BY <1>3, <2>1, <2>2 DEF Login, Answer, Answers
<1>4. CASE \E S \in SUBSET Symbols : Acknowledge(f, l, S)
  BY <1>4, AcknowledgeGood
<1>5. CASE Catalog(f, l)
  <2>1. Good(Replan(Alive(f)), n)
    BY AliveGood, ReplanGood
  <2>2. /\ feed' = Replan(Alive(f))
        /\ line' = Resubscribe(l, f, Replan(Alive(f)))
        /\ answer' \in Answers
    BY <1>5 DEF Catalog, Answer, Answers
  <2>3. Replan(Alive(f)).desired \in SUBSET Symbols
    BY <2>1 DEF Good, Feeds
  <2> QED
    BY <2>1, <2>2, <2>3, ResubscribeLine
<1>6. CASE Malformed(f, l)
  <2>1. Good([f EXCEPT !.state = "DEGRADED"], n)
    BY StateGood DEF States
  <2> QED
    BY <1>6, <2>1 DEF Malformed, Answer, Answers
<1>7. CASE Error(f, l)
  <2>1. Good([Alive(f) EXCEPT !.state = "DEGRADED"], n)
    BY AliveGood, StateGood DEF States
  <2> QED
    BY <1>7, <2>1 DEF Error, Answer, Answers
<1>8. CASE \E s \in l.subscribed, byId \in BOOLEAN, t \in Stamps :
             \E v \in Values[s] : Tick(f, l, s, byId, v, t)
  <2>1. PICK s \in l.subscribed, byId \in BOOLEAN, t \in Stamps :
          \E v \in Values[s] : Tick(f, l, s, byId, v, t)
    BY <1>8
  <2>2. PICK v \in Values[s] : Tick(f, l, s, byId, v, t)
    BY <2>1
  <2>3. s \in Symbols /\ t \in Stampable
    BY DEF Lines, Stamps
  <2> QED
    BY <2>2, <2>3, TickGood
<1> QED
  BY <1>1, <1>2, <1>3, <1>4, <1>5, <1>6, <1>7, <1>8 DEF Frame

-----------------------------------------------------------------------------
(* Losing and restoring the line                                           *)

LEMMA PowerInt == \A n \in Nat : 2 ^ n \in Int
  OBVIOUS

LEMMA ScheduledGood ==
  ASSUME NEW f, NEW n, Good(f, n), clock \in Times
  PROVE  Good(Scheduled(f), n)
<1> DEFINE r == clock + MinOf(MaxBackoff, MaxOf(1, 2 ^ f.attempts))
<1>1. f.attempts \in Nat /\ MaxBackoff \in Nat /\ clock \in Int
  BY AdapterConstants DEF Good, Feeds, Times
<1>2. 2 ^ f.attempts \in Int
  BY <1>1, PowerInt
<1>3. r \in Int
  BY <1>1, <1>2 DEF MinOf, MaxOf
<1> HIDE DEF r
<1>4. Scheduled(f) \in {f, [f EXCEPT !.retryAt = r]}
  BY DEF Scheduled, r
<1> QED
  BY <1>3, <1>4, RetryGood

LEMMA AttemptGood ==
  ASSUME NEW f, NEW n, NEW m, Good(f, n), ~ Exhausted(f)
  PROVE  Good(Attempt(f), m)
<1> DEFINE g == Unmapped(f)
<1>1. Good(g, m)
  BY UnmappedGood
<1>2. g.attempts = f.attempts
  BY DEF Unmapped, Good, Feeds
<1>3. f.attempts + 1 \in 0..MaxAttempts
  BY AdapterConstants DEF Exhausted, Good, Feeds
<1>4. Attempt(f) = [g EXCEPT !.attempts = f.attempts + 1]
  BY <1>1, <1>2 DEF Attempt, Good, Feeds
<1> HIDE DEF g
<1> QED
  BY <1>1, <1>3, <1>4 DEF Good, Feeds, FromLine, Meant, Mapped

LEMMA RecoverGood ==
  ASSUME NEW f, NEW n, Good(f, n), clock \in Times, Recover(f)
  PROVE  Good(feed', n) /\ UNCHANGED line /\ answer' \in Answers
<1>1. CASE GivesUp(f)
  BY <1>1, StateGood DEF GivesUp, States, Answer, Answers
<1>2. CASE Waits(f)
  BY <1>2, ScheduledGood DEF Waits, Answer, Answers
<1>3. CASE AttemptFails(f)
  <2> DEFINE r == clock + MinOf(MaxBackoff, 2 ^ (f.attempts + 1))
  <2>1. Good(Attempt(f), n)
    BY <1>3, AttemptGood DEF AttemptFails, Attempts
  <2>2. f.attempts + 1 \in Nat /\ MaxBackoff \in Nat /\ clock \in Int
    BY AdapterConstants DEF Good, Feeds, Times
  <2>3. 2 ^ (f.attempts + 1) \in Int
    BY <2>2, PowerInt
  <2>4. r \in Int
    BY <2>2, <2>3 DEF MinOf
  <2>5. /\ feed' = [Attempt(f) EXCEPT !.retryAt = r]
        /\ UNCHANGED line
        /\ answer' \in Answers
    BY <1>3 DEF AttemptFails, Answer, Answers
  <2> HIDE DEF r
  <2> QED
    BY <2>1, <2>4, <2>5, RetryGood
<1> QED
  BY <1>1, <1>2, <1>3 DEF Recover

\* A lost line leaves no map behind, so the numbering does not matter.
LEMMA LineLostGood ==
  ASSUME NEW f, NEW n, Good(f, n), clock \in Times, LineLost(f)
  PROVE  /\ Good(feed', line.numbering)
         /\ UNCHANGED line
         /\ answer' \in Answers
<1> DEFINE m == line.numbering
<1>1. Good(Lost(f), m)
  BY UnmappedGood, StateGood DEF Lost, States
<1>2. CASE Backoff
  BY <1>1, <1>2, RecoverGood DEF LineLost
<1>3. CASE ~ Backoff
  BY <1>1, <1>3 DEF LineLost, Answer, Answers
<1> QED
  BY <1>2, <1>3

LEMMA RestoredGood ==
  ASSUME NEW f, NEW n, NEW m, Good(f, n), ~ Exhausted(f)
  PROVE  Good(Restored(f), m)
<1> DEFINE a == Attempt(f)
           b == [a EXCEPT !.state = "RUNNING"]
<1>1. Good(a, m)
  BY AttemptGood
<1>2. Restored(f) = [b EXCEPT !.retryAt = Never]
  BY <1>1 DEF Restored, Good, Feeds
<1> HIDE DEF a
<1>3. Good(b, m)
  BY <1>1, StateGood DEF States
<1> HIDE DEF b
<1> QED
  BY <1>2, <1>3, RetryGood DEF Never

-----------------------------------------------------------------------------
(* The theorems                                                            *)

LEMMA InitGood == Init => IInv
<1> SUFFICES ASSUME Init PROVE IInv
  OBVIOUS
<1>1. clock \in Times /\ policy \in Policies /\ answer \in Answers
  BY AdapterConstants DEF Init, Times, Answers
<1>2. line \in Lines
  BY DEF Init, NewLine, Lines
<1>3. feed \in Feeds
  <2>1. 0 \in 0..MaxAttempts /\ Never \in Int
    BY AdapterConstants DEF Never
  <2>2. [i \in Ids |-> Nothing] \in [Ids -> Symbols \cup {Nothing}]
    OBVIOUS
  <2>3. [s \in Symbols |-> Nothing] \in [Symbols -> Told \cup {Nothing}]
    OBVIOUS
  <2>4. "DISCONNECTED" \in States /\ {} \in SUBSET Symbols
    BY DEF States
  <2> QED
    BY <2>1, <2>2, <2>3, <2>4 DEF Init, Feeds
<1>4. /\ \A i \in Ids : feed.ids[i] = Nothing
      /\ \A s \in Symbols : feed.told[s] = Nothing
      /\ feed.ready = FALSE
  BY DEF Init
<1>5. Cardinality(feed.desired) <= MaxSymbols
  <2>1. feed.desired = {}
    BY DEF Init
  <2> QED
    BY <2>1, FS_EmptySet, AdapterConstants
<1>6. Good(feed, line.numbering)
  BY <1>3, <1>4, <1>5 DEF Good, FromLine, Meant
<1>7. line.numbering \in Numberings
  BY <1>2 DEF Lines
<1> QED
  BY <1>1, <1>2, <1>6, <1>7 DEF IInv, MapSound

LEMMA ConnectGood ==
  ASSUME IInv, NEW n \in Numberings, Connect(n)
  PROVE  IInv'
<1> DEFINE u == Unmapped(feed)
           a == [u EXCEPT !.state = "READY"]
           b == [a EXCEPT !.active = clock]
           l == NewLine(n, {}, feed.desired)
<1>0. PICK m \in Numberings : Good(feed, m)
  BY DEF IInv, MapSound
<1>1. Good(u, n)
  BY <1>0, UnmappedGood
<1> HIDE DEF u
<1>2. Good(a, n)
  BY <1>1, StateGood DEF States
<1> HIDE DEF a
<1>3. Good(b, n)
  BY <1>2, AliveGood DEF Alive, IInv
<1>4. b = [u EXCEPT !.state = "READY", !.active = clock]
  BY <1>1 DEF Good, Feeds, a
<1>5. /\ feed' = Replan(b) /\ line' = Resubscribe(l, feed, feed')
      /\ answer' = "none" /\ UNCHANGED <<clock, policy>>
  BY <1>4 DEF Connect, Answer, u
<1> HIDE DEF b
<1>6. Good(feed', n)
  BY <1>3, <1>5, ReplanGood
<1>7. l \in Lines /\ l.numbering = n
  BY <1>0 DEF Lines, NewLine, Good, Feeds
<1> HIDE DEF l
<1>8. line' \in Lines /\ line'.numbering = n
  BY <1>5, <1>6, <1>7, ResubscribeLine DEF Good, Feeds
<1>9. MapSound'
  BY <1>6, <1>8 DEF MapSound
<1> QED
  BY <1>5, <1>8, <1>9 DEF IInv, Answers

LEMMA PollKeepsClock == Poll => UNCHANGED <<clock, policy>>
<1>1. ASSUME NEW f, NEW l, Frame(f, l) PROVE UNCHANGED <<clock, policy>>
  BY <1>1 DEF Frame, Silence, Heartbeat, Login, Acknowledge, Catalog,
              Malformed, Error, Tick, Answer
<1>2. ASSUME NEW f, Recover(f) PROVE UNCHANGED <<clock, policy>>
  BY <1>2 DEF Recover, GivesUp, Waits, AttemptFails, Answer
<1>3. ASSUME NEW f, LineLost(f) PROVE UNCHANGED <<clock, policy>>
  BY <1>2, <1>3 DEF LineLost, Answer
<1>4. PollStopped \/ PollSilent => UNCHANGED <<clock, policy>>
  BY DEF PollStopped, PollSilent, Answer
<1> QED
  BY <1>1, <1>2, <1>3, <1>4
     DEF Poll, PollReceives, PollLoses, PollRecovers, PollRestores

\* What is polled listens on the line its map is of.
LEMMA PolledGood ==
  ASSUME IInv, Poll
  PROVE  Good(feed, line.numbering)
<1>1. Polled
  BY DEF Poll, PollStopped, PollSilent, PollReceives, PollLoses,
         PollRecovers, PollRestores, Listens
<1> QED
  BY <1>1 DEF IInv, MapSound

LEMMA PollGood ==
  ASSUME IInv, Poll
  PROVE  IInv'
<1>0. /\ UNCHANGED <<clock, policy>> /\ clock \in Times /\ policy \in Policies
      /\ line \in Lines /\ answer \in Answers /\ Good(feed, line.numbering)
  BY PollKeepsClock, PolledGood DEF IInv
<1> DEFINE Sound == /\ Good(feed', line'.numbering)
                    /\ line' \in Lines /\ answer' \in Answers
<1>1. ASSUME PollStopped PROVE Sound
  BY <1>0, <1>1 DEF PollStopped, Answer, Answers
<1>2. ASSUME PollSilent PROVE Sound
  BY <1>0, <1>2, StateGood DEF PollSilent, Answer, Answers, States
<1>3. ASSUME PollReceives PROVE Sound
  BY <1>0, <1>3, FrameGood DEF PollReceives
<1>4. ASSUME PollLoses PROVE Sound
  BY <1>0, <1>4, LineLostGood, AliveGood DEF PollLoses
<1>5. ASSUME PollRecovers PROVE Sound
  BY <1>0, <1>5, RecoverGood DEF PollRecovers
<1>6. ASSUME PollRestores PROVE Sound
  <2>1. ~ Exhausted(feed)
    BY <1>6 DEF PollRestores, Attempts
  <2>2. ASSUME LineLost(Restored(feed)) PROVE Sound
    BY <1>0, <2>1, <2>2, RestoredGood, LineLostGood
  <2>3. ASSUME \E l \in NewLines(feed) : Frame(Restored(feed), l)
       PROVE  Sound
    <3>1. PICK l \in NewLines(feed) : Frame(Restored(feed), l)
      BY <2>3
    <3>2. l \in Lines
      BY <1>0 DEF NewLines, NewLine, Lines, Good, Feeds
    <3>3. Good(Restored(feed), l.numbering)
      BY <1>0, <2>1, RestoredGood
    <3> QED
      BY <1>0, <3>1, <3>2, <3>3, FrameGood
  <2> QED
    BY <1>6, <2>2, <2>3 DEF PollRestores
<1>7. Sound
  BY <1>1, <1>2, <1>3, <1>4, <1>5, <1>6 DEF Poll
<1> QED
  BY <1>0, <1>7 DEF IInv, MapSound, Lines

\* The inductive invariant: the adapter's map is part of a numbering, the one of
\* the line it listens on when it is polled, and what it has booked was meant.
THEOREM Invariance == Spec => []IInv
<1>1. Init => IInv
  BY InitGood
<1>2. IInv /\ [Next]_vars => IInv'
  <2> SUFFICES ASSUME IInv, [Next]_vars PROVE IInv'
    OBVIOUS
  <2>1. CASE ClockTick
    <3>1. clock' \in Times
      BY <2>1, AdapterConstants DEF ClockTick, IInv, Times
    <3> QED
      BY <2>1, <3>1 DEF ClockTick, IInv, MapSound, Polled
  <2>2. CASE ConnectFails
    <3>0. PICK n \in Numberings : Good(feed, n)
      BY DEF IInv, MapSound
    <3>1. Good([feed EXCEPT !.state = "STOPPED"], n)
      BY <3>0, StateGood DEF States
    <3> DEFINE d == [feed EXCEPT !.state = "DEGRADED"]
    <3>2. Good(d, n)
      BY <3>0, StateGood DEF States
    <3>3. [feed EXCEPT !.state = "DEGRADED", !.active = clock] = Alive(d)
      BY <3>0 DEF Alive, Good, Feeds
    <3> HIDE DEF d
    <3>4. Good(Alive(d), n)
      BY <3>2, AliveGood DEF IInv
    <3>5. Good(feed', n) /\ answer' = "refused" /\ UNCHANGED <<clock, policy>>
      BY <2>2, <3>1, <3>3, <3>4 DEF ConnectFails, Answer
    <3>6. line' \in Lines
      BY <2>2, <3>0 DEF ConnectFails, NewLine, Lines, IInv, Good, Feeds
    <3> QED
      BY <3>5, <3>6 DEF IInv, MapSound, Polled, Answers
  <2>3. CASE \E n \in Numberings : Connect(n)
    BY <2>3, ConnectGood
  <2>4. CASE Disconnect
    <3>1. PICK n \in Numberings : Good(feed, n)
      BY DEF IInv, MapSound
    <3>2. line \in Lines /\ line' = line /\ line.numbering \in Numberings
      BY <2>4 DEF Disconnect, IInv, Lines
    <3>3. Good(feed', line'.numbering)
      BY <2>4, <3>1, <3>2, UnmappedGood, StateGood DEF Disconnect, States
    <3> QED
      BY <2>4, <3>2, <3>3
         DEF Disconnect, IInv, MapSound, Answer, Answers
  <2>5. CASE Poll
    BY <2>5, PollGood
  <2>6. CASE UNCHANGED vars
    <3>1. UNCHANGED <<clock, policy, feed, line, answer>>
      BY <2>6 DEF vars
    <3> QED
      BY <3>1 DEF IInv, MapSound, Polled
  <2> QED
    BY <2>1, <2>2, <2>3, <2>4, <2>5, <2>6 DEF Next
<1> QED
  BY <1>1, <1>2, PTL DEF Spec

\* Adapter and line are always well formed.
THEOREM TypeCorrect == Spec => []TypeOK
<1>1. IInv => TypeOK
  BY DEF IInv, MapSound, Good, Feeds, Lines, Answers, TypeOK
<1> QED
  BY <1>1, Invariance, PTL

\* What is booked for a symbol is what the vendor said of that symbol.
THEOREM NothingMisbooked == Spec => []TicksMeanTheirSymbol
<1>1. IInv => TicksMeanTheirSymbol
  BY DEF IInv, MapSound, Good, Meant, TicksMeanTheirSymbol
<1> QED
  BY <1>1, Invariance, PTL

\* An adapter that resolves numbers has one for every symbol it wants.
THEOREM MapComplete == Spec => []ReadyMeansMapped
<1>1. IInv => ReadyMeansMapped
  BY DEF IInv, MapSound, Good, ReadyMeansMapped
<1> QED
  BY <1>1, Invariance, PTL
-----------------------------------------------------------------------------
(* A silence is for good                                                   *)

\* A silence longer than the limit is for good: no poll hears the vendor
\* again or tries a reconnection (_activity_stale comes first in poll), only
\* another connect starts anew.
THEOREM SilenceIsForGood == Spec => SilentForGood
<1> DEFINE Connects == ConnectFails \/ \E n \in Numberings : Connect(n)
           Deaf == /\ feed'.told = feed.told
                   /\ feed'.attempts = feed.attempts
                   /\ feed'.active = feed.active \/ Connects
<1>1. ASSUME IInv, [Next]_vars, Silent
      PROVE  Deaf
  <2>1. feed \in Feeds
    BY <1>1 DEF IInv, MapSound, Good
  <2>2. CASE ClockTick
    BY <2>2 DEF ClockTick
  <2>3. CASE ConnectFails
    <3>1. feed'.told = feed.told /\ feed'.attempts = feed.attempts
      BY <2>1, <2>3 DEF ConnectFails, Feeds
    <3> QED
      BY <2>3, <3>1
  <2>4. CASE \E n \in Numberings : Connect(n)
    <3>1. PICK n \in Numberings : Connect(n)
      BY <2>4
    <3> DEFINE u == Unmapped(feed)
               b == [u EXCEPT !.state = "READY", !.active = clock]
    <3>2. /\ u.told = feed.told /\ u.attempts = feed.attempts
          /\ DOMAIN u = DOMAIN feed
      BY <2>1 DEF Unmapped, Feeds
    <3>3. feed' = Replan(b)
      BY <3>1 DEF Connect
    <3> HIDE DEF u
    <3>4. /\ b.told = feed.told /\ b.attempts = feed.attempts
          /\ DOMAIN b = DOMAIN feed
      BY <2>1, <3>2 DEF Feeds
    <3> HIDE DEF b
    <3>5. feed'.told = b.told /\ feed'.attempts = b.attempts
      BY <2>1, <3>3, <3>4 DEF Replan, Feeds
    <3> QED
      BY <2>4, <3>4, <3>5
  <2>5. CASE Disconnect
    BY <2>1, <2>5 DEF Disconnect, Unmapped, Feeds
  <2>6. CASE Poll
    <3>1. ~ Listens
      BY <1>1 DEF Listens
    <3>2. PollStopped \/ PollSilent
      BY <2>6, <3>1
         DEF Poll, PollReceives, PollLoses, PollRecovers, PollRestores
    <3>3. feed' = feed \/ feed' = [feed EXCEPT !.state = "DEGRADED"]
      BY <3>2 DEF PollStopped, PollSilent
    <3> QED
      BY <2>1, <3>3 DEF Feeds
  <2>7. CASE UNCHANGED vars
    BY <2>7 DEF vars
  <2> QED
    BY <1>1, <2>2, <2>3, <2>4, <2>5, <2>6, <2>7 DEF Next
<1>2. IInv /\ [Next]_vars => [Silent => Deaf]_vars
  BY <1>1
<1> QED
  BY <1>2, Invariance, PTL DEF Spec, SilentForGood

-----------------------------------------------------------------------------
(* The line follows the plan                                               *)

Up == {"READY", "RUNNING"}

\* While f is up l sends what f plans, but for what it was never told.
Carries(f, l) ==
  l.missed \subseteq f.desired /\ l.subscribed = f.desired \ l.missed

Follows(f, l) == f.state \in Up => Carries(f, l)

SInv == IInv /\ Follows(feed, line)

\* The helpers that leave the plan alone.
LEMMA PlanLeft ==
  ASSUME NEW f \in Feeds
  PROVE  /\ Alive(f).desired = f.desired /\ Alive(f).state = f.state
         /\ Lively(f).desired = f.desired
         /\ Lively(f).state \in Up => f.state \in Up
         /\ Lively(f).state = "DISCONNECTED" => f.state = "DISCONNECTED"
         /\ Unmapped(f).desired = f.desired /\ Unmapped(f).state = f.state
         /\ Scheduled(f).desired = f.desired /\ Scheduled(f).state = f.state
<1>1. Alive(f) = [f EXCEPT !.active = clock]
  BY DEF Alive
<1>2. Lively(f) = [Alive(f) EXCEPT
                     !.state = IF @ = "READY" THEN "RUNNING" ELSE @]
  BY DEF Lively
<1> QED
  BY <1>1, <1>2 DEF Unmapped, Scheduled, Feeds, Up

LEMMA ReplanFields ==
  ASSUME NEW f \in Feeds
  PROVE  /\ Replan(f).state = f.state
         /\ Replan(f).told = f.told
         /\ Replan(f).stamp = f.stamp
<1> DEFINE p == Planned(f)
           g == [f EXCEPT !.desired = p]
           m == Mapped(g)
<1> HIDE DEF p
<1>1. g.state = f.state /\ g.told = f.told /\ g.stamp = f.stamp
  BY DEF Feeds
<1>2. DOMAIN g = DOMAIN f
  OBVIOUS
<1>3. Replan(f) = [g EXCEPT !.ready = m]
  BY DEF Replan, p
<1> HIDE DEF g, m
<1> QED
  BY <1>1, <1>2, <1>3 DEF Feeds

\* A booked tick is one entry of the books and the date of the last tick.
Booked(told, s, v, t) == [told EXCEPT ![s] = [of |-> s, value |-> v, at |-> t]]

Dated(f, told, t) == [f EXCEPT !.told = told, !.stamp = t]

LEMMA DatedFields ==
  ASSUME NEW f \in Feeds, NEW told \in [Symbols -> Told \cup {Nothing}],
         NEW t \in Stampable
  PROVE  /\ Dated(f, told, t) \in Feeds
         /\ Dated(f, told, t).told = told
         /\ Dated(f, told, t).state = f.state
         /\ Dated(f, told, t).stamp = t
<1> DEFINE a == [f EXCEPT !.told = told]
           g == [a EXCEPT !.stamp = t]
<1>1. g = Dated(f, told, t)
  BY DEF Dated, Feeds
<1>2. a \in Feeds /\ a.told = told /\ a.state = f.state
  BY DEF Feeds
<1> HIDE DEF a
<1>3. g \in Feeds /\ g.told = told /\ g.state = f.state /\ g.stamp = t
  BY <1>2 DEF Feeds
<1> HIDE DEF g
<1> QED
  BY <1>1, <1>3

LEMMA IngestedFields ==
  ASSUME NEW f \in Feeds, NEW s \in Symbols, NEW v \in Values[s],
         NEW t \in Stampable
  PROVE  /\ Ingested(f, s, s, v, t).state = f.state
         /\ Ingested(f, s, s, v, t).stamp = t
         /\ Ingested(f, s, s, v, t).told = Booked(f.told, s, v, t)
<1> DEFINE e == [of |-> s, value |-> v, at |-> t]
           told == Booked(f.told, s, v, t)
           g == Dated(f, told, t)
<1>1. e \in Told
  BY DEF Told
<1>2. Ingested(f, s, s, v, t) \in {g, Replan(g)}
  BY DEF Ingested, Feeds, Booked, Dated
<1>3. told \in [Symbols -> Told \cup {Nothing}]
  <2> HIDE DEF e
  <2>1. told = [f.told EXCEPT ![s] = e]
    BY DEF Booked, e
  <2> QED
    BY <1>1, <2>1 DEF Feeds
<1> HIDE DEF told
<1>4. g \in Feeds /\ g.told = told /\ g.state = f.state /\ g.stamp = t
  BY <1>3, DatedFields
<1> HIDE DEF g
<1>5. /\ Ingested(f, s, s, v, t).state = f.state
      /\ Ingested(f, s, s, v, t).stamp = t
      /\ Ingested(f, s, s, v, t).told = told
  BY <1>2, <1>4, ReplanFields
<1> QED
  BY <1>5 DEF told

\* The vendor is told every difference between two plans.
LEMMA ResubscribeFollows ==
  ASSUME NEW l \in Lines, NEW f, NEW g, Carries(f, l),
         g.desired \in SUBSET Symbols
  PROVE  Carries(g, Resubscribe(l, f, g))
<1> DEFINE M == l.missed \cap g.desired
           S == (l.subscribed \ (f.desired \ g.desired))
                  \cup (g.desired \ f.desired)
<1>1. M \subseteq g.desired /\ S = g.desired \ M
  BY DEF Carries
<1>2. Resubscribe(l, f, g).subscribed = S /\ Resubscribe(l, f, g).missed = M
  BY DEF Resubscribe, Lines
<1> QED
  BY <1>1, <1>2 DEF Carries

\* Whatever arrives on a line that follows the plan leaves it following.
LEMMA FrameFollows ==
  ASSUME NEW f, NEW l \in Lines, Good(f, l.numbering), clock \in Times,
         Follows(f, l), Frame(f, l)
  PROVE  Follows(feed', line')
<1>0. f \in Feeds /\ Alive(f) \in Feeds
  BY AliveGood DEF Good
<1>1. CASE Silence(f, l)
  BY <1>1 DEF Silence
<1>2. CASE Heartbeat(f, l)
  BY <1>0, <1>2, PlanLeft DEF Heartbeat, Follows, Carries
<1>3. CASE Login(f, l)
  <2>1. CASE feed' = Alive(f)
    BY <1>0, <1>3, <2>1, PlanLeft DEF Login, Follows, Carries
  <2>2. CASE feed' = [Alive(f) EXCEPT !.state = "STOPPED"]
    <3>1. feed'.state = "STOPPED"
      BY <1>0, <2>2 DEF Feeds
    <3> QED
      BY <3>1 DEF Follows, Up
  <2> QED
    BY <1>3, <2>1, <2>2 DEF Login
<1>4. CASE \E S \in SUBSET Symbols : Acknowledge(f, l, S)
  <2>1. PICK S \in SUBSET Symbols : Acknowledge(f, l, S)
    BY <1>4
  <2> DEFINE named(i) == {s \in S : l.numbering[s] = i}
             ids == [i \in Ids |-> IF named(i) = {} THEN Alive(f).ids[i]
                                   ELSE CHOOSE s \in named(i) : TRUE]
             g == [Alive(f) EXCEPT !.ids = ids]
  <2>2. feed' = [g EXCEPT !.ready = Mapped(g)] /\ line' = l
    BY <2>1 DEF Acknowledge
  <2> HIDE DEF ids
  <2>3. g.desired = Alive(f).desired /\ g.state = Alive(f).state
    BY <1>0 DEF Feeds
  <2>4. DOMAIN g = DOMAIN Alive(f)
    OBVIOUS
  <2> HIDE DEF g
  <2>5. feed'.desired = g.desired /\ feed'.state = g.state
    BY <1>0, <2>2, <2>4 DEF Feeds
  <2> QED
    BY <1>0, <2>2, <2>3, <2>5, PlanLeft DEF Follows, Carries
<1>5. CASE Catalog(f, l)
  <2>1. feed' = Replan(Alive(f)) /\ line' = Resubscribe(l, f, feed')
    BY <1>5 DEF Catalog
  <2>2. feed'.state = f.state
    BY <1>0, <2>1, ReplanFields, PlanLeft
  <2>3. feed'.desired \in SUBSET Symbols
    BY <2>1, AliveGood, ReplanGood DEF Good, Feeds
  <2> QED
    BY <2>1, <2>2, <2>3, ResubscribeFollows DEF Follows
<1>6. CASE Malformed(f, l)
  <2>1. feed'.state = "DEGRADED"
    BY <1>0, <1>6 DEF Malformed, Feeds
  <2> QED
    BY <2>1 DEF Follows, Up
<1>7. CASE Error(f, l)
  <2>1. feed'.state = "DEGRADED"
    BY <1>0, <1>7 DEF Error, Feeds
  <2> QED
    BY <2>1 DEF Follows, Up
<1>8. CASE \E s \in l.subscribed, byId \in BOOLEAN, t \in Stamps :
             \E v \in Values[s] : Tick(f, l, s, byId, v, t)
  <2>1. PICK s \in l.subscribed, byId \in BOOLEAN, t \in Stamps :
          \E v \in Values[s] : Tick(f, l, s, byId, v, t)
    BY <1>8
  <2>2. PICK v \in Values[s] : Tick(f, l, s, byId, v, t)
    BY <2>1
  <2>3. s \in Symbols /\ t \in Stampable
    BY DEF Lines, Stamps
  <2>4. CASE TickRefused(f, l, s, byId, t)
    BY <1>0, <2>2, <2>4, PlanLeft DEF Tick, Follows, Carries
  <2>5. CASE ~ TickRefused(f, l, s, byId, t)
    <3> DEFINE g == Ingested(f, Resolved(f, l, s, byId), s, v, t)
    <3>1. Resolved(f, l, s, byId) = s
      BY <2>3, <2>5, ResolvedMeans DEF TickRefused
    <3>2. Good(g, l.numbering)
      BY <2>3, <3>1, IngestedGood
    <3>3. /\ feed' = (IF SpotKnown(g) THEN Lively(g) ELSE Alive(g))
          /\ line' = Resubscribe(l, f, g)
      BY <2>2, <2>5 DEF Tick
    <3>4. g.state = f.state
      <4>1. g = Ingested(f, s, s, v, t)
        BY <3>1
      <4>2. Ingested(f, s, s, v, t).state = f.state
        <5>1. f \in Feeds /\ v \in Values[s] /\ s \in Symbols /\ t \in Stampable
          BY <1>0, <2>3
        <5> QED
          BY <5>1, IngestedFields
      <4> QED
        BY <4>1, <4>2
    <3> HIDE DEF g
    <3>5. g \in Feeds /\ g.desired \in SUBSET Symbols
      BY <3>2 DEF Good, Feeds
    <3>6. /\ feed'.desired = g.desired
          /\ feed'.state \in Up => g.state \in Up
      BY <3>3, <3>4, <3>5, PlanLeft
    <3> QED
      BY <3>3, <3>4, <3>5, <3>6, ResubscribeFollows DEF Follows, Carries
  <2> QED
    BY <2>4, <2>5
<1> QED
  BY <1>1, <1>2, <1>3, <1>4, <1>5, <1>6, <1>7, <1>8 DEF Frame

\* While it recovers the adapter is degraded or gives up; a lost line leaves it
\* down.
LEMMA RecoverDown ==
  ASSUME NEW f \in Feeds, f.state = "DEGRADED", Recover(f)
  PROVE  feed'.state \in {"DEGRADED", "STOPPED"}
<1>1. CASE GivesUp(f)
  BY <1>1 DEF GivesUp, Feeds
<1>2. CASE Waits(f)
  BY <1>2, PlanLeft DEF Waits
<1>3. CASE AttemptFails(f)
  <2> DEFINE u == Unmapped(f)
             a == [u EXCEPT !.attempts = @ + 1]
             r == clock + MinOf(MaxBackoff, 2 ^ (f.attempts + 1))
  <2>1. feed' = [a EXCEPT !.retryAt = r]
    BY <1>3 DEF AttemptFails, Attempt
  <2> HIDE DEF r
  <2>2. u.state = f.state
    BY PlanLeft
  <2> QED
    BY <2>1, <2>2 DEF Unmapped, Feeds
<1> QED
  BY <1>1, <1>2, <1>3 DEF Recover

LEMMA LineLostDown ==
  ASSUME NEW f \in Feeds, LineLost(f)
  PROVE  feed'.state \in {"DEGRADED", "STOPPED"}
<1> DEFINE u == Unmapped(f)
           d == [u EXCEPT !.state = "DEGRADED"]
<1>1. Lost(f) = d
  BY DEF Lost
<1>2. u \in Feeds
  <2> DEFINE none == [i \in Ids |-> Nothing]
             g == [f EXCEPT !.ids = none]
  <2>1. none \in [Ids -> Symbols \cup {Nothing}]
    OBVIOUS
  <2>2. u = [g EXCEPT !.ready = FALSE]
    BY DEF Unmapped, Feeds
  <2> HIDE DEF none, u
  <2>3. g \in Feeds
    BY <2>1 DEF Feeds
  <2> HIDE DEF g
  <2> QED
    BY <2>2, <2>3 DEF Feeds
<1> HIDE DEF u
<1>3. d \in Feeds /\ d.state = "DEGRADED"
  BY <1>2 DEF Feeds, States
<1> HIDE DEF d
<1>4. CASE Backoff
  BY <1>1, <1>3, <1>4, RecoverDown DEF LineLost
<1>5. CASE ~ Backoff
  BY <1>1, <1>3, <1>5 DEF LineLost
<1> QED
  BY <1>4, <1>5

LEMMA RestoredFields ==
  ASSUME NEW f \in Feeds
  PROVE  /\ Restored(f).desired = f.desired
         /\ Restored(f).state = "RUNNING"
         /\ Restored(f).told = f.told
         /\ Restored(f).stamp = f.stamp
<1> DEFINE u == Unmapped(f)
           a == [u EXCEPT !.attempts = @ + 1]
           b == [a EXCEPT !.state = "RUNNING"]
           c == [b EXCEPT !.retryAt = Never]
<1>1. /\ u.desired = f.desired /\ u.told = f.told /\ u.stamp = f.stamp
      /\ DOMAIN u = DOMAIN f
  BY DEF Unmapped, Feeds
<1> HIDE DEF u
<1>2. /\ a.desired = f.desired /\ a.told = f.told /\ a.stamp = f.stamp
      /\ DOMAIN a = DOMAIN f
  BY <1>1 DEF Feeds
<1>3. Restored(f) = c
  BY DEF Restored, Attempt, u
<1> HIDE DEF a
<1>4. /\ b.desired = f.desired /\ b.told = f.told /\ b.stamp = f.stamp
      /\ b.state = "RUNNING" /\ DOMAIN b = DOMAIN f
  BY <1>2 DEF Feeds
<1> HIDE DEF b
<1> QED
  BY <1>3, <1>4 DEF Feeds

\* Over any number of plans, lost lines and connections: while the adapter is up
\* the vendor sends what the plan asks for, but for what a connect() on an
\* adapter with a plan never told it.
THEOREM LineInStep == Spec => []LineFollowsPlan
<1>1. Init => SInv
  <2> SUFFICES ASSUME Init PROVE SInv
    OBVIOUS
  <2>1. IInv
    BY InitGood
  <2>2. feed.state = "DISCONNECTED"
    BY DEF Init
  <2> QED
    BY <2>1, <2>2 DEF SInv, Follows, Up
<1>2. SInv /\ IInv' /\ [Next]_vars => SInv'
  <2> SUFFICES ASSUME SInv, IInv', [Next]_vars PROVE SInv'
    OBVIOUS
  <2>0. /\ feed \in Feeds /\ feed' \in Feeds /\ line \in Lines /\ clock \in Times
        /\ \E n \in Numberings : Good(feed, n)
    BY DEF SInv, IInv, MapSound, Good
  <2>a. ASSUME Poll PROVE Good(feed, line.numbering)
    BY <2>a, PolledGood DEF SInv
  <2>1. CASE ClockTick
    BY <2>1 DEF ClockTick, SInv, Follows, Carries
  <2>2. CASE ConnectFails
    <3>1. feed'.state \in {"STOPPED", "DEGRADED"}
      BY <2>0, <2>2 DEF ConnectFails, Feeds
    <3> QED
      BY <3>1 DEF SInv, Follows, Up
  <2>3. CASE \E n \in Numberings : Connect(n)
    <3>1. PICK n \in Numberings : Connect(n)
      BY <2>3
    <3> DEFINE u == Unmapped(feed)
               a == [u EXCEPT !.state = "READY"]
               b == [a EXCEPT !.active = clock]
               l == NewLine(n, {}, feed.desired)
    <3>2. Good(u, n)
      BY <2>0, UnmappedGood
    <3>3. b = [u EXCEPT !.state = "READY", !.active = clock]
      BY <3>2 DEF Good, Feeds
    <3>4. feed' = Replan(b) /\ line' = Resubscribe(l, feed, feed')
      BY <3>1, <3>3 DEF Connect
    <3> HIDE DEF u
    <3>5. Good(a, n) /\ a.state = "READY"
      BY <3>2, StateGood DEF States, Good, Feeds
    <3> HIDE DEF a
    <3>6. b \in Feeds /\ b.state = "READY"
      BY <2>0, <3>5, AliveGood DEF Alive, Good
    <3> HIDE DEF b
    <3>7. feed'.state = "READY"
      BY <3>4, <3>6, ReplanFields
    <3>8. l \in Lines /\ Carries(feed, l)
      BY <2>0 DEF Lines, NewLine, Carries, Feeds
    <3> HIDE DEF l
    <3>9. Carries(feed', line')
      BY <2>0, <3>4, <3>8, ResubscribeFollows DEF Feeds
    <3> QED
      BY <3>7, <3>9 DEF SInv, Follows
  <2>4. CASE Disconnect
    <3>1. feed' = [Unmapped(feed) EXCEPT !.state = "STOPPED"]
      BY <2>4 DEF Disconnect
    <3>2. feed'.state = "STOPPED"
      BY <2>0, <3>1 DEF Unmapped, Feeds
    <3> QED
      BY <3>2 DEF SInv, Follows, Up
  <2>5. CASE PollStopped
    BY <2>5 DEF PollStopped, SInv, Follows, Carries
  <2>6. CASE PollSilent
    <3>1. feed'.state = "DEGRADED"
      BY <2>0, <2>6 DEF PollSilent, Feeds
    <3> QED
      BY <3>1 DEF SInv, Follows, Up
  <2>7. CASE PollReceives
    <3>1. Follows(feed', line')
      BY <2>0, <2>7, <2>a, FrameFollows DEF Poll, PollReceives, SInv
    <3> QED
      BY <3>1 DEF SInv
  <2>8. CASE PollLoses
    <3>1. Alive(feed) \in Feeds
      BY <2>0, AliveGood DEF Good
    <3>2. feed'.state \in {"DEGRADED", "STOPPED"}
      BY <2>0, <2>8, <3>1, LineLostDown DEF PollLoses
    <3> QED
      BY <3>2 DEF SInv, Follows, Up
  <2>9. CASE PollRecovers
    <3>1. feed'.state \in {"DEGRADED", "STOPPED"}
      BY <2>0, <2>9, RecoverDown DEF PollRecovers, Recovers
    <3> QED
      BY <3>1 DEF SInv, Follows, Up
  <2>10. CASE PollRestores
    <3>1. ~ Exhausted(feed)
      BY <2>10 DEF PollRestores, Attempts
    <3>2. CASE LineLost(Restored(feed))
      <4>1. Restored(feed) \in Feeds
        BY <2>0, <3>1, RestoredGood DEF Good
      <4>2. feed'.state \in {"DEGRADED", "STOPPED"}
        BY <3>2, <4>1, LineLostDown
      <4> QED
        BY <4>2 DEF SInv, Follows, Up
    <3>3. CASE \E l \in NewLines(feed) : Frame(Restored(feed), l)
      <4>1. PICK l \in NewLines(feed) : Frame(Restored(feed), l)
        BY <3>3
      <4>2. l \in Lines /\ Carries(feed, l)
        BY <2>0 DEF NewLines, NewLine, Lines, Carries, Feeds
      <4>3. Good(Restored(feed), l.numbering)
        BY <2>0, <3>1, RestoredGood
      <4>4. Follows(Restored(feed), l)
        BY <2>0, <4>2, RestoredFields DEF Follows, Carries
      <4>5. Follows(feed', line')
        BY <2>0, <4>1, <4>2, <4>3, <4>4, FrameFollows
      <4> QED
        BY <4>5 DEF SInv
    <3> QED
      BY <2>10, <3>2, <3>3 DEF PollRestores
  <2>11. CASE UNCHANGED vars
    BY <2>11 DEF vars, SInv, Follows, Carries
  <2> QED
    BY <2>1, <2>2, <2>3, <2>4, <2>5, <2>6, <2>7, <2>8, <2>9, <2>10, <2>11
       DEF Next, Poll
<1>3. SInv => LineFollowsPlan
  BY DEF SInv, Follows, Carries, Up, LineFollowsPlan
<1> QED
  BY <1>1, <1>2, <1>3, Invariance, PTL DEF Spec

\* Over any number of plans and connections the vendor sends what the plan asks
\* for, but for what only a connect() left out, and never more than it allows.
THEOREM PlanKept == Spec => []SubscribedAsPlanned
<1>1. IInv /\ LineFollowsPlan => SubscribedAsPlanned
  BY DEF IInv, MapSound, Good, SubscribedAsPlanned
<1> QED
  BY <1>1, LineInStep, Invariance, PTL

-----------------------------------------------------------------------------
(* The adapter implements the provider of the loop                         *)

On == {"READY", "RUNNING", "DEGRADED"}

\* The calls of the abstract provider, in the terms of the adapter.
LEMMA Idles ==
  ASSUME feed.state \in On, feed'.told = feed.told, feed'.stamp = feed.stamp,
         feed'.state \in {feed.state, "RUNNING", "DEGRADED"},
         answer' \in {"none", "control"}
  PROVE  Provider!FeedPoll
<1>1. Provider!PollIdles
  BY DEF Provider!PollIdles, Provider!Off, On
<1> QED
  BY <1>1 DEF Provider!FeedPoll

LEMMA Fails ==
  ASSUME feed.state \in On, feed'.told = feed.told, feed'.stamp = feed.stamp,
         feed'.state \in {feed.state, "RUNNING", "DEGRADED", "STOPPED"},
         answer' = "raised"
  PROVE  Provider!FeedPoll
<1>1. Provider!PollFails
  BY DEF Provider!PollFails, Provider!Off, On
<1> QED
  BY <1>1 DEF Provider!FeedPoll

\* What the loop sees of an adapter's books.
Seen(told) ==
  [s \in Symbols |-> IF told[s] = Nothing THEN Nothing
                     ELSE [value |-> told[s].value, at |-> told[s].at]]

AllTold == [Symbols -> Told \cup {Nothing}]

LEMMA SeenSomething ==
  ASSUME NEW told \in AllTold, NEW s \in Symbols
  PROVE  Seen(told)[s] # Nothing <=> told[s] # Nothing
<1>1. CASE told[s] = Nothing
  BY <1>1 DEF Seen
<1>2. CASE told[s] # Nothing
  <2>1. told[s] \in Told
    BY <1>2 DEF AllTold
  <2>2. [value |-> told[s].value, at |-> told[s].at] # Nothing
    BY <2>1, NothingIsNoTick DEF Told
  <2> QED
    BY <1>2, <2>2 DEF Seen
<1> QED
  BY <1>1, <1>2

LEMMA BookedSeen ==
  ASSUME NEW told \in AllTold, NEW s \in Symbols, NEW v \in Values[s],
         NEW t \in Stampable
  PROVE  /\ Booked(told, s, v, t) \in AllTold
         /\ Seen(Booked(told, s, v, t))
              = [Seen(told) EXCEPT ![s] = [value |-> v, at |-> t]]
<1> DEFINE e == [of |-> s, value |-> v, at |-> t]
           b == Booked(told, s, v, t)
           d == [value |-> v, at |-> t]
<1>1. e \in Told /\ e # Nothing /\ [value |-> e.value, at |-> e.at] = d
  BY NothingIsNoTick DEF Told
<1>2. b = [told EXCEPT ![s] = e]
  BY DEF Booked
<1> HIDE DEF e, b, d
<1>3. b \in AllTold /\ b[s] = e /\ \A q \in Symbols \ {s} : b[q] = told[q]
  BY <1>1, <1>2 DEF AllTold
<1>4. Seen(b)[s] = d /\ \A q \in Symbols \ {s} : Seen(b)[q] = Seen(told)[q]
  BY <1>1, <1>3 DEF Seen
<1>5. Seen(b) = [q \in Symbols |-> Seen(b)[q]]
  BY DEF Seen
<1>6. Seen(told) = [q \in Symbols |-> Seen(told)[q]]
  BY DEF Seen
<1>7. Seen(b) = [Seen(told) EXCEPT ![s] = d]
  BY <1>4, <1>5, <1>6
<1> QED
  BY <1>3, <1>7 DEF b, d

\* A booked tick is one the abstract provider may tell.
LEMMA Tells ==
  ASSUME feed \in Feeds, feed.state \in On,
         NEW s \in Symbols, NEW v \in Values[s], NEW t \in Stamps,
         feed'.told = Booked(feed.told, s, v, t), feed'.stamp = t,
         feed'.state \in {feed.state, "RUNNING"},
         answer' = (IF \E i \in Indices : feed'.told[i] # Nothing
                      THEN "snapshot" ELSE "none")
  PROVE  Provider!FeedPoll
<1>1. t \in Stampable
  BY DEF Stamps
<1>2. feed.told \in AllTold
  BY DEF Feeds, AllTold
<1>3. /\ feed'.told \in AllTold
      /\ Seen(feed'.told)
           = [Seen(feed.told) EXCEPT ![s] = [value |-> v, at |-> t]]
  BY <1>1, <1>2, BookedSeen
<1>4. \A i \in Indices : Seen(feed'.told)[i] # Nothing <=> feed'.told[i] # Nothing
  BY <1>3, SeenSomething DEF Symbols
<1>5. answer' = (IF \E i \in Indices : Seen(feed'.told)[i] # Nothing
                   THEN "snapshot" ELSE "none")
  BY <1>4
<1>6. t \in Provider!Stamps
  BY DEF Stamps, Stampable, Provider!Stamps, Provider!Stampable
<1>7. Provider!PollTells(s)
  BY <1>3, <1>5, <1>6 DEF Provider!PollTells, Provider!Off, On, Seen
<1> QED
  BY <1>7 DEF Provider!FeedPoll

\* The helpers that leave the books alone.
LEMMA BooksLeft ==
  ASSUME NEW f \in Feeds
  PROVE  /\ Alive(f).told = f.told /\ Alive(f).stamp = f.stamp
         /\ Lively(f).told = f.told /\ Lively(f).stamp = f.stamp
         /\ Lively(f).state \in {f.state, "RUNNING"}
         /\ Unmapped(f).told = f.told /\ Unmapped(f).stamp = f.stamp
         /\ Scheduled(f).told = f.told /\ Scheduled(f).stamp = f.stamp
<1>1. Alive(f) = [f EXCEPT !.active = clock]
  BY DEF Alive
<1>2. Lively(f) = [Alive(f) EXCEPT
                     !.state = IF @ = "READY" THEN "RUNNING" ELSE @]
  BY DEF Lively
<1> QED
  BY <1>1, <1>2 DEF Unmapped, Scheduled, Feeds

\* f is the adapter as the call began, or restored on a new line since.
Begun(f) ==
  /\ f.told = feed.told
  /\ f.stamp = feed.stamp
  /\ f.state \in {feed.state, "RUNNING"}
  /\ feed.state \in On

\* Whatever arrives, the abstract provider may answer.
LEMMA FrameTells ==
  ASSUME feed \in Feeds, NEW f, NEW l \in Lines, Good(f, l.numbering),
         clock \in Times, Begun(f), Frame(f, l)
  PROVE  Provider!FeedPoll
<1>0. /\ f \in Feeds /\ Alive(f) \in Feeds
      /\ f.told = feed.told /\ f.stamp = feed.stamp
      /\ f.state \in {feed.state, "RUNNING"} /\ feed.state \in On
  BY AliveGood DEF Good, Begun
<1>1. CASE Silence(f, l)
  BY <1>0, <1>1, Idles DEF Silence, Answer
<1>2. CASE Heartbeat(f, l)
  <2>1. feed' = Lively(f) /\ answer' = "control"
    BY <1>2 DEF Heartbeat, Answer
  <2> QED
    BY <1>0, <2>1, BooksLeft, Idles
<1>3. CASE Login(f, l)
  <2>1. CASE feed' = Alive(f) /\ Answer("control")
    BY <1>0, <2>1, BooksLeft, PlanLeft, Idles DEF Answer
  <2>2. CASE feed' = [Alive(f) EXCEPT !.state = "STOPPED"] /\ Answer("raised")
    <3>1. /\ feed'.told = Alive(f).told /\ feed'.stamp = Alive(f).stamp
          /\ feed'.state = "STOPPED"
      BY <1>0, <2>2 DEF Feeds
    <3> QED
      BY <1>0, <2>2, <3>1, BooksLeft, Fails DEF Answer
  <2> QED
    BY <1>3, <2>1, <2>2 DEF Login
<1>4. CASE \E S \in SUBSET Symbols : Acknowledge(f, l, S)
  <2>1. PICK S \in SUBSET Symbols : Acknowledge(f, l, S)
    BY <1>4
  <2> DEFINE named(i) == {s \in S : l.numbering[s] = i}
             ids == [i \in Ids |-> IF named(i) = {} THEN Alive(f).ids[i]
                                   ELSE CHOOSE s \in named(i) : TRUE]
             g == [Alive(f) EXCEPT !.ids = ids]
  <2>2. feed' = [g EXCEPT !.ready = Mapped(g)] /\ answer' = "control"
    BY <2>1 DEF Acknowledge, Answer
  <2> HIDE DEF ids
  <2>3. /\ g.told = Alive(f).told /\ g.stamp = Alive(f).stamp
        /\ g.state = Alive(f).state /\ DOMAIN g = DOMAIN Alive(f)
    BY <1>0 DEF Feeds
  <2> HIDE DEF g
  <2>4. feed'.told = g.told /\ feed'.stamp = g.stamp /\ feed'.state = g.state
    BY <1>0, <2>2, <2>3 DEF Feeds
  <2> QED
    BY <1>0, <2>2, <2>3, <2>4, BooksLeft, PlanLeft, Idles
<1>5. CASE Catalog(f, l)
  <2>1. feed' = Replan(Alive(f)) /\ answer' = "control"
    BY <1>5 DEF Catalog, Answer
  <2> QED
    BY <1>0, <2>1, ReplanFields, BooksLeft, PlanLeft, Idles
<1>6. CASE Malformed(f, l)
  <2>1. /\ feed'.told = f.told /\ feed'.stamp = f.stamp
        /\ feed'.state = "DEGRADED" /\ answer' = "raised"
    BY <1>0, <1>6 DEF Malformed, Answer, Feeds
  <2> QED
    BY <1>0, <2>1, Fails
<1>7. CASE Error(f, l)
  <2>1. /\ feed'.told = Alive(f).told /\ feed'.stamp = Alive(f).stamp
        /\ feed'.state = "DEGRADED" /\ answer' = "raised"
    BY <1>0, <1>7 DEF Error, Answer, Feeds
  <2> QED
    BY <1>0, <2>1, BooksLeft, Fails
<1>8. CASE \E s \in l.subscribed, byId \in BOOLEAN, t \in Stamps :
             \E v \in Values[s] : Tick(f, l, s, byId, v, t)
  <2>1. PICK s \in l.subscribed, byId \in BOOLEAN, t \in Stamps :
          \E v \in Values[s] : Tick(f, l, s, byId, v, t)
    BY <1>8
  <2>2. PICK v \in Values[s] : Tick(f, l, s, byId, v, t)
    BY <2>1
  <2>3. s \in Symbols /\ t \in Stampable
    BY DEF Lines, Stamps
  <2>4. CASE TickRefused(f, l, s, byId, t)
    <3>1. feed' = Alive(f) /\ answer' = "raised"
      BY <2>2, <2>4 DEF Tick, Answer
    <3> QED
      BY <1>0, <3>1, BooksLeft, PlanLeft, Fails
  <2>5. CASE ~ TickRefused(f, l, s, byId, t)
    <3> DEFINE g == Ingested(f, s, s, v, t)
    <3>1. Resolved(f, l, s, byId) = s
      BY <2>3, <2>5, ResolvedMeans DEF TickRefused
    <3>2. /\ feed' = (IF SpotKnown(g) THEN Lively(g) ELSE Alive(g))
          /\ answer' = (IF SpotKnown(g) THEN "snapshot" ELSE "none")
      BY <2>2, <2>5, <3>1 DEF Tick, Answer
    <3>3. g \in Feeds
      BY <2>3, IngestedGood DEF Good
    <3>4. /\ g.state = f.state /\ g.stamp = t
          /\ g.told = Booked(f.told, s, v, t)
      BY <1>0, <2>3, IngestedFields
    <3> HIDE DEF g
    <3>5. /\ feed'.told = g.told /\ feed'.stamp = g.stamp
          /\ feed'.state \in {g.state, "RUNNING"}
      BY <3>2, <3>3, BooksLeft, PlanLeft
    <3>6. answer' = (IF \E i \in Indices : feed'.told[i] # Nothing
                       THEN "snapshot" ELSE "none")
      BY <3>2, <3>5 DEF SpotKnown
    <3>7. feed'.told = Booked(feed.told, s, v, t) /\ feed'.stamp = t
      BY <1>0, <3>4, <3>5
    <3>8. feed'.state \in {feed.state, "RUNNING"}
      BY <1>0, <3>4, <3>5
    <3> QED
      BY <1>0, <2>3, <3>6, <3>7, <3>8, Tells
  <2> QED
    BY <2>4, <2>5
<1> QED
  BY <1>1, <1>2, <1>3, <1>4, <1>5, <1>6, <1>7, <1>8 DEF Frame

\* A recovery answers nothing, or says that it gave up.
LEMMA RecoverTells ==
  ASSUME NEW f \in Feeds, f.told = feed.told, f.stamp = feed.stamp,
         f.state = "DEGRADED", feed.state \in On, Recover(f)
  PROVE  Provider!FeedPoll
<1>1. CASE GivesUp(f)
  <2>1. /\ feed'.told = f.told /\ feed'.stamp = f.stamp
        /\ feed'.state = "STOPPED" /\ answer' = "raised"
    BY <1>1 DEF GivesUp, Answer, Feeds
  <2> QED
    BY <2>1, Fails
<1>2. CASE Waits(f)
  <2>1. feed' = Scheduled(f) /\ answer' = "none"
    BY <1>2 DEF Waits, Answer
  <2> QED
    BY <2>1, BooksLeft, PlanLeft, Idles
<1>3. CASE AttemptFails(f)
  <2> DEFINE u == Unmapped(f)
             a == [u EXCEPT !.attempts = @ + 1]
             r == clock + MinOf(MaxBackoff, 2 ^ (f.attempts + 1))
  <2>1. feed' = [a EXCEPT !.retryAt = r] /\ answer' = "none"
    BY <1>3 DEF AttemptFails, Attempt, Answer
  <2> HIDE DEF r
  <2>2. /\ u.state = f.state /\ u.told = f.told /\ u.stamp = f.stamp
        /\ DOMAIN u = DOMAIN f
    BY DEF Unmapped, Feeds
  <2> HIDE DEF u
  <2>3. /\ feed'.told = f.told /\ feed'.stamp = f.stamp
        /\ feed'.state = f.state
    BY <2>1, <2>2 DEF Feeds
  <2> QED
    BY <2>1, <2>3, Idles
<1> QED
  BY <1>1, <1>2, <1>3 DEF Recover

LEMMA LineLostTells ==
  ASSUME NEW f, NEW n, Good(f, n), Begun(f), LineLost(f)
  PROVE  Provider!FeedPoll
<1> DEFINE u == Unmapped(f)
           d == [u EXCEPT !.state = "DEGRADED"]
<1>1. Lost(f) = d
  BY DEF Lost
<1>2. f \in Feeds /\ u \in Feeds
  BY UnmappedGood DEF Good
<1>3. u.told = f.told /\ u.stamp = f.stamp
  BY <1>2, BooksLeft
<1> HIDE DEF u
<1>4. /\ d \in Feeds /\ d.state = "DEGRADED"
      /\ d.told = u.told /\ d.stamp = u.stamp
  BY <1>2 DEF Feeds, States
<1> HIDE DEF d
<1>5. d.told = feed.told /\ d.stamp = feed.stamp /\ feed.state \in On
  BY <1>3, <1>4 DEF Begun
<1>6. CASE Backoff
  BY <1>1, <1>4, <1>5, <1>6, RecoverTells DEF LineLost
<1>7. CASE ~ Backoff
  <2>1. feed' = d /\ answer' = "raised"
    BY <1>1, <1>7 DEF LineLost, Answer
  <2> QED
    BY <1>4, <1>5, <2>1, Fails
<1> QED
  BY <1>6, <1>7

LEMMA PollTellsProvider ==
  ASSUME IInv, Poll
  PROVE  Provider!FeedPoll
<1>0. /\ feed \in Feeds /\ line \in Lines /\ clock \in Times
      /\ Good(feed, line.numbering) /\ feed.state \in States
  BY PolledGood DEF IInv, Good, Feeds
<1>1. CASE PollStopped
  <2>1. Provider!PollOff
    BY <1>1 DEF PollStopped, Stopped, Answer, Provider!PollOff, Provider!Off
  <2> QED
    BY <2>1 DEF Provider!FeedPoll
<1>2. CASE ~ PollStopped
  <2>0. feed.state \in On
    BY <1>0, <1>2
       DEF Poll, PollSilent, PollReceives, PollLoses, PollRecovers,
           PollRestores, Listens, Stopped, States, On
  <2>1. CASE PollSilent
    <3>1. /\ feed'.told = feed.told /\ feed'.stamp = feed.stamp
          /\ feed'.state = "DEGRADED" /\ answer' = "raised"
      BY <1>0, <2>1 DEF PollSilent, Answer, Feeds
    <3> QED
      BY <2>0, <3>1, Fails
  <2>2. CASE PollReceives
    BY <1>0, <2>0, <2>2, FrameTells DEF PollReceives, Begun
  <2>3. CASE PollLoses
    <3>1. Begun(feed)
      BY <2>0 DEF Begun
    <3>2. Good(Alive(feed), line.numbering)
      BY <1>0, AliveGood
    <3>3. Begun(Alive(feed))
      BY <1>0, <2>0, BooksLeft, PlanLeft DEF Begun
    <3> QED
      BY <1>0, <2>3, <3>1, <3>2, <3>3, LineLostTells DEF PollLoses
  <2>4. CASE PollRecovers
    BY <1>0, <2>0, <2>4, RecoverTells DEF PollRecovers, Recovers
  <2>5. CASE PollRestores
    <3>1. ~ Exhausted(feed)
      BY <2>5 DEF PollRestores, Attempts
    <3>2. Begun(Restored(feed))
      BY <1>0, <2>0, RestoredFields DEF Begun
    <3>3. CASE LineLost(Restored(feed))
      BY <1>0, <3>1, <3>2, <3>3, RestoredGood, LineLostTells
    <3>4. CASE \E l \in NewLines(feed) : Frame(Restored(feed), l)
      <4>1. PICK l \in NewLines(feed) : Frame(Restored(feed), l)
        BY <3>4
      <4>2. l \in Lines
        BY <1>0 DEF NewLines, NewLine, Lines, Feeds
      <4>3. Good(Restored(feed), l.numbering)
        BY <1>0, <3>1, RestoredGood
      <4> QED
        BY <1>0, <3>2, <4>1, <4>2, <4>3, FrameTells
    <3> QED
      BY <2>5, <3>3, <3>4 DEF PollRestores
  <2> QED
    BY <1>2, <2>1, <2>2, <2>3, <2>4, <2>5 DEF Poll
<1> QED
  BY <1>1, <1>2

\* Every call of the vendor adapter does what the loop relies on: what it tells
\* of a symbol is one of its values, dated within the lag, and a snapshot has a
\* spot.
THEOREM AdapterImplementsFeed == Spec => ImplementsMarketFeed
<1>1. Init => clock = 0 /\ Provider!FeedInit
  <2> SUFFICES ASSUME Init PROVE clock = 0 /\ Provider!FeedInit
    OBVIOUS
  <2>1. /\ clock = 0 /\ answer = "none" /\ feed.state = "DISCONNECTED"
        /\ feed.told = [s \in Symbols |-> Nothing] /\ feed.stamp = -1
    BY DEF Init, Never
  <2>2. Seen(feed.told) = [s \in Symbols |-> Nothing]
    BY <2>1 DEF Seen
  <2> QED
    BY <2>1, <2>2 DEF Provider!FeedInit, Seen
<1>2. IInv /\ [Next]_vars
        => [Provider!FeedNext]_<<clock, Provider!feedVars>>
  <2> SUFFICES ASSUME IInv, [Next]_vars
               PROVE  [Provider!FeedNext]_<<clock, Provider!feedVars>>
    OBVIOUS
  <2>0. feed \in Feeds
    BY DEF IInv, MapSound, Good
  <2>1. CASE ClockTick
    <3>1. UNCHANGED Provider!feedVars
      BY <2>1 DEF ClockTick, Provider!feedVars
    <3> QED
      BY <2>1, <3>1 DEF ClockTick, Provider!FeedNext, Provider!FeedTick
  <2>2. CASE ConnectFails
    <3>1. /\ feed'.told = feed.told /\ feed'.stamp = feed.stamp
          /\ feed'.state \in {"STOPPED", "DEGRADED"}
      BY <2>0, <2>2 DEF ConnectFails, Feeds
    <3>2. Provider!FeedConnect /\ UNCHANGED clock
      BY <2>2, <3>1 DEF ConnectFails, Answer, Provider!FeedConnect
    <3> QED
      BY <3>2 DEF Provider!FeedNext
  <2>3. CASE \E n \in Numberings : Connect(n)
    <3>1. PICK n \in Numberings : Connect(n)
      BY <2>3
    <3> DEFINE u == Unmapped(feed)
               a == [u EXCEPT !.state = "READY"]
               b == [a EXCEPT !.active = clock]
    <3>2. Good(u, n) /\ u.told = feed.told /\ u.stamp = feed.stamp
      BY <2>0, UnmappedGood, BooksLeft DEF IInv, MapSound
    <3>3. b = [u EXCEPT !.state = "READY", !.active = clock]
      BY <3>2 DEF Good, Feeds
    <3>4. feed' = Replan(b)
      BY <3>1, <3>3 DEF Connect
    <3> HIDE DEF u
    <3>5. /\ Good(a, n) /\ a.state = "READY"
          /\ a.told = u.told /\ a.stamp = u.stamp
      BY <3>2, StateGood DEF States, Good, Feeds
    <3> HIDE DEF a
    <3>6. /\ b \in Feeds /\ b.state = "READY"
          /\ b.told = a.told /\ b.stamp = a.stamp
      BY <3>5, AliveGood, BooksLeft DEF Alive, Good, IInv
    <3> HIDE DEF b
    <3>7. /\ feed'.state = "READY" /\ feed'.told = feed.told
          /\ feed'.stamp = feed.stamp
      BY <3>2, <3>4, <3>5, <3>6, ReplanFields
    <3>8. answer' = "none" /\ UNCHANGED clock
      BY <3>1 DEF Connect, Answer
    <3>9. Provider!FeedConnect
      BY <3>7, <3>8 DEF Provider!FeedConnect
    <3> QED
      BY <3>8, <3>9 DEF Provider!FeedNext
  <2>4. CASE Disconnect
    <3> DEFINE u == Unmapped(feed)
    <3>1. /\ u.told = feed.told /\ u.stamp = feed.stamp
          /\ DOMAIN u = DOMAIN feed
      BY <2>0 DEF Unmapped, Feeds
    <3>2. /\ feed' = [u EXCEPT !.state = "STOPPED"]
          /\ answer' = "none" /\ UNCHANGED clock
      BY <2>4 DEF Disconnect, Answer
    <3> HIDE DEF u
    <3>3. /\ feed'.told = feed.told /\ feed'.stamp = feed.stamp
          /\ feed'.state = "STOPPED"
      BY <2>0, <3>1, <3>2 DEF Feeds
    <3>4. Provider!FeedDisconnect
      BY <3>2, <3>3 DEF Provider!FeedDisconnect
    <3> QED
      BY <3>2, <3>4 DEF Provider!FeedNext
  <2>5. CASE Poll
    <3>1. UNCHANGED clock
      BY <2>5, PollKeepsClock
    <3> QED
      BY <2>5, <3>1, PollTellsProvider DEF Provider!FeedNext
  <2>6. CASE UNCHANGED vars
    BY <2>6 DEF vars, Provider!feedVars
  <2> QED
    BY <2>1, <2>2, <2>3, <2>4, <2>5, <2>6 DEF Next
<1> QED
  BY <1>1, <1>2, Invariance, PTL
     DEF Spec, ImplementsMarketFeed, Provider!FeedSpec
=============================================================================
