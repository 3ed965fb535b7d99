-------------------------- MODULE LivePaperLoopProofs --------------------------
(***************************************************************************)
(* Proofs about LivePaperLoop, for every catalog, every configuration and  *)
(* everything a provider may tell.                                         *)
(***************************************************************************)
EXTENDS LivePaperLoop, SharedLemmas

\* What may be told of a contract.
Quotations == [bid : Nat, ask : Nat, ltp : Nat, volume : Nat, oi : Nat]

-----------------------------------------------------------------------------
(* Prices and sums                                                         *)

\* Integer division by a positive divisor stays in Nat.
LEMMA QuotientNat ==
  ASSUME NEW a \in Nat, NEW b \in Nat \ {0}
  PROVE  a \div b \in Nat
OBVIOUS

\* What is bought at one price has that price on average.
LEMMA QuotientExact ==
  ASSUME NEW a \in Nat, NEW b \in Nat \ {0}
  PROVE  (a * b) \div b = a
<1>1. \A n \in Nat : n \div b \in Nat /\ b * (n \div b) <= n /\ n < b * (n \div b) + b
  OBVIOUS
<1> DEFINE k == (a * b) \div b
<1>2. k \in Nat /\ b * k <= a * b /\ a * b < b * k + b
  BY <1>1
<1> HIDE DEF k
<1>3. b * k <= b * a /\ b * a < b * (k + 1)
  BY <1>2
<1>4. \A x, y \in Nat : /\ b * x <= b * y => x <= y
                        /\ b * x < b * y => x < y
  OBVIOUS
<1>5. k <= a /\ a < k + 1
  BY <1>2, <1>3, <1>4
<1> QED BY <1>2, <1>5 DEF k

LEMMA SlippageNat ==
  ASSUME NEW a \in Nat
  PROVE  Slip(a) \in Nat
<1>1. a * SlippageBps \in Nat
  BY PricingPolicy
<1> QED BY <1>1, QuotientNat DEF Slip

LEMMA ChargesNat ==
  ASSUME NEW entry \in Nat, NEW exit \in Nat, NEW quantity \in Nat
  PROVE  RoundTrip(entry, exit, quantity) \in Nat
<1> DEFINE stt == (exit * quantity * SttRate) \div 100000
           fees == ((entry + exit) * quantity * ExchangeRate) \div 100000
           gst == ((2 * Brokerage + fees) * GstRate) \div 100
<1>1. stt \in Nat /\ fees \in Nat
  <2>1. exit * quantity * SttRate \in Nat /\ (entry + exit) * quantity * ExchangeRate \in Nat
    BY PricingPolicy
  <2> QED BY <2>1, QuotientNat
<1>2. gst \in Nat
  <2> HIDE DEF fees
  <2>1. (2 * Brokerage + fees) * GstRate \in Nat
    BY <1>1, PricingPolicy
  <2> QED BY <2>1, QuotientNat
<1>3. RoundTrip(entry, exit, quantity) = 2 * Brokerage + stt + fees + gst
  BY DEF RoundTrip
<1> HIDE DEF stt, fees, gst
<1> QED BY <1>1, <1>2, <1>3, PricingPolicy

\* A sale brings a tick at least.
LEMMA ProceedsPositive ==
  ASSUME NEW mark \in Nat
  PROVE  Proceeds(mark) \in Nat \ {0}
BY SlippageNat DEF Proceeds

\* Each sum of the model is one of SharedLemmas.
LEMMA CostSum ==
  ASSUME NEW S
  PROVE  MapThenSumSet(Cost, S) = SumOver([p \in S |-> Cost(p)], S)
<1>1. MapThenSumSet(Cost, S) = (CHOOSE f : Sums(f, [p \in S |-> Cost(p)], S))[S]
  BY Zenon DEF MapThenSumSet, MapThenFoldSet, Sums
<1> QED BY <1>1, SumOverChosen

LEMMA QuantitySum ==
  ASSUME NEW S
  PROVE  MapThenSumSet(LAMBDA p : p.quantity, S) = SumOver([p \in S |-> p.quantity], S)
<1>1. MapThenSumSet(LAMBDA p : p.quantity, S) =
        (CHOOSE f : Sums(f, [p \in S |-> p.quantity], S))[S]
  BY Zenon DEF MapThenSumSet, MapThenFoldSet, Sums
<1> QED BY <1>1, SumOverChosen

LEMMA ProceedsSum ==
  ASSUME NEW S
  PROVE  MapThenSumSet(LAMBDA p : Proceeds(p.mark) * p.quantity, S) =
           SumOver([p \in S |-> Proceeds(p.mark) * p.quantity], S)
<1>1. MapThenSumSet(LAMBDA p : Proceeds(p.mark) * p.quantity, S) =
        (CHOOSE f : Sums(f, [p \in S |-> Proceeds(p.mark) * p.quantity], S))[S]
  BY Zenon DEF MapThenSumSet, MapThenFoldSet, Sums
<1> QED BY <1>1, SumOverChosen

LEMMA ResultSum ==
  ASSUME NEW S
  PROVE  MapThenSumSet(NetResult, S) = SumOver([p \in S |-> NetResult(p)], S)
<1>1. MapThenSumSet(NetResult, S) = (CHOOSE f : Sums(f, [p \in S |-> NetResult(p)], S))[S]
  BY Zenon DEF MapThenSumSet, MapThenFoldSet, Sums
<1> QED BY <1>1, SumOverChosen

LEMMA HoldingSum ==
  ASSUME NEW d, NEW S
  PROVE  MapThenSumSet(LAMBDA k : AtCost(d.held[k]), S) =
           SumOver([k \in S |-> AtCost(d.held[k])], S)
<1>1. MapThenSumSet(LAMBDA k : AtCost(d.held[k]), S) =
        (CHOOSE f : Sums(f, [k \in S |-> AtCost(d.held[k])], S))[S]
  BY Zenon DEF MapThenSumSet, MapThenFoldSet, Sums
<1> QED BY <1>1, SumOverChosen

-----------------------------------------------------------------------------
(* The inductive invariant                                                 *)

Positions ==
  [contract : Listed, quantity : Nat \ {0}, entry : Nat \ {0}, stop : Int,
   target : Int, mark : Nat, valuedAt : Stampable \cup {NotValued}]

Desks ==
  [book : SUBSET Positions,
   held : [Listed -> [quantity : Nat, average : Nat]],
   cash : Nat, openContracts : SUBSET Listed, realized : Int,
   halted : BOOLEAN, unresolved : BOOLEAN]

DeskTyped(d) == d \in Desks /\ IsFiniteSet(d.book)

\* One position of a contract, and the loop's own set names the contracts.
BookNamed(d) ==
  /\ \A p, q \in d.book : p.contract = q.contract => p = q
  /\ d.openContracts = {p.contract : p \in d.book}

\* The ledger holds each position as it was bought, and nothing else.
HeldAsBought(d) ==
  /\ \A p \in d.book :
       d.held[p.contract] = [quantity |-> p.quantity, average |-> p.entry]
  /\ \A c \in Listed \ d.openContracts :
       d.held[c] = [quantity |-> 0, average |-> 0]

CashSpent(d) ==
  d.cash + MapThenSumSet(Cost, d.book) >= StartingCash + d.realized

DeskSound(d) ==
  DeskTyped(d) /\ BookNamed(d) /\ HeldAsBought(d) /\ CashSpent(d)

\* What was told of the symbols, at a time that can be told.
ToldSound(t) ==
  \A s \in Symbols : t[s] # Nothing => t[s].value \in Values[s] /\ t[s].at \in Stampable

FeedSound ==
  /\ clock \in Times
  /\ stamp \in Stampable \cup {-1}
  /\ told = [s \in Symbols |-> told[s]]
  /\ ToldSound(told)

LiveInv == FeedSound /\ DeskSound(desk)

LEMMA PositionCost ==
  ASSUME NEW d, DeskTyped(d)
  PROVE  \A p \in d.book : Cost(p) \in Nat \ {0} /\ p.quantity \in Nat \ {0}
BY DEF DeskTyped, Desks, Positions, Cost

\* The notional of the ledger is what the positions have cost.
LEMMA GrossIsCost ==
  ASSUME NEW d, DeskSound(d)
  PROVE  /\ MapThenSumSet(LAMBDA k : AtCost(d.held[k]), Listed) = MapThenSumSet(Cost, d.book)
         /\ MapThenSumSet(Cost, d.book) \in Int
<1> DEFINE w == [k \in Listed |-> AtCost(d.held[k])]
           v == [p \in d.book |-> Cost(p)]
           g == [p \in d.book |-> p.contract]
           named == {g[p] : p \in d.book}
           rest == Listed \ named
<1>1. IsFiniteSet(d.book) /\ IsFiniteSet(Listed) /\ IsFiniteSet(rest)
  BY CatalogContracts, FS_Difference DEF DeskSound, DeskTyped
<1>2. \A p \in d.book : p.contract \in Listed
  BY DEF DeskSound, DeskTyped, Desks, Positions
<1>3. \A p \in d.book : w[g[p]] \in Int /\ v[p] = w[g[p]]
  <2> TAKE p \in d.book
  <2>1. d.held[p.contract] = [quantity |-> p.quantity, average |-> p.entry]
    BY DEF DeskSound, HeldAsBought
  <2>2. w[g[p]] = Cost(p)
    BY <1>2, <2>1 DEF AtCost, Cost
  <2> QED BY <2>2, PositionCost DEF DeskSound
<1>4. \A p, q \in d.book : g[p] = g[q] => p = q
  BY DEF DeskSound, BookNamed
<1>5. IsFiniteSet(named) /\ SumOver(w, named) = SumOver(v, d.book)
  <2> DEFINE S == d.book
  <2> HIDE DEF w, v, g, S
  <2>1. IsFiniteSet(S) /\ (\A p, q \in S : g[p] = g[q] => p = q)
    BY <1>1, <1>4 DEF S
  <2>2. \A p \in S : w[g[p]] \in Int /\ v[p] = w[g[p]]
    BY <1>3 DEF S
  <2>3. IsFiniteSet({g[p] : p \in S}) /\ SumOver(w, {g[p] : p \in S}) = SumOver(v, S)
    BY <2>1, <2>2, SumImage
  <2> QED BY <2>3 DEF S
<1>6. named = d.openContracts /\ named \subseteq Listed
  BY <1>2 DEF DeskSound, BookNamed
<1>7. \A k \in rest : w[k] = 0
  <2> TAKE k \in rest
  <2>1. k \in Listed \ d.openContracts
    BY <1>6
  <2>2. d.held[k] = [quantity |-> 0, average |-> 0]
    BY <2>1 DEF DeskSound, HeldAsBought
  <2>3. AtCost(d.held[k]) = 0
    BY <2>2 DEF AtCost
  <2> QED BY <2>1, <2>3
<1>8. SumOver(w, rest) = 0
  <2> HIDE DEF w, rest
  <2> QED BY <1>1, <1>7, SumZero
<1>9. \A k \in named \cup rest : w[k] \in Int
  <2>1. ASSUME NEW k \in named PROVE w[k] \in Int
    <3>1. PICK p \in d.book : k = g[p]
      OBVIOUS
    <3> QED BY <1>3, <3>1
  <2>2. ASSUME NEW k \in rest PROVE w[k] \in Int
    <3>1. w[k] = 0
      BY <1>7
    <3> QED BY <3>1
  <2> QED BY <2>1, <2>2
<1>10. SumOver(w, named \cup rest) = SumOver(w, named) + SumOver(w, rest)
  <2>1. named \cap rest = {}
    OBVIOUS
  <2> HIDE DEF w, rest, named
  <2> QED BY <1>1, <1>5, <1>9, <2>1, SumUnion
<1>11. named \cup rest = Listed
  BY <1>6
<1>12. SumOver(v, d.book) \in Int
  <2>1. \A p \in d.book : v[p] \in Int
    BY <1>3
  <2> QED BY <1>1, <2>1, SumType
<1>13. MapThenSumSet(LAMBDA k : AtCost(d.held[k]), Listed) = SumOver(w, Listed)
  BY HoldingSum
<1>14. MapThenSumSet(Cost, d.book) = SumOver(v, d.book)
  BY CostSum
<1> HIDE DEF w, v, named, rest
<1>15. SumOver(w, Listed) = SumOver(v, d.book)
  <2> DEFINE x == SumOver(w, named)
             y == SumOver(w, rest)
             z == SumOver(v, d.book)
  <2>1. SumOver(w, Listed) = x + y
    BY <1>10, <1>11
  <2>2. x = z /\ y = 0 /\ z \in Int
    BY <1>5, <1>8, <1>12
  <2> HIDE DEF x, y, z
  <2>3. SumOver(w, Listed) = z
    BY <2>1, <2>2
  <2> QED BY <2>3 DEF z
<1> QED BY Zenon, <1>12, <1>13, <1>14, <1>15

-----------------------------------------------------------------------------
(* What each change of the books keeps                                     *)

\* A mark is a price, taken at the time of the quote; nothing else changes.
LEMMA MarkedPosition ==
  ASSUME NEW p \in Positions, NEW x, ToldSound(x.told)
  PROVE  /\ Marked(p, x) \in Positions
         /\ Marked(p, x).contract = p.contract
         /\ Marked(p, x).quantity = p.quantity
         /\ Marked(p, x).entry = p.entry
         /\ Marked(p, x) = p \/ Marked(p, x).valuedAt # NotValued
<1> DEFINE q == x.told[p.contract]
<1>1. CASE q # Nothing /\ q.at >= p.valuedAt /\ MarkPrice(q.value) > 0
  <2>1. q.value \in Quotations /\ q.at \in Stampable
    <3>1. p.contract \in Listed /\ p.contract \in Symbols
      BY LoopConstants DEF Positions
    <3>2. q.value \in Values[p.contract] /\ q.at \in Stampable
      BY <1>1, <3>1 DEF ToldSound
    <3>3. Values[p.contract] \subseteq Quotations
      BY <3>1, LoopConstants DEF Quotations
    <3> QED BY <3>2, <3>3
  <2>2. MarkPrice(q.value) \in Nat
    BY <2>1 DEF MarkPrice, Quotations
  <2>3. Marked(p, x) = [p EXCEPT !.mark = MarkPrice(q.value), !.valuedAt = q.at]
    BY <1>1 DEF Marked
  <2>4. q.at # NotValued
    BY <2>1 DEF NotValued, Stampable
  <2> HIDE DEF q
  <2> QED BY <2>1, <2>2, <2>3, <2>4 DEF Positions
<1>2. CASE ~ (q # Nothing /\ q.at >= p.valuedAt /\ MarkPrice(q.value) > 0)
  <2>1. Marked(p, x) = p
    BY <1>2 DEF Marked
  <2> QED BY <2>1
<1> QED BY <1>1, <1>2

\* Marking changes no more than what the positions are worth.
LEMMA MarkingKeeps ==
  ASSUME NEW d, DeskSound(d), NEW x, ToldSound(x.told)
  PROVE  /\ DeskSound(Marking(d, x))
         /\ \A p \in Marking(d, x).book : p \in d.book \/ p.valuedAt # NotValued
<1> DEFINE e == Marking(d, x)
           g == [p \in d.book |-> Marked(p, x)]
<1>1. /\ d \in Desks /\ IsFiniteSet(d.book) /\ d.book \subseteq Positions
      /\ e = [d EXCEPT !.book = {Marked(p, x) : p \in d.book}]
  BY DEF DeskSound, DeskTyped, Desks, Marking
<1>2. /\ e.book = {Marked(p, x) : p \in d.book} /\ e.held = d.held /\ e.cash = d.cash
      /\ e.openContracts = d.openContracts /\ e.realized = d.realized
  BY <1>1 DEF Desks
<1>3. \A p \in d.book :
        /\ Marked(p, x) \in Positions
        /\ Marked(p, x).contract = p.contract
        /\ Marked(p, x).quantity = p.quantity
        /\ Marked(p, x).entry = p.entry
        /\ Marked(p, x) = p \/ Marked(p, x).valuedAt # NotValued
  BY <1>1, MarkedPosition
<1>4. \A p, q \in d.book : p.contract = q.contract => p = q
  BY DEF DeskSound, BookNamed
<1>5. \A p, q \in d.book : g[p] = g[q] => p = q
  BY <1>3, <1>4
<1>6. IsFiniteSet(e.book) /\ MapThenSumSet(Cost, e.book) = MapThenSumSet(Cost, d.book)
  <2> DEFINE S == d.book
             w == [p \in e.book |-> Cost(p)]
             v == [p \in S |-> Cost(p)]
  <2>1. \A p \in S : w[g[p]] \in Int /\ v[p] = w[g[p]]
    <3> TAKE p \in S
    <3>1. g[p] \in e.book /\ Cost(g[p]) = Cost(p)
      BY <1>2, <1>3 DEF Cost
    <3>2. Cost(p) \in Int
      BY <1>1 DEF Positions, Cost
    <3> QED BY <3>1, <3>2
  <2>2. e.book = {g[p] : p \in S}
    BY <1>2
  <2>3. IsFiniteSet({g[p] : p \in S}) /\ SumOver(w, {g[p] : p \in S}) = SumOver(v, S)
    <3>1. IsFiniteSet(S) /\ \A p, q \in S : g[p] = g[q] => p = q
      BY <1>1, <1>5
    <3> HIDE DEF w, v, g, S
    <3> QED BY <2>1, <3>1, SumImage
  <2>4. MapThenSumSet(Cost, e.book) = SumOver(w, e.book)
    BY CostSum
  <2>5. MapThenSumSet(Cost, d.book) = SumOver(v, S)
    BY CostSum
  <2> HIDE DEF w, v, g, S
  <2> QED BY <2>2, <2>3, <2>4, <2>5
<1>7. DeskTyped(e)
  <2>1. e.book \subseteq Positions
    BY <1>2, <1>3
  <2> QED BY <1>1, <1>2, <1>6, <2>1 DEF DeskTyped, Desks
<1>8. BookNamed(e)
  <2>1. {p.contract : p \in e.book} = {p.contract : p \in d.book}
    BY <1>2, <1>3
  <2>2. \A p, q \in e.book : p.contract = q.contract => p = q
    BY <1>2, <1>3, <1>4
  <2> QED BY <1>2, <2>1, <2>2 DEF BookNamed, DeskSound
<1>9. HeldAsBought(e)
  <2>1. \A p \in e.book : e.held[p.contract] = [quantity |-> p.quantity, average |-> p.entry]
    <3> TAKE p \in e.book
    <3>1. PICK q \in d.book : p = Marked(q, x)
      BY <1>2
    <3>2. d.held[q.contract] = [quantity |-> q.quantity, average |-> q.entry]
      BY DEF HeldAsBought, DeskSound
    <3> QED BY <1>2, <1>3, <3>1, <3>2
  <2> QED BY <1>2, <2>1 DEF HeldAsBought, DeskSound
<1>10. CashSpent(e)
  BY <1>2, <1>6 DEF CashSpent, DeskSound
<1>11. \A p \in e.book : p \in d.book \/ p.valuedAt # NotValued
  BY <1>2, <1>3
<1> QED BY <1>7, <1>8, <1>9, <1>10, <1>11 DEF DeskSound

\* A position and the ledger's account of its contract.
LEMMA HeldPosition ==
  ASSUME NEW d, DeskSound(d), NEW p \in d.book
  PROVE  /\ p \in Positions /\ p.contract \in Listed
         /\ p.quantity \in Nat \ {0} /\ p.entry \in Nat \ {0}
         /\ d.held[p.contract].quantity = p.quantity
         /\ d.held[p.contract].average = p.entry
<1>1. d.held[p.contract] = [quantity |-> p.quantity, average |-> p.entry]
  BY DEF DeskSound, HeldAsBought
<1>2. p \in Positions
  BY DEF DeskSound, DeskTyped, Desks
<1> QED BY <1>1, <1>2 DEF Positions

\* What the ledger has left of each contract.
LEMMA SoldPositions ==
  ASSUME NEW d, DeskSound(d), NEW gone \in SUBSET d.book, NEW c \in Listed
  PROVE  SoldBook(d, gone)[c] =
           IF \E p \in gone : p.contract = c THEN [quantity |-> 0, average |-> 0]
                                             ELSE d.held[c]
<1> DEFINE here == {p \in gone : p.contract = c}
           sold == MapThenSumSet(LAMBDA p : p.quantity, here)
           rest == d.held[c].quantity - sold
<1>1. SoldBook(d, gone)[c] =
        [quantity |-> rest, average |-> IF rest = 0 THEN 0 ELSE d.held[c].average]
  BY DEF SoldBook
<1>2. sold = SumOver([p \in here |-> p.quantity], here)
  BY QuantitySum
<1>3. d.held[c] \in [quantity : Nat, average : Nat]
  BY DEF DeskSound, DeskTyped, Desks
<1>4. CASE \E p \in gone : p.contract = c
  <2>1. PICK p \in gone : p.contract = c
    BY <1>4
  <2>2. here = {p}
    BY <2>1 DEF DeskSound, BookNamed
  <2>3. p.quantity \in Nat /\ d.held[c].quantity = p.quantity
    BY <2>1, HeldPosition
  <2>4. sold = p.quantity
    <3> DEFINE w == [q \in here |-> q.quantity]
    <3>1. w[p] = p.quantity
      BY <2>2
    <3> HIDE DEF w
    <3>2. SumOver(w, {p}) = p.quantity
      BY <2>3, <3>1, SumSingle
    <3> QED BY <1>2, <2>2, <3>2 DEF w
  <2>5. rest = 0
    <3> HIDE DEF sold
    <3> QED BY <2>3, <2>4
  <2> HIDE DEF rest
  <2> QED BY <1>1, <1>4, <2>5
<1>5. CASE ~ \E p \in gone : p.contract = c
  <2>1. here = {}
    BY <1>5
  <2>2. sold = 0
    BY <1>2, <2>1, SumEmpty
  <2>3. rest = d.held[c].quantity
    <3> HIDE DEF sold
    <3> QED BY <1>3, <2>2
  <2>4. rest = 0 => d.held[c].average = 0
    <3> HIDE DEF rest
    <3>1. SUFFICES ASSUME d.held[c].quantity = 0 PROVE d.held[c].average = 0
      BY <2>3
    <3>2. CASE c \in d.openContracts
      <4>1. PICK p \in d.book : p.contract = c
        BY <3>2 DEF DeskSound, BookNamed
      <4> QED BY <3>1, <4>1, HeldPosition
    <3>3. CASE c \notin d.openContracts
      BY <3>3 DEF DeskSound, HeldAsBought
    <3> QED BY <3>2, <3>3
  <2> HIDE DEF rest
  <2> QED BY <1>1, <1>3, <1>5, <2>3, <2>4
<1> QED BY <1>4, <1>5

\* What is sold brings its result and the charges at least, on top of its cost.
LEMMA ClosedSums ==
  ASSUME NEW S, IsFiniteSet(S), S \subseteq Positions
  PROVE  /\ MapThenSumSet(LAMBDA p : Proceeds(p.mark) * p.quantity, S) \in Nat
         /\ MapThenSumSet(NetResult, S) \in Int
         /\ MapThenSumSet(Cost, S) \in Int
         /\ MapThenSumSet(LAMBDA p : Proceeds(p.mark) * p.quantity, S) >=
              MapThenSumSet(Cost, S) + MapThenSumSet(NetResult, S)
<1> DEFINE sale == [p \in S |-> Proceeds(p.mark) * p.quantity]
           net == [p \in S |-> NetResult(p)]
           cost == [p \in S |-> Cost(p)]
           both == [p \in S |-> cost[p] + net[p]]
<1>1. \A p \in S : /\ sale[p] \in Nat /\ net[p] \in Int /\ cost[p] \in Int
                   /\ both[p] = cost[p] + net[p] /\ both[p] <= sale[p]
  <2> TAKE p \in S
  <2> DEFINE price == Proceeds(p.mark)
             charges == RoundTrip(p.entry, price, p.quantity)
  <2>1. p.quantity \in Nat /\ p.entry \in Nat /\ price \in Nat
    BY ProceedsPositive DEF Positions
  <2>2. charges \in Nat
    BY <2>1, ChargesNat
  <2>3. /\ sale[p] = price * p.quantity
        /\ net[p] = (price - p.entry) * p.quantity - charges
        /\ cost[p] = p.quantity * p.entry
        /\ both[p] = cost[p] + net[p]
    BY DEF NetResult, Cost
  <2> HIDE DEF price, charges, sale, net, cost, both
  <2>4. /\ price * p.quantity \in Nat /\ p.quantity * p.entry \in Int
        /\ (price - p.entry) * p.quantity = price * p.quantity - p.quantity * p.entry
    BY <2>1
  <2> QED BY <2>2, <2>3, <2>4
<1>2. /\ MapThenSumSet(NetResult, S) = SumOver(net, S)
      /\ MapThenSumSet(Cost, S) = SumOver(cost, S)
  BY ResultSum, CostSum
<1>3. MapThenSumSet(LAMBDA p : Proceeds(p.mark) * p.quantity, S) = SumOver(sale, S)
  BY ProceedsSum
<1> HIDE DEF sale, net, cost, both
<1>4. SumOver(sale, S) \in Nat
  BY <1>1, SumNatural
<1>5. SumOver(net, S) \in Int /\ SumOver(cost, S) \in Int
  BY <1>1, SumType
<1>6. SumOver(both, S) = SumOver(cost, S) + SumOver(net, S)
  BY <1>1, SumPlus
<1>7. SumOver(both, S) <= SumOver(sale, S)
  <2>1. \A p \in S : both[p] \in Int /\ sale[p] \in Int /\ both[p] <= sale[p]
    BY <1>1
  <2> QED BY <2>1, SumMonotone
<1>8. SumOver(sale, S) >= SumOver(cost, S) + SumOver(net, S)
  BY <1>4, <1>5, <1>6, <1>7
<1>9. MapThenSumSet(NetResult, S) \in Int /\ MapThenSumSet(Cost, S) \in Int
  BY <1>2, <1>5
<1>10. MapThenSumSet(LAMBDA p : Proceeds(p.mark) * p.quantity, S) \in Nat
  BY Zenon, <1>3, <1>4
<1>11. MapThenSumSet(LAMBDA p : Proceeds(p.mark) * p.quantity, S) >=
         MapThenSumSet(Cost, S) + MapThenSumSet(NetResult, S)
  BY Zenon, <1>2, <1>3, <1>8
<1> QED BY Zenon, <1>9, <1>10, <1>11

\* Closing positions keeps the books in step and takes no cash.
LEMMA ClosedKeeps ==
  ASSUME NEW d, DeskSound(d), NEW gone \in SUBSET d.book
  PROVE  DeskSound(Closed(d, gone)) /\ Closed(d, gone).cash >= d.cash
<1> DEFINE e == Closed(d, gone)
           sales == MapThenSumSet(LAMBDA p : Proceeds(p.mark) * p.quantity, gone)
           results == MapThenSumSet(NetResult, gone)
           left == d.book \ gone
<1>1. d \in Desks /\ IsFiniteSet(d.book) /\ d.book \subseteq Positions
  BY DEF DeskSound, DeskTyped, Desks
<1>2. e = [d EXCEPT !.book = d.book \ gone, !.held = SoldBook(d, gone),
                    !.cash = d.cash + sales,
                    !.openContracts = d.openContracts \ {p.contract : p \in gone},
                    !.realized = d.realized + results]
  BY Zenon DEF Closed
<1>3. IsFiniteSet(gone) /\ IsFiniteSet(left) /\ gone \subseteq Positions /\ left \subseteq Positions
  BY <1>1, FS_Subset
<1>4. /\ sales \in Nat /\ results \in Int /\ MapThenSumSet(Cost, gone) \in Int
      /\ sales >= MapThenSumSet(Cost, gone) + results
  BY Zenon, <1>3, ClosedSums
<1>5. /\ MapThenSumSet(Cost, left) \in Int
      /\ MapThenSumSet(Cost, d.book) = MapThenSumSet(Cost, gone) + MapThenSumSet(Cost, left)
  <2> DEFINE w == [p \in d.book |-> Cost(p)]
             v == [p \in gone |-> Cost(p)]
             u == [p \in left |-> Cost(p)]
  <2>1. \A p \in d.book : w[p] \in Int
    BY <1>1 DEF Positions, Cost
  <2>2. SumOver(w, d.book) = SumOver(w, gone) + SumOver(w, left)
    <3> HIDE DEF w
    <3> QED BY <1>1, <2>1, SumPart
  <2>3. SumOver(w, gone) = SumOver(v, gone)
    <3>1. \A p \in gone : w[p] = v[p]
      OBVIOUS
    <3> HIDE DEF w, v
    <3> QED BY <1>3, <3>1, SumLocal
  <2>4. SumOver(w, left) = SumOver(u, left)
    <3>1. \A p \in left : w[p] = u[p]
      OBVIOUS
    <3> HIDE DEF w, u, left
    <3> QED BY <1>3, <3>1, SumLocal
  <2>5. SumOver(u, left) \in Int
    <3>1. \A p \in left : u[p] \in Int
      BY <2>1
    <3> HIDE DEF u, left
    <3> QED BY <1>3, <3>1, SumType
  <2>6. /\ MapThenSumSet(Cost, d.book) = SumOver(w, d.book)
        /\ MapThenSumSet(Cost, gone) = SumOver(v, gone)
        /\ MapThenSumSet(Cost, left) = SumOver(u, left)
    BY CostSum
  <2> HIDE DEF u, v, w, left
  <2> QED BY <2>2, <2>3, <2>4, <2>5, <2>6
<1> HIDE DEF sales, results
<1>6. /\ e.book = left /\ e.held = SoldBook(d, gone) /\ e.cash = d.cash + sales
      /\ e.openContracts = d.openContracts \ {p.contract : p \in gone}
      /\ e.realized = d.realized + results
      /\ e.halted = d.halted /\ e.unresolved = d.unresolved
  BY <1>1, <1>2 DEF Desks
<1>7. d.cash \in Nat /\ d.realized \in Int
  BY <1>1 DEF Desks
<1>8. \A c \in Listed :
        e.held[c] = IF \E p \in gone : p.contract = c THEN [quantity |-> 0, average |-> 0]
                                                     ELSE d.held[c]
  BY <1>6, SoldPositions
<1>9. DeskTyped(e)
  <2>1. e.held \in [Listed -> [quantity : Nat, average : Nat]]
    <3>1. e.held = [c \in Listed |-> e.held[c]]
      BY <1>6 DEF SoldBook
    <3>2. \A c \in Listed : e.held[c] \in [quantity : Nat, average : Nat]
      BY <1>1, <1>8 DEF Desks
    <3> QED BY <3>1, <3>2
  <2>2. e.cash \in Nat /\ e.realized \in Int
    BY <1>4, <1>6, <1>7
  <2> QED BY <1>1, <1>2, <1>3, <1>6, <2>1, <2>2 DEF DeskTyped, Desks
<1>10. BookNamed(e)
  BY <1>6 DEF DeskSound, BookNamed
<1>11. HeldAsBought(e)
  <2>1. ASSUME NEW p \in e.book
        PROVE  e.held[p.contract] = [quantity |-> p.quantity, average |-> p.entry]
    <3>1. p \in d.book /\ p \notin gone /\ p.contract \in Listed
      BY <1>6, HeldPosition
    <3>2. ~ \E q \in gone : q.contract = p.contract
      BY <3>1 DEF DeskSound, BookNamed
    <3>3. e.held[p.contract] = d.held[p.contract]
      BY <1>8, <3>1, <3>2
    <3> QED BY <3>1, <3>3 DEF DeskSound, HeldAsBought
  <2>2. ASSUME NEW c \in Listed, c \notin e.openContracts
        PROVE  e.held[c] = [quantity |-> 0, average |-> 0]
    BY <1>6, <1>8, <2>2 DEF DeskSound, HeldAsBought
  <2> QED BY <2>1, <2>2 DEF HeldAsBought
<1>12. CashSpent(e)
  <2>1. d.cash + MapThenSumSet(Cost, d.book) >= StartingCash + d.realized
    BY DEF DeskSound, CashSpent
  <2>2. StartingCash \in Int
    BY LoopConstants
  <2>3. (d.cash + sales) + MapThenSumSet(Cost, left) >= StartingCash + (d.realized + results)
    BY <1>4, <1>5, <1>7, <2>1, <2>2
  <2> QED BY <1>6, <2>3 DEF CashSpent
<1>13. e.cash >= d.cash
  BY <1>4, <1>6, <1>7
<1> QED BY <1>9, <1>10, <1>11, <1>12, <1>13 DEF DeskSound

\* Managing the positions keeps the books in step and buys nothing, a halt
\* stays, and a closing session leaves only what was never valued and says so.
LEMMA ManagedKeeps ==
  ASSUME NEW d, DeskSound(d), NEW x, ToldSound(x.told)
  PROVE  /\ DeskSound(Managed(d, x))
         /\ \A p \in Managed(d, x).book : p \in d.book \/ p.valuedAt # NotValued
         /\ Managed(d, x).cash >= d.cash
         /\ Managed(d, x).openContracts \subseteq d.openContracts
         /\ d.halted => Managed(d, x).halted
         /\ d.unresolved => Managed(d, x).unresolved
         /\ CloseDue(SessionOf[x.at]) =>
              \A p \in Managed(d, x).book :
                /\ p.valuedAt = NotValued
                /\ Managed(d, x).halted /\ Managed(d, x).unresolved
<1> DEFINE due == CloseDue(SessionOf[x.at])
           marked == Marking(d, x)
           stuck == Unmarked(marked, due)
           flagged == [marked EXCEPT !.unresolved = marked.unresolved \/ stuck,
                                     !.halted = marked.halted \/ stuck]
           gone == Leaving(marked, due)
           e == Managed(d, x)
<1>1. e = Closed(flagged, gone)
  BY DEF Managed
<1>2. DeskSound(marked) /\ \A p \in marked.book : p \in d.book \/ p.valuedAt # NotValued
  BY MarkingKeeps
<1>3. /\ marked.cash = d.cash /\ marked.openContracts = d.openContracts
      /\ marked.halted = d.halted /\ marked.unresolved = d.unresolved
  BY DEF Marking, DeskSound, DeskTyped, Desks
<1>4. stuck \in BOOLEAN
  BY DEF Unmarked, CloseDue
<1> HIDE DEF marked, stuck
<1>5. /\ flagged.book = marked.book /\ flagged.held = marked.held
      /\ flagged.cash = marked.cash /\ flagged.openContracts = marked.openContracts
      /\ flagged.realized = marked.realized
      /\ flagged.halted = (marked.halted \/ stuck)
      /\ flagged.unresolved = (marked.unresolved \/ stuck)
      /\ flagged \in Desks
  BY <1>2, <1>4 DEF DeskSound, DeskTyped, Desks
<1> HIDE DEF flagged
<1>6. DeskSound(flagged)
  BY <1>2, <1>5 DEF DeskSound, DeskTyped, BookNamed, HeldAsBought, CashSpent
<1>7. gone \in SUBSET flagged.book
  BY <1>5 DEF Leaving
<1>8. DeskSound(e) /\ e.cash >= flagged.cash
  BY <1>1, <1>6, <1>7, ClosedKeeps
<1>9. /\ e.book = flagged.book \ gone
      /\ e.openContracts = flagged.openContracts \ {p.contract : p \in gone}
      /\ e.halted = flagged.halted /\ e.unresolved = flagged.unresolved
  BY <1>1, <1>5 DEF Closed, Desks
<1>10. ASSUME due, NEW p \in e.book
       PROVE  p.valuedAt = NotValued /\ e.halted /\ e.unresolved
  <2>1. p \in marked.book /\ p \notin gone
    BY <1>5, <1>9
  <2>2. p.valuedAt = NotValued
    <3>1. SUFFICES ASSUME p.valuedAt # NotValued PROVE p \in gone
      BY <2>1
    <3>2. ExitOf(p, due) # "NONE"
      BY <1>10, <3>1 DEF ExitOf, ChooseExit
    <3>3. Deliverable(marked, p)
      BY <1>2, <2>1, HeldPosition DEF Deliverable
    <3> QED BY <2>1, <3>2, <3>3 DEF Leaving
  <2>3. stuck
    BY <1>10, <2>1, <2>2 DEF stuck, Unmarked
  <2> QED BY <1>5, <1>9, <2>2, <2>3
<1>11. \A p \in e.book : p \in d.book \/ p.valuedAt # NotValued
  BY <1>2, <1>5, <1>9
<1>12. e.cash >= d.cash /\ e.openContracts \subseteq d.openContracts
  BY <1>3, <1>5, <1>8, <1>9
<1>13. (d.halted => e.halted) /\ (d.unresolved => e.unresolved)
  BY <1>3, <1>5, <1>9
<1> HIDE DEF e
<1> QED BY <1>8, <1>10, <1>11, <1>12, <1>13 DEF e, due

\* Buying a contract that is not held keeps the books in step.
LEMMA EnteredKeeps ==
  ASSUME NEW d, DeskSound(d), NEW c \in Listed, c \notin d.openContracts,
         NEW price \in Nat \ {0}, Quantity(c) \in Nat \ {0},
         Quantity(c) * price <= d.cash
  PROVE  /\ DeskSound(Entered(d, c, price))
         /\ MapThenSumSet(Cost, Entered(d, c, price).book) =
              MapThenSumSet(Cost, d.book) + Quantity(c) * price
<1> DEFINE e == Entered(d, c, price)
           n == NewPosition(c, price)
           q == Quantity(c)
<1>1. d \in Desks /\ IsFiniteSet(d.book) /\ d.book \subseteq Positions
  BY DEF DeskSound, DeskTyped, Desks
<1>2. /\ n \in Positions /\ n.contract = c /\ n.quantity = q /\ n.entry = price
      /\ Cost(n) = q * price
  <2>1. StopPrice(price) \in Int
    <3>1. price * (100 - StopLossPct) \in Int
      BY LoopConstants
    <3> QED BY <3>1 DEF StopPrice
  <2>2. TakeProfit(price) \in Int
    <3>1. price * (100 + TakeProfitPct) \in Int
      BY PricingPolicy
    <3> QED BY <3>1 DEF TakeProfit
  <2> QED BY <2>1, <2>2 DEF NewPosition, Positions, NotValued, Cost
<1>3. d.held[c] = [quantity |-> 0, average |-> 0]
  BY DEF DeskSound, HeldAsBought
<1>4. Averaged(d.held[c], q, price) = [quantity |-> q, average |-> price]
  <2>1. (price * q) \div q = price
    BY QuotientExact
  <2>2. price * q \in Nat /\ q \in Nat
    OBVIOUS
  <2> HIDE DEF q
  <2>3. d.held[c].quantity + q = q
    BY <1>3, <2>2
  <2>4. AtCost(d.held[c]) + price * q = price * q
    BY <1>3, <2>2 DEF AtCost
  <2> QED BY <2>1, <2>3, <2>4 DEF Averaged
<1> HIDE DEF n
<1>5. e = [d EXCEPT !.book = d.book \cup {n},
                    !.held = [d.held EXCEPT ![c] = [quantity |-> q, average |-> price]],
                    !.cash = d.cash - q * price,
                    !.openContracts = d.openContracts \cup {c}]
  BY <1>1, <1>4 DEF Entered, n, Desks
<1> HIDE DEF q, e
<1>6. /\ e.book = d.book \cup {n}
      /\ e.held = [d.held EXCEPT ![c] = [quantity |-> q, average |-> price]]
      /\ e.cash = d.cash - q * price /\ e.openContracts = d.openContracts \cup {c}
      /\ e.realized = d.realized
  BY <1>1, <1>5 DEF Desks
<1>7. \A p \in d.book : p.contract # c
  BY DEF DeskSound, BookNamed
<1>8. /\ MapThenSumSet(Cost, e.book) = MapThenSumSet(Cost, d.book) + q * price
      /\ MapThenSumSet(Cost, d.book) \in Int
      /\ q * price \in Int
  <2> DEFINE S == d.book
             w == [p \in S \cup {n} |-> Cost(p)]
             v == [p \in S |-> Cost(p)]
  <2>1. q * price \in Int
    BY DEF q
  <2>2. \A p \in S \cup {n} : w[p] \in Int
    BY <1>1, <1>2, <2>1 DEF Positions, Cost
  <2>3. n \notin S
    BY <1>2, <1>7
  <2>4. SumOver(w, S \cup {n}) = w[n] + SumOver(w, S)
    <3> HIDE DEF w, S
    <3> QED BY <1>1, <2>2, <2>3, SumAdd DEF S
  <2>5. w[n] = q * price
    BY <1>2
  <2>6. SumOver(w, S) = SumOver(v, S)
    <3>1. \A p \in S : w[p] = v[p]
      OBVIOUS
    <3> HIDE DEF w, v, S
    <3> QED BY <1>1, <3>1, SumLocal DEF S
  <2>7. MapThenSumSet(Cost, e.book) = SumOver(w, S \cup {n})
    BY <1>6, CostSum
  <2>8. MapThenSumSet(Cost, d.book) = SumOver(v, S)
    BY CostSum
  <2>9. MapThenSumSet(Cost, d.book) \in Int
    BY GrossIsCost
  <2> HIDE DEF w, v, S
  <2> QED BY <2>1, <2>4, <2>5, <2>6, <2>7, <2>8, <2>9
<1>9. DeskTyped(e)
  <2>1. d.cash - q * price \in Nat
    BY <1>1, <1>8 DEF Desks, q
  <2>2. IsFiniteSet(d.book \cup {n})
    BY <1>1, FS_AddElement
  <2>3. e.held \in [Listed -> [quantity : Nat, average : Nat]]
    BY <1>1, <1>6 DEF Desks, q
  <2> QED BY <1>1, <1>2, <1>5, <1>6, <2>1, <2>2, <2>3 DEF DeskTyped, Desks
<1>10. BookNamed(e)
  BY <1>2, <1>6, <1>7 DEF DeskSound, BookNamed
<1>11. HeldAsBought(e)
  <2>1. e.held[c] = [quantity |-> q, average |-> price]
    BY <1>1, <1>6 DEF Desks
  <2>2. \A k \in Listed \ {c} : e.held[k] = d.held[k]
    BY <1>1, <1>6 DEF Desks
  <2>3. ASSUME NEW p \in d.book
        PROVE  e.held[p.contract] = [quantity |-> p.quantity, average |-> p.entry]
    BY <1>7, <2>2, HeldPosition DEF DeskSound, HeldAsBought
  <2>4. \A k \in Listed \ e.openContracts : e.held[k] = [quantity |-> 0, average |-> 0]
    BY <1>6, <2>2 DEF DeskSound, HeldAsBought
  <2> QED BY <1>2, <1>6, <2>1, <2>3, <2>4 DEF HeldAsBought
<1>12. CashSpent(e)
  <2>1. d.cash \in Int /\ d.realized \in Int /\ StartingCash \in Int
    BY <1>1, LoopConstants DEF Desks
  <2>2. d.cash + MapThenSumSet(Cost, d.book) >= StartingCash + d.realized
    BY DEF DeskSound, CashSpent
  <2> QED BY <1>6, <1>8, <2>1, <2>2 DEF CashSpent
<1> QED BY <1>8, <1>9, <1>10, <1>11, <1>12 DEF DeskSound, e, q

-----------------------------------------------------------------------------
(* What the evaluation of the indices buys                                 *)

SnapshotSound(x) ==
  /\ x.at \in Times
  /\ ToldSound(x.told)
  /\ \A u \in Spots : x.told[u] # Nothing

\* A position as EntriesJustified and HaltIsForGood want it.
BoughtWell(p, x, closedNow) ==
  LET q == x.told[p.contract]
  IN /\ p.contract \notin closedNow
     /\ q.at <= x.at /\ x.at - q.at <= MaxQuoteAge
     /\ p.entry >= q.value.ask /\ p.entry >= q.value.bid
     /\ Cost(p) <= MaxPositionNotional

\* What holds once something was bought.
LimitsKept(d, x) ==
  /\ d.realized >= -MaxDailyLoss
  /\ SessionOf[x.at] = "OPEN"
  /\ MapThenSumSet(Cost, d.book) <= MaxGrossNotional

\* The desk e comes from d by buying.
Bought(d, e, x, closedNow) ==
  /\ e.halted = d.halted /\ e.unresolved = d.unresolved /\ e.realized = d.realized
  /\ d.openContracts \subseteq e.openContracts
  /\ \A p \in e.book \ d.book :
       BoughtWell(p, x, closedNow) /\ p.contract \notin d.openContracts
  /\ e.book = d.book \/ LimitsKept(e, x)

LEMMA ChainSound ==
  ASSUME NEW x, SnapshotSound(x), NEW u \in Spots
  PROVE  SoundChain(ChainOf(u, x), u)
<1> DEFINE chain == ChainOf(u, x)
<1>1. /\ chain.contracts = ContractsOf[u] /\ chain.spot = x.told[u].value
      /\ chain.today = DateOf[x.at] /\ chain.quotes = x.told
  BY DEF ChainOf
<1>2. chain.contracts = {c \in Listed : UnderlyingOf[c] = u}
  BY <1>1 DEF ContractsOf
<1>3. chain.spot \in Int
  <2>1. x.told[u].value \in Values[u]
    BY LoopConstants DEF SnapshotSound, ToldSound
  <2> QED BY <1>1, <2>1, LoopConstants
<1>4. chain.today \in Int
  BY <1>1, LoopConstants DEF SnapshotSound
<1>5. ASSUME NEW c \in chain.contracts, chain.quotes[c] # NothingTold
      PROVE  InNumbers(chain.quotes[c].value)
  <2>1. c \in Listed /\ c \in Symbols /\ x.told[c] # Nothing
    BY <1>1, <1>2, <1>5, LoopConstants
  <2>2. x.told[c].value \in Values[c]
    BY <2>1 DEF SnapshotSound, ToldSound
  <2>3. Values[c] \subseteq Quotations
    BY <2>1, LoopConstants DEF Quotations
  <2>4. x.told[c].value \in Quotations
    BY <2>2, <2>3
  <2> QED BY <1>1, <2>4 DEF Quotations, InNumbers
<1> QED BY <1>2, <1>3, <1>4, <1>5 DEF SoundChain

\* One index adds at most one position, which every limit permits.
LEMMA EvaluatedKeeps ==
  ASSUME NEW d, DeskSound(d), NEW x, SnapshotSound(x), NEW u \in Spots, NEW closedNow
  PROVE  /\ DeskSound(Evaluated(d, u, x, closedNow))
         /\ Bought(d, Evaluated(d, u, x, closedNow), x, closedNow)
<1> DEFINE signal == SignalOf[x.bars[u]]
           chain == ChainOf(u, x)
           c == BestContract(chain, u, signal.direction)
           price == EntryPrice(c, x)
           order == OpenProposal(c, price, x.at)
           view == GuardView(d, c)
           accepted == /\ signal # NoSignal
                       /\ c # NoContract
                       /\ LotOf[c] >= 1
                       /\ DeskApproves(PacketOf(c, signal.direction, x))
                       /\ ~ Taken(d, c, closedNow)
                       /\ Approves(order, view)
           e == Evaluated(d, u, x, closedNow)
<1>1. e = IF accepted THEN Entered(d, c, price) ELSE d
  BY DEF Evaluated
<1>2. CASE ~ accepted
  <2>1. e = d
    BY <1>1, <1>2
  <2> QED BY <2>1 DEF Bought
<1>3. CASE accepted
  <2>1. c \in Kept(chain) /\ Liquid(chain.quotes[c].value)
    <3> HIDE DEF chain, signal
    <3>1. SoundChain(chain, u)
      BY ChainSound DEF chain
    <3> QED BY <1>3, <3>1, BestSound
  <2>2. e = Entered(d, c, price)
    BY <1>1, <1>3
  <2>3. ~ Taken(d, c, closedNow) /\ Approves(order, view) /\ LotOf[c] >= 1
    BY <1>3
  <2> HIDE DEF c, e, accepted
  <2>4. /\ c \in Listed /\ x.told[c] # Nothing
        /\ x.told[c].at <= x.at /\ x.at - x.told[c].at <= MaxQuoteAge
        /\ ~ (HasBoth(x.told[c].value) /\ x.told[c].value.ask < x.told[c].value.bid)
        /\ HasBoth(x.told[c].value)
    <3>1. /\ chain.contracts = ContractsOf[u] /\ chain.quotes = x.told /\ chain.at = x.at
      BY DEF ChainOf
    <3> HIDE DEF chain
    <3>2. c \in ContractsOf[u] /\ Valid(c, chain)
      BY <2>1, <3>1 DEF Kept
    <3>3. c \in Listed
      BY <3>2 DEF ContractsOf
    <3>4. Nothing = NothingTold
      BY LoopConstants
    <3> QED BY <2>1, <3>1, <3>2, <3>3, <3>4 DEF Valid, Liquid
  <2>5. x.told[c].value \in Quotations
    <3>1. c \in Symbols /\ Values[c] \subseteq Quotations
      BY <2>4, LoopConstants DEF Quotations
    <3> QED BY <2>4, <3>1 DEF SnapshotSound, ToldSound
  <2>6. /\ price \in Nat \ {0}
        /\ price >= x.told[c].value.ask /\ price >= x.told[c].value.bid
    <3> DEFINE ask == x.told[c].value.ask
               bid == x.told[c].value.bid
    <3>1. ask \in Nat /\ bid \in Nat /\ ask > 0 /\ bid <= ask
      BY <2>4, <2>5 DEF Quotations, HasBoth
    <3>2. Slip(ask) \in Nat
      BY <3>1, SlippageNat
    <3>3. price = ask + Slip(ask)
      BY DEF EntryPrice
    <3> HIDE DEF ask, bid, price
    <3>4. price \in Nat \ {0} /\ price >= ask /\ price >= bid
      BY <3>1, <3>2, <3>3
    <3> QED BY <3>4 DEF ask, bid
  <2> HIDE DEF price
  <2>7. /\ Quantity(c) \in Nat \ {0}
        /\ Quantity(c) * price <= MaxPositionNotional
        /\ MapThenSumSet(LAMBDA k : AtCost(d.held[k]), Listed)
             + Quantity(c) * price <= MaxGrossNotional
        /\ Quantity(c) * price <= d.cash
        /\ d.realized >= -MaxDailyLoss
        /\ SessionOf[x.at] = "OPEN"
    <3>1. /\ order.intent = "OPEN" /\ order.quantity = Quantity(c) /\ order.price = price
          /\ order.session = SessionOf[x.at]
      BY DEF OpenProposal
    <3>2. /\ view.cash = d.cash /\ view.dailyPnl = d.realized
          /\ view.gross = MapThenSumSet(LAMBDA k : AtCost(d.held[k]), Listed)
      BY Zenon DEF GuardView
    <3> HIDE DEF order, view
    <3>3. Notional(order) = Quantity(c) * price /\ Added(order) = Quantity(c) * price
      BY <3>1 DEF Notional, Added
    <3>4. Quantity(c) \in Nat
      BY <2>4, LoopConstants DEF Quantity
    <3>5. /\ order.quantity > 0 /\ Notional(order) <= MaxPositionNotional
          /\ view.gross + Added(order) <= MaxGrossNotional
          /\ Added(order) <= view.cash
          /\ view.dailyPnl >= -MaxDailyLoss
          /\ order.session = "OPEN"
      BY <2>3, <3>1 DEF Approves, NotionalLimits, SessionPermits
    <3>6. Quantity(c) \in Nat \ {0}
      BY <3>1, <3>4, <3>5
    <3> QED BY Zenon, <3>1, <3>2, <3>3, <3>5, <3>6
  <2>8. c \notin closedNow /\ c \notin d.openContracts /\ \A p \in d.book : p.contract # c
    BY <2>3 DEF Taken
  <2>9. /\ DeskSound(e)
        /\ MapThenSumSet(Cost, e.book) = MapThenSumSet(Cost, d.book) + Quantity(c) * price
    BY <2>2, <2>4, <2>6, <2>7, <2>8, EnteredKeeps
  <2>10. MapThenSumSet(Cost, e.book) <= MaxGrossNotional
    <3>1. MapThenSumSet(Cost, d.book) = MapThenSumSet(LAMBDA k : AtCost(d.held[k]), Listed)
      BY Zenon, GrossIsCost
    <3> QED BY Zenon, <2>7, <2>9, <3>1
  <2>11. /\ e.book = d.book \cup {NewPosition(c, price)}
         /\ e.halted = d.halted /\ e.unresolved = d.unresolved /\ e.realized = d.realized
         /\ d.openContracts \subseteq e.openContracts
    <3>1. d \in Desks
      BY DEF DeskSound, DeskTyped
    <3> QED BY <2>2, <3>1 DEF Entered, Desks
  <2>12. /\ BoughtWell(NewPosition(c, price), x, closedNow)
         /\ NewPosition(c, price).contract \notin d.openContracts
    <3>1. /\ NewPosition(c, price).contract = c
          /\ NewPosition(c, price).entry = price
          /\ Cost(NewPosition(c, price)) = Quantity(c) * price
      BY DEF NewPosition, Cost
    <3> QED BY <2>4, <2>6, <2>7, <2>8, <3>1 DEF BoughtWell
  <2>13. LimitsKept(e, x)
    BY <2>7, <2>10, <2>11 DEF LimitsKept
  <2> QED BY <2>9, <2>11, <2>12, <2>13 DEF Bought, e
<1> QED BY <1>2, <1>3

\* What was bought before stays well bought.
LEMMA BoughtTwice ==
  ASSUME NEW d, NEW e, NEW f, NEW x, NEW closedNow,
         DeskSound(d), DeskSound(e), DeskSound(f),
         Bought(d, e, x, closedNow), Bought(e, f, x, closedNow)
  PROVE  Bought(d, f, x, closedNow)
<1>1. \A p \in f.book \ d.book :
        BoughtWell(p, x, closedNow) /\ p.contract \notin d.openContracts
  BY DEF Bought
<1>2. f.book = d.book \/ LimitsKept(f, x)
  BY DEF Bought, LimitsKept
<1> QED BY <1>1, <1>2 DEF Bought

\* What the indices leave, one after the other.
AfterIndex(f, n, d, x, closedNow) ==
  IF n = 0 THEN d
  ELSE IF \E m \in 1..n : Barren(IndexOrder[m], x)
    THEN f[n - 1]
    ELSE Evaluated(f[n - 1], IndexOrder[n], x, closedNow)

AfterIndices(f, k, d, x, closedNow) ==
  f = [n \in 0..k |-> AfterIndex(f, n, d, x, closedNow)]

\* There is such a function: the one for k indices has a continuation.
LEMMA IndicesFollow ==
  ASSUME NEW d, NEW x, NEW closedNow, NEW k \in Nat
  PROVE  \E f : AfterIndices(f, k, d, x, closedNow)
<1> DEFINE G == {n \in Nat : \E f : AfterIndices(f, n, d, x, closedNow)}
<1>1. 0 \in G
  <2> DEFINE f == [n \in 0..0 |-> d]
  <2>1. \A n \in 0..0 : n = 0
    OBVIOUS
  <2>2. \A n \in 0..0 : AfterIndex(f, n, d, x, closedNow) = d
    BY <2>1 DEF AfterIndex
  <2>3. AfterIndices(f, 0, d, x, closedNow)
    BY <2>2 DEF AfterIndices
  <2> QED BY <2>3
<1>2. ASSUME NEW n \in Nat, n \in G
      PROVE  n + 1 \in G
  <2>1. PICK f : AfterIndices(f, n, d, x, closedNow)
    BY <1>2
  <2> DEFINE g == [m \in 0..(n + 1) |-> AfterIndex(f, m, d, x, closedNow)]
  <2>2. \A m \in 0..n : f[m] = AfterIndex(f, m, d, x, closedNow)
    BY <2>1 DEF AfterIndices
  <2>3. \A m \in 0..n : m \in 0..(n + 1) /\ g[m] = f[m]
    BY <2>2
  <2>4. \A m \in 0..(n + 1) : m # 0 => m - 1 \in 0..n
    OBVIOUS
  <2> HIDE DEF g
  <2>5. \A m \in 0..(n + 1) :
          AfterIndex(f, m, d, x, closedNow) = AfterIndex(g, m, d, x, closedNow)
    BY <2>3, <2>4 DEF AfterIndex
  <2>6. g = [m \in 0..(n + 1) |-> AfterIndex(g, m, d, x, closedNow)]
    BY <2>5 DEF g
  <2>7. AfterIndices(g, n + 1, d, x, closedNow)
    BY <2>6 DEF AfterIndices
  <2> QED BY <2>7
<1>3. Nat \subseteq G
  <2> HIDE DEF G
  <2> QED BY <1>1, <1>2, SetOfNaturals
<1> QED BY <1>3

\* All indices together keep the books in step and buy well.
LEMMA EvaluatedAllKeeps ==
  ASSUME NEW d, DeskSound(d), NEW x, SnapshotSound(x), NEW closedNow
  PROVE  /\ DeskSound(EvaluatedAll(d, x, closedNow))
         /\ Bought(d, EvaluatedAll(d, x, closedNow), x, closedNow)
<1> DEFINE L == Len(IndexOrder)
           f == CHOOSE h : AfterIndices(h, L, d, x, closedNow)
           Good(e) == DeskSound(e) /\ Bought(d, e, x, closedNow)
           G == {n \in Nat : n \in 0..L => Good(f[n])}
<1>1. EvaluatedAll(d, x, closedNow) = f[L]
  BY Zenon DEF EvaluatedAll, AfterIndices, AfterIndex
<1>2. L \in Nat /\ \A n \in 1..L : IndexOrder[n] \in Spots
  BY LoopConstants
<1> HIDE DEF L
<1>3. AfterIndices(f, L, d, x, closedNow)
  <2>1. \E h : AfterIndices(h, L, d, x, closedNow)
    BY <1>2, IndicesFollow
  <2> QED BY <2>1
<1> HIDE DEF f
<1>4. \A n \in 0..L : f[n] = AfterIndex(f, n, d, x, closedNow)
  BY <1>3 DEF AfterIndices
<1>5. Good(d)
  BY DEF Bought
<1>6. 0 \in G
  <2>1. f[0] = d
    BY <1>2, <1>4 DEF AfterIndex
  <2> HIDE DEF Good
  <2> QED BY <1>5, <2>1
<1>7. ASSUME NEW n \in Nat, n \in G
      PROVE  n + 1 \in G
  <2>1. SUFFICES ASSUME n + 1 \in 0..L PROVE Good(f[n + 1])
    OBVIOUS
  <2>2. n \in 0..L /\ n + 1 \in 1..L /\ (n + 1) - 1 = n /\ n + 1 # 0
    BY <1>2, <2>1
  <2>3. Good(f[n])
    <3> HIDE DEF Good
    <3> QED BY <1>7, <2>2
  <2>4. f[n + 1] = f[n] \/ f[n + 1] = Evaluated(f[n], IndexOrder[n + 1], x, closedNow)
    <3>1. f[n + 1] = AfterIndex(f, n + 1, d, x, closedNow)
      BY <1>4, <2>1
    <3> QED BY <2>2, <3>1 DEF AfterIndex
  <2>5. CASE f[n + 1] = f[n]
    <3> HIDE DEF Good
    <3> QED BY <2>3, <2>5
  <2>6. CASE f[n + 1] = Evaluated(f[n], IndexOrder[n + 1], x, closedNow)
    <3>1. IndexOrder[n + 1] \in Spots
      BY <1>2, <2>2
    <3>2. DeskSound(f[n + 1]) /\ Bought(f[n], f[n + 1], x, closedNow)
      BY <2>3, <2>6, <3>1, EvaluatedKeeps
    <3> QED BY <2>3, <3>2, BoughtTwice
  <2> QED BY <2>4, <2>5, <2>6
<1>8. Nat \subseteq G
  <2> HIDE DEF G
  <2> QED BY <1>6, <1>7, SetOfNaturals
<1>9. L \in 0..L
  BY <1>2
<1>10. Good(f[L])
  <2> HIDE DEF Good
  <2> QED BY <1>2, <1>8, <1>9
<1> QED BY <1>1, <1>10

-----------------------------------------------------------------------------
(* The invariant is kept                                                   *)

\* A call that polls keeps what was told sound.
LEMMA PollKeepsFeed ==
  ASSUME FeedSound, FeedPoll, clock' = clock
  PROVE  /\ FeedSound'
         /\ answer' = "snapshot" => stamp' \in Stampable
<1>1. CASE PollOff \/ PollFails \/ PollIdles
  <2>1. told' = told /\ stamp' = stamp /\ answer' # "snapshot"
    BY <1>1 DEF PollOff, PollFails, PollIdles
  <2> QED BY <2>1 DEF FeedSound, ToldSound
<1>2. ASSUME NEW s \in Symbols, PollTells(s)
      PROVE  FeedSound' /\ stamp' \in Stampable
  <2>1. PICK v \in Values[s], t \in Stamps :
          told' = [told EXCEPT ![s] = [value |-> v, at |-> t]] /\ stamp' = t
    BY <1>2 DEF PollTells
  <2>2. t \in Stampable
    BY DEF Stamps
  <2>3. told' = [y \in Symbols |-> told'[y]]
    BY <2>1 DEF FeedSound
  <2>4. ToldSound(told')
    <3> SUFFICES ASSUME NEW y \in Symbols, told'[y] # Nothing
                 PROVE  told'[y].value \in Values[y] /\ told'[y].at \in Stampable
      BY DEF ToldSound
    <3>1. CASE y = s
      <4>1. told'[y] = [value |-> v, at |-> t]
        BY <2>1, <3>1 DEF FeedSound
      <4> QED BY <2>2, <3>1, <4>1
    <3>2. CASE y # s
      <4>1. told'[y] = told[y]
        BY <2>1, <3>2 DEF FeedSound
      <4> QED BY <4>1 DEF FeedSound, ToldSound
    <3> QED BY <3>1, <3>2
  <2> QED BY <2>1, <2>2, <2>3, <2>4 DEF FeedSound
<1> QED BY <1>1, <1>2 DEF FeedPoll

\* The snapshot of a call that goes on is sound.
LEMMA FreshSnapshot ==
  ASSUME LiveInv, Polls, answer' = "snapshot", ~ Invalid, NEW x \in Normalized
  PROVE  x.at = stamp' /\ x.told = told' /\ SnapshotSound(x)
<1>1. x.at = stamp' /\ x.told = told'
  BY DEF Normalized
<1>2. FeedSound' /\ stamp' \in Stampable
  BY PollKeepsFeed DEF LiveInv, Polls
<1>3. stamp' \in Times
  BY <1>2, FeedConstants DEF Invalid, Stampable, Times, LiveInv, FeedSound
<1>4. \A u \in Spots : told'[u] # Nothing
  BY DEF Invalid
<1> QED BY <1>1, <1>2, <1>3, <1>4 DEF SnapshotSound, FeedSound

\* What a fresh call does to the desk.
LEMMA FreshDesk ==
  ASSUME LiveInv, RunFresh
  PROVE  \E x \in Normalized :
           LET m == Managed(desk, x)
           IN /\ x.at = stamp' /\ x.told = told' /\ SnapshotSound(x)
              /\ DeskSound(m)
              /\ state' = (IF m.halted THEN "DEGRADED" ELSE "RUNNING")
              /\ \/ /\ MayEnter(m, x.at)
                    /\ desk' = EvaluatedAll(m, x, ClosedNow(desk, m))
                    /\ DeskSound(desk')
                    /\ Bought(m, desk', x, ClosedNow(desk, m))
                 \/ /\ ~ MayEnter(m, x.at)
                    /\ desk' = m
<1>1. PICK x \in Normalized :
        \E m \in {Managed(desk, x)} :
          /\ state' = (IF m.halted THEN "DEGRADED" ELSE "RUNNING")
          /\ IF MayEnter(m, x.at)
               THEN desk' = EvaluatedAll(m, x, ClosedNow(desk, m))
               ELSE desk' = m
  BY DEF RunFresh
<1> DEFINE m == Managed(desk, x)
<1>2. /\ state' = (IF m.halted THEN "DEGRADED" ELSE "RUNNING")
      /\ IF MayEnter(m, x.at)
           THEN desk' = EvaluatedAll(m, x, ClosedNow(desk, m))
           ELSE desk' = m
  BY <1>1
<1>3. x.at = stamp' /\ x.told = told' /\ SnapshotSound(x)
  BY FreshSnapshot DEF RunFresh
<1>4. DeskSound(m)
  BY <1>3, ManagedKeeps DEF LiveInv, SnapshotSound
<1> HIDE DEF m
<1>5. MayEnter(m, x.at) => DeskSound(desk') /\ Bought(m, desk', x, ClosedNow(desk, m))
  BY <1>2, <1>3, <1>4, EvaluatedAllKeeps
<1> QED BY <1>2, <1>3, <1>4, <1>5 DEF m

LEMMA LiveInit ==
  ASSUME Init
  PROVE  LiveInv
<1>1. FeedSound
  <2>1. 0 \in Times
    BY FeedConstants DEF Times
  <2> QED BY <2>1 DEF Init, FeedInit, FeedSound, ToldSound
<1>2. DeskTyped(desk)
  BY LoopConstants, FS_EmptySet DEF Init, DeskTyped, Desks
<1>3. BookNamed(desk) /\ HeldAsBought(desk)
  BY DEF Init, BookNamed, HeldAsBought
<1>4. CashSpent(desk)
  <2>1. MapThenSumSet(Cost, {}) = 0
    BY CostSum, SumEmpty
  <2>2. desk.cash = StartingCash /\ desk.book = {} /\ desk.realized = 0
    BY DEF Init
  <2> QED BY <2>1, <2>2, LoopConstants DEF CashSpent
<1> QED BY <1>1, <1>2, <1>3, <1>4 DEF LiveInv, DeskSound

LEMMA LiveStep ==
  ASSUME LiveInv, [Next]_vars
  PROVE  LiveInv'
<1>1. CASE Tick
  <2>1. clock' \in Times /\ UNCHANGED <<told, stamp, desk>>
    BY <1>1, FeedConstants DEF Tick, FeedTick, feedVars, loopVars, Times, LiveInv, FeedSound
  <2> QED BY <2>1 DEF LiveInv, FeedSound
<1>2. CASE Start \/ Stop \/ UNCHANGED vars
  <2>1. UNCHANGED <<clock, told, stamp, desk>>
    BY <1>2 DEF Start, Stop, FeedConnect, FeedDisconnect, vars, feedVars, loopVars
  <2> QED BY <2>1 DEF LiveInv, FeedSound
<1>3. CASE RunTimedOut
  <2>1. UNCHANGED <<clock, told, stamp>>
    BY <1>3 DEF RunTimedOut, FeedDisconnect
  <2>2. DeskSound(desk')
    <3>1. CASE desk' = desk
      BY <3>1 DEF LiveInv
    <3>2. CASE desk' = [desk EXCEPT !.halted = TRUE, !.unresolved = TRUE]
      <4>1. /\ desk'.book = desk.book /\ desk'.held = desk.held /\ desk'.cash = desk.cash
            /\ desk'.openContracts = desk.openContracts /\ desk'.realized = desk.realized
            /\ desk' \in Desks
        BY <3>2 DEF LiveInv, DeskSound, DeskTyped, Desks
      <4> QED BY <4>1 DEF LiveInv, DeskSound, DeskTyped, BookNamed, HeldAsBought, CashSpent
    <3> QED BY <1>3, <3>1, <3>2 DEF RunTimedOut
  <2> QED BY <2>1, <2>2 DEF LiveInv, FeedSound
<1>4. CASE RunWithoutSnapshot \/ RunInvalid \/ RunStale
  <2>1. Polls /\ desk' = desk
    BY <1>4 DEF RunWithoutSnapshot, RunInvalid, RunStale
  <2>2. FeedSound'
    BY <2>1, PollKeepsFeed DEF Polls, LiveInv
  <2> QED BY <2>1, <2>2 DEF LiveInv
<1>5. CASE RunFresh
  <2>1. FeedSound'
    BY <1>5, PollKeepsFeed DEF RunFresh, Polls, LiveInv
  <2>2. DeskSound(desk')
    BY <1>5, FreshDesk
  <2> QED BY <2>1, <2>2 DEF LiveInv
<1> QED BY <1>1, <1>2, <1>3, <1>4, <1>5 DEF Next, Run

\* What was told and what the desk keeps are sound, always.
THEOREM LiveInvariance == Spec => []LiveInv
<1>1. Init => LiveInv
  BY LiveInit
<1>2. LiveInv /\ [Next]_vars => LiveInv'
  BY LiveStep
<1> QED BY <1>1, <1>2, PTL DEF Spec

-----------------------------------------------------------------------------
(* The properties                                                          *)

\* Registry, ledger and the loop's own set agree, and no cash is lost.
THEOREM BooksOfTheSessionAgree == Spec => []LiveBooksAgree
<1>1. LiveInv => LiveBooksAgree
  <2> SUFFICES ASSUME LiveInv PROVE LiveBooksAgree
    OBVIOUS
  <2>1. DeskSound(desk)
    BY DEF LiveInv
  <2>2. /\ desk.openContracts = {p.contract : p \in desk.book}
        /\ \A p, q \in desk.book : p.contract = q.contract => p = q
    BY <2>1 DEF DeskSound, BookNamed
  <2>3. ASSUME NEW c \in Listed
        PROVE  desk.held[c] =
                 [quantity |-> MapThenSumSet(LAMBDA p : p.quantity,
                                             {p \in desk.book : p.contract = c}),
                  average |-> IF c \in desk.openContracts
                                THEN (CHOOSE p \in desk.book : p.contract = c).entry
                                ELSE 0]
    <3> DEFINE here == {p \in desk.book : p.contract = c}
               sum == MapThenSumSet(LAMBDA p : p.quantity, here)
               average == IF c \in desk.openContracts
                            THEN (CHOOSE p \in desk.book : p.contract = c).entry
                            ELSE 0
    <3>1. sum = SumOver([p \in here |-> p.quantity], here)
      BY QuantitySum
    <3>2. CASE c \in desk.openContracts
      <4>1. PICK p \in desk.book : p.contract = c
        BY <2>2, <3>2
      <4>2. here = {p} /\ (CHOOSE q \in desk.book : q.contract = c) = p
        BY <2>2, <4>1
      <4>3. desk.held[c] = [quantity |-> p.quantity, average |-> p.entry]
        BY <2>1, <4>1 DEF DeskSound, HeldAsBought
      <4>4. sum = p.quantity
        <5> DEFINE w == [q \in here |-> q.quantity]
        <5>1. w[p] = p.quantity /\ p.quantity \in Int
          BY <2>1, <4>2, HeldPosition
        <5> HIDE DEF w
        <5>2. SumOver(w, {p}) = p.quantity
          BY <5>1, SumSingle
        <5> QED BY <3>1, <4>2, <5>2 DEF w
      <4>5. average = p.entry
        BY <3>2, <4>2
      <4> HIDE DEF sum, average
      <4>6. desk.held[c] = [quantity |-> sum, average |-> average]
        BY <4>3, <4>4, <4>5
      <4> QED BY Zenon, <4>6 DEF sum, average
    <3>3. CASE c \notin desk.openContracts
      <4>1. here = {}
        BY <2>2, <3>3
      <4>2. sum = 0
        BY <3>1, <4>1, SumEmpty
      <4>3. desk.held[c] = [quantity |-> 0, average |-> 0]
        BY <2>1, <3>3 DEF DeskSound, HeldAsBought
      <4>4. average = 0
        BY <3>3
      <4> HIDE DEF sum, average
      <4>5. desk.held[c] = [quantity |-> sum, average |-> average]
        BY <4>2, <4>3, <4>4
      <4> QED BY Zenon, <4>5 DEF sum, average
    <3> QED BY <3>2, <3>3
  <2>4. /\ desk.cash + MapThenSumSet(Cost, desk.book) >= StartingCash + desk.realized
        /\ desk.cash >= 0
    BY <2>1 DEF DeskSound, CashSpent, DeskTyped, Desks
  <2> QED BY Zenon, <2>2, <2>3, <2>4 DEF LiveBooksAgree
<1> QED BY <1>1, LiveInvariance, PTL

\* Only a fresh call changes the book.
LEMMA OtherSteps ==
  ASSUME LiveInv, [Next]_vars, ~ RunFresh
  PROVE  /\ desk'.book = desk.book /\ desk'.openContracts = desk.openContracts
         /\ desk'.cash = desk.cash
         /\ desk.halted => desk'.halted
         /\ desk.unresolved => desk'.unresolved
         /\ lastCycle' = lastCycle \/ RunStale
<1>1. CASE desk' = desk
  BY <1>1 DEF Next, Run, vars, loopVars, Tick, Start, Stop, RunTimedOut,
              RunWithoutSnapshot, RunInvalid
<1>2. CASE RunTimedOut
  <2>1. desk \in Desks
    BY DEF LiveInv, DeskSound, DeskTyped
  <2> QED BY <1>2, <2>1 DEF RunTimedOut, Desks
<1>3. desk' = desk \/ RunTimedOut
  BY DEF Next, Run, vars, loopVars, Tick, Start, Stop,
         RunWithoutSnapshot, RunInvalid, RunStale
<1> QED BY <1>1, <1>2, <1>3

\* What is bought is bought by a fresh call that may enter.
LEMMA EntriesAreBought ==
  ASSUME LiveInv, [Next]_vars, NEW p \in Entries
  PROVE  /\ state' = "RUNNING" /\ ~ desk'.halted /\ ~ desk'.unresolved
         /\ stamp' <= clock /\ clock - stamp' <= MaxStaleness
         /\ \E x : /\ x.at = stamp' /\ x.told = told'
                   /\ LimitsKept(desk', x) /\ BoughtWell(p, x, {})
         /\ p.contract \notin {o.contract : o \in desk.book}
         /\ ~ desk.halted /\ ~ desk.unresolved
<1>1. RunFresh
  BY OtherSteps DEF Entries
<1>2. PICK x \in Normalized :
        LET m == Managed(desk, x)
        IN /\ x.at = stamp' /\ x.told = told' /\ SnapshotSound(x)
           /\ DeskSound(m)
           /\ state' = (IF m.halted THEN "DEGRADED" ELSE "RUNNING")
           /\ \/ /\ MayEnter(m, x.at)
                 /\ desk' = EvaluatedAll(m, x, ClosedNow(desk, m))
                 /\ DeskSound(desk')
                 /\ Bought(m, desk', x, ClosedNow(desk, m))
              \/ /\ ~ MayEnter(m, x.at)
                 /\ desk' = m
  BY <1>1, FreshDesk
<1> DEFINE m == Managed(desk, x)
<1>3. ToldSound(x.told) /\ DeskSound(desk)
  BY <1>2 DEF SnapshotSound, LiveInv
<1>4. /\ \A o \in m.book : o \in desk.book \/ o.valuedAt # NotValued
      /\ desk.halted => m.halted
      /\ desk.unresolved => m.unresolved
      /\ DeskSound(m)
  BY <1>3, ManagedKeeps
<1> HIDE DEF m
<1>5. p \in desk'.book /\ p \notin m.book
  BY <1>4 DEF Entries
<1>6. MayEnter(m, x.at) /\ Bought(m, desk', x, ClosedNow(desk, m))
  BY <1>2, <1>5 DEF m
<1>7. ~ m.halted /\ ~ m.unresolved
  BY <1>6 DEF MayEnter
<1>8. BoughtWell(p, x, ClosedNow(desk, m)) /\ p.contract \notin m.openContracts
  BY <1>5, <1>6 DEF Bought
<1>9. desk'.halted = m.halted /\ desk'.unresolved = m.unresolved /\ LimitsKept(desk', x)
  BY <1>5, <1>6 DEF Bought
<1>10. state' = "RUNNING"
  BY <1>2, <1>7 DEF m
<1>11. stamp' <= clock /\ clock - stamp' <= MaxStaleness
  <2>1. ~ Invalid /\ ~ Stale /\ clock' = clock
    BY <1>1 DEF RunFresh, Polls
  <2>2. clock \in Int /\ stamp' \in Int /\ MaxStaleness \in Int
    BY <1>2, LoopConstants DEF SnapshotSound, Times, LiveInv, FeedSound
  <2>3. ~ (stamp' > clock) /\ ~ (clock - stamp' > MaxStaleness)
    BY <2>1 DEF Invalid, Stale
  <2> DEFINE s == stamp'
  <2> HIDE DEF s
  <2>4. s <= clock /\ clock - s <= MaxStaleness
    <3>1. clock \in Int /\ s \in Int /\ MaxStaleness \in Int
      BY <2>2 DEF s
    <3>2. ~ (s > clock) /\ ~ (clock - s > MaxStaleness)
      BY <2>3 DEF s
    <3> QED BY <3>1, <3>2
  <2> QED BY <2>4 DEF s
<1>12. p.contract \notin {o.contract : o \in desk.book}
  <2>1. m.openContracts = {o.contract : o \in m.book}
    BY <1>4 DEF DeskSound, BookNamed
  <2>2. p.contract \notin ClosedNow(desk, m)
    BY <1>8 DEF BoughtWell
  <2> QED BY <1>8, <2>1, <2>2 DEF ClosedNow
<1>13. BoughtWell(p, x, {})
  BY <1>8 DEF BoughtWell
<1>14. x.at = stamp' /\ x.told = told'
  BY <1>2
<1> QED BY <1>4, <1>7, <1>9, <1>10, <1>11, <1>12, <1>13, <1>14

\* Every entry is made in an open session, at prices that are fresh, and within
\* the limits, whatever was told before.
THEOREM EntriesAreJustified == Spec => EntriesJustified
<1> DEFINE Justified ==
      \A p \in Entries :
        LET q == told'[p.contract]
        IN /\ state' = "RUNNING" /\ ~ desk'.halted /\ ~ desk'.unresolved
           /\ SessionOf[stamp'] = "OPEN"
           /\ stamp' <= clock /\ clock - stamp' <= MaxStaleness
           /\ q.at <= stamp' /\ stamp' - q.at <= MaxQuoteAge
           /\ p.entry >= q.value.ask /\ p.entry >= q.value.bid
           /\ desk'.realized >= -MaxDailyLoss
           /\ Cost(p) <= MaxPositionNotional
           /\ MapThenSumSet(Cost, desk'.book) <= MaxGrossNotional
<1>1. ASSUME LiveInv, [Next]_vars
      PROVE  Justified
  <2> TAKE p \in Entries
  <2>1. PICK x : /\ x.at = stamp' /\ x.told = told'
                 /\ LimitsKept(desk', x) /\ BoughtWell(p, x, {})
    BY <1>1, EntriesAreBought
  <2>2. /\ state' = "RUNNING" /\ ~ desk'.halted /\ ~ desk'.unresolved
        /\ stamp' <= clock /\ clock - stamp' <= MaxStaleness
    BY <1>1, EntriesAreBought
  <2> QED BY <2>1, <2>2 DEF LimitsKept, BoughtWell
<1>2. LiveInv /\ [Next]_vars => [Justified]_vars
  BY <1>1
<1> QED BY <1>2, LiveInvariance, PTL DEF Spec, EntriesJustified

\* A halt lasts, and nothing is bought that the same call has closed.
THEOREM HaltLasts == Spec => HaltIsForGood
<1> DEFINE Lasts ==
      /\ \A p \in Entries : p.contract \notin {o.contract : o \in desk.book}
      /\ desk.halted => desk'.halted
      /\ desk.unresolved => desk'.unresolved
      /\ desk.halted \/ desk.unresolved =>
           /\ desk'.openContracts \subseteq desk.openContracts
           /\ desk'.cash >= desk.cash
<1>1. ASSUME LiveInv, [Next]_vars
      PROVE  Lasts
  <2>1. \A p \in Entries : p.contract \notin {o.contract : o \in desk.book}
    BY <1>1, EntriesAreBought
  <2>2. desk.cash \in Int
    BY <1>1 DEF LiveInv, DeskSound, DeskTyped, Desks
  <2>3. CASE ~ RunFresh
    BY <1>1, <2>1, <2>2, <2>3, OtherSteps
  <2>4. CASE RunFresh
    <3>1. PICK x \in Normalized :
            LET m == Managed(desk, x)
            IN /\ SnapshotSound(x)
               /\ \/ MayEnter(m, x.at) /\ Bought(m, desk', x, ClosedNow(desk, m))
                  \/ ~ MayEnter(m, x.at) /\ desk' = m
      BY <1>1, <2>4, FreshDesk
    <3> DEFINE m == Managed(desk, x)
    <3>2. /\ m.cash >= desk.cash /\ m.openContracts \subseteq desk.openContracts
          /\ desk.halted => m.halted
          /\ desk.unresolved => m.unresolved
      BY <1>1, <3>1, ManagedKeeps DEF LiveInv, SnapshotSound
    <3> HIDE DEF m
    <3>3. (desk.halted => desk'.halted) /\ (desk.unresolved => desk'.unresolved)
      BY <3>1, <3>2 DEF m, Bought
    <3>4. desk.halted \/ desk.unresolved => desk' = m
      BY <3>1, <3>2 DEF m, MayEnter
    <3> QED BY <2>1, <3>2, <3>3, <3>4
  <2> QED BY <2>3, <2>4
<1>2. LiveInv /\ [Next]_vars => [Lasts]_vars
  BY <1>1
<1> QED BY <1>2, LiveInvariance, PTL DEF Spec, HaltIsForGood

\* A closing session leaves only what was never valued, and says so; all else
\* is sold, if need be at its last mark.
THEOREM ClosingLeavesNothing == Spec => CloseLeavesNothing
<1> DEFINE completed == lastCycle' # lastCycle /\ clock - stamp' <= MaxStaleness
           Left == completed /\ CloseDue(SessionOf[stamp']) =>
                     \A p \in desk'.book :
                       p.valuedAt = NotValued /\ desk'.halted /\ desk'.unresolved
<1>1. ASSUME LiveInv, [Next]_vars
      PROVE  Left
  <2>1. SUFFICES ASSUME completed, CloseDue(SessionOf[stamp'])
                 PROVE  \A p \in desk'.book :
                          p.valuedAt = NotValued /\ desk'.halted /\ desk'.unresolved
    OBVIOUS
  <2>2. ~ RunStale
    <3>1. ASSUME RunStale PROVE FALSE
      <4>1. clock \in Int /\ stamp' \in Int /\ MaxStaleness \in Int
        BY <1>1, <3>1, PollKeepsFeed, LoopConstants
           DEF RunStale, Polls, LiveInv, FeedSound, Times, Stampable
      <4>2. clock - stamp' > MaxStaleness
        BY <3>1 DEF RunStale, Stale
      <4>3. clock - stamp' <= MaxStaleness
        BY <2>1
      <4> DEFINE age == clock - stamp'
      <4>4. age \in Int /\ MaxStaleness \in Int
        BY <4>1
      <4> HIDE DEF age
      <4>5. age > MaxStaleness /\ age <= MaxStaleness
        BY <4>2, <4>3 DEF age
      <4> QED BY <4>4, <4>5
    <3> QED BY <3>1
  <2>3. RunFresh
    BY <1>1, <2>1, <2>2, OtherSteps
  <2>4. PICK x \in Normalized :
          LET m == Managed(desk, x)
          IN /\ x.at = stamp' /\ SnapshotSound(x)
             /\ MayEnter(m, x.at) \/ desk' = m
    BY <1>1, <2>3, FreshDesk
  <2> DEFINE m == Managed(desk, x)
  <2>5. \A p \in m.book : p.valuedAt = NotValued /\ m.halted /\ m.unresolved
    BY <1>1, <2>1, <2>4, ManagedKeeps DEF LiveInv, SnapshotSound
  <2> HIDE DEF m
  <2>6. ~ MayEnter(m, x.at)
    BY <2>1, <2>4 DEF MayEnter, CloseDue
  <2> QED BY <2>4, <2>5, <2>6 DEF m
<1>2. LiveInv /\ [Next]_vars => [Left]_vars
  BY <1>1
<1> QED BY <1>2, LiveInvariance, PTL DEF Spec, CloseLeavesNothing

\* From its timeout on a session trades, values and asks nothing, and a call
\* that ends it with inventory leaves it halted and unresolved.
THEOREM TimeoutKeepsBook == Spec => TimeoutKeepsInventory
<1> DEFINE Untouched ==
      /\ desk'.book = desk.book /\ desk'.cash = desk.cash
      /\ told' = told
      /\ state' # state /\ ~ Start /\ ~ Stop /\ desk.book # {} =>
           state' = "STOPPED" /\ desk'.halted /\ desk'.unresolved
<1>1. ASSUME LiveInv, [Next]_vars, TimedOut
      PROVE  Untouched
  <2>1. ~ Polls
    BY <1>1 DEF Polls
  <2>2. desk'.book = desk.book /\ desk'.cash = desk.cash
    BY <1>1, <2>1, OtherSteps DEF RunFresh
  <2>3. CASE RunTimedOut
    <3>1. desk \in Desks
      BY <1>1 DEF LiveInv, DeskSound, DeskTyped
    <3>2. desk.book # {} => desk'.halted /\ desk'.unresolved
      BY <2>3, <3>1 DEF RunTimedOut, Desks
    <3> QED BY <2>2, <2>3, <3>2 DEF RunTimedOut, FeedDisconnect
  <2>4. CASE Start \/ Stop \/ Tick \/ UNCHANGED vars
    BY <2>2, <2>4 DEF Start, Stop, Tick, FeedTick, FeedConnect, FeedDisconnect,
                      feedVars, loopVars, vars
  <2> QED BY <1>1, <2>1, <2>3, <2>4
            DEF Next, Run, RunWithoutSnapshot, RunInvalid, RunStale, RunFresh
<1>2. LiveInv /\ [Next]_vars => [TimedOut => Untouched]_vars
  BY <1>1
<1> QED BY <1>2, LiveInvariance, PTL DEF Spec, TimeoutKeepsInventory
================================================================================
