--------------------------- MODULE DepthBook_proofs ---------------------------
(***************************************************************************)
(* What is on display of one exchange, for every set of prices, depth,     *)
(* length of the wire and number of changes in a message.                  *)
(***************************************************************************)
EXTENDS DepthBook, FiniteSetTheorems, TLAPS

(***************************************************************************)
(* The inductive invariant                                                 *)
(***************************************************************************)

\* Snapshots: every message lists the whole book.
Whole(m) == \A s \in Sides : Range(m[s]) = LevelsOf(m.market[s])
InOrder(m) == \A s \in Sides : m[s] = Sorted(s, LevelsOf(m.market[s]))

Snapshots ==
    handler # "mexc" =>
        /\ \A i \in DOMAIN wire : Whole(wire[i]) /\ (handler = "gate" => InOrder(wire[i]))
        /\ \A s \in Sides : known[s] = Prices \/ (known[s] = {} /\ seen[s] = NoLevels)

\* Changes: a message has the new quantities, and prices it does not name are as they were
\* in the message before it ...
NewQuantities(m) == \A s \in Sides : \A p \in DOMAIN m[s] : m[s][p] = m.market[s][p]
Follows(m, s, p, before) == p \in DOMAIN m[s] \/ m.market[s][p] = before[s][p]

Links ==
    /\ \A i \in DOMAIN wire : NewQuantities(wire[i])
    /\ \A i, j \in DOMAIN wire : j = i + 1 =>
         \A s \in Sides : \A p \in Prices : Follows(wire[j], s, p, wire[i].market)

\* ... or, as far as the handler knows, in the last one it handled.
FirstLink ==
    wire # <<>> => \A s \in Sides : \A p \in known[s] : Follows(wire[1], s, p, seen)
LastLink ==
    IF wire = <<>> THEN \A s \in Sides : \A p \in known[s] : market[s][p] = seen[s][p]
                   ELSE market = wire[Len(wire)].market

\* The maps hold what is known of the exchange's book, and nothing else.
MapsFollow ==
    \A s \in Sides : \A p \in Prices : book[s][p] = IF p \in known[s] THEN seen[s][p] ELSE 0

Deltas == handler = "mexc" => Links /\ FirstLink /\ LastLink /\ MapsFollow

IInv == TypeOK /\ Snapshots /\ Deltas /\ ShownIsTopOfKnown /\ NeverCrossed

(***************************************************************************)
(* Sequences                                                               *)
(***************************************************************************)

LEMMA AppendFacts ==
  ASSUME NEW S, NEW q \in Seq(S), NEW e \in S
  PROVE  /\ Append(q, e) \in Seq(S) /\ Append(q, e) # <<>>
         /\ Len(q) \in Nat /\ Len(Append(q, e)) = Len(q) + 1
         /\ DOMAIN q = 1 .. Len(q) /\ DOMAIN Append(q, e) = 1 .. Len(q) + 1
         /\ \A i \in DOMAIN q : Append(q, e)[i] = q[i]
         /\ Append(q, e)[Len(q) + 1] = e
OBVIOUS

LEMMA EmptyHasNoLength ==
  ASSUME NEW S, NEW q \in Seq(S)
  PROVE  q = <<>> <=> Len(q) = 0
OBVIOUS

LEMMA TailFacts ==
  ASSUME NEW S, NEW q \in Seq(S), q # <<>>
  PROVE  /\ Head(q) = q[1] /\ Head(q) \in S /\ Tail(q) \in Seq(S)
         /\ Len(q) \in Nat \ {0} /\ Len(Tail(q)) = Len(q) - 1
         /\ DOMAIN q = 1 .. Len(q) /\ DOMAIN Tail(q) = 1 .. Len(q) - 1
         /\ \A i \in DOMAIN Tail(q) : Tail(q)[i] = q[i + 1] /\ i + 1 \in DOMAIN q
         /\ Tail(q) = <<>> <=> Len(q) = 1
<1>1. Len(q) \in Nat \ {0} /\ DOMAIN q = 1 .. Len(q) /\ Head(q) = q[1] OBVIOUS
<1>2. Tail(q) \in Seq(S) /\ Len(Tail(q)) = Len(q) - 1 OBVIOUS
<1>3. DOMAIN Tail(q) = 1 .. Len(q) - 1 BY <1>2
<1>4. \A i \in 1 .. Len(q) - 1 : Tail(q)[i] = q[i + 1] OBVIOUS
<1>5. \A i \in 1 .. Len(q) - 1 : i + 1 \in 1 .. Len(q) BY <1>1
<1>6. \A i \in DOMAIN Tail(q) : Tail(q)[i] = q[i + 1] /\ i + 1 \in DOMAIN q
  BY <1>1, <1>3, <1>4, <1>5, Zenon
<1>7. Tail(q) = <<>> <=> Len(q) = 1
  <2>1. Tail(q) = <<>> <=> Len(Tail(q)) = 0 BY <1>2, EmptyHasNoLength
  <2>2. Len(Tail(q)) = 0 <=> Len(q) = 1 BY <1>1, <1>2
  <2> QED BY <2>1, <2>2
<1>8. Head(q) \in S BY <1>1
<1> QED BY <1>1, <1>2, <1>3, <1>6, <1>7, <1>8

\* The beginning of a sequence.
LEMMA FirstFacts ==
  ASSUME NEW S, NEW q \in Seq(S), NEW n \in Nat
  PROVE  /\ First(n, q) \in Seq(S) /\ Len(First(n, q)) <= n /\ Len(q) \in Nat
         /\ Len(First(n, q)) = IF n < Len(q) THEN n ELSE Len(q)
         /\ DOMAIN First(n, q) = 1 .. Len(First(n, q))
         /\ \A i \in 1 .. Len(First(n, q)) : First(n, q)[i] = q[i]
<1> DEFINE k == IF n < Len(q) THEN n ELSE Len(q)
<1>1. Len(q) \in Nat /\ k \in Nat /\ k <= Len(q) /\ k <= n OBVIOUS
<1>2. First(n, q) = SubSeq(q, 1, k) BY DEF First
<1> HIDE DEF k
<1>3. /\ SubSeq(q, 1, k) \in Seq(S) /\ Len(SubSeq(q, 1, k)) = k
      /\ \A i \in 1 .. k : SubSeq(q, 1, k)[i] = q[i]
  BY <1>1
<1>4. DOMAIN SubSeq(q, 1, k) = 1 .. k BY <1>3
<1> QED BY <1>1, <1>2, <1>3, <1>4 DEF k

(***************************************************************************)
(* Sorting                                                                 *)
(***************************************************************************)

\* Levels of one side: no price occurs twice.
Distinct(S) ==
    S \subseteq Levels /\ IsFiniteSet(S) /\ \A x, y \in S : x[1] = y[1] => x = y

LEMMA BetterIsAnOrder ==
  ASSUME NEW s \in Sides, NEW S, Distinct(S)
  PROVE  /\ \A x \in S : ~Better(s, x, x)
         /\ \A x, y, z \in S : Better(s, x, y) /\ Better(s, y, z) => Better(s, x, z)
         /\ \A x, y \in S : x = y \/ Better(s, x, y) \/ Better(s, y, x)
<1>1. \A x \in S : x[1] \in Nat BY DepthAssumption DEF Distinct, Levels
<1>2. \A x \in S : ~Better(s, x, x) BY <1>1 DEF Better
<1>3. ASSUME NEW x \in S, NEW y \in S, NEW z \in S, Better(s, x, y), Better(s, y, z)
      PROVE  Better(s, x, z)
  <2>1. x[1] \in Nat /\ y[1] \in Nat /\ z[1] \in Nat BY <1>1
  <2> QED BY <1>3, <2>1 DEF Better
<1>4. ASSUME NEW x \in S, NEW y \in S, x # y PROVE Better(s, x, y) \/ Better(s, y, x)
  <2>1. x[1] \in Nat /\ y[1] \in Nat /\ x[1] # y[1] BY <1>1, <1>4 DEF Distinct
  <2> QED BY <2>1 DEF Better
<1> QED BY <1>2, <1>3, <1>4

\* Levels can be put in order: a level comes after as many as are better than it.
LEMMA CanBeSorted ==
  ASSUME NEW s \in Sides, NEW S, Distinct(S)
  PROVE  \E l \in SetToSeqs(S) : \A i, j \in DOMAIN l : i < j => Better(s, l[i], l[j])
<1> DEFINE n == Cardinality(S)
           Above(x) == {y \in S : Better(s, y, x)}
           rank == [x \in S |-> Cardinality(Above(x)) + 1]
<1>1. IsFiniteSet(S) /\ n \in Nat BY FS_CardinalityType DEF Distinct
<1>2. \A x \in S : IsFiniteSet(Above(x)) /\ Cardinality(Above(x)) \in Nat
  <2> SUFFICES ASSUME NEW x \in S PROVE IsFiniteSet(Above(x)) /\ Cardinality(Above(x)) \in Nat
    OBVIOUS
  <2>1. IsFiniteSet(Above(x)) BY <1>1, FS_Subset
  <2> QED BY <2>1, FS_CardinalityType
<1>3. ASSUME NEW x \in S PROVE rank[x] \in 1 .. n
  <2>1. Above(x) \subseteq S \ {x} BY BetterIsAnOrder
  <2>2. IsFiniteSet(S \ {x}) /\ Cardinality(S \ {x}) = n - 1 BY <1>1, FS_RemoveElement
  <2>3. Cardinality(Above(x)) <= n - 1 BY <2>1, <2>2, FS_Subset
  <2> HIDE DEF n, Above
  <2> QED BY <1>1, <1>2, <2>3
<1>4. ASSUME NEW x \in S, NEW y \in S, Better(s, x, y) PROVE rank[x] < rank[y]
  <2>1. Above(x) \cup {x} \subseteq Above(y) BY <1>4, BetterIsAnOrder
  <2>2. x \notin Above(x) BY BetterIsAnOrder
  <2>3. Cardinality(Above(x) \cup {x}) = Cardinality(Above(x)) + 1 BY <1>2, <2>2, FS_AddElement
  <2>4. Cardinality(Above(x) \cup {x}) <= Cardinality(Above(y)) BY <1>2, <2>1, FS_Subset
  <2> HIDE DEF Above
  <2> QED BY <1>2, <2>3, <2>4
<1>5. \A x \in S : rank[x] \in Int BY <1>3
<1> HIDE DEF rank, Above
<1>6. \A x, y \in S : rank[x] = rank[y] => x = y BY <1>4, <1>5, BetterIsAnOrder
<1>7. rank \in [S -> 1 .. n] BY <1>3 DEF rank
<1>8. rank \in Injection(S, 1 .. n) BY <1>6, <1>7 DEF Injection, IsInjective
<1>9. IsFiniteSet(1 .. n) /\ Cardinality(1 .. n) = n BY <1>1, FS_Interval
<1>10. rank \in Surjection(S, 1 .. n) BY <1>8, <1>9, FS_Injection
<1>11. \A i \in 1 .. n : \E x \in S : rank[x] = i BY <1>10 DEF Surjection
<1> DEFINE l == [i \in 1 .. n |-> CHOOSE x \in S : rank[x] = i]
<1>12. l \in [1 .. n -> S] /\ \A i \in 1 .. n : rank[l[i]] = i BY <1>11
<1> HIDE DEF l
<1>13. \A i, j \in 1 .. n : i # j => l[i] # l[j] BY <1>12
<1>14. l \in SetToSeqs(S) BY <1>12, <1>13 DEF SetToSeqs
<1>15. ASSUME NEW i \in 1 .. n, NEW j \in 1 .. n, i < j PROVE Better(s, l[i], l[j])
  <2>1. l[i] \in S /\ l[j] \in S /\ rank[l[i]] = i /\ rank[l[j]] = j BY <1>12
  <2>2. i \in Int /\ j \in Int /\ ~(j < i) /\ i # j BY <1>1, <1>15
  <2> HIDE DEF n
  <2>3. ~Better(s, l[j], l[i]) BY <1>4, <2>1, <2>2
  <2>4. l[i] # l[j] BY <2>1, <2>2
  <2> QED BY <2>1, <2>3, <2>4, BetterIsAnOrder
<1> QED BY <1>12, <1>14, <1>15

\* A list of all levels, each once.
LEMMA ListFacts ==
  ASSUME NEW S, Distinct(S), NEW l \in SetToSeqs(S)
  PROVE  /\ l \in Seq(S) /\ l \in Seq(Levels) /\ Range(l) = S
         /\ Len(l) = Cardinality(S) /\ Len(l) \in Nat /\ DOMAIN l = 1 .. Len(l)
<1> DEFINE n == Cardinality(S)
<1>1. IsFiniteSet(S) /\ n \in Nat BY FS_CardinalityType DEF Distinct
<1>2. l \in [1 .. n -> S] /\ \A i, j \in 1 .. n : i # j => l[i] # l[j] BY DEF SetToSeqs
<1>3. l \in Injection(1 .. n, S) BY <1>2 DEF Injection, IsInjective
<1>4. IsFiniteSet(1 .. n) /\ Cardinality(1 .. n) = n BY <1>1, FS_Interval
<1>5. l \in Surjection(1 .. n, S) BY <1>1, <1>3, <1>4, FS_Injection
<1>6. \A x \in S : \E i \in 1 .. n : l[i] = x BY <1>5 DEF Surjection
<1> HIDE DEF n
<1>7. Range(l) = S BY <1>2, <1>6 DEF Range
<1>8. l \in Seq(S) /\ Len(l) = n /\ DOMAIN l = 1 .. n BY <1>1, <1>2
<1>9. l \in Seq(Levels) BY <1>1, <1>2 DEF Distinct
<1> QED BY <1>1, <1>7, <1>8, <1>9 DEF n

LEMMA SortedFacts ==
  ASSUME NEW s \in Sides, NEW S, Distinct(S)
  PROVE  /\ Sorted(s, S) \in SetToSeqs(S)
         /\ \A i, j \in DOMAIN Sorted(s, S) : i < j => Better(s, Sorted(s, S)[i], Sorted(s, S)[j])
BY CanBeSorted DEF Sorted

LEMMA BeyondTheFirst ==
  ASSUME NEW d \in Nat \ {0}, NEW n \in Nat, NEW k, k = IF d < n THEN d ELSE n,
         NEW i \in 1 .. n, i \notin 1 .. k
  PROVE  k = d /\ d < i /\ d \in 1 .. n /\ d \in 1 .. k
OBVIOUS

\* What is shown of levels in order is the top of them.
LEMMA TopOfSorted ==
  ASSUME NEW s \in Sides, NEW S, Distinct(S)
  PROVE  /\ First(Depth, Sorted(s, S)) \in Seq(Levels) /\ Len(First(Depth, Sorted(s, S))) <= Depth
         /\ IsTopOf(s, First(Depth, Sorted(s, S)), S)
         /\ First(Depth, Sorted(s, S)) = <<>> <=> S = {}
<1> DEFINE l == Sorted(s, S)
           top == First(Depth, l)
<1>1. /\ l \in Seq(S) /\ l \in Seq(Levels) /\ Range(l) = S /\ Len(l) \in Nat /\ DOMAIN l = 1 .. Len(l)
      /\ \A i, j \in 1 .. Len(l) : i < j => Better(s, l[i], l[j])
  BY SortedFacts, ListFacts
<1> HIDE DEF l
<1>2. Depth \in Nat \ {0} BY DepthAssumption
<1>3. /\ top \in Seq(Levels) /\ Len(top) <= Depth
      /\ Len(top) = IF Depth < Len(l) THEN Depth ELSE Len(l)
      /\ DOMAIN top = 1 .. Len(top) /\ \A i \in 1 .. Len(top) : top[i] = l[i]
  BY <1>1, <1>2, FirstFacts
<1> HIDE DEF top
<1>4. \A i \in 1 .. Len(top) : i \in 1 .. Len(l) BY <1>1, <1>2, <1>3
<1>5. \A i \in 1 .. Len(top) - 1 : i \in 1 .. Len(top) /\ i + 1 \in 1 .. Len(top) /\ i < i + 1
  BY <1>1, <1>2, <1>3
<1>6. \A i \in 1 .. Len(top) - 1 : Better(s, top[i], top[i + 1]) BY <1>1, <1>3, <1>4, <1>5
<1>7. Range(top) \subseteq S BY <1>1, <1>3, <1>4 DEF Range
<1>8. ASSUME NEW x \in S \ Range(top) PROVE Len(top) = Depth /\ Better(s, top[Depth], x)
  <2>1. PICK i \in 1 .. Len(l) : x = l[i] BY <1>1 DEF Range
  <2>2. i \notin 1 .. Len(top) BY <1>3, <1>8, <2>1 DEF Range
  <2>3. Len(top) = Depth /\ Depth < i /\ Depth \in 1 .. Len(l) /\ Depth \in 1 .. Len(top)
    BY <1>1, <1>2, <1>3, <2>2, BeyondTheFirst
  <2> QED BY <1>1, <1>3, <2>1, <2>3
<1>9. IsTopOf(s, top, S) BY <1>6, <1>7, <1>8 DEF IsTopOf
<1>10. top = <<>> <=> Len(top) = 0 BY <1>3, EmptyHasNoLength
<1>11. S = {} <=> Len(l) = 0
  <2>1. Len(l) = 0 => S = {} BY <1>1 DEF Range
  <2>2. Len(l) # 0 => 1 \in 1 .. Len(l) BY <1>1
  <2>3. Len(l) # 0 => l[1] \in S BY <1>1, <2>2
  <2> QED BY <2>1, <2>3
<1>12. Len(top) = 0 <=> Len(l) = 0 BY <1>1, <1>2, <1>3
<1> QED BY <1>3, <1>9, <1>10, <1>11, <1>12 DEF top, l

(***************************************************************************)
(* Books and messages                                                      *)
(***************************************************************************)

LEMMA SideTypes ==
  ASSUME NEW b \in Books, NEW s \in Sides
  PROVE  /\ b[s] \in Side /\ DOMAIN b[s] = Prices /\ \A p \in Prices : b[s][p] \in 0 .. QtyMax
         /\ ~Crossed(b)
BY DEF Books, Side

LEMMA LevelsOfSide ==
  ASSUME NEW side \in Side
  PROVE  /\ Distinct(LevelsOf(side))
         /\ \A x : x \in LevelsOf(side) <=> \E p \in Prices : side[p] > 0 /\ x = <<p, side[p]>>
         /\ \A x \in LevelsOf(side) : x[1] \in Prices /\ side[x[1]] > 0
<1> DEFINE f == [p \in PricesOf(side) |-> <<p, side[p]>>]
<1>1. DOMAIN side = Prices /\ \A p \in Prices : side[p] \in 0 .. QtyMax BY DEF Side
<1>2. PricesOf(side) \subseteq Prices BY <1>1 DEF PricesOf
<1>3. IsFiniteSet(PricesOf(side)) BY <1>2, DepthAssumption, FS_Subset
<1>4. f \in Surjection(PricesOf(side), LevelsOf(side)) BY DEF Surjection, LevelsOf
<1>5. IsFiniteSet(LevelsOf(side)) BY <1>3, <1>4, FS_Surjection
<1>6. \A x : x \in LevelsOf(side) <=> \E p \in Prices : side[p] > 0 /\ x = <<p, side[p]>>
  BY <1>1 DEF LevelsOf, PricesOf
<1>7. \A x \in LevelsOf(side) : x[1] \in Prices /\ side[x[1]] > 0 /\ x = <<x[1], side[x[1]]>>
  BY <1>6
<1>8. QtyMax \in Nat BY DepthAssumption
<1>9. \A p \in Prices : side[p] > 0 => side[p] \in 1 .. QtyMax BY <1>1, <1>8
<1>10. LevelsOf(side) \subseteq Levels BY <1>6, <1>9 DEF Levels
<1>11. \A x, y \in LevelsOf(side) : x[1] = y[1] => x = y BY <1>7
<1> QED BY <1>5, <1>6, <1>7, <1>10, <1>11 DEF Distinct

LEMMA MessageTypes ==
  ASSUME NEW h, NEW m \in Messages(h)
  PROVE  m.market \in Books /\ \A s \in Sides : m[s] \in Lists(h)
BY DEF Messages, Sides

\* A side of a message as the exchange writes it.
LEMMA ToldFacts ==
  ASSUME handler \in Handlers, NEW s \in Sides, NEW b \in Books, NEW t \in Told(s, b)
  PROVE  /\ t \in Lists(handler)
         /\ handler = "mexc" => /\ \A p \in DOMAIN t : t[p] = b[s][p]
                                /\ \A p \in Prices : p \in DOMAIN t \/ b[s][p] = market[s][p]
         /\ handler # "mexc" => Range(t) = LevelsOf(b[s])
         /\ handler = "gate" => t = Sorted(s, LevelsOf(b[s]))
<1> DEFINE S == LevelsOf(b[s])
<1>1. Distinct(S) BY SideTypes, LevelsOfSide
<1>2. Sorted(s, S) \in SetToSeqs(S) BY <1>1, SortedFacts
<1>3. \A l \in SetToSeqs(S) : l \in Seq(Levels) /\ Range(l) = S BY <1>1, ListFacts
<1>4. CASE handler = "mexc"
  <2>1. t = [p \in Changed(s, b) |-> b[s][p]] BY <1>4 DEF Told
  <2>2. Changed(s, b) \in SUBSET Prices BY DEF Changed
  <2>3. t \in [Changed(s, b) -> 0 .. QtyMax] BY <2>1, <2>2, SideTypes
  <2>4. t \in Changes BY <2>2, <2>3 DEF Changes
  <2> QED BY <1>4, <2>1, <2>4 DEF Lists, Changed
<1>5. CASE handler = "gate"
  <2>1. t = Sorted(s, S) BY <1>5 DEF Told
  <2> QED BY <1>2, <1>3, <1>5, <2>1 DEF Lists
<1>6. CASE handler = "sorting"
  <2>1. t \in SetToSeqs(S) BY <1>6 DEF Told
  <2> QED BY <1>3, <1>6, <2>1 DEF Lists
<1> QED BY <1>4, <1>5, <1>6 DEF Handlers

(***************************************************************************)
(* What is published                                                       *)
(***************************************************************************)

LEMMA Published ==
  ASSUME shown \in [Sides -> Seq(Levels)], \A s \in Sides : Len(shown[s]) <= Depth,
         NeverCrossed, seen' \in Books,
         NEW u, u \in [Sides -> Seq(Levels)], Publish(u),
         \A s \in Sides : /\ Len(u[s]) <= Depth
                          /\ IsTopOf(s, u[s], Known(s)')
                          /\ u[s] = <<>> <=> Known(s)' = {}
  PROVE  /\ shown' \in [Sides -> Seq(Levels)] /\ \A s \in Sides : Len(shown'[s]) <= Depth
         /\ ShownIsTopOfKnown' /\ NeverCrossed'
<1>1. \/ shown' = shown /\ \A s \in Sides : u[s] = <<>>
      \/ shown' = u
  BY Zenon DEF Publish
<1>2. "bids" \in Sides /\ "asks" \in Sides BY DEF Sides
<1>3. CASE shown' = shown /\ \A s \in Sides : u[s] = <<>>
  <2>1. Known("bids")' = {} /\ Known("asks")' = {} BY <1>2, <1>3
  <2>2. ShownIsTopOfKnown' BY <2>1 DEF ShownIsTopOfKnown
  <2>3. NeverCrossed' BY <1>3 DEF NeverCrossed
  <2> QED BY <1>3, <2>2, <2>3
<1>4. CASE shown' = u
  <2>1. \A s \in Sides : IsTopOf(s, shown[s], Known(s))' BY <1>4 DEF IsTopOf
  <2>2. ShownIsTopOfKnown' BY <2>1 DEF ShownIsTopOfKnown
  <2>3. ASSUME NEW s \in Sides, u[s] # <<>>
        PROVE  u[s][1][1] \in Prices /\ seen'[s][u[s][1][1]] > 0
    <3>1. u[s] \in Seq(Levels) OBVIOUS
    <3>2. 1 \in DOMAIN u[s] BY <2>3, <3>1, TailFacts
    <3>3. u[s][1] \in Known(s)' BY <3>2 DEF IsTopOf, Range
    <3>4. u[s][1] \in LevelsOf(seen'[s]) BY <3>3 DEF Known
    <3>5. seen'[s] \in Side BY SideTypes
    <3> QED BY <3>4, <3>5, LevelsOfSide
  <2>4. ASSUME u["bids"] # <<>>, u["asks"] # <<>> PROVE u["bids"][1][1] < u["asks"][1][1]
    <3> DEFINE p == u["bids"][1][1]
               q == u["asks"][1][1]
    <3>1. /\ p \in Prices /\ seen'["bids"][p] > 0
          /\ q \in Prices /\ seen'["asks"][q] > 0
      BY <1>2, <2>3, <2>4
    <3> HIDE DEF p, q
    <3>2. DOMAIN seen'["bids"] = Prices /\ DOMAIN seen'["asks"] = Prices /\ ~Crossed(seen')
      BY <1>2, SideTypes
    <3>3. p \in PricesOf(seen'["bids"]) /\ q \in PricesOf(seen'["asks"]) BY <3>1, <3>2 DEF PricesOf
    <3>4. ~(p >= q) BY <3>2, <3>3 DEF Crossed
    <3>5. p < q BY <3>1, <3>4, DepthAssumption
    <3> QED BY <3>5 DEF p, q
  <2>5. NeverCrossed' BY <1>4, <2>4 DEF NeverCrossed
  <2> QED BY <1>4, <2>2, <2>5
<1> QED BY <1>1, <1>3, <1>4

(***************************************************************************)
(* Steps                                                                   *)
(***************************************************************************)

LEMMA InitIInv == Init => IInv
<1> SUFFICES ASSUME Init PROVE IInv OBVIOUS
<1> USE DEF Init
<1>1. NoLevels \in Side /\ PricesOf(NoLevels) = {} BY DepthAssumption DEF NoLevels, Side, PricesOf
<1>2. seen \in [Sides -> Side] /\ seen["bids"] = NoLevels BY <1>1 DEF Sides
<1>3. ~Crossed(seen) BY <1>1, <1>2 DEF Crossed
<1>4. seen \in Books BY <1>2, <1>3 DEF Books
<1>5. TypeOK
  <2>1. wire \in Seq(Messages(handler)) /\ Len(wire) <= WireMax BY DepthAssumption
  <2>2. shown \in [Sides -> Seq(Levels)] /\ \A s \in Sides : Len(shown[s]) <= Depth
    BY DepthAssumption
  <2> QED BY <1>1, <1>4, <2>1, <2>2 DEF TypeOK
<1>6. Snapshots BY DEF Snapshots
<1>7. Deltas BY DEF Deltas, Links, FirstLink, LastLink, MapsFollow, NoLevels
<1>8. ShownIsTopOfKnown BY DEF ShownIsTopOfKnown, Known, Sides
<1>9. NeverCrossed BY DEF NeverCrossed, Sides
<1> QED BY <1>5, <1>6, <1>7, <1>8, <1>9 DEF IInv

LEMMA SendStep == IInv /\ Send => IInv'
<1> SUFFICES ASSUME IInv, Send PROVE IInv' OBVIOUS
<1> USE DEF IInv
<1>1. PICK b \in Books :
        /\ \E bids \in Told("bids", b), asks \in Told("asks", b) :
             wire' = Append(wire, [bids |-> bids, asks |-> asks, market |-> b])
        /\ market' = b
  BY DEF Send
<1>2. PICK bids \in Told("bids", b), asks \in Told("asks", b) :
        wire' = Append(wire, [bids |-> bids, asks |-> asks, market |-> b])
  BY <1>1
<1>3. UNCHANGED <<handler, book, shown, known, seen>> /\ Len(wire) < WireMax BY DEF Send
<1> DEFINE m == [bids |-> bids, asks |-> asks, market |-> b]
           n == Len(wire)
<1>4. handler \in Handlers /\ wire \in Seq(Messages(handler)) BY DEF TypeOK
<1>5. /\ \A s \in Sides : m[s] \in Told(s, b)
      /\ m.market = b
  BY DEF Sides
<1>6. m \in Messages(handler) BY <1>4, ToldFacts DEF Messages, Sides
<1> HIDE DEF m
<1>7. \A s \in Sides :
        /\ handler = "mexc" => /\ \A p \in DOMAIN m[s] : m[s][p] = b[s][p]
                               /\ \A p \in Prices : p \in DOMAIN m[s] \/ b[s][p] = market[s][p]
        /\ handler # "mexc" => Range(m[s]) = LevelsOf(b[s])
        /\ handler = "gate" => m[s] = Sorted(s, LevelsOf(b[s]))
  BY <1>4, <1>5, ToldFacts
<1>8. /\ wire' = Append(wire, m) /\ wire' \in Seq(Messages(handler)) /\ wire' # <<>>
      /\ n \in Nat /\ Len(wire') = n + 1 /\ DOMAIN wire = 1 .. n /\ DOMAIN wire' = 1 .. n + 1
      /\ \A i \in DOMAIN wire : wire'[i] = wire[i]
      /\ wire'[n + 1] = m
  BY <1>2, <1>4, <1>6, AppendFacts DEF m
<1>9. wire = <<>> <=> n = 0 BY <1>4, EmptyHasNoLength
<1>10. TypeOK'
  <2>1. Len(wire') <= WireMax BY <1>3, <1>8, DepthAssumption
  <2> QED BY <1>1, <1>3, <1>8, <2>1 DEF TypeOK
<1> HIDE DEF n
<1>11. \A i \in DOMAIN wire' : i = n + 1 \/ (i \in DOMAIN wire /\ wire'[i] = wire[i]) BY <1>8
<1>12. Snapshots'
  <2> SUFFICES ASSUME handler # "mexc"
               PROVE  \A i \in DOMAIN wire' : Whole(wire'[i]) /\ (handler = "gate" => InOrder(wire'[i]))
    BY <1>3 DEF Snapshots
  <2>1. Whole(m) /\ (handler = "gate" => InOrder(m)) BY <1>5, <1>7 DEF Whole, InOrder
  <2> QED BY <1>8, <1>11, <2>1 DEF Snapshots
<1>13. Deltas'
  <2> SUFFICES ASSUME handler = "mexc" PROVE (Links /\ FirstLink /\ LastLink /\ MapsFollow)'
    BY <1>3 DEF Deltas
  <2>1. Links /\ FirstLink /\ LastLink /\ MapsFollow BY DEF Deltas
  <2>2. NewQuantities(m) BY <1>5, <1>7 DEF NewQuantities
  <2>3. \A s \in Sides : \A p \in Prices : Follows(m, s, p, market) BY <1>5, <1>7 DEF Follows
  <2>4. \A i \in DOMAIN wire' : NewQuantities(wire'[i]) BY <1>8, <1>11, <2>1, <2>2 DEF Links
  <2>5. ASSUME NEW i \in DOMAIN wire', NEW j \in DOMAIN wire', j = i + 1,
               NEW s \in Sides, NEW p \in Prices
        PROVE  Follows(wire'[j], s, p, wire'[i].market)
    <3>1. i \in DOMAIN wire /\ wire'[i] = wire[i] BY <1>8, <2>5
    <3>2. CASE j = n + 1
      <4>1. i = n /\ n # 0 BY <1>8, <2>5, <3>1, <3>2
      <4>2. wire'[i].market = market BY <1>9, <2>1, <3>1, <4>1 DEF LastLink, n
      <4> QED BY <1>8, <2>3, <3>2, <4>2
    <3>3. CASE j # n + 1
      <4>1. j \in DOMAIN wire /\ wire'[j] = wire[j] BY <1>11, <3>3
      <4> QED BY <2>1, <2>5, <3>1, <4>1 DEF Links
    <3> QED BY <3>2, <3>3
  <2>6. Links' BY <2>4, <2>5 DEF Links
  <2>7. ASSUME NEW s \in Sides, NEW p \in known[s] PROVE Follows(wire'[1], s, p, seen)
    <3>1. p \in Prices BY <2>7 DEF TypeOK
    <3>2. CASE n = 0
      <4>1. wire'[1] = m /\ market[s][p] = seen[s][p] BY <1>8, <1>9, <2>1, <3>2 DEF LastLink
      <4> QED BY <2>3, <3>1, <4>1 DEF Follows
    <3>3. CASE n # 0
      <4>1. 1 \in DOMAIN wire BY <1>8, <3>3
      <4>2. wire # <<>> /\ wire'[1] = wire[1] BY <1>8, <1>9, <3>3, <4>1
      <4> QED BY <2>1, <4>2 DEF FirstLink
    <3> QED BY <3>2, <3>3
  <2>8. FirstLink' BY <1>3, <2>7 DEF FirstLink
  <2>9. LastLink' BY <1>1, <1>5, <1>8 DEF LastLink
  <2>10. MapsFollow' BY <1>3, <2>1 DEF MapsFollow
  <2> QED BY <2>6, <2>8, <2>9, <2>10
<1>14. ShownIsTopOfKnown' BY <1>3 DEF ShownIsTopOfKnown, Known
<1>15. NeverCrossed' BY <1>3 DEF NeverCrossed
<1> QED BY <1>10, <1>12, <1>13, <1>14, <1>15

\* What a message leaves on the wire.
LEMMA WireTaken ==
  ASSUME IInv, wire # <<>>, wire' = Tail(wire), handler' = handler, market' = market,
         NEW m, m = Head(wire), seen' = m.market
  PROVE  /\ m \in Messages(handler) /\ seen' \in Books
         /\ wire' \in Seq(Messages(handler)) /\ Len(wire') <= WireMax
         /\ handler # "mexc" => /\ Whole(m) /\ (handler = "gate" => InOrder(m))
                                /\ \A i \in DOMAIN wire' : Whole(wire'[i]) /\ (handler = "gate" => InOrder(wire'[i]))
         /\ handler = "mexc" => /\ NewQuantities(m) /\ Links'
                                /\ \A s \in Sides : \A p \in known[s] : Follows(m, s, p, seen)
                                /\ (\A s \in Sides : known'[s] \subseteq Prices) => FirstLink' /\ LastLink'
<1> USE DEF IInv
<1> DEFINE n == Len(wire)
<1>1. wire \in Seq(Messages(handler)) /\ Len(wire) <= WireMax BY DEF TypeOK
<1>2. /\ m = wire[1] /\ m \in Messages(handler) /\ wire' \in Seq(Messages(handler))
      /\ n \in Nat \ {0} /\ Len(wire') = n - 1
      /\ DOMAIN wire = 1 .. n /\ DOMAIN wire' = 1 .. n - 1
      /\ \A i \in DOMAIN wire' : wire'[i] = wire[i + 1] /\ i + 1 \in DOMAIN wire
      /\ wire' = <<>> <=> n = 1
  BY <1>1, TailFacts
<1>3. Len(wire') <= WireMax BY <1>1, <1>2, DepthAssumption
<1>4. seen' \in Books BY <1>2, MessageTypes
<1> HIDE DEF n
<1>5. 1 \in DOMAIN wire BY <1>2
<1>6. handler # "mexc" => /\ Whole(m) /\ (handler = "gate" => InOrder(m))
                          /\ \A i \in DOMAIN wire' : Whole(wire'[i]) /\ (handler = "gate" => InOrder(wire'[i]))
  BY <1>2, <1>5 DEF Snapshots
<1>7. ASSUME handler = "mexc"
      PROVE  /\ NewQuantities(m) /\ Links'
             /\ \A s \in Sides : \A p \in known[s] : Follows(m, s, p, seen)
             /\ (\A s \in Sides : known'[s] \subseteq Prices) => FirstLink' /\ LastLink'
  <2>1. Links /\ FirstLink /\ LastLink BY <1>7 DEF Deltas
  <2>2. NewQuantities(m) BY <1>2, <1>5, <2>1 DEF Links
  <2>3. \A s \in Sides : \A p \in known[s] : Follows(m, s, p, seen) BY <1>2, <2>1 DEF FirstLink
  <2>4. \A i \in DOMAIN wire' : NewQuantities(wire'[i]) BY <1>2, <2>1 DEF Links
  <2>5. ASSUME NEW i \in DOMAIN wire', NEW j \in DOMAIN wire', j = i + 1,
               NEW s \in Sides, NEW p \in Prices
        PROVE  Follows(wire'[j], s, p, wire'[i].market)
    <3>1. wire'[i] = wire[i + 1] /\ wire'[j] = wire[j + 1] BY <1>2
    <3>2. i + 1 \in DOMAIN wire /\ j + 1 \in DOMAIN wire /\ j + 1 = (i + 1) + 1 BY <1>2, <2>5
    <3> QED BY <2>1, <3>1, <3>2 DEF Links
  <2>6. Links' BY <2>4, <2>5 DEF Links
  <2>7. ASSUME \A s \in Sides : known'[s] \subseteq Prices PROVE FirstLink' /\ LastLink'
    <3>1. CASE n = 1
      <4>1. wire' = <<>> /\ market = m.market BY <1>2, <2>1, <3>1 DEF LastLink, n
      <4> QED BY <4>1 DEF FirstLink, LastLink
    <3>2. CASE n # 1
      <4>1. 1 \in DOMAIN wire' /\ n - 1 \in DOMAIN wire' /\ 1 + 1 \in DOMAIN wire /\ (n - 1) + 1 = n
        BY <1>2, <3>2
      <4>2. wire'[1] = wire[1 + 1] /\ wire'[n - 1] = wire[n] /\ wire' # <<>>
        BY <1>2, <3>2, <4>1
      <4>3. \A s \in Sides : \A p \in Prices : Follows(wire'[1], s, p, seen')
        BY <1>2, <1>5, <2>1, <4>1, <4>2 DEF Links
      <4>4. FirstLink' BY <2>7, <4>3 DEF FirstLink
      <4>5. market = wire[n].market BY <2>1 DEF LastLink, n
      <4>6. LastLink' BY <1>2, <4>2, <4>5 DEF LastLink
      <4> QED BY <4>4, <4>6
    <3> QED BY <3>1, <3>2
  <2> QED BY <2>2, <2>3, <2>6, <2>7
<1> QED BY <1>2, <1>3, <1>4, <1>6, <1>7

\* A snapshot is shown as far as it is better than the rest of it, whichever handler puts
\* it in order.
LEMMA SnapshotStep ==
  ASSUME IInv, handler # "mexc", wire # <<>>, wire' = Tail(wire),
         handler' = handler, market' = market, book' = book,
         NEW m, m = Head(wire), seen' = m.market, known' = [s \in Sides |-> Prices],
         NEW u, Publish(u), u = [s \in Sides |-> First(Depth, Sorted(s, LevelsOf(m.market[s])))]
  PROVE  IInv'
<1>1. /\ seen' \in Books /\ wire' \in Seq(Messages(handler)) /\ Len(wire') <= WireMax
      /\ \A i \in DOMAIN wire' : Whole(wire'[i]) /\ (handler = "gate" => InOrder(wire'[i]))
  BY WireTaken
<1>2. ASSUME NEW s \in Sides
      PROVE  /\ u[s] \in Seq(Levels) /\ Len(u[s]) <= Depth /\ IsTopOf(s, u[s], Known(s)')
             /\ u[s] = <<>> <=> Known(s)' = {}
  <2> DEFINE S == LevelsOf(m.market[s])
  <2>1. Distinct(S) /\ \A x \in S : x[1] \in Prices BY <1>1, SideTypes, LevelsOfSide
  <2>2. Known(s)' = S BY <2>1 DEF Known
  <2>3. u[s] = First(Depth, Sorted(s, S)) OBVIOUS
  <2> HIDE DEF S
  <2> QED BY ONLY <2>1, <2>2, <2>3, TopOfSorted
<1>3. u \in [Sides -> Seq(Levels)] BY <1>2
<1>4. /\ shown \in [Sides -> Seq(Levels)] /\ \A s \in Sides : Len(shown[s]) <= Depth
      /\ NeverCrossed
  BY DEF IInv, TypeOK
<1>5. /\ shown' \in [Sides -> Seq(Levels)] /\ \A s \in Sides : Len(shown'[s]) <= Depth
      /\ ShownIsTopOfKnown' /\ NeverCrossed'
  BY <1>1, <1>2, <1>3, <1>4, Published
<1>6. TypeOK' BY <1>1, <1>5 DEF IInv, TypeOK
<1>7. Snapshots' BY <1>1 DEF Snapshots
<1>8. Deltas' BY DEF Deltas
<1> QED BY <1>5, <1>6, <1>7, <1>8 DEF IInv

LEMMA ParseSortedStep ==
  ASSUME IInv, OnMessage, ParseSorted(Head(wire))
  PROVE  IInv'
<1>1. PICK m : m = Head(wire) OBVIOUS
<1>2. /\ wire # <<>> /\ wire' = Tail(wire) /\ seen' = m.market
      /\ handler' = handler /\ market' = market
  BY <1>1 DEF OnMessage
<1>3. PICK u : u = [s \in Sides |-> FirstOfSnapshot(s, m)] OBVIOUS
<1>4. handler = "gate" /\ book' = book /\ known' = [s \in Sides |-> Prices] /\ Publish(u)
  BY <1>1, <1>3 DEF ParseSorted
<1>5. InOrder(m) BY <1>1, <1>2, <1>4, WireTaken
<1>6. u = [s \in Sides |-> First(Depth, Sorted(s, LevelsOf(m.market[s])))]
  BY <1>3, <1>5 DEF InOrder, FirstOfSnapshot
<1> QED BY <1>1, <1>2, <1>4, <1>6, SnapshotStep

LEMMA ParseAnyStep ==
  ASSUME IInv, OnMessage, ParseAny(Head(wire))
  PROVE  IInv'
<1>1. PICK m : m = Head(wire) OBVIOUS
<1>2. /\ wire # <<>> /\ wire' = Tail(wire) /\ seen' = m.market
      /\ handler' = handler /\ market' = market
  BY <1>1 DEF OnMessage
<1>3. PICK u : u = [s \in Sides |-> TopOfSnapshot(s, m)] OBVIOUS
<1>4. handler = "sorting" /\ book' = book /\ known' = [s \in Sides |-> Prices] /\ Publish(u)
  BY <1>1, <1>3 DEF ParseAny
<1>5. Whole(m) BY <1>1, <1>2, <1>4, WireTaken
<1>6. u = [s \in Sides |-> First(Depth, Sorted(s, LevelsOf(m.market[s])))]
  BY <1>3, <1>5 DEF Whole, TopOfSnapshot
<1> QED BY <1>1, <1>2, <1>4, <1>6, SnapshotStep

LEMMA ApplyDepthStep ==
  ASSUME IInv, OnMessage, ApplyDepth(Head(wire))
  PROVE  IInv'
<1>1. PICK m : m = Head(wire) OBVIOUS
<1>2. /\ wire # <<>> /\ wire' = Tail(wire) /\ seen' = m.market
      /\ handler' = handler /\ market' = market
  BY <1>1 DEF OnMessage
<1>3. PICK u : u = [s \in Sides |-> TopOfMap(s, book'[s])] OBVIOUS
<1>4. /\ handler = "mexc" /\ book' = [s \in Sides |-> Merge(s, m)] /\ Publish(u)
      /\ known' = [s \in Sides |-> known[s] \cup DOMAIN m[s]]
  BY <1>1, <1>3 DEF ApplyDepth
<1>5. /\ m \in Messages("mexc") /\ seen' \in Books
      /\ wire' \in Seq(Messages(handler)) /\ Len(wire') <= WireMax
      /\ NewQuantities(m) /\ Links'
      /\ \A s \in Sides : \A p \in known[s] : Follows(m, s, p, seen)
      /\ (\A s \in Sides : known'[s] \subseteq Prices) => FirstLink' /\ LastLink'
  BY <1>1, <1>2, <1>4, WireTaken
<1>6. /\ \A s \in Sides : known[s] \subseteq Prices
      /\ book \in [Sides -> Side] /\ known \in [Sides -> SUBSET Prices]
      /\ MapsFollow
  BY <1>4 DEF IInv, TypeOK, Deltas
<1>7. ASSUME NEW s \in Sides
      PROVE  /\ DOMAIN m[s] \subseteq Prices
             /\ \A p \in DOMAIN m[s] : m[s][p] \in 0 .. QtyMax
  <2>1. m[s] \in Changes BY <1>5, MessageTypes DEF Lists
  <2> QED BY <2>1 DEF Changes
<1>8. known' \in [Sides -> SUBSET Prices] BY <1>4, <1>6, <1>7
<1>9. book' \in [Sides -> Side] BY <1>4, <1>6, <1>7 DEF Merge, Side
<1>10. MapsFollow'
  <2> SUFFICES ASSUME NEW s \in Sides, NEW p \in Prices
               PROVE  book'[s][p] = IF p \in known'[s] THEN seen'[s][p] ELSE 0
    BY DEF MapsFollow
  <2>1. book'[s][p] = IF p \in DOMAIN m[s] THEN m[s][p] ELSE book[s][p] BY <1>4 DEF Merge
  <2>2. p \in known'[s] <=> p \in known[s] \/ p \in DOMAIN m[s] BY <1>4
  <2>3. CASE p \in DOMAIN m[s] BY <1>2, <1>5, <2>1, <2>2, <2>3 DEF NewQuantities
  <2>4. CASE p \notin DOMAIN m[s]
    <3>1. book[s][p] = IF p \in known[s] THEN seen[s][p] ELSE 0 BY <1>6 DEF MapsFollow
    <3>2. p \in known[s] => seen'[s][p] = seen[s][p] BY <1>2, <1>5, <2>4 DEF Follows
    <3> QED BY <2>1, <2>2, <2>4, <3>1, <3>2
  <2> QED BY <2>3, <2>4
<1>11. ASSUME NEW s \in Sides PROVE Known(s)' = LevelsOf(book'[s])
  <2> DEFINE b == book'[s]
             l == seen'[s]
             k == known'[s]
  <2>1. b \in Side /\ l \in Side BY <1>5, <1>9, SideTypes
  <2>2. \A p \in Prices : b[p] = IF p \in k THEN l[p] ELSE 0 BY <1>10 DEF MapsFollow
  <2>3. Known(s)' = {x \in LevelsOf(l) : x[1] \in k} BY DEF Known
  <2> HIDE DEF b, l, k
  <2>4. \A x : x \in LevelsOf(b) <=> \E p \in Prices : b[p] > 0 /\ x = <<p, b[p]>>
    BY <2>1, LevelsOfSide
  <2>5. \A x : x \in LevelsOf(l) <=> \E p \in Prices : l[p] > 0 /\ x = <<p, l[p]>>
    BY <2>1, LevelsOfSide
  <2>6. \A p \in Prices : b[p] > 0 <=> p \in k /\ l[p] > 0 BY <2>2
  <2>7. \A p \in Prices : p \in k => b[p] = l[p] BY <2>2
  <2>8. \A x : x \in LevelsOf(b) <=> x \in LevelsOf(l) /\ x[1] \in k BY <2>4, <2>5, <2>6, <2>7
  <2> QED BY <2>3, <2>8 DEF b
<1>12. ASSUME NEW s \in Sides
       PROVE  /\ u[s] \in Seq(Levels) /\ Len(u[s]) <= Depth /\ IsTopOf(s, u[s], Known(s)')
              /\ u[s] = <<>> <=> Known(s)' = {}
  <2> DEFINE S == LevelsOf(book'[s])
  <2>1. Distinct(S) BY <1>9, LevelsOfSide
  <2>2. Known(s)' = S BY <1>11
  <2>3. u[s] = First(Depth, Sorted(s, S)) BY <1>3 DEF TopOfMap
  <2> HIDE DEF S
  <2> QED BY ONLY <2>1, <2>2, <2>3, TopOfSorted
<1>13. u \in [Sides -> Seq(Levels)] BY <1>3, <1>12
<1>14. /\ shown \in [Sides -> Seq(Levels)] /\ \A s \in Sides : Len(shown[s]) <= Depth
       /\ NeverCrossed
  BY DEF IInv, TypeOK
<1>15. /\ shown' \in [Sides -> Seq(Levels)] /\ \A s \in Sides : Len(shown'[s]) <= Depth
       /\ ShownIsTopOfKnown' /\ NeverCrossed'
  BY <1>4, <1>5, <1>12, <1>13, <1>14, Published
<1>16. TypeOK' BY <1>2, <1>5, <1>8, <1>9, <1>15 DEF IInv, TypeOK
<1>17. Snapshots' BY <1>2, <1>4 DEF Snapshots
<1>18. Deltas' BY <1>5, <1>8, <1>10 DEF Deltas
<1> QED BY <1>15, <1>16, <1>17, <1>18 DEF IInv

LEMMA StutterStep == IInv /\ UNCHANGED vars => IInv'
BY DEF IInv, TypeOK, Snapshots, Deltas, Links, FirstLink, LastLink, MapsFollow, ShownIsTopOfKnown,
       Known, NeverCrossed, vars

LEMMA NextIInv == IInv /\ [Next]_vars => IInv'
BY SendStep, ApplyDepthStep, ParseSortedStep, ParseAnyStep, StutterStep DEF Next, OnMessage

(***************************************************************************)
(* Theorems                                                                *)
(***************************************************************************)

\* The inductive invariant holds in every state.
THEOREM Invariance == Spec => []IInv
BY InitIInv, NextIInv, PTL DEF Spec

\* Books, messages and what is shown keep their shape and their bounds: no handler shows
\* more than Depth levels a side.
THEOREM TypeCorrect == Spec => []TypeOK
<1>1. IInv => TypeOK BY DEF IInv
<1> QED BY <1>1, Invariance, PTL

\* What a panel shows is the top of the exchange's book as of the last message, best first
\* and without gaps - of the whole book for Gate, BingX and LBank, and for MEXC, whose maps
\* are built from changes alone, of the prices that some change was about.
THEOREM TopOfTheBookIsShown == Spec => []ShownIsTopOfKnown
<1>1. IInv => ShownIsTopOfKnown BY DEF IInv
<1> QED BY <1>1, Invariance, PTL

\* The best bid on display is below the best ask, though a level of MEXC's that changes
\* sides is erased on one and set on the other.
THEOREM TheDisplayNeverCrosses == Spec => []NeverCrossed
<1>1. IInv => NeverCrossed BY DEF IInv
<1> QED BY <1>1, Invariance, PTL

=============================================================================
