---------------------------- MODULE Orders_proofs ----------------------------
(***************************************************************************)
(* The two ends of a private order stream.                                 *)
(*                                                                         *)
(* OrderPanel: for any number of orders and any limits, History has its    *)
(* size and names no end that an order did not have.                       *)
(*                                                                         *)
(* OrderStream: its margins hold for every period, life of a key and idle  *)
(* limit that satisfies StreamAssumption, not only for the program's       *)
(* numbers: renewals come in time, pings too, and stop() is brief.         *)
(***************************************************************************)
EXTENDS OrderPanel, OrderStream, FiniteSetTheorems, TLAPS

(***************************************************************************)
(* The inductive invariant of OrderPanel                                   *)
(***************************************************************************)

\* A cancel that the exchange has acted upon has cancelled the order.
Truthful(r) ==
    /\ r.cancelled => r.blind \/ /\ Done(r.id)
                                 /\ \/ r.msg = "Filled"    /\ ord[r.id] = "filled"
                                    \/ r.msg = "Cancelled" /\ ord[r.id] = "cancelled"
                                    \/ r.msg = "Error"
    /\ r.call \in {"acted", "ok"} => ord[r.id] = "cancelled"
TrueRows == {r \in RowType : Truthful(r)}

\* A finish event on its way tells of an order that is over.
EventType  == [type : {"new", "update", "finish"}, id : Orders]
TrueEvents == {e \in EventType : e.type = "finish" => Done(e.id)}

\* The exchange accepts an order once.
PlacedOnce ==
    /\ place.st # "none" => place.id \in Own
    /\ place.st = "sent" => ord[place.id] = "none"

IInv == TypeOK /\ rows \in Seq(TrueRows) /\ events \in Seq(TrueEvents) /\ PlacedOnce

(***************************************************************************)
(* Sequences                                                               *)
(***************************************************************************)

LEMMA SeqFacts ==
  ASSUME NEW S, NEW s \in Seq(S)
  PROVE  /\ Len(s) \in Nat /\ DOMAIN s = 1 .. Len(s) /\ \A i \in DOMAIN s : s[i] \in S
         /\ IsFiniteSet(DOMAIN s)
<1>1. Len(s) \in Nat /\ DOMAIN s = 1 .. Len(s) /\ \A i \in DOMAIN s : s[i] \in S OBVIOUS
<1>2. IsFiniteSet(1 .. Len(s)) BY <1>1, FS_Interval
<1> QED BY <1>1, <1>2

LEMMA AppendFacts ==
  ASSUME NEW S, NEW s \in Seq(S), NEW e \in S
  PROVE  /\ Append(s, e) \in Seq(S) /\ DOMAIN Append(s, e) = 1 .. Len(s) + 1
         /\ \A i \in 1 .. Len(s) : Append(s, e)[i] = s[i]
         /\ Append(s, e)[Len(s) + 1] = e
OBVIOUS

LEMMA HeadAndTail ==
  ASSUME NEW S, NEW s \in Seq(S), s # <<>>
  PROVE  Head(s) \in S /\ Tail(s) \in Seq(S)
OBVIOUS

LEMMA ConcatFacts ==
  ASSUME NEW S, NEW s \in Seq(S), NEW t \in Seq(S)
  PROVE  /\ s \o t \in Seq(S) /\ DOMAIN (s \o t) = 1 .. Len(s) + Len(t)
         /\ \A i \in 1 .. Len(s) : (s \o t)[i] = s[i]
         /\ \A i \in 1 .. Len(s) + Len(t) : i \notin 1 .. Len(s) =>
              i - Len(s) \in 1 .. Len(t) /\ (s \o t)[i] = t[i - Len(s)]
<1>1. s \o t \in Seq(S) /\ Len(s) \in Nat /\ Len(t) \in Nat OBVIOUS
<1>2. DOMAIN (s \o t) = 1 .. Len(s) + Len(t) OBVIOUS
<1>3. \A i \in 1 .. Len(s) : (s \o t)[i] = s[i] BY <1>1
<1>4. \A i \in 1 .. Len(s) + Len(t) : i \notin 1 .. Len(s) =>
              i - Len(s) \in 1 .. Len(t) /\ (s \o t)[i] = t[i - Len(s)]
  BY <1>1
<1> QED BY <1>1, <1>2, <1>3, <1>4

\* A finite set as a sequence.
LEMMA SetToSeqFacts ==
  ASSUME NEW S, IsFiniteSet(S)
  PROVE  SetToSeq(S) \in Seq(S)
<1>1. Cardinality(S) \in Nat /\ ExistsBijection(1 .. Cardinality(S), S) BY FS_CardinalityType
<1>2. \E f \in [1 .. Cardinality(S) -> S] : IsInjective(f)
  BY <1>1 DEF ExistsBijection, Bijection, Injection
<1>3. SetToSeq(S) \in [1 .. Cardinality(S) -> S] BY <1>2 DEF SetToSeq
<1> HIDE DEF SetToSeq
<1> QED BY <1>1, <1>3

(***************************************************************************)
(* The places kept of a list                                               *)
(***************************************************************************)

\* Every place has as many before it as its number says: counting them is a bijection.
LEMMA NthFacts ==
  ASSUME NEW k \in Nat, NEW I \in SUBSET (1 .. k)
  PROVE  /\ IsFiniteSet(I) /\ Cardinality(I) \in Nat
         /\ \A n \in 1 .. Cardinality(I) :
              Nth(I, n) \in I /\ Cardinality({j \in I : j < Nth(I, n)}) = n - 1
         /\ \A n, m \in 1 .. Cardinality(I) : Nth(I, n) = Nth(I, m) => n = m
<1> DEFINE c == Cardinality(I)
           Before(i) == {j \in I : j < i}
           rank == [i \in I |-> Cardinality(Before(i)) + 1]
<1>1. IsFiniteSet(1 .. k) BY FS_Interval
<1>2. IsFiniteSet(I) /\ c \in Nat BY <1>1, FS_Subset, FS_CardinalityType
<1>3. \A i \in I : IsFiniteSet(Before(i)) /\ Cardinality(Before(i)) \in Nat
  <2> SUFFICES ASSUME NEW i \in I PROVE IsFiniteSet(Before(i)) /\ Cardinality(Before(i)) \in Nat
    OBVIOUS
  <2>1. IsFiniteSet(Before(i)) BY <1>2, FS_Subset
  <2> QED BY <2>1, FS_CardinalityType
<1>4. ASSUME NEW i \in I PROVE rank[i] \in 1 .. c
  <2>1. Before(i) \subseteq I \ {i} OBVIOUS
  <2>2. IsFiniteSet(I \ {i}) /\ Cardinality(I \ {i}) = c - 1 BY <1>2, FS_RemoveElement
  <2>3. Cardinality(Before(i)) <= c - 1 BY <2>1, <2>2, FS_Subset
  <2> HIDE DEF c, Before
  <2> QED BY <1>2, <1>3, <2>3
<1>5. ASSUME NEW i \in I, NEW j \in I, i < j PROVE rank[i] < rank[j]
  <2>1. Before(i) \cup {i} \subseteq Before(j)
    <3>1. \A x \in I : x \in Int OBVIOUS
    <3>2. \A x \in I : x < i => x < j BY <1>5, <3>1
    <3> QED BY <1>5, <3>2
  <2>2. i \notin Before(i) OBVIOUS
  <2>3. Cardinality(Before(i) \cup {i}) = Cardinality(Before(i)) + 1 BY <1>3, <2>2, FS_AddElement
  <2>4. Cardinality(Before(i) \cup {i}) <= Cardinality(Before(j)) BY <1>3, <2>1, FS_Subset
  <2> HIDE DEF Before
  <2> QED BY <1>3, <2>3, <2>4
<1>6. \A i \in I : rank[i] \in Int /\ rank[i] = Cardinality(Before(i)) + 1 BY <1>4
<1> HIDE DEF rank, Before
<1>7. \A i, j \in I : rank[i] = rank[j] => i = j
  <2> SUFFICES ASSUME NEW i \in I, NEW j \in I, i # j PROVE rank[i] # rank[j] OBVIOUS
  <2>1. i < j \/ j < i OBVIOUS
  <2> QED BY <1>5, <1>6, <2>1
<1>8. rank \in Injection(I, 1 .. c) BY <1>4, <1>7 DEF Injection, IsInjective, rank
<1>9. IsFiniteSet(1 .. c) /\ Cardinality(1 .. c) = c BY <1>2, FS_Interval
<1>10. rank \in Surjection(I, 1 .. c) BY <1>8, <1>9, FS_Injection
<1>11. \A n \in 1 .. c : \E i \in I : rank[i] = n BY <1>10 DEF Surjection
<1>12. \A n \in 1 .. c : \E i \in I : Cardinality(Before(i)) = n - 1
  BY <1>2, <1>3, <1>6, <1>11
<1>13. \A n \in 1 .. c : Nth(I, n) \in I /\ Cardinality({j \in I : j < Nth(I, n)}) = n - 1
  BY <1>12 DEF Nth, Before
<1> HIDE DEF c, Nth
<1>14. \A n, m \in 1 .. c : Nth(I, n) = Nth(I, m) => n = m
  <2> SUFFICES ASSUME NEW n \in 1 .. c, NEW m \in 1 .. c, Nth(I, n) = Nth(I, m) PROVE n = m
    OBVIOUS
  <2>1. n - 1 = m - 1 BY <1>13
  <2> QED BY <1>2, <2>1
<1> USE DEF c
<1> QED BY <1>2, <1>13, <1>14

LEMMA KeptFacts ==
  ASSUME NEW S, NEW s \in Seq(S), NEW I \in SUBSET DOMAIN s
  PROVE  /\ Kept(s, I) \in Seq(S)
         /\ DOMAIN Kept(s, I) = 1 .. Cardinality(I)
         /\ \A n \in 1 .. Cardinality(I) : Nth(I, n) \in I /\ Kept(s, I)[n] = s[Nth(I, n)]
         /\ \A n, m \in 1 .. Cardinality(I) : Nth(I, n) = Nth(I, m) => n = m
<1>1. Len(s) \in Nat /\ DOMAIN s = 1 .. Len(s) /\ \A i \in DOMAIN s : s[i] \in S BY SeqFacts
<1>2. /\ Cardinality(I) \in Nat /\ \A n \in 1 .. Cardinality(I) : Nth(I, n) \in I
      /\ \A n, m \in 1 .. Cardinality(I) : Nth(I, n) = Nth(I, m) => n = m
  BY <1>1, NthFacts
<1>3. Kept(s, I) \in [1 .. Cardinality(I) -> S] BY <1>1, <1>2 DEF Kept
<1>4. \A n \in 1 .. Cardinality(I) : Kept(s, I)[n] = s[Nth(I, n)] BY DEF Kept
<1> HIDE DEF Kept, Nth
<1> QED BY <1>2, <1>3, <1>4

LEMMA HasSmallest ==
  ASSUME NEW k \in Nat, NEW I \in SUBSET (1 .. k), I # {}
  PROVE  Min(I) \in I
<1>1. IsFiniteSet(I) /\ Cardinality(I) \in Nat /\ Cardinality(I) # 0 BY NthFacts, FS_EmptySet
<1>2. 1 \in 1 .. Cardinality(I) BY <1>1
<1> HIDE DEF Nth
<1>3. Nth(I, 1) \in I /\ Cardinality({j \in I : j < Nth(I, 1)}) = 0
  <2>1. Nth(I, 1) \in I /\ Cardinality({j \in I : j < Nth(I, 1)}) = 1 - 1 BY <1>2, NthFacts
  <2> QED BY <2>1
<1>4. IsFiniteSet({j \in I : j < Nth(I, 1)}) BY <1>1, FS_Subset
<1>5. {j \in I : j < Nth(I, 1)} = {} BY <1>3, <1>4, FS_EmptySet
<1>6. ASSUME NEW j \in I PROVE Nth(I, 1) <= j
  <2>1. ~(j < Nth(I, 1)) BY <1>5
  <2>2. \A i \in I : i \in Int OBVIOUS
  <2>3. j \in Int /\ Nth(I, 1) \in Int BY <1>3, <2>2
  <2> QED BY <2>1, <2>3
<1> QED BY <1>3, <1>6 DEF Min

(***************************************************************************)
(* How many rows are closed                                                *)
(***************************************************************************)

LEMMA Limits == PlaceCap \in Nat \ {0} /\ EventCap \in Nat \ {0} /\ MaxDone \in Nat \ {0}
BY LimitsAssumption

LEMMA ClosedFacts ==
  ASSUME NEW S, NEW s \in Seq(S)
  PROVE  /\ Closed(s) \subseteq DOMAIN s /\ Open(s) \subseteq DOMAIN s
         /\ IsFiniteSet(Closed(s)) /\ Cardinality(Closed(s)) \in Nat
<1>1. Closed(s) \subseteq DOMAIN s /\ Open(s) \subseteq DOMAIN s BY DEF Closed, Open
<1>2. IsFiniteSet(Closed(s)) BY <1>1, SeqFacts, FS_Subset
<1> QED BY <1>1, <1>2, FS_CardinalityType

\* A list whose closed rows are, each at a place of its own, closed rows of another.
LEMMA NoMoreClosed ==
  ASSUME NEW S, NEW s \in Seq(S), NEW C \in SUBSET Closed(s), NEW t \in Seq(S),
         NEW at \in [Closed(t) -> C], \A i, j \in Closed(t) : at[i] = at[j] => i = j
  PROVE  Cardinality(Closed(t)) <= Cardinality(C)
<1>1. IsFiniteSet(C) BY ClosedFacts, FS_Subset
<1>2. at \in Injection(Closed(t), C) BY DEF Injection, IsInjective
<1> QED BY <1>1, <1>2, FS_Injection

LEMMA KeptClosed ==
  ASSUME NEW S, NEW s \in Seq(S), NEW I \in SUBSET DOMAIN s
  PROVE  Cardinality(Closed(Kept(s, I))) <= Cardinality(I \cap Closed(s))
<1> DEFINE t == Kept(s, I)
           at == [n \in Closed(t) |-> Nth(I, n)]
<1>1. /\ t \in Seq(S) /\ DOMAIN t = 1 .. Cardinality(I)
      /\ \A n \in 1 .. Cardinality(I) : Nth(I, n) \in I /\ t[n] = s[Nth(I, n)]
      /\ \A n, m \in 1 .. Cardinality(I) : Nth(I, n) = Nth(I, m) => n = m
  BY KeptFacts
<1> HIDE DEF t, Nth
<1>2. \A n \in Closed(t) : Nth(I, n) \in I \cap Closed(s) BY <1>1 DEF Closed
<1>3. \A n, m \in Closed(t) : Nth(I, n) = Nth(I, m) => n = m BY <1>1 DEF Closed
<1>4. at \in [Closed(t) -> I \cap Closed(s)] /\ \A i, j \in Closed(t) : at[i] = at[j] => i = j
  BY <1>2, <1>3
<1> HIDE DEF at
<1>5. Cardinality(Closed(t)) <= Cardinality(I \cap Closed(s)) BY <1>1, <1>4, NoMoreClosed
<1> QED BY <1>5 DEF t

\* The newest closed rows are told apart by how many come after them.
LEMMA NewestFew ==
  ASSUME NEW S, NEW s \in Seq(S)
  PROVE  Cardinality(Newest(s)) <= MaxDone
<1> DEFINE After(i) == {j \in Closed(s) : j > i}
           f == [i \in Newest(s) |-> Cardinality(After(i))]
<1>1. Newest(s) \subseteq Closed(s) /\ \A i \in Closed(s) : i \in Int
  BY SeqFacts, ClosedFacts DEF Newest
<1>2. \A i \in Int : IsFiniteSet(After(i)) /\ Cardinality(After(i)) \in Nat
  <2> SUFFICES ASSUME NEW i \in Int PROVE IsFiniteSet(After(i)) /\ Cardinality(After(i)) \in Nat
    OBVIOUS
  <2>1. IsFiniteSet(After(i)) BY ClosedFacts, FS_Subset
  <2> QED BY <2>1, FS_CardinalityType
<1>3. ASSUME NEW i \in Closed(s), NEW j \in Closed(s), i < j
      PROVE  Cardinality(After(j)) < Cardinality(After(i))
  <2>1. After(j) \cup {j} \subseteq After(i)
    <3>1. \A x \in Closed(s) : x > j => x > i BY <1>1, <1>3
    <3> QED BY <1>1, <1>3, <3>1
  <2>2. j \notin After(j) BY <1>1
  <2> HIDE DEF After
  <2>3. Cardinality(After(j) \cup {j}) = Cardinality(After(j)) + 1
    BY <1>1, <1>2, <2>2, FS_AddElement
  <2>4. Cardinality(After(j) \cup {j}) <= Cardinality(After(i)) BY <1>1, <1>2, <2>1, FS_Subset
  <2> QED BY <1>1, <1>2, <2>3, <2>4
<1>4. \A i \in Newest(s) : Cardinality(After(i)) < MaxDone BY DEF Newest
<1> HIDE DEF After
<1>5. \A i \in Newest(s) : f[i] \in 0 .. MaxDone - 1 BY <1>1, <1>2, <1>4, Limits
<1>6. \A i, j \in Newest(s) : f[i] = f[j] => i = j
  <2> SUFFICES ASSUME NEW i \in Newest(s), NEW j \in Newest(s), i # j PROVE f[i] # f[j] OBVIOUS
  <2>1. i < j \/ j < i BY <1>1
  <2>2. Cardinality(After(i)) # Cardinality(After(j)) BY <1>1, <1>2, <1>3, <2>1
  <2> QED BY <2>2
<1>7. f \in Injection(Newest(s), 0 .. MaxDone - 1) BY <1>5, <1>6 DEF Injection, IsInjective
<1>8. IsFiniteSet(0 .. MaxDone - 1) /\ Cardinality(0 .. MaxDone - 1) = MaxDone
  BY Limits, FS_Interval
<1> QED BY <1>7, <1>8, FS_Injection

\* trim_history leaves some of the rows, and no more closed ones than History holds.
LEMMA TrimFacts ==
  ASSUME NEW S, NEW s \in Seq(S)
  PROVE  TrimHistory(s) \in Seq(S) /\ Cardinality(Closed(TrimHistory(s))) <= MaxDone
<1> DEFINE I == Open(s) \cup Newest(s)
<1>1. CASE Cardinality(Closed(s)) <= MaxDone BY <1>1 DEF TrimHistory
<1>2. CASE ~(Cardinality(Closed(s)) <= MaxDone)
  <2>1. TrimHistory(s) = Kept(s, I) BY <1>2 DEF TrimHistory
  <2>2. I \subseteq DOMAIN s /\ I \cap Closed(s) = Newest(s) BY DEF Open, Newest, Closed
  <2>3. Kept(s, I) \in Seq(S) BY <2>2, KeptFacts
  <2>4. Cardinality(Closed(Kept(s, I))) <= Cardinality(Newest(s)) BY <2>2, KeptClosed
  <2>5. Cardinality(Newest(s)) <= MaxDone BY NewestFew
  <2>6. Cardinality(Closed(Kept(s, I))) \in Nat BY <2>3, ClosedFacts
  <2>7. Cardinality(Newest(s)) \in Nat
    <3>1. IsFiniteSet(Newest(s)) BY ClosedFacts, FS_Subset DEF Newest
    <3> QED BY <3>1, FS_CardinalityType
  <2> HIDE DEF I
  <2> QED BY <2>1, <2>3, <2>4, <2>5, <2>6, <2>7, Limits
<1> QED BY <1>1, <1>2

\* cap_placed_orders leaves the end of the list.
LEMMA CapFacts ==
  ASSUME NEW S, NEW s \in Seq(S), NEW n \in Nat \ {0}
  PROVE  CapRows(s, n) \in Seq(S) /\ Cardinality(Closed(CapRows(s, n))) <= Cardinality(Closed(s))
<1>1. Len(s) \in Nat /\ DOMAIN s = 1 .. Len(s) /\ Cardinality(Closed(s)) \in Nat
  BY SeqFacts, ClosedFacts
<1>2. CASE Len(s) < n BY <1>1, <1>2 DEF CapRows
<1>3. CASE ~(Len(s) < n)
  <2> DEFINE m == Len(s) - n + 2
             t == SubSeq(s, m, Len(s))
             at == [i \in Closed(t) |-> i + m - 1]
  <2>1. CapRows(s, n) = t BY <1>3 DEF CapRows
  <2>2. m \in Nat \ {0} /\ m <= Len(s) + 1 BY <1>1, <1>3
  <2> HIDE DEF m
  <2>3. \A i \in m .. Len(s) : s[i] \in S BY <1>1, <2>2
  <2>4. /\ t \in Seq(S) /\ Len(t) = Len(s) - m + 1
        /\ \A i \in 1 .. Len(s) - m + 1 : t[i] = s[i + m - 1]
    BY <1>1, <2>2, <2>3
  <2> HIDE DEF t
  <2>5. DOMAIN t = 1 .. Len(s) - m + 1 BY <2>4
  <2>6. \A i \in 1 .. Len(s) - m + 1 : i + m - 1 \in 1 .. Len(s) /\ i \in Int BY <1>1, <2>2
  <2>7. \A i \in Closed(t) : i + m - 1 \in Closed(s) /\ i \in Int
    BY <1>1, <2>4, <2>5, <2>6 DEF Closed
  <2>8. at \in [Closed(t) -> Closed(s)] /\ \A i, j \in Closed(t) : at[i] = at[j] => i = j
    BY <2>2, <2>7
  <2> HIDE DEF at
  <2>10. Cardinality(Closed(t)) <= Cardinality(Closed(s)) BY <2>4, <2>8, NoMoreClosed
  <2> QED BY <2>1, <2>4, <2>10
<1> QED BY <1>2, <1>3

\* Open rows at the end of a list.
LEMMA ConcatOpen ==
  ASSUME NEW S, NEW s \in Seq(S), NEW t \in Seq(S), \A i \in DOMAIN t : ~t[i].cancelled
  PROVE  s \o t \in Seq(S) /\ Closed(s \o t) = Closed(s)
<1>1. DOMAIN s = 1 .. Len(s) /\ DOMAIN t = 1 .. Len(t) /\ Len(s) \in Nat /\ Len(t) \in Nat
  BY SeqFacts
<1>2. \A i \in 1 .. Len(s) : i \in 1 .. Len(s) + Len(t) BY <1>1
<1>3. /\ s \o t \in Seq(S) /\ DOMAIN (s \o t) = 1 .. Len(s) + Len(t)
      /\ \A i \in 1 .. Len(s) : (s \o t)[i] = s[i]
      /\ \A i \in 1 .. Len(s) + Len(t) : i \notin 1 .. Len(s) =>
              i - Len(s) \in 1 .. Len(t) /\ (s \o t)[i] = t[i - Len(s)]
  BY ConcatFacts
<1> DEFINE u == s \o t
<1> HIDE DEF u
<1>4. \A i \in DOMAIN u : u[i].cancelled => i \in 1 .. Len(s) BY <1>1, <1>3, Zenon DEF u
<1>5. Closed(u) = Closed(s) BY <1>1, <1>2, <1>3, <1>4, Zenon DEF u, Closed
<1> QED BY <1>3, <1>5 DEF u

LEMMA AddRow ==
  ASSUME NEW S, NEW s \in Seq(S), NEW n \in Nat \ {0}, NEW r \in S, ~r.cancelled
  PROVE  /\ Append(CapRows(s, n), r) \in Seq(S)
         /\ Cardinality(Closed(Append(CapRows(s, n), r))) <= Cardinality(Closed(s))
<1>1. CapRows(s, n) \in Seq(S) /\ Cardinality(Closed(CapRows(s, n))) <= Cardinality(Closed(s))
  BY CapFacts
<1> DEFINE c == CapRows(s, n)
<1> HIDE DEF c
<1>2. c \in Seq(S) BY <1>1 DEF c
<1>3. Append(c, r) = c \o <<r>> BY <1>2
<1>4. <<r>> \in Seq(S) /\ \A i \in DOMAIN <<r>> : ~<<r>>[i].cancelled OBVIOUS
<1>5. c \o <<r>> \in Seq(S) /\ Closed(c \o <<r>>) = Closed(c) BY <1>2, <1>4, ConcatOpen
<1> QED BY <1>1, <1>3, <1>5 DEF c

(***************************************************************************)
(* Rows and events                                                         *)
(***************************************************************************)

LEMMA SetRow ==
  ASSUME NEW S, NEW s \in Seq(S), NEW i \in DOMAIN s, NEW r \in S
  PROVE  /\ [s EXCEPT ![i] = r] \in Seq(S)
         /\ r.cancelled = s[i].cancelled => Closed([s EXCEPT ![i] = r]) = Closed(s)
<1> DEFINE t == [s EXCEPT ![i] = r]
<1>1. t \in Seq(S) OBVIOUS
<1>2. DOMAIN t = DOMAIN s /\ t[i] = r /\ \A j \in DOMAIN s : j # i => t[j] = s[j] OBVIOUS
<1> HIDE DEF t
<1>3. r.cancelled = s[i].cancelled => Closed(t) = Closed(s) BY <1>2, Zenon DEF Closed
<1> QED BY <1>1, <1>3 DEF t

LEMMA CallSet ==
  ASSUME NEW r \in TrueRows, NEW c \in Calls, c \in {"acted", "ok"} => ord[r.id] = "cancelled"
  PROVE  [r EXCEPT !.call = c] \in TrueRows /\ [r EXCEPT !.call = c].cancelled = r.cancelled
<1> DEFINE q == [r EXCEPT !.call = c]
<1>1. r \in RowType /\ Truthful(r) BY DEF TrueRows
<1>2. /\ q \in RowType /\ q.id = r.id /\ q.call = c /\ q.msg = r.msg
      /\ q.blind = r.blind /\ q.cancelled = r.cancelled
  BY <1>1 DEF RowType
<1> HIDE DEF q
<1>3. Truthful(q) BY <1>1, <1>2 DEF Truthful
<1>4. q \in TrueRows /\ q.cancelled = r.cancelled BY <1>2, <1>3 DEF TrueRows
<1> QED BY <1>4 DEF q

LEMMA RowIsTrue ==
  ASSUME NEW o \in Orders
  PROVE  Row(o) \in TrueRows /\ ~Row(o).cancelled /\ Row(o).id = o
BY DEF Row, TrueRows, RowType, Calls, Truthful

\* How an order has ended is not changed any more.
LEMMA TruthStays ==
  ASSUME \A o \in Orders : Done(o) => ord'[o] = ord[o]
  PROVE  TrueRows \subseteq TrueRows' /\ TrueEvents \subseteq TrueEvents'
<1>1. \A o \in Orders : Done(o) => Done(o)' BY DEF Done
<1>2. \A o \in Orders : ord[o] \in {"filled", "cancelled"} => ord'[o] = ord[o] BY DEF Done
<1>3. ASSUME NEW r \in TrueRows PROVE r \in TrueRows'
  <2>1. r \in RowType /\ Truthful(r) /\ r.id \in Orders BY DEF TrueRows, RowType
  <2>2. Truthful(r)' BY <1>1, <1>2, <2>1 DEF Truthful
  <2> QED BY <2>1, <2>2 DEF TrueRows
<1>4. ASSUME NEW e \in TrueEvents PROVE e \in TrueEvents'
  BY <1>1 DEF TrueEvents, EventType
<1> QED BY <1>3, <1>4

LEMMA SameTruth ==
  ASSUME ord' = ord
  PROVE  TrueRows' = TrueRows /\ TrueEvents' = TrueEvents
BY DEF TrueRows, TrueEvents, Truthful, Done

\* One list of true rows is as true as a longer set of them.
LEMMA SeqGrows ==
  ASSUME NEW S, NEW T, S \subseteq T, NEW s \in Seq(S)
  PROVE  s \in Seq(T)
OBVIOUS

LEMMA TypesFollow ==
  /\ Seq(TrueRows) \subseteq Seq(RowType) /\ Seq(TrueEvents) \subseteq Seq(EventType)
<1>1. TrueRows \subseteq RowType /\ TrueEvents \subseteq EventType BY DEF TrueRows, TrueEvents
<1> HIDE DEF TrueRows, TrueEvents
<1> QED BY <1>1, SeqGrows

(***************************************************************************)
(* Draining                                                                *)
(***************************************************************************)

LEMMA WithRowFacts ==
  ASSUME NEW s \in Seq(TrueRows), NEW o \in Orders, Cardinality(Closed(s)) <= MaxDone
  PROVE  /\ WithRow(s, o) \in Seq(TrueRows) /\ Cardinality(Closed(WithRow(s, o))) <= MaxDone
         /\ OpenOf(WithRow(s, o), o) # {}
<1>1. CASE OpenOf(s, o) # {} BY <1>1 DEF WithRow
<1>2. CASE OpenOf(s, o) = {}
  <2> DEFINE c == CapRows(s, EventCap)
             t == Append(c, Row(o))
  <2>1. WithRow(s, o) = t BY <1>2 DEF WithRow
  <2>2. Row(o) \in TrueRows /\ ~Row(o).cancelled /\ Row(o).id = o BY RowIsTrue
  <2> HIDE DEF Row
  <2>3. t \in Seq(TrueRows) /\ Cardinality(Closed(t)) <= Cardinality(Closed(s))
    BY <2>2, Limits, AddRow
  <2>4. Cardinality(Closed(t)) \in Nat /\ Cardinality(Closed(s)) \in Nat BY <2>3, ClosedFacts
  <2>5. c \in Seq(TrueRows) BY Limits, CapFacts
  <2> HIDE DEF c
  <2>6. Len(c) + 1 \in DOMAIN t /\ t[Len(c) + 1] = Row(o) BY <2>2, <2>5, AppendFacts, SeqFacts
  <2> HIDE DEF t
  <2>7. Len(c) + 1 \in OpenOf(t, o) BY <2>2, <2>6 DEF OpenOf, RowsOf
  <2> QED BY <2>1, <2>3, <2>4, <2>7, Limits
<1> QED BY <1>1, <1>2

LEMMA OnFinishFacts ==
  ASSUME NEW s \in Seq(TrueRows), NEW o \in Orders, Cardinality(Closed(s)) <= MaxDone, Done(o)
  PROVE  OnFinish(s, o) \in Seq(TrueRows) /\ Cardinality(Closed(OnFinish(s, o))) <= MaxDone
<1> DEFINE t == WithRow(s, o)
           i == Min(OpenOf(t, o))
           how == IF ord[o] = "filled" THEN "Filled" ELSE "Cancelled"
           r == [t[i] EXCEPT !.cancelled = TRUE, !.msg = how]
<1>1. t \in Seq(TrueRows) /\ OpenOf(t, o) # {} BY WithRowFacts
<1> HIDE DEF t
<1>2. i \in OpenOf(t, o)
  <2>1. Len(t) \in Nat /\ OpenOf(t, o) \subseteq 1 .. Len(t) BY <1>1, SeqFacts DEF OpenOf, RowsOf
  <2> QED BY <1>1, <2>1, HasSmallest
<1> HIDE DEF i
<1>3. i \in DOMAIN t /\ t[i] \in TrueRows /\ t[i].id = o BY <1>1, <1>2, SeqFacts DEF OpenOf, RowsOf
<1>4. r \in TrueRows
  <2>1. t[i] \in RowType /\ Truthful(t[i]) BY <1>3 DEF TrueRows
  <2>2. /\ r \in RowType /\ r.id = o /\ r.cancelled /\ r.msg = how /\ r.call = t[i].call
    BY <1>3, <2>1 DEF RowType
  <2>3. ord[o] \in {"filled", "cancelled"} BY DEF Done
  <2> HIDE DEF r
  <2>4. Truthful(r) BY <1>3, <2>1, <2>2, <2>3 DEF Truthful
  <2> QED BY <2>2, <2>4 DEF TrueRows
<1>5. OnFinish(s, o) = TrimHistory([t EXCEPT ![i] = r]) BY DEF OnFinish, t, i
<1> HIDE DEF r
<1>6. [t EXCEPT ![i] = r] \in Seq(TrueRows) BY <1>1, <1>3, <1>4, SetRow
<1> QED BY <1>5, <1>6, TrimFacts

LEMMA HandleEventFacts ==
  ASSUME NEW s \in Seq(TrueRows), NEW e \in TrueEvents, Cardinality(Closed(s)) <= MaxDone
  PROVE  HandleEvent(s, e) \in Seq(TrueRows) /\ Cardinality(Closed(HandleEvent(s, e))) <= MaxDone
<1>1. e.id \in Orders /\ e.type \in {"new", "update", "finish"} /\ (e.type = "finish" => Done(e.id))
  BY DEF TrueEvents, EventType
<1>2. CASE e.type = "new"
  <2> DEFINE c == CapRows(s, EventCap)
             t == Append(c, Row(e.id))
  <2>1. HandleEvent(s, e) = OnNew(s, e.id) BY <1>2 DEF HandleEvent
  <2>2. OnNew(s, e.id) = s \/ OnNew(s, e.id) = t BY DEF OnNew
  <2>3. Row(e.id) \in TrueRows /\ ~Row(e.id).cancelled BY <1>1, RowIsTrue
  <2> HIDE DEF Row
  <2>4. t \in Seq(TrueRows) /\ Cardinality(Closed(t)) <= Cardinality(Closed(s))
    BY <2>3, Limits, AddRow
  <2>5. Cardinality(Closed(t)) \in Nat /\ Cardinality(Closed(s)) \in Nat BY <2>4, ClosedFacts
  <2> HIDE DEF t
  <2> QED BY <2>1, <2>2, <2>4, <2>5, Limits
<1>3. CASE e.type = "update"
  <2>1. HandleEvent(s, e) = WithRow(s, e.id) BY <1>3 DEF HandleEvent
  <2> QED BY <1>1, <2>1, WithRowFacts
<1>4. CASE e.type = "finish"
  <2>1. HandleEvent(s, e) = OnFinish(s, e.id) BY <1>4 DEF HandleEvent
  <2> QED BY <1>1, <1>4, <2>1, OnFinishFacts
<1> QED BY <1>1, <1>2, <1>3, <1>4

(***************************************************************************)
(* Polling                                                                 *)
(***************************************************************************)

LEMMA FetchedFacts ==
  ASSUME NEW s \in Seq(TrueRows), fetch.ids \subseteq Orders
  PROVE  Fetched(s) \in Seq(TrueRows)
<1> DEFINE M == Missing(s)
           new == [n \in DOMAIN M |-> Row(M[n])]
<1>1. M \in Seq(Orders)
  <2> DEFINE I == {o \in fetch.ids : RowsOf(s, o) = {}}
  <2>1. I \subseteq Orders OBVIOUS
  <2>2. IsFiniteSet(I) BY <2>1, OrdersAssumption, FS_Subset
  <2> HIDE DEF I
  <2>3. SetToSeq(I) \in Seq(I) BY <2>2, SetToSeqFacts
  <2>4. M = SetToSeq(I) BY DEF Missing, I
  <2> QED BY <2>1, <2>3, <2>4, SeqGrows
<1> HIDE DEF M
<1>2. \A o \in Orders : Row(o) \in TrueRows BY RowIsTrue
<1> HIDE DEF Row
<1>3. new \in Seq(TrueRows) BY <1>1, <1>2
<1> HIDE DEF new
<1>4. s \o new \in Seq(TrueRows) BY <1>3
<1>5. Fetched(s) = s \/ Fetched(s) = s \o new BY DEF Fetched, M, new
<1> QED BY <1>4, <1>5

LEMMA SweptFacts ==
  ASSUME NEW s \in Seq(TrueRows)
  PROVE  Swept(s) \in Seq(TrueRows)
<1> DEFINE sw(r) == IF r.cancelled THEN r
                    ELSE [r EXCEPT !.cancelled = TRUE, !.msg = "Cancelled", !.blind = TRUE]
           t == [i \in DOMAIN s |-> IF s[i].cancelled THEN s[i]
                   ELSE [s[i] EXCEPT !.cancelled = TRUE, !.msg = "Cancelled", !.blind = TRUE]]
<1>1. ASSUME NEW r \in TrueRows PROVE sw(r) \in TrueRows
  <2>1. CASE r.cancelled BY <2>1
  <2>2. CASE ~r.cancelled
    <3> DEFINE q == [r EXCEPT !.cancelled = TRUE, !.msg = "Cancelled", !.blind = TRUE]
    <3>1. r \in RowType /\ Truthful(r) BY DEF TrueRows
    <3>2. q \in RowType /\ q.blind /\ q.id = r.id /\ q.call = r.call BY <3>1 DEF RowType
    <3> HIDE DEF q
    <3>3. Truthful(q) BY <3>1, <3>2 DEF Truthful
    <3>4. q \in TrueRows BY <3>2, <3>3 DEF TrueRows
    <3> QED BY <2>2, <3>4 DEF q
  <2> QED BY <2>1, <2>2
<1>2. Len(s) \in Nat /\ DOMAIN s = 1 .. Len(s) /\ \A i \in DOMAIN s : s[i] \in TrueRows BY SeqFacts
<1>3. \A i \in DOMAIN s : (IF s[i].cancelled THEN s[i]
          ELSE [s[i] EXCEPT !.cancelled = TRUE, !.msg = "Cancelled", !.blind = TRUE]) \in TrueRows
  BY <1>1, <1>2
<1>4. t \in Seq(TrueRows)
  <2>1. t \in [DOMAIN s -> TrueRows] BY <1>3, Zenon
  <2> HIDE DEF t
  <2> QED BY <1>2, <2>1
<1> HIDE DEF t
<1>5. TrimHistory(t) \in Seq(TrueRows) BY <1>4, TrimFacts
<1>6. Swept(s) = s \/ Swept(s) = TrimHistory(t) BY DEF Swept, t
<1> QED BY <1>5, <1>6

\* The answer "ok" to a cancel is the exchange's word that the order is cancelled; a blank
\* one closes the row blindly.
LEMMA AnsweredFacts ==
  ASSUME NEW r \in TrueRows
  PROVE  Answered(r) \in TrueRows
<1>1. r \in RowType /\ Truthful(r) BY DEF TrueRows
<1>2. CASE r.call \in {"ok", "blank"}
  <2> DEFINE q == [r EXCEPT !.call = "none", !.cancelled = TRUE, !.msg = "Cancelled",
                            !.blind = @ \/ r.call = "blank"]
  <2>1. Answered(r) = q BY <1>2 DEF Answered
  <2>2. /\ q \in RowType /\ q.id = r.id /\ q.call = "none" /\ q.msg = "Cancelled"
        /\ r.call = "blank" => q.blind
    BY <1>1 DEF RowType, Calls
  <2>3. r.call = "ok" => ord[r.id] = "cancelled" BY <1>1 DEF Truthful
  <2> HIDE DEF q
  <2>4. Truthful(q) BY <1>2, <2>2, <2>3 DEF Truthful, Done
  <2> QED BY <2>1, <2>2, <2>4 DEF TrueRows
<1>3. CASE r.call = "fail"
  <2> DEFINE q == [r EXCEPT !.call = "none", !.msg = "Error"]
  <2>1. Answered(r) = q BY <1>3 DEF Answered
  <2>2. /\ q \in RowType /\ q.id = r.id /\ q.call = "none" /\ q.msg = "Error"
        /\ q.blind = r.blind /\ q.cancelled = r.cancelled
    BY <1>1 DEF RowType, Calls
  <2> HIDE DEF q
  <2>3. Truthful(q) BY <1>1, <2>2 DEF Truthful
  <2> QED BY <2>1, <2>2, <2>3 DEF TrueRows
<1>4. CASE r.call \notin {"ok", "blank", "fail"} BY <1>4 DEF Answered
<1> QED BY <1>2, <1>3, <1>4

(***************************************************************************)
(* The render thread                                                       *)
(***************************************************************************)

USE DEF panel, exchange

LEMMA NoRows == \A S : <<>> \in Seq(S) /\ Cardinality(Closed(<<>>)) <= MaxDone
<1>1. Closed(<<>>) = {} BY DEF Closed
<1> QED BY <1>1, Limits, FS_EmptySet

LEMMA InitIInv == Init => IInv
<1> SUFFICES ASSUME Init PROVE IInv OBVIOUS
<1>1. rows \in Seq(TrueRows) /\ events \in Seq(TrueEvents) BY DEF Init
<1>2. rows \in Seq(RowType) /\ events \in Seq(EventType) BY <1>1, TypesFollow
<1>3. Cardinality(Closed(rows)) <= MaxDone BY NoRows DEF Init
<1>4. TypeOK BY <1>2, <1>3 DEF TypeOK, Init, NoPlace, NoFetch, Calls, EventType
<1>5. PlacedOnce BY DEF PlacedOnce, Init, NoPlace
<1> QED BY <1>1, <1>4, <1>5 DEF IInv

\* What is left to show of a step that leaves the orders at the exchange alone.
LEMMA PanelStep ==
  ASSUME IInv, ord' = ord, stream' = stream,
         phase' \in {"drain", "bar", "reset", "form", "button", "orders", "tabs"},
         rows' \in Seq(TrueRows), Cardinality(Closed(rows')) <= MaxDone,
         events' \in Seq(TrueEvents),
         place' \in [st : Calls, id : Own \cup {NoOrder}],
         place'.st # "none" => place'.id \in Own,
         place'.st = "sent" => ord[place'.id] = "none",
         fetch' \in [st : {"none", "sent", "ok"}, ids : SUBSET Orders],
         sweep' \in Calls
  PROVE  IInv'
<1>1. TrueRows' = TrueRows /\ TrueEvents' = TrueEvents BY SameTruth
<1>2. rows' \in Seq(RowType) /\ events' \in Seq(EventType) BY TypesFollow
<1>3. TypeOK' BY <1>2 DEF TypeOK, IInv, EventType
<1>4. PlacedOnce' BY DEF PlacedOnce
<1> QED BY <1>1, <1>3, <1>4 DEF IInv

\* What a step finds.
LEMMA Found ==
  ASSUME IInv
  PROVE  /\ rows \in Seq(TrueRows) /\ Cardinality(Closed(rows)) <= MaxDone
         /\ events \in Seq(TrueEvents) /\ stream \in BOOLEAN
         /\ phase \in {"drain", "bar", "reset", "form", "button", "orders", "tabs"}
         /\ place \in [st : Calls, id : Own \cup {NoOrder}]
         /\ place.st # "none" => place.id \in Own
         /\ place.st = "sent" => ord[place.id] = "none"
         /\ fetch \in [st : {"none", "sent", "ok"}, ids : SUBSET Orders]
         /\ sweep \in Calls
BY DEF IInv, TypeOK, PlacedOnce

LEMMA DrainStep == IInv /\ Drain => IInv'
<1> SUFFICES ASSUME IInv, Drain PROVE IInv' OBVIOUS
<1> USE Found
<1>1. Head(events) \in TrueEvents /\ Tail(events) \in Seq(TrueEvents) BY HeadAndTail DEF Drain
<1>2. rows' = HandleEvent(rows, Head(events)) /\ events' = Tail(events) BY DEF Drain
<1>3. rows' \in Seq(TrueRows) /\ Cardinality(Closed(rows')) <= MaxDone
  BY <1>1, <1>2, HandleEventFacts
<1> HIDE DEF HandleEvent
<1> QED BY <1>1, <1>2, <1>3, PanelStep DEF Drain

LEMMA LeaveStep ==
  IInv /\ (LeaveDrain \/ LeaveBar \/ LeaveForm \/ ApplyAll \/ ClickCancelAll \/ EndFrame) => IInv'
<1> SUFFICES ASSUME IInv,
                    LeaveDrain \/ LeaveBar \/ LeaveForm \/ ApplyAll \/ ClickCancelAll \/ EndFrame
             PROVE  IInv'
  OBVIOUS
<1> USE Found
<1>1. CASE LeaveDrain \/ LeaveBar \/ LeaveForm \/ ApplyAll \/ EndFrame
  BY <1>1, PanelStep DEF LeaveDrain, LeaveBar, LeaveForm, ApplyAll, EndFrame
<1>2. CASE ClickCancelAll BY <1>2, PanelStep DEF ClickCancelAll, Calls
<1> QED BY <1>1, <1>2

LEMMA ResetFormStep == IInv /\ ResetForm => IInv'
<1> SUFFICES ASSUME IInv, ResetForm PROVE IInv' OBVIOUS
<1> USE Found
<1>1. rows' \in Seq(TrueRows) /\ Cardinality(Closed(rows')) <= MaxDone BY NoRows DEF ResetForm
<1> QED BY <1>1, PanelStep DEF ResetForm, NoPlace, NoFetch, Calls

LEMMA PollPlaceStep == IInv /\ PollPlace => IInv'
<1> SUFFICES ASSUME IInv, PollPlace PROVE IInv' OBVIOUS
<1> USE Found
<1> DEFINE t == Append(CapRows(rows, PlaceCap), Row(place.id))
<1>1. rows' \in Seq(TrueRows) /\ Cardinality(Closed(rows')) <= MaxDone
  <2>1. CASE place.st = "ok"
    <3>1. rows' = t BY <2>1 DEF PollPlace
    <3>2. Row(place.id) \in TrueRows /\ ~Row(place.id).cancelled BY <2>1, RowIsTrue DEF Orders
    <3>3. t \in Seq(TrueRows) /\ Cardinality(Closed(t)) <= Cardinality(Closed(rows))
      BY <3>2, Limits, AddRow
    <3>4. Cardinality(Closed(t)) \in Nat /\ Cardinality(Closed(rows)) \in Nat BY <3>3, ClosedFacts
    <3> HIDE DEF t
    <3> QED BY <3>1, <3>3, <3>4, Limits
  <2>2. CASE place.st # "ok" BY <2>2 DEF PollPlace
  <2> QED BY <2>1, <2>2
<1>2. place' = place \/ place' = NoPlace BY DEF PollPlace
<1>3. NoPlace \in [st : Calls, id : Own \cup {NoOrder}] /\ NoPlace.st = "none" BY DEF NoPlace, Calls
<1> HIDE DEF NoPlace
<1> QED BY <1>1, <1>2, <1>3, PanelStep DEF PollPlace

LEMMA ClickPlaceStep == \A o \in Own : IInv /\ ClickPlace(o) => IInv'
<1> SUFFICES ASSUME NEW o \in Own, IInv, ClickPlace(o) PROVE IInv' OBVIOUS
<1> USE Found
<1>1. place' \in [st : Calls, id : Own \cup {NoOrder}] /\ place'.id = o /\ ord[o] = "none"
  BY DEF ClickPlace, Calls
<1> QED BY <1>1, PanelStep DEF ClickPlace

LEMMA PollOrdersStep == IInv /\ PollOrders => IInv'
<1> SUFFICES ASSUME IInv, PollOrders PROVE IInv' OBVIOUS
<1> USE Found
<1> DEFINE shown == Swept(Fetched(rows))
           t == [i \in DOMAIN shown |-> Answered(shown[i])]
<1>1. Fetched(rows) \in Seq(TrueRows) BY FetchedFacts
<1>2. shown \in Seq(TrueRows) BY <1>1, SweptFacts
<1>3. rows' = TrimHistory(t) BY DEF PollOrders
<1> HIDE DEF shown
<1>4. t \in Seq(TrueRows)
  <2>1. Len(shown) \in Nat /\ DOMAIN shown = 1 .. Len(shown) BY <1>2, SeqFacts
  <2>2. \A i \in 1 .. Len(shown) : Answered(shown[i]) \in TrueRows
    BY <1>2, <2>1, SeqFacts, AnsweredFacts
  <2> HIDE DEF Answered
  <2> QED BY <2>1, <2>2
<1> HIDE DEF t
<1>5. rows' \in Seq(TrueRows) /\ Cardinality(Closed(rows')) <= MaxDone BY <1>3, <1>4, TrimFacts
<1>6. /\ fetch' \in [st : {"none", "sent", "ok"}, ids : SUBSET Orders] /\ sweep' \in Calls
      /\ phase' = "tabs" /\ UNCHANGED <<place, exchange>>
  BY DEF PollOrders, NoFetch, Calls
<1> QED BY <1>5, <1>6, PanelStep

LEMMA ClickCancelStep == \A i \in DOMAIN rows : IInv /\ ClickCancel(i) => IInv'
<1> SUFFICES ASSUME NEW i \in DOMAIN rows, IInv, ClickCancel(i) PROVE IInv' OBVIOUS
<1> DEFINE r == [rows[i] EXCEPT !.call = "sent"]
<1>1. rows \in Seq(TrueRows) /\ rows[i] \in TrueRows BY Found, SeqFacts
<1>2. r \in TrueRows /\ r.cancelled = rows[i].cancelled BY <1>1, CallSet DEF Calls
<1>3. rows' = [rows EXCEPT ![i] = r] BY DEF ClickCancel
<1> HIDE DEF r
<1>4. [rows EXCEPT ![i] = r] \in Seq(TrueRows) /\ Closed([rows EXCEPT ![i] = r]) = Closed(rows)
  BY <1>1, <1>2, SetRow
<1> QED BY <1>3, <1>4, Found, PanelStep DEF ClickCancel

LEMMA ClearHistoryStep == IInv /\ ClearHistory => IInv'
<1> SUFFICES ASSUME IInv, ClearHistory PROVE IInv' OBVIOUS
<1> USE Found
<1>1. rows' = Kept(rows, Open(rows)) BY DEF ClearHistory
<1>2. Open(rows) \subseteq DOMAIN rows /\ Open(rows) \cap Closed(rows) = {} BY DEF Open
<1>3. rows' \in Seq(TrueRows) BY <1>1, <1>2, KeptFacts
<1>4. Cardinality(Closed(rows')) <= Cardinality({})
  <2>1. Cardinality(Closed(Kept(rows, Open(rows)))) <= Cardinality(Open(rows) \cap Closed(rows))
    BY <1>2, KeptClosed
  <2> HIDE DEF Kept, Open
  <2> QED BY <1>1, <1>2, <2>1
<1>5. Cardinality(Closed(rows')) \in Nat BY <1>3, ClosedFacts
<1>6. Cardinality(Closed(rows')) <= MaxDone BY <1>4, <1>5, Limits, FS_EmptySet
<1> QED BY <1>3, <1>6, PanelStep DEF ClearHistory

(***************************************************************************)
(* The exchange                                                            *)
(***************************************************************************)

\* A row whose order has just been cancelled for it.
LEMMA CancelledRow ==
  ASSUME NEW r \in TrueRows, ~Done(r.id), ord'[r.id] = "cancelled",
         NEW q, q = [r EXCEPT !.call = "acted"]
  PROVE  q \in TrueRows' /\ q.cancelled = r.cancelled
<1>1. r \in RowType /\ Truthful(r) BY DEF TrueRows
<1>2. /\ q \in RowType /\ q.call = "acted" /\ q.id = r.id
      /\ q.cancelled = r.cancelled /\ q.msg = r.msg /\ q.blind = r.blind
  BY <1>1 DEF RowType, Calls
<1>3. q.cancelled => q.blind BY <1>1, <1>2 DEF Truthful
<1>4. Truthful(q)' BY <1>2, <1>3 DEF Truthful
<1> QED BY <1>2, <1>4 DEF TrueRows

\* What is left to show of a step of the exchange: no order that is over changes, and
\* what it emits is true afterwards.
LEMMA EmitFacts ==
  ASSUME IInv, \A o \in Orders : Done(o) => ord'[o] = ord[o],
         NEW es \in Seq(TrueEvents'), Emit(es)
  PROVE  events' \in Seq(TrueEvents')
<1>1. events \in Seq(TrueEvents) /\ TrueEvents \subseteq TrueEvents' BY Found, TruthStays
<1>2. events \in Seq(TrueEvents') BY <1>1, SeqGrows
<1>3. events \o es \in Seq(TrueEvents') BY <1>2, ConcatFacts
<1>4. events' = events \/ events' = events \o es BY DEF Emit
<1> QED BY <1>2, <1>3, <1>4

LEMMA ExchangeStep ==
  ASSUME IInv, \A o \in Orders : Done(o) => ord'[o] = ord[o],
         ord' \in [Orders -> {"none", "live", "part", "filled", "cancelled"}],
         UNCHANGED <<phase, fetch, stream>>,
         rows' \in Seq(TrueRows'), Closed(rows') = Closed(rows),
         events' \in Seq(TrueEvents'),
         place' \in [st : Calls, id : Own \cup {NoOrder}], PlacedOnce',
         sweep' \in Calls
  PROVE  IInv'
<1>1. TrueRows' \subseteq RowType /\ TrueEvents' \subseteq EventType BY DEF TrueRows, TrueEvents
<1>2. rows' \in Seq(RowType) /\ events' \in Seq(EventType) BY <1>1, SeqGrows
<1>3. Cardinality(Closed(rows')) <= MaxDone BY Found
<1>4. TypeOK' BY <1>2, <1>3, Found DEF TypeOK, EventType
<1> QED BY <1>4 DEF IInv

\* A step that takes an order from alive to its next state.
LEMMA MoveOrder ==
  ASSUME IInv, NEW o \in Orders, ~Done(o),
         NEW v \in {"none", "live", "part", "filled", "cancelled"},
         ord' = [ord EXCEPT ![o] = v]
  PROVE  /\ ord' \in [Orders -> {"none", "live", "part", "filled", "cancelled"}]
         /\ \A p \in Orders : Done(p) => ord'[p] = ord[p]
         /\ ord'[o] = v /\ \A p \in Orders : p # o => ord'[p] = ord[p]
<1>1. ord \in [Orders -> {"none", "live", "part", "filled", "cancelled"}] BY DEF IInv, TypeOK
<1>2. ord' \in [Orders -> {"none", "live", "part", "filled", "cancelled"}] BY <1>1
<1>3. ord'[o] = v /\ \A p \in Orders : p # o => ord'[p] = ord[p] BY <1>1
<1>4. \A p \in Orders : Done(p) => ord'[p] = ord[p] BY <1>3
<1> QED BY <1>2, <1>3, <1>4

\* The event of an order that the exchange has put into the state it tells.
LEMMA OneEvent ==
  ASSUME NEW o \in Orders, NEW type \in {"new", "update", "finish"},
         type = "finish" => ord'[o] \in {"filled", "cancelled"}
  PROVE  <<Event(type, o)>> \in Seq(TrueEvents')
<1>1. Event(type, o) \in TrueEvents' BY DEF TrueEvents, EventType, Event, Done
<1> QED BY <1>1

LEMMA SameRows ==
  ASSUME IInv, \A o \in Orders : Done(o) => ord'[o] = ord[o], rows' = rows
  PROVE  rows' \in Seq(TrueRows') /\ Closed(rows') = Closed(rows)
<1>1. rows \in Seq(TrueRows) /\ TrueRows \subseteq TrueRows' BY Found, TruthStays
<1> QED BY <1>1, SeqGrows

LEMMA AcceptFacts ==
  ASSUME IInv, NEW o \in Orders, ord[o] = "none", Accept(o),
         place' \in [st : Calls, id : Own \cup {NoOrder}], PlacedOnce', sweep' = sweep
  PROVE  IInv'
<1>1. ord' = [ord EXCEPT ![o] = "live"] /\ ~Done(o) BY DEF Accept, Done
<1>2. /\ ord' \in [Orders -> {"none", "live", "part", "filled", "cancelled"}]
      /\ \A p \in Orders : Done(p) => ord'[p] = ord[p]
  BY <1>1, MoveOrder
<1>3. events' \in Seq(TrueEvents')
  <2>1. PICK es \in {<<>>, <<Event("new", o)>>} : Emit(es) BY DEF Accept
  <2>2. <<>> \in Seq(TrueEvents') /\ <<Event("new", o)>> \in Seq(TrueEvents') BY OneEvent
  <2>3. es \in Seq(TrueEvents') BY <2>2
  <2> QED BY <1>2, <2>1, <2>3, EmitFacts
<1>4. rows' \in Seq(TrueRows') /\ Closed(rows') = Closed(rows) BY <1>2, SameRows DEF Accept
<1> QED BY <1>2, <1>3, <1>4, Found, ExchangeStep DEF Accept

LEMMA PlaceActedStep == IInv /\ PlaceActed => IInv'
<1> SUFFICES ASSUME IInv, PlaceActed PROVE IInv' OBVIOUS
<1>1. place.st = "sent" /\ place.id \in Own /\ ord[place.id] = "none" BY Found DEF PlaceActed
<1>2. place' \in [st : Calls, id : Own \cup {NoOrder}] /\ place'.st = "acted" /\ place'.id = place.id
  BY Found DEF PlaceActed, Calls
<1>3. PlacedOnce' BY <1>1, <1>2 DEF PlacedOnce
<1> QED BY <1>1, <1>2, <1>3, AcceptFacts DEF PlaceActed, Accept, Orders

\* Nobody else's order is the one being placed.
LEMMA PlacedElsewhereStep == \A o \in Others : IInv /\ PlacedElsewhere(o) => IInv'
<1> SUFFICES ASSUME NEW o \in Others, IInv, PlacedElsewhere(o) PROVE IInv' OBVIOUS
<1>1. ord[o] = "none" /\ Accept(o) /\ place' = place /\ o \in Orders BY DEF PlacedElsewhere, Orders
<1>2. ord' = [ord EXCEPT ![o] = "live"] /\ ~Done(o) BY <1>1 DEF Accept, Done
<1>3. \A p \in Orders : p # o => ord'[p] = ord[p] BY <1>1, <1>2, MoveOrder
<1>4. PlacedOnce' BY <1>1, <1>3, Found, OrdersAssumption DEF PlacedOnce, Orders
<1> QED BY <1>1, <1>4, Found, AcceptFacts DEF Accept

LEMMA AnswerStep == IInv /\ (PlaceAnswered \/ FetchAnswered \/ CancelAllAnswered) => IInv'
<1> SUFFICES ASSUME IInv, PlaceAnswered \/ FetchAnswered \/ CancelAllAnswered PROVE IInv' OBVIOUS
<1> USE Found
<1>1. CASE PlaceAnswered
  <2>1. /\ place' \in [st : Calls, id : Own \cup {NoOrder}] /\ place'.st \in {"ok", "blank", "fail"}
        /\ place'.id = place.id /\ place.st # "none"
    BY <1>1 DEF PlaceAnswered, Calls, InFlight
  <2> QED BY <1>1, <2>1, PanelStep DEF PlaceAnswered
<1>2. CASE FetchAnswered
  <2>1. fetch' \in [st : {"none", "sent", "ok"}, ids : SUBSET Orders]
    BY <1>2 DEF FetchAnswered, LiveOrders
  <2> QED BY <1>2, <2>1, PanelStep DEF FetchAnswered
<1>3. CASE CancelAllAnswered BY <1>3, PanelStep DEF CancelAllAnswered, Calls
<1> QED BY <1>1, <1>2, <1>3

\* The exchange cancels the order and then says so.
LEMMA CancelActedStep == \A i \in DOMAIN rows : IInv /\ CancelActed(i) => IInv'
<1> SUFFICES ASSUME NEW i \in DOMAIN rows, IInv, CancelActed(i) PROVE IInv' OBVIOUS
<1>0. PICK o : o = rows[i].id OBVIOUS
<1>1. rows \in Seq(TrueRows) /\ rows[i] \in TrueRows BY Found, SeqFacts
<1>2. o \in Orders BY <1>0, <1>1 DEF TrueRows, RowType
<1>3. ~Done(o) /\ ord' = [ord EXCEPT ![o] = "cancelled"] BY <1>0 DEF CancelActed, Live, Done
<1>4. PICK r : r = [rows[i] EXCEPT !.call = "acted"] OBVIOUS
<1>5. rows' = [rows EXCEPT ![i] = r] BY <1>4 DEF CancelActed
<1>6. Emit(<<Event("finish", o)>>) BY <1>0 DEF CancelActed
<1>7. /\ ord' \in [Orders -> {"none", "live", "part", "filled", "cancelled"}]
      /\ \A p \in Orders : Done(p) => ord'[p] = ord[p]
      /\ ord'[o] = "cancelled" /\ \A p \in Orders : p # o => ord'[p] = ord[p]
  BY <1>2, <1>3, MoveOrder
<1>8. rows' \in Seq(TrueRows') /\ Closed(rows') = Closed(rows)
  <2>1. TrueRows \subseteq TrueRows' BY <1>7, TruthStays
  <2>2. rows \in Seq(TrueRows') /\ rows[i] \in TrueRows' BY <1>1, <2>1, SeqGrows
  <2>3. r \in TrueRows' /\ r.cancelled = rows[i].cancelled
    BY <1>0, <1>1, <1>3, <1>4, <1>7, CancelledRow
  <2>4. [rows EXCEPT ![i] = r] \in Seq(TrueRows') /\ Closed([rows EXCEPT ![i] = r]) = Closed(rows)
    BY <2>2, <2>3, SetRow
  <2> QED BY <1>5, <2>4
<1>9. events' \in Seq(TrueEvents')
  <2>1. <<Event("finish", o)>> \in Seq(TrueEvents') BY <1>2, <1>7, OneEvent
  <2> QED BY <1>6, <1>7, <2>1, EmitFacts
<1>10. PlacedOnce' BY <1>3, <1>7, Found DEF PlacedOnce, CancelActed, Live, Orders
<1> QED BY <1>7, <1>8, <1>9, <1>10, Found, ExchangeStep DEF CancelActed

LEMMA CancelAnsweredStep == \A i \in DOMAIN rows : IInv /\ CancelAnswered(i) => IInv'
<1> SUFFICES ASSUME NEW i \in DOMAIN rows, IInv, CancelAnswered(i) PROVE IInv' OBVIOUS
<1>1. rows \in Seq(TrueRows) /\ rows[i] \in TrueRows BY Found, SeqFacts
<1>2. PICK c \in {"ok", "blank", "fail"} :
        rows' = [rows EXCEPT ![i].call = c] /\ (c = "ok" => rows[i].call = "acted")
  BY DEF CancelAnswered
<1> DEFINE r == [rows[i] EXCEPT !.call = c]
<1>3. c = "ok" => ord[rows[i].id] = "cancelled" BY <1>1, <1>2 DEF TrueRows, Truthful
<1>4. r \in TrueRows /\ r.cancelled = rows[i].cancelled BY <1>1, <1>3, CallSet DEF Calls
<1>5. rows' = [rows EXCEPT ![i] = r] BY <1>2
<1> HIDE DEF r
<1>6. [rows EXCEPT ![i] = r] \in Seq(TrueRows) /\ Closed([rows EXCEPT ![i] = r]) = Closed(rows)
  BY <1>1, <1>4, SetRow
<1> QED BY <1>5, <1>6, Found, PanelStep DEF CancelAnswered

LEMMA CancelAllActedStep == IInv /\ CancelAllActed => IInv'
<1> SUFFICES ASSUME IInv, CancelAllActed PROVE IInv' OBVIOUS
<1> DEFINE live == SetToSeq(LiveOrders)
           es == [n \in DOMAIN live |-> Event("finish", live[n])]
<1>1. ord' = [o \in Orders |-> IF Live(o) THEN "cancelled" ELSE ord[o]] /\ Emit(es)
  BY DEF CancelAllActed
<1>2. ord \in [Orders -> {"none", "live", "part", "filled", "cancelled"}] BY DEF IInv, TypeOK
<1>3. /\ ord' \in [Orders -> {"none", "live", "part", "filled", "cancelled"}]
      /\ \A p \in Orders : Done(p) => ord'[p] = ord[p]
      /\ \A p \in LiveOrders : ord'[p] = "cancelled"
      /\ \A p \in Orders : ord[p] = "none" => ord'[p] = "none"
  BY <1>1, <1>2 DEF Done, Live, LiveOrders
<1>4. live \in Seq(LiveOrders)
  <2>1. IsFiniteSet(LiveOrders) BY OrdersAssumption, FS_Subset DEF LiveOrders
  <2> HIDE DEF LiveOrders
  <2> QED BY <2>1, SetToSeqFacts
<1>5. \A p \in LiveOrders : Event("finish", p) \in TrueEvents'
  BY <1>3 DEF LiveOrders, TrueEvents, EventType, Event, Done
<1> HIDE DEF live
<1>6. es \in Seq(TrueEvents')
  <2>1. Len(live) \in Nat /\ DOMAIN live = 1 .. Len(live)
      /\ \A n \in DOMAIN live : live[n] \in LiveOrders
    BY <1>4, SeqFacts
  <2>2. \A n \in 1 .. Len(live) : Event("finish", live[n]) \in TrueEvents' BY <1>5, <2>1
  <2> HIDE DEF Event, TrueEvents
  <2> QED BY <2>1, <2>2
<1> HIDE DEF es
<1>7. events' \in Seq(TrueEvents') BY <1>1, <1>3, <1>6, EmitFacts
<1>8. rows' \in Seq(TrueRows') /\ Closed(rows') = Closed(rows) BY <1>3, SameRows DEF CancelAllActed
<1>9. PlacedOnce' BY <1>3, Found DEF PlacedOnce, CancelAllActed, Orders
<1>10. sweep' \in Calls /\ place' = place /\ UNCHANGED <<phase, fetch, stream>>
  BY DEF CancelAllActed, Calls
<1> QED BY <1>3, <1>7, <1>8, <1>9, <1>10, Found, ExchangeStep

LEMMA FillStep == \A o \in Orders : IInv /\ (FillPart(o) \/ Fill(o)) => IInv'
<1> SUFFICES ASSUME NEW o \in Orders, IInv, FillPart(o) \/ Fill(o) PROVE IInv' OBVIOUS
<1>1. PICK v \in {"part", "filled"}, type \in {"update", "finish"} :
        /\ ord' = [ord EXCEPT ![o] = v] /\ Emit(<<Event(type, o)>>)
        /\ type = "finish" => v = "filled"
  BY DEF FillPart, Fill
<1>2. Live(o) /\ ~Done(o) /\ UNCHANGED <<phase, panel, stream>> BY DEF FillPart, Fill, Live, Done
<1>3. /\ ord' \in [Orders -> {"none", "live", "part", "filled", "cancelled"}]
      /\ \A p \in Orders : Done(p) => ord'[p] = ord[p]
      /\ ord'[o] = v /\ \A p \in Orders : p # o => ord'[p] = ord[p]
  BY <1>1, <1>2, MoveOrder
<1>4. events' \in Seq(TrueEvents')
  <2>1. <<Event(type, o)>> \in Seq(TrueEvents') BY <1>1, <1>3, OneEvent
  <2> QED BY <1>1, <1>3, <2>1, EmitFacts
<1>5. rows' \in Seq(TrueRows') /\ Closed(rows') = Closed(rows) BY <1>2, <1>3, SameRows
<1>6. PlacedOnce' BY <1>2, <1>3, Found DEF PlacedOnce, Live, Orders
<1> QED BY <1>2, <1>3, <1>4, <1>5, <1>6, Found, ExchangeStep

LEMMA StreamClosesStep == IInv /\ StreamCloses => IInv'
<1> SUFFICES ASSUME IInv, StreamCloses PROVE IInv' OBVIOUS
<1>1. TrueRows' = TrueRows BY SameTruth DEF StreamCloses
<1>2. TypeOK'
  <2>1. events' \in Seq(EventType) BY DEF StreamCloses
  <2>2. rows' = rows /\ stream' = FALSE /\ UNCHANGED <<phase, place, fetch, sweep, ord>>
    BY DEF StreamCloses
  <2> QED BY <2>1, <2>2 DEF TypeOK, IInv, EventType
<1>3. PlacedOnce' BY DEF PlacedOnce, IInv, StreamCloses
<1>4. rows' \in Seq(TrueRows') /\ events' \in Seq(TrueEvents') BY <1>1, Found DEF StreamCloses
<1> QED BY <1>2, <1>3, <1>4 DEF IInv

LEMMA StutterStep == IInv /\ UNCHANGED vars => IInv'
<1> SUFFICES ASSUME IInv, UNCHANGED vars PROVE IInv' OBVIOUS
<1> QED BY Found, PanelStep DEF vars

LEMMA NextIInv == IInv /\ [Next]_vars => IInv'
<1> SUFFICES ASSUME IInv, [Next]_vars PROVE IInv' OBVIOUS
<1>1. CASE Frame
  BY <1>1, DrainStep, LeaveStep, ResetFormStep, PollPlaceStep, ClickPlaceStep, PollOrdersStep,
     ClickCancelStep, ClearHistoryStep DEF Frame
<1>2. CASE PlaceActed \/ PlaceAnswered \/ FetchAnswered \/ CancelAllActed \/ CancelAllAnswered
  BY <1>2, PlaceActedStep, AnswerStep, CancelAllActedStep
<1>3. CASE \E i \in DOMAIN rows : CancelActed(i) \/ CancelAnswered(i)
  BY <1>3, CancelActedStep, CancelAnsweredStep
<1>4. CASE \E o \in Orders : FillPart(o) \/ Fill(o) BY <1>4, FillStep
<1>5. CASE \E o \in Others : PlacedElsewhere(o) BY <1>5, PlacedElsewhereStep
<1>6. CASE StreamCloses BY <1>6, StreamClosesStep
<1>7. CASE UNCHANGED vars BY <1>7, StutterStep
<1> QED BY <1>1, <1>2, <1>3, <1>4, <1>5, <1>6, <1>7 DEF Next

(***************************************************************************)
(* The theorems about OrderPanel                                           *)
(***************************************************************************)

\* IInv holds in every state of an exchange panel, however many orders there are, own or
\* from elsewhere, and whatever the limits on its rows.
THEOREM Invariance == Spec => []IInv
<1> QED BY InitIInv, NextIInv, PTL DEF Spec

\* Every variable of the panel and of the exchange has its type, and History never holds
\* more than MaxDone rows (trim_history, ui/render.cpp), whichever of the event loop, the
\* answers to cancels and the answer to a cancel-all closes them.
THEOREM PanelTypeCorrect == Spec => []TypeOK
<1>1. IInv => TypeOK BY DEF IInv
<1> QED BY <1>1, Invariance, PTL

\* A row in History that no cancel-all and no blank answer has closed is of an order that
\* is over, and names no other end than the order's: it says Filled or Cancelled when that
\* is so, or the error of a cancel that failed afterwards (the event loop and
\* draw_open_orders, ui/render.cpp), whatever is capped, trimmed, fetched or cleared
\* between the requests and their answers.
THEOREM HistoryIsTrue == Spec => []HistoryTellsTruth
<1>1. ASSUME IInv PROVE HistoryTellsTruth
  <2> SUFFICES ASSUME NEW i \in Closed(rows), ~rows[i].blind
               PROVE  /\ Done(rows[i].id)
                      /\ \/ rows[i].msg = "Filled"    /\ ord[rows[i].id] = "filled"
                         \/ rows[i].msg = "Cancelled" /\ ord[rows[i].id] = "cancelled"
                         \/ rows[i].msg = "Error"
    BY DEF HistoryTellsTruth
  <2>1. rows \in Seq(TrueRows) /\ i \in DOMAIN rows /\ rows[i].cancelled BY <1>1, Found DEF Closed
  <2>2. rows[i] \in TrueRows BY <2>1, SeqFacts
  <2> QED BY <2>1, <2>2 DEF TrueRows, Truthful
<1> QED BY <1>1, Invariance, PTL

(***************************************************************************)
(* The inductive invariant of OrderStream                                  *)
(***************************************************************************)

\* Who runs when.  on_fail lowers running while main is rendering.
Lifecycle ==
    /\ running => main = "rendering" /\ renew \in {"sleeping", "putting"}
    /\ ws \in {"connecting", "open"} => running
    /\ main = "starting" => ws = "none" /\ renew = "none"
    /\ main = "joining" => renew # "none"

\* What the renew thread leaves behind on its way round.
Round ==
    /\ renew = "putting" => ticks = 0 /\ late = 0 /\ ~slept
    /\ renew # "putting" => put = 0 /\ ~reached

Elapsed == ticks + late + (IF slept THEN 1 ELSE 0)

\* The age of the key is known from the place in the period: the key was renewed at some
\* moment of the last PUT, so up to PutMax before the period began.
AgeOfKey ==
    running /\ ~missed =>
        /\ renew = "sleeping" => key <= PutMax + Elapsed
        /\ renew = "putting" /\ reached => key <= put
        /\ renew = "putting" /\ ~reached => key <= PutMax + RenewTicks + LateMax + put

\* A ping is always due before the connection has been idle for longer than a period.
PingDue == ws = "open" => timer \in 0 .. PingEvery /\ idle + timer <= PingEvery

\* stop() finds the renew thread in a sleep or in a PUT, and waits for the rest of it.
Waiting ==
    /\ main \in {"starting", "rendering"} => waited = 0
    /\ main = "joining" /\ renew = "sleeping" => waited <= late + (IF slept THEN 1 ELSE 0)
    /\ main = "joining" /\ renew = "putting" => waited <= put
    /\ StopWaitsShort

StreamIInv == StreamTypeOK /\ Lifecycle /\ Round /\ AgeOfKey /\ PingDue /\ Waiting

LEMMA NumbersAreNatural ==
    /\ RenewTicks \in Nat /\ PingEvery \in Nat /\ KeyLife \in Nat
    /\ IdleLimit \in Nat /\ PutMax \in Nat /\ LateMax \in Nat
    /\ RenewTicks > 0 /\ PutMax > 0 /\ LateMax > 0 /\ KeyLife > 0
    /\ PingEvery < IdleLimit /\ None \notin Nat
    /\ RenewTicks + LateMax + 2 * PutMax < KeyLife
BY StreamAssumption

LEMMA OneMore ==
    ASSUME NEW x \in Nat, NEW y \in Nat, x <= y + 1, y <= LateMax PROVE x <= 1 + LateMax
BY NumbersAreNatural

LEMMA StreamInitIInv == StreamInit => StreamIInv
<1> SUFFICES ASSUME StreamInit PROVE StreamIInv OBVIOUS
<1> USE NumbersAreNatural DEF StreamInit
<1>1. StreamTypeOK
  <2>1. idle \in 0 .. IdleLimit /\ late \in 0 .. LateMax /\ put \in 0 .. PutMax
    OBVIOUS
  <2>2. ticks \in 0 .. RenewTicks - 1 /\ key \in 0 .. KeyLife /\ waited \in Nat
    OBVIOUS
  <2> QED BY <2>1, <2>2 DEF StreamTypeOK
<1>2. Lifecycle /\ Round /\ AgeOfKey /\ PingDue BY DEF Lifecycle, Round, AgeOfKey, Elapsed, PingDue
<1>3. Waiting BY DEF Waiting, StopWaitsShort
<1> QED BY <1>1, <1>2, <1>3 DEF StreamIInv

(***************************************************************************)
(* OrderStream: one lemma per action, one step per conjunct                *)
(***************************************************************************)

USE DEF conn, sleep, keys

LEMMA StartStep == StreamIInv /\ Start => StreamIInv'
<1> SUFFICES ASSUME StreamIInv, Start PROVE StreamIInv' OBVIOUS
<1> USE NumbersAreNatural DEF StreamIInv
<1>1. StreamTypeOK'
  <2>1. running' \in BOOLEAN /\ ws' \in {"none", "connecting"} /\ renew' \in {"none", "sleeping"}
    BY DEF StreamTypeOK, Lifecycle, Start
  <2>2. main' = "rendering" /\ key' \in 0 .. KeyLife BY DEF Start
  <2> QED BY <2>1, <2>2 DEF StreamTypeOK, Start
<1>2. Lifecycle'  BY DEF StreamTypeOK, Lifecycle, Start
<1>3. Round'      BY DEF StreamTypeOK, Lifecycle, Round, Start
<1>4. AgeOfKey'   BY DEF StreamTypeOK, Lifecycle, Round, AgeOfKey, Elapsed, Start
<1>5. PingDue'    BY DEF StreamTypeOK, Lifecycle, PingDue, Start
<1>6. Waiting'    BY DEF StreamTypeOK, Lifecycle, Round, Waiting, StopWaitsShort, Start
<1> QED BY <1>1, <1>2, <1>3, <1>4, <1>5, <1>6

LEMMA StopStep == StreamIInv /\ Stop => StreamIInv'
<1> SUFFICES ASSUME StreamIInv, Stop PROVE StreamIInv' OBVIOUS
<1> USE NumbersAreNatural DEF StreamIInv
<1>1. StreamTypeOK'     BY DEF StreamTypeOK, Lifecycle, Round, Stop
<1>2. Lifecycle'  BY DEF StreamTypeOK, Lifecycle, Stop
<1>3. Round'      BY DEF StreamTypeOK, Lifecycle, Round, Stop
<1>4. AgeOfKey'   BY DEF StreamTypeOK, Lifecycle, Round, AgeOfKey, Elapsed, Stop
<1>5. PingDue'    BY DEF StreamTypeOK, Lifecycle, PingDue, Stop
<1>6. Waiting'    BY DEF StreamTypeOK, Lifecycle, Round, Waiting, StopWaitsShort, Stop
<1> QED BY <1>1, <1>2, <1>3, <1>4, <1>5, <1>6

LEMMA JoinedStep == StreamIInv /\ Joined => StreamIInv'
<1> SUFFICES ASSUME StreamIInv, Joined PROVE StreamIInv' OBVIOUS
<1> USE NumbersAreNatural DEF StreamIInv
<1>1. StreamTypeOK'     BY DEF StreamTypeOK, Lifecycle, Round, Joined
<1>2. Lifecycle'  BY DEF StreamTypeOK, Lifecycle, Joined
<1>3. Round'      BY DEF StreamTypeOK, Lifecycle, Round, Joined
<1>4. AgeOfKey'   BY DEF StreamTypeOK, Lifecycle, Round, AgeOfKey, Elapsed, Joined
<1>5. PingDue'    BY DEF StreamTypeOK, Lifecycle, PingDue, Joined
<1>6. Waiting'    BY DEF StreamTypeOK, Lifecycle, Round, Waiting, StopWaitsShort, Joined
<1> QED BY <1>1, <1>2, <1>3, <1>4, <1>5, <1>6

LEMMA OnOpenStep == StreamIInv /\ OnOpen => StreamIInv'
<1> SUFFICES ASSUME StreamIInv, OnOpen PROVE StreamIInv' OBVIOUS
<1> USE NumbersAreNatural DEF StreamIInv
<1>1. StreamTypeOK'     BY DEF StreamTypeOK, Lifecycle, Round, OnOpen
<1>2. Lifecycle'  BY DEF StreamTypeOK, Lifecycle, OnOpen
<1>3. Round'      BY DEF StreamTypeOK, Lifecycle, Round, OnOpen
<1>4. AgeOfKey'   BY DEF StreamTypeOK, Lifecycle, Round, AgeOfKey, Elapsed, OnOpen
<1>5. PingDue'    BY DEF StreamTypeOK, Lifecycle, PingDue, OnOpen
<1>6. Waiting'    BY DEF StreamTypeOK, Lifecycle, Round, Waiting, StopWaitsShort, OnOpen
<1> QED BY <1>1, <1>2, <1>3, <1>4, <1>5, <1>6

LEMMA OnFailStep == StreamIInv /\ OnFail => StreamIInv'
<1> SUFFICES ASSUME StreamIInv, OnFail PROVE StreamIInv' OBVIOUS
<1> USE NumbersAreNatural DEF StreamIInv
<1>1. StreamTypeOK'     BY DEF StreamTypeOK, Lifecycle, Round, OnFail
<1>2. Lifecycle'  BY DEF StreamTypeOK, Lifecycle, OnFail
<1>3. Round'      BY DEF StreamTypeOK, Lifecycle, Round, OnFail
<1>4. AgeOfKey'   BY DEF StreamTypeOK, Lifecycle, Round, AgeOfKey, Elapsed, OnFail
<1>5. PingDue'    BY DEF StreamTypeOK, Lifecycle, PingDue, OnFail
<1>6. Waiting'    BY DEF StreamTypeOK, Lifecycle, Round, Waiting, StopWaitsShort, OnFail
<1> QED BY <1>1, <1>2, <1>3, <1>4, <1>5, <1>6

LEMMA OnCloseStep == StreamIInv /\ OnClose => StreamIInv'
<1> SUFFICES ASSUME StreamIInv, OnClose PROVE StreamIInv' OBVIOUS
<1> USE NumbersAreNatural DEF StreamIInv
<1>1. StreamTypeOK'     BY DEF StreamTypeOK, Lifecycle, Round, OnClose
<1>2. Lifecycle'  BY DEF StreamTypeOK, Lifecycle, OnClose
<1>3. Round'      BY DEF StreamTypeOK, Lifecycle, Round, OnClose
<1>4. AgeOfKey'   BY DEF StreamTypeOK, Lifecycle, Round, AgeOfKey, Elapsed, OnClose
<1>5. PingDue'    BY DEF StreamTypeOK, Lifecycle, PingDue, OnClose
<1>6. Waiting'    BY DEF StreamTypeOK, Lifecycle, Round, Waiting, StopWaitsShort, OnClose
<1> QED BY <1>1, <1>2, <1>3, <1>4, <1>5, <1>6

LEMMA RunReturnsStep == StreamIInv /\ RunReturns => StreamIInv'
<1> SUFFICES ASSUME StreamIInv, RunReturns PROVE StreamIInv' OBVIOUS
<1> USE NumbersAreNatural DEF StreamIInv
<1>1. StreamTypeOK'     BY DEF StreamTypeOK, Lifecycle, Round, RunReturns
<1>2. Lifecycle'  BY DEF StreamTypeOK, Lifecycle, RunReturns
<1>3. Round'      BY DEF StreamTypeOK, Lifecycle, Round, RunReturns
<1>4. AgeOfKey'   BY DEF StreamTypeOK, Lifecycle, Round, AgeOfKey, Elapsed, RunReturns
<1>5. PingDue'    BY DEF StreamTypeOK, Lifecycle, PingDue, RunReturns
<1>6. Waiting'    BY DEF StreamTypeOK, Lifecycle, Round, Waiting, StopWaitsShort, RunReturns
<1> QED BY <1>1, <1>2, <1>3, <1>4, <1>5, <1>6

LEMMA SendPingStep == StreamIInv /\ SendPing => StreamIInv'
<1> SUFFICES ASSUME StreamIInv, SendPing PROVE StreamIInv' OBVIOUS
<1> USE NumbersAreNatural DEF StreamIInv
<1>1. StreamTypeOK'     BY DEF StreamTypeOK, Lifecycle, Round, SendPing
<1>2. Lifecycle'  BY DEF StreamTypeOK, Lifecycle, SendPing
<1>3. Round'      BY DEF StreamTypeOK, Lifecycle, Round, SendPing
<1>4. AgeOfKey'   BY DEF StreamTypeOK, Lifecycle, Round, AgeOfKey, Elapsed, SendPing
<1>5. PingDue'    BY DEF StreamTypeOK, Lifecycle, PingDue, SendPing
<1>6. Waiting'    BY DEF StreamTypeOK, Lifecycle, Round, Waiting, StopWaitsShort, SendPing
<1> QED BY <1>1, <1>2, <1>3, <1>4, <1>5, <1>6

LEMMA WakeStep == StreamIInv /\ Wake => StreamIInv'
<1> SUFFICES ASSUME StreamIInv, Wake PROVE StreamIInv' OBVIOUS
<1> USE NumbersAreNatural DEF StreamIInv
<1>1. StreamTypeOK'
  <2>1. slept' = FALSE /\ renew' \in {"sleeping", "putting", "exited"} BY DEF StreamTypeOK, Wake
  <2>2. ticks' \in 0 .. RenewTicks - 1 /\ late' \in 0 .. LateMax BY DEF StreamTypeOK, Wake
  <2> QED BY <2>1, <2>2 DEF StreamTypeOK, Wake
<1>2. Lifecycle'  BY DEF StreamTypeOK, Lifecycle, Wake
<1>3. Round'      BY DEF StreamTypeOK, Lifecycle, Round, Wake
<1>4. AgeOfKey'   BY DEF StreamTypeOK, Lifecycle, Round, AgeOfKey, Elapsed, Wake
<1>5. PingDue'    BY DEF StreamTypeOK, Lifecycle, PingDue, Wake
<1>6. Waiting'    BY DEF StreamTypeOK, Lifecycle, Round, Waiting, StopWaitsShort, Wake
<1> QED BY <1>1, <1>2, <1>3, <1>4, <1>5, <1>6

LEMMA PutEndsStep == StreamIInv /\ PutEnds => StreamIInv'
<1> SUFFICES ASSUME StreamIInv, PutEnds PROVE StreamIInv' OBVIOUS
<1> USE NumbersAreNatural DEF StreamIInv
<1>1. StreamTypeOK'
  <2>1. renew' \in {"sleeping", "exited"} /\ missed' \in BOOLEAN BY DEF StreamTypeOK, PutEnds
  <2>2. reached' = FALSE /\ put' \in 0 .. PutMax BY DEF PutEnds
  <2> QED BY <2>1, <2>2 DEF StreamTypeOK, PutEnds
<1>2. Lifecycle'  BY DEF StreamTypeOK, Lifecycle, PutEnds
<1>3. Round'      BY DEF StreamTypeOK, Lifecycle, Round, PutEnds
<1>4. AgeOfKey'
  <2> SUFFICES ASSUME running', ~missed' PROVE renew' = "sleeping" /\ key' <= PutMax + Elapsed'
    BY DEF AgeOfKey
  <2>1. running /\ ~missed /\ reached BY DEF PutEnds
  <2>2. renew' = "sleeping" BY <2>1 DEF PutEnds
  <2>3. key' <= put BY <2>1 DEF AgeOfKey, PutEnds
  <2>4. Elapsed' = 0 BY DEF Round, Elapsed, PutEnds
  <2> QED BY <2>2, <2>3, <2>4 DEF StreamTypeOK, PutEnds
<1>5. PingDue'    BY DEF StreamTypeOK, Lifecycle, PingDue, PutEnds
<1>6. Waiting'    BY DEF StreamTypeOK, Lifecycle, Round, Waiting, StopWaitsShort, PutEnds
<1> QED BY <1>1, <1>2, <1>3, <1>4, <1>5, <1>6

LEMMA RenewedStep == StreamIInv /\ Renewed => StreamIInv'
<1> SUFFICES ASSUME StreamIInv, Renewed PROVE StreamIInv' OBVIOUS
<1> USE NumbersAreNatural DEF StreamIInv
<1>1. StreamTypeOK'     BY DEF StreamTypeOK, Lifecycle, Round, Renewed
<1>2. Lifecycle'  BY DEF StreamTypeOK, Lifecycle, Renewed
<1>3. Round'      BY DEF StreamTypeOK, Lifecycle, Round, Renewed
<1>4. AgeOfKey'   BY DEF StreamTypeOK, Lifecycle, Round, AgeOfKey, Elapsed, Renewed
<1>5. PingDue'    BY DEF StreamTypeOK, Lifecycle, PingDue, Renewed
<1>6. Waiting'    BY DEF StreamTypeOK, Lifecycle, Round, Waiting, StopWaitsShort, Renewed
<1> QED BY <1>1, <1>2, <1>3, <1>4, <1>5, <1>6

LEMMA TickStep == StreamIInv /\ Tick => StreamIInv'
<1> SUFFICES ASSUME StreamIInv, Tick PROVE StreamIInv' OBVIOUS
<1> USE NumbersAreNatural DEF StreamIInv
<1>1. StreamTypeOK'     BY DEF StreamTypeOK, Lifecycle, Round, Tick, UpTo
<1>2. Lifecycle'  BY DEF StreamTypeOK, Lifecycle, Tick, UpTo
<1>3. Round'      BY DEF StreamTypeOK, Lifecycle, Round, Tick, UpTo
<1>4. AgeOfKey'
  <2> SUFFICES ASSUME running', ~missed' PROVE AgeOfKey' BY DEF AgeOfKey
  <2>1. running /\ ~missed /\ renew' = renew /\ reached' = reached BY DEF Tick
  <2>2. key' <= key + 1 BY DEF StreamTypeOK, Tick, UpTo
  <2>3. CASE renew = "sleeping"
    <3>1. Elapsed' = Elapsed + 1
      <4>1. slept' /\ ticks' = ticks BY <2>3 DEF Tick
      <4>2. late' = late + (IF slept THEN 1 ELSE 0) BY <2>3 DEF StreamTypeOK, Tick
      <4> QED BY <4>1, <4>2 DEF StreamTypeOK, Elapsed
    <3>2. key <= PutMax + Elapsed BY <2>1, <2>3 DEF AgeOfKey
    <3>3. key' <= PutMax + Elapsed' BY <2>2, <3>1, <3>2 DEF StreamTypeOK, Elapsed, Tick, UpTo
    <3> QED BY <2>1, <2>3, <3>3 DEF AgeOfKey
  <2>4. CASE renew = "putting"
    <3>1. put' = put + 1 BY <2>4 DEF Tick
    <3> QED BY <2>1, <2>2, <2>4, <3>1 DEF StreamTypeOK, AgeOfKey, Tick, UpTo
  <2> QED BY <2>1, <2>3, <2>4 DEF Lifecycle
<1>5. PingDue'    BY DEF StreamTypeOK, Lifecycle, PingDue, Tick, UpTo
<1>6. Waiting'
  <2>1. CASE main # "joining" BY <2>1 DEF Waiting, StopWaitsShort, Tick
  <2>2. CASE main = "joining" /\ renew = "sleeping"
    <3>1. main' = "joining" /\ renew' = "sleeping" /\ waited' = waited + 1 /\ slept'
      BY <2>2 DEF Tick
    <3>2. late' + 1 = late + (IF slept THEN 1 ELSE 0) + 1 BY <2>2 DEF StreamTypeOK, Tick
    <3>3. waited <= late + (IF slept THEN 1 ELSE 0) BY <2>2 DEF Waiting
    <3>4. waited' <= late' + 1 BY <3>1, <3>2, <3>3 DEF StreamTypeOK
    <3>5. late' \in Nat /\ late' <= LateMax /\ waited' \in Nat BY <1>1 DEF StreamTypeOK
    <3>6. waited' <= 1 + LateMax BY <3>4, <3>5, OneMore, Zenon
    <3> QED BY <3>1, <3>4, <3>6 DEF Waiting, StopWaitsShort
  <2>3. CASE main = "joining" /\ renew = "putting"
    <3>1. main' = "joining" /\ renew' = "putting" /\ waited' = waited + 1 /\ put' = put + 1
      BY <2>3 DEF Tick
    <3>2. waited' <= put' /\ put' <= PutMax BY <1>1, <2>3, <3>1 DEF StreamTypeOK, Waiting
    <3> QED BY <1>1, <3>1, <3>2 DEF StreamTypeOK, Waiting, StopWaitsShort
  <2> QED BY <2>1, <2>2, <2>3 DEF StreamTypeOK, Lifecycle, Tick
<1> QED BY <1>1, <1>2, <1>3, <1>4, <1>5, <1>6

LEMMA StreamNextIInv == StreamIInv /\ [StreamNext]_streamVars => StreamIInv'
<1> SUFFICES ASSUME StreamIInv, [StreamNext]_streamVars PROVE StreamIInv' OBVIOUS
<1>1. CASE Start BY <1>1, StartStep
<1>2. CASE Stop BY <1>2, StopStep
<1>3. CASE Joined BY <1>3, JoinedStep
<1>4. CASE OnOpen BY <1>4, OnOpenStep
<1>5. CASE OnFail BY <1>5, OnFailStep
<1>6. CASE OnClose BY <1>6, OnCloseStep
<1>7. CASE RunReturns BY <1>7, RunReturnsStep
<1>8. CASE SendPing BY <1>8, SendPingStep
<1>9. CASE Wake BY <1>9, WakeStep
<1>10. CASE PutEnds BY <1>10, PutEndsStep
<1>11. CASE Renewed BY <1>11, RenewedStep
<1>12. CASE Tick BY <1>12, TickStep
<1>13. CASE UNCHANGED streamVars
  BY <1>13 DEF streamVars, StreamIInv, StreamTypeOK, Lifecycle, Round, AgeOfKey, Elapsed, PingDue,
               Waiting, StopWaitsShort
<1> QED
  BY <1>1, <1>2, <1>3, <1>4, <1>5, <1>6, <1>7, <1>8, <1>9, <1>10, <1>11, <1>12, <1>13 DEF StreamNext

\* StreamIInv holds at every moment of an order stream, whatever its periods and limits.
THEOREM StreamInvariance == StreamSpec => []StreamIInv
BY StreamInitIInv, StreamNextIInv, PTL DEF StreamSpec

(***************************************************************************)
(* The theorems about OrderStream                                          *)
(***************************************************************************)

\* Every variable of the stream keeps its type; ages and delays stay within their bounds.
THEOREM StreamTypeCorrect == StreamSpec => []StreamTypeOK
<1>1. StreamIInv => StreamTypeOK BY DEF StreamIInv
<1> QED BY <1>1, StreamInvariance, PTL

\* Renewals that reach the exchange come before the key expires (mexc_order_stream.cpp:71).
THEOREM KeyOutlivesPeriod == StreamSpec => []KeySurvives
<1>1. StreamIInv => KeySurvives
  <2> SUFFICES ASSUME StreamIInv, running, ~missed PROVE key < KeyLife BY DEF KeySurvives
  <2>1. key <= 2 * PutMax + RenewTicks + LateMax
    BY NumbersAreNatural DEF StreamIInv, StreamTypeOK, Lifecycle, AgeOfKey, Elapsed
  <2> QED BY <2>1, NumbersAreNatural DEF StreamIInv, StreamTypeOK
<1> QED BY <1>1, StreamInvariance, PTL

\* The chain of pings keeps an open connection from being idle too long.
THEOREM PingsInTime == StreamSpec => []NeverIdle
<1>1. StreamIInv => NeverIdle
  BY NumbersAreNatural DEF StreamIInv, StreamTypeOK, PingDue, NeverIdle
<1> QED BY <1>1, StreamInvariance, PTL

\* stop() waits for one sleep or one PUT (mexc_order_stream.cpp:75).
THEOREM StopIsBrief == StreamSpec => []StopWaitsShort
<1>1. StreamIInv => StopWaitsShort BY DEF StreamIInv, Waiting
<1> QED BY <1>1, StreamInvariance, PTL

===============================================================================
