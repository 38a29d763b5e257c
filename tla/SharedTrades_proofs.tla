------------------------- MODULE SharedTrades_proofs -------------------------
(***************************************************************************)
(* The arrays of scr/trades.h implement TradeLog, for every number of      *)
(* exchanges and places, length of the lists and length of run.            *)
(***************************************************************************)
EXTENDS SharedTrades, TLAPS, FiniteSetTheorems

(***************************************************************************)
(* The inductive invariant                                                 *)
(***************************************************************************)

Followed == {names[i] : i \in DOMAIN names}

\* Every exchange has one place.
Places ==
    /\ \A i, j \in 1 .. Len(names) : names[i] = names[j] => i = j
    /\ IsFiniteSet(Followed)
    /\ Cardinality(Followed) = Len(names)

\* What a place holds is the newest part of the log of its exchange, newest first.
Holds(i) ==
    LET s == log[names[i]] IN
      /\ counts[i] = Log!Shortest(Len(s), Max)
      /\ \A j \in 1 .. counts[i] : trades[i][j] = s[Len(s) + 1 - j]

\* Nothing is recorded of an exchange without a place, nothing counted in a place without
\* an exchange.
Elsewhere ==
    /\ \A e \in Exchanges : IndexOf(e) = {} => log[e] = <<>>
    /\ \A i \in 1 .. MaxEx : i > Len(names) => counts[i] = 0

IInv ==
    /\ TypeOK /\ Places /\ Elsewhere
    /\ \A i \in 1 .. Len(names) : Holds(i)

LEMMA Sizes == Max \in Nat /\ Max > 0 /\ MaxEx \in Nat /\ MaxEx > 0
BY SizesAssumption

LEMMA InitIInv == Init => IInv
<1> SUFFICES ASSUME Init PROVE IInv OBVIOUS
<1> USE Sizes DEF Init
<1>1. TypeOK BY DEF TypeOK, Lists, EmptyList
<1>2. Followed = {} BY DEF Followed
<1>3. Places BY <1>2, FS_EmptySet DEF Places
<1>4. Elsewhere BY DEF Elsewhere
<1> QED BY <1>1, <1>3, <1>4 DEF IInv

(***************************************************************************)
(* The operators of add()                                                  *)
(***************************************************************************)

\* A shift keeps a list a list and puts the trade in front.
LEMMA ShiftedList ==
  ASSUME NEW list \in Lists, NEW t \in Trades
  PROVE  /\ Shifted(list, t) \in Lists
         /\ Shifted(list, t)[1] = t
         /\ \A j \in 2 .. Max : Shifted(list, t)[j] = list[j - 1]
BY Sizes DEF Shifted, Lists

LEMMA CountedType ==
  ASSUME NEW n \in 0 .. Max
  PROVE  /\ Counted(n) \in 1 .. Max
         /\ Counted(n) = Log!Shortest(n + 1, Max)
         /\ Counted(n) <= n + 1
BY Sizes DEF Counted, Log!Shortest

\* Prepending to the newest part of a log gives the newest part of the longer log.
LEMMA PrependRecent ==
  ASSUME NEW list \in Lists, NEW n \in 0 .. Max, NEW s \in Seq(Trades), NEW t \in Trades,
         n = Log!Shortest(Len(s), Max),
         \A j \in 1 .. n : list[j] = s[Len(s) + 1 - j]
  PROVE  LET u == Append(s, t) IN
           /\ Counted(n) = Log!Shortest(Len(u), Max)
           /\ \A j \in 1 .. Counted(n) : Shifted(list, t)[j] = u[Len(u) + 1 - j]
<1> DEFINE u == Append(s, t)
<1>1. Len(u) = Len(s) + 1 /\ Len(s) \in Nat OBVIOUS
<1>2. Counted(n) = Log!Shortest(Len(u), Max) BY <1>1, Sizes DEF Counted, Log!Shortest
<1>3. ASSUME NEW j \in 1 .. Counted(n) PROVE Shifted(list, t)[j] = u[Len(u) + 1 - j]
  <2>1. CASE j = 1 BY <1>1, <2>1, ShiftedList
  <2>2. CASE j > 1
    <3>1. j \in 2 .. Max /\ j - 1 \in 1 .. n BY <2>2, CountedType, Sizes
    <3>2. n <= Len(s) BY <1>1, Sizes DEF Log!Shortest
    <3>3. u[Len(u) + 1 - j] = s[Len(s) + 1 - (j - 1)] BY <1>1, <3>1, <3>2
    <3> QED BY <3>1, <3>3, ShiftedList
  <2>3. Counted(n) \in 1 .. Max BY CountedType
  <2>4. j = 1 \/ j > 1 BY <2>3, Sizes
  <2> QED BY <2>1, <2>2, <2>4
<1> QED BY <1>2, <1>3

(***************************************************************************)
(* Steps                                                                   *)
(***************************************************************************)

\* find_or_create() found the place i, or gave it away.
Found(i, e) == i \in IndexOf(e) /\ names' = names
Created(i, e) ==
    /\ IndexOf(e) = {} /\ Len(names) < MaxEx
    /\ names' = Append(names, e) /\ i = Len(names) + 1

\* In both cases e has the place afterwards, and nothing else has changed hands.
LEMMA PlaceOfExchange ==
  ASSUME IInv, NEW e \in Exchanges, NEW i, Found(i, e) \/ Created(i, e)
  PROVE  /\ i \in 1 .. Len(names') /\ Len(names') <= MaxEx
         /\ names' \in Seq(Exchanges) /\ names'[i] = e
         /\ \A k \in 1 .. Len(names') :
              k # i => k \in 1 .. Len(names) /\ names'[k] = names[k] /\ names[k] # e
         /\ Len(names) \in Nat /\ Len(names) <= Len(names')
         /\ Followed' = Followed \cup {e}
<1> USE Sizes DEF IInv, TypeOK, IndexOf
<1>1. Len(names) \in Nat /\ DOMAIN names = 1 .. Len(names) OBVIOUS
<1>2. CASE Found(i, e)
  <2>1. i \in 1 .. Len(names) /\ names' = names /\ names[i] = e BY <1>1, <1>2 DEF Found
  <2>2. \A k \in 1 .. Len(names) : k # i => names[k] # e BY <2>1 DEF Places
  <2>3. Followed' = Followed \cup {e} BY <1>1, <2>1 DEF Followed
  <2> QED BY <1>1, <2>1, <2>2, <2>3
<1>3. CASE Created(i, e)
  <2>1. /\ names' = Append(names, e) /\ i = Len(names) + 1 /\ Len(names) < MaxEx
        /\ \A k \in 1 .. Len(names) : names[k] # e
    BY <1>1, <1>3 DEF Created
  <2>2. /\ names' \in Seq(Exchanges) /\ Len(names') = Len(names) + 1 /\ names'[i] = e
        /\ \A k \in 1 .. Len(names) : names'[k] = names[k]
        /\ DOMAIN names' = 1 .. Len(names')
    BY <1>1, <2>1
  <2>3. 1 .. Len(names') = 1 .. Len(names) \cup {i} BY <1>1, <2>1, <2>2
  <2>4. Followed' = Followed \cup {e}
    <3>1. Followed' = {names'[k] : k \in 1 .. Len(names) \cup {i}} BY <2>2, <2>3 DEF Followed
    <3>2. Followed = {names[k] : k \in 1 .. Len(names)} BY <1>1 DEF Followed
    <3> QED BY <3>1, <3>2, <2>2
  <2>5. i \in 1 .. Len(names') /\ Len(names') <= MaxEx /\ Len(names) <= Len(names')
    BY <1>1, <2>1, <2>2
  <2> QED BY <1>1, <2>1, <2>2, <2>3, <2>4, <2>5
<1> QED BY <1>2, <1>3

LEMMA PrependStep ==
  ASSUME IInv, NEW e \in Exchanges, NEW t \in Trades, NEW i,
         Found(i, e) \/ Created(i, e), PrependAt(i, e, t)
  PROVE  IInv'
<1> USE Sizes
<1>1. /\ i \in 1 .. Len(names') /\ Len(names') <= MaxEx
      /\ names' \in Seq(Exchanges) /\ names'[i] = e
      /\ \A k \in 1 .. Len(names') :
           k # i => k \in 1 .. Len(names) /\ names'[k] = names[k] /\ names[k] # e
      /\ Len(names) \in Nat /\ Len(names') \in Nat /\ Len(names) <= Len(names')
      /\ Followed' = Followed \cup {e}
  BY PlaceOfExchange
<1>2. i \in 1 .. MaxEx BY <1>1
<1>3. /\ trades' = [trades EXCEPT ![i] = Shifted(trades[i], t)]
      /\ counts' = [counts EXCEPT ![i] = Counted(counts[i])]
      /\ log' = [log EXCEPT ![e] = Append(log[e], t)]
      /\ shown' = shown
  BY DEF PrependAt
<1>4. /\ trades \in [1 .. MaxEx -> Lists] /\ counts \in [1 .. MaxEx -> 0 .. Max]
      /\ log \in [Exchanges -> Seq(Trades)]
  BY DEF IInv, TypeOK
<1>5. trades[i] \in Lists /\ counts[i] \in 0 .. Max /\ log[e] \in Seq(Trades) BY <1>2, <1>4
<1>6. TypeOK'
  <2>1. Shifted(trades[i], t) \in Lists BY <1>5, ShiftedList
  <2>2. Counted(counts[i]) \in 0 .. Max BY <1>5 DEF Counted
  <2>3. trades' \in [1 .. MaxEx -> Lists] BY <1>3, <1>4, <2>1
  <2>4. counts' \in [1 .. MaxEx -> 0 .. Max] BY <1>3, <1>4, <2>2
  <2>5. log' \in [Exchanges -> Seq(Trades)] BY <1>3, <1>4, <1>5
  <2> QED BY <1>1, <1>3, <2>3, <2>4, <2>5 DEF IInv, TypeOK
<1>7. Places'
  <2>1. \A j, k \in 1 .. Len(names') : names'[j] = names'[k] => j = k
    BY <1>1 DEF IInv, Places
  <2>2. IsFiniteSet(Followed') /\ Cardinality(Followed') = Len(names')
    <3>1. IsFiniteSet(Followed) /\ Cardinality(Followed) = Len(names) BY DEF IInv, Places
    <3>2. CASE Found(i, e)
      <4>1. e \in Followed /\ names' = names BY <3>2 DEF Found, IndexOf, Followed
      <4> QED BY <1>1, <3>1, <4>1, FS_AddElement
    <3>3. CASE Created(i, e)
      <4>1. e \notin Followed BY <3>3 DEF Created, IndexOf, Followed
      <4>2. Len(names') = Len(names) + 1 BY <3>3 DEF Created, IInv, TypeOK
      <4> QED BY <1>1, <3>1, <4>1, <4>2, FS_AddElement
    <3> QED BY <3>2, <3>3
  <2> QED BY <2>1, <2>2 DEF Places
<1>8. Elsewhere'
  <2>1. ASSUME NEW f \in Exchanges, IndexOf(f)' = {} PROVE log'[f] = <<>>
    <3>1. \A k \in 1 .. Len(names') : names'[k] # f BY <1>1, <2>1 DEF IndexOf
    <3>2. f # e BY <1>1, <3>1
    <3>3. IndexOf(f) = {}
      <4>1. CASE Found(i, e) BY <2>1, <4>1 DEF Found, IndexOf
      <4>2. CASE Created(i, e)
        <5>1. \A k \in DOMAIN names : k \in 1 .. Len(names') /\ names'[k] = names[k]
          BY <4>2 DEF Created, IInv, TypeOK
        <5> QED BY <3>1, <5>1 DEF IndexOf
      <4> QED BY <4>1, <4>2
    <3> QED BY <1>3, <1>4, <3>2, <3>3 DEF IInv, Elsewhere
  <2>2. ASSUME NEW k \in 1 .. MaxEx, k > Len(names') PROVE counts'[k] = 0
    BY <1>1, <1>3, <1>4, <2>2 DEF IInv, Elsewhere
  <2> QED BY <2>1, <2>2 DEF Elsewhere
<1>9. ASSUME NEW k \in 1 .. Len(names') PROVE Holds(k)'
  <2>1. CASE k = i
    <3>1. /\ counts[i] = Log!Shortest(Len(log[e]), Max)
          /\ \A j \in 1 .. counts[i] : trades[i][j] = log[e][Len(log[e]) + 1 - j]
      <4>1. CASE Found(i, e)
        <5>1. i \in 1 .. Len(names) /\ names[i] = e BY <4>1 DEF Found, IndexOf, IInv, TypeOK
        <5> QED BY <5>1 DEF IInv, Holds
      <4>2. CASE Created(i, e)
        <5>1. counts[i] = 0 /\ log[e] = <<>> BY <1>1, <1>2, <4>2 DEF Created, IInv, Elsewhere
        <5> QED BY <5>1 DEF Log!Shortest
      <4> QED BY <4>1, <4>2
    <3>2. /\ Counted(counts[i]) = Log!Shortest(Len(Append(log[e], t)), Max)
          /\ \A j \in 1 .. Counted(counts[i]) :
               Shifted(trades[i], t)[j] = Append(log[e], t)[Len(Append(log[e], t)) + 1 - j]
      BY <1>5, <3>1, PrependRecent
    <3>3. /\ trades'[i] = Shifted(trades[i], t) /\ counts'[i] = Counted(counts[i])
          /\ log'[e] = Append(log[e], t)
      BY <1>2, <1>3, <1>4
    <3> QED BY <1>1, <2>1, <3>2, <3>3 DEF Holds
  <2>2. CASE k # i
    <3>1. /\ k \in 1 .. Len(names) /\ names'[k] = names[k] /\ names[k] # e /\ Holds(k)
      BY <1>1, <2>2 DEF IInv
    <3>2. trades'[k] = trades[k] /\ counts'[k] = counts[k] /\ log'[names'[k]] = log[names[k]]
      <4>1. k \in 1 .. MaxEx BY <1>1
      <4>2. names[k] \in Exchanges BY <3>1 DEF IInv, TypeOK
      <4> QED BY <1>3, <1>4, <2>2, <3>1, <4>1, <4>2
    <3> QED BY <3>1, <3>2 DEF Holds
  <2> QED BY <2>1, <2>2
<1> QED BY <1>6, <1>7, <1>8, <1>9 DEF IInv

LEMMA ClearStep == IInv /\ ClearAll => IInv'
<1> SUFFICES ASSUME IInv, ClearAll PROVE IInv' OBVIOUS
<1> USE Sizes DEF ClearAll
<1>1. Len(names) \in Nat /\ Len(names) <= MaxEx /\ names \in Seq(Exchanges) BY DEF IInv, TypeOK
<1>2. TypeOK'
  <2>1. EmptyList \in Lists BY DEF EmptyList, Lists
  <2>2. trades' \in [1 .. MaxEx -> Lists] BY <2>1 DEF IInv, TypeOK
  <2>3. counts' \in [1 .. MaxEx -> 0 .. Max] BY DEF IInv, TypeOK
  <2>4. log' \in [Exchanges -> Seq(Trades)] OBVIOUS
  <2> QED BY <2>2, <2>3, <2>4 DEF IInv, TypeOK
<1>3. Places' BY DEF IInv, Places, Followed
<1>4. Elsewhere' BY <1>1 DEF IInv, Elsewhere
<1>5. ASSUME NEW k \in 1 .. Len(names') PROVE Holds(k)'
  <2>1. k \in 1 .. Len(names) /\ k \in 1 .. MaxEx /\ names'[k] \in Exchanges BY <1>1
  <2>2. counts'[k] = 0 /\ log'[names'[k]] = <<>> BY <2>1
  <2>3. Len(log'[names'[k]]) = 0 /\ Log!Shortest(0, Max) = 0 BY <2>2 DEF Log!Shortest
  <2>4. counts'[k] = Log!Shortest(Len(log'[names'[k]]), Max) BY <2>2, <2>3
  <2>5. \A j \in 1 .. counts'[k] : FALSE BY <2>2
  <2> QED BY <2>4, <2>5 DEF Holds
<1> QED BY <1>2, <1>3, <1>4, <1>5 DEF IInv

LEMMA SnapshotStep == ASSUME NEW e \in Exchanges, IInv, Snapshot(e) PROVE IInv'
<1>1. UNCHANGED <<names, trades, counts, log>> BY DEF Snapshot
<1>2. shown' \in [Exchanges -> Seq(Trades)]
  <2>1. shown \in [Exchanges -> Seq(Trades)] BY DEF IInv, TypeOK
  <2>2. CASE IndexOf(e) = {}
    <3>1. shown' = [shown EXCEPT ![e] = <<>>] BY <2>2 DEF Snapshot
    <3>2. <<>> \in Seq(Trades) OBVIOUS
    <3> QED BY <2>1, <3>1, <3>2
  <2>3. ASSUME NEW i \in IndexOf(e), shown' = [shown EXCEPT ![e] = [j \in 1 .. counts[i] |-> trades[i][j]]]
        PROVE  shown' \in [Exchanges -> Seq(Trades)]
    <3>1. i \in 1 .. Len(names) /\ names[i] = e BY DEF IndexOf, IInv, TypeOK
    <3>2. counts[i] \in Nat /\ log[e] \in Seq(Trades) /\ Len(log[e]) \in Nat
      BY <3>1, Sizes DEF IInv, TypeOK
    <3>3. \A j \in 1 .. counts[i] : trades[i][j] \in Trades
      <4>1. /\ counts[i] <= Len(log[e])
            /\ \A j \in 1 .. counts[i] : trades[i][j] = log[e][Len(log[e]) + 1 - j]
        BY <3>1, <3>2, Sizes DEF IInv, Holds, Log!Shortest
      <4> QED BY <3>2, <4>1
    <3>4. [j \in 1 .. counts[i] |-> trades[i][j]] \in Seq(Trades) BY <3>2, <3>3
    <3> QED BY <2>1, <2>3, <3>4
  <2> QED BY <2>2, <2>3 DEF Snapshot
<1>3. TypeOK' BY <1>1, <1>2 DEF IInv, TypeOK
<1>4. Places' /\ Elsewhere' BY <1>1 DEF IInv, Places, Followed, Elsewhere, IndexOf
<1>5. \A k \in 1 .. Len(names') : Holds(k)' BY <1>1 DEF IInv, Holds
<1> QED BY <1>3, <1>4, <1>5 DEF IInv

\* What add() does, in the terms of the lemmas above.
LEMMA AddCases ==
  ASSUME IInv, NEW e \in Exchanges, NEW t \in Trades, Add(e, t)
  PROVE  \/ \E i : (Found(i, e) \/ Created(i, e)) /\ PrependAt(i, e, t)
         \/ UNCHANGED vars
BY DEF Add, Found, Created

LEMMA IInvInductive == IInv /\ [Next]_vars => IInv'
<1> SUFFICES ASSUME IInv, [Next]_vars PROVE IInv' OBVIOUS
<1>1. CASE UNCHANGED vars
  BY <1>1 DEF vars, IInv, TypeOK, Places, Followed, Elsewhere, IndexOf, Holds
<1>2. ASSUME NEW e \in Exchanges, NEW t \in Trades, Add(e, t) PROVE IInv'
  BY <1>1, <1>2, AddCases, PrependStep
<1>3. ASSUME NEW e \in Exchanges, Snapshot(e) PROVE IInv' BY <1>3, SnapshotStep
<1>4. CASE ClearAll BY <1>4, ClearStep
<1> QED BY <1>1, <1>2, <1>3, <1>4 DEF Next

THEOREM Invariance == Spec => []IInv
BY InitIInv, IInvInductive, PTL DEF Spec

(***************************************************************************)
(* The theorems                                                            *)
(***************************************************************************)

\* No index leaves its array, no count its range, whatever the order of calls (trades.h:30-34).
THEOREM TypeCorrect == Spec => []TypeOK
<1>1. IInv => TypeOK BY DEF IInv
<1> QED BY <1>1, Invariance, PTL

LEMMA InitRefines == Init => Log!Init
BY DEF Init, Log!Init

LEMMA RecordRefines ==
  ASSUME IInv, NEW e \in Exchanges, NEW t \in Trades, NEW i,
         Found(i, e) \/ Created(i, e), PrependAt(i, e, t)
  PROVE  Log!Record(e, t)
<1>1. e \in Followed \/ Cardinality(Followed) < MaxEx
  BY DEF Found, Created, IndexOf, Followed, IInv, Places
<1>2. Followed' = Followed \cup {e} BY PlaceOfExchange
<1>3. log' = [log EXCEPT ![e] = Append(@, t)] /\ UNCHANGED shown BY DEF PrependAt
<1>4. Log!Record(e, t) <=> /\ e \in Followed \/ Cardinality(Followed) < MaxEx
                           /\ Followed' = Followed \cup {e}
                           /\ log' = [log EXCEPT ![e] = Append(@, t)]
                           /\ UNCHANGED shown
  BY DEF Log!Record, Followed, Cardinality, Log!Cardinality, IsFiniteSet, Log!IsFiniteSet
<1> QED BY <1>1, <1>2, <1>3, <1>4

LEMMA LookRefines == ASSUME IInv, NEW e \in Exchanges, Snapshot(e) PROVE Log!Look(e)
<1>1. Followed' = Followed /\ log' = log BY DEF Snapshot, Followed
<1>2. shown' = [shown EXCEPT ![e] = Log!Recent(log[e])]
  <2>1. CASE IndexOf(e) = {}
    <3>1. log[e] = <<>> BY <2>1 DEF IInv, Elsewhere
    <3>2. Log!Recent(<<>>) = <<>> BY Sizes DEF Log!Recent, Log!Shortest
    <3> QED BY <2>1, <3>1, <3>2 DEF Snapshot
  <2>2. ASSUME NEW i \in IndexOf(e), shown' = [shown EXCEPT ![e] = [j \in 1 .. counts[i] |-> trades[i][j]]]
        PROVE  shown' = [shown EXCEPT ![e] = Log!Recent(log[e])]
    <3>1. i \in 1 .. Len(names) /\ names[i] = e BY DEF IndexOf, IInv, TypeOK
    <3>2. [j \in 1 .. counts[i] |-> trades[i][j]] = Log!Recent(log[e])
      BY <3>1 DEF IInv, Holds, Log!Recent
    <3> QED BY <2>2, <3>2
  <2> QED BY <2>1, <2>2 DEF Snapshot
<1> QED BY <1>1, <1>2 DEF Log!Look, Followed

LEMMA StepRefines == IInv /\ [Next]_vars => [Log!Next]_(Log!vars)
<1> SUFFICES ASSUME IInv, [Next]_vars PROVE [Log!Next]_(Log!vars) OBVIOUS
<1>1. CASE UNCHANGED vars BY <1>1 DEF vars, Log!vars
<1>2. ASSUME NEW e \in Exchanges, NEW t \in Trades, Add(e, t) PROVE [Log!Next]_(Log!vars)
  BY <1>1, <1>2, AddCases, RecordRefines DEF Log!Next
<1>3. ASSUME NEW e \in Exchanges, Snapshot(e) PROVE Log!Next BY <1>3, LookRefines DEF Log!Next
<1>4. CASE ClearAll BY <1>4 DEF ClearAll, Log!Next, Log!Clear
<1> QED BY <1>1, <1>2, <1>3, <1>4 DEF Next

\* The arrays show what a panel may expect: the newest Max trades since the last clear, newest
\* first, of the first MaxEx exchanges that traded (trades.h:24-55).
THEOREM RefinesTradeLog == Spec => ImplementsTradeLog
BY InitRefines, StepRefines, Invariance, PTL DEF Spec, ImplementsTradeLog, Log!Spec

=============================================================================
