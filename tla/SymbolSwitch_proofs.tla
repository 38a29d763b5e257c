------------------------- MODULE SymbolSwitch_proofs -------------------------
(***************************************************************************)
(* What a switch of pairs leaves behind in MEXC's maps, for every set of   *)
(* pairs, number of switches and length of the wire and the ring.          *)
(***************************************************************************)
EXTENDS SymbolSwitch, FiniteSetTheorems, TLAPS

(***************************************************************************)
(* The inductive invariant                                                 *)
(***************************************************************************)

\* A frame or an update is in the handler's hands while it needs it.
InHand ==
    /\ fpc = "subscribing" => frame \in [kind : {"sub"}, sym : Labels]
    /\ fpc = "merging" => frame \in [kind : {"depth", "erase"}, sym : Symbols]
    /\ fpc = "publishing" => update \in Updates

\* Only an assignment under way leaves a name that is none.
SymbolIsWhole == upc # "assigning" => symbol \in Symbols

Unsubscribed == upc \in {"unsubscribed", "gated", "assigning", "assigned"}

\* Until on_open has subscribed nothing has been asked, and nobody has touched symbol unless
\* change_symbol has run inside on_open.
Fresh ==
    /\ ~Unsubscribed
    /\ requests = <<>> /\ subs = {} /\ wire = <<>>
    /\ fpc = "subscribing" => frame.sym = symbol

BeforeSubscribe ==
    /\ conn = "connecting" => Fresh /\ fpc = "reading"
    /\ conn = "open" /\ ~overlap /\ fpc \in {"opened", "subscribing"} => Fresh

\* The life of a subscription: asked for, acknowledged, given up.
InService == conn = "open" /\ ~overlap /\ fpc \notin {"opened", "subscribing"}

\* Requests name pairs and alternate, each pair given up before the next is asked for ...
Named == \A i \in DOMAIN requests : requests[i].sym \in Symbols
Alternate ==
    \A i, j \in DOMAIN requests : j = i + 1 =>
        IF requests[i].op = "sub" THEN requests[j] = Request("unsub", requests[i].sym)
                                  ELSE requests[j].op = "sub"

\* ... the first of them continues from what is subscribed ...
FirstFits ==
    requests # <<>> => IF requests[1].op = "sub" THEN subs = {} ELSE subs = {requests[1].sym}

\* ... and the last leaves what the handler wants.
LastIs(r) == requests # <<>> /\ requests[Len(requests)] = r
LastWanted ==
    IF Unsubscribed
    THEN (requests = <<>> /\ subs = {}) \/ \E s \in Labels : LastIs(Request("unsub", s))
    ELSE (requests = <<>> /\ subs = {symbol}) \/ LastIs(Request("sub", symbol))

Requests == InService => Named /\ Alternate /\ FirstFits /\ LastWanted

\* The maps hold the pair that is subscribed, or an ack that will empty them is still to
\* come and only frames of that pair come after it.
DataOfSymbol(i) == wire[i].kind # "ack" /\ wire[i].sym = symbol
AckComing == \E k \in DOMAIN wire : /\ wire[k] = Frame("ack", symbol)
                                    /\ \A i \in DOMAIN wire : i > k => DataOfSymbol(i)
Pure == ~awaiting /\ book \subseteq {symbol} /\ (fpc = "merging" => frame.sym = symbol)
AllData == \A i \in DOMAIN wire : DataOfSymbol(i)
Acked == AllData /\ (fpc = "opening" \/ Pure)

PureOrAcked ==
    guard = "ack" /\ InService /\ ~Unsubscribed /\ requests = <<>> => AckComing \/ Acked

IInv == TypeOK /\ InHand /\ SymbolIsWhole /\ BeforeSubscribe /\ Requests /\ PureOrAcked

(***************************************************************************)
(* Sequences                                                               *)
(***************************************************************************)

LEMMA AppendFacts ==
  ASSUME NEW S, NEW q \in Seq(S), NEW e \in S
  PROVE  /\ Append(q, e) \in Seq(S) /\ Append(q, e) # <<>>
         /\ Len(q) \in Nat /\ Len(Append(q, e)) = Len(q) + 1
         /\ DOMAIN q = 1 .. Len(q) /\ DOMAIN Append(q, e) = 1 .. Len(q) + 1
         /\ \A i \in DOMAIN q : Append(q, e)[i] = q[i]
         /\ Append(q, e)[Len(q) + 1] = e
OBVIOUS

LEMMA ElementsOf ==
  ASSUME NEW S, NEW q \in Seq(S)
  PROVE  \A i \in 1 .. Len(q) : q[i] \in S
OBVIOUS

LEMMA EmptyHasNoLength ==
  ASSUME NEW S, NEW q \in Seq(S)
  PROVE  q = <<>> <=> Len(q) = 0
OBVIOUS

LEMMA TailFacts ==
  ASSUME NEW S, NEW q \in Seq(S), q # <<>>
  PROVE  /\ Head(q) = q[1] /\ Head(q) \in S /\ Tail(q) \in Seq(S)
         /\ Len(q) \in Nat \ {0} /\ Len(Tail(q)) = Len(q) - 1
         /\ DOMAIN q = 1 .. Len(q) /\ DOMAIN Tail(q) = 1 .. Len(q) - 1
         /\ \A i \in DOMAIN Tail(q) : Tail(q)[i] = q[i + 1] /\ i + 1 \in DOMAIN q
         /\ Tail(q) = <<>> <=> Len(q) = 1
<1>1. Len(q) \in Nat \ {0} /\ DOMAIN q = 1 .. Len(q) /\ Head(q) = q[1] OBVIOUS
<1>2. Tail(q) \in Seq(S) /\ Len(Tail(q)) = Len(q) - 1 OBVIOUS
<1>3. DOMAIN Tail(q) = 1 .. Len(q) - 1 BY <1>2
<1>4. \A i \in 1 .. Len(q) - 1 : Tail(q)[i] = q[i + 1] OBVIOUS
<1>5. \A i \in 1 .. Len(q) - 1 : i + 1 \in 1 .. Len(q) BY <1>1
<1>6. \A i \in DOMAIN Tail(q) : Tail(q)[i] = q[i + 1] /\ i + 1 \in DOMAIN q
  BY <1>1, <1>3, <1>4, <1>5, Zenon
<1>7. Tail(q) = <<>> <=> Len(q) = 1
  <2>1. Tail(q) = <<>> <=> Len(Tail(q)) = 0 BY <1>2, EmptyHasNoLength
  <2>2. Len(Tail(q)) = 0 <=> Len(q) = 1 BY <1>1, <1>2
  <2> QED BY <2>1, <2>2
<1>8. Head(q) \in S BY <1>1
<1> QED BY <1>1, <1>2, <1>3, <1>6, <1>7, <1>8

\* How many data frames there are when one frame more is sent, and when one is taken.
LEMMA DataAppend ==
  ASSUME NEW S, NEW q \in Seq(S), NEW f \in S
  PROVE  /\ IsFiniteSet(Data(q)) /\ Cardinality(Data(q)) \in Nat
         /\ Cardinality(Data(Append(q, f))) \in Nat
         /\ Cardinality(Data(Append(q, f))) <= Cardinality(Data(q)) + 1
         /\ f.kind = "ack" => Cardinality(Data(Append(q, f))) = Cardinality(Data(q))
<1> DEFINE n == Len(q) + 1
<1>1. /\ Len(q) \in Nat /\ DOMAIN q = 1 .. Len(q) /\ DOMAIN Append(q, f) = 1 .. n
      /\ \A i \in DOMAIN q : Append(q, f)[i] = q[i]
      /\ Append(q, f)[n] = f
  BY AppendFacts
<1>2. IsFiniteSet(DOMAIN q) BY <1>1, FS_Interval
<1>3. Data(q) \subseteq DOMAIN q BY DEF Data
<1>4. IsFiniteSet(Data(q)) BY <1>2, <1>3, FS_Subset
<1>5. Cardinality(Data(q)) \in Nat BY <1>4, FS_CardinalityType
<1>6. \A i \in 1 .. n : i = n \/ i \in 1 .. Len(q) BY <1>1
<1>7. \A i \in 1 .. Len(q) : i \in 1 .. n BY <1>1
<1>8. n \in 1 .. n BY <1>1
<1> HIDE DEF n
<1>9. f.kind = "ack" => Data(Append(q, f)) = Data(q) BY <1>1, <1>6, <1>7, Zenon DEF Data
<1>10. f.kind # "ack" => Data(Append(q, f)) = Data(q) \cup {n} BY <1>1, <1>6, <1>7, <1>8 DEF Data
<1>11. /\ IsFiniteSet(Data(q) \cup {n})
       /\ Cardinality(Data(q) \cup {n}) = IF n \in Data(q) THEN Cardinality(Data(q)) ELSE Cardinality(Data(q)) + 1
  BY <1>4, FS_AddElement
<1>12. \A c \in Nat : c + 1 \in Nat /\ c <= c + 1 /\ c + 1 <= c + 1 OBVIOUS
<1>13. CASE f.kind = "ack" BY <1>4, <1>5, <1>9, <1>12, <1>13, Zenon
<1>14. CASE f.kind # "ack"
  <2>1. Cardinality(Data(Append(q, f))) \in {Cardinality(Data(q)), Cardinality(Data(q)) + 1}
    BY <1>10, <1>11, <1>14
  <2> QED BY <1>4, <1>5, <1>12, <1>14, <2>1, Zenon
<1> QED BY <1>13, <1>14

LEMMA DataTail ==
  ASSUME NEW S, NEW q \in Seq(S), q # <<>>
  PROVE  Cardinality(Data(Tail(q))) \in Nat /\ Cardinality(Data(Tail(q))) <= Cardinality(Data(q))
<1> DEFINE f == [i \in Data(Tail(q)) |-> i + 1]
<1>1. /\ DOMAIN Tail(q) = 1 .. Len(q) - 1 /\ Len(q) \in Nat
      /\ \A i \in DOMAIN Tail(q) : Tail(q)[i] = q[i + 1] /\ i + 1 \in DOMAIN q
  BY TailFacts
<1>2. IsFiniteSet(Data(q)) BY DataAppend, TailFacts
<1>3. \A i \in Data(Tail(q)) : i + 1 \in Data(q) /\ i \in Int BY <1>1 DEF Data
<1>4. f \in Injection(Data(Tail(q)), Data(q)) BY <1>3 DEF Injection, IsInjective
<1> HIDE DEF f
<1>5. /\ IsFiniteSet(Data(Tail(q)))
      /\ Cardinality(Data(Tail(q))) <= Cardinality(Data(q))
  BY <1>2, <1>4, FS_Injection
<1> QED BY <1>5, FS_CardinalityType

LEMMA DataEmpty == Cardinality(Data(<<>>)) = 0
<1>1. Data(<<>>) = {} BY DEF Data
<1> QED BY <1>1, FS_EmptySet

(***************************************************************************)
(* Steps                                                                   *)
(***************************************************************************)

\* Nothing is asked of the server, and the handler wants what it wanted.
LEMMA RequestsKept ==
  ASSUME Requests, UNCHANGED <<requests, subs>>,
         InService' => /\ InService /\ (Unsubscribed' <=> Unsubscribed)
                       /\ Unsubscribed \/ symbol' = symbol
  PROVE  Requests'
<1> SUFFICES ASSUME InService' PROVE (Named /\ Alternate /\ FirstFits /\ LastWanted)' BY DEF Requests
<1>1. Named /\ Alternate /\ FirstFits /\ LastWanted BY DEF Requests
<1>2. Alternate' BY <1>1 DEF Alternate
<1>3. FirstFits' BY <1>1 DEF FirstFits
<1>4. LastWanted' BY <1>1 DEF LastWanted, LastIs
<1>5. Named' BY <1>1 DEF Named
<1> QED BY <1>2, <1>3, <1>4, <1>5

\* No frame is sent or taken, and what was pure stays pure.
LEMMA AckedKept ==
  ASSUME PureOrAcked,
         guard' = "ack" /\ InService' /\ ~Unsubscribed' /\ requests' = <<>> =>
           /\ guard = "ack" /\ InService /\ ~Unsubscribed /\ requests = <<>>
           /\ UNCHANGED <<wire, symbol>>
           /\ fpc = "opening" \/ Pure => fpc' = "opening" \/ Pure'
  PROVE  PureOrAcked'
BY DEF PureOrAcked, AckComing, Acked, AllData, DataOfSymbol

\* The sequence of requests, with one more at its end.
LEMMA RequestAdded ==
  ASSUME Named, Alternate, FirstFits,
         NEW r \in [op : {"sub", "unsub"}, sym : Labels], r.sym \in Symbols,
         requests \in Seq([op : {"sub", "unsub"}, sym : Labels]),
         requests = <<>> => IF r.op = "sub" THEN subs = {} ELSE subs = {r.sym},
         requests # <<>> => IF requests[Len(requests)].op = "sub"
                            THEN r = Request("unsub", requests[Len(requests)].sym) ELSE r.op = "sub",
         requests' = Append(requests, r), subs' = subs
  PROVE  (Named /\ Alternate /\ FirstFits)' /\ LastIs(r)'
<1> DEFINE n == Len(requests)
<1>1. /\ n \in Nat /\ DOMAIN requests = 1 .. n /\ DOMAIN requests' = 1 .. n + 1
      /\ \A i \in 1 .. n : requests'[i] = requests[i]
      /\ requests'[n + 1] = r /\ requests' # <<>> /\ Len(requests') = n + 1
  BY AppendFacts
<1>2. requests = <<>> <=> n = 0 BY EmptyHasNoLength
<1> HIDE DEF n
<1>3. Alternate'
  <2> SUFFICES ASSUME NEW i \in 1 .. n + 1, NEW j \in 1 .. n + 1, j = i + 1
               PROVE  IF requests'[i].op = "sub" THEN requests'[j] = Request("unsub", requests'[i].sym)
                                                 ELSE requests'[j].op = "sub"
    BY <1>1 DEF Alternate
  <2>1. i \in 1 .. n /\ (j \in 1 .. n \/ (j = n + 1 /\ i = n)) BY <1>1
  <2>2. CASE j \in 1 .. n
    <3>1. requests'[i] = requests[i] /\ requests'[j] = requests[j] BY <1>1, <2>1, <2>2
    <3>2. i \in DOMAIN requests /\ j \in DOMAIN requests BY <1>1, <2>1, <2>2
    <3> QED BY <3>1, <3>2 DEF Alternate
  <2>3. CASE j = n + 1 /\ i = n
    <3>1. requests # <<>> /\ requests'[i] = requests[n] /\ requests'[j] = r BY <1>1, <1>2, <2>1, <2>3
    <3> QED BY <3>1 DEF n
  <2> QED BY <2>1, <2>2, <2>3
<1>4. FirstFits'
  <2>1. CASE n = 0 BY <1>1, <1>2, <2>1 DEF FirstFits
  <2>2. CASE n # 0
    <3>1. requests # <<>> /\ requests'[1] = requests[1] BY <1>1, <1>2, <2>2
    <3> QED BY <3>1 DEF FirstFits
  <2> QED BY <2>1, <2>2
<1>5. LastIs(r)' BY <1>1 DEF LastIs
<1>6. \A i \in 1 .. n + 1 : i \in 1 .. n \/ i = n + 1 BY <1>1
<1>7. Named' BY <1>1, <1>6 DEF Named
<1> QED BY <1>3, <1>4, <1>5, <1>7

LEMMA OnOpenStep == IInv /\ OnOpen => IInv'
<1> SUFFICES ASSUME IInv, OnOpen PROVE IInv' OBVIOUS
<1> USE DEF IInv, OnOpen, render, handler, feed, server, panel
<1>1. TypeOK' BY DEF TypeOK
<1>2. InHand' BY DEF InHand
<1>3. SymbolIsWhole' BY DEF SymbolIsWhole
<1>4. BeforeSubscribe' BY DEF BeforeSubscribe, Fresh, Unsubscribed
<1>5. Requests' BY DEF Requests, InService
<1>6. PureOrAcked' BY DEF PureOrAcked, InService
<1> QED BY <1>1, <1>2, <1>3, <1>4, <1>5, <1>6

LEMMA BuildSubscribeStep == IInv /\ BuildSubscribe => IInv'
<1> SUFFICES ASSUME IInv, BuildSubscribe PROVE IInv' OBVIOUS
<1> USE DEF IInv, BuildSubscribe, render, handler, feed, server, panel
<1>1. TypeOK' BY DEF TypeOK, Frame
<1>2. InHand' BY DEF InHand, TypeOK, Frame
<1>3. SymbolIsWhole' BY DEF SymbolIsWhole
<1>4. BeforeSubscribe' BY DEF BeforeSubscribe, Fresh, Unsubscribed, Frame
<1>5. Requests' BY DEF Requests, InService
<1>6. PureOrAcked' BY DEF PureOrAcked, InService
<1> QED BY <1>1, <1>2, <1>3, <1>4, <1>5, <1>6

LEMMA SendSubscribeStep == IInv /\ SendSubscribe => IInv'
<1> SUFFICES ASSUME IInv, SendSubscribe PROVE IInv' OBVIOUS
<1> USE DEF IInv, SendSubscribe, render, handler, feed, server, panel
<1>1. PICK r : r = Request("sub", frame.sym) OBVIOUS
<1>2. r \in [op : {"sub", "unsub"}, sym : Labels] /\ r.op = "sub" BY <1>1 DEF InHand, Request
<1>3. requests \in Seq([op : {"sub", "unsub"}, sym : Labels]) BY DEF TypeOK
<1>4. requests' \in Seq([op : {"sub", "unsub"}, sym : Labels]) /\ requests' # <<>>
  <2>1. Append(requests, r) \in Seq([op : {"sub", "unsub"}, sym : Labels]) /\ Append(requests, r) # <<>>
    BY <1>2, <1>3, AppendFacts
  <2> QED BY <1>1, <2>1
<1>5. TypeOK' BY <1>4 DEF TypeOK
<1>6. InHand' BY DEF InHand
<1>7. SymbolIsWhole' BY DEF SymbolIsWhole
<1>8. BeforeSubscribe' BY DEF BeforeSubscribe, Fresh, Unsubscribed
<1>9. Requests' 
  <2> SUFFICES ASSUME InService' PROVE (Named /\ Alternate /\ FirstFits /\ LastWanted)' BY DEF Requests
  <2>1. Fresh /\ frame.sym = symbol BY DEF InService, BeforeSubscribe, Fresh
  <2>2. requests' = Append(<<>>, r) /\ subs' = {} BY <1>1, <2>1 DEF Fresh
  <2>3. Len(requests') = 1 /\ requests'[1] = r /\ DOMAIN requests' = 1 .. 1
    BY ONLY <2>2
  <2>4. r.sym \in Symbols BY <1>1, <2>1 DEF SymbolIsWhole, Fresh, Unsubscribed, Request
  <2>5. Named' BY <2>3, <2>4 DEF Named
  <2>6. Alternate' BY <2>3 DEF Alternate
  <2>7. FirstFits' BY <1>2, <2>2, <2>3 DEF FirstFits
  <2>8. LastWanted' BY <1>4, <1>1, <2>1, <2>3 DEF LastWanted, LastIs, Fresh, Unsubscribed
  <2> QED BY <2>5, <2>6, <2>7, <2>8
<1>10. PureOrAcked' BY <1>4 DEF PureOrAcked
<1> QED BY <1>5, <1>6, <1>7, <1>8, <1>9, <1>10

LEMMA OnCloseOrFailStep == IInv /\ OnCloseOrFail => IInv'
<1> SUFFICES ASSUME IInv, OnCloseOrFail PROVE IInv' OBVIOUS
<1> USE DEF IInv, OnCloseOrFail, render, handler, feed, server, panel
<1>1. TypeOK' BY DataEmpty, SwitchAssumption DEF TypeOK
<1>2. InHand' BY DEF InHand
<1>3. SymbolIsWhole' BY DEF SymbolIsWhole
<1>4. BeforeSubscribe' BY DEF BeforeSubscribe, Fresh, Unsubscribed
<1>5. Requests' BY DEF Requests, InService
<1>6. PureOrAcked' BY DEF PureOrAcked, InService
<1> QED BY <1>1, <1>2, <1>3, <1>4, <1>5, <1>6

LEMMA ClearBooksStep ==
  ASSUME NEW s \in Symbols
  PROVE  IInv /\ ClearBooks(s) => IInv'
<1> SUFFICES ASSUME IInv, ClearBooks(s) PROVE IInv' OBVIOUS
<1> USE DEF IInv, ClearBooks, render, handler, feed, server, panel
<1>1. TypeOK' BY SwitchAssumption DEF TypeOK
<1>2. InHand' BY DEF InHand
<1>3. SymbolIsWhole' BY DEF SymbolIsWhole
<1>4. BeforeSubscribe' BY DEF BeforeSubscribe, Fresh, Unsubscribed
<1>5. Requests' BY RequestsKept DEF InService, Unsubscribed
<1>6. PureOrAcked' BY AckedKept DEF InService, Unsubscribed, Pure
<1> QED BY <1>1, <1>2, <1>3, <1>4, <1>5, <1>6

LEMMA SkipSwitchStep == IInv /\ SkipSwitch => IInv'
<1> SUFFICES ASSUME IInv, SkipSwitch PROVE IInv' OBVIOUS
<1> USE DEF IInv, SkipSwitch, render, handler, feed, server, panel
<1>1. TypeOK' BY DEF TypeOK
<1>2. InHand' BY DEF InHand
<1>3. SymbolIsWhole' BY DEF SymbolIsWhole
<1>4. BeforeSubscribe' BY DEF BeforeSubscribe, Fresh, Unsubscribed
<1>5. Requests' BY RequestsKept DEF InService, Unsubscribed
<1>6. PureOrAcked' BY AckedKept DEF InService, Unsubscribed, Pure
<1> QED BY <1>1, <1>2, <1>3, <1>4, <1>5, <1>6

LEMMA UnsubscribeStep == IInv /\ Unsubscribe => IInv'
<1> SUFFICES ASSUME IInv, Unsubscribe PROVE IInv' OBVIOUS
<1> USE DEF IInv, Unsubscribe, render, handler, feed, server, panel
<1>1. PICK r : r = Request("unsub", symbol) OBVIOUS
<1>2. r \in [op : {"sub", "unsub"}, sym : Labels] /\ requests \in Seq([op : {"sub", "unsub"}, sym : Labels])
  BY <1>1 DEF TypeOK, Request
<1>3. requests' = Append(requests, r) /\ subs' = subs /\ Unsubscribed' BY <1>1 DEF Send, Unsubscribed
<1>4. /\ overlap' \in BOOLEAN
      /\ overlap \/ fpc \in {"opened", "subscribing"} => overlap'
  BY Zenon
<1>5. ~overlap' => ~overlap /\ fpc \notin {"opened", "subscribing"} BY <1>4
<1>6. requests' \in Seq([op : {"sub", "unsub"}, sym : Labels]) /\ requests' # <<>>
  BY <1>2, <1>3, AppendFacts
<1>7. TypeOK' BY <1>4, <1>6 DEF TypeOK
<1>8. InHand' BY DEF InHand
<1>9. SymbolIsWhole' BY DEF SymbolIsWhole
<1>10. BeforeSubscribe' BY <1>5 DEF BeforeSubscribe
<1>11. Requests' 
  <2> SUFFICES ASSUME InService' PROVE (Named /\ Alternate /\ FirstFits /\ LastWanted)' BY DEF Requests
  <2>1. InService /\ ~Unsubscribed BY <1>5 DEF InService, Unsubscribed
  <2>2. Named /\ Alternate /\ FirstFits /\ LastWanted BY <2>1 DEF Requests
  <2>3. requests = <<>> => subs = {r.sym} BY <1>1, <2>1, <2>2 DEF LastWanted, LastIs, Request
  <2>4. requests # <<>> => requests[Len(requests)] = Request("sub", r.sym)
    BY <1>1, <2>1, <2>2 DEF LastWanted, LastIs, Request
  <2>5. Request("sub", r.sym).op = "sub" /\ Request("sub", r.sym).sym = r.sym BY DEF Request
  <2>6. r.op = "unsub" /\ r = Request("unsub", r.sym) /\ r.sym \in Labels BY <1>1 DEF Request, TypeOK
  <2>7. (Named /\ Alternate /\ FirstFits)' /\ LastIs(r)'
    <3>1. requests # <<>> => IF requests[Len(requests)].op = "sub"
                             THEN r = Request("unsub", requests[Len(requests)].sym) ELSE r.op = "sub"
      BY <2>4, <2>5, <2>6
    <3>2. requests = <<>> => IF r.op = "sub" THEN subs = {} ELSE subs = {r.sym} BY <2>3, <2>6
    <3>3. r.sym \in Symbols BY <1>1 DEF SymbolIsWhole, Request
    <3> QED BY ONLY <1>2, <1>3, <2>2, <3>1, <3>2, <3>3, RequestAdded
  <2>8. LastWanted' BY <1>3, <2>6, <2>7 DEF LastWanted, LastIs
  <2> QED BY <2>7, <2>8
<1>12. PureOrAcked' BY <1>3 DEF PureOrAcked
<1> QED BY <1>7, <1>8, <1>9, <1>10, <1>11, <1>12

LEMMA CloseGateStep == IInv /\ CloseGate => IInv'
<1> SUFFICES ASSUME IInv, CloseGate PROVE IInv' OBVIOUS
<1> USE DEF IInv, CloseGate, render, handler, feed, server, panel
<1>1. TypeOK' BY DEF TypeOK
<1>2. InHand' BY DEF InHand
<1>3. SymbolIsWhole' BY DEF SymbolIsWhole
<1>4. BeforeSubscribe' BY DEF BeforeSubscribe, Fresh, Unsubscribed
<1>5. Requests' BY RequestsKept DEF InService, Unsubscribed
<1>6. PureOrAcked' BY AckedKept DEF Unsubscribed
<1> QED BY <1>1, <1>2, <1>3, <1>4, <1>5, <1>6

LEMMA BeginAssignStep == IInv /\ BeginAssign => IInv'
<1> SUFFICES ASSUME IInv, BeginAssign PROVE IInv' OBVIOUS
<1> USE DEF IInv, BeginAssign, render, handler, feed, server, panel
<1>1. TypeOK' BY DEF TypeOK, Labels
<1>2. InHand' BY DEF InHand
<1>3. SymbolIsWhole' BY DEF SymbolIsWhole, TypeOK
<1>4. BeforeSubscribe' BY DEF BeforeSubscribe, Fresh, Unsubscribed
<1>5. Requests' BY RequestsKept DEF InService, Unsubscribed
<1>6. PureOrAcked' BY AckedKept DEF Unsubscribed
<1> QED BY <1>1, <1>2, <1>3, <1>4, <1>5, <1>6

LEMMA EndAssignStep == IInv /\ EndAssign => IInv'
<1> SUFFICES ASSUME IInv, EndAssign PROVE IInv' OBVIOUS
<1> USE DEF IInv, EndAssign, render, handler, feed, server, panel
<1>1. TypeOK' BY DEF TypeOK, Labels
<1>2. InHand' BY DEF InHand
<1>3. SymbolIsWhole' BY DEF SymbolIsWhole, TypeOK
<1>4. BeforeSubscribe' BY DEF BeforeSubscribe, Fresh, Unsubscribed
<1>5. Requests' BY RequestsKept DEF InService, Unsubscribed
<1>6. PureOrAcked' BY AckedKept DEF Unsubscribed
<1> QED BY <1>1, <1>2, <1>3, <1>4, <1>5, <1>6

LEMMA SubscribeStep == IInv /\ Subscribe => IInv'
<1> SUFFICES ASSUME IInv, Subscribe PROVE IInv' OBVIOUS
<1> USE DEF IInv, Subscribe, render, handler, feed, server, panel
<1>1. PICK r : r = Request("sub", symbol) OBVIOUS
<1>2. r \in [op : {"sub", "unsub"}, sym : Labels] /\ requests \in Seq([op : {"sub", "unsub"}, sym : Labels])
  BY <1>1 DEF TypeOK, Request
<1>3. requests' = (IF conn = "open" THEN Append(requests, r) ELSE requests) /\ Unsubscribed /\ ~Unsubscribed'
  BY <1>1 DEF Send, Unsubscribed
<1>4. requests' \in Seq([op : {"sub", "unsub"}, sym : Labels]) /\ (conn = "open" => requests' # <<>>)
  <2>1. Append(requests, r) \in Seq([op : {"sub", "unsub"}, sym : Labels]) /\ Append(requests, r) # <<>>
    BY <1>2, AppendFacts
  <2> QED BY <1>2, <1>3, <2>1
<1>5. TypeOK' BY <1>4 DEF TypeOK
<1>6. InHand' BY DEF InHand
<1>7. SymbolIsWhole' BY DEF SymbolIsWhole
<1>8. BeforeSubscribe' BY DEF BeforeSubscribe, Fresh, Unsubscribed
<1>9. Requests' 
  <2> SUFFICES ASSUME InService' PROVE (Named /\ Alternate /\ FirstFits /\ LastWanted)' BY DEF Requests
  <2>1. InService /\ conn = "open" BY DEF InService
  <2>2. Named /\ Alternate /\ FirstFits /\ LastWanted BY <2>1 DEF Requests
  <2>3. requests = <<>> => subs = {} BY <1>3, <2>2 DEF LastWanted, LastIs
  <2>4. requests # <<>> => requests[Len(requests)].op = "unsub"
    <3>1. ASSUME requests # <<>> PROVE \E s \in Labels : requests[Len(requests)] = Request("unsub", s)
      BY <1>3, <2>2, <3>1 DEF LastWanted, LastIs
    <3>2. \A s : Request("unsub", s).op = "unsub" BY ONLY DEF Request
    <3> QED BY <3>1, <3>2
  <2>5. r.op = "sub" BY <1>1 DEF Request
  <2>6. requests' = Append(requests, r) /\ subs' = subs BY <1>3, <2>1
  <2>7. symbol' = symbol OBVIOUS
  <2>8. (Named /\ Alternate /\ FirstFits)' /\ LastIs(r)'
    <3>1. requests # <<>> => IF requests[Len(requests)].op = "sub"
                             THEN r = Request("unsub", requests[Len(requests)].sym) ELSE r.op = "sub"
      BY <2>4, <2>5
    <3>2. requests = <<>> => IF r.op = "sub" THEN subs = {} ELSE subs = {r.sym} BY <2>3, <2>5
    <3>3. r.sym \in Symbols BY <1>1 DEF SymbolIsWhole, Request
    <3> QED BY ONLY <1>2, <2>2, <2>6, <3>1, <3>2, <3>3, RequestAdded
  <2>9. LastWanted' BY <1>3, <1>1, <2>7, <2>8 DEF LastWanted, LastIs
  <2> QED BY <2>8, <2>9
<1>10. PureOrAcked' BY <1>4 DEF PureOrAcked, InService
<1> QED BY <1>5, <1>6, <1>7, <1>8, <1>9, <1>10

LEMMA OpenGateStep == IInv /\ OpenGate => IInv'
<1> SUFFICES ASSUME IInv, OpenGate PROVE IInv' OBVIOUS
<1> USE DEF IInv, OpenGate, render, handler, feed, server, panel
<1>1. TypeOK' BY DEF TypeOK
<1>2. InHand' BY DEF InHand
<1>3. SymbolIsWhole' BY DEF SymbolIsWhole
<1>4. BeforeSubscribe' BY DEF BeforeSubscribe, Fresh, Unsubscribed
<1>5. Requests' BY RequestsKept DEF InService, Unsubscribed
<1>6. PureOrAcked' BY AckedKept DEF InService, Unsubscribed, Pure
<1> QED BY <1>1, <1>2, <1>3, <1>4, <1>5, <1>6

LEMMA MergeStep == IInv /\ Merge => IInv'
<1> SUFFICES ASSUME IInv, Merge PROVE IInv' OBVIOUS
<1> USE DEF IInv, Merge, render, handler, feed, server, panel
<1>1. Merged \subseteq Symbols BY DEF TypeOK, InHand, Merged, Delta, Snapshot
<1>2. [label |-> symbol, levels |-> Merged] \in Updates BY <1>1 DEF TypeOK, Updates
<1>3. /\ book' \subseteq Symbols /\ fpc' \in {"reading", "publishing"}
      /\ update' \in Updates \cup {NoUpdate} /\ (fpc' = "publishing" => update' \in Updates)
  BY <1>1, <1>2 DEF TypeOK
<1>4. TypeOK' BY <1>3 DEF TypeOK
<1>5. InHand' BY <1>3 DEF InHand
<1>6. SymbolIsWhole' BY DEF SymbolIsWhole
<1>7. BeforeSubscribe' BY <1>3 DEF BeforeSubscribe, Fresh, Unsubscribed
<1>8. Requests' BY <1>3, RequestsKept DEF InService, Unsubscribed
<1>9. PureOrAcked'
  <2>1. guard = "ack" /\ Pure => Pure' BY <1>3 DEF Pure, Merged, Delta
  <2> QED BY <1>3, <2>1, AckedKept DEF InService, Unsubscribed
<1> QED BY <1>4, <1>5, <1>6, <1>7, <1>8, <1>9

LEMMA PublishStep == IInv /\ Publish => IInv'
<1> SUFFICES ASSUME IInv, Publish PROVE IInv' OBVIOUS
<1> USE DEF IInv, Publish, render, handler, feed, server, panel
<1>1. ring' \in Seq(Updates) /\ Len(ring') <= RingMax
  <2>1. ring \in Seq(Updates) /\ update \in Updates BY DEF TypeOK, InHand
  <2>2. ring' \in Seq(Updates) /\ Len(ring') = Len(ring) + 1 /\ Len(ring) \in Nat BY <2>1, AppendFacts
  <2> QED BY <2>2, SwitchAssumption
<1>2. TypeOK' BY <1>1 DEF TypeOK
<1>3. InHand' BY DEF InHand
<1>4. SymbolIsWhole' BY DEF SymbolIsWhole
<1>5. BeforeSubscribe' BY DEF BeforeSubscribe, Fresh, Unsubscribed
<1>6. Requests' BY RequestsKept DEF InService, Unsubscribed
<1>7. PureOrAcked' BY AckedKept DEF InService, Unsubscribed, Pure
<1> QED BY <1>2, <1>3, <1>4, <1>5, <1>6, <1>7

LEMMA AggregateStep == IInv /\ Aggregate => IInv'
<1> SUFFICES ASSUME IInv, Aggregate PROVE IInv' OBVIOUS
<1> USE DEF IInv, Aggregate, render, handler, feed, server, panel
<1>1. ring' \in Seq(Updates) /\ Len(ring') <= RingMax /\ display' \in Updates
  <2>1. ring \in Seq(Updates) /\ Len(ring) <= RingMax BY DEF TypeOK
  <2>2. /\ ring' \in Seq(Updates) /\ Len(ring') = Len(ring) - 1 /\ Len(ring) \in Nat
        /\ display' \in Updates
    BY <2>1, TailFacts
  <2> QED BY <2>1, <2>2, SwitchAssumption
<1>2. TypeOK' BY <1>1 DEF TypeOK
<1>3. InHand' BY DEF InHand
<1>4. SymbolIsWhole' BY DEF SymbolIsWhole
<1>5. BeforeSubscribe' BY DEF BeforeSubscribe, Fresh, Unsubscribed
<1>6. Requests' BY RequestsKept DEF InService, Unsubscribed
<1>7. PureOrAcked' BY AckedKept DEF InService, Unsubscribed, Pure
<1> QED BY <1>2, <1>3, <1>4, <1>5, <1>6, <1>7

(***************************************************************************)
(* The server and the wire                                                 *)
(***************************************************************************)

FrameType == [kind : {"ack", "depth", "erase"}, sym : Symbols]

\* The first request is answered: the others continue from what that leaves.
LEMMA RequestTaken ==
  ASSUME Named, Alternate, FirstFits, requests # <<>>,
         requests \in Seq([op : {"sub", "unsub"}, sym : Labels]),
         NEW r, r = Head(requests),
         requests' = Tail(requests),
         subs' = IF r.op = "sub" THEN subs \cup ({r.sym} \cap Symbols) ELSE subs \ {r.sym}
  PROVE  /\ (Named /\ Alternate /\ FirstFits)'
         /\ subs' = IF r.op = "sub" THEN {r.sym} ELSE {}
         /\ requests' = <<>> => requests[Len(requests)] = r
         /\ requests' # <<>> => requests'[Len(requests')] = requests[Len(requests)]
<1> DEFINE n == Len(requests)
<1>1. /\ n \in Nat \ {0} /\ DOMAIN requests = 1 .. n /\ DOMAIN requests' = 1 .. n - 1 /\ r = requests[1]
      /\ \A i \in DOMAIN requests' : requests'[i] = requests[i + 1] /\ i + 1 \in DOMAIN requests
      /\ Len(requests') = n - 1 /\ (requests' = <<>> <=> n = 1)
  BY TailFacts
<1>2. \A i \in 1 .. n : requests[i].op \in {"sub", "unsub"}
  <2>1. \A i \in 1 .. Len(requests) : requests[i] \in [op : {"sub", "unsub"}, sym : Labels]
    BY ElementsOf
  <2> QED BY <2>1
<1>3. subs' = IF r.op = "sub" THEN {r.sym} ELSE {}
  <2>1. 1 \in DOMAIN requests BY <1>1
  <2>2. r.sym \in Symbols BY <1>1, <2>1 DEF Named
  <2>3. IF r.op = "sub" THEN subs = {} ELSE subs = {r.sym} BY <1>1 DEF FirstFits
  <2> QED BY <2>2, <2>3
<1> HIDE DEF n
<1>4. Alternate'
  <2> SUFFICES ASSUME NEW i \in 1 .. n - 1, NEW j \in 1 .. n - 1, j = i + 1
               PROVE  IF requests'[i].op = "sub" THEN requests'[j] = Request("unsub", requests'[i].sym)
                                                 ELSE requests'[j].op = "sub"
    BY <1>1 DEF Alternate
  <2>1. i + 1 \in 1 .. n /\ j + 1 \in 1 .. n /\ j + 1 = (i + 1) + 1 BY <1>1
  <2>2. requests'[i] = requests[i + 1] /\ requests'[j] = requests[j + 1] BY <1>1
  <2> QED BY <1>1, <1>2, <2>1, <2>2 DEF Alternate
<1>5. FirstFits'
  <2>1. CASE n = 1 BY <1>1, <2>1 DEF FirstFits
  <2>2. CASE n # 1
    <3>1. 1 \in 1 .. n /\ 2 \in 1 .. n /\ 2 = 1 + 1 /\ 1 \in 1 .. n - 1 BY <1>1, <2>2
    <3>2. requests'[1] = requests[2] BY <1>1, <3>1
    <3>3. IF r.op = "sub" THEN requests[2] = Request("unsub", r.sym) ELSE requests[2].op = "sub"
      BY <1>1, <3>1 DEF Alternate
    <3> QED BY <1>3, <3>2, <3>3 DEF FirstFits, Request
  <2> QED BY <2>1, <2>2
<1>6. n = 1 => requests[n] = r BY <1>1
<1>7. n # 1 => requests'[n - 1] = requests[n]
  <2> SUFFICES ASSUME n # 1 PROVE requests'[n - 1] = requests[n] OBVIOUS
  <2>1. n - 1 \in 1 .. n - 1 /\ (n - 1) + 1 = n BY <1>1
  <2> QED BY <1>1, <2>1
<1>8. Named' BY <1>1, Zenon DEF Named
<1> QED BY <1>1, <1>3, <1>4, <1>5, <1>6, <1>7, <1>8 DEF n

LEMMA ServerAnswerStep == IInv /\ ServerAnswer => IInv'
<1> SUFFICES ASSUME IInv, ServerAnswer PROVE IInv' OBVIOUS
<1> USE DEF IInv, ServerAnswer, render, handler, feed, server, panel
<1>1. PICK r : r = Head(requests) OBVIOUS
<1>2. /\ requests \in Seq([op : {"sub", "unsub"}, sym : Labels]) /\ requests # <<>>
      /\ wire \in Seq(FrameType) /\ subs \subseteq Symbols
  BY DEF TypeOK, FrameType
<1>3. r \in [op : {"sub", "unsub"}, sym : Labels] BY <1>1, <1>2, TailFacts
<1>4. /\ requests' = Tail(requests) /\ conn' = conn /\ conn = "open"
      /\ subs' = IF r.op = "sub" THEN subs \cup ({r.sym} \cap Symbols) ELSE subs \ {r.sym}
      /\ wire' = IF guard = "ack" /\ r.sym \in Symbols THEN Append(wire, Frame("ack", r.sym)) ELSE wire
  BY <1>1
<1>5. r.sym \in Symbols => Frame("ack", r.sym) \in FrameType /\ Frame("ack", r.sym).kind = "ack"
  BY DEF FrameType, Frame
<1>6. TypeOK'
  <2>1. requests' \in Seq([op : {"sub", "unsub"}, sym : Labels]) BY <1>2, <1>4, TailFacts
  <2>2. wire' \in Seq(FrameType) /\ Cardinality(Data(wire')) <= WireMax
    <3>1. CASE guard = "ack" /\ r.sym \in Symbols
      <4>1. wire' = Append(wire, Frame("ack", r.sym)) BY <1>4, <3>1
      <4>2. Cardinality(Data(wire')) = Cardinality(Data(wire)) BY <1>2, <1>5, <3>1, <4>1, DataAppend
      <4>3. wire' \in Seq(FrameType) BY <1>2, <1>5, <3>1, <4>1, AppendFacts
      <4> QED BY <4>2, <4>3 DEF TypeOK
    <3>2. CASE ~(guard = "ack" /\ r.sym \in Symbols) BY <1>2, <1>4, <3>2 DEF TypeOK
    <3> QED BY <3>1, <3>2
  <2>3. subs' \subseteq Symbols BY <1>2, <1>4
  <2> QED BY <2>1, <2>2, <2>3 DEF TypeOK, FrameType
<1>7. InHand' BY DEF InHand
<1>8. SymbolIsWhole' BY DEF SymbolIsWhole
<1>9. BeforeSubscribe' BY DEF BeforeSubscribe, Fresh
<1>10. ASSUME InService'
       PROVE  /\ InService /\ (Named /\ Alternate /\ FirstFits /\ LastWanted)'
              /\ guard = "ack" /\ ~Unsubscribed' /\ requests' = <<>> => AckComing'
  <2>1. InService BY <1>10 DEF InService
  <2>2. Named /\ Alternate /\ FirstFits /\ LastWanted BY <2>1 DEF Requests
  <2>3. (Unsubscribed' <=> Unsubscribed) /\ symbol' = symbol BY DEF Unsubscribed
  <2>4. ~Unsubscribed => symbol \in Symbols BY DEF SymbolIsWhole, Unsubscribed
  <2>5. /\ (Named /\ Alternate /\ FirstFits)'
        /\ subs' = IF r.op = "sub" THEN {r.sym} ELSE {}
        /\ requests' = <<>> => requests[Len(requests)] = r
        /\ requests' # <<>> => requests'[Len(requests')] = requests[Len(requests)]
    BY ONLY <1>1, <1>2, <1>4, <2>2, RequestTaken
  <2>6. /\ Unsubscribed => \E s \in Labels : requests[Len(requests)] = Request("unsub", s)
        /\ ~Unsubscribed => requests[Len(requests)] = Request("sub", symbol)
    BY <1>2, <2>2 DEF LastWanted, LastIs
  <2>7. LastWanted'
    <3>1. CASE Unsubscribed
      <4>1. PICK s \in Labels : requests[Len(requests)] = Request("unsub", s) BY <2>6, <3>1
      <4>2. requests' = <<>> => subs' = {} BY <2>5, <4>1 DEF Request
      <4>3. requests' # <<>> => LastIs(Request("unsub", s))' BY <2>5, <4>1 DEF LastIs, Request
      <4> QED BY <2>3, <3>1, <4>2, <4>3 DEF LastWanted
    <3>2. CASE ~Unsubscribed
      <4>1. requests' = <<>> => subs' = {symbol} BY <2>5, <2>6, <3>2 DEF Request
      <4>2. requests' # <<>> => requests'[Len(requests')] = Request("sub", symbol) BY <2>5, <2>6, <3>2
      <4> QED BY <2>3, <3>2, <4>1, <4>2 DEF LastWanted, LastIs, Request
    <3> QED BY <3>1, <3>2
  <2>8. ASSUME guard = "ack", ~Unsubscribed', requests' = <<>> PROVE AckComing'
    <3>1. r = Request("sub", symbol) /\ symbol \in Symbols BY <2>3, <2>4, <2>5, <2>6, <2>8
    <3>2. wire' = Append(wire, Frame("ack", symbol)) BY <1>4, <2>8, <3>1 DEF Request
    <3>3. /\ DOMAIN wire' = 1 .. Len(wire) + 1 /\ Len(wire) \in Nat
          /\ wire'[Len(wire) + 1] = Frame("ack", symbol)
      BY <1>2, <1>5, <3>1, <3>2, AppendFacts DEF Request
    <3> QED BY <2>3, <3>3 DEF AckComing
  <2> QED BY <2>1, <2>5, <2>7, <2>8
<1>11. Requests' BY <1>10 DEF Requests
<1>12. PureOrAcked' BY <1>10 DEF PureOrAcked
<1> QED BY <1>6, <1>7, <1>8, <1>9, <1>11, <1>12

\* One frame more of the pair that is subscribed.
LEMMA DataAdded ==
  ASSUME wire \in Seq(FrameType), NEW f \in FrameType, f.kind # "ack", f.sym = symbol,
         wire' = Append(wire, f), symbol' = symbol
  PROVE  (AckComing => AckComing') /\ (AllData => AllData')
<1> DEFINE n == Len(wire)
<1>1. /\ n \in Nat /\ DOMAIN wire = 1 .. n /\ DOMAIN wire' = 1 .. n + 1
      /\ \A i \in DOMAIN wire : wire'[i] = wire[i]
      /\ wire'[n + 1] = f
  BY AppendFacts
<1> HIDE DEF n
<1>2. \A i \in DOMAIN wire' : i \in DOMAIN wire \/ i = n + 1 BY <1>1
<1>3. \A i \in DOMAIN wire : i \in DOMAIN wire' BY <1>1
<1>4. \A i \in DOMAIN wire : DataOfSymbol(i)' <=> DataOfSymbol(i) BY <1>1 DEF DataOfSymbol
<1>5. ASSUME NEW i \in DOMAIN wire', i = n + 1 PROVE DataOfSymbol(i)' BY <1>1, <1>5 DEF DataOfSymbol
<1>6. AllData => AllData' BY <1>2, <1>4, <1>5, Zenon DEF AllData
<1>7. ASSUME AckComing PROVE AckComing'
  <2>1. PICK k \in DOMAIN wire : wire[k] = Frame("ack", symbol) /\ \A i \in DOMAIN wire : i > k => DataOfSymbol(i)
    BY <1>7 DEF AckComing
  <2>2. k \in DOMAIN wire' /\ wire'[k] = Frame("ack", symbol) BY <1>1, <1>3, <2>1
  <2>3. \A i \in DOMAIN wire' : i > k => DataOfSymbol(i)' BY <1>2, <1>4, <1>5, <2>1, Zenon
  <2> QED BY <2>2, <2>3 DEF AckComing
<1> QED BY <1>6, <1>7

\* One frame less.
LEMMA FrameTaken ==
  ASSUME wire \in Seq(FrameType), wire # <<>>, wire' = Tail(wire), symbol' = symbol
  PROVE  /\ AckComing => AckComing' \/ (Head(wire) = Frame("ack", symbol) /\ AllData')
         /\ AllData => AllData' /\ Head(wire).kind # "ack" /\ Head(wire).sym = symbol
<1> DEFINE n == Len(wire)
<1>1. /\ n \in Nat \ {0} /\ DOMAIN wire = 1 .. n /\ DOMAIN wire' = 1 .. n - 1
      /\ \A i \in DOMAIN wire' : wire'[i] = wire[i + 1] /\ i + 1 \in DOMAIN wire
      /\ Head(wire) = wire[1]
  BY TailFacts
<1> HIDE DEF n
<1>2. \A i \in DOMAIN wire' : DataOfSymbol(i + 1) => DataOfSymbol(i)' BY <1>1, Zenon DEF DataOfSymbol
<1>3. AllData => AllData' /\ Head(wire).kind # "ack" /\ Head(wire).sym = symbol
  <2>1. 1 \in DOMAIN wire BY <1>1
  <2> QED BY <1>1, <1>2, <2>1, Zenon DEF AllData, DataOfSymbol
<1>4. ASSUME AckComing PROVE AckComing' \/ (Head(wire) = Frame("ack", symbol) /\ AllData')
  <2>1. PICK k \in DOMAIN wire : wire[k] = Frame("ack", symbol) /\ \A i \in DOMAIN wire : i > k => DataOfSymbol(i)
    BY <1>4 DEF AckComing
  <2>2. CASE k = 1
    <3>1. \A i \in DOMAIN wire' : i + 1 > k BY <1>1, <2>2
    <3>2. AllData' BY <1>1, <1>2, <2>1, <3>1, Zenon DEF AllData
    <3> QED BY <1>1, <2>1, <2>2, <3>2
  <2>3. CASE k # 1
    <3> DEFINE m == k - 1
    <3>1. m \in DOMAIN wire' /\ m + 1 = k BY <1>1, <2>3
    <3>2. wire'[m] = Frame("ack", symbol) BY <1>1, <2>1, <3>1
    <3>3. \A i \in DOMAIN wire' : i > m => i + 1 > k BY <1>1, <2>3
    <3> HIDE DEF m
    <3>4. \A i \in DOMAIN wire' : i > m => DataOfSymbol(i)' BY <1>1, <1>2, <2>1, <3>3, Zenon
    <3> QED BY <3>1, <3>2, <3>4 DEF AckComing
  <2> QED BY <2>2, <2>3
<1> QED BY <1>3, <1>4

LEMMA ServerSendStep ==
  ASSUME NEW kind \in {"depth", "erase"}, NEW s \in Symbols
  PROVE  IInv /\ ServerSend(kind, s) => IInv'
<1> SUFFICES ASSUME IInv, ServerSend(kind, s) PROVE IInv' OBVIOUS
<1> USE DEF IInv, ServerSend, render, handler, feed, server, panel
<1>1. PICK f : f = Frame(kind, s) OBVIOUS
<1>2. f \in FrameType /\ f.kind # "ack" /\ f.sym = s /\ wire \in Seq(FrameType) /\ wire' = Append(wire, f)
  BY <1>1 DEF FrameType, Frame, TypeOK
<1>3. wire' \in Seq(FrameType) BY <1>2, AppendFacts
<1>4. Cardinality(Data(wire')) <= WireMax
  <2>1. /\ Cardinality(Data(wire)) \in Nat /\ Cardinality(Data(wire')) \in Nat
        /\ Cardinality(Data(wire')) <= Cardinality(Data(wire)) + 1
    BY <1>2, DataAppend
  <2> QED BY <2>1, SwitchAssumption
<1>5. TypeOK' BY <1>3, <1>4 DEF TypeOK, FrameType
<1>6. InHand' BY DEF InHand
<1>7. SymbolIsWhole' BY DEF SymbolIsWhole
<1>8. BeforeSubscribe' BY DEF BeforeSubscribe, Fresh
<1>9. Requests' BY RequestsKept DEF InService, Unsubscribed
<1>10. PureOrAcked'
  <2> SUFFICES ASSUME guard = "ack", InService', ~Unsubscribed', requests' = <<>>
               PROVE  AckComing' \/ Acked'
    BY DEF PureOrAcked
  <2>1. InService /\ ~Unsubscribed /\ requests = <<>> BY DEF InService, Unsubscribed
  <2>2. (AckComing \/ Acked) /\ subs = {symbol} BY <2>1 DEF PureOrAcked, Requests, LastWanted, LastIs
  <2>3. f.sym = symbol /\ symbol' = symbol BY <1>2, <2>2
  <2>4. (AckComing => AckComing') /\ (AllData => AllData') BY <1>2, <2>3, DataAdded
  <2>5. Acked => Acked' BY <2>4 DEF Acked, Pure
  <2> QED BY <2>2, <2>4, <2>5
<1> QED BY <1>5, <1>6, <1>7, <1>8, <1>9, <1>10

\* What the two handlers of frames have in common.
LEMMA Received ==
  ASSUME IInv, NEW kinds, Receive(kinds)
  PROVE  /\ wire \in Seq(FrameType) /\ Head(wire) \in FrameType /\ Head(wire).kind \in kinds
         /\ wire # <<>> /\ wire' = Tail(wire) /\ symbol' = symbol
         /\ wire' \in Seq(FrameType) /\ Cardinality(Data(wire')) <= WireMax
<1>1. /\ wire \in Seq(FrameType) /\ wire # <<>> /\ wire' = Tail(wire) /\ symbol' = symbol
      /\ Head(wire).kind \in kinds /\ Cardinality(Data(wire)) <= WireMax
  BY DEF IInv, TypeOK, FrameType, Receive, handler
<1>2. Head(wire) \in FrameType /\ wire' \in Seq(FrameType) BY <1>1, TailFacts
<1>3. Cardinality(Data(wire)) \in Nat BY <1>1, <1>2, DataAppend
<1>4. Cardinality(Data(wire')) \in Nat /\ Cardinality(Data(wire')) <= Cardinality(Data(wire))
  BY <1>1, DataTail
<1>5. Cardinality(Data(wire')) <= WireMax BY <1>1, <1>3, <1>4, SwitchAssumption
<1> QED BY <1>1, <1>2, <1>5

LEMMA OnAckStep == IInv /\ OnAck => IInv'
<1> SUFFICES ASSUME IInv, OnAck PROVE IInv' OBVIOUS
<1>1. Receive({"ack"}) BY DEF OnAck
<1>2. /\ wire \in Seq(FrameType) /\ Head(wire) \in FrameType /\ Head(wire).kind = "ack"
      /\ wire # <<>> /\ wire' = Tail(wire) /\ symbol' = symbol
      /\ wire' \in Seq(FrameType) /\ Cardinality(Data(wire')) <= WireMax
  BY <1>1, Received
<1> USE DEF IInv, OnAck, Receive, render, handler, feed, server, panel
<1>3. fpc' \in {"opening", "reading"} /\ (Head(wire).sym = symbol => fpc' = "opening") OBVIOUS
<1>4. TypeOK' BY <1>2, <1>3 DEF TypeOK, FrameType
<1>5. InHand' BY <1>3 DEF InHand
<1>6. SymbolIsWhole' BY DEF SymbolIsWhole
<1>7. BeforeSubscribe' BY <1>3 DEF BeforeSubscribe
<1>8. Requests' BY <1>3, RequestsKept DEF InService, Unsubscribed
<1>9. PureOrAcked'
  <2> SUFFICES ASSUME guard = "ack", InService', ~Unsubscribed', requests' = <<>>
               PROVE  AckComing' \/ Acked'
    BY DEF PureOrAcked
  <2>1. InService /\ ~Unsubscribed /\ requests = <<>> BY DEF InService, Unsubscribed
  <2>2. AckComing \/ Acked BY <2>1 DEF PureOrAcked
  <2>3. /\ AckComing => AckComing' \/ (Head(wire) = Frame("ack", symbol) /\ AllData')
        /\ AllData => AllData' /\ Head(wire).kind # "ack" /\ Head(wire).sym = symbol
    BY ONLY <1>2, FrameTaken
  <2>4. Head(wire) = Frame("ack", symbol) => fpc' = "opening" BY <1>3 DEF Frame
  <2> QED BY <1>2, <2>2, <2>3, <2>4 DEF Acked
<1> QED BY <1>4, <1>5, <1>6, <1>7, <1>8, <1>9

LEMMA OnDepthStep == IInv /\ OnDepth => IInv'
<1> SUFFICES ASSUME IInv, OnDepth PROVE IInv' OBVIOUS
<1>1. Receive({"depth", "erase"}) BY DEF OnDepth
<1>2. /\ wire \in Seq(FrameType) /\ Head(wire) \in FrameType /\ Head(wire).kind \in {"depth", "erase"}
      /\ wire # <<>> /\ wire' = Tail(wire) /\ symbol' = symbol
      /\ wire' \in Seq(FrameType) /\ Cardinality(Data(wire')) <= WireMax
  BY <1>1, Received
<1>3. \/ fpc' = "merging" /\ frame' = Head(wire)
      \/ fpc' = "reading" /\ frame' = NoFrame
  BY DEF OnDepth
<1> USE DEF IInv, Receive, render, handler, feed, server, panel
<1>4. Head(wire) \in [kind : {"depth", "erase"}, sym : Symbols] BY <1>2 DEF FrameType
<1>5. frame' \in [kind : {"sub", "depth", "erase"}, sym : Labels] \cup {NoFrame}
  BY <1>3, <1>4 DEF Labels
<1>6. TypeOK' BY <1>1, <1>2, <1>3, <1>5 DEF TypeOK, FrameType
<1>7. InHand' BY <1>3, <1>4 DEF InHand
<1>8. SymbolIsWhole' BY <1>1 DEF SymbolIsWhole
<1>9. BeforeSubscribe' BY <1>1, <1>3 DEF BeforeSubscribe
<1>10. Requests' BY <1>1, <1>3, RequestsKept DEF InService, Unsubscribed
<1>11. PureOrAcked'
  <2> SUFFICES ASSUME guard' = "ack", InService', ~Unsubscribed', requests' = <<>>
               PROVE  AckComing' \/ Acked'
    BY DEF PureOrAcked
  <2>1. InService /\ ~Unsubscribed /\ requests = <<>> /\ guard = "ack" BY <1>1 DEF InService, Unsubscribed
  <2>2. AckComing \/ Acked BY <2>1 DEF PureOrAcked
  <2>3. /\ AckComing => AckComing' \/ (Head(wire) = Frame("ack", symbol) /\ AllData')
        /\ AllData => AllData' /\ Head(wire).kind # "ack" /\ Head(wire).sym = symbol
    BY ONLY <1>2, FrameTaken
  <2>4. Head(wire) # Frame("ack", symbol) BY <1>2 DEF Frame
  <2>5. Acked => Acked'
    <3> SUFFICES ASSUME Acked PROVE Acked' OBVIOUS
    <3>1. AllData' /\ Head(wire).sym = symbol BY <2>3 DEF Acked
    <3>2. Pure BY <1>1 DEF Acked
    <3>3. Pure' BY <1>1, <1>3, <3>1, <3>2 DEF Pure
    <3> QED BY <3>1, <3>3 DEF Acked
  <2> QED BY <2>2, <2>3, <2>4, <2>5
<1> QED BY <1>6, <1>7, <1>8, <1>9, <1>10, <1>11

LEMMA StutterStep == IInv /\ UNCHANGED vars => IInv'
BY DEF IInv, TypeOK, Data, InHand, SymbolIsWhole, BeforeSubscribe, Fresh, Unsubscribed, Requests,
       InService, Named, Alternate, FirstFits, LastWanted, LastIs, PureOrAcked, AckComing, Acked,
       AllData, Pure, DataOfSymbol, vars, render, handler, feed, server, panel

(***************************************************************************)
(* Theorems                                                                *)
(***************************************************************************)

LEMMA InitIInv == Init => IInv
<1> SUFFICES ASSUME Init PROVE IInv OBVIOUS
<1>1. TypeOK
  <2>1. Cardinality(Data(wire)) <= WireMax BY DataEmpty, SwitchAssumption DEF Init
  <2>2. Len(ring) = 0 /\ 0 <= RingMax BY SwitchAssumption DEF Init
  <2>3. /\ requests \in Seq([op : {"sub", "unsub"}, sym : Labels])
        /\ wire \in Seq([kind : {"ack", "depth", "erase"}, sym : Symbols])
        /\ ring \in Seq(Updates)
    BY DEF Init
  <2>4. symbol \in Labels /\ applied \in Symbols /\ switches \in 0 .. MaxSwitches
    BY SwitchAssumption DEF Init, Labels
  <2> QED BY <2>1, <2>2, <2>3, <2>4 DEF Init, TypeOK
<1>2. InHand BY DEF Init, InHand
<1>3. SymbolIsWhole BY SwitchAssumption DEF Init, SymbolIsWhole
<1>4. BeforeSubscribe BY DEF Init, BeforeSubscribe, Fresh, Unsubscribed
<1>5. Requests BY DEF Init, Requests, InService
<1>6. PureOrAcked BY DEF Init, PureOrAcked, InService
<1> QED BY <1>1, <1>2, <1>3, <1>4, <1>5, <1>6 DEF IInv

LEMMA NextIInv == IInv /\ [Next]_vars => IInv'
<1>1. IInv /\ SwitchStep => IInv'
  BY SkipSwitchStep, UnsubscribeStep, CloseGateStep, BeginAssignStep, EndAssignStep, SubscribeStep
  DEF SwitchStep
<1>2. IInv /\ FeedStep => IInv'
  BY BuildSubscribeStep, SendSubscribeStep, OnAckStep, OpenGateStep, OnDepthStep, MergeStep, PublishStep
  DEF FeedStep
<1>3. IInv /\ (SendDepth \/ SendErase) => IInv' BY ServerSendStep DEF SendDepth, SendErase
<1> QED
  BY <1>1, <1>2, <1>3, OnOpenStep, OnCloseOrFailStep, ClearBooksStep, ServerAnswerStep,
     AggregateStep, StutterStep
  DEF Next

\* The inductive invariant holds in every state.
THEOREM Invariance == Spec => []IInv
BY InitIInv, NextIInv, PTL DEF Spec

\* The render thread, the handler, the server and the aggregator only ever see frames,
\* updates and requests of the kinds the code builds, and the wire and the ring keep their
\* bounds.
THEOREM TypeCorrect == Spec => []TypeOK
<1>1. IInv => TypeOK BY DEF IInv
<1> QED BY <1>1, Invariance, PTL

\* However switches overlap, and whatever on_message had looked at before the flag was
\* raised: when every request has been acknowledged, MEXC's maps hold the subscribed pair
\* only and the flag is down (unless change_symbol ran inside on_open).
THEOREM AckedMapsArePure == Spec => []AckedBookIsPure
<1>1. IInv => AckedBookIsPure
  <2> SUFFICES ASSUME IInv, guard = "ack", conn = "open", Settled, ~overlap
               PROVE  ~awaiting /\ book \subseteq {symbol} /\ (fpc = "merging" => frame.sym = symbol)
    BY DEF AckedBookIsPure
  <2>1. InService /\ ~Unsubscribed /\ requests = <<>> BY DEF InService, Unsubscribed, Settled
  <2>2. AckComing \/ Acked BY <2>1 DEF IInv, PureOrAcked
  <2>3. ~AckComing BY DEF AckComing, Settled, Frame
  <2>4. Pure BY <2>2, <2>3 DEF Acked, Settled
  <2> QED BY <2>4 DEF Pure
<1> QED BY <1>1, Invariance, PTL

=============================================================================
