---------------------------- MODULE Panels_proofs ----------------------------
(***************************************************************************)
(* The panels of several exchanges, for every set of exchanges and pairs,  *)
(* number of slots and length of the ring and of the queue of events.      *)
(***************************************************************************)
EXTENDS Panels, TLAPS

(***************************************************************************)
(* The inductive invariant                                                 *)
(***************************************************************************)

\* The exchanges that a form's rows and requests are about.
Concerns(f) ==
    {ExOf(r.order) : r \in f.rows}
      \cup (IF f.pending = Idle THEN {} ELSE {ExOf(f.pending.order)})
      \cup (IF f.sweep = Idle THEN {} ELSE {f.sweep.ex})
      \cup (IF f.fetch.st = "sent" THEN {f.fetch.ex} ELSE {})
      \cup (IF f.fetch.st = "ok" THEN {ExOf(o) : o \in f.fetch.ids} ELSE {})

\* Requests and rows of the form of slot i are of the exchange of that slot.
OfSlot(f, i) == \A e \in Concerns(f) : i <= Len(slots) /\ e = slots[i].ex

\* What was fetched, or is asked for, is of the pair applied last.
FetchedOfPair(f) ==
    /\ f.fetch.st = "sent" => f.fetch.pair = applied
    /\ f.fetch.st = "ok" => \A o \in f.fetch.ids : PairOf(o) = applied
    /\ \A r \in f.rows : r.fetched => r.symbol = applied

\* An order placed while one pair was followed and shown keeps every other pair away from
\* the panel as long as its answer has not been polled.
PlacedInPair(f, i) ==
    /\ \A r \in f.rows : r.symbol = PairOf(r.order) \/ r.order \in late
    /\ f.pending.st \in {"sent", "ok"} /\ f.pending.order \notin late =>
         /\ OnlyPair(ExOf(f.pending.order), PairOf(f.pending.order))
         /\ i <= Len(books) => books[i].pair = PairOf(f.pending.order)

Good(f, i) == f \in Forms /\ OfSlot(f, i) /\ FetchedOfPair(f) /\ PlacedInPair(f, i)

\* The copy a frame works with may be older than the slots, but not other than they.
CopyOfSlots ==
    /\ Len(books) <= Len(slots)
    /\ \A i \in 1 .. Len(books) : books[i].ex = slots[i].ex

\* Nobody can type or apply a pair before the first frame has fetched.
FirstFrame ==
    /\ phase # "start" => fetched
    /\ ~fetched => applied = typed

IInv == TypeOK /\ CopyOfSlots /\ FirstFrame /\ \A i \in 1 .. MaxSlots : Good(forms[i], i)

(***************************************************************************)
(* Forms                                                                   *)
(***************************************************************************)

LEMMA Sizes ==
  MaxSlots \in Nat \ {0} /\ RingMax \in Nat \ {0} /\ EventsMax \in Nat \ {0} /\ Keyed \subseteq Exchanges
BY SlotsAssumption, PanelsAssumption

LEMMA OrderType == \A o \in Orders : ExOf(o) \in Keyed /\ PairOf(o) \in Pairs
BY DEF Orders, ExOf, PairOf

LEMMA RowTypes ==
  ASSUME NEW o \in Orders
  PROVE  /\ FetchedRow(o) \in Rows /\ FetchedRow(o).order = o /\ FetchedRow(o).symbol = PairOf(o)
         /\ \A p \in Pairs \cup {NoPair} :
              Row(o, p) \in Rows /\ Row(o, p).order = o /\ Row(o, p).symbol = p /\ ~Row(o, p).fetched
BY OrderType DEF FetchedRow, Row, Rows

\* The parts of a form.
LEMMA FormParts ==
  ASSUME NEW f \in Forms
  PROVE  /\ f.rows \subseteq Rows
         /\ f.pending = Idle \/ (f.pending.st \in {"sent", "ok", "fail"} /\ f.pending.order \in Orders)
         /\ f.fetch = Idle
              \/ (f.fetch.st = "sent" /\ f.fetch.ex \in Keyed /\ f.fetch.pair \in Pairs)
              \/ (f.fetch.st = "ok" /\ f.fetch.ids \subseteq Orders)
         /\ f.sweep = Idle \/ (f.sweep.st \in {"sent", "answered"} /\ f.sweep.ex \in Keyed)
BY DEF Forms

LEMMA IdleIsNone == Idle.st = "none" BY DEF Idle

LEMMA NewFormGood == \A i \in 1 .. MaxSlots : Good(NewForm, i)
<1>1. NewForm \in Forms BY DEF NewForm, Forms
<1>2. Concerns(NewForm) = {} BY IdleIsNone DEF Concerns, NewForm
<1> QED BY <1>1, <1>2, IdleIsNone DEF Good, OfSlot, FetchedOfPair, PlacedInPair, NewForm

LEMMA ForgetPending ==
  ASSUME NEW f \in Forms
  PROVE  LET g == [f EXCEPT !.pending = Idle] IN
         /\ g \in Forms /\ g.rows = f.rows /\ g.fetch = f.fetch /\ g.sweep = f.sweep /\ g.pending = Idle
BY DEF Forms

\* Adding rows to a form that is idle in one of its requests, or to any other.
LEMMA AddRows ==
  ASSUME NEW i \in 1 .. MaxSlots, NEW f, Good(f, i), NEW more \in SUBSET Rows,
         \A r \in more : /\ i <= Len(slots) /\ ExOf(r.order) = slots[i].ex
                         /\ r.fetched => r.symbol = applied
                         /\ r.symbol = PairOf(r.order) \/ r.order \in late
  PROVE  Good([f EXCEPT !.rows = @ \cup more], i)
<1> DEFINE g == [f EXCEPT !.rows = @ \cup more]
<1>1. f \in Forms BY DEF Good
<1>2. /\ g \in Forms /\ g.rows = f.rows \cup more
      /\ g.pending = f.pending /\ g.fetch = f.fetch /\ g.sweep = f.sweep
  BY <1>1 DEF Forms
<1> HIDE DEF g
<1>3. \A e \in Concerns(g) : e \in Concerns(f) \/ \E r \in more : e = ExOf(r.order)
  BY <1>2 DEF Concerns
<1>4. OfSlot(g, i) BY <1>3 DEF Good, OfSlot
<1>5. FetchedOfPair(g) BY <1>2 DEF Good, FetchedOfPair
<1>6. PlacedInPair(g, i) BY <1>2 DEF Good, PlacedInPair
<1> QED BY <1>2, <1>4, <1>5, <1>6 DEF Good, g

LEMMA DropRequest ==
  ASSUME NEW i \in 1 .. MaxSlots, NEW f, Good(f, i)
  PROVE  /\ Good([f EXCEPT !.pending = Idle], i)
         /\ Good([f EXCEPT !.fetch = Idle], i)
         /\ Good([f EXCEPT !.sweep = Idle], i)
<1>1. f \in Forms BY DEF Good
<1>2. ASSUME NEW g \in Forms, g.rows = f.rows,
             g.pending \in {f.pending, Idle}, g.fetch \in {f.fetch, Idle}, g.sweep \in {f.sweep, Idle}
      PROVE  Good(g, i)
  <2>1. Concerns(g) \subseteq Concerns(f) BY <1>2, IdleIsNone DEF Concerns
  <2>2. OfSlot(g, i) BY <2>1 DEF Good, OfSlot
  <2>3. FetchedOfPair(g) BY <1>2, IdleIsNone DEF Good, FetchedOfPair
  <2>4. PlacedInPair(g, i) BY <1>2, IdleIsNone DEF Good, PlacedInPair
  <2> QED BY <2>2, <2>3, <2>4 DEF Good
<1>3. /\ [f EXCEPT !.pending = Idle] \in Forms
      /\ [f EXCEPT !.fetch = Idle] \in Forms
      /\ [f EXCEPT !.sweep = Idle] \in Forms
  BY <1>1 DEF Forms
<1>4. DOMAIN f = {"rows", "pending", "fetch", "sweep"} BY <1>1 DEF Forms
<1>5. Good([f EXCEPT !.pending = Idle], i) BY <1>2, <1>3, <1>4
<1>6. Good([f EXCEPT !.fetch = Idle], i) BY <1>2, <1>3, <1>4
<1>7. Good([f EXCEPT !.sweep = Idle], i) BY <1>2, <1>3, <1>4
<1> QED BY <1>5, <1>6, <1>7

(***************************************************************************)
(* Polling                                                                 *)
(***************************************************************************)

LEMMA BookTypes ==
  ASSUME TypeOK
  PROVE  /\ Len(books) \in Nat /\ Len(slots) \in Nat /\ Len(books) <= MaxSlots
         /\ DOMAIN books = 1 .. Len(books) /\ DOMAIN slots = 1 .. Len(slots)
         /\ \A i \in 1 .. Len(books) : i \in 1 .. MaxSlots /\ books[i].pair \in Pairs \cup {NoPair} /\ books[i].ex \in Exchanges
         /\ \A i \in 1 .. Len(slots) : i \in 1 .. MaxSlots /\ slots[i].pair \in Pairs \cup {NoPair} /\ slots[i].ex \in Exchanges
<1>1. /\ books \in Seq(Books) /\ slots \in Seq(Books) /\ Len(books) <= Len(slots) /\ Len(slots) <= MaxSlots
  BY DEF TypeOK
<1>2. /\ Len(books) \in Nat /\ Len(slots) \in Nat
      /\ DOMAIN books = 1 .. Len(books) /\ DOMAIN slots = 1 .. Len(slots)
  BY <1>1
<1>3. /\ \A i \in 1 .. Len(books) : books[i] \in Books
      /\ \A i \in 1 .. Len(slots) : slots[i] \in Books
  BY <1>1
<1>4. Len(books) <= MaxSlots BY <1>1, <1>2, Sizes
<1>5. /\ \A i \in 1 .. Len(books) : i \in 1 .. MaxSlots
      /\ \A i \in 1 .. Len(slots) : i \in 1 .. MaxSlots
  BY <1>1, <1>2, <1>4, Sizes
<1> QED BY <1>2, <1>3, <1>4, <1>5 DEF Books

LEMMA PollPendingGood ==
  ASSUME TypeOK, NEW i \in 1 .. Len(books), NEW f, Good(f, i)
  PROVE  Good(PollPending(f, i), i)
<1>1. f \in Forms /\ i \in 1 .. MaxSlots BY BookTypes DEF Good
<1>2. CASE f.pending.st = "ok"
  <2> DEFINE r == RowOfPlaced(f, i)
             g == [f EXCEPT !.rows = @ \cup {r}]
  <2>1. f.pending # Idle /\ f.pending.order \in Orders BY <1>1, <1>2, FormParts, IdleIsNone
  <2>2. r \in Rows /\ r.order = f.pending.order /\ r.symbol = books[i].pair /\ ~r.fetched
    BY <2>1, RowTypes, BookTypes DEF RowOfPlaced
  <2>3. ExOf(f.pending.order) \in Concerns(f) BY <2>1 DEF Concerns
  <2>4. i <= Len(slots) /\ ExOf(r.order) = slots[i].ex BY <2>2, <2>3 DEF Good, OfSlot
  <2>5. r.symbol = PairOf(r.order) \/ r.order \in late BY <1>2, <2>2, BookTypes DEF Good, PlacedInPair
  <2> HIDE DEF r
  <2>6. Good(g, i) BY <1>1, <2>2, <2>4, <2>5, AddRows
  <2>7. PollPending(f, i) = [g EXCEPT !.pending = Idle] BY <1>1, <1>2 DEF PollPending, Forms, r
  <2> HIDE DEF g
  <2> QED BY <1>1, <2>6, <2>7, DropRequest
<1>3. CASE f.pending.st = "fail" BY <1>1, <1>3, DropRequest DEF PollPending
<1>4. CASE f.pending.st \notin {"ok", "fail"} BY <1>4 DEF PollPending
<1> QED BY <1>2, <1>3, <1>4

LEMMA PollFetchGood ==
  ASSUME NEW i \in 1 .. MaxSlots, NEW f, Good(f, i)
  PROVE  Good(PollFetch(f), i)
<1>1. f \in Forms BY DEF Good
<1>2. CASE f.fetch.st = "ok"
  <2> DEFINE more == {FetchedRow(o) : o \in f.fetch.ids}
             g == [f EXCEPT !.rows = @ \cup more]
  <2>1. f.fetch.ids \subseteq Orders BY <1>1, <1>2, FormParts, IdleIsNone
  <2>2. \A o \in f.fetch.ids : ExOf(o) \in Concerns(f) BY <1>2 DEF Concerns
  <2>3. \A o \in f.fetch.ids : /\ i <= Len(slots) /\ ExOf(o) = slots[i].ex
                               /\ PairOf(o) = applied
    BY <1>2, <2>2 DEF Good, OfSlot, FetchedOfPair
  <2>4. more \in SUBSET Rows BY <2>1, RowTypes
  <2>5. \A r \in more : /\ i <= Len(slots) /\ ExOf(r.order) = slots[i].ex
                        /\ r.fetched => r.symbol = applied
                        /\ r.symbol = PairOf(r.order) \/ r.order \in late
    BY <2>1, <2>3, RowTypes
  <2>6. PollFetch(f) = [g EXCEPT !.fetch = Idle] BY <1>1, <1>2 DEF PollFetch, Forms
  <2> HIDE DEF more
  <2>7. Good(g, i) BY <2>4, <2>5, AddRows
  <2> HIDE DEF g
  <2> QED BY <2>6, <2>7, DropRequest
<1>3. CASE f.fetch.st # "ok" BY <1>3 DEF PollFetch
<1> QED BY <1>2, <1>3

LEMMA PollSweepGood ==
  ASSUME NEW i \in 1 .. MaxSlots, NEW f, Good(f, i)
  PROVE  Good(PollSweep(f), i)
BY DropRequest DEF PollSweep

LEMMA PolledGood ==
  ASSUME TypeOK, \A i \in 1 .. MaxSlots : Good(forms[i], i)
  PROVE  \A i \in 1 .. MaxSlots : Good(Polled(i), i)
<1> SUFFICES ASSUME NEW i \in 1 .. MaxSlots PROVE Good(Polled(i), i) OBVIOUS
<1>1. CASE i > Len(books) BY <1>1 DEF Polled
<1>2. CASE i \in 1 .. Len(books)
  <2>1. Good(PollPending(forms[i], i), i) BY <1>2, PollPendingGood
  <2>2. Good(PollFetch(PollPending(forms[i], i)), i) BY <2>1, PollFetchGood
  <2>3. Good(PollSweep(PollFetch(PollPending(forms[i], i))), i) BY <2>2, PollSweepGood
  <2>4. ~(i > Len(books)) BY <1>2, BookTypes
  <2> QED BY <2>3, <2>4 DEF Polled
<1>3. i > Len(books) \/ i \in 1 .. Len(books) BY BookTypes
<1> QED BY <1>1, <1>2, <1>3

(***************************************************************************)
(* What leaves a good form good                                            *)
(***************************************************************************)

\* Nothing a form depends on has changed, but that an order more may be late.
LEMMA SameSurroundings ==
  ASSUME UNCHANGED <<slots, ring, applied, sub, books>>, late \subseteq late', NEW i, NEW f, Good(f, i)
  PROVE  Good(f, i)'
<1>1. OfSlot(f, i)' BY DEF Good, OfSlot
<1>2. FetchedOfPair(f)' BY DEF Good, FetchedOfPair
<1>3. PlacedInPair(f, i)' BY DEF Good, PlacedInPair, OnlyPair, SlotsOf
<1> QED BY <1>1, <1>2, <1>3 DEF Good

FormsGood == \A i \in 1 .. MaxSlots : Good(forms[i], i)

\* Steps that change forms and nothing that they depend on.
LEMMA FormsStep ==
  ASSUME UNCHANGED <<slots, ring, applied, sub, books>>, late \subseteq late',
         \A i \in 1 .. MaxSlots : Good(forms'[i], i)
  PROVE  FormsGood'
<1> SUFFICES ASSUME NEW i \in 1 .. MaxSlots PROVE Good(forms[i], i)' BY DEF FormsGood
<1>1. PICK f : f = forms'[i] OBVIOUS
<1>2. Good(f, i)' BY <1>1, SameSurroundings
<1> QED BY <1>1, <1>2 DEF Good, OfSlot, FetchedOfPair, PlacedInPair, Concerns

LEMMA EndFrameStep == IInv /\ EndFrame => IInv'
<1> SUFFICES ASSUME IInv, EndFrame PROVE IInv' OBVIOUS
<1> USE DEF IInv, EndFrame, feed
<1>1. \A i \in 1 .. MaxSlots : forms'[i] = Polled(i) OBVIOUS
<1>2. \A i \in 1 .. MaxSlots : Good(forms'[i], i) BY <1>1, PolledGood
<1>3. FormsGood' BY <1>2, FormsStep
<1>4. forms' \in [1 .. MaxSlots -> Forms] BY <1>1, <1>2 DEF Good
<1>5. TypeOK' BY <1>4 DEF TypeOK
<1>6. CopyOfSlots' BY DEF CopyOfSlots
<1>7. FirstFrame' BY DEF FirstFrame
<1> QED BY <1>3, <1>5, <1>6, <1>7 DEF FormsGood

LEMMA InitIInv == Init => IInv
<1> SUFFICES ASSUME Init PROVE IInv OBVIOUS
<1> USE Sizes, PanelsAssumption DEF Init
<1>1. NewForm \in Forms BY NewFormGood DEF Good
<1>2. slots \in Seq(Books) /\ Len(slots) = 0 OBVIOUS
<1>3. books \in Seq(Books) /\ Len(books) = 0 OBVIOUS
<1>4. ring \in Seq(Updates) /\ Len(ring) = 0 OBVIOUS
<1>5. events \in Seq(Orders) /\ Len(events) = 0 OBVIOUS
<1>6. forms \in [1 .. MaxSlots -> Forms] BY <1>1
<1>7. TypeOK
  <2>1. Len(slots) <= MaxSlots /\ Len(books) <= Len(slots) /\ Len(ring) <= RingMax /\ Len(events) <= EventsMax
    BY <1>2, <1>3, <1>4, <1>5
  <2>2. applied = typed /\ sub \in [Exchanges -> Pairs] /\ phase = "start" /\ typed \in Pairs /\ fetched = FALSE /\ late = {}
    OBVIOUS
  <2> QED BY <1>2, <1>3, <1>4, <1>5, <1>6, <2>1, <2>2 DEF TypeOK
<1>8. CopyOfSlots BY <1>2, <1>3 DEF CopyOfSlots
<1>9. FirstFrame BY DEF FirstFrame
<1>10. \A i \in 1 .. MaxSlots : Good(forms[i], i) BY NewFormGood
<1> QED BY <1>7, <1>8, <1>9, <1>10 DEF IInv

(***************************************************************************)
(* The feeds and the aggregator                                            *)
(***************************************************************************)

\* The slots may be updated and given away, but no form changes, and an exchange that had
\* only one pair to tell of still has.
LEMMA FeedStep ==
  ASSUME IInv, UNCHANGED <<applied, sub, books, forms, late>>,
         Len(slots) <= Len(slots'), \A i \in 1 .. Len(slots) : slots'[i].ex = slots[i].ex,
         \A e \in Exchanges, p \in Pairs : OnlyPair(e, p) => OnlyPair(e, p)',
         TypeOK'
  PROVE  FormsGood' /\ CopyOfSlots'
<1> USE DEF IInv
<1>1. Len(slots) \in Nat /\ Len(books) \in Nat /\ Len(slots') \in Nat
  BY BookTypes DEF TypeOK
<1>2. ASSUME NEW i \in 1 .. MaxSlots PROVE Good(forms[i], i)'
  <2> DEFINE f == forms[i]
  <2>1. f \in Forms /\ OfSlot(f, i) /\ FetchedOfPair(f) /\ PlacedInPair(f, i) BY DEF Good
  <2>2. i <= Len(slots) => i <= Len(slots') /\ slots'[i].ex = slots[i].ex BY <1>1
  <2>3. OfSlot(f, i)' BY <2>1, <2>2 DEF OfSlot, Concerns
  <2>4. FetchedOfPair(f)' BY <2>1 DEF FetchedOfPair
  <2>5. f.pending.st \in {"sent", "ok"} => ExOf(f.pending.order) \in Exchanges /\ PairOf(f.pending.order) \in Pairs
    BY <2>1, FormParts, OrderType, IdleIsNone, Sizes
  <2>6. PlacedInPair(f, i)' BY <2>1, <2>5 DEF PlacedInPair
  <2> QED BY <2>1, <2>3, <2>4, <2>6 DEF Good
<1>3. CopyOfSlots' BY <1>1 DEF CopyOfSlots
<1> QED BY <1>2, <1>3 DEF FormsGood

LEMMA PublishStep ==
  ASSUME NEW x \in Exchanges
  PROVE  IInv /\ Publish(x) => IInv'
<1> SUFFICES ASSUME IInv, Publish(x) PROVE IInv' OBVIOUS
<1> USE DEF IInv, Publish
<1> DEFINE u == [ex |-> x, pair |-> sub[x]]
<1>1. ring \in Seq(Updates) /\ u \in Updates /\ u.ex = x /\ u.pair = sub[x] BY DEF TypeOK, Updates
<1> HIDE DEF u
<1>2. ring' = Append(ring, u) BY DEF u
<1>3. ring' \in Seq(Updates) /\ Len(ring') <= RingMax BY <1>1, <1>2, Sizes
<1>4. TypeOK' BY <1>3 DEF TypeOK
<1>5. \A i \in DOMAIN ring' : (i \in DOMAIN ring /\ ring'[i] = ring[i]) \/ ring'[i] = u
  BY <1>1, <1>2
<1>6. \A e \in Exchanges, p \in Pairs : OnlyPair(e, p) => OnlyPair(e, p)'
  BY <1>1, <1>5 DEF OnlyPair, SlotsOf
<1>7. Len(slots) <= Len(slots') /\ \A i \in 1 .. Len(slots) : slots'[i].ex = slots[i].ex
  BY BookTypes
<1>8. FormsGood' /\ CopyOfSlots' BY <1>4, <1>6, <1>7, FeedStep
<1>9. FirstFrame' BY DEF FirstFrame
<1> QED BY <1>4, <1>8, <1>9 DEF FormsGood

\* update() finds the slot of its exchange or gives it the next one.
LEMMA UpdateSlots ==
  ASSUME TypeOK, NEW u \in Updates, Update(u)
  PROVE  /\ slots' \in Seq(Books) /\ Len(slots') <= MaxSlots /\ Len(slots) <= Len(slots')
         /\ \A i \in 1 .. Len(slots) : slots'[i].ex = slots[i].ex
         /\ \A i \in DOMAIN slots' : slots'[i] = u \/ (i \in DOMAIN slots /\ slots'[i] = slots[i])
<1>1. slots \in Seq(Books) /\ Len(slots) <= MaxSlots BY DEF TypeOK
<1>2. u \in Books BY DEF Updates, Books
<1>3. CASE \E i \in SlotsOf(slots, u.ex) : slots' = [slots EXCEPT ![i] = u]
  <2>1. PICK i \in DOMAIN slots : slots[i].ex = u.ex /\ slots' = [slots EXCEPT ![i] = u]
    BY <1>3 DEF SlotsOf
  <2> QED BY <1>1, <1>2, <2>1
<1>4. CASE slots' = Append(slots, u) /\ Len(slots) < MaxSlots
  BY <1>1, <1>2, <1>4, Sizes
<1>5. CASE slots' = slots BY <1>1, <1>5
<1> QED BY <1>3, <1>4, <1>5 DEF Update

LEMMA AggregateStep == IInv /\ Aggregate => IInv'
<1> SUFFICES ASSUME IInv, Aggregate PROVE IInv' OBVIOUS
<1> USE DEF IInv, Aggregate
<1>1. ring \in Seq(Updates) /\ ring # <<>> /\ Len(ring) <= RingMax BY DEF TypeOK
<1>2. Head(ring) = ring[1] /\ 1 \in DOMAIN ring /\ Head(ring) \in Updates BY <1>1
<1>3. ring' \in Seq(Updates) /\ Len(ring') <= RingMax BY <1>1, Sizes
<1>4. \A i \in DOMAIN ring' : i + 1 \in DOMAIN ring /\ ring'[i] = ring[i + 1] BY <1>1
<1>5. /\ slots' \in Seq(Books) /\ Len(slots') <= MaxSlots /\ Len(slots) <= Len(slots')
      /\ \A i \in 1 .. Len(slots) : slots'[i].ex = slots[i].ex
      /\ \A i \in DOMAIN slots' : slots'[i] = Head(ring) \/ (i \in DOMAIN slots /\ slots'[i] = slots[i])
  BY <1>2, UpdateSlots
<1>6. TypeOK'
  <2>1. Len(books) <= Len(slots') BY <1>5, BookTypes DEF TypeOK
  <2> QED BY <1>3, <1>5, <2>1 DEF TypeOK
<1>7. \A e \in Exchanges, p \in Pairs : OnlyPair(e, p) => OnlyPair(e, p)'
  <2> SUFFICES ASSUME NEW e \in Exchanges, NEW p \in Pairs, OnlyPair(e, p) PROVE OnlyPair(e, p)' OBVIOUS
  <2>1. \A i \in DOMAIN ring' : ring'[i].ex = e => ring'[i].pair = p BY <1>4 DEF OnlyPair
  <2>2. Head(ring).ex = e => Head(ring).pair = p BY <1>2 DEF OnlyPair
  <2>3. \A i \in DOMAIN slots' : slots'[i].ex = e => slots'[i].pair = p
    BY <1>5, <2>2 DEF OnlyPair, SlotsOf
  <2> QED BY <2>1, <2>3 DEF OnlyPair, SlotsOf
<1>8. FormsGood' /\ CopyOfSlots' BY <1>5, <1>6, <1>7, FeedStep
<1>9. FirstFrame' BY DEF FirstFrame
<1> QED BY <1>6, <1>8, <1>9 DEF FormsGood

(***************************************************************************)
(* The render thread                                                       *)
(***************************************************************************)

LEMMA TypeStep ==
  ASSUME NEW p \in Pairs
  PROVE  IInv /\ Type(p) => IInv'
<1> SUFFICES ASSUME IInv, Type(p) PROVE IInv' OBVIOUS
<1> USE DEF IInv, Type, feed
<1>1. TypeOK' BY DEF TypeOK
<1>2. FormsGood' BY FormsStep
<1>3. CopyOfSlots' BY DEF CopyOfSlots
<1>4. FirstFrame' BY DEF FirstFrame
<1> QED BY <1>1, <1>2, <1>3, <1>4 DEF FormsGood

LEMMA OrderEventStep ==
  ASSUME NEW o \in Orders
  PROVE  IInv /\ OrderEvent(o) => IInv'
<1> SUFFICES ASSUME IInv, OrderEvent(o) PROVE IInv' OBVIOUS
<1> USE DEF IInv, OrderEvent, feed
<1>1. events' \in Seq(Orders) /\ Len(events') <= EventsMax BY Sizes DEF TypeOK
<1>2. TypeOK' BY <1>1 DEF TypeOK
<1>3. FormsGood' BY FormsStep
<1>4. CopyOfSlots' BY DEF CopyOfSlots
<1>5. FirstFrame' BY DEF FirstFrame
<1> QED BY <1>2, <1>3, <1>4, <1>5 DEF FormsGood

\* Apply All leaves no form anything that could be of the old pair.
LEMMA ApplyAllStep == IInv /\ ApplyAll => IInv'
<1> SUFFICES ASSUME IInv, ApplyAll PROVE IInv' OBVIOUS
<1> USE DEF IInv, ApplyAll
<1>1. slots \in Seq(Books) /\ slots' = [i \in DOMAIN slots |-> [slots[i] EXCEPT !.pair = NoPair]]
  BY DEF TypeOK, ClearBooks
<1>2. DOMAIN slots = 1 .. Len(slots) /\ Len(slots) \in Nat /\ \A i \in DOMAIN slots : slots[i] \in Books
  BY <1>1
<1>3. slots' \in Seq(Books) /\ Len(slots') = Len(slots) /\ \A i \in DOMAIN slots : slots'[i].ex = slots[i].ex
  <2>1. \A i \in DOMAIN slots : slots'[i] \in Books /\ slots'[i].ex = slots[i].ex
    BY <1>1, <1>2 DEF Books
  <2>2. slots' \in [1 .. Len(slots) -> Books] BY <1>1, <1>2, <2>1
  <2> QED BY <1>2, <2>1, <2>2
<1>4. CopyOfSlots'
  <2>1. \A i \in 1 .. Len(books) : i \in DOMAIN slots BY <1>2, BookTypes DEF CopyOfSlots
  <2> QED BY <1>3, <2>1 DEF CopyOfSlots
<1>5. FirstFrame' BY DEF FirstFrame
<1>6. ASSUME NEW i \in 1 .. MaxSlots PROVE Good(forms[i], i)'
  <2>1. NewForm \in Forms /\ NewForm.rows = {} /\ NewForm.pending = Idle /\ NewForm.sweep = Idle /\ NewForm.fetch = Idle
    BY NewFormGood DEF Good, NewForm
  <2>2. CASE forms'[i] = NewForm
    <3>1. Concerns(forms'[i]) = {} BY <2>1, <2>2, IdleIsNone DEF Concerns
    <3> QED BY <2>1, <2>2, <3>1, IdleIsNone DEF Good, OfSlot, FetchedOfPair, PlacedInPair, Concerns
  <2>3. CASE /\ i <= Len(books) /\ books[i].ex \in Keyed
             /\ forms'[i] = [NewForm EXCEPT !.fetch = Fetch(books[i].ex, typed)]
    <3> DEFINE r == Fetch(books[i].ex, typed)
    <3>1. r.st = "sent" /\ r.ex = books[i].ex /\ r.pair = typed /\ r \in [st : {"sent"}, ex : Keyed, pair : Pairs]
      BY <2>3 DEF Fetch, TypeOK
    <3> HIDE DEF r
    <3>2. /\ forms'[i] \in Forms /\ forms'[i].fetch = r
          /\ forms'[i].rows = {} /\ forms'[i].pending = Idle /\ forms'[i].sweep = Idle
      BY <2>1, <2>3, <3>1 DEF Forms, r
    <3>3. Concerns(forms'[i]) = {books[i].ex} BY <3>1, <3>2 DEF Concerns
    <3>4. i \in 1 .. Len(books) /\ i <= Len(slots) BY <2>3, BookTypes DEF CopyOfSlots
    <3>5. i <= Len(slots') /\ slots'[i].ex = books[i].ex BY <1>2, <1>3, <3>4 DEF CopyOfSlots
    <3>6. OfSlot(forms[i], i)' BY <3>3, <3>5 DEF OfSlot, Concerns
    <3>7. books[i].ex \in Exchanges BY <3>4, BookTypes
    <3>8. FetchedOfPair(forms[i])' BY <3>1, <3>2, <3>7 DEF FetchedOfPair
    <3>9. PlacedInPair(forms[i], i)' BY <3>2, IdleIsNone DEF PlacedInPair
    <3> QED BY <3>2, <3>6, <3>8, <3>9 DEF Good
  <2> QED BY <2>2, <2>3 DEF ResetForm
<1>7. forms' \in [1 .. MaxSlots -> Forms] BY <1>6 DEF Good
<1>8. TypeOK'
  <2>1. applied' \in Pairs /\ sub' \in [Exchanges -> Pairs] BY DEF TypeOK, ChangeSymbols
  <2> QED BY <1>3, <1>7, <2>1 DEF TypeOK
<1> QED BY <1>4, <1>5, <1>6, <1>8

\* A frame begins with the slots as they are; events and the first fetch go to the forms of
\* their exchange.
LEMMA BeginFrameStep == IInv /\ BeginFrame => IInv'
<1> SUFFICES ASSUME IInv, BeginFrame PROVE IInv' OBVIOUS
<1> USE DEF IInv, BeginFrame, feed
<1>1. books' = slots /\ UNCHANGED <<slots, ring, applied, sub, late>> OBVIOUS
<1>2. \A i \in DOMAIN events : events[i] \in Orders BY DEF TypeOK
\* The copy is new: what OnlyPair says of the slots holds of it.
<1>3. ASSUME NEW i \in 1 .. MaxSlots, NEW f, Good(f, i)
      PROVE  Good(f, i)'
  <2>1. f \in Forms /\ OfSlot(f, i) /\ FetchedOfPair(f) /\ PlacedInPair(f, i) BY <1>3 DEF Good
  <2>2. OfSlot(f, i)' BY <1>1, <2>1 DEF OfSlot, Concerns
  <2>3. FetchedOfPair(f)' BY <1>1, <2>1 DEF FetchedOfPair
  <2>4. ASSUME f.pending.st \in {"sent", "ok"}, f.pending.order \notin late
        PROVE  /\ OnlyPair(ExOf(f.pending.order), PairOf(f.pending.order))'
               /\ i <= Len(books') => books'[i].pair = PairOf(f.pending.order)
    <3>1. f.pending # Idle BY <2>4, IdleIsNone
    <3>2. ExOf(f.pending.order) \in Concerns(f) BY <3>1 DEF Concerns
    <3>3. i \in 1 .. Len(slots) /\ slots[i].ex = ExOf(f.pending.order) BY <2>1, <3>2, BookTypes DEF OfSlot
    <3>4. OnlyPair(ExOf(f.pending.order), PairOf(f.pending.order)) BY <2>1, <2>4 DEF PlacedInPair
    <3>5. slots[i].pair = PairOf(f.pending.order) BY <3>3, <3>4, BookTypes DEF OnlyPair, SlotsOf
    <3>6. OnlyPair(ExOf(f.pending.order), PairOf(f.pending.order))' BY <1>1, <3>4 DEF OnlyPair, SlotsOf
    <3> QED BY <1>1, <3>5, <3>6
  <2>5. PlacedInPair(f, i)' BY <1>1, <2>1, <2>4 DEF PlacedInPair
  <2> QED BY <2>1, <2>2, <2>3, <2>5 DEF Good
<1>4. ASSUME NEW i \in 1 .. Len(slots)
      PROVE  /\ Good(Drained(i), i)
             /\ ~fetched /\ slots[i].ex \in Keyed => Good([Drained(i) EXCEPT !.fetch = Fetch(slots[i].ex, typed)], i)
  <2> DEFINE mine == {n \in DOMAIN events : ExOf(events[n]) = slots[i].ex}
             more == {EventRow(events[n]) : n \in mine}
             d == Drained(i)
             r == Fetch(slots[i].ex, typed)
             g == [d EXCEPT !.fetch = r]
  <2>1. d = [forms[i] EXCEPT !.rows = @ \cup more] BY <1>1 DEF Drained
  <2>2. more \in SUBSET Rows
    <3>1. \A n \in mine : EventRow(events[n]) \in Rows BY <1>2, OrderType, RowTypes DEF EventRow
    <3> QED BY <3>1
  <2>3. \A x \in more : /\ i <= Len(slots) /\ ExOf(x.order) = slots[i].ex
                        /\ x.fetched => x.symbol = applied
                        /\ x.symbol = PairOf(x.order) \/ x.order \in late
    <3> SUFFICES ASSUME NEW n \in mine
                 PROVE  LET x == EventRow(events[n]) IN
                        /\ i <= Len(slots) /\ ExOf(x.order) = slots[i].ex
                        /\ x.fetched => x.symbol = applied
                        /\ x.symbol = PairOf(x.order) \/ x.order \in late
      OBVIOUS
    <3> QED BY <1>2, OrderType, RowTypes, BookTypes DEF EventRow
  <2>4. i \in 1 .. MaxSlots /\ Good(forms[i], i) BY BookTypes
  <2> HIDE DEF more, d
  <2>5. Good(d, i) BY <2>1, <2>2, <2>3, <2>4, AddRows
  <2>6. ASSUME ~fetched, slots[i].ex \in Keyed PROVE Good(g, i)
    <3>1. r.st = "sent" /\ r.ex = slots[i].ex /\ r.pair = typed /\ r \in [st : {"sent"}, ex : Keyed, pair : Pairs]
      BY <2>6 DEF Fetch, TypeOK
    <3>2. d \in Forms BY <2>5 DEF Good
    <3> HIDE DEF r
    <3>3. g \in Forms /\ g.fetch = r /\ g.rows = d.rows /\ g.pending = d.pending /\ g.sweep = d.sweep
      BY <3>1, <3>2 DEF Forms
    <3> HIDE DEF g
    <3>4. Concerns(g) \subseteq Concerns(d) \cup {slots[i].ex} BY <3>1, <3>3 DEF Concerns
    <3>5. OfSlot(g, i) BY <2>5, <3>4, BookTypes DEF Good, OfSlot
    <3>6. applied = typed BY <2>6 DEF FirstFrame
    <3>7. FetchedOfPair(g) BY <2>5, <3>1, <3>3, <3>6 DEF Good, FetchedOfPair
    <3>8. PlacedInPair(g, i) BY <2>5, <3>3 DEF Good, PlacedInPair
    <3> QED BY <3>3, <3>5, <3>7, <3>8 DEF Good
  <2> QED BY <2>5, <2>6 DEF d
<1>5. ASSUME NEW i \in 1 .. MaxSlots PROVE Good(forms'[i], i)
  <2>1. CASE i > Len(slots) BY <1>1, <2>1
  <2>2. CASE i \in 1 .. Len(slots)
    <3>1. ~(i > Len(books')) BY <1>1, <2>2, BookTypes
    <3>2. CASE fetched \/ slots[i].ex \notin Keyed BY <1>1, <1>4, <2>2, <3>1, <3>2
    <3>3. CASE ~fetched /\ slots[i].ex \in Keyed BY <1>1, <1>4, <2>2, <3>1, <3>3
    <3> QED BY <3>2, <3>3
  <2>3. i > Len(slots) \/ i \in 1 .. Len(slots) BY BookTypes
  <2> QED BY <2>1, <2>2, <2>3
<1>6. FormsGood'
  <2> SUFFICES ASSUME NEW i \in 1 .. MaxSlots PROVE Good(forms[i], i)' BY DEF FormsGood
  <2>1. PICK f : f = forms'[i] OBVIOUS
  <2>2. Good(f, i)' BY <1>3, <1>5, <2>1
  <2> QED BY <2>1, <2>2 DEF Good, OfSlot, FetchedOfPair, PlacedInPair, Concerns
<1>7. TypeOK'
  <2>1. forms' \in [1 .. MaxSlots -> Forms] BY <1>5 DEF Good
  <2>2. events' \in Seq(Orders) /\ Len(events') <= EventsMax BY Sizes
  <2>3. Len(books') <= Len(slots') BY <1>1, BookTypes
  <2> QED BY <2>1, <2>2, <2>3 DEF TypeOK
<1>8. CopyOfSlots' BY <1>1, BookTypes DEF CopyOfSlots
<1>9. FirstFrame' BY DEF FirstFrame
<1> QED BY <1>6, <1>7, <1>8, <1>9 DEF FormsGood

\* The form of a clicked panel: a request for an order of the pair that is shown.
LEMMA ClickedFormGood ==
  ASSUME UNCHANGED <<slots, ring, applied, sub, books>>, late \subseteq late',
         NEW i \in 1 .. MaxSlots, i <= Len(slots),
         NEW o \in Orders, ExOf(o) = slots[i].ex, PairOf(o) = books[i].pair,
         o \notin late' => OnlyPair(ExOf(o), PairOf(o)),
         NEW f, Good(f, i), NEW g \in Forms,
         g.rows = f.rows, g.fetch = f.fetch, g.sweep = f.sweep,
         g.pending.st = "sent", g.pending.order = o
  PROVE  Good(g, i)'
<1>1. \A x \in Concerns(g) : x \in Concerns(f) \/ x = ExOf(o) BY DEF Concerns
<1>2. OfSlot(g, i) BY <1>1 DEF Good, OfSlot
<1>3. OfSlot(g, i)' BY <1>2 DEF OfSlot
<1>4. FetchedOfPair(g)' BY DEF Good, FetchedOfPair
<1>5. OnlyPair(ExOf(o), PairOf(o))' <=> OnlyPair(ExOf(o), PairOf(o)) BY DEF OnlyPair, SlotsOf
<1>6. PlacedInPair(g, i)' BY <1>5 DEF Good, PlacedInPair
<1> QED BY <1>3, <1>4, <1>6 DEF Good

LEMMA ClickPlaceStep ==
  ASSUME NEW i \in DOMAIN books
  PROVE  IInv /\ ClickPlace(i) => IInv'
<1> SUFFICES ASSUME IInv, ClickPlace(i) PROVE IInv' OBVIOUS
<1> USE DEF IInv, ClickPlace, feed
<1> DEFINE e == books[i].ex
           p == books[i].pair
           o == <<e, p>>
           r == [st |-> "sent", order |-> o]
           f == Polled(i)
           g == [f EXCEPT !.pending = r]
<1>1. i \in 1 .. Len(books) /\ i \in 1 .. MaxSlots /\ p \in Pairs /\ e \in Keyed BY BookTypes
<1>2. o \in Orders /\ ExOf(o) = e /\ PairOf(o) = p BY <1>1 DEF Orders, ExOf, PairOf
<1>3. \A j \in 1 .. MaxSlots : Good(Polled(j), j) BY PolledGood
<1>4. Good(f, i) /\ f \in Forms BY <1>1, <1>3 DEF Good
<1>5. /\ forms' = [j \in 1 .. MaxSlots |-> IF j = i THEN g ELSE Polled(j)]
      /\ late' = IF OnlyPair(e, p) THEN late ELSE late \cup {o}
      /\ UNCHANGED <<slots, ring, applied, sub, books, typed, fetched, events>> /\ phase' = "start" /\ phase = "bar"
  BY <1>2
<1>6. r.st = "sent" /\ r.order = o /\ r \in [st : {"sent", "ok", "fail"}, order : Orders] BY <1>2
<1> HIDE DEF r, f, o
<1>7. g \in Forms /\ g.pending = r /\ g.rows = f.rows /\ g.fetch = f.fetch /\ g.sweep = f.sweep
  BY <1>4, <1>6 DEF Forms
<1> HIDE DEF g
<1>8. i <= Len(slots) /\ slots[i].ex = e BY <1>1, BookTypes DEF CopyOfSlots
<1>9. late \subseteq late' BY <1>5
<1>10. PICK h : h = g OBVIOUS
<1>11. Good(h, i)'
  BY <1>1, <1>2, <1>4, <1>5, <1>6, <1>7, <1>8, <1>9, <1>10, ClickedFormGood
<1>12. ASSUME NEW j \in 1 .. MaxSlots PROVE Good(forms[j], j)'
  <2>1. CASE j = i
    <3>1. forms'[i] = h BY <1>5, <1>10, <2>1
    <3> QED BY <1>11, <2>1, <3>1 DEF Good, OfSlot, FetchedOfPair, PlacedInPair, Concerns
  <2>2. CASE j # i
    <3>1. PICK k : k = Polled(j) OBVIOUS
    <3>2. Good(k, j) BY <1>3, <3>1
    <3>3. Good(k, j)' BY <1>5, <1>9, <3>2, SameSurroundings
    <3>4. forms'[j] = k BY <1>5, <2>2, <3>1
    <3> QED BY <3>3, <3>4 DEF Good, OfSlot, FetchedOfPair, PlacedInPair, Concerns
  <2> QED BY <2>1, <2>2
<1>13. TypeOK'
  <2>1. forms' \in [1 .. MaxSlots -> Forms] BY <1>3, <1>5, <1>7 DEF Good
  <2>2. late' \subseteq Orders BY <1>2, <1>5 DEF TypeOK
  <2> QED BY <1>5, <2>1, <2>2 DEF TypeOK
<1>14. CopyOfSlots' BY <1>5 DEF CopyOfSlots
<1>15. FirstFrame' BY <1>5 DEF FirstFrame
<1> QED BY <1>12, <1>13, <1>14, <1>15

LEMMA ClickCancelAllStep ==
  ASSUME NEW i \in DOMAIN books
  PROVE  IInv /\ ClickCancelAll(i) => IInv'
<1> SUFFICES ASSUME IInv, ClickCancelAll(i) PROVE IInv' OBVIOUS
<1> USE DEF IInv, ClickCancelAll, feed
<1> DEFINE e == books[i].ex
           r == [st |-> "sent", ex |-> e]
           f == Polled(i)
           g == [f EXCEPT !.sweep = r]
<1>1. i \in 1 .. Len(books) /\ i \in 1 .. MaxSlots /\ e \in Keyed BY BookTypes
<1>2. \A j \in 1 .. MaxSlots : Good(Polled(j), j) BY PolledGood
<1>3. Good(f, i) /\ f \in Forms BY <1>1, <1>2 DEF Good
<1>4. forms' = [j \in 1 .. MaxSlots |-> IF j = i THEN g ELSE Polled(j)] OBVIOUS
<1>5. r.ex = e /\ r \in [st : {"sent", "answered"}, ex : Keyed] BY <1>1 DEF TypeOK
<1> HIDE DEF r, f
<1>6. g \in Forms /\ g.sweep = r /\ g.rows = f.rows /\ g.fetch = f.fetch /\ g.pending = f.pending
  BY <1>3, <1>5 DEF Forms
<1> HIDE DEF g
<1>7. Concerns(g) \subseteq Concerns(f) \cup {e} BY <1>5, <1>6 DEF Concerns
<1>8. i <= Len(slots) /\ slots[i].ex = e BY <1>1, BookTypes DEF CopyOfSlots
<1>9. OfSlot(g, i) BY <1>3, <1>7, <1>8 DEF Good, OfSlot
<1>10. FetchedOfPair(g) BY <1>3, <1>6 DEF Good, FetchedOfPair
<1>11. PlacedInPair(g, i) BY <1>3, <1>6 DEF Good, PlacedInPair
<1>12. \A j \in 1 .. MaxSlots : Good(forms'[j], j) BY <1>2, <1>4, <1>6, <1>9, <1>10, <1>11 DEF Good
<1>13. FormsGood' BY <1>12, FormsStep
<1>14. forms' \in [1 .. MaxSlots -> Forms] BY <1>4, <1>12 DEF Good
<1>15. TypeOK' BY <1>14 DEF TypeOK
<1>16. CopyOfSlots' BY DEF CopyOfSlots
<1>17. FirstFrame' BY DEF FirstFrame
<1> QED BY <1>13, <1>15, <1>16, <1>17 DEF FormsGood

(***************************************************************************)
(* Answers                                                                 *)
(***************************************************************************)

\* An answer changes one form, in one of its requests.
LEMMA AnswerStep ==
  ASSUME NEW i \in 1 .. MaxSlots, IInv, NEW g, Good(g, i), forms' = [forms EXCEPT ![i] = g],
         UNCHANGED <<feed, applied, sub, phase, books, typed, fetched, events, late>>
  PROVE  IInv'
<1> USE DEF IInv, feed
<1>1. forms \in [1 .. MaxSlots -> Forms] BY DEF TypeOK
<1>2. \A j \in 1 .. MaxSlots : Good(forms'[j], j) BY <1>1
<1>3. FormsGood' BY <1>2, FormsStep
<1>4. forms' \in [1 .. MaxSlots -> Forms] BY <1>1, <1>2 DEF Good
<1>5. TypeOK' BY <1>4 DEF TypeOK
<1>6. CopyOfSlots' BY DEF CopyOfSlots
<1>7. FirstFrame' BY DEF FirstFrame
<1> QED BY <1>3, <1>5, <1>6, <1>7 DEF FormsGood

LEMMA PlaceAnsweredStep ==
  ASSUME NEW i \in 1 .. MaxSlots
  PROVE  IInv /\ PlaceAnswered(i) => IInv'
<1> SUFFICES ASSUME IInv, PlaceAnswered(i) PROVE IInv' OBVIOUS
<1> DEFINE f == forms[i]
<1>1. f \in Forms /\ Good(f, i) /\ f.pending.st = "sent" BY DEF IInv, Good, PlaceAnswered
<1>2. PICK st \in {"ok", "fail"} : forms' = [forms EXCEPT ![i].pending.st = st] BY DEF PlaceAnswered
<1> DEFINE r == [f.pending EXCEPT !.st = st]
           g == [f EXCEPT !.pending = r]
<1>3. forms' = [forms EXCEPT ![i] = g] BY <1>2
<1>4. f.pending # Idle /\ f.pending \in [st : {"sent", "ok", "fail"}, order : Orders]
  BY <1>1, IdleIsNone DEF Forms
<1>5. r.st = st /\ r.order = f.pending.order /\ r \in [st : {"sent", "ok", "fail"}, order : Orders]
  BY <1>4
<1> HIDE DEF r, f
<1>6. g \in Forms /\ g.pending = r /\ g.rows = f.rows /\ g.fetch = f.fetch /\ g.sweep = f.sweep
  BY <1>1, <1>5 DEF Forms
<1> HIDE DEF g
<1>7. Concerns(g) \subseteq Concerns(f) BY <1>4, <1>5, <1>6 DEF Concerns
<1>8. OfSlot(g, i) BY <1>1, <1>7 DEF Good, OfSlot
<1>9. FetchedOfPair(g) BY <1>1, <1>6 DEF Good, FetchedOfPair
<1>10. PlacedInPair(g, i) BY <1>1, <1>5, <1>6 DEF Good, PlacedInPair
<1>11. Good(g, i) BY <1>6, <1>8, <1>9, <1>10 DEF Good
<1> QED BY <1>3, <1>11, AnswerStep DEF PlaceAnswered

LEMMA SweepAnsweredStep ==
  ASSUME NEW i \in 1 .. MaxSlots
  PROVE  IInv /\ SweepAnswered(i) => IInv'
<1> SUFFICES ASSUME IInv, SweepAnswered(i) PROVE IInv' OBVIOUS
<1> DEFINE f == forms[i]
           r == [f.sweep EXCEPT !.st = "answered"]
           g == [f EXCEPT !.sweep = r]
<1>1. f \in Forms /\ Good(f, i) /\ f.sweep.st = "sent" BY DEF IInv, Good, SweepAnswered
<1>2. forms' = [forms EXCEPT ![i] = g] BY DEF SweepAnswered
<1>3. f.sweep # Idle /\ f.sweep \in [st : {"sent", "answered"}, ex : Keyed]
  BY <1>1, IdleIsNone DEF Forms
<1>4. r.ex = f.sweep.ex /\ r \in [st : {"sent", "answered"}, ex : Keyed]
  BY <1>3
<1> HIDE DEF r, f
<1>5. g \in Forms /\ g.sweep = r /\ g.rows = f.rows /\ g.fetch = f.fetch /\ g.pending = f.pending
  BY <1>1, <1>4 DEF Forms
<1> HIDE DEF g
<1>6. Concerns(g) \subseteq Concerns(f) BY <1>3, <1>4, <1>5 DEF Concerns
<1>7. OfSlot(g, i) BY <1>1, <1>6 DEF Good, OfSlot
<1>8. FetchedOfPair(g) BY <1>1, <1>5 DEF Good, FetchedOfPair
<1>9. PlacedInPair(g, i) BY <1>1, <1>5 DEF Good, PlacedInPair
<1>10. Good(g, i) BY <1>5, <1>7, <1>8, <1>9 DEF Good
<1> QED BY <1>2, <1>10, AnswerStep DEF SweepAnswered

\* The answer to a fetch lists orders of the exchange and the pair that were asked for.
LEMMA FetchAnsweredStep ==
  ASSUME NEW i \in 1 .. MaxSlots
  PROVE  IInv /\ FetchAnswered(i) => IInv'
<1> SUFFICES ASSUME IInv, FetchAnswered(i) PROVE IInv' OBVIOUS
<1> DEFINE f == forms[i]
           o == <<f.fetch.ex, f.fetch.pair>>
<1>1. f \in Forms /\ Good(f, i) /\ f.fetch.st = "sent" BY DEF IInv, Good, FetchAnswered
<1>2. PICK ids \in {{}, {o}} : forms' = [forms EXCEPT ![i].fetch = [st |-> "ok", ids |-> ids]]
  BY DEF FetchAnswered
<1> DEFINE r == [st |-> "ok", ids |-> ids]
           g == [f EXCEPT !.fetch = r]
<1>3. forms' = [forms EXCEPT ![i] = g] BY <1>2
<1>4. f.fetch.ex \in Keyed /\ f.fetch.pair \in Pairs BY <1>1, FormParts, IdleIsNone
<1>5. o \in Orders /\ ExOf(o) = f.fetch.ex /\ PairOf(o) = f.fetch.pair
  BY <1>4 DEF Orders, ExOf, PairOf
<1>6. r.st = "ok" /\ r.ids = ids /\ ids \subseteq {o} /\ r \in [st : {"ok"}, ids : SUBSET Orders]
  BY <1>2, <1>5
<1> HIDE DEF r, f, o
<1>7. g \in Forms /\ g.fetch = r /\ g.rows = f.rows /\ g.pending = f.pending /\ g.sweep = f.sweep
  BY <1>1, <1>6 DEF Forms
<1> HIDE DEF g
<1>8. Concerns(g) \subseteq Concerns(f) BY <1>1, <1>5, <1>6, <1>7 DEF Concerns
<1>9. OfSlot(g, i) BY <1>1, <1>8 DEF Good, OfSlot
<1>10. FetchedOfPair(g) BY <1>1, <1>5, <1>6, <1>7 DEF Good, FetchedOfPair
<1>11. PlacedInPair(g, i) BY <1>1, <1>7 DEF Good, PlacedInPair
<1>12. Good(g, i) BY <1>7, <1>9, <1>10, <1>11 DEF Good
<1> QED BY <1>3, <1>12, AnswerStep DEF FetchAnswered

(***************************************************************************)
(* Theorems                                                                *)
(***************************************************************************)

LEMMA StutterStep == IInv /\ UNCHANGED vars => IInv'
<1> SUFFICES ASSUME IInv, UNCHANGED vars PROVE IInv' OBVIOUS
<1> USE DEF IInv, vars, feed
<1>1. TypeOK' BY DEF TypeOK
<1>2. FormsGood' BY FormsStep
<1>3. CopyOfSlots' BY DEF CopyOfSlots
<1>4. FirstFrame' BY DEF FirstFrame
<1> QED BY <1>1, <1>2, <1>3, <1>4 DEF FormsGood

LEMMA NextIInv == IInv /\ [Next]_vars => IInv'
BY PublishStep, AggregateStep, BeginFrameStep, TypeStep, ApplyAllStep, EndFrameStep,
   ClickPlaceStep, ClickCancelAllStep, PlaceAnsweredStep, FetchAnsweredStep,
   SweepAnsweredStep, OrderEventStep, StutterStep
   DEF Next

\* The inductive invariant holds in every state.
THEOREM Invariance == Spec => []IInv
BY InitIInv, NextIInv, PTL DEF Spec

\* Slots, copies, forms and both queues have the values render_run and the aggregator can
\* give them, within their bounds.
THEOREM TypeCorrect == Spec => []TypeOK
<1>1. IInv => TypeOK BY DEF IInv
<1> QED BY <1>1, Invariance, PTL

\* g_forms is indexed by slot: whatever the order in which exchanges send their first update
\* and however often Apply All clears the books, a form never holds or asks for anything of
\* another exchange than the one drawn above it.
THEOREM FormsKeepExchange == Spec => []FormsKeepTheirExchange
<1>1. IInv => FormsKeepTheirExchange
  <2> SUFFICES ASSUME IInv, NEW i \in 1 .. MaxSlots, Concerns(forms[i]) # {}
               PROVE  i <= Len(slots) /\ Concerns(forms[i]) = {slots[i].ex}
    BY DEF FormsKeepTheirExchange, Concerns
  <2>1. OfSlot(forms[i], i) BY DEF IInv, Good
  <2> QED BY <2>1 DEF OfSlot
<1> QED BY <1>1, Invariance, PTL

\* draw_order_form names the row of a placed order after the pair the panel shows when the
\* answer is polled, and is right unless the order was placed while another pair was
\* followed or on its way to the panel.
THEOREM RowsAreNamedRight == Spec => []RowsNameTheirPair
<1>1. IInv => RowsNameTheirPair BY DEF IInv, Good, PlacedInPair, RowsNameTheirPair
<1> QED BY <1>1, Invariance, PTL

\* Apply All: a fetch asked for the old pair is waited for and its answer dropped, so that
\* every row that came with an answer is of the pair applied last.
THEOREM FetchedRowsAreCurrent == Spec => []FetchedOrdersAreOfPair
<1>1. IInv => FetchedOrdersAreOfPair BY DEF IInv, Good, FetchedOfPair, FetchedOrdersAreOfPair
<1> QED BY <1>1, Invariance, PTL

=============================================================================
