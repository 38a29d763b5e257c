------------------------------- MODULE Panels -------------------------------
(***************************************************************************)
(* The panels of several exchanges side by side (render_run and what it    *)
(* calls in ui/render.cpp): which form belongs to which exchange, and      *)
(* which pair requests, answers, events and rows are about, while pairs    *)
(* are typed and applied and exchanges appear one after the other.         *)
(* The orders of an exchange for one pair are not told apart, nor the rows *)
(* of such orders: what becomes of an order, whether its row is open, and  *)
(* which rows are merged or dropped, is in OrderPanel with single cancels; *)
(* the steps inside a switch are in SymbolSwitch.                          *)
(***************************************************************************)
EXTENDS SharedDisplay

CONSTANTS
    Keyed,      \* exchanges with API keys
    Default,    \* the pair everything starts with
    MayBeDown,  \* exchanges whose handler may be without a connection
    RingMax,    \* updates on their way from the handlers to the display
    EventsMax   \* order events on their way to the render thread

ASSUME PanelsAssumption ==
    /\ Keyed \subseteq Exchanges /\ MayBeDown \subseteq Exchanges /\ Default \in Pairs
    /\ RingMax \in Nat \ {0} /\ EventsMax \in Nat \ {0}

VARIABLES
    ring,
    applied,    \* the pair of the last Apply All
    sub,        \* the pair each handler follows
    phase,
    books,      \* the copy of the slots this frame works with
    typed,      \* g_base and g_quote, applied or not
    fetched,    \* initial_fetch_done
    forms,      \* g_forms, by slot
    events,     \* SharedOrderEvents, and events on their way to it
    late        \* history: orders placed while another pair was followed or on its way

feed == <<slots, ring>>
vars == <<feed, applied, sub, phase, books, typed, fetched, forms, events, late>>

Orders == Keyed \X Pairs
ExOf(o) == o[1]
PairOf(o) == o[2]

\* PlacedOrder: symbol is what the row says; fetched, that it came with an answer to a fetch.
Row(o, p)     == [order |-> o, symbol |-> p, fetched |-> FALSE]
FetchedRow(o) == [order |-> o, symbol |-> PairOf(o), fetched |-> TRUE]
Rows == [order : Orders, symbol : Pairs \cup {NoPair}, fetched : BOOLEAN]

Idle  == [st |-> "none"]
Forms ==
    [rows    : SUBSET Rows,
     pending : {Idle} \cup [st : {"sent", "ok", "fail"}, order : Orders],
     fetch   : {Idle} \cup [st : {"sent"}, ex : Keyed, pair : Pairs]
                      \cup [st : {"ok"}, ids : SUBSET Orders],
     sweep   : {Idle} \cup [st : {"sent", "answered"}, ex : Keyed]]
NewForm == [rows |-> {}, pending |-> Idle, fetch |-> Idle, sweep |-> Idle]

TypeOK ==
    /\ slots \in Seq(Books) /\ Len(slots) <= MaxSlots
    /\ books \in Seq(Books) /\ Len(books) <= Len(slots)
    /\ ring \in Seq(Updates) /\ Len(ring) <= RingMax
    /\ applied \in Pairs /\ sub \in [Exchanges -> Pairs]
    /\ phase \in {"start", "bar", "panels"}
    /\ typed \in Pairs /\ fetched \in BOOLEAN
    /\ forms \in [1 .. MaxSlots -> Forms]
    /\ events \in Seq(Orders) /\ Len(events) <= EventsMax
    /\ late \subseteq Orders

Init ==
    /\ slots = <<>> /\ ring = <<>> /\ books = <<>>
    /\ sub = [e \in Exchanges |-> Default] /\ applied = Default /\ typed = Default
    /\ phase = "start" /\ fetched = FALSE
    /\ forms = [i \in 1 .. MaxSlots |-> NewForm]
    /\ events = <<>> /\ late = {}

-----------------------------------------------------------------------------
(* The feeds and the aggregator *)

Publish(e) ==
    /\ Len(ring) < RingMax
    /\ ring' = Append(ring, [ex |-> e, pair |-> sub[e]])
    /\ UNCHANGED <<slots, applied, sub, phase, books, typed, fetched, forms, events, late>>

Aggregate ==
    /\ ring # <<>>
    /\ Update(Head(ring))
    /\ ring' = Tail(ring)
    /\ UNCHANGED <<applied, sub, phase, books, typed, fetched, forms, events, late>>

-----------------------------------------------------------------------------
(* A frame of the render thread *)

Fetch(e, p) == [st |-> "sent", ex |-> e, pair |-> p]

\* Faulty variants: rows named after what is typed; rows that Apply All keeps.
PlacedRow(f, i) == Row(f.pending.order, typed)
KeepRows(i) == [NewForm EXCEPT !.rows = forms[i].rows]

\* The row an event finds or adds is named after the pair the event names.
EventRow(o) == Row(o, PairOf(o))

\* The events of other exchanges, those without a panel included, pass the form by.
Drained(i) ==
    LET mine == {n \in DOMAIN events : ExOf(events[n]) = books'[i].ex}
    IN  [forms[i] EXCEPT !.rows = @ \cup {EventRow(events[n]) : n \in mine}]

\* Snapshot, drained events, and in the first frame the fetch of what is open.
BeginFrame ==
    /\ phase = "start"
    /\ books' = slots
    /\ forms' = [i \in 1 .. MaxSlots |->
         IF i > Len(books') THEN forms[i]
         ELSE IF fetched \/ books'[i].ex \notin Keyed THEN Drained(i)
         ELSE [Drained(i) EXCEPT !.fetch = Fetch(books'[i].ex, typed)]]
    /\ events' = <<>>
    /\ fetched' = TRUE
    /\ phase' = "bar"
    /\ UNCHANGED <<feed, applied, sub, typed, late>>

Type(p) ==
    /\ phase = "bar"
    /\ typed' = p
    /\ phase' = "panels"
    /\ UNCHANGED <<feed, applied, sub, books, fetched, forms, events, late>>

\* What Apply All leaves of a form: nothing.
ResetForm(i) == NewForm

\* A form is replaced once its requests have been answered: the destructors wait.
Waiting(f) == \E c \in {f.pending, f.fetch, f.sweep} : c.st = "sent"

\* change_symbol of each handler: one that is not connected yet, or no longer, keeps its
\* pair.
ChangeSymbols(p) ==
    \E down \in SUBSET MayBeDown :
        sub' = [e \in Exchanges |-> IF e \in down THEN sub[e] ELSE p]

ApplyAll ==
    /\ phase = "bar"
    /\ \A i \in 1 .. MaxSlots : ~Waiting(forms[i])
    /\ ClearBooks
    /\ applied' = typed
    /\ ChangeSymbols(typed)
    /\ forms' = [i \in 1 .. MaxSlots |->
         IF i <= Len(books) /\ books[i].ex \in Keyed
         THEN [ResetForm(i) EXCEPT !.fetch = Fetch(books[i].ex, typed)]
         ELSE ResetForm(i)]
    /\ phase' = "panels"
    /\ UNCHANGED <<ring, books, typed, fetched, events, late>>

-----------------------------------------------------------------------------
(* The panels: every answer is polled, and a button clicked unless there was *)
(* a click in the symbol bar.                                                *)

\* The row of a placed order is named after the pair the panel shows now.
RowOfPlaced(f, i) == Row(f.pending.order, books[i].pair)

PollPending(f, i) ==
    CASE f.pending.st = "ok"   -> [f EXCEPT !.rows = @ \cup {RowOfPlaced(f, i)}, !.pending = Idle]
      [] f.pending.st = "fail" -> [f EXCEPT !.pending = Idle]
      [] OTHER                 -> f

PollFetch(f) ==
    IF f.fetch.st # "ok" THEN f
    ELSE [f EXCEPT !.rows = @ \cup {FetchedRow(o) : o \in f.fetch.ids}, !.fetch = Idle]

PollSweep(f) == IF f.sweep.st = "answered" THEN [f EXCEPT !.sweep = Idle] ELSE f

Polled(i) == IF i > Len(books) THEN forms[i]
             ELSE PollSweep(PollFetch(PollPending(forms[i], i)))

EndFrame ==
    /\ phase \in {"bar", "panels"}
    /\ forms' = [i \in 1 .. MaxSlots |-> Polled(i)]
    /\ phase' = "start"
    /\ UNCHANGED <<feed, applied, sub, books, typed, fetched, events, late>>

OnlyPair(e, p) ==
    /\ sub[e] = p
    /\ \A i \in DOMAIN ring : ring[i].ex = e => ring[i].pair = p
    /\ \A i \in SlotsOf(slots, e) : slots[i].pair = p

\* The order is for the pair the panel shows.  (A request that names no pair is refused.)
ClickPlace(i) ==
    /\ phase = "bar"
    /\ books[i].ex \in Keyed /\ books[i].pair # NoPair
    /\ Polled(i).pending = Idle
    /\ LET o == <<books[i].ex, books[i].pair>> IN
         /\ forms' = [j \in 1 .. MaxSlots |->
              IF j = i THEN [Polled(i) EXCEPT !.pending = [st |-> "sent", order |-> o]] ELSE Polled(j)]
         /\ late' = IF OnlyPair(ExOf(o), PairOf(o)) THEN late ELSE late \cup {o}
    /\ phase' = "start"
    /\ UNCHANGED <<feed, applied, sub, books, typed, fetched, events>>

\* All orders of the pair that is typed; nothing here depends on which that is.
ClickCancelAll(i) ==
    /\ phase = "bar"
    /\ books[i].ex \in Keyed
    /\ Polled(i).sweep = Idle
    /\ Polled(i).rows # {}
    /\ forms' = [j \in 1 .. MaxSlots |->
         IF j = i THEN [Polled(i) EXCEPT !.sweep = [st |-> "sent", ex |-> books[i].ex]]
                  ELSE Polled(j)]
    /\ phase' = "start"
    /\ UNCHANGED <<feed, applied, sub, books, typed, fetched, events, late>>

-----------------------------------------------------------------------------
(* The exchanges (external): any request may succeed or fail, and orders of  *)
(* any pair, placed here or elsewhere, cause events at any time.             *)

OrderEvent(o) ==
    /\ Len(events) < EventsMax
    /\ events' = Append(events, o)
    /\ UNCHANGED <<feed, applied, sub, phase, books, typed, fetched, forms, late>>

PlaceAnswered(i) ==
    /\ forms[i].pending.st = "sent"
    /\ \E st \in {"ok", "fail"} : forms' = [forms EXCEPT ![i].pending.st = st]
    /\ UNCHANGED <<feed, applied, sub, phase, books, typed, fetched, events, late>>

FetchAnswered(i) ==
    /\ forms[i].fetch.st = "sent"
    /\ \E ids \in {{}, {<<forms[i].fetch.ex, forms[i].fetch.pair>>}} :
         forms' = [forms EXCEPT ![i].fetch = [st |-> "ok", ids |-> ids]]
    /\ UNCHANGED <<feed, applied, sub, phase, books, typed, fetched, events, late>>

SweepAnswered(i) ==
    /\ forms[i].sweep.st = "sent"
    /\ forms' = [forms EXCEPT ![i].sweep.st = "answered"]
    /\ UNCHANGED <<feed, applied, sub, phase, books, typed, fetched, events, late>>

-----------------------------------------------------------------------------
Next ==
    \/ (\E e \in Exchanges : Publish(e)) \/ Aggregate
    \/ BeginFrame \/ (\E p \in Pairs : Type(p)) \/ ApplyAll \/ EndFrame
    \/ \E i \in DOMAIN books : ClickPlace(i) \/ ClickCancelAll(i)
    \/ \E i \in 1 .. MaxSlots : PlaceAnswered(i) \/ FetchAnswered(i) \/ SweepAnswered(i)
    \/ \E o \in Orders : OrderEvent(o)

Spec == Init /\ [][Next]_vars

-----------------------------------------------------------------------------
(* Properties *)

\* Forms are indexed by slot, and slots given away in the order of first updates.  What a
\* form holds or has asked for is always of the exchange whose book is drawn above it.
FormsKeepTheirExchange ==
    \A i \in 1 .. MaxSlots :
        LET f == forms[i]
            exs == {ExOf(r.order) : r \in f.rows}
                     \cup (IF f.pending = Idle THEN {} ELSE {ExOf(f.pending.order)})
                     \cup (IF f.sweep = Idle THEN {} ELSE {f.sweep.ex})
                     \cup (IF f.fetch.st = "sent" THEN {f.fetch.ex} ELSE {})
                     \cup (IF f.fetch.st = "ok" THEN {ExOf(o) : o \in f.fetch.ids} ELSE {})
        IN  exs # {} => i <= Len(slots) /\ exs = {slots[i].ex}

\* A row is cancelled under the pair it names.  It names the pair of its order, although the
\* row of a placed order takes it from the panel when the answer is polled: only an order
\* placed while another pair was followed, or an update of another pair on its way to the
\* panel, can be misnamed: a switch after the placement waits for its answer.
RowsNameTheirPair ==
    \A i \in 1 .. MaxSlots : \A r \in forms[i].rows :
        r.symbol = PairOf(r.order) \/ r.order \in late

\* Apply All: no answer that was asked for the old pair lists orders under the new one,
\* whether or not the exchange's feed followed.
FetchedOrdersAreOfPair ==
    \A i \in 1 .. MaxSlots : \A r \in forms[i].rows :
        r.fetched => r.symbol = applied

=============================================================================
