----------------------------- MODULE OrderPanel -----------------------------
(***************************************************************************)
(* The orders of one exchange panel (ui/render.cpp): the list the render   *)
(* thread keeps, the requests it dispatches through TradeManager, the      *)
(* order events it drains, and the exchange (external) behind both.        *)
(* The exchange names an order by one id everywhere, as MEXC, BingX and    *)
(* LBank do.  Prices, quantities and the form are left out, and so are the *)
(* pairs: Apply All empties the list and fetches again.                    *)
(***************************************************************************)
EXTENDS Naturals, FiniteSets, SequencesExt

CONSTANTS
    Own,        \* orders placed with the panel's button
    Others,     \* orders of the same account placed elsewhere
    NoOrder,
    PlaceCap,   \* rows when an order is placed: 10
    EventCap,   \* rows when an event adds one: 50
    MaxDone     \* rows in History: 20

Orders == Own \cup Others

ASSUME LimitsAssumption == {PlaceCap, EventCap, MaxDone} \subseteq Nat \ {0}
ASSUME OrdersAssumption == Own \cap Others = {} /\ IsFiniteSet(Orders)

VARIABLES
    phase,      \* where the render thread is in a frame
    rows,       \* OrderFormState::orders
    place,      \* pending, and the order it is about
    fetch,      \* fetch_fut, and the orders the answer lists
    sweep,      \* cancel_all_fut
    stream,     \* whether the private order stream is up
    events,     \* events on their way to, or in, SharedOrderEvents
    ord         \* each order at the exchange

panel    == <<rows, place, fetch, sweep>>
exchange == <<stream, events, ord>>
vars     == <<phase, panel, exchange>>

Live(o)  == ord[o] \in {"live", "part"}
Done(o)  == ord[o] \in {"filled", "cancelled"}
LiveOrders == {o \in Orders : Live(o)}

\* A request is sent, acted upon by the exchange, and answered.  A "blank" answer is a
\* success with nothing behind it: to a cancel that the exchange has not acted upon, or to
\* a placement without an order id.
Calls       == {"none", "sent", "acted", "ok", "blank", "fail"}
InFlight(c) == c \in {"sent", "acted"}
Ready(c)    == c \in {"ok", "blank", "fail"}

\* PlacedOrder: call stands for cancelling and cancel_fut; cancel_error is msg = "Error".
\* blind is history: the row was closed by a blank answer or by the answer to a
\* cancel-all, which need not be about its order.
Row(o) == [id |-> o, cancelled |-> FALSE, msg |-> "", call |-> "none", blind |-> FALSE]
RowType == [id : Orders, cancelled : BOOLEAN, msg : {"", "Filled", "Cancelled", "Error"},
            call : Calls, blind : BOOLEAN]

RowsOf(rs, o) == {i \in DOMAIN rs : rs[i].id = o}
Closed(rs)    == {i \in DOMAIN rs : rs[i].cancelled}

TypeOK ==
    /\ phase \in {"drain", "bar", "reset", "form", "button", "orders", "tabs"}
    /\ rows \in Seq(RowType)
    /\ Cardinality(Closed(rows)) <= MaxDone
    /\ place \in [st : Calls, id : Own \cup {NoOrder}]
    /\ fetch \in [st : {"none", "sent", "ok"}, ids : SUBSET Orders]
    /\ sweep \in Calls
    /\ stream \in BOOLEAN
    /\ events \in Seq([type : {"new", "update", "finish"}, id : Orders])
    /\ ord \in [Orders -> {"none", "live", "part", "filled", "cancelled"}]

NoPlace == [st |-> "none", id |-> NoOrder]
NoFetch == [st |-> "none", ids |-> {}]

\* The first frame fetches what is open.
Init ==
    /\ phase = "drain"
    /\ rows = <<>>
    /\ place = NoPlace /\ fetch = [NoFetch EXCEPT !.st = "sent"] /\ sweep = "none"
    /\ stream = TRUE /\ events = <<>>
    /\ ord = [o \in Orders |-> "none"]

-----------------------------------------------------------------------------
(* Faulty variants of definitions below, used to show that the properties at *)
(* the end notice them.                                                      *)

\* An event is taken for the first open row, whoever's it is.
OpenOfAny(rs, o) == {i \in DOMAIN rs : ~rs[i].cancelled}

\* trim_history keeps one row too many.
NewestAndOne(rs) == {i \in Closed(rs) : Cardinality({j \in Closed(rs) : j > i}) <= MaxDone}

\* The answer to a cancel is taken for a success whatever it says ...
AnsweredAnyhow(r) ==
    CASE Ready(r.call) ->
           [r EXCEPT !.call = "none", !.cancelled = TRUE, !.msg = "Cancelled"]
      [] OTHER -> r

\* ... or not polled once the row is closed.
AnsweredIfOpen(r) ==
    CASE r.cancelled -> r
      [] r.call \in {"ok", "blank"} ->
           [r EXCEPT !.call = "none", !.cancelled = TRUE, !.msg = "Cancelled",
                     !.blind = @ \/ r.call = "blank"]
      [] r.call = "fail" -> [r EXCEPT !.call = "none", !.msg = "Error"]
      [] OTHER           -> r

-----------------------------------------------------------------------------
(* The list *)

OpenOf(rs, o) == {i \in RowsOf(rs, o) : ~rs[i].cancelled}
Open(rs)      == DOMAIN rs \ Closed(rs)

\* Rows are appended with a growing ui_seq, so the oldest row is the first.
CapRows(rs, n) == IF Len(rs) < n THEN rs ELSE SubSeq(rs, Len(rs) - n + 2, Len(rs))

\* The rows at the places of I, in their order.
Nth(I, n) == CHOOSE i \in I : Cardinality({j \in I : j < i}) = n - 1
Kept(rs, I) == [n \in 1 .. Cardinality(I) |-> rs[Nth(I, n)]]

\* The oldest closed rows go until there are MaxDone.
Newest(rs)      == {i \in Closed(rs) : Cardinality({j \in Closed(rs) : j > i}) < MaxDone}
TrimHistory(rs) ==
    IF Cardinality(Closed(rs)) <= MaxDone THEN rs ELSE Kept(rs, Open(rs) \cup Newest(rs))

\* Erasing a row destroys its future, and the destructor of a future of std::async
\* waits: the frame goes on when the request has been answered.
Unanswered(rs) == Cardinality({i \in DOMAIN rs : InFlight(rs[i].call)})
NoneWaitedFor  == Unanswered(rows') = Unanswered(rows)

-----------------------------------------------------------------------------
(* Draining the order events.                                                *)

OnNew(rs, o) == IF RowsOf(rs, o) # {} THEN rs ELSE Append(CapRows(rs, EventCap), Row(o))

\* The row of an update or a finish: the first one not closed, or a placeholder.
WithRow(rs, o) == IF OpenOf(rs, o) # {} THEN rs ELSE Append(CapRows(rs, EventCap), Row(o))

OnFinish(rs, o) ==
    LET with == WithRow(rs, o)
        i    == Min(OpenOf(with, o))
    IN  TrimHistory([with EXCEPT ![i].cancelled = TRUE,
                                 ![i].msg = IF ord[o] = "filled" THEN "Filled" ELSE "Cancelled"])

HandleEvent(rs, e) ==
    CASE e.type = "new"    -> OnNew(rs, e.id)
      [] e.type = "update" -> WithRow(rs, e.id)
      [] e.type = "finish" -> OnFinish(rs, e.id)

\* One turn of the loop.  An event that is handled later than the queue was swapped could
\* have arrived before: nothing in the loop looks at the exchange.
Drain ==
    /\ phase = "drain"
    /\ events # <<>>
    /\ events' = Tail(events)
    /\ rows' = HandleEvent(rows, Head(events))
    /\ NoneWaitedFor
    /\ UNCHANGED <<phase, place, fetch, sweep, stream, ord>>

\* The events left have not arrived yet.
LeaveDrain ==
    /\ phase = "drain"
    /\ phase' = "bar"
    /\ UNCHANGED <<panel, exchange>>

-----------------------------------------------------------------------------
(* The symbol bar *)

\* The click is always taken ...
ApplyAll ==
    /\ phase = "bar"
    /\ phase' = "reset"
    /\ UNCHANGED <<panel, exchange>>

\* ... and the render thread goes on when every future in the form it replaces has been
\* answered.
ResetForm ==
    /\ phase = "reset"
    /\ ~InFlight(place.st) /\ fetch.st # "sent" /\ ~InFlight(sweep) /\ Unanswered(rows) = 0
    /\ rows' = <<>>
    /\ place' = NoPlace /\ fetch' = [NoFetch EXCEPT !.st = "sent"] /\ sweep' = "none"
    /\ phase' = "form"
    /\ UNCHANGED exchange

LeaveBar ==
    /\ phase = "bar"
    /\ phase' = "form"
    /\ UNCHANGED <<panel, exchange>>

-----------------------------------------------------------------------------
(* draw_order_form *)

\* A success without an order id shows "Placed" and lists nothing.
PollPlace ==
    /\ phase = "form"
    /\ phase' = "button"
    /\ rows' = IF place.st = "ok" THEN Append(CapRows(rows, PlaceCap), Row(place.id)) ELSE rows
    /\ NoneWaitedFor
    /\ place' = IF Ready(place.st) THEN NoPlace ELSE place
    /\ UNCHANGED <<fetch, sweep, exchange>>

\* is_pending: a future that has become ready since it was polled does not hold the
\* button back, and is overwritten.
ClickPlace(o) ==
    /\ phase = "button"
    /\ ~InFlight(place.st)
    /\ ord[o] = "none"
    /\ place.id # o
    /\ place' = [st |-> "sent", id |-> o]
    /\ phase' = "orders"
    /\ UNCHANGED <<rows, fetch, sweep, exchange>>

LeaveForm ==
    /\ phase = "button"
    /\ phase' = "orders"
    /\ UNCHANGED <<panel, exchange>>

-----------------------------------------------------------------------------
(* draw_open_orders *)

Missing(rs) == SetToSeq({o \in fetch.ids : RowsOf(rs, o) = {}})
Fetched(rs) == IF fetch.st = "ok" THEN rs \o [n \in DOMAIN Missing(rs) |-> Row(Missing(rs)[n])] ELSE rs

Swept(rs) ==
    IF sweep # "ok" THEN rs
    ELSE TrimHistory([i \in DOMAIN rs |->
           IF rs[i].cancelled THEN rs[i]
           ELSE [rs[i] EXCEPT !.cancelled = TRUE, !.msg = "Cancelled", !.blind = TRUE]])

\* The error of a failed cancel is written whether or not the row is closed by now.
Answered(r) ==
    CASE r.call \in {"ok", "blank"} ->
           [r EXCEPT !.call = "none", !.cancelled = TRUE, !.msg = "Cancelled",
                     !.blind = @ \/ r.call = "blank"]
      [] r.call = "fail" -> [r EXCEPT !.call = "none", !.msg = "Error"]
      [] OTHER           -> r

\* The loop over the rows trims inside itself; a row it skips because the ones before
\* moved is polled in the next frame, as if its answer had come a little later.
PollOrders ==
    /\ phase = "orders"
    /\ phase' = "tabs"
    /\ LET shown == Swept(Fetched(rows)) IN
         rows' = TrimHistory([i \in DOMAIN shown |-> Answered(shown[i])])
    /\ NoneWaitedFor
    /\ fetch' = IF fetch.st = "ok" THEN NoFetch ELSE fetch
    /\ sweep' = IF Ready(sweep) THEN "none" ELSE sweep
    /\ UNCHANGED <<place, exchange>>

ClickCancelAll ==
    /\ phase = "tabs"
    /\ sweep = "none"
    /\ Open(rows) # {}
    /\ sweep' = "sent"
    /\ phase' = "drain"
    /\ UNCHANGED <<rows, place, fetch, exchange>>

\* A row whose cancel has failed has no button any more.
ClickCancel(i) ==
    /\ phase = "tabs"
    /\ i \in Open(rows)
    /\ rows[i].call = "none" /\ rows[i].msg # "Error"
    /\ rows' = [rows EXCEPT ![i].call = "sent"]
    /\ phase' = "drain"
    /\ UNCHANGED <<place, fetch, sweep, exchange>>

ClearHistory ==
    /\ phase = "tabs"
    /\ Closed(rows) # {}
    /\ rows' = Kept(rows, Open(rows))
    /\ NoneWaitedFor
    /\ phase' = "drain"
    /\ UNCHANGED <<place, fetch, sweep, exchange>>

EndFrame ==
    /\ phase = "tabs"
    /\ phase' = "drain"
    /\ UNCHANGED <<panel, exchange>>

-----------------------------------------------------------------------------
(* The exchange (external), reached through a trader.  A request is refused  *)
(* or lost, or acted upon; the answer to it may be lost as well, and the      *)
(* trader then reports a failure.  An answer with an empty body, as a server  *)
(* or a proxy may give to anything, counts as the success of a cancel         *)
(* (MEXC) and of a cancel-all (MEXC, BingX, LBank).                           *)

Event(type, o) == [type |-> type, id |-> o]
Emit(es) == events' = IF stream THEN events \o es ELSE events

\* The event of a new order is sometimes left out.
Accept(o) ==
    /\ ord' = [ord EXCEPT ![o] = "live"]
    /\ \E es \in {<<>>, <<Event("new", o)>>} : Emit(es)
    /\ UNCHANGED <<phase, rows, fetch, sweep, stream>>

PlaceActed ==
    /\ place.st = "sent"
    /\ Accept(place.id)
    /\ place' = [place EXCEPT !.st = "acted"]

PlaceAnswered ==
    /\ \/ place.st = "acted" /\ \E st \in {"ok", "blank"} : place' = [place EXCEPT !.st = st]
       \/ InFlight(place.st) /\ place' = [place EXCEPT !.st = "fail"]
    /\ UNCHANGED <<phase, rows, fetch, sweep, exchange>>

PlacedElsewhere(o) ==
    /\ ord[o] = "none"
    /\ Accept(o)
    /\ UNCHANGED place

FetchAnswered ==
    /\ fetch.st = "sent"
    /\ \E ids \in {LiveOrders, {}} : fetch' = [st |-> "ok", ids |-> ids]
    /\ UNCHANGED <<phase, rows, place, sweep, exchange>>

CancelActed(i) ==
    /\ rows[i].call = "sent"
    /\ Live(rows[i].id)
    /\ ord' = [ord EXCEPT ![rows[i].id] = "cancelled"]
    /\ Emit(<<Event("finish", rows[i].id)>>)
    /\ rows' = [rows EXCEPT ![i].call = "acted"]
    /\ UNCHANGED <<phase, place, fetch, sweep, stream>>

CancelAnswered(i) ==
    /\ \/ rows[i].call = "acted" /\ rows' = [rows EXCEPT ![i].call = "ok"]
       \/ rows[i].call = "sent"  /\ rows' = [rows EXCEPT ![i].call = "blank"]
       \/ InFlight(rows[i].call) /\ rows' = [rows EXCEPT ![i].call = "fail"]
    /\ UNCHANGED <<phase, place, fetch, sweep, exchange>>

CancelAllActed ==
    /\ sweep = "sent"
    /\ ord' = [o \in Orders |-> IF Live(o) THEN "cancelled" ELSE ord[o]]
    /\ LET live == SetToSeq(LiveOrders) IN Emit([n \in DOMAIN live |-> Event("finish", live[n])])
    /\ sweep' = "acted"
    /\ UNCHANGED <<phase, rows, place, fetch, stream>>

CancelAllAnswered ==
    /\ InFlight(sweep)
    /\ sweep' \in {"ok", "fail"}
    /\ UNCHANGED <<phase, rows, place, fetch, exchange>>

FillPart(o) ==
    /\ ord[o] = "live"
    /\ ord' = [ord EXCEPT ![o] = "part"]
    /\ Emit(<<Event("update", o)>>)
    /\ UNCHANGED <<phase, panel, stream>>

Fill(o) ==
    /\ Live(o)
    /\ ord' = [ord EXCEPT ![o] = "filled"]
    /\ Emit(<<Event("finish", o)>>)
    /\ UNCHANGED <<phase, panel, stream>>

\* The stream is never opened again, and what is on its way is lost.  Events already
\* in the queue are drained before this step: nothing else looks at the stream, so a
\* close, and all that it loses, may be put off until the queue is empty.
StreamCloses ==
    /\ stream
    /\ stream' = FALSE
    /\ events' = <<>>
    /\ UNCHANGED <<phase, panel, ord>>

-----------------------------------------------------------------------------
Frame ==
    \/ LeaveDrain \/ LeaveBar \/ LeaveForm \/ EndFrame
    \/ ApplyAll \/ ResetForm \/ (\E o \in Own : ClickPlace(o))
    \/ ClickCancelAll \/ (\E i \in DOMAIN rows : ClickCancel(i)) \/ ClearHistory
    \/ Drain \/ PollPlace \/ PollOrders

Next ==
    \/ Frame
    \/ PlaceActed \/ PlaceAnswered \/ FetchAnswered
    \/ CancelAllActed \/ CancelAllAnswered
    \/ \E i \in DOMAIN rows : CancelActed(i) \/ CancelAnswered(i)
    \/ \E o \in Orders : FillPart(o) \/ Fill(o)
    \/ \E o \in Others : PlacedElsewhere(o)
    \/ StreamCloses

(* The render thread draws frame after frame, unless it waits for an answer.  *)
(* Nothing obliges an exchange to answer: the REST client has no timeout.     *)
Spec == Init /\ [][Next]_vars /\ WF_vars(Frame)

-----------------------------------------------------------------------------
(* Properties *)

\* A row in History that was not closed blindly belongs to an order that is over, and if
\* it says Filled or Cancelled the order has ended that way.  It need not say so: a cancel
\* that fails after the end leaves its error there instead, and that is all else it says.
HistoryTellsTruth ==
    \A i \in Closed(rows) : rows[i].blind \/
        /\ Done(rows[i].id)
        /\ \/ rows[i].msg = "Filled"    /\ ord[rows[i].id] = "filled"
           \/ rows[i].msg = "Cancelled" /\ ord[rows[i].id] = "cancelled"
           \/ rows[i].msg = "Error"

\* The answer to a placement, a cancel-all or a cancel does not stay unread ("Sending...",
\* "Cancelling...") for ever: whatever events, sweeps, trims and resets do to the rows in
\* between, it is polled, replaced by the next request or its row is gone, unless the
\* window stands still for good: Apply All, a limit or Clear History has destroyed a
\* future whose request is never answered.
StandsStill == ~ENABLED Frame

AnswersReachPanel ==
    \/ <>[]StandsStill
    \/ /\ \A o \in Own : (place.id = o /\ Ready(place.st)) ~> ~(place.id = o /\ Ready(place.st))
       /\ Ready(sweep) ~> ~Ready(sweep)
       /\ \A o \in Orders :
            (\E i \in RowsOf(rows, o) : Ready(rows[i].call))
              ~> (\A i \in RowsOf(rows, o) : ~Ready(rows[i].call))

=============================================================================
