---------------------------- MODULE SymbolSwitch ----------------------------
(***************************************************************************)
(* One exchange panel across "Apply All" (ui/render.cpp), composed of      *)
(*   - the render thread, which clears the panel and calls change_symbol,  *)
(*   - the exchange's handler, whose on_message runs in its feed thread,   *)
(*   - the server at the other end of the WebSocket (external): it answers *)
(*     requests in order and streams what is subscribed,                   *)
(*   - the ring (the UpdateLog that module Disruptor implements),          *)
(*   - the aggregator and SharedDisplay.                                   *)
(* Levels are represented by the pair they belong to.  The trade channels, *)
(* which share nothing with the books but the threads, are left out.       *)
(***************************************************************************)
EXTENDS Integers, Sequences, FiniteSets

CONSTANTS
    Symbols,      \* trading pairs; none is a prefix of another
    Default,      \* the pair every handler starts with
    Garbled,      \* a std::string read while another thread assigns it
    NoSymbol,     \* the empty string
    MaxSwitches,  \* bound on the number of Apply All clicks
    WireMax,      \* bound on the data frames in flight from the server
    RingMax       \* updates between publish and the display: SIZE - 1 and the aggregator's

ASSUME SwitchAssumption ==
    /\ Default \in Symbols
    /\ Garbled \notin Symbols /\ NoSymbol \notin Symbols /\ Garbled # NoSymbol
    /\ MaxSwitches \in Nat
    /\ {WireMax, RingMax} \subseteq Nat \ {0}

\* How a handler rejects depth frames of the pair it has left: MEXC waits for the
\* ack of the new subscription; BingX, and Gate and LBank when the frame names
\* its pair, compare that pair; otherwise there is no guard.
Guards == {"ack", "pair", "none"}

VARIABLES
    guard,     \* the guard of this exchange's handler
    conn,      \* the connection: running is conn = "open"
    \* render thread
    upc,       \* where it is in Apply All
    applied,   \* the pair in g_base/g_quote when Apply All was last clicked
    switches,  \* number of clicks so far
    \* handler
    symbol,    \* Exchange::symbol, shared by the two threads without a lock
    overlap,   \* history: a change_symbol began inside on_open
    awaiting,  \* awaiting_sub_ack
    book,      \* the pairs whose levels are in bids_book and asks_book
    fpc,       \* where on_message is
    frame,     \* the frame it handles
    update,    \* the OrderBookUpdate it is about to publish
    \* server
    requests, subs, wire,
    \* consumers of the data
    ring, display

render  == <<upc, applied, switches>>
handler == <<symbol, overlap, awaiting, book>>
feed    == <<fpc, frame, update>>
server  == <<requests, subs, wire>>
panel   == <<ring, display>>
vars    == <<guard, conn, render, handler, feed, server, panel>>

NoFrame   == [kind |-> "none", sym |-> NoSymbol]
NoUpdate  == [label |-> NoSymbol, levels |-> {}]
Absent    == [label |-> NoSymbol, levels |-> {NoSymbol}]   \* no slot in SharedDisplay yet
Blank     == NoUpdate                                      \* a slot clear_books has wiped

Labels    == Symbols \cup {Garbled}
Updates   == [label : Labels, levels : SUBSET Symbols]
Request(op, s)  == [op |-> op, sym |-> s]
Frame(kind, s)  == [kind |-> kind, sym |-> s]
Data(q) == {i \in DOMAIN q : q[i].kind # "ack"}

TypeOK ==
    /\ guard \in Guards
    /\ conn \in {"connecting", "open", "closed"}
    /\ upc \in {"idle", "switching", "unsubscribed", "gated", "assigning", "assigned"}
    /\ applied \in Symbols
    /\ switches \in 0 .. MaxSwitches
    /\ symbol \in Labels
    /\ awaiting \in BOOLEAN
    /\ book \subseteq Symbols
    /\ overlap \in BOOLEAN
    /\ fpc \in {"opened", "subscribing", "reading", "opening", "merging", "publishing"}
    /\ frame \in [kind : {"sub", "depth", "erase"}, sym : Labels] \cup {NoFrame}
    /\ update \in Updates \cup {NoUpdate}
    /\ requests \in Seq([op : {"sub", "unsub"}, sym : Labels])
    /\ subs \subseteq Symbols
    /\ wire \in Seq([kind : {"ack", "depth", "erase"}, sym : Symbols])
    /\ Cardinality(Data(wire)) <= WireMax
    /\ ring \in Seq(Updates) /\ Len(ring) <= RingMax
    /\ display \in Updates \cup {Absent, Blank}

Init ==
    /\ guard \in Guards
    /\ conn = "connecting"
    /\ upc = "idle" /\ applied = Default /\ switches = 0
    /\ symbol = Default /\ overlap = FALSE /\ awaiting = FALSE /\ book = {}
    /\ fpc = "reading" /\ frame = NoFrame /\ update = NoUpdate
    /\ requests = <<>> /\ subs = {} /\ wire = <<>>
    /\ ring = <<>> /\ display = Absent

-----------------------------------------------------------------------------
(* Faulty variants of steps below, used to show that the properties at the   *)
(* end notice them.                                                          *)

\* The ack of the new subscription lowers the flag but leaves the maps ...
OpenGateKeepsBook ==
    /\ fpc = "opening"
    /\ awaiting' = FALSE
    /\ fpc' = "reading"
    /\ UNCHANGED <<guard, conn, render, symbol, overlap, book, frame, update, server, panel>>

\* ... or empties the maps and leaves the flag.
OpenGateKeepsFlag ==
    /\ fpc = "opening"
    /\ book' = {}
    /\ fpc' = "reading"
    /\ UNCHANGED <<guard, conn, render, symbol, overlap, awaiting, frame, update, server, panel>>

\* The unsubscription is built from the new pair.
UnsubscribeNew ==
    /\ upc = "switching"
    /\ conn = "open"
    /\ requests' = Append(requests, Request("unsub", applied))
    /\ overlap' = (overlap \/ fpc \in {"opened", "subscribing"})
    /\ upc' = IF guard = "ack" THEN "unsubscribed" ELSE "gated"
    /\ UNCHANGED <<guard, conn, applied, switches, symbol, awaiting, book, feed, subs, wire, panel>>

\* publish does not wait for room.
PublishOverrun ==
    /\ fpc = "publishing"
    /\ ring' = Append(ring, update)
    /\ update' = NoUpdate
    /\ fpc' = "reading"
    /\ UNCHANGED <<guard, conn, render, handler, frame, server, display>>

-----------------------------------------------------------------------------
(* The connection: on_open sets running and subscribes, on_close and on_fail *)
(* end the feed thread for good.                                             *)

OnOpen ==
    /\ conn = "connecting"
    /\ conn' = "open"
    /\ fpc' = "opened"
    /\ UNCHANGED <<guard, render, handler, frame, update, server, panel>>

\* subscribe() builds its message from symbol, which change_symbol may be assigning
\* now that running is set ...
BuildSubscribe ==
    /\ fpc = "opened"
    /\ frame' = Frame("sub", symbol)
    /\ fpc' = "subscribing"
    /\ UNCHANGED <<guard, conn, render, handler, update, server, panel>>

\* ... and sends it.
SendSubscribe ==
    /\ fpc = "subscribing"
    /\ requests' = Append(requests, Request("sub", frame.sym))
    /\ frame' = NoFrame
    /\ fpc' = "reading"
    /\ UNCHANGED <<guard, conn, render, handler, update, subs, wire, panel>>

OnCloseOrFail ==
    /\ conn # "closed"
    /\ fpc = "reading"
    /\ conn' = "closed"
    /\ requests' = <<>> /\ subs' = {} /\ wire' = <<>>
    /\ UNCHANGED <<guard, render, handler, feed, panel>>

-----------------------------------------------------------------------------
(* Apply All, in the render thread *)

ClearBooks(s) ==
    /\ upc = "idle"
    /\ switches < MaxSwitches
    /\ switches' = switches + 1
    /\ applied' = s
    /\ display' = IF display = Absent THEN Absent ELSE Blank
    /\ upc' = "switching"
    /\ UNCHANGED <<guard, conn, handler, feed, server, ring>>

\* change_symbol returns at once unless the connection is open.
SkipSwitch ==
    /\ upc = "switching"
    /\ conn # "open"
    /\ upc' = "idle"
    /\ UNCHANGED <<guard, conn, applied, switches, handler, feed, server, panel>>

\* A send on a connection that has closed in the meantime is dropped.
Send(r) == requests' = IF conn = "open" THEN Append(requests, r) ELSE requests

Unsubscribe ==
    /\ upc = "switching"
    /\ conn = "open"
    /\ Send(Request("unsub", symbol))
    /\ overlap' = (overlap \/ fpc \in {"opened", "subscribing"})
    /\ upc' = IF guard = "ack" THEN "unsubscribed" ELSE "gated"
    /\ UNCHANGED <<guard, conn, applied, switches, symbol, awaiting, book, feed, subs, wire, panel>>

\* MEXC: raise the gate ...
CloseGate ==
    /\ upc = "unsubscribed"
    /\ awaiting' = TRUE
    /\ upc' = "gated"
    /\ UNCHANGED <<guard, conn, applied, switches, symbol, overlap, book, feed, server, panel>>

\* ... and empty the maps.  Then symbol = new_sym, which is not atomic.
BeginAssign ==
    /\ upc = "gated"
    /\ book' = IF guard = "ack" THEN {} ELSE book
    /\ symbol' = Garbled
    /\ upc' = "assigning"
    /\ UNCHANGED <<guard, conn, applied, switches, overlap, awaiting, feed, server, panel>>

EndAssign ==
    /\ upc = "assigning"
    /\ symbol' = applied
    /\ upc' = "assigned"
    /\ UNCHANGED <<guard, conn, applied, switches, overlap, awaiting, book, feed, server, panel>>

Subscribe ==
    /\ upc = "assigned"
    /\ Send(Request("sub", symbol))
    /\ upc' = "idle"
    /\ UNCHANGED <<guard, conn, applied, switches, handler, feed, subs, wire, panel>>

-----------------------------------------------------------------------------
(* The server (external) *)

\* Requests are answered in order; MEXC's acks of the depth channel are the only
\* ones a handler looks at, and it cannot tell an unsubscription's from a
\* subscription's.  A request that names no pair is ignored.
ServerAnswer ==
    /\ conn = "open"
    /\ requests # <<>>
    /\ LET r == Head(requests) IN
         /\ subs' = IF r.op = "sub" THEN subs \cup ({r.sym} \cap Symbols) ELSE subs \ {r.sym}
         /\ wire' = IF guard = "ack" /\ r.sym \in Symbols
                    THEN Append(wire, Frame("ack", r.sym)) ELSE wire
    /\ requests' = Tail(requests)
    /\ UNCHANGED <<guard, conn, render, handler, feed, panel>>

ServerSend(kind, s) ==
    /\ conn = "open"
    /\ s \in subs
    /\ Cardinality(Data(wire)) < WireMax
    /\ wire' = Append(wire, Frame(kind, s))
    /\ UNCHANGED <<guard, conn, render, handler, feed, requests, subs, panel>>

\* A frame with levels, and a delta that leaves the pair without any.  (A snapshot
\* without levels is not published and changes nothing: none is sent.)
SendDepth == \E s \in Symbols : ServerSend("depth", s)
SendErase == guard = "ack" /\ \E s \in Symbols : ServerSend("erase", s)

-----------------------------------------------------------------------------
(* on_message, in the feed thread *)

Receive(kinds) ==
    /\ conn = "open"
    /\ fpc = "reading"
    /\ wire # <<>>
    /\ Head(wire).kind \in kinds
    /\ wire' = Tail(wire)
    /\ UNCHANGED <<guard, conn, render, handler, update, requests, subs, panel>>

\* MEXC: does the ack name the depth channel of symbol?  Here and in PairAccepts the code
\* looks for the pair's text inside the message's; Symbols stands for pairs none of whose
\* names is part of another's, for which that is equality.
OnAck ==
    /\ Receive({"ack"})
    /\ fpc' = IF Head(wire).sym = symbol THEN "opening" ELSE "reading"
    /\ frame' = NoFrame

OpenGate ==
    /\ fpc = "opening"
    /\ book' = {}
    /\ awaiting' = FALSE
    /\ fpc' = "reading"
    /\ UNCHANGED <<guard, conn, render, symbol, overlap, frame, update, server, panel>>

\* The guards, before a frame is parsed.
AckAccepts     == ~awaiting
PairAccepts(f) == f.sym = symbol
Accepts(f) ==
    /\ guard = "ack"  => AckAccepts
    /\ guard = "pair" => PairAccepts(f)

OnDepth ==
    /\ Receive({"depth", "erase"})
    /\ IF Accepts(Head(wire)) THEN fpc' = "merging" /\ frame' = Head(wire)
                              ELSE fpc' = "reading" /\ frame' = NoFrame

\* MEXC merges a delta into its maps; the frames of the others are whole books.
Delta(levels, f) == IF f.kind = "depth" THEN levels \cup {f.sym} ELSE levels \ {f.sym}
Snapshot(f)      == {f.sym}
Merged == IF guard = "ack" THEN Delta(book, frame) ELSE Snapshot(frame)

\* apply_depth or parse_snapshot: the update is labelled with symbol as it now
\* is, and one without levels is not published.
Merge ==
    /\ fpc = "merging"
    /\ book' = IF guard = "ack" THEN Merged ELSE book
    /\ IF Merged = {} THEN fpc' = "reading" /\ update' = NoUpdate
                      ELSE fpc' = "publishing" /\ update' = [label |-> symbol, levels |-> Merged]
    /\ frame' = NoFrame
    /\ UNCHANGED <<guard, conn, render, symbol, overlap, awaiting, server, panel>>

Publish ==
    /\ fpc = "publishing"
    /\ Len(ring) < RingMax
    /\ ring' = Append(ring, update)
    /\ update' = NoUpdate
    /\ fpc' = "reading"
    /\ UNCHANGED <<guard, conn, render, handler, frame, server, display>>

-----------------------------------------------------------------------------
(* aggregator_run: consume, then SharedDisplay::update.  Between the two the *)
(* aggregator's copy is one more update in the ring as far as any other      *)
(* thread can tell, and RingMax counts it.                                   *)

Aggregate ==
    /\ ring # <<>>
    /\ display' = Head(ring)
    /\ ring' = Tail(ring)
    /\ UNCHANGED <<guard, conn, render, handler, feed, server>>

-----------------------------------------------------------------------------
SwitchStep == SkipSwitch \/ Unsubscribe \/ CloseGate \/ BeginAssign
              \/ EndAssign \/ Subscribe
FeedStep   == BuildSubscribe \/ SendSubscribe \/ OnAck \/ OpenGate \/ OnDepth \/ Merge \/ Publish

Next ==
    \/ OnOpen \/ OnCloseOrFail
    \/ \E s \in Symbols : ClearBooks(s)
    \/ SwitchStep
    \/ ServerAnswer \/ SendDepth \/ SendErase
    \/ FeedStep
    \/ Aggregate

(* Every thread is scheduled and the server answers.  The exchange keeps      *)
(* sending levels of what is subscribed.  Nothing says that the connection    *)
(* opens or closes, or that the user clicks.                                  *)
Fairness ==
    /\ WF_vars(SwitchStep) /\ WF_vars(FeedStep) /\ WF_vars(Aggregate)
    /\ WF_vars(ServerAnswer)
    /\ SF_vars(SendDepth)

Spec == Init /\ [][Next]_vars /\ Fairness

-----------------------------------------------------------------------------
(* Properties *)

Settled == upc = "idle" /\ requests = <<>> /\ (\A i \in DOMAIN wire : wire[i].kind # "ack")
           /\ fpc \notin {"opened", "subscribing", "opening"}

\* MEXC's two gates - the flag and the emptied maps - let frames through early
\* when switches overlap or when on_message has already looked at the flag.  Once
\* every request is acknowledged the maps nevertheless hold the subscribed pair only,
\* and the flag is down: the ack of the last subscription empties them again.  (When
\* change_symbol runs inside on_open this fails: see SubscribedToApplied.)
AckedBookIsPure ==
    (guard = "ack" /\ conn = "open" /\ Settled /\ ~overlap) =>
        /\ ~awaiting
        /\ book \subseteq {symbol}
        /\ fpc = "merging" => frame.sym = symbol

\* After the last switch, whatever was in flight on the wire, in the handler, in
\* the ring or in the aggregator's hands, the panel ends up with the levels of the
\* pair the handler is subscribed to, under its name, for good - unless a switch ran
\* inside on_open, as above.
PanelSettles ==
    <>[](conn = "open" /\ ~overlap => display = [label |-> symbol, levels |-> {symbol}])

\* The gate raised by a switch comes down again.
GateReopens == awaiting ~> (~awaiting \/ conn = "closed")

\* README: on Apply All every exchange unsubscribes from the old pair and
\* subscribes to the new one.
SubscribedToApplied == <>[](conn = "open" => subs = {applied})

=============================================================================
