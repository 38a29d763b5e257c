----------------------------- MODULE GateSession -----------------------------
(***************************************************************************)
(* The trading connection to Gate (GateWsImpl and GateTrader in            *)
(* gate/gate_trader.cpp): login, the map from our order ids to the         *)
(* exchange's, orders and cancels from several threads over the WebSocket  *)
(* or, when it is not authenticated, over REST, and shutdown.              *)
(* The exchange is external.  Prices, signatures and request ids are left  *)
(* out: an order has the name we give it ("client", the text t-<req_id>)   *)
(* and the name the exchange gives it ("exchange", its id).  Our own       *)
(* pings, and messages that handle_message ignores, are left out.          *)
(***************************************************************************)
EXTENDS Naturals, SequencesExt

CONSTANTS
    Orders,
    WireMax,    \* commands on their way to the exchange
    InboxMax    \* messages on their way back

ASSUME BoundsAssumption == WireMax \in Nat \ {0} /\ InboxMax \in Nat /\ InboxMax >= 3

\* The user places finitely many orders while the program runs.
ASSUME OrdersAssumption == IsFiniteSet(Orders)

VARIABLES
    reader,         \* try_connect, then the listen thread
    connected, authenticated, running,
    order_id_map,   \* the names that have an entry: it is the exchange's id of the order
    closing,        \* how far shutdown() is
    place,          \* place_limit_order, one call per order
    cancel,         \* cancel_limit_order, one call per name
    sweep,          \* cancel_all_orders
    known,          \* names under which the panel has, or has had, a row
    link,           \* the TCP connection
    session,        \* the exchange's side: logged in, subscribed to spot.orders
    wire, inbox,
    ord,            \* each order at the exchange
    told            \* history: orders whose order_place answer has been handled

flags    == <<connected, authenticated, running>>
calls    == <<place, cancel, sweep>>
exchange == <<session, ord>>
net      == <<link, wire, inbox>>
vars     == <<reader, flags, order_id_map, closing, calls, known, net, exchange, told>>

Names     == Orders \X {"client", "exchange"}
Client(o) == <<o, "client">>
Id(o)     == <<o, "exchange">>
OrderOf(n) == n[1]

Cmd(type, o, by) == [type |-> type, order |-> o, by |-> by]
Commands ==
    [type : {"place"}, order : Orders, by : {"client"}]
      \cup [type : {"cancel"}, order : Orders, by : {"client", "exchange"}]
      \cup [type : {"login", "subscribe", "pong", "cancel_all"}]
Trading(c) == c.type \in {"place", "cancel", "cancel_all"}

\* "event" stands for put and update, which only reach the panel.
Messages ==
    [type : {"ping"}]
      \cup [type : {"login"}, ok : BOOLEAN]
      \cup [type : {"place", "cancel"}, ok : BOOLEAN, order : Orders]
      \cup [type : {"event", "finish"}, order : Orders]
Answer(type, o, ok) == [type |-> type, ok |-> ok, order |-> o]
Event(type, o)      == [type |-> type, order |-> o]

TypeOK ==
    /\ reader \in {"connect", "first", "firstsub", "test", "read", "firstpong", "sub",
                   "pong", "unset", "ended", "failed"}
    /\ connected \in BOOLEAN /\ authenticated \in BOOLEAN /\ running \in BOOLEAN
    /\ order_id_map \subseteq Names
    /\ closing \in {"no", "stopping", "closed", "gone"}
    /\ place \in [Orders -> {"idle", "ws", "rest", "sent", "ok", "failed"}]
    /\ cancel \in [Names -> {"idle", "lookup", "client", "exchange", "rest", "done"}]
    /\ sweep \in {"idle", "ws", "rest", "done"}
    /\ known \subseteq Names
    /\ link \in {"none", "up", "down"}
    /\ session \in [login : BOOLEAN, subscribed : BOOLEAN]
    /\ wire \in Seq(Commands) /\ Len(wire) <= WireMax
    /\ inbox \in Seq(Messages) /\ Len(inbox) <= InboxMax
    /\ ord \in [Orders -> {"none", "live", "over", "refused"}]
    /\ told \subseteq Orders

Init ==
    /\ reader = "connect"
    /\ connected = FALSE /\ authenticated = FALSE /\ running = FALSE
    /\ order_id_map = {} /\ closing = "no"
    /\ place = [o \in Orders |-> "idle"] /\ cancel = [n \in Names |-> "idle"]
    /\ sweep = "idle" /\ known = {}
    /\ link = "none" /\ wire = <<>> /\ inbox = <<>>
    /\ session = [login |-> FALSE, subscribed |-> FALSE]
    /\ ord = [o \in Orders |-> "none"] /\ told = {}

-----------------------------------------------------------------------------
(* Writing *)

\* ws_write: nothing is written when the connection is known to be lost; a write on a
\* connection that is lost unknowingly is swallowed or throws.  Its caller never learns.
Write(c) ==
    \/ ~connected /\ UNCHANGED <<connected, wire>>
    \/ connected /\ link = "up" /\ Len(wire) < WireMax
         /\ wire' = Append(wire, c) /\ UNCHANGED connected
    \/ connected /\ link = "down" /\ connected' \in BOOLEAN /\ UNCHANGED wire

\* Whether handle_message was called by try_connect or by the listen thread.
Then(first, other) == IF reader = "first" THEN first ELSE other

-----------------------------------------------------------------------------
(* Faulty variants of definitions below, used to show that the properties at *)
(* the end notice them.                                                      *)

\* Any answer to the login counts.
LoginWhatever(m) == authenticated' = TRUE /\ reader' = Then("firstsub", "sub")

\* An entry goes when a cancel is answered, also when the answer is a refusal.
AfterAnyCancel(m) ==
    CASE m.type = "place" /\ m.ok -> order_id_map \cup {Client(m.order)}
      [] m.type = "cancel"        -> order_id_map \ {Client(m.order)}
      [] m.type = "finish"        -> order_id_map \ {Client(m.order)}
      [] OTHER                    -> order_id_map

\* The listen thread leaves as if its connection were still good for orders ...
UnsetOnlyConnected ==
    /\ reader = "unset"
    /\ reader' = "ended"
    /\ UNCHANGED <<flags, order_id_map, closing, calls, known, net, exchange, told>>

\* ... or takes silence for the end of the connection, as Beast's idle timeout would.
ReadTimesOut ==
    /\ reader = "read"
    /\ connected' = FALSE
    /\ reader' = "unset"
    /\ UNCHANGED <<authenticated, running, order_id_map, closing, calls, known, net, exchange, told>>

\* An entry is made under the order's bare id.
MapByOrder(m) == IF m.type = "place" /\ m.ok THEN order_id_map \cup {m.order} ELSE order_id_map

\* fetch_open_orders replaces the map.
SeedAnew(ids) == ids

-----------------------------------------------------------------------------
(* try_connect, and the listen thread that continues it *)

\* Everything up to the login request; before `running` any failure leaves it down.
Connect ==
    /\ reader = "connect"
    /\ \/ /\ link' = "up" /\ connected' = TRUE /\ running' = TRUE
          /\ wire' = <<[type |-> "login"]>>
          /\ reader' = "first"
       \/ reader' = "failed" /\ UNCHANGED <<link, connected, running, wire>>
    /\ UNCHANGED <<authenticated, order_id_map, closing, calls, known, inbox, exchange, told>>

\* handle_message, what it does to the map.
MapAfter(m) ==
    CASE m.type = "place" /\ m.ok  -> order_id_map \cup {Client(m.order)}
      [] m.type = "cancel" /\ m.ok -> order_id_map \ {Client(m.order)}
      [] m.type = "finish"         -> order_id_map \ {Client(m.order)}
      [] OTHER                     -> order_id_map

\* An answer to the login without a uid changes nothing.
OnLogin(m) ==
    IF m.ok THEN /\ authenticated' = TRUE
                 /\ reader' = Then("firstsub", "sub")
            ELSE /\ reader' = "test" /\ UNCHANGED authenticated

\* One message: the first read by try_connect, the others by the listen thread.
Read ==
    /\ reader \in {"first", "read"}
    /\ inbox # <<>>
    /\ LET m == Head(inbox) IN
         /\ inbox' = Tail(inbox)
         /\ order_id_map' = MapAfter(m)
         /\ told' = IF m.type = "place" /\ m.ok THEN told \cup {m.order} ELSE told
         /\ known' = IF m.type \in {"event", "finish"} THEN known \cup {Id(m.order)} ELSE known
         /\ CASE m.type = "login" -> OnLogin(m)
              [] m.type = "ping"  -> reader' = Then("firstpong", "pong") /\ UNCHANGED authenticated
              [] OTHER            -> reader' = "test" /\ UNCHANGED authenticated
    /\ UNCHANGED <<connected, running, closing, calls, link, wire, exchange>>

WritePong ==
    /\ reader \in {"firstpong", "pong"}
    /\ Write([type |-> "pong"])
    /\ reader' = "test"
    /\ UNCHANGED <<authenticated, running, order_id_map, closing, calls, known, link, inbox, exchange, told>>

\* subscribe_orders, after authenticated has been set.  Whatever its one message was,
\* try_connect then starts the listen thread.
SubscribeOrders ==
    /\ reader \in {"firstsub", "sub"}
    /\ Write([type |-> "subscribe"])
    /\ reader' = "test"
    /\ UNCHANGED <<authenticated, running, order_id_map, closing, calls, known, link, inbox, exchange, told>>

\* A read fails only on a lost connection, after or before what had arrived is read.
FirstReadFails ==
    /\ reader = "first" /\ link = "down"
    /\ connected' = FALSE /\ authenticated' = FALSE
    /\ reader' = "failed"
    /\ UNCHANGED <<running, order_id_map, closing, calls, known, net, exchange, told>>

\* The loop's test, and its end: connected is reset here, authenticated one step later.
ListenTest ==
    /\ reader = "test"
    /\ IF running /\ connected
       THEN reader' = "read" /\ UNCHANGED connected
       ELSE reader' = "unset" /\ connected' = FALSE
    /\ UNCHANGED <<authenticated, running, order_id_map, closing, calls, known, net, exchange, told>>

ReadFails ==
    /\ reader = "read" /\ link = "down"
    /\ connected' = FALSE
    /\ reader' = "unset"
    /\ UNCHANGED <<authenticated, running, order_id_map, closing, calls, known, net, exchange, told>>

Unset ==
    /\ reader = "unset"
    /\ authenticated' = FALSE
    /\ reader' = "ended"
    /\ UNCHANGED <<connected, running, order_id_map, closing, calls, known, net, exchange, told>>

Listen == Read \/ WritePong \/ SubscribeOrders \/ FirstReadFails \/ ListenTest \/ ReadFails \/ Unset

-----------------------------------------------------------------------------
(* Calls of GateTrader, each on a thread of its own.  They begin once the    *)
(* constructor has returned.  A call that is still under way when shutdown   *)
(* has destroyed the session is the subject of Shutdown.                     *)

Constructed == reader \notin {"connect", "first", "firstsub", "firstpong"}
Usable      == Constructed /\ closing # "gone"
Path        == IF authenticated THEN "ws" ELSE "rest"

PlaceCheck(o) ==
    /\ Usable /\ closing = "no"
    /\ place[o] = "idle"
    /\ place' = [place EXCEPT ![o] = Path]
    /\ UNCHANGED <<reader, flags, order_id_map, closing, cancel, sweep, known, net, exchange, told>>

\* Answered at once: {true, "t-...", "Sent"}.
PlaceWs(o) ==
    /\ Usable /\ place[o] = "ws"
    /\ Write(Cmd("place", o, "client"))
    /\ place' = [place EXCEPT ![o] = "sent"]
    /\ known' = known \cup {Client(o)}
    /\ UNCHANGED <<reader, authenticated, running, order_id_map, closing, cancel, sweep,
                   link, inbox, exchange, told>>

\* The exchange may have acted although the answer says otherwise or is lost.
PlaceRest(o) ==
    /\ Usable /\ place[o] = "rest"
    /\ \E acted, ok \in BOOLEAN :
         /\ ok => acted
         /\ place' = [place EXCEPT ![o] = IF ok THEN "ok" ELSE "failed"]
         /\ ord' = [ord EXCEPT ![o] = IF acted THEN "live" ELSE "refused"]
         /\ known' = IF ok THEN known \cup {Id(o)} ELSE known
    /\ UNCHANGED <<reader, flags, order_id_map, closing, cancel, sweep, net, session, told>>

CancelCheck(n) ==
    /\ Usable /\ closing = "no"
    /\ n \in known /\ cancel[n] = "idle"
    /\ cancel' = [cancel EXCEPT ![n] = IF authenticated THEN "lookup" ELSE "rest"]
    /\ UNCHANGED <<reader, flags, order_id_map, closing, place, sweep, known, net, exchange, told>>

\* The id found in the map, or the id given.  The second lookup, of "t-" before an id
\* that has it already or is the exchange's, finds nothing.
LookUp(n) ==
    /\ Usable /\ cancel[n] = "lookup"
    /\ cancel' = [cancel EXCEPT ![n] = IF n \in order_id_map THEN "exchange" ELSE n[2]]
    /\ UNCHANGED <<reader, flags, order_id_map, closing, place, sweep, known, net, exchange, told>>

CancelWs(n) ==
    /\ Usable /\ cancel[n] \in {"client", "exchange"}
    /\ Write(Cmd("cancel", OrderOf(n), cancel[n]))
    /\ cancel' = [cancel EXCEPT ![n] = "done"]
    /\ UNCHANGED <<reader, authenticated, running, order_id_map, closing, place, sweep, known,
                   link, inbox, exchange, told>>

\* Events that an order's end sends to a subscribed session.
Notified(os) == IF session.subscribed /\ link = "up"
                THEN inbox \o SetToSeq({Event("finish", o) : o \in os}) ELSE inbox
EndOf(os) ==
    /\ ord' = [o \in Orders |-> IF o \in os THEN "over" ELSE ord[o]]
    /\ inbox' = Notified(os)
    /\ Len(inbox') <= InboxMax
LiveOrders == {o \in Orders : ord[o] = "live"}

\* Whether the exchange knows an order by our name, too, is its own affair.
CancelRest(n) ==
    /\ Usable /\ cancel[n] = "rest"
    /\ \E os \in {{}, LiveOrders \cap {OrderOf(n)}} : EndOf(os)
    /\ cancel' = [cancel EXCEPT ![n] = "done"]
    /\ UNCHANGED <<reader, flags, order_id_map, closing, place, sweep, known, link, wire, session, told>>

SweepCheck ==
    /\ Usable /\ closing = "no"
    /\ sweep = "idle"
    /\ sweep' = Path
    /\ UNCHANGED <<reader, flags, order_id_map, closing, place, cancel, known, net, exchange, told>>

SweepWs ==
    /\ Usable /\ sweep = "ws"
    /\ Write([type |-> "cancel_all"])
    /\ sweep' = "done"
    /\ UNCHANGED <<reader, authenticated, running, order_id_map, closing, place, cancel, known,
                   link, inbox, exchange, told>>

SweepRest ==
    /\ Usable /\ sweep = "rest"
    /\ \E os \in {{}, LiveOrders} : EndOf(os)
    /\ sweep' = "done"
    /\ UNCHANGED <<reader, flags, order_id_map, closing, place, cancel, known, link, wire, session, told>>

\* Entries that fetch_open_orders adds; its answer tells the panel the exchange's ids.
Seed(ids) == order_id_map \cup ids

Fetch ==
    /\ Usable /\ closing = "no"
    /\ LET ids == {Id(o) : o \in LiveOrders} IN
         /\ ~(ids \subseteq known /\ ids \subseteq order_id_map)
         /\ order_id_map' = Seed(ids)
         /\ known' = known \cup ids
    /\ UNCHANGED <<reader, flags, closing, calls, net, exchange, told>>

Call == \/ \E o \in Orders : PlaceWs(o) \/ PlaceRest(o)
        \/ \E n \in Names : LookUp(n) \/ CancelWs(n) \/ CancelRest(n)
        \/ SweepWs \/ SweepRest

-----------------------------------------------------------------------------
(* shutdown() *)

ShutdownBegin ==
    /\ Constructed /\ closing = "no"
    /\ IF running THEN /\ running' = FALSE /\ authenticated' = FALSE
                       /\ closing' = "stopping"
                  ELSE closing' = "gone" /\ UNCHANGED <<running, authenticated>>
    /\ UNCHANGED <<reader, connected, order_id_map, calls, known, net, exchange, told>>

CloseSocket ==
    /\ closing = "stopping"
    /\ link' = "down" /\ wire' = <<>>
    /\ closing' = "closed"
    /\ UNCHANGED <<reader, flags, order_id_map, calls, known, inbox, exchange, told>>

JoinAndReset ==
    /\ closing = "closed"
    /\ reader \in {"ended", "failed"}
    /\ connected' = FALSE
    /\ closing' = "gone"
    /\ UNCHANGED <<reader, authenticated, running, order_id_map, calls, known, net, exchange, told>>

-----------------------------------------------------------------------------
(* The exchange (external) *)

Reply(ms) == inbox' = inbox \o ms /\ Len(inbox') <= InboxMax

\* The answer to a request and the event that it causes come in either order.
Report(answer, type, o) ==
    IF session.subscribed
    THEN Reply(<<answer, Event(type, o)>>) \/ Reply(<<Event(type, o), answer>>)
    ELSE Reply(<<answer>>)

ServeLogin ==
    /\ \E ok \in BOOLEAN : session' = [session EXCEPT !.login = ok] /\ Reply(<<[type |-> "login", ok |-> ok]>>)
    /\ UNCHANGED ord

ServeSubscribe ==
    /\ session' = [session EXCEPT !.subscribed = session.login]
    /\ UNCHANGED <<ord, inbox>>

ServePlace(o) ==
    \/ /\ session.login
       /\ ord' = [ord EXCEPT ![o] = "live"]
       /\ Report(Answer("place", o, TRUE), "event", o)
       /\ UNCHANGED session
    \/ /\ ord' = [ord EXCEPT ![o] = "refused"]
       /\ Reply(<<Answer("place", o, FALSE)>>)
       /\ UNCHANGED session

\* A cancel may be refused, by our name or by the exchange's.
ServeCancel(o) ==
    \/ /\ session.login /\ ord[o] = "live"
       /\ ord' = [ord EXCEPT ![o] = "over"]
       /\ Report(Answer("cancel", o, TRUE), "finish", o)
       /\ UNCHANGED session
    \/ /\ Reply(<<Answer("cancel", o, FALSE)>>)
       /\ UNCHANGED <<session, ord>>

Serve ==
    /\ link = "up" /\ wire # <<>>
    /\ LET c == Head(wire) IN
         CASE c.type = "login"      -> ServeLogin
           [] c.type = "subscribe"  -> ServeSubscribe
           [] c.type = "place"      -> ServePlace(c.order)
           [] c.type = "cancel"     -> ServeCancel(c.order)
           [] c.type = "pong"       -> UNCHANGED <<exchange, inbox>>
           [] c.type = "cancel_all" -> EndOf(LiveOrders) /\ UNCHANGED session
    /\ wire' = Tail(wire)
    /\ UNCHANGED <<reader, flags, order_id_map, closing, calls, known, link, told>>

Fill(o) ==
    /\ ord[o] = "live"
    /\ EndOf({o})
    /\ UNCHANGED <<reader, flags, order_id_map, closing, calls, known, link, wire, session, told>>

\* One unanswered ping at a time; it may come before the answer to the login.
ServerPing ==
    /\ link = "up"
    /\ \A i \in DOMAIN inbox : inbox[i].type # "ping"
    /\ \A i \in DOMAIN wire : wire[i].type # "pong"
    /\ Reply(<<[type |-> "ping"]>>)
    /\ UNCHANGED <<reader, flags, order_id_map, closing, calls, known, link, wire, exchange, told>>

\* What has arrived here may still be read.
LinkBreaks ==
    /\ link = "up"
    /\ link' = "down"
    /\ wire' = <<>>
    /\ \E k \in 0 .. Len(inbox) : inbox' = SubSeq(inbox, 1, k)
    /\ UNCHANGED <<reader, flags, order_id_map, closing, calls, known, exchange, told>>

-----------------------------------------------------------------------------
Next ==
    \/ Connect \/ Listen
    \/ \E o \in Orders : PlaceCheck(o) \/ Fill(o)
    \/ \E n \in Names : CancelCheck(n)
    \/ SweepCheck \/ Call \/ Fetch
    \/ ShutdownBegin \/ CloseSocket \/ JoinAndReset
    \/ Serve \/ ServerPing \/ LinkBreaks

(* The threads run.  A read on a lost connection ends: the pings, every ten  *)
(* seconds, make the system find out.                                        *)
Spec == Init /\ [][Next]_vars /\ WF_vars(Connect \/ Listen)

-----------------------------------------------------------------------------
(* Properties *)

\* No order, cancel or cancel-all travels on a connection that the exchange has not
\* authenticated, whichever thread set or reset the flag in between.
CommandsAfterLogin ==
    \A i \in DOMAIN wire : Trading(wire[i]) => session.login

\* place_order_ws answers "Sent" without having looked at what ws_write did.  As long as the
\* connection holds and is not being shut down the answer is right: the order is on its way
\* or has been dealt with.
SentIsSentWhileLinkHolds ==
    \A o \in Orders : place[o] = "sent" /\ link = "up" /\ running =>
        \/ ord[o] # "none"
        \/ \E i \in DOMAIN wire : wire[i].type = "place" /\ wire[i].order = o

\* Once the answer to its placement has been handled, a live order is cancelled by the
\* exchange's id: its entry outlives refused cancels, fetches and other orders' events.
MapServesCancels ==
    [][\A o \in Orders :
         cancel[Client(o)] = "lookup" /\ cancel'[Client(o)] = "client" /\ o \in told
           => ord[o] = "over"]_vars

\* Fallback: when the connection is lost, calls go to REST in the end.
FallsBackToRest == link = "down" ~> ~authenticated

\* A login answered while shutdown() resets the flags does not survive it.
ClosedForGood == closing = "gone" => ~authenticated /\ ~connected

=============================================================================
