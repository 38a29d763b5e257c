------------------------------ MODULE Shutdown ------------------------------
(***************************************************************************)
(* The life of the program's threads: main.cpp starts them, the window     *)
(* closes, and the shutdown sequence stops and joins them one by one.      *)
(* The ring is reduced to the number of updates the aggregator has not     *)
(* read, the order streams and the Gate trading session to their flags and *)
(* threads, and a call of TradeManager to whether it has returned.         *)
(***************************************************************************)
EXTENDS Naturals, Sequences

CONSTANTS
    Feeds,      \* the handlers, in the order main disconnects and joins them
    Streams,    \* the order streams that have keys, in the order main stops them
    Calls,      \* requests dispatched with std::async
    Capacity    \* updates the ring holds unread: SIZE - 1

ASSUME CapacityAssumption == Capacity \in Nat \ {0}

VARIABLES
    mpc,        \* where main is
    turn,       \* which stream or feed it has come to
    g_running,
    thread,     \* the state of each thread
    backlog,    \* updates published and not yet consumed
    stopped,    \* the clients whose stop() has been called
    running,    \* running_ of each order stream, running of GateWsImpl
    failed,     \* history: the streams whose connection could not be opened
    trader,     \* the traders TradeManager owns
    call        \* each request

control == <<mpc, turn>>
session == <<stopped, running, failed>>
orders  == <<trader, call>>
vars    == <<control, g_running, thread, backlog, session, orders>>

FeedSet   == {Feeds[i] : i \in DOMAIN Feeds}
StreamSet == {Streams[i] : i \in DOMAIN Streams}
Ws(s)     == <<"ws_thread", s>>
Renew(s)  == <<"renew_thread", s>>
Listen    == <<"listen_thread", "Gate">>
Ping      == <<"ping_thread", "Gate">>
Agg       == <<"agg_thread", "main">>

\* The std::thread objects.  The threads of std::async are the Calls: nobody joins those.
Threads   == FeedSet \cup {Ws(s) : s \in StreamSet} \cup {Renew(s) : s \in StreamSet}
                     \cup {Listen, Ping, Agg}

\* main.cpp keeps its handlers and its order streams in lists; it has some handlers.
ASSUME FeedsAssumption   == Feeds \in Seq(FeedSet) /\ Feeds # <<>>
ASSUME StreamsAssumption == Streams \in Seq(StreamSet)

\* No two of these objects share a thread or a running flag.
ASSUME NamesAssumption ==
    /\ "Gate" \notin StreamSet
    /\ \A f \in FeedSet : f \notin {Listen, Ping, Agg}
    /\ \A f \in FeedSet, s \in StreamSet : f # Ws(s) /\ f # Renew(s)

TypeOK ==
    /\ mpc \in {"connecting", "starting", "rendering", "stopping", "join_ws", "join_renew",
                "deleting", "shutdown", "join_ping", "join_listen", "resetting",
                "disconnecting", "joining", "join_agg", "returned", "terminated"}
    /\ turn \in 1 .. Len(Feeds) + Len(Streams) + 1
    /\ g_running \in BOOLEAN
    /\ thread \in [Threads -> {"none", "running", "publishing", "consuming", "putting",
                              "exited", "joined"}]
    /\ backlog \in 0 .. Capacity
    /\ stopped \subseteq FeedSet \cup StreamSet \cup {"Gate"}
    /\ running \in [StreamSet \cup {"Gate"} -> BOOLEAN]
    /\ failed \subseteq StreamSet
    /\ trader \in {"live", "destroyed"}
    /\ call \in [Calls -> {"none", "pending", "done"}]

Init ==
    /\ mpc = "connecting" /\ turn = 1
    /\ g_running = TRUE
    /\ thread = [t \in Threads |-> IF t \in FeedSet \cup {Agg} THEN "running" ELSE "none"]
    /\ backlog = 0
    /\ stopped = {} /\ running = [s \in StreamSet \cup {"Gate"} |-> FALSE] /\ failed = {}
    /\ trader = "live"
    /\ call = [c \in Calls |-> "none"]

Alive == mpc # "terminated"

\* thread::join, when the thread was ever started.
Join(t) == /\ thread[t] \in {"none", "exited"}
           /\ thread' = [thread EXCEPT ![t] = IF @ = "none" THEN "none" ELSE "joined"]

-----------------------------------------------------------------------------
(* Faulty variants of steps below, used to show that the properties at the   *)
(* end notice them.                                                          *)

\* stop() does not join the renew thread.
ForgetRenew ==
    /\ mpc = "join_renew"
    /\ mpc' = "deleting"
    /\ UNCHANGED <<turn, g_running, thread, backlog, session, orders>>

\* disconnect() only lowers the handler's flag.
DisconnectKeepsClient ==
    /\ mpc = "disconnecting"
    /\ IF turn = Len(Feeds) THEN mpc' = "joining" /\ turn' = 1
                            ELSE mpc' = mpc /\ turn' = turn + 1
    /\ UNCHANGED <<g_running, thread, backlog, session, orders>>

\* main returns without waiting for the aggregator.
ForgetAgg ==
    /\ mpc = "join_agg"
    /\ mpc' = "returned"
    /\ UNCHANGED <<turn, g_running, thread, backlog, session, orders>>

\* publish claims a slot when none is free.
PublishFull(f) ==
    /\ thread[f] = "publishing"
    /\ Alive
    /\ backlog' = backlog + 1
    /\ thread' = [thread EXCEPT ![f] = "running"]
    /\ UNCHANGED <<control, g_running, session, orders>>

-----------------------------------------------------------------------------
(* main, before the window opens *)

\* TradeManager connects to Gate: not at all (no keys, or a failure before running is
\* set), up to the login reply but not further, or completely.
ConnectGate ==
    /\ mpc = "connecting"
    /\ mpc' = IF Streams = <<>> THEN "rendering" ELSE "starting"
    /\ \/ UNCHANGED <<running, thread>>
       \/ running' = [running EXCEPT !["Gate"] = TRUE] /\ UNCHANGED thread
       \/ /\ running' = [running EXCEPT !["Gate"] = TRUE]
          /\ thread' = [thread EXCEPT ![Listen] = "running", ![Ping] = "running"]
    /\ UNCHANGED <<turn, g_running, backlog, stopped, failed, orders>>

\* start(): there may be no listen key.
StartStream ==
    /\ mpc = "starting"
    /\ LET s == Streams[turn] IN
         \/ UNCHANGED <<running, thread>>
         \/ /\ running' = [running EXCEPT ![s] = TRUE]
            /\ thread' = [thread EXCEPT ![Ws(s)] = "running", ![Renew(s)] = "running"]
    /\ IF turn = Len(Streams) THEN mpc' = "rendering" /\ turn' = 1
                              ELSE mpc' = mpc /\ turn' = turn + 1
    /\ UNCHANGED <<g_running, backlog, stopped, failed, orders>>

-----------------------------------------------------------------------------
(* Order requests *)

Dispatch(c) ==
    /\ mpc = "rendering"
    /\ call[c] = "none"
    /\ call' = [call EXCEPT ![c] = "pending"]
    /\ UNCHANGED <<control, g_running, thread, backlog, session, trader>>

Complete(c) ==
    /\ Alive
    /\ call[c] = "pending"
    /\ call' = [call EXCEPT ![c] = "done"]
    /\ UNCHANGED <<control, g_running, thread, backlog, session, trader>>

-----------------------------------------------------------------------------
(* The shutdown sequence *)

CloseWindow ==
    /\ mpc = "rendering"
    /\ g_running' = FALSE
    /\ mpc' = IF Streams = <<>> THEN "shutdown" ELSE "stopping"
    /\ UNCHANGED <<turn, thread, backlog, session, orders>>

\* stop(): a stream that is not running is left as it is.
StopStream ==
    /\ mpc = "stopping"
    /\ LET s == Streams[turn] IN
         /\ mpc' = IF running[s] THEN "join_ws" ELSE "deleting"
         /\ running' = [running EXCEPT ![s] = FALSE]
         /\ stopped' = IF running[s] THEN stopped \cup {s} ELSE stopped
    /\ UNCHANGED <<turn, g_running, thread, backlog, failed, orders>>

JoinWs ==
    /\ mpc = "join_ws"
    /\ Join(Ws(Streams[turn]))
    /\ mpc' = "join_renew"
    /\ UNCHANGED <<turn, g_running, backlog, session, orders>>

JoinRenew ==
    /\ mpc = "join_renew"
    /\ Join(Renew(Streams[turn]))
    /\ mpc' = "deleting"
    /\ UNCHANGED <<turn, g_running, backlog, session, orders>>

\* delete: the destructor's stop() returns at once, and a std::thread destroyed while
\* it is joinable ends the process.
DeleteStream ==
    /\ mpc = "deleting"
    /\ LET s == Streams[turn]
           joinable == \E t \in {Ws(s), Renew(s)} : thread[t] \notin {"none", "joined"}
       IN  \/ joinable /\ mpc' = "terminated" /\ turn' = turn
           \/ ~joinable /\ turn = Len(Streams) /\ mpc' = "shutdown" /\ turn' = 1
           \/ ~joinable /\ turn # Len(Streams) /\ mpc' = "stopping" /\ turn' = turn + 1
    /\ UNCHANGED <<g_running, thread, backlog, session, orders>>

\* TradeManager::shutdown destroys GateTrader, whose GateWsImpl stops unless it is not
\* running: lower the flag, close the socket ...
ShutdownGate ==
    /\ mpc = "shutdown"
    /\ mpc' = IF running["Gate"] THEN "join_ping" ELSE "resetting"
    /\ running' = [running EXCEPT !["Gate"] = FALSE]
    /\ stopped' = IF running["Gate"] THEN stopped \cup {"Gate"} ELSE stopped
    /\ UNCHANGED <<turn, g_running, thread, backlog, failed, orders>>

\* ... and join both threads.
JoinPing ==
    /\ mpc = "join_ping"
    /\ Join(Ping)
    /\ mpc' = "join_listen"
    /\ UNCHANGED <<turn, g_running, backlog, session, orders>>

JoinListen ==
    /\ mpc = "join_listen"
    /\ Join(Listen)
    /\ mpc' = "resetting"
    /\ UNCHANGED <<turn, g_running, backlog, session, orders>>

ResetTraders ==
    /\ mpc = "resetting"
    /\ trader' = "destroyed"
    /\ mpc' = "disconnecting"
    /\ UNCHANGED <<turn, g_running, thread, backlog, session, call>>

Disconnect ==
    /\ mpc = "disconnecting"
    /\ stopped' = stopped \cup {Feeds[turn]}
    /\ IF turn = Len(Feeds) THEN mpc' = "joining" /\ turn' = 1
                            ELSE mpc' = mpc /\ turn' = turn + 1
    /\ UNCHANGED <<g_running, thread, backlog, running, failed, orders>>

JoinFeed ==
    /\ mpc = "joining"
    /\ Join(Feeds[turn])
    /\ IF turn = Len(Feeds) THEN mpc' = "join_agg" /\ turn' = 1
                            ELSE mpc' = mpc /\ turn' = turn + 1
    /\ UNCHANGED <<g_running, backlog, session, orders>>

JoinAgg ==
    /\ mpc = "join_agg"
    /\ Join(Agg)
    /\ mpc' = "returned"
    /\ UNCHANGED <<turn, g_running, backlog, session, orders>>

-----------------------------------------------------------------------------
(* The threads *)

Goes(t, from, to) ==
    /\ Alive
    /\ thread[t] = from
    /\ thread' = [thread EXCEPT ![t] = to]

\* aggregator_run's loop: it leaves whatever is in the ring when the window closes.
TestRunning ==
    /\ Goes(Agg, "running", IF g_running THEN "consuming" ELSE "exited")
    /\ UNCHANGED <<control, g_running, backlog, session, orders>>

ConsumeOne ==
    /\ Goes(Agg, "consuming", "running")
    /\ backlog' = IF backlog > 0 THEN backlog - 1 ELSE 0
    /\ UNCHANGED <<control, g_running, session, orders>>

\* A feed handles a frame; g_running means nothing to it.
OnMessage(f) ==
    /\ f \notin stopped
    /\ Goes(f, "running", "publishing")
    /\ UNCHANGED <<control, g_running, backlog, session, orders>>

\* publish waits for the aggregator's sequence, whether or not it still advances.
Publish(f) ==
    /\ backlog < Capacity
    /\ Goes(f, "publishing", "running")
    /\ backlog' = backlog + 1
    /\ UNCHANGED <<control, g_running, session, orders>>

\* client.run() returns when the connection is gone or the client is stopped, but not
\* before the handler it is in.
FeedStops(f) ==
    /\ f \in stopped
    /\ Goes(f, "running", "exited")
    /\ UNCHANGED <<control, g_running, backlog, session, orders>>

FeedCloses(f) ==
    /\ f \notin stopped
    /\ Goes(f, "running", "exited")
    /\ UNCHANGED <<control, g_running, backlog, session, orders>>

WsStops(s) ==
    /\ s \in stopped
    /\ Goes(Ws(s), "running", "exited")
    /\ UNCHANGED <<control, g_running, backlog, session, orders>>

\* on_close tells running_ nothing ...
WsCloses(s) ==
    /\ s \notin stopped
    /\ Goes(Ws(s), "running", "exited")
    /\ UNCHANGED <<control, g_running, backlog, session, orders>>

\* ... but on_fail, or a URL that yields no connection, does.
WsFails(s) ==
    /\ Goes(Ws(s), "running", "exited")
    /\ running' = [running EXCEPT ![s] = FALSE]
    /\ failed' = failed \cup {s}
    /\ UNCHANGED <<control, g_running, backlog, stopped, orders>>

\* The renew thread wakes every five seconds and looks at running_; now and then it sends
\* a PUT, which ends when the exchange answers, with a client that has no timeout.
RenewPuts(s) ==
    /\ running[s]
    /\ Goes(Renew(s), "running", "putting")
    /\ UNCHANGED <<control, g_running, backlog, session, orders>>

RenewReturns(s) ==
    /\ Goes(Renew(s), "putting", "running")
    /\ UNCHANGED <<control, g_running, backlog, session, orders>>

RenewStops(s) ==
    /\ ~running[s]
    /\ Goes(Renew(s), "running", "exited")
    /\ UNCHANGED <<control, g_running, backlog, session, orders>>

PingStops ==
    /\ ~running["Gate"]
    /\ Goes(Ping, "running", "exited")
    /\ UNCHANGED <<control, g_running, backlog, session, orders>>

\* ws->read throws: the server has gone, or the socket is closed under it.
ListenStops ==
    /\ "Gate" \in stopped
    /\ Goes(Listen, "running", "exited")
    /\ UNCHANGED <<control, g_running, backlog, session, orders>>

ListenFails ==
    /\ "Gate" \notin stopped
    /\ Goes(Listen, "running", "exited")
    /\ UNCHANGED <<control, g_running, backlog, session, orders>>

-----------------------------------------------------------------------------
Main ==
    \/ ConnectGate \/ StartStream
    \/ StopStream \/ JoinWs \/ JoinRenew \/ DeleteStream
    \/ ShutdownGate \/ JoinPing \/ JoinListen \/ ResetTraders
    \/ Disconnect \/ JoinFeed \/ JoinAgg

Next ==
    \/ Main \/ CloseWindow
    \/ TestRunning \/ ConsumeOne \/ PingStops \/ ListenStops \/ ListenFails
    \/ \E c \in Calls : Dispatch(c) \/ Complete(c)
    \/ \E f \in FeedSet : OnMessage(f) \/ Publish(f) \/ FeedStops(f) \/ FeedCloses(f)
    \/ \E s \in StreamSet : WsStops(s) \/ WsCloses(s) \/ WsFails(s)
    \/ \E s \in StreamSet : RenewPuts(s) \/ RenewReturns(s) \/ RenewStops(s)

(* Threads are scheduled, a stopped client's run() returns, and a read on a   *)
(* closed socket ends (at the latest when the exchange drops a connection     *)
(* that no longer pings).  Frames, failures, REST answers, the one to the     *)
(* renewal included, and the user are not owed to anybody.                    *)
Fairness ==
    /\ WF_vars(Main) /\ WF_vars(TestRunning \/ ConsumeOne)
    /\ WF_vars(PingStops) /\ WF_vars(ListenStops)
    /\ \A f \in FeedSet : WF_vars(Publish(f)) /\ WF_vars(FeedStops(f))
    /\ \A s \in StreamSet : WF_vars(WsStops(s)) /\ WF_vars(RenewStops(s))

Spec == Init /\ [][Next]_vars /\ Fairness

-----------------------------------------------------------------------------
(* Properties *)

\* No thread runs behind this std::thread.
Gone(t) == thread[t] \in {"none", "joined"}

\* The order streams main has deleted.
Deleted ==
    CASE mpc \in {"stopping", "join_ws", "join_renew", "deleting"} ->
           {Streams[i] : i \in 1 .. turn - 1}
      [] mpc \in {"shutdown", "join_ping", "join_listen", "resetting", "disconnecting", "joining",
                  "join_agg", "returned"} -> StreamSet
      [] OTHER -> {}

\* Every std::thread is joined before what it works on is destroyed: a stream's two before
\* it is deleted, GateWsImpl's two before the traders go, the handlers' and the
\* aggregator's before main returns.  Of the request threads of std::async nothing of the
\* kind holds: a call may be pending when the traders, and main's stack, are gone.
JoinedBeforeDestroyed ==
    /\ \A s \in Deleted : Gone(Ws(s)) /\ Gone(Renew(s))
    /\ trader = "destroyed" => Gone(Listen) /\ Gone(Ping)
    /\ mpc = "returned" => \A t \in Threads : Gone(t)

\* A stream whose connection was opened and lost, or that never got a key, can be
\* stopped and deleted: only one whose connection failed takes the process down.
TerminatesOnlyAfterFailure == mpc = "terminated" => failed # {}

\* Once the window is closed main comes to its end, unless one of two things lasts for
\* ever: a feed is inside publish on a ring that nobody empties any more, or main joins
\* a renew thread whose PUT is never answered.
RingIsStuck == backlog = Capacity /\ \E f \in FeedSet : thread[f] = "publishing"
PutIsStuck  == mpc = "join_renew" /\ thread[Renew(Streams[turn])] = "putting"

HangsOnlyOnRingOrPut ==
    ~g_running ~> mpc \in {"returned", "terminated"} \/ []RingIsStuck \/ []PutIsStuck

=============================================================================
