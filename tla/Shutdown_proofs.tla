--------------------------- MODULE Shutdown_proofs ---------------------------
(***************************************************************************)
(* Whatever handlers, order streams and requests there are and however     *)
(* much the ring holds: main joins every std::thread before it destroys    *)
(* what the thread works on, and only a stream whose connection could not  *)
(* be opened takes the process down.                                       *)
(***************************************************************************)
EXTENDS Shutdown, TLAPS

(***************************************************************************)
(* The inductive invariant                                                 *)
(***************************************************************************)

StreamGone(s) == Gone(Ws(s)) /\ Gone(Renew(s))
GateGone      == Gone(Listen) /\ Gone(Ping)

Closing   == {"stopping", "join_ws", "join_renew", "deleting"}
Feeding   == {"disconnecting", "joining"}
GateDown  == {"resetting", "disconnecting", "joining", "join_agg", "returned"}
TradeDown == GateDown \cup {"shutdown", "join_ping", "join_listen"}

\* main's loops stay inside the lists they walk, and start at their beginning.
Turns ==
    /\ mpc \in Closing \cup {"starting"} => turn \in 1 .. Len(Streams)
    /\ mpc \in Feeding => turn \in 1 .. Len(Feeds)
    /\ mpc \notin Closing \cup Feeding \cup {"starting", "terminated"} => turn = 1

\* The streams main has deleted, all of them in the end, have no thread.
StreamsDown ==
    /\ mpc \in Closing => \A i \in 1 .. turn - 1 : StreamGone(Streams[i])
    /\ mpc \in TradeDown => \A s \in StreamSet : StreamGone(s)

\* A stream whose flag is down has failed or has no thread, unless stop() is joining them.
StreamFlags ==
    /\ mpc \in {"join_ws", "join_renew", "deleting"} => ~running[Streams[turn]]
    /\ mpc = "join_renew" => Gone(Ws(Streams[turn]))
    /\ \A s \in StreamSet :
         \/ running[s] \/ s \in failed \/ StreamGone(s)
         \/ mpc \in {"join_ws", "join_renew"} /\ s = Streams[turn]

\* The same of GateWsImpl, which has no way to fail, and goes with the traders.
GateFlags ==
    /\ running["Gate"] \/ GateGone \/ mpc \in {"join_ping", "join_listen"}
    /\ mpc = "join_listen" => Gone(Ping)
    /\ mpc \in GateDown => GateGone
    /\ trader = "destroyed" => mpc \in GateDown

\* The handlers' threads are joined in order, and the aggregator's last.
FeedsDown ==
    /\ mpc = "joining" => \A i \in 1 .. turn - 1 : Gone(Feeds[i])
    /\ mpc \in {"join_agg", "returned"} => \A f \in FeedSet : Gone(f)
    /\ mpc = "returned" => Gone(Agg)

Progress == Turns /\ StreamsDown /\ StreamFlags /\ GateFlags /\ FeedsDown

IInv == TypeOK /\ Progress /\ TerminatesOnlyAfterFailure

(***************************************************************************)
(* Names                                                                   *)
(***************************************************************************)

LEMMA Lists ==
  /\ Len(Streams) \in Nat /\ Len(Feeds) \in Nat \ {0}
  /\ DOMAIN Streams = 1 .. Len(Streams) /\ DOMAIN Feeds = 1 .. Len(Feeds)
  /\ \A i \in 1 .. Len(Streams) : Streams[i] \in StreamSet
  /\ \A i \in 1 .. Len(Feeds) : Feeds[i] \in FeedSet
  /\ \A s \in StreamSet : \E i \in 1 .. Len(Streams) : s = Streams[i]
  /\ \A f \in FeedSet : \E i \in 1 .. Len(Feeds) : f = Feeds[i]
  /\ Streams # <<>> => Len(Streams) > 0
<1>1. Len(Streams) \in Nat /\ DOMAIN Streams = 1 .. Len(Streams) /\ (Streams # <<>> => Len(Streams) > 0)
  BY StreamsAssumption
<1>2. Len(Feeds) \in Nat \ {0} /\ DOMAIN Feeds = 1 .. Len(Feeds)
  BY FeedsAssumption
<1> QED BY <1>1, <1>2 DEF StreamSet, FeedSet

\* One step of a loop over one of the two lists.
LEMMA StepOn ==
  ASSUME NEW n \in {Len(Streams), Len(Feeds)}, NEW i \in 1 .. n, NEW j,
         j = 1 \/ (i # n /\ j = i + 1)
  PROVE  /\ j \in 1 .. Len(Feeds) + Len(Streams) + 1
         /\ j \in 1 .. n
BY Lists

\* The elements such a loop has gone by.
LEMMA GoneBy ==
  ASSUME NEW n \in Nat, NEW t \in 1 .. n
  PROVE  /\ \A i \in 1 .. n : i <= t => i = t \/ i < t
         /\ \A i \in 1 .. (t + 1) - 1 : i \in 1 .. n /\ i <= t
OBVIOUS

\* No two threads of the clients have the same name, nor does one have a handler's.
LEMMA Names ==
  /\ \A s \in StreamSet : Ws(s) \in Threads /\ Renew(s) \in Threads
  /\ Listen \in Threads /\ Ping \in Threads /\ Agg \in Threads
  /\ \A f \in FeedSet : f \in Threads
  /\ \A s, r \in StreamSet : s # r => {Ws(s), Renew(s)} \cap {Ws(r), Renew(r)} = {}
  /\ \A s \in StreamSet : {Ws(s), Renew(s)} \cap (FeedSet \cup {Listen, Ping, Agg}) = {}
  /\ {Listen, Ping} \cap (FeedSet \cup {Agg}) = {}
  /\ "Gate" \notin StreamSet
<1>1. \A s, r \in StreamSet : s # r => {Ws(s), Renew(s)} \cap {Ws(r), Renew(r)} = {}
  BY DEF Ws, Renew
<1>2. \A s \in StreamSet : {Ws(s), Renew(s)} \cap {Listen, Ping, Agg} = {}
  BY DEF Ws, Renew, Listen, Ping, Agg
<1>3. \A s \in StreamSet : {Ws(s), Renew(s)} \cap FeedSet = {}
  BY NamesAssumption
<1>4. {Listen, Ping} \cap (FeedSet \cup {Agg}) = {}
  BY NamesAssumption DEF Listen, Ping, Agg
<1> QED BY <1>1, <1>2, <1>3, <1>4, NamesAssumption DEF Threads

(***************************************************************************)
(* What the steps do to the threads                                        *)
(***************************************************************************)

States == {"none", "running", "publishing", "consuming", "putting", "exited", "joined"}

\* Nothing that is gone comes back.
Keeps == \A t \in Threads : Gone(t) => Gone(t)'

LEMMA JoinGone ==
  ASSUME TypeOK, NEW t \in Threads, Join(t)
  PROVE  thread' \in [Threads -> States] /\ Gone(t)' /\ Keeps
BY DEF TypeOK, States, Join, Gone, Keeps

LEMMA GoesKeeps ==
  ASSUME TypeOK, NEW t \in Threads,
         NEW from \in {"running", "publishing", "consuming", "putting"},
         NEW to \in {"running", "publishing", "consuming", "putting", "exited"},
         Goes(t, from, to)
  PROVE  thread' \in [Threads -> States] /\ Keeps
BY DEF TypeOK, States, Goes, Gone, Keeps

\* A step of a thread that is not main: a flag it lowers belongs to a stream that failed.
Aside ==
    /\ UNCHANGED <<control, trader>> /\ Keeps
    /\ running'["Gate"] = running["Gate"] /\ failed \subseteq failed'
    /\ \A s \in StreamSet : running'[s] => running[s]
    /\ \A s \in StreamSet : running[s] => running'[s] \/ s \in failed'

LEMMA AsideProgress ==
  ASSUME TypeOK, Progress, Aside
  PROVE  Progress'
<1> USE DEF Progress, Aside, control
<1>1. Turns' BY DEF Turns
<1>2. \A s \in StreamSet : StreamGone(s) => StreamGone(s)' BY Names DEF Keeps, StreamGone
<1>3. \A i \in 1 .. turn - 1 : mpc \in Closing => Streams[i] \in StreamSet
  BY Lists DEF Turns, TypeOK
<1>4. StreamsDown' BY <1>2, <1>3 DEF StreamsDown
<1>5. mpc \in Closing => Streams[turn] \in StreamSet BY Lists DEF Turns
<1>6. StreamFlags' BY <1>2, <1>5, Names DEF StreamFlags, Closing, Keeps
<1>7. GateFlags' BY Names DEF GateFlags, GateGone, Keeps
<1>8. mpc = "joining" => \A i \in 1 .. turn - 1 : Feeds[i] \in FeedSet
  BY Lists DEF Turns, TypeOK, Feeding
<1>9. FeedsDown' BY <1>8, Names DEF FeedsDown, Keeps
<1> QED BY <1>1, <1>4, <1>6, <1>7, <1>9

(***************************************************************************)
(* Initial states, and the steps of the other threads                      *)
(***************************************************************************)

LEMMA InitIInv == Init => IInv
<1> SUFFICES ASSUME Init PROVE IInv OBVIOUS
<1> USE DEF Init
<1>1. /\ \A s \in StreamSet : thread[Ws(s)] = "none" /\ thread[Renew(s)] = "none"
      /\ thread[Listen] = "none" /\ thread[Ping] = "none"
  BY Names
<1>2. thread \in [Threads -> States] BY DEF States
<1>3. TypeOK BY <1>2, Lists, CapacityAssumption DEF TypeOK, States
<1>4. Turns BY DEF Turns, Closing, Feeding
<1>5. StreamsDown BY DEF StreamsDown, Closing, TradeDown, GateDown
<1>6. StreamFlags BY <1>1 DEF StreamFlags, StreamGone, Gone
<1>7. GateFlags BY <1>1 DEF GateFlags, GateGone, Gone, GateDown
<1>8. FeedsDown BY DEF FeedsDown
<1> QED BY <1>3, <1>4, <1>5, <1>6, <1>7, <1>8 DEF IInv, Progress, TerminatesOnlyAfterFailure

LEMMA AggStep == IInv /\ (TestRunning \/ ConsumeOne) => IInv'
<1> SUFFICES ASSUME IInv, TestRunning \/ ConsumeOne PROVE IInv' OBVIOUS
<1> USE DEF IInv, session, orders
<1>1. thread' \in [Threads -> States] /\ Keeps
  BY GoesKeeps, Names DEF TestRunning, ConsumeOne
<1>2. backlog' \in 0 .. Capacity
  BY CapacityAssumption DEF TypeOK, TestRunning, ConsumeOne
<1>3. UNCHANGED <<control, g_running, session, orders>> BY DEF TestRunning, ConsumeOne
<1>4. TypeOK' BY <1>1, <1>2, <1>3 DEF TypeOK, States, control
<1>5. Aside BY <1>1, <1>3 DEF Aside
<1>6. Progress' BY <1>5, AsideProgress
<1> QED BY <1>3, <1>4, <1>6 DEF TerminatesOnlyAfterFailure, control

LEMMA FeedStep ==
  ASSUME NEW f \in FeedSet
  PROVE  IInv /\ (OnMessage(f) \/ Publish(f) \/ FeedStops(f) \/ FeedCloses(f)) => IInv'
<1> SUFFICES ASSUME IInv, OnMessage(f) \/ Publish(f) \/ FeedStops(f) \/ FeedCloses(f)
             PROVE  IInv'
  OBVIOUS
<1> USE DEF IInv, session, orders
<1>1. thread' \in [Threads -> States] /\ Keeps
  BY GoesKeeps, Names DEF OnMessage, Publish, FeedStops, FeedCloses
<1>2. backlog' \in 0 .. Capacity
  BY CapacityAssumption DEF TypeOK, OnMessage, Publish, FeedStops, FeedCloses
<1>3. UNCHANGED <<control, g_running, session, orders>>
  BY DEF OnMessage, Publish, FeedStops, FeedCloses
<1>4. TypeOK' BY <1>1, <1>2, <1>3 DEF TypeOK, States, control
<1>5. Aside BY <1>1, <1>3 DEF Aside
<1>6. Progress' BY <1>5, AsideProgress
<1> QED BY <1>3, <1>4, <1>6 DEF TerminatesOnlyAfterFailure, control

LEMMA StreamStep ==
  ASSUME NEW s \in StreamSet
  PROVE  IInv /\ (WsStops(s) \/ WsCloses(s) \/ RenewPuts(s) \/ RenewReturns(s) \/ RenewStops(s))
           => IInv'
<1> SUFFICES ASSUME IInv,
                    WsStops(s) \/ WsCloses(s) \/ RenewPuts(s) \/ RenewReturns(s) \/ RenewStops(s)
             PROVE  IInv'
  OBVIOUS
<1> USE DEF IInv, session, orders
<1>1. thread' \in [Threads -> States] /\ Keeps
  BY GoesKeeps, Names DEF WsStops, WsCloses, RenewPuts, RenewReturns, RenewStops
<1>2. UNCHANGED <<control, g_running, backlog, session, orders>>
  BY DEF WsStops, WsCloses, RenewPuts, RenewReturns, RenewStops
<1>3. TypeOK' BY <1>1, <1>2 DEF TypeOK, States, control
<1>4. Aside BY <1>1, <1>2 DEF Aside
<1>5. Progress' BY <1>4, AsideProgress
<1> QED BY <1>2, <1>3, <1>5 DEF TerminatesOnlyAfterFailure, control

\* A connection that fails lowers the flag of a stream, and says so in failed.
LEMMA FailStep ==
  ASSUME NEW s \in StreamSet
  PROVE  IInv /\ WsFails(s) => IInv'
<1> SUFFICES ASSUME IInv, WsFails(s) PROVE IInv' OBVIOUS
<1> USE DEF IInv, WsFails, orders
<1>1. thread' \in [Threads -> States] /\ Keeps BY GoesKeeps, Names
<1>2. running' \in [StreamSet \cup {"Gate"} -> BOOLEAN] BY DEF TypeOK
<1>3. TypeOK' BY <1>1, <1>2 DEF TypeOK, States, control
<1>4. \A r \in StreamSet : r # s => running'[r] = running[r] BY DEF TypeOK
<1>5. running'["Gate"] = running["Gate"] /\ running'[s] = FALSE BY Names DEF TypeOK
<1>6. Aside BY <1>1, <1>4, <1>5 DEF Aside, TypeOK
<1>7. Progress' BY <1>6, AsideProgress
<1> QED BY <1>3, <1>7 DEF TerminatesOnlyAfterFailure, control

LEMMA GateThreadStep == IInv /\ (PingStops \/ ListenStops \/ ListenFails) => IInv'
<1> SUFFICES ASSUME IInv, PingStops \/ ListenStops \/ ListenFails PROVE IInv' OBVIOUS
<1> USE DEF IInv, session, orders
<1>1. thread' \in [Threads -> States] /\ Keeps
  BY GoesKeeps, Names DEF PingStops, ListenStops, ListenFails
<1>2. UNCHANGED <<control, g_running, backlog, session, orders>>
  BY DEF PingStops, ListenStops, ListenFails
<1>3. TypeOK' BY <1>1, <1>2 DEF TypeOK, States, control
<1>4. Aside BY <1>1, <1>2 DEF Aside
<1>5. Progress' BY <1>4, AsideProgress
<1> QED BY <1>2, <1>3, <1>5 DEF TerminatesOnlyAfterFailure, control

LEMMA CallStep ==
  ASSUME NEW c \in Calls
  PROVE  IInv /\ (Dispatch(c) \/ Complete(c)) => IInv'
<1> SUFFICES ASSUME IInv, Dispatch(c) \/ Complete(c) PROVE IInv' OBVIOUS
<1> USE DEF IInv, session, Dispatch, Complete
<1>1. call' \in [Calls -> {"none", "pending", "done"}] BY DEF TypeOK
<1>2. TypeOK' BY <1>1 DEF TypeOK, control
<1>3. Keeps BY DEF Keeps, Gone
<1>4. Aside BY <1>3 DEF Aside
<1>5. Progress' BY <1>4, AsideProgress
<1> QED BY <1>2, <1>5 DEF TerminatesOnlyAfterFailure, control

(***************************************************************************)
(* The steps of main                                                       *)
(***************************************************************************)

LEMMA ConnectGateStep == IInv /\ ConnectGate => IInv'
<1> SUFFICES ASSUME IInv, ConnectGate PROVE IInv' OBVIOUS
<1> USE DEF IInv, Progress, ConnectGate, orders
<1>1. /\ thread' \in [Threads -> States]
      /\ \A t \in Threads : t \notin {Listen, Ping} => thread'[t] = thread[t]
  BY DEF TypeOK, States
<1>2. /\ running' \in [StreamSet \cup {"Gate"} -> BOOLEAN]
      /\ \A s \in StreamSet : running'[s] = running[s]
  BY Names DEF TypeOK
<1>3. TypeOK' BY <1>1, <1>2 DEF TypeOK, States
<1>4. Turns' BY Lists DEF Turns, Closing, Feeding
<1>5. StreamsDown' BY DEF StreamsDown, Closing, TradeDown, GateDown
<1>6. StreamFlags' BY <1>1, <1>2, Names DEF StreamFlags, StreamGone, Gone
<1>7. running'["Gate"] \/ GateGone' BY <1>2 DEF GateFlags, GateGone, Gone, TypeOK
<1>8. GateFlags' BY <1>7 DEF GateFlags, GateDown
<1>9. FeedsDown' BY DEF FeedsDown
<1> QED BY <1>3, <1>4, <1>5, <1>6, <1>8, <1>9 DEF TerminatesOnlyAfterFailure

LEMMA StartStreamStep == IInv /\ StartStream => IInv'
<1> SUFFICES ASSUME IInv, StartStream PROVE IInv' OBVIOUS
<1> USE DEF IInv, Progress, StartStream, orders
<1> DEFINE s == Streams[turn]
<1>1. turn \in 1 .. Len(Streams) /\ s \in StreamSet BY Lists DEF Turns
<1>2. /\ thread' \in [Threads -> States]
      /\ \A t \in Threads : t \notin {Ws(s), Renew(s)} => thread'[t] = thread[t]
  BY DEF TypeOK, States
<1>3. /\ running' \in [StreamSet \cup {"Gate"} -> BOOLEAN]
      /\ \A r \in StreamSet \cup {"Gate"} : r # s => running'[r] = running[r]
  BY DEF TypeOK
<1>4. \/ mpc' = "rendering" /\ turn' = 1
      \/ mpc' = "starting" /\ turn' = turn + 1 /\ turn # Len(Streams)
  OBVIOUS
<1>5. turn' \in 1 .. Len(Feeds) + Len(Streams) + 1 /\ turn' \in 1 .. Len(Streams)
  BY <1>1, <1>4, StepOn, Zenon
<1>6. TypeOK' BY <1>2, <1>3, <1>4, <1>5 DEF TypeOK, States
<1>7. Turns' BY <1>4, <1>5 DEF Turns, Closing, Feeding
<1>8. StreamsDown' BY DEF StreamsDown, Closing, TradeDown, GateDown
<1>9. running'[s] \/ UNCHANGED <<running, thread>> BY <1>1 DEF TypeOK
<1>10. \A r \in StreamSet : running'[r] \/ r \in failed' \/ StreamGone(r)'
  BY <1>1, <1>2, <1>3, <1>9, Names DEF StreamFlags, StreamGone, Gone
<1>11. StreamFlags' BY <1>10 DEF StreamFlags
<1>12. GateFlags' BY <1>1, <1>2, <1>3, Names DEF GateFlags, GateGone, Gone, GateDown
<1>13. FeedsDown' BY DEF FeedsDown
<1> QED BY <1>6, <1>7, <1>8, <1>11, <1>12, <1>13 DEF TerminatesOnlyAfterFailure

LEMMA CloseWindowStep == IInv /\ CloseWindow => IInv'
<1> SUFFICES ASSUME IInv, CloseWindow PROVE IInv' OBVIOUS
<1> USE DEF IInv, Progress, CloseWindow, session, orders
<1>1. TypeOK' BY DEF TypeOK
<1>2. Turns' BY Lists DEF Turns, Closing, Feeding
<1>3. StreamSet = {} \/ mpc' = "stopping" BY Lists
<1>4. turn' = 1 BY DEF Turns, Closing, Feeding
<1>5. StreamsDown' BY <1>3, <1>4 DEF StreamsDown, Closing, TradeDown, GateDown
<1>6. StreamFlags' BY DEF StreamFlags, StreamGone, Gone
<1>7. GateFlags' BY DEF GateFlags, GateGone, Gone, GateDown
<1>8. FeedsDown' BY DEF FeedsDown
<1> QED BY <1>1, <1>2, <1>5, <1>6, <1>7, <1>8 DEF TerminatesOnlyAfterFailure

LEMMA StopStreamStep == IInv /\ StopStream => IInv'
<1> SUFFICES ASSUME IInv, StopStream PROVE IInv' OBVIOUS
<1> USE DEF IInv, Progress, StopStream, orders
<1> DEFINE s == Streams[turn]
<1>1. turn \in 1 .. Len(Streams) /\ s \in StreamSet BY Lists DEF Turns, Closing
<1>2. /\ running' \in [StreamSet \cup {"Gate"} -> BOOLEAN]
      /\ running'["Gate"] = running["Gate"] /\ running'[s] = FALSE
      /\ \A r \in StreamSet : r # s => running'[r] = running[r]
  BY <1>1, Names DEF TypeOK
<1>3. TypeOK' BY <1>1, <1>2 DEF TypeOK
<1>4. Turns' BY <1>1 DEF Turns, Closing, Feeding
<1>5. StreamsDown' BY DEF StreamsDown, StreamGone, Gone, Closing, TradeDown, GateDown
<1>6. mpc' = "join_ws" \/ s \in failed \/ StreamGone(s)
  BY <1>1, <1>2 DEF StreamFlags
<1>7. StreamFlags' BY <1>1, <1>2, <1>6 DEF StreamFlags, StreamGone, Gone
<1>8. GateFlags' BY <1>2 DEF GateFlags, GateGone, Gone, GateDown
<1>9. FeedsDown' BY DEF FeedsDown
<1> QED BY <1>3, <1>4, <1>5, <1>7, <1>8, <1>9 DEF TerminatesOnlyAfterFailure

LEMMA JoinWsStep == IInv /\ JoinWs => IInv'
<1> SUFFICES ASSUME IInv, JoinWs PROVE IInv' OBVIOUS
<1> USE DEF IInv, Progress, JoinWs, session, orders
<1> DEFINE s == Streams[turn]
<1>1. turn \in 1 .. Len(Streams) /\ s \in StreamSet BY Lists DEF Turns, Closing
<1>2. thread' \in [Threads -> States] /\ Gone(Ws(s))' /\ Keeps
  BY <1>1, JoinGone, Names
<1>3. TypeOK' BY <1>2 DEF TypeOK, States
<1>4. Turns' BY <1>1 DEF Turns, Closing, Feeding
<1>5. \A r \in StreamSet : StreamGone(r) => StreamGone(r)' BY <1>2, Names DEF Keeps, StreamGone
<1>6. \A i \in 1 .. turn - 1 : Streams[i] \in StreamSet BY <1>1, Lists
<1>7. StreamsDown' BY <1>5, <1>6 DEF StreamsDown, Closing, TradeDown, GateDown
<1>8. StreamFlags' BY <1>2, <1>5 DEF StreamFlags
<1>9. GateFlags' BY <1>2, Names DEF GateFlags, GateGone, Keeps, GateDown
<1>10. FeedsDown' BY DEF FeedsDown
<1> QED BY <1>3, <1>4, <1>7, <1>8, <1>9, <1>10 DEF TerminatesOnlyAfterFailure

LEMMA JoinRenewStep == IInv /\ JoinRenew => IInv'
<1> SUFFICES ASSUME IInv, JoinRenew PROVE IInv' OBVIOUS
<1> USE DEF IInv, Progress, JoinRenew, session, orders
<1> DEFINE s == Streams[turn]
<1>1. turn \in 1 .. Len(Streams) /\ s \in StreamSet BY Lists DEF Turns, Closing
<1>2. thread' \in [Threads -> States] /\ Gone(Renew(s))' /\ Keeps
  BY <1>1, JoinGone, Names
<1>3. TypeOK' BY <1>2 DEF TypeOK, States
<1>4. Turns' BY <1>1 DEF Turns, Closing, Feeding
<1>5. \A r \in StreamSet : StreamGone(r) => StreamGone(r)' BY <1>2, Names DEF Keeps, StreamGone
<1>6. \A i \in 1 .. turn - 1 : Streams[i] \in StreamSet BY <1>1, Lists
<1>7. StreamsDown' BY <1>5, <1>6 DEF StreamsDown, Closing, TradeDown, GateDown
<1>8. StreamGone(s)' BY <1>1, <1>2, Names DEF StreamFlags, StreamGone, Keeps
<1>9. StreamFlags' BY <1>5, <1>8 DEF StreamFlags
<1>10. GateFlags' BY <1>2, Names DEF GateFlags, GateGone, Keeps, GateDown
<1>11. FeedsDown' BY DEF FeedsDown
<1> QED BY <1>3, <1>4, <1>7, <1>9, <1>10, <1>11 DEF TerminatesOnlyAfterFailure

\* A stream reaches its destructor with its flag down: if a thread of it is joinable then,
\* the flag fell because the connection failed.
LEMMA DeleteStreamStep == IInv /\ DeleteStream => IInv'
<1> SUFFICES ASSUME IInv, DeleteStream PROVE IInv' OBVIOUS
<1> USE DEF IInv, Progress, DeleteStream, session, orders
<1> DEFINE s == Streams[turn]
<1>1. turn \in 1 .. Len(Streams) /\ s \in StreamSet BY Lists DEF Turns, Closing
<1>2. s \in failed \/ StreamGone(s) BY <1>1 DEF StreamFlags
<1>3. \/ mpc' = "terminated" /\ turn' = turn /\ s \in failed
      \/ mpc' = "shutdown" /\ turn' = 1 /\ turn = Len(Streams) /\ StreamGone(s)
      \/ mpc' = "stopping" /\ turn' = turn + 1 /\ turn # Len(Streams) /\ StreamGone(s)
  <2>1. CASE StreamGone(s)
    <3>1. \A t \in {Ws(s), Renew(s)} : thread[t] \in {"none", "joined"} BY <2>1 DEF StreamGone, Gone
    <3> QED BY <2>1, <3>1
  <2>2. CASE ~StreamGone(s)
    <3>1. \E t \in {Ws(s), Renew(s)} : thread[t] \notin {"none", "joined"} BY <2>2 DEF StreamGone, Gone
    <3>2. mpc' = "terminated" /\ turn' = turn BY <3>1
    <3> QED BY <1>2, <2>2, <3>2
  <2> QED BY <2>1, <2>2
<1>4. /\ turn' \in 1 .. Len(Feeds) + Len(Streams) + 1
      /\ mpc' = "stopping" => turn' \in 1 .. Len(Streams)
  <2>1. CASE mpc' = "terminated" BY <1>3, <2>1 DEF TypeOK
  <2>2. CASE turn' = 1 \/ (turn # Len(Streams) /\ turn' = turn + 1)
    BY <1>1, <2>2, StepOn, Zenon
  <2> QED BY <1>3, <2>1, <2>2
<1>5. TypeOK' BY <1>3, <1>4 DEF TypeOK
<1>6. Turns' BY <1>3, <1>4 DEF Turns, Closing, Feeding
<1>7. \A i \in 1 .. turn - 1 : StreamGone(Streams[i]) BY DEF StreamsDown, Closing
<1>8. mpc' # "terminated" => \A i \in 1 .. turn : StreamGone(Streams[i])
  BY <1>1, <1>3, <1>7
<1>9. UNCHANGED thread BY DEF session
<1>10. mpc' = "stopping" => \A i \in 1 .. turn' - 1 : StreamGone(Streams[i])'
  BY <1>1, <1>3, <1>8, <1>9 DEF StreamGone, Gone
<1>11. mpc' = "shutdown" => \A r \in StreamSet : StreamGone(r)'
  BY <1>3, <1>8, <1>9, Lists DEF StreamGone, Gone
<1>12. StreamsDown' BY <1>3, <1>10, <1>11 DEF StreamsDown, Closing, TradeDown, GateDown
<1>13. StreamFlags' BY <1>3 DEF StreamFlags, StreamGone, Gone
<1>14. GateFlags' BY <1>3 DEF GateFlags, GateGone, Gone, GateDown
<1>15. FeedsDown' BY <1>3 DEF FeedsDown
<1>16. TerminatesOnlyAfterFailure' BY <1>3 DEF TerminatesOnlyAfterFailure
<1> QED BY <1>5, <1>6, <1>12, <1>13, <1>14, <1>15, <1>16

LEMMA ShutdownGateStep == IInv /\ ShutdownGate => IInv'
<1> SUFFICES ASSUME IInv, ShutdownGate PROVE IInv' OBVIOUS
<1> USE DEF IInv, Progress, ShutdownGate, orders
<1>1. /\ running' \in [StreamSet \cup {"Gate"} -> BOOLEAN]
      /\ \A s \in StreamSet : running'[s] = running[s]
  BY Names DEF TypeOK
<1>2. TypeOK' BY <1>1 DEF TypeOK
<1>3. Turns' BY DEF Turns, Closing, Feeding
<1>4. StreamsDown' BY DEF StreamsDown, StreamGone, Gone, Closing, TradeDown, GateDown
<1>5. StreamFlags' BY <1>1 DEF StreamFlags, StreamGone, Gone
<1>6. GateFlags' BY DEF GateFlags, GateGone, Gone, GateDown
<1>7. FeedsDown' BY DEF FeedsDown
<1> QED BY <1>2, <1>3, <1>4, <1>5, <1>6, <1>7 DEF TerminatesOnlyAfterFailure

LEMMA JoinGateStep == IInv /\ (JoinPing \/ JoinListen) => IInv'
<1> SUFFICES ASSUME IInv, JoinPing \/ JoinListen PROVE IInv' OBVIOUS
<1> USE DEF IInv, Progress, JoinPing, JoinListen, session, orders
<1>1. /\ thread' \in [Threads -> States] /\ Keeps
      /\ \/ mpc = "join_ping" /\ mpc' = "join_listen" /\ Gone(Ping)'
         \/ mpc = "join_listen" /\ mpc' = "resetting" /\ Gone(Listen)'
  BY JoinGone, Names
<1>2. UNCHANGED <<turn, g_running, backlog, session, orders>> OBVIOUS
<1>3. TypeOK' BY <1>1, <1>2 DEF TypeOK, States
<1>4. Turns' BY <1>1, <1>2 DEF Turns, Closing, Feeding
<1>5. \A r \in StreamSet : StreamGone(r) => StreamGone(r)' BY <1>1, Names DEF Keeps, StreamGone
<1>6. StreamsDown' BY <1>1, <1>5 DEF StreamsDown, Closing, TradeDown, GateDown
<1>7. StreamFlags' BY <1>1, <1>2, <1>5 DEF StreamFlags
<1>8. mpc' = "resetting" => GateGone' BY <1>1, Names DEF GateFlags, GateGone, Keeps
<1>9. GateFlags' BY <1>1, <1>2, <1>8 DEF GateFlags, GateDown
<1>10. FeedsDown' BY <1>1 DEF FeedsDown
<1> QED BY <1>1, <1>3, <1>4, <1>6, <1>7, <1>9, <1>10 DEF TerminatesOnlyAfterFailure

LEMMA ResetTradersStep == IInv /\ ResetTraders => IInv'
<1> SUFFICES ASSUME IInv, ResetTraders PROVE IInv' OBVIOUS
<1> USE DEF IInv, Progress, ResetTraders, session
<1>1. TypeOK' BY DEF TypeOK
<1>2. Turns' BY Lists DEF Turns, Closing, Feeding
<1>3. StreamsDown' BY DEF StreamsDown, StreamGone, Gone, Closing, TradeDown, GateDown
<1>4. StreamFlags' BY DEF StreamFlags, StreamGone, Gone
<1>5. GateFlags' BY DEF GateFlags, GateGone, Gone, GateDown
<1>6. FeedsDown' BY DEF FeedsDown
<1> QED BY <1>1, <1>2, <1>3, <1>4, <1>5, <1>6 DEF TerminatesOnlyAfterFailure

LEMMA DisconnectStep == IInv /\ Disconnect => IInv'
<1> SUFFICES ASSUME IInv, Disconnect PROVE IInv' OBVIOUS
<1> USE DEF IInv, Progress, Disconnect, orders
<1>1. turn \in 1 .. Len(Feeds) /\ Feeds[turn] \in FeedSet BY Lists DEF Turns, Feeding
<1>2. \/ mpc' = "joining" /\ turn' = 1
      \/ mpc' = "disconnecting" /\ turn' = turn + 1 /\ turn # Len(Feeds)
  OBVIOUS
<1>3. turn' \in 1 .. Len(Feeds) + Len(Streams) + 1 /\ turn' \in 1 .. Len(Feeds)
  BY <1>1, <1>2, StepOn, Zenon
<1>4. TypeOK' BY <1>1, <1>2, <1>3 DEF TypeOK
<1>5. Turns' BY <1>2, <1>3 DEF Turns, Closing, Feeding
<1>6. StreamsDown' BY <1>2 DEF StreamsDown, StreamGone, Gone, Closing, TradeDown, GateDown
<1>7. StreamFlags' BY <1>2 DEF StreamFlags, StreamGone, Gone
<1>8. GateFlags' BY <1>2 DEF GateFlags, GateGone, Gone, GateDown
<1>9. FeedsDown' BY <1>2 DEF FeedsDown
<1> QED BY <1>2, <1>4, <1>5, <1>6, <1>7, <1>8, <1>9 DEF TerminatesOnlyAfterFailure

LEMMA JoinFeedStep == IInv /\ JoinFeed => IInv'
<1> SUFFICES ASSUME IInv, JoinFeed PROVE IInv' OBVIOUS
<1> USE DEF IInv, Progress, JoinFeed, session, orders
<1>1. turn \in 1 .. Len(Feeds) /\ Feeds[turn] \in FeedSet BY Lists DEF Turns, Feeding
<1>2. \/ mpc' = "join_agg" /\ turn' = 1 /\ turn = Len(Feeds)
      \/ mpc' = "joining" /\ turn' = turn + 1 /\ turn # Len(Feeds)
  OBVIOUS
<1>3. turn' \in 1 .. Len(Feeds) + Len(Streams) + 1 /\ turn' \in 1 .. Len(Feeds)
  BY <1>1, <1>2, StepOn, Zenon
<1>4. thread' \in [Threads -> States] /\ Keeps /\ \A f \in FeedSet : f = Feeds[turn] => Gone(f)'
  BY <1>1, JoinGone, Names
<1>5. TypeOK' BY <1>2, <1>3, <1>4 DEF TypeOK, States
<1>6. Turns' BY <1>2, <1>3 DEF Turns, Closing, Feeding
<1>7. \A r \in StreamSet : StreamGone(r) => StreamGone(r)' BY <1>4, Names DEF Keeps, StreamGone
<1>8. StreamsDown' BY <1>2, <1>7 DEF StreamsDown, Closing, TradeDown, GateDown
<1>9. StreamFlags' BY <1>2, <1>7 DEF StreamFlags
<1>10. GateFlags' BY <1>2, <1>4, Names DEF GateFlags, GateGone, Keeps, GateDown
<1>11. \A i \in 1 .. turn : i < turn => Gone(Feeds[i]) BY <1>1 DEF FeedsDown
<1>12. \A i \in 1 .. Len(Feeds) : i <= turn => Gone(Feeds[i])'
  <2> SUFFICES ASSUME NEW i \in 1 .. Len(Feeds), i <= turn PROVE Gone(Feeds[i])' OBVIOUS
  <2>1. Feeds[i] \in FeedSet /\ Feeds[i] \in Threads BY Lists, Names
  <2>2. CASE i = turn BY <1>4, <2>1, <2>2
  <2>3. CASE i < turn BY <1>1, <1>4, <1>11, <2>1, <2>3 DEF Keeps
  <2>4. i = turn \/ i < turn BY <1>1, Lists, GoneBy, Zenon
  <2> QED BY <2>2, <2>3, <2>4, Zenon
<1>13. mpc' = "join_agg" => \A f \in FeedSet : Gone(f)'
  <2> SUFFICES ASSUME mpc' = "join_agg", NEW f \in FeedSet PROVE Gone(f)' OBVIOUS
  <2>1. PICK i \in 1 .. Len(Feeds) : f = Feeds[i] BY Lists
  <2> QED BY <1>2, <1>12, <2>1, Lists DEF Gone
<1>14. mpc' = "joining" => \A i \in 1 .. turn' - 1 : Gone(Feeds[i])'
  <2> SUFFICES ASSUME mpc' = "joining", NEW i \in 1 .. turn' - 1 PROVE Gone(Feeds[i])' OBVIOUS
  <2>1. turn' = turn + 1 BY <1>2
  <2>2. i \in 1 .. Len(Feeds) /\ i <= turn BY <1>1, <2>1, GoneBy, Lists, Zenon
  <2> QED BY <1>12, <2>2 DEF Gone
<1>15. FeedsDown' BY <1>2, <1>13, <1>14 DEF FeedsDown
<1> QED BY <1>2, <1>5, <1>6, <1>8, <1>9, <1>10, <1>15 DEF TerminatesOnlyAfterFailure

LEMMA JoinAggStep == IInv /\ JoinAgg => IInv'
<1> SUFFICES ASSUME IInv, JoinAgg PROVE IInv' OBVIOUS
<1> USE DEF IInv, Progress, JoinAgg, session, orders
<1>1. thread' \in [Threads -> States] /\ Gone(Agg)' /\ Keeps BY JoinGone, Names
<1>2. TypeOK' BY <1>1 DEF TypeOK, States
<1>3. Turns' BY DEF Turns, Closing, Feeding
<1>4. \A r \in StreamSet : StreamGone(r) => StreamGone(r)' BY <1>1, Names DEF Keeps, StreamGone
<1>5. StreamsDown' BY <1>4 DEF StreamsDown, Closing, TradeDown, GateDown
<1>6. StreamFlags' BY <1>4 DEF StreamFlags
<1>7. GateFlags' BY <1>1, Names DEF GateFlags, GateGone, Keeps, GateDown
<1>8. FeedsDown' BY <1>1, Names DEF FeedsDown, Keeps
<1> QED BY <1>2, <1>3, <1>5, <1>6, <1>7, <1>8 DEF TerminatesOnlyAfterFailure

(***************************************************************************)
(* Theorems                                                                *)
(***************************************************************************)

LEMMA StutterStep == IInv /\ UNCHANGED vars => IInv'
<1> SUFFICES ASSUME IInv, UNCHANGED vars PROVE IInv' OBVIOUS
<1> USE DEF IInv, vars, control, session, orders
<1>1. TypeOK' BY DEF TypeOK
<1>2. Progress'
  BY DEF Progress, Turns, StreamsDown, StreamFlags, GateFlags, FeedsDown, StreamGone, GateGone, Gone
<1> QED BY <1>1, <1>2 DEF TerminatesOnlyAfterFailure

LEMMA NextIInv == IInv /\ [Next]_vars => IInv'
BY AggStep, FeedStep, StreamStep, FailStep, GateThreadStep, CallStep,
   ConnectGateStep, StartStreamStep, CloseWindowStep,
   StopStreamStep, JoinWsStep, JoinRenewStep, DeleteStreamStep,
   ShutdownGateStep, JoinGateStep, ResetTradersStep,
   DisconnectStep, JoinFeedStep, JoinAggStep, StutterStep
   DEF Next, Main

\* The inductive invariant holds in every state.
THEOREM Invariance == Spec => []IInv
BY InitIInv, NextIInv, PTL DEF Spec

\* main's loops stay inside its lists, every thread is in a state std::thread has, and the
\* ring never holds more unread updates than it has room for.
THEOREM TypeCorrect == Spec => []TypeOK
<1>1. IInv => TypeOK BY DEF IInv
<1> QED BY <1>1, Invariance, PTL

\* main.cpp, the order streams and GateWsImpl join every std::thread they started before
\* what it works on is deleted, reset or popped off main's stack, whatever has failed in
\* between.  The threads of std::async are not std::threads, and not covered.
THEOREM ThreadsJoinInTime == Spec => []JoinedBeforeDestroyed
<1>1. ASSUME IInv PROVE JoinedBeforeDestroyed
  <2> USE <1>1 DEF IInv, Progress
  <2>1. \A s \in Deleted : StreamGone(s)
    BY DEF Deleted, StreamsDown, Closing, TradeDown, GateDown
  <2>2. trader = "destroyed" => GateGone BY DEF GateFlags
  <2>3. mpc = "returned" => \A t \in Threads : Gone(t)
    BY DEF StreamsDown, GateFlags, FeedsDown, StreamGone, GateGone, TradeDown, GateDown, Threads
  <2> QED BY <2>1, <2>2, <2>3 DEF JoinedBeforeDestroyed, StreamGone, GateGone
<1> QED BY <1>1, Invariance, PTL

\* ~thread of a joinable std::thread, which ends the process, is reached only through
\* the on_fail of an order stream.
THEOREM TerminationIsAFailure == Spec => []TerminatesOnlyAfterFailure
<1>1. IInv => TerminatesOnlyAfterFailure BY DEF IInv
<1> QED BY <1>1, Invariance, PTL

=============================================================================
