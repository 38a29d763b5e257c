----------------------------- MODULE OrderStream -----------------------------
(***************************************************************************)
(* One private order stream, MEXC's or BingX's, in time: the listen key    *)
(* that expires unless it is renewed, the connection that the exchange     *)
(* closes when it is idle, and stop(), which waits for both threads.  Time *)
(* passes in units of 5 s, the sleep of the renew thread.  connected_ is   *)
(* left out: nothing reads it.  Joining in main's sequence is in Shutdown, *)
(* the events that arrive are in OrderPanel.                               *)
(***************************************************************************)
EXTENDS Naturals

CONSTANTS
    RenewTicks,     \* 360
    PingEvery,      \* 3 for MEXC, 4 for BingX
    KeyLife,        \* 720: the exchange keeps a key for 60 min
    IdleLimit,      \* 4: MEXC closes an idle connection after about 20 s
    PutMax,         \* the longest a renewal takes
    LateMax,        \* by how much the sleeps of one period exceed 5 s, in all
    None

ASSUME StreamAssumption ==
    /\ {RenewTicks, PingEvery, KeyLife, IdleLimit, PutMax, LateMax} \subseteq Nat \ {0}
    /\ PingEvery < IdleLimit /\ None \notin Nat
    /\ RenewTicks + LateMax + 2 * PutMax < KeyLife

VARIABLES
    running,
    main,
    waited,     \* time since stop() lowered running
    ws,         \* the connection and ws_thread
    timer,      \* time left until the ping, or None
    idle,       \* time since the exchange received a frame
    renew,      \* renew_thread
    ticks,
    slept,      \* whether the sleep is over
    late,       \* what the sleeps of this period took in excess
    put,        \* time the PUT in flight has taken
    reached,    \* whether the PUT in flight has renewed the key
    key,        \* age of the key since it was created or renewed
    missed      \* history: a PUT ended without renewing the key

conn  == <<ws, timer, idle>>
sleep == <<ticks, slept, late>>
keys  == <<put, reached, key, missed>>
streamVars == <<running, main, waited, conn, renew, sleep, keys>>

StreamTypeOK ==
    /\ running \in BOOLEAN
    /\ main \in {"starting", "rendering", "joining", "stopped"}
    /\ waited \in Nat
    /\ ws \in {"none", "connecting", "open", "closed", "exited"}
    /\ timer \in {None} \cup (0 .. PingEvery)
    /\ idle \in 0 .. IdleLimit
    /\ renew \in {"none", "sleeping", "putting", "exited"}
    /\ ticks \in 0 .. RenewTicks - 1
    /\ slept \in BOOLEAN
    /\ late \in 0 .. LateMax
    /\ put \in 0 .. PutMax
    /\ reached \in BOOLEAN
    /\ key \in 0 .. KeyLife
    /\ missed \in BOOLEAN

StreamInit ==
    /\ running = FALSE /\ main = "starting" /\ waited = 0
    /\ ws = "none" /\ timer = None /\ idle = 0
    /\ renew = "none" /\ ticks = 0 /\ slept = FALSE /\ late = 0
    /\ put = 0 /\ reached = FALSE /\ key = 0 /\ missed = FALSE

-----------------------------------------------------------------------------
(* start() and stop() *)

\* Without a key nothing is started.
Start ==
    /\ main = "starting"
    /\ main' = "rendering"
    /\ \/ UNCHANGED <<running, ws, renew>>
       \/ running' = TRUE /\ ws' = "connecting" /\ renew' = "sleeping"
    /\ key' = 0
    /\ UNCHANGED <<waited, timer, idle, sleep, put, reached, missed>>

\* client_.stop() ends run().
Stop ==
    /\ main = "rendering"
    /\ main' = IF running THEN "joining" ELSE "stopped"
    /\ running' = FALSE
    /\ ws' = IF running THEN "exited" ELSE ws
    /\ timer' = IF running THEN None ELSE timer
    /\ UNCHANGED <<waited, idle, renew, sleep, keys>>

Joined ==
    /\ main = "joining"
    /\ ws = "exited" /\ renew = "exited"
    /\ main' = "stopped"
    /\ UNCHANGED <<running, waited, conn, renew, sleep, keys>>

-----------------------------------------------------------------------------
(* ws_thread *)

\* on_open(): subscribe_orders() sends a frame, schedule_ping() sets the timer.
OnOpen ==
    /\ ws = "connecting"
    /\ ws' = "open" /\ idle' = 0 /\ timer' = PingEvery
    /\ UNCHANGED <<running, main, waited, renew, sleep, keys>>

\* on_fail(), or no connection object: run() has nothing left to do.
OnFail ==
    /\ ws = "connecting"
    /\ ws' = "exited" /\ running' = FALSE
    /\ UNCHANGED <<main, waited, timer, idle, renew, sleep, keys>>

\* on_close(): the timer, if it is set, and renew_thread go on.
OnClose ==
    /\ ws = "open"
    /\ ws' = "closed"
    /\ UNCHANGED <<running, main, waited, timer, idle, renew, sleep, keys>>

RunReturns ==
    /\ ws = "closed" /\ timer = None
    /\ ws' = "exited"
    /\ UNCHANGED <<running, main, waited, timer, idle, renew, sleep, keys>>

\* Faulty variant: the next ping is not scheduled.
PingOnce ==
    /\ timer = 0
    /\ idle' = IF running /\ ws = "open" THEN 0 ELSE idle
    /\ timer' = None
    /\ UNCHANGED <<running, main, waited, ws, renew, sleep, keys>>

\* The timer's callback: the next ping is scheduled if this one could be sent.
SendPing ==
    /\ timer = 0
    /\ IF running /\ ws = "open" THEN idle' = 0 /\ timer' = PingEvery
                                 ELSE idle' = idle /\ timer' = None
    /\ UNCHANGED <<running, main, waited, ws, renew, sleep, keys>>

-----------------------------------------------------------------------------
(* renew_thread *)

\* Faulty variants: running is not looked at after a sleep; ticks are not set back; one
\* period too many is waited for.
WakeRegardless ==
    /\ renew = "sleeping" /\ slept
    /\ slept' = FALSE
    /\ \/ ticks + 1 < RenewTicks /\ ticks' = ticks + 1 /\ UNCHANGED <<renew, late>>
       \/ ticks + 1 = RenewTicks /\ ticks' = 0 /\ late' = 0 /\ renew' = "putting"
    /\ UNCHANGED <<running, main, waited, conn, keys>>

WakeKeepsTicks ==
    /\ renew = "sleeping" /\ slept
    /\ slept' = FALSE /\ late' = 0 /\ ticks' = ticks + 1
    /\ renew' = IF ~running THEN "exited" ELSE IF ticks' >= RenewTicks THEN "putting" ELSE renew
    /\ UNCHANGED <<running, main, waited, conn, keys>>

PutOnlyFirst ==
    /\ renew = "putting"
    /\ renew' = "exited"
    /\ missed' = (missed \/ ~reached)
    /\ reached' = FALSE /\ put' = 0
    /\ UNCHANGED <<running, main, waited, conn, sleep, key>>

\* One turn of the loop after the sleep.
Wake ==
    /\ renew = "sleeping" /\ slept
    /\ slept' = FALSE
    /\ \/ ~running /\ renew' = "exited" /\ UNCHANGED <<ticks, late>>
       \/ running /\ ticks + 1 < RenewTicks /\ ticks' = ticks + 1 /\ UNCHANGED <<renew, late>>
       \/ running /\ ticks + 1 = RenewTicks /\ ticks' = 0 /\ late' = 0 /\ renew' = "putting"
    /\ UNCHANGED <<running, main, waited, conn, keys>>

\* renew_listen_key() returns or throws, which only differs in a line of output; an answer
\* that refuses the renewal counts as success.
PutEnds ==
    /\ renew = "putting"
    /\ renew' = IF running THEN "sleeping" ELSE "exited"
    /\ missed' = (missed \/ ~reached)
    /\ reached' = FALSE /\ put' = 0
    /\ UNCHANGED <<running, main, waited, conn, sleep, key>>

\* The exchange (external) renews a key that has not expired.
Renewed ==
    /\ renew = "putting" /\ ~reached
    /\ key < KeyLife
    /\ key' = 0 /\ reached' = TRUE
    /\ UNCHANGED <<running, main, waited, conn, renew, sleep, put, missed>>

-----------------------------------------------------------------------------
(* Time: a thread that is due runs before it goes on, or late. *)

UpTo(max, n) == IF n < max THEN n + 1 ELSE max

Tick ==
    /\ timer # 0
    /\ renew = "sleeping" /\ slept => late < LateMax
    /\ renew = "putting" => put < PutMax
    /\ main = "joining" => renew # "exited"
    /\ waited' = IF main = "joining" THEN waited + 1 ELSE waited
    /\ timer' = IF timer = None THEN None ELSE timer - 1
    /\ idle' = UpTo(IdleLimit, idle)
    /\ slept' = (renew = "sleeping")
    /\ late' = IF renew = "sleeping" /\ slept THEN late + 1 ELSE late
    /\ put' = IF renew = "putting" THEN put + 1 ELSE put
    /\ key' = UpTo(KeyLife, key)
    /\ UNCHANGED <<running, main, ws, renew, ticks, reached, missed>>

-----------------------------------------------------------------------------
StreamNext ==
    \/ Start \/ Stop \/ Joined
    \/ OnOpen \/ OnFail \/ OnClose \/ RunReturns \/ SendPing
    \/ Wake \/ PutEnds \/ Renewed
    \/ Tick

StreamSpec == StreamInit /\ [][StreamNext]_streamVars

-----------------------------------------------------------------------------
(* Properties *)

\* A key lasts two periods (bingx_order_stream.cpp:95 "this is safe margin"): as long as every
\* PUT reaches the exchange, the key has not expired while the stream runs.  The margin
\* does not cover a single PUT that does not.
KeySurvives == running /\ ~missed => key < KeyLife

\* The pings come from the thread that handles frames, not from the one that may be waiting
\* for a PUT: an open connection is never idle for as long as makes the exchange close it.
NeverIdle == running /\ ws = "open" => idle < IdleLimit

\* "Wake every 5 s so stop() doesn't wait long" (mexc_order_stream.cpp:75): it waits for one
\* sleep or for one PUT, not for both and not for a period.
StopWaitsShort == waited <= 1 + LateMax \/ waited <= PutMax

=============================================================================
