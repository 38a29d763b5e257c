-------------------------- MODULE GateSession_proofs --------------------------
(***************************************************************************)
(* The trading connection to Gate, for every set of orders and every       *)
(* length of the two queues: no command before the login, "Sent" is sent   *)
(* while the connection holds, the map serves the cancels of orders that   *)
(* still live, and a session that is gone stays down.                      *)
(***************************************************************************)
EXTENDS GateSession, FiniteSetTheorems, TLAPS

(***************************************************************************)
(* The inductive invariant                                                 *)
(***************************************************************************)

Items(s) == {s[i] : i \in DOMAIN s}

\* What only a session that the exchange has authenticated may hold or do.
Privileged ==
    \/ authenticated
    \/ \E m \in Items(inbox) : m.type = "login" /\ m.ok
    \/ \E c \in Items(wire) : Trading(c)
    \/ \E o \in Orders : place[o] = "ws"
    \/ \E n \in Names : cancel[n] \in {"lookup", "client", "exchange"}
    \/ sweep = "ws"

\* The exchange is asked to authenticate once, by the first thing on the wire.
FirstOnly(w) == \A i \in DOMAIN w : w[i].type = "login" => i = 1
Login ==
    /\ FirstOnly(wire)
    /\ (\E c \in Items(wire) : c.type = "login") => ~session.login
    /\ reader = "connect" => ~session.login
    /\ Privileged => session.login

\* Where the thread that reads is, and what the flags say then.
Lifecycle ==
    /\ reader \in {"connect", "failed", "ended"} => ~authenticated /\ ~connected
    /\ reader = "connect" => link = "none"
    /\ reader = "unset" => ~connected
    /\ closing = "gone" => reader \in {"ended", "failed"}
    /\ closing # "no" => ~running /\ reader # "connect"
    /\ closing = "no" /\ ~running => reader \in {"connect", "failed"}
    /\ link = "up" /\ running => connected

Placing(o, c) == c.type = "place" /\ c.order = o

Once(w) == \A o \in Orders : \A i, j \in DOMAIN w : Placing(o, w[i]) /\ Placing(o, w[j]) => i = j

\* An order reaches the exchange by one call and at most one command.
Placement ==
    /\ ~Constructed => \A o \in Orders : place[o] = "idle"
    /\ \A o \in Orders : place[o] \in {"idle", "ws", "rest"} =>
         ord[o] = "none" /\ \A c \in Items(wire) : ~Placing(o, c)
    /\ \A o \in Orders : (\E c \in Items(wire) : Placing(o, c)) => ord[o] = "none"
    /\ Once(wire)

\* Whatever takes an order's entry out of the map comes after the order's end.
Ends(m) == m.type = "finish" \/ (m.type = "cancel" /\ m.ok)
Mapping ==
    /\ \A m \in Items(inbox) : Ends(m) => ord[m.order] = "over"
    /\ \A o \in told : Client(o) \in order_id_map \/ ord[o] = "over"

IInv == TypeOK /\ Login /\ Lifecycle /\ Placement /\ SentIsSentWhileLinkHolds /\ Mapping

(***************************************************************************)
(* Sequences                                                               *)
(***************************************************************************)

LEMMA ItemsAppend ==
  ASSUME NEW S, NEW s \in Seq(S), NEW e \in S
  PROVE  /\ Append(s, e) \in Seq(S) /\ Len(Append(s, e)) = Len(s) + 1 /\ Len(s) \in Nat
         /\ DOMAIN Append(s, e) = 1 .. Len(s) + 1 /\ DOMAIN s = 1 .. Len(s)
         /\ \A i \in DOMAIN s : Append(s, e)[i] = s[i]
         /\ Append(s, e)[Len(s) + 1] = e
         /\ Items(Append(s, e)) = Items(s) \cup {e}
<1>1. /\ Append(s, e) \in Seq(S) /\ Len(Append(s, e)) = Len(s) + 1 /\ Len(s) \in Nat
      /\ DOMAIN Append(s, e) = 1 .. Len(s) + 1 /\ DOMAIN s = 1 .. Len(s)
      /\ \A i \in DOMAIN s : Append(s, e)[i] = s[i]
      /\ Append(s, e)[Len(s) + 1] = e
  OBVIOUS
<1> QED BY <1>1 DEF Items

LEMMA ItemsTail ==
  ASSUME NEW S, NEW s \in Seq(S), s # <<>>
  PROVE  /\ Head(s) = s[1] /\ 1 \in DOMAIN s /\ Tail(s) \in Seq(S) /\ Head(s) \in S
         /\ Len(s) \in Nat \ {0} /\ Len(Tail(s)) = Len(s) - 1
         /\ DOMAIN Tail(s) = 1 .. Len(s) - 1 /\ DOMAIN s = 1 .. Len(s)
         /\ \A i \in DOMAIN Tail(s) : Tail(s)[i] = s[i + 1] /\ i + 1 \in DOMAIN s
         /\ Items(s) = {Head(s)} \cup Items(Tail(s))
<1>1. Len(s) \in Nat \ {0} /\ DOMAIN s = 1 .. Len(s) /\ Head(s) = s[1] OBVIOUS
<1>2. Tail(s) \in Seq(S) /\ Len(Tail(s)) = Len(s) - 1 OBVIOUS
<1>3. DOMAIN Tail(s) = 1 .. Len(s) - 1 BY <1>2
<1>4. \A i \in 1 .. Len(s) - 1 : Tail(s)[i] = s[i + 1] OBVIOUS
<1>5. 1 \in DOMAIN s /\ s[1] \in S BY <1>1
<1>6. \A i \in 1 .. Len(s) - 1 : i + 1 \in 1 .. Len(s) BY <1>1
<1>7. \A i \in DOMAIN Tail(s) : Tail(s)[i] = s[i + 1] /\ i + 1 \in DOMAIN s
  BY <1>1, <1>3, <1>4, <1>6, Zenon
<1>8. \A i \in 1 .. Len(s) : i = 1 \/ (i - 1 \in 1 .. Len(s) - 1 /\ i = (i - 1) + 1)
  BY <1>1
<1>9. \A i \in DOMAIN s : i = 1 \/ (i - 1 \in DOMAIN Tail(s) /\ Tail(s)[i - 1] = s[i])
  BY <1>1, <1>3, <1>4, <1>8
<1>10. Items(s) \subseteq {Head(s)} \cup Items(Tail(s)) BY <1>1, <1>9 DEF Items
<1>11. Head(s) \in Items(s) BY <1>1, <1>5 DEF Items
<1>12. Items(Tail(s)) \subseteq Items(s) BY <1>7, Zenon DEF Items
<1>13. Items(s) = {Head(s)} \cup Items(Tail(s)) BY <1>10, <1>11, <1>12, Zenon
<1> QED BY <1>1, <1>2, <1>3, <1>5, <1>7, <1>13

LEMMA ItemsConcat ==
  ASSUME NEW S, NEW s \in Seq(S), NEW t \in Seq(S)
  PROVE  s \o t \in Seq(S) /\ Items(s \o t) = Items(s) \cup Items(t)
<1>1. /\ s \o t \in Seq(S) /\ Len(s) \in Nat /\ Len(t) \in Nat
      /\ DOMAIN s = 1 .. Len(s) /\ DOMAIN t = 1 .. Len(t)
      /\ DOMAIN (s \o t) = 1 .. Len(s) + Len(t)
      /\ \A i \in 1 .. Len(s) : (s \o t)[i] = s[i]
      /\ \A i \in 1 .. Len(s) + Len(t) : i > Len(s) => (s \o t)[i] = t[i - Len(s)]
  OBVIOUS
<1>2. Items(s \o t) \subseteq Items(s) \cup Items(t) BY <1>1 DEF Items
<1>3. Items(s) \subseteq Items(s \o t) BY <1>1 DEF Items
<1>4. \A i \in 1 .. Len(t) : Len(s) + i \in 1 .. Len(s) + Len(t) /\ (s \o t)[Len(s) + i] = t[i]
  BY <1>1
<1>5. Items(t) \subseteq Items(s \o t)
  <2> SUFFICES ASSUME NEW i \in 1 .. Len(t) PROVE t[i] \in Items(s \o t) BY <1>1 DEF Items
  <2> DEFINE j == Len(s) + i
  <2>1. j \in DOMAIN (s \o t) /\ (s \o t)[j] = t[i] BY <1>1, <1>4
  <2> HIDE DEF j
  <2> QED BY <2>1 DEF Items
<1> QED BY <1>1, <1>2, <1>3, <1>5

LEMMA ItemsPrefix ==
  ASSUME NEW S, NEW s \in Seq(S), NEW k \in 0 .. Len(s)
  PROVE  /\ SubSeq(s, 1, k) \in Seq(S) /\ Len(SubSeq(s, 1, k)) = k
         /\ Items(SubSeq(s, 1, k)) \subseteq Items(s)
<1>1. /\ SubSeq(s, 1, k) \in Seq(S) /\ Len(SubSeq(s, 1, k)) = k /\ Len(s) \in Nat
      /\ DOMAIN SubSeq(s, 1, k) = 1 .. k /\ DOMAIN s = 1 .. Len(s)
      /\ \A i \in 1 .. k : SubSeq(s, 1, k)[i] = s[i]
  OBVIOUS
<1> QED BY <1>1 DEF Items

\* A finite set can be listed.
LEMMA Listed ==
  ASSUME NEW S, IsFiniteSet(S)
  PROVE  SetToSeq(S) \in Seq(S)
<1>1. Cardinality(S) \in Nat BY FS_CardinalityType
<1>2. \E f \in [1 .. Cardinality(S) -> S] : IsInjective(f)
  BY FS_CardinalityType DEF ExistsBijection, Bijection, Injection
<1>3. SetToSeq(S) \in [1 .. Cardinality(S) -> S] BY <1>2 DEF SetToSeq
<1> QED BY <1>1, <1>3

(***************************************************************************)
(* The wire                                                                *)
(***************************************************************************)

LEMMA WriteFacts ==
  ASSUME TypeOK, NEW c \in Commands, Write(c)
  PROVE  /\ wire' \in Seq(Commands) /\ Len(wire') <= WireMax
         /\ connected' \in BOOLEAN /\ (connected' => connected)
         /\ link = "up" => connected' = connected
         /\ wire' = wire \/ wire' = Append(wire, c)
         /\ connected /\ link = "up" => wire' = Append(wire, c)
<1>1. wire \in Seq(Commands) /\ Len(wire) <= WireMax /\ connected \in BOOLEAN BY DEF TypeOK
<1>2. Append(wire, c) \in Seq(Commands) /\ Len(Append(wire, c)) = Len(wire) + 1 /\ Len(wire) \in Nat
  BY <1>1, ItemsAppend
<1>3. Len(wire) < WireMax => Len(wire) + 1 <= WireMax BY <1>2, BoundsAssumption
<1> QED BY <1>1, <1>2, <1>3 DEF Write

\* A command other than the login keeps the wire in order, a placement if it is the first
\* of its order.
LEMMA WriteWire ==
  ASSUME TypeOK, FirstOnly(wire), Once(wire), NEW c \in Commands, Write(c), c.type # "login",
         \A o \in Orders : Placing(o, c) => \A d \in Items(wire) : ~Placing(o, d)
  PROVE  /\ FirstOnly(wire') /\ Once(wire')
         /\ Items(wire) \subseteq Items(wire') /\ Items(wire') \subseteq Items(wire) \cup {c}
<1>1. wire \in Seq(Commands) BY DEF TypeOK
<1>2. CASE wire' = wire BY <1>2
<1>3. CASE wire' = Append(wire, c)
  <2> DEFINE w == Append(wire, c)
  <2>1. /\ DOMAIN w = 1 .. Len(wire) + 1 /\ DOMAIN wire = 1 .. Len(wire) /\ Len(wire) \in Nat
        /\ \A i \in DOMAIN wire : w[i] = wire[i]
        /\ w[Len(wire) + 1] = c
        /\ Items(w) = Items(wire) \cup {c}
    BY <1>1, ItemsAppend
  <2> HIDE DEF w
  <2>2. \A i \in DOMAIN w : i \in DOMAIN wire \/ i = Len(wire) + 1 BY <2>1
  <2>3. FirstOnly(w) BY <2>1, <2>2 DEF FirstOnly
  <2>4. \A i \in DOMAIN wire : wire[i] \in Items(wire) BY DEF Items
  <2>5. Once(w)
    <3> SUFFICES ASSUME NEW o \in Orders, NEW i \in DOMAIN w, NEW j \in DOMAIN w,
                        Placing(o, w[i]), Placing(o, w[j])
                 PROVE  i = j
      BY DEF Once
    <3> QED BY <2>1, <2>2, <2>4, Zenon DEF Once
  <2> QED BY <1>3, <2>1, <2>3, <2>5 DEF w
<1> QED BY <1>2, <1>3, WriteFacts

\* What is left when the exchange has taken a command.
LEMMA TailWire ==
  ASSUME TypeOK, FirstOnly(wire), Once(wire), wire # <<>>
  PROVE  /\ Head(wire) \in Commands /\ Head(wire) \in Items(wire)
         /\ Tail(wire) \in Seq(Commands) /\ Len(Tail(wire)) <= WireMax
         /\ FirstOnly(Tail(wire)) /\ Once(Tail(wire))
         /\ Items(wire) = {Head(wire)} \cup Items(Tail(wire))
         /\ \A c \in Items(Tail(wire)) : c.type # "login"
         /\ \A o \in Orders : Placing(o, Head(wire)) => \A c \in Items(Tail(wire)) : ~Placing(o, c)
<1> DEFINE w == Tail(wire)
<1>1. wire \in Seq(Commands) /\ Len(wire) <= WireMax BY DEF TypeOK
<1>2. /\ Head(wire) = wire[1] /\ 1 \in DOMAIN wire /\ w \in Seq(Commands) /\ Head(wire) \in Commands
      /\ Len(wire) \in Nat \ {0} /\ Len(w) = Len(wire) - 1
      /\ DOMAIN w = 1 .. Len(wire) - 1 /\ DOMAIN wire = 1 .. Len(wire)
      /\ \A i \in DOMAIN w : w[i] = wire[i + 1] /\ i + 1 \in DOMAIN wire
      /\ Items(wire) = {Head(wire)} \cup Items(w)
  BY <1>1, ItemsTail
<1> HIDE DEF w
<1>3. Len(w) <= WireMax BY <1>1, <1>2, BoundsAssumption
<1>4. \A i \in DOMAIN w : i + 1 # 1 BY <1>2
<1>5. \A i, j \in DOMAIN w : i + 1 = j + 1 => i = j BY <1>2
<1>6. \A i \in DOMAIN w : w[i].type # "login" BY <1>2, <1>4 DEF FirstOnly
<1>7. Once(w) BY <1>2, <1>5, Zenon DEF Once
<1>8. \A o \in Orders : \A i \in DOMAIN w : ~(Placing(o, wire[1]) /\ Placing(o, w[i]))
  BY <1>2, <1>4, Zenon DEF Once
<1>9. FirstOnly(w) /\ \A c \in Items(w) : c.type # "login" BY <1>6 DEF FirstOnly, Items
<1>10. \A o \in Orders : Placing(o, Head(wire)) => \A c \in Items(w) : ~Placing(o, c)
  BY <1>2, <1>8 DEF Items
<1> QED BY <1>2, <1>3, <1>7, <1>9, <1>10 DEF w

LEMMA NoWire ==
  /\ <<>> \in Seq(Commands) /\ Len(<<>>) <= WireMax /\ Items(<<>>) = {}
  /\ FirstOnly(<<>>) /\ Once(<<>>)
BY BoundsAssumption DEF Items, FirstOnly, Once

(***************************************************************************)
(* The inbox                                                               *)
(***************************************************************************)

LEMMA ReplyFacts ==
  ASSUME TypeOK, NEW ms \in Seq(Messages), Reply(ms)
  PROVE  /\ inbox' \in Seq(Messages) /\ Len(inbox') <= InboxMax
         /\ Items(inbox') = Items(inbox) \cup Items(ms)
BY ItemsConcat DEF TypeOK, Reply

LEMMA MessageTypes ==
  /\ \A ok \in BOOLEAN : [type |-> "login", ok |-> ok] \in Messages
  /\ [type |-> "ping"] \in Messages
  /\ \A t \in {"place", "cancel"}, o \in Orders, ok \in BOOLEAN : Answer(t, o, ok) \in Messages
  /\ \A t \in {"event", "finish"}, o \in Orders : Event(t, o) \in Messages
BY DEF Messages, Answer, Event

\* The end of orders that live: each is over, and whatever else arrives says no more.
LEMMA EndOfFacts ==
  ASSUME TypeOK, NEW os \in SUBSET Orders, EndOf(os)
  PROVE  /\ inbox' \in Seq(Messages) /\ Len(inbox') <= InboxMax
         /\ \A m \in Items(inbox') : m \in Items(inbox) \/ \E o \in os : m = Event("finish", o)
         /\ ord' \in [Orders -> {"none", "live", "over", "refused"}]
         /\ \A o \in Orders : ord'[o] = IF o \in os THEN "over" ELSE ord[o]
<1> DEFINE es == {Event("finish", o) : o \in os}
           f  == [o \in os |-> Event("finish", o)]
<1>1. IsFiniteSet(os) BY OrdersAssumption, FS_Subset
<1>2. f \in Surjection(os, es) BY DEF Surjection
<1>3. IsFiniteSet(es) BY <1>1, <1>2, FS_Surjection
<1>4. SetToSeq(es) \in Seq(es) BY <1>3, Listed
<1>5. es \subseteq Messages BY MessageTypes
<1>6. SetToSeq(es) \in Seq(Messages) /\ Items(SetToSeq(es)) \subseteq es
  <2> DEFINE q == SetToSeq(es)
  <2>1. q \in Seq(es) BY <1>4
  <2> HIDE DEF q, es
  <2>2. q \in Seq(Messages) BY <1>5, <2>1
  <2>3. \A i \in DOMAIN q : q[i] \in es BY <2>1
  <2> QED BY <2>2, <2>3 DEF q, Items
<1>7. inbox' = inbox \o SetToSeq(es) \/ inbox' = inbox BY DEF EndOf, Notified
<1>8. inbox \in Seq(Messages) BY DEF TypeOK
<1>9. inbox' \in Seq(Messages) /\ Items(inbox') \subseteq Items(inbox) \cup es
  <2>1. CASE inbox' = inbox BY <1>8, <2>1
  <2>2. CASE inbox' = inbox \o SetToSeq(es)
    <3>1. PICK ms \in Seq(Messages) : inbox' = inbox \o ms /\ Items(ms) \subseteq es BY <1>6, <2>2
    <3> HIDE DEF es
    <3> QED BY <1>8, <3>1, ItemsConcat
  <2> QED BY <1>7, <2>1, <2>2
<1>10. Len(inbox') <= InboxMax BY DEF EndOf
<1>11. ord' \in [Orders -> {"none", "live", "over", "refused"}] BY DEF EndOf, TypeOK
<1>12. \A o \in Orders : ord'[o] = IF o \in os THEN "over" ELSE ord[o] BY DEF EndOf
<1> QED BY <1>9, <1>10, <1>11, <1>12

(***************************************************************************)
(* Initial states, and the thread that reads                               *)
(***************************************************************************)

LEMMA InitIInv == Init => IInv
<1> SUFFICES ASSUME Init PROVE IInv OBVIOUS
<1> USE DEF Init
<1>1. TypeOK
  <2>1. session \in [login : BOOLEAN, subscribed : BOOLEAN] OBVIOUS
  <2>2. wire \in Seq(Commands) /\ Len(wire) <= WireMax BY NoWire
  <2>3. inbox \in Seq(Messages) /\ Len(inbox) <= InboxMax BY BoundsAssumption
  <2> QED BY <2>1, <2>2, <2>3 DEF TypeOK
<1>2. Login BY NoWire DEF Login, Privileged, Items
<1>3. Lifecycle BY DEF Lifecycle
<1>4. Placement BY NoWire DEF Placement
<1>5. SentIsSentWhileLinkHolds BY DEF SentIsSentWhileLinkHolds
<1>6. Mapping BY DEF Mapping, Items
<1> QED BY <1>1, <1>2, <1>3, <1>4, <1>5, <1>6 DEF IInv

LEMMA ConnectStep == IInv /\ Connect => IInv'
<1> SUFFICES ASSUME IInv, Connect PROVE IInv' OBVIOUS
<1> USE DEF IInv, Connect, exchange, calls
<1> DEFINE login == [type |-> "login"]
<1>1. /\ <<login>> \in Seq(Commands) /\ Len(<<login>>) <= WireMax
      /\ DOMAIN <<login>> = {1} /\ <<login>>[1] = login
  BY BoundsAssumption DEF Commands
<1>2. Items(<<login>>) = {login} /\ FirstOnly(<<login>>) /\ Once(<<login>>)
  BY <1>1 DEF Items, FirstOnly, Once
<1>3. login.type = "login" OBVIOUS
<1>4. wire' = wire \/ wire' = <<login>> OBVIOUS
<1> HIDE DEF login
<1>5. TypeOK' BY <1>1, <1>4 DEF TypeOK
<1>6. Login' BY <1>2, <1>3, <1>4 DEF Login, Privileged, Trading
<1>7. Lifecycle' BY DEF Lifecycle
<1>8. ~Constructed BY DEF Constructed
<1>9. Placement' BY <1>2, <1>3, <1>4, <1>8 DEF Placement, Constructed, Placing
<1>10. SentIsSentWhileLinkHolds' BY <1>8 DEF Placement, SentIsSentWhileLinkHolds
<1>11. Mapping' BY DEF Mapping
<1> QED BY <1>5, <1>6, <1>7, <1>9, <1>10, <1>11

\* The thread writes an answer to a ping, or the subscription.
LEMMA ReaderWrites == IInv /\ (WritePong \/ SubscribeOrders) => IInv'
<1> SUFFICES ASSUME IInv, WritePong \/ SubscribeOrders PROVE IInv' OBVIOUS
<1> USE DEF IInv, exchange, calls
<1>1. PICK c \in Commands : Write(c) /\ c.type \in {"pong", "subscribe"}
  BY DEF WritePong, SubscribeOrders, Commands
<1>2. \A o \in Orders : ~Placing(o, c) BY <1>1 DEF Placing
<1>3. /\ reader \in {"first", "firstpong", "pong", "firstsub", "sub"} /\ reader' = "test"
      /\ UNCHANGED <<authenticated, running, order_id_map, closing, calls, known, link, inbox, exchange, told>>
  BY DEF WritePong, SubscribeOrders
<1>4. TypeOK' BY <1>1, <1>3, WriteFacts DEF TypeOK
<1>5. FirstOnly(wire') /\ Once(wire') /\ Items(wire) \subseteq Items(wire') /\ Items(wire') \subseteq Items(wire) \cup {c}
  BY <1>1, <1>2, WriteWire DEF Login, Placement
<1>6. Login' BY <1>1, <1>3, <1>5 DEF Login, Privileged, Trading
<1>7. Lifecycle' BY <1>1, <1>3, WriteFacts DEF Lifecycle
<1>8. Placement' BY <1>2, <1>3, <1>5 DEF Placement, Constructed
<1>9. \A i \in DOMAIN wire : wire'[i] = wire[i] /\ i \in DOMAIN wire'
  BY <1>1, WriteFacts, ItemsAppend DEF TypeOK
<1>10. SentIsSentWhileLinkHolds' BY <1>3, <1>9 DEF SentIsSentWhileLinkHolds
<1>11. Mapping' BY <1>3 DEF Mapping
<1> QED BY <1>4, <1>6, <1>7, <1>8, <1>10, <1>11

\* The thread sees that the connection is lost or that it is to stop.
LEMMA ReaderLeaves == IInv /\ (FirstReadFails \/ ListenTest \/ ReadFails \/ Unset) => IInv'
<1> SUFFICES ASSUME IInv, FirstReadFails \/ ListenTest \/ ReadFails \/ Unset PROVE IInv' OBVIOUS
<1> USE DEF IInv, exchange, calls, net
<1>1. /\ reader \in {"first", "test", "read", "unset"} /\ reader' \in {"read", "unset", "ended", "failed"}
      /\ UNCHANGED <<running, order_id_map, closing, calls, known, net, exchange, told>>
      /\ authenticated' = authenticated \/ authenticated' = FALSE
      /\ connected' = connected \/ connected' = FALSE
      /\ reader' = "read" => reader = "test"
      /\ reader' \in {"ended", "failed"} => ~authenticated' /\ ~connected'
      /\ reader' = "unset" => ~connected'
      /\ connected' # connected => link = "down" \/ ~running
  <2>1. CASE FirstReadFails BY <2>1 DEF FirstReadFails
  <2>2. CASE ListenTest BY <2>2 DEF ListenTest, TypeOK
  <2>3. CASE ReadFails BY <2>3 DEF ReadFails
  <2>4. CASE Unset BY <2>4 DEF Unset, Lifecycle
  <2> QED BY <2>1, <2>2, <2>3, <2>4
<1>2. TypeOK'
  <2>1. authenticated' \in BOOLEAN /\ connected' \in BOOLEAN BY <1>1, Zenon DEF TypeOK
  <2> QED BY <1>1, <2>1 DEF TypeOK
<1>3. Login' BY <1>1 DEF Login, Privileged
<1>4. Lifecycle'
  <2>1. closing = "gone" => reader \in {"ended", "failed"} BY DEF Lifecycle
  <2> QED BY <1>1, <2>1 DEF Lifecycle
<1>5. Placement' BY <1>1 DEF Placement, Constructed
<1>6. SentIsSentWhileLinkHolds' BY <1>1 DEF SentIsSentWhileLinkHolds
<1>7. Mapping' BY <1>1 DEF Mapping
<1> QED BY <1>2, <1>3, <1>4, <1>5, <1>6, <1>7

\* The thread handles a message.
LEMMA ReadStep == IInv /\ Read => IInv'
<1> SUFFICES ASSUME IInv, Read PROVE IInv' OBVIOUS
<1> USE DEF IInv, exchange, calls
<1> DEFINE m == Head(inbox)
<1>1. inbox \in Seq(Messages) /\ inbox # <<>> /\ Len(inbox) <= InboxMax BY DEF TypeOK, Read
<1>2. /\ m \in Messages /\ m \in Items(inbox)
      /\ inbox' \in Seq(Messages) /\ Len(inbox') <= InboxMax
      /\ Items(inbox') \subseteq Items(inbox)
  <2>1. inbox' = Tail(inbox) BY DEF Read
  <2>2. Len(inbox) \in Nat \ {0} /\ Len(Tail(inbox)) = Len(inbox) - 1 BY <1>1, ItemsTail
  <2>3. Len(Tail(inbox)) <= InboxMax BY <1>1, <2>2, BoundsAssumption
  <2> QED BY <1>1, <2>1, <2>3, ItemsTail
<1>3. /\ reader \in {"first", "read"}
      /\ order_id_map' = MapAfter(m)
      /\ told' = IF m.type = "place" /\ m.ok THEN told \cup {m.order} ELSE told
      /\ known' = IF m.type \in {"event", "finish"} THEN known \cup {Id(m.order)} ELSE known
      /\ UNCHANGED <<connected, running, closing, calls, link, wire, exchange>>
  BY DEF Read
<1>4. /\ reader' \in {"test", "firstsub", "sub", "firstpong", "pong"}
      /\ authenticated' = authenticated \/ (m.type = "login" /\ m.ok /\ authenticated' = TRUE)
      /\ reader' \in {"firstsub", "firstpong"} => reader = "first"
  <2>1. CASE m.type = "login" BY <1>3, <2>1 DEF Read, OnLogin, Then
  <2>2. CASE m.type = "ping" BY <1>3, <2>2 DEF Read, Then
  <2>3. CASE m.type \notin {"login", "ping"} BY <1>3, <2>3 DEF Read
  <2> QED BY <2>1, <2>2, <2>3
<1>5. m.type \in {"place", "cancel", "event", "finish"} => m.order \in Orders
  BY <1>2 DEF Messages
<1> HIDE DEF m
<1>6. MapAfter(m) \in {order_id_map, order_id_map \cup {Client(m.order)}, order_id_map \ {Client(m.order)}}
  BY DEF MapAfter
<1>7. TypeOK'
  <2>1. order_id_map' \subseteq Names
    BY <1>3, <1>5 DEF MapAfter, TypeOK, Names, Client
  <2>2. told' \subseteq Orders /\ known' \subseteq Names BY <1>3, <1>5 DEF TypeOK, Names, Id
  <2>3. authenticated' \in BOOLEAN BY <1>4 DEF TypeOK
  <2> QED BY <1>2, <1>3, <1>4, <2>1, <2>2, <2>3 DEF TypeOK
<1>8. Login'
  <2>1. authenticated' => session.login BY <1>2, <1>4 DEF Login, Privileged
  <2> QED BY <1>2, <1>3, <1>4, <2>1 DEF Login, Privileged
<1>9. Lifecycle' BY <1>3, <1>4 DEF Lifecycle
<1>10. Placement' BY <1>3, <1>4 DEF Placement, Constructed
<1>11. SentIsSentWhileLinkHolds' BY <1>3 DEF SentIsSentWhileLinkHolds
<1>12. Mapping'
  <2>1. \A k \in Items(inbox') : Ends(k) => ord'[k.order] = "over" BY <1>2, <1>3 DEF Mapping
  <2>2. \A o \in told' : Client(o) \in order_id_map' \/ ord[o] = "over"
    <3> SUFFICES ASSUME NEW o \in told' PROVE Client(o) \in order_id_map' \/ ord[o] = "over" OBVIOUS
    <3>1. CASE m.type = "place" /\ m.ok
      BY <1>3, <3>1 DEF MapAfter, Mapping
    <3>2. CASE Ends(m)
      <4>1. ord[m.order] = "over" BY <1>2, <3>2 DEF Mapping
      <4>2. order_id_map' = order_id_map \ {Client(m.order)} /\ told' = told BY <1>3, <3>2 DEF MapAfter, Ends
      <4>3. o # m.order => Client(o) # Client(m.order) BY DEF Client
      <4> QED BY <4>1, <4>2, <4>3 DEF Mapping
    <3>3. CASE ~(m.type = "place" /\ m.ok) /\ ~Ends(m)
      BY <1>3, <3>3 DEF MapAfter, Mapping, Ends
    <3> QED BY <3>1, <3>2, <3>3
  <2> QED BY <1>3, <2>1, <2>2 DEF Mapping
<1> QED BY <1>7, <1>8, <1>9, <1>10, <1>11, <1>12

(***************************************************************************)
(* Calls                                                                   *)
(***************************************************************************)

\* A call chooses its path by a flag that only an authenticated session has set.
LEMMA CheckStep ==
  ASSUME IInv,
         \/ \E o \in Orders : PlaceCheck(o)
         \/ \E n \in Names : CancelCheck(n)
         \/ SweepCheck
  PROVE  IInv'
<1> USE DEF IInv, exchange, net, flags, Path, Usable
<1>1. /\ UNCHANGED <<reader, flags, order_id_map, closing, known, net, exchange, told>>
      /\ Constructed
  BY DEF PlaceCheck, CancelCheck, SweepCheck
<1>2. /\ place' \in [Orders -> {"idle", "ws", "rest", "sent", "ok", "failed"}]
      /\ \A p \in Orders : place'[p] = place[p]
           \/ (place[p] = "idle" /\ place'[p] \in {"ws", "rest"} /\ (place'[p] = "ws" => authenticated))
  BY DEF PlaceCheck, CancelCheck, SweepCheck, TypeOK
<1>3. /\ cancel' \in [Names -> {"idle", "lookup", "client", "exchange", "rest", "done"}]
      /\ \A k \in Names : cancel'[k] = cancel[k] \/ cancel'[k] \in {"lookup", "rest"}
      /\ \A k \in Names : cancel'[k] = cancel[k] \/ cancel'[k] = "rest" \/ authenticated
  BY DEF PlaceCheck, CancelCheck, SweepCheck, TypeOK
<1>4. sweep' = sweep \/ sweep' = "rest" \/ (sweep' = "ws" /\ authenticated)
  BY DEF PlaceCheck, CancelCheck, SweepCheck
<1>5. TypeOK' BY <1>1, <1>2, <1>3, <1>4 DEF TypeOK
<1>6. Login' BY <1>1, <1>2, <1>3, <1>4 DEF Login, Privileged
<1>7. Lifecycle' BY <1>1 DEF Lifecycle
<1>8. Placement' BY <1>1, <1>2 DEF Placement, Constructed
<1>9. SentIsSentWhileLinkHolds' BY <1>1, <1>2 DEF SentIsSentWhileLinkHolds
<1>10. Mapping' BY <1>1 DEF Mapping
<1> QED BY <1>5, <1>6, <1>7, <1>8, <1>9, <1>10

LEMMA PlaceWsStep ==
  ASSUME NEW o \in Orders
  PROVE  IInv /\ PlaceWs(o) => IInv'
<1> SUFFICES ASSUME IInv, PlaceWs(o) PROVE IInv' OBVIOUS
<1> USE DEF IInv, exchange, PlaceWs, Usable
<1> DEFINE c == Cmd("place", o, "client")
<1>1. c \in Commands /\ c.type = "place" /\ c.order = o BY DEF Cmd, Commands
<1>2. \A p \in Orders : Placing(p, c) <=> p = o BY <1>1 DEF Placing
<1> HIDE DEF c
<1>3. Write(c) BY DEF c
<1>4. \A p \in Orders : Placing(p, c) => \A d \in Items(wire) : ~Placing(p, d)
  BY <1>2 DEF Placement
<1>5. FirstOnly(wire') /\ Once(wire') /\ Items(wire) \subseteq Items(wire') /\ Items(wire') \subseteq Items(wire) \cup {c}
  BY <1>1, <1>3, <1>4, WriteWire DEF Login, Placement
<1>6. /\ place' \in [Orders -> {"idle", "ws", "rest", "sent", "ok", "failed"}]
      /\ place'[o] = "sent" /\ \A p \in Orders : p # o => place'[p] = place[p]
  BY DEF TypeOK
<1>7. Client(o) \in Names BY DEF Client, Names
<1>8. TypeOK' BY <1>1, <1>3, <1>6, <1>7, WriteFacts DEF TypeOK
<1>9. session.login BY DEF Login, Privileged
<1>10. Login' BY <1>1, <1>5, <1>6, <1>9 DEF Login, Privileged
<1>11. Lifecycle' BY <1>1, <1>3, WriteFacts DEF Lifecycle
<1>12. ord[o] = "none" BY DEF Placement
<1>13. Placement' BY <1>2, <1>5, <1>6, <1>12 DEF Placement, Constructed
<1>14. \A i \in DOMAIN wire : wire'[i] = wire[i] /\ i \in DOMAIN wire'
  BY <1>1, <1>3, WriteFacts, ItemsAppend DEF TypeOK
<1>15. link = "up" /\ running => \E i \in DOMAIN wire' : wire'[i] = c
  <2> SUFFICES ASSUME link = "up", running PROVE \E i \in DOMAIN wire' : wire'[i] = c OBVIOUS
  <2>1. wire' = Append(wire, c) BY <1>1, <1>3, WriteFacts DEF Lifecycle
  <2>2. wire \in Seq(Commands) BY DEF TypeOK
  <2> QED BY <1>1, <2>1, <2>2, ItemsAppend
<1>16. SentIsSentWhileLinkHolds' BY <1>1, <1>6, <1>14, <1>15 DEF SentIsSentWhileLinkHolds
<1>17. Mapping' BY DEF Mapping
<1> QED BY <1>8, <1>10, <1>11, <1>13, <1>16, <1>17

LEMMA CancelWsStep ==
  ASSUME IInv, (\E n \in Names : CancelWs(n)) \/ SweepWs
  PROVE  IInv'
<1> USE DEF IInv, exchange, Usable
<1>1. PICK c \in Commands : Write(c) /\ c.type \in {"cancel", "cancel_all"}
  <2>1. \A n \in Names : n[1] \in Orders BY DEF Names
  <2>2. CASE \E n \in Names : CancelWs(n)
    <3> PICK n \in Names : CancelWs(n) BY <2>2
    <3>1. Cmd("cancel", n[1], cancel[n]) \in Commands BY <2>1 DEF Cmd, Commands, CancelWs
    <3> QED BY <2>2, <3>1 DEF CancelWs, OrderOf, Cmd
  <2>3. CASE SweepWs BY <2>3 DEF SweepWs, Commands
  <2> QED BY <2>2, <2>3
<1>2. \A o \in Orders : ~Placing(o, c) BY <1>1 DEF Placing
<1>3. /\ UNCHANGED <<reader, authenticated, running, order_id_map, closing, place, known, link, inbox, exchange, told>>
      /\ session.login
  BY DEF CancelWs, SweepWs, Login, Privileged
<1>4. cancel' \in [Names -> {"idle", "lookup", "client", "exchange", "rest", "done"}]
  BY DEF TypeOK, CancelWs, SweepWs
<1>5. sweep' \in {sweep, "done"} BY DEF CancelWs, SweepWs
<1>6. TypeOK' BY <1>1, <1>3, <1>4, <1>5, WriteFacts DEF TypeOK
<1>7. FirstOnly(wire') /\ Once(wire') /\ Items(wire) \subseteq Items(wire') /\ Items(wire') \subseteq Items(wire) \cup {c}
  BY <1>1, <1>2, WriteWire DEF Login, Placement
<1>8. reader # "connect" BY DEF CancelWs, SweepWs, Constructed
<1>9. Login' BY <1>1, <1>3, <1>7, <1>8 DEF Login
<1>10. Lifecycle' BY <1>1, <1>3, WriteFacts DEF Lifecycle
<1>11. Placement' BY <1>2, <1>3, <1>7 DEF Placement, Constructed
<1>12. \A i \in DOMAIN wire : wire'[i] = wire[i] /\ i \in DOMAIN wire'
  BY <1>1, WriteFacts, ItemsAppend DEF TypeOK
<1>13. SentIsSentWhileLinkHolds' BY <1>3, <1>12 DEF SentIsSentWhileLinkHolds
<1>14. Mapping' BY <1>3 DEF Mapping
<1> QED BY <1>6, <1>9, <1>10, <1>11, <1>13, <1>14

LEMMA PlaceRestStep ==
  ASSUME NEW o \in Orders
  PROVE  IInv /\ PlaceRest(o) => IInv'
<1> SUFFICES ASSUME IInv, PlaceRest(o) PROVE IInv' OBVIOUS
<1> USE DEF IInv, flags, net, PlaceRest, Usable
<1>1. /\ place' \in [Orders -> {"idle", "ws", "rest", "sent", "ok", "failed"}]
      /\ place'[o] \in {"ok", "failed"} /\ \A p \in Orders : p # o => place'[p] = place[p]
  BY DEF TypeOK
<1>2. /\ ord' \in [Orders -> {"none", "live", "over", "refused"}]
      /\ \A p \in Orders : p # o => ord'[p] = ord[p]
  BY DEF TypeOK
<1>3. known' \subseteq Names
  <2>1. Id(o) \in Names BY DEF Id, Names
  <2> QED BY <2>1 DEF TypeOK
<1>4. TypeOK' BY <1>1, <1>2, <1>3 DEF TypeOK
<1>5. Login' BY <1>1 DEF Login, Privileged
<1>6. Lifecycle' BY DEF Lifecycle
<1>7. ord[o] = "none" /\ \A c \in Items(wire) : ~Placing(o, c) BY DEF Placement
<1>8. Placement' BY <1>1, <1>2, <1>7 DEF Placement, Constructed
<1>9. SentIsSentWhileLinkHolds' BY <1>1, <1>2 DEF SentIsSentWhileLinkHolds
<1>10. \A p \in Orders : ord[p] = "over" => ord'[p] = "over" BY <1>2, <1>7
<1>11. \A m \in Items(inbox) : Ends(m) => m.order \in Orders
  BY DEF TypeOK, Items, Ends, Messages
<1>12. told \subseteq Orders BY DEF TypeOK
<1>13. Mapping' BY <1>10, <1>11, <1>12 DEF Mapping
<1> QED BY <1>4, <1>5, <1>6, <1>8, <1>9, <1>13

LEMMA LookUpStep ==
  ASSUME NEW n \in Names
  PROVE  IInv /\ LookUp(n) => IInv'
<1> SUFFICES ASSUME IInv, LookUp(n) PROVE IInv' OBVIOUS
<1> USE DEF IInv, flags, net, exchange, LookUp
<1>1. n[2] \in {"client", "exchange"} BY DEF Names
<1>2. cancel' \in [Names -> {"idle", "lookup", "client", "exchange", "rest", "done"}]
  BY <1>1 DEF TypeOK
<1>3. TypeOK' BY <1>2 DEF TypeOK
<1>4. session.login BY DEF Login, Privileged
<1>5. Login' BY <1>4 DEF Login
<1>6. Lifecycle' BY DEF Lifecycle
<1>7. Placement' BY DEF Placement, Constructed
<1>8. SentIsSentWhileLinkHolds' BY DEF SentIsSentWhileLinkHolds
<1>9. Mapping' BY DEF Mapping
<1> QED BY <1>3, <1>5, <1>6, <1>7, <1>8, <1>9

LEMMA FetchStep == IInv /\ Fetch => IInv'
<1> SUFFICES ASSUME IInv, Fetch PROVE IInv' OBVIOUS
<1> USE DEF IInv, flags, calls, net, exchange, Fetch, Seed
<1>1. /\ order_id_map \subseteq order_id_map' /\ order_id_map' \subseteq Names /\ known' \subseteq Names
  BY DEF LiveOrders, Id, Names, TypeOK
<1>2. TypeOK' BY <1>1 DEF TypeOK
<1>3. Login' BY DEF Login, Privileged
<1>4. Lifecycle' BY DEF Lifecycle
<1>5. Placement' BY DEF Placement, Constructed
<1>6. SentIsSentWhileLinkHolds' BY DEF SentIsSentWhileLinkHolds
<1>7. Mapping' BY <1>1 DEF Mapping
<1> QED BY <1>2, <1>3, <1>4, <1>5, <1>6, <1>7

(***************************************************************************)
(* The end of orders                                                       *)
(***************************************************************************)

\* However orders that live come to their end: nothing is forgotten but what they were.
LEMMA OrdersEnd ==
  ASSUME IInv, NEW os \in SUBSET LiveOrders, EndOf(os),
         UNCHANGED <<reader, authenticated, order_id_map, told, session, link, running, place>>,
         FirstOnly(wire'), Once(wire'), Items(wire') \subseteq Items(wire),
         \A c \in Items(wire) : c \notin Items(wire') => c.type # "place",
         \A n \in Names : cancel'[n] = cancel[n] \/ cancel'[n] = "done", sweep' = sweep \/ sweep' = "done"
  PROVE  /\ inbox' \in Seq(Messages) /\ Len(inbox') <= InboxMax
         /\ ord' \in [Orders -> {"none", "live", "over", "refused"}]
         /\ Login' /\ Placement' /\ SentIsSentWhileLinkHolds' /\ Mapping'
<1> USE DEF IInv
<1>1. os \in SUBSET Orders /\ \A o \in os : ord[o] = "live" BY DEF LiveOrders
<1>2. /\ inbox' \in Seq(Messages) /\ Len(inbox') <= InboxMax
      /\ \A m \in Items(inbox') : m \in Items(inbox) \/ \E o \in os : m = Event("finish", o)
      /\ ord' \in [Orders -> {"none", "live", "over", "refused"}]
      /\ \A o \in Orders : ord'[o] = IF o \in os THEN "over" ELSE ord[o]
  BY <1>1, EndOfFacts
<1>3. \A m \in Items(inbox') : m.type = "login" => m \in Items(inbox) BY <1>2 DEF Event
<1>4. Login' BY <1>3 DEF Login, Privileged
<1>5. \A o \in Orders : (ord'[o] = "none" <=> ord[o] = "none") /\ (ord[o] = "over" => ord'[o] = "over")
  BY <1>1, <1>2
<1>6. Placement' BY <1>5 DEF Placement, Constructed
<1>7. SentIsSentWhileLinkHolds'
  <2> SUFFICES ASSUME NEW o \in Orders, place[o] = "sent", link = "up", running, ord[o] = "none"
               PROVE  \E i \in DOMAIN wire' : wire'[i].type = "place" /\ wire'[i].order = o
    BY <1>5 DEF SentIsSentWhileLinkHolds
  <2>1. PICK c \in Items(wire) : c.type = "place" /\ c.order = o
    BY DEF SentIsSentWhileLinkHolds, Items
  <2>2. c \in Items(wire') BY <2>1
  <2> QED BY <2>1, <2>2 DEF Items
<1>8. \A m \in Items(inbox) : Ends(m) => m.order \in Orders
  BY DEF TypeOK, Items, Ends, Messages
<1>9. \A m \in Items(inbox') : Ends(m) => ord'[m.order] = "over"
  BY <1>1, <1>2, <1>5, <1>8 DEF Mapping, Event
<1>10. told \subseteq Orders BY DEF TypeOK
<1>11. Mapping' BY <1>5, <1>9, <1>10 DEF Mapping
<1> QED BY <1>2, <1>4, <1>6, <1>7, <1>11

LEMMA RestCancelStep ==
  ASSUME IInv, (\E n \in Names : CancelRest(n)) \/ SweepRest
  PROVE  IInv'
<1> USE DEF IInv, flags
<1>1. PICK os \in SUBSET LiveOrders : EndOf(os)
  BY DEF CancelRest, SweepRest
<1>2. UNCHANGED <<reader, flags, order_id_map, closing, place, known, link, wire, session, told>>
  BY DEF CancelRest, SweepRest
<1>3. /\ cancel' \in [Names -> {"idle", "lookup", "client", "exchange", "rest", "done"}]
      /\ \A k \in Names : cancel'[k] = cancel[k] \/ cancel'[k] = "done"
      /\ sweep' = sweep \/ sweep' = "done"
  BY DEF CancelRest, SweepRest, TypeOK
<1>4. /\ inbox' \in Seq(Messages) /\ Len(inbox') <= InboxMax
      /\ ord' \in [Orders -> {"none", "live", "over", "refused"}]
      /\ Login' /\ Placement' /\ SentIsSentWhileLinkHolds' /\ Mapping'
  BY <1>1, <1>2, <1>3, OrdersEnd DEF Login, Placement
<1>5. TypeOK' BY <1>2, <1>3, <1>4 DEF TypeOK
<1>6. Lifecycle' BY <1>2 DEF Lifecycle
<1> QED BY <1>4, <1>5, <1>6

LEMMA FillStep ==
  ASSUME NEW o \in Orders
  PROVE  IInv /\ Fill(o) => IInv'
<1> SUFFICES ASSUME IInv, Fill(o) PROVE IInv' OBVIOUS
<1> USE DEF IInv, flags, calls, Fill
<1>1. {o} \in SUBSET LiveOrders /\ EndOf({o}) BY DEF LiveOrders
<1>2. /\ inbox' \in Seq(Messages) /\ Len(inbox') <= InboxMax
      /\ ord' \in [Orders -> {"none", "live", "over", "refused"}]
      /\ Login' /\ Placement' /\ SentIsSentWhileLinkHolds' /\ Mapping'
  BY <1>1, OrdersEnd DEF Login, Placement
<1>3. TypeOK' BY <1>2 DEF TypeOK
<1>4. Lifecycle' BY DEF Lifecycle
<1> QED BY <1>2, <1>3, <1>4

(***************************************************************************)
(* shutdown()                                                              *)
(***************************************************************************)

LEMMA ShutdownStep == IInv /\ (ShutdownBegin \/ JoinAndReset) => IInv'
<1> SUFFICES ASSUME IInv, ShutdownBegin \/ JoinAndReset PROVE IInv' OBVIOUS
<1> USE DEF IInv, exchange, calls, net
<1>1. UNCHANGED <<reader, order_id_map, calls, known, net, exchange, told>>
  BY DEF ShutdownBegin, JoinAndReset, flags
<1>2. /\ authenticated' = authenticated \/ authenticated' = FALSE
      /\ connected' = connected \/ connected' = FALSE
      /\ running' = running \/ running' = FALSE
      /\ closing' \in {"stopping", "gone"} /\ ~running' /\ reader # "connect"
      /\ closing' = "gone" => reader \in {"ended", "failed"}
  <2>1. CASE ShutdownBegin BY <2>1 DEF ShutdownBegin, Constructed, Lifecycle
  <2>2. CASE JoinAndReset BY <2>2 DEF JoinAndReset, Lifecycle
  <2> QED BY <2>1, <2>2
<1>3. authenticated' \in BOOLEAN /\ connected' \in BOOLEAN /\ running' \in BOOLEAN
  BY <1>2, Zenon DEF TypeOK
<1>4. TypeOK' BY <1>1, <1>2, <1>3 DEF TypeOK
<1>5. Login' BY <1>1, <1>2 DEF Login, Privileged
<1>6. Lifecycle' BY <1>1, <1>2 DEF Lifecycle
<1>7. Placement' BY <1>1 DEF Placement, Constructed
<1>8. SentIsSentWhileLinkHolds' BY <1>1, <1>2 DEF SentIsSentWhileLinkHolds
<1>9. Mapping' BY <1>1 DEF Mapping
<1> QED BY <1>4, <1>5, <1>6, <1>7, <1>8, <1>9

\* The connection goes, by our hand or not: nothing is on its way any more, and of what has
\* arrived the last may be lost.
LEMMA LinkGoesStep == IInv /\ (CloseSocket \/ LinkBreaks) => IInv'
<1> SUFFICES ASSUME IInv, CloseSocket \/ LinkBreaks PROVE IInv' OBVIOUS
<1> USE DEF IInv, exchange, calls, flags
<1>1. /\ link' = "down" /\ wire' = <<>>
      /\ UNCHANGED <<reader, flags, order_id_map, calls, known, exchange, told>>
      /\ closing' = closing \/ (closing = "stopping" /\ closing' = "closed")
  BY DEF CloseSocket, LinkBreaks
<1>2. inbox' \in Seq(Messages) /\ Len(inbox') <= InboxMax /\ Items(inbox') \subseteq Items(inbox)
  <2>1. inbox \in Seq(Messages) /\ Len(inbox) <= InboxMax /\ Len(inbox) \in Nat BY DEF TypeOK
  <2>2. CASE inbox' = inbox BY <2>1, <2>2
  <2>3. CASE \E k \in 0 .. Len(inbox) : inbox' = SubSeq(inbox, 1, k)
    <3>1. PICK k \in 0 .. Len(inbox) : inbox' = SubSeq(inbox, 1, k) BY <2>3
    <3>2. k <= InboxMax BY <2>1, BoundsAssumption
    <3> QED BY <2>1, <3>1, <3>2, ItemsPrefix
  <2> QED BY <2>2, <2>3 DEF CloseSocket, LinkBreaks
<1>3. TypeOK' BY <1>1, <1>2, NoWire DEF TypeOK
<1>4. Login' BY <1>1, <1>2, NoWire DEF Login, Privileged
<1>5. Lifecycle'
  <2>1. reader # "connect" BY DEF CloseSocket, LinkBreaks, Lifecycle
  <2> QED BY <1>1, <2>1 DEF Lifecycle
<1>6. Placement' BY <1>1, NoWire DEF Placement, Constructed
<1>7. SentIsSentWhileLinkHolds' BY <1>1 DEF SentIsSentWhileLinkHolds
<1>8. Mapping' BY <1>1, <1>2 DEF Mapping
<1> QED BY <1>3, <1>4, <1>5, <1>6, <1>7, <1>8

(***************************************************************************)
(* The exchange                                                            *)
(***************************************************************************)

LEMMA ServerPingStep == IInv /\ ServerPing => IInv'
<1> SUFFICES ASSUME IInv, ServerPing PROVE IInv' OBVIOUS
<1> USE DEF IInv, exchange, calls, flags, ServerPing
<1> DEFINE ms == <<[type |-> "ping"]>>
<1>1. ms \in Seq(Messages) /\ Items(ms) = {[type |-> "ping"]}
  BY MessageTypes DEF Items
<1>2. inbox' \in Seq(Messages) /\ Len(inbox') <= InboxMax /\ Items(inbox') = Items(inbox) \cup Items(ms)
  BY <1>1, ReplyFacts
<1>3. TypeOK' BY <1>2 DEF TypeOK
<1>4. Login' BY <1>1, <1>2 DEF Login, Privileged
<1>5. Lifecycle' BY DEF Lifecycle
<1>6. Placement' BY DEF Placement, Constructed
<1>7. SentIsSentWhileLinkHolds' BY DEF SentIsSentWhileLinkHolds
<1>8. Mapping' BY <1>1, <1>2 DEF Mapping, Ends
<1> QED BY <1>3, <1>4, <1>5, <1>6, <1>7, <1>8

\* What every command that is served leaves alone.
Served ==
    /\ link = "up" /\ wire # <<>> /\ wire' = Tail(wire)
    /\ UNCHANGED <<reader, flags, order_id_map, closing, calls, known, link, told>>

LEMMA ServedFacts ==
  ASSUME IInv, Served
  PROVE  /\ wire' \in Seq(Commands) /\ Len(wire') <= WireMax
         /\ FirstOnly(wire') /\ Once(wire')
         /\ Items(wire') \subseteq Items(wire) /\ Head(wire) \in Items(wire) /\ Head(wire) \in Commands
         /\ \A c \in Items(wire) : c = Head(wire) \/ c \in Items(wire')
         /\ \A c \in Items(wire') : c.type # "login"
         /\ \A o \in Orders : Placing(o, Head(wire)) => \A c \in Items(wire') : ~Placing(o, c)
         /\ Lifecycle'
<1>1. Lifecycle' BY DEF IInv, Served, Lifecycle, flags
<1>2. TypeOK /\ FirstOnly(wire) /\ Once(wire) /\ wire # <<>> /\ wire' = Tail(wire)
  BY DEF IInv, Login, Placement, Served
<1> QED BY <1>1, <1>2, TailWire

\* A command that is not a placement leaves those that were sent on their way.
LEMMA StillOnItsWay ==
  ASSUME IInv, Served, Head(wire).type # "place", \A o \in Orders : ord[o] # "none" => ord'[o] # "none"
  PROVE  SentIsSentWhileLinkHolds'
<1> SUFFICES ASSUME NEW o \in Orders, place'[o] = "sent", link' = "up", running', ord'[o] = "none"
             PROVE  \E i \in DOMAIN wire' : wire'[i].type = "place" /\ wire'[i].order = o
  BY DEF SentIsSentWhileLinkHolds
<1>1. PICK c \in Items(wire) : c.type = "place" /\ c.order = o
  BY DEF IInv, SentIsSentWhileLinkHolds, Items, Served, flags, calls
<1>2. c \in Items(wire') BY <1>1, ServedFacts
<1> QED BY <1>1, <1>2 DEF Items

LEMMA ServeLoginStep == IInv /\ Served /\ Head(wire).type = "login" /\ ServeLogin => IInv'
<1> SUFFICES ASSUME IInv, Served, Head(wire).type = "login", ServeLogin PROVE IInv' OBVIOUS
<1> USE DEF IInv, Served, flags, calls, ServeLogin
<1>1. PICK ok \in BOOLEAN : /\ session' = [session EXCEPT !.login = ok]
                           /\ Reply(<<[type |-> "login", ok |-> ok]>>)
  OBVIOUS
<1> DEFINE ms == <<[type |-> "login", ok |-> ok]>>
<1>2. ms \in Seq(Messages) /\ Items(ms) = {[type |-> "login", ok |-> ok]}
  BY MessageTypes DEF Items
<1>3. inbox' \in Seq(Messages) /\ Len(inbox') <= InboxMax /\ Items(inbox') = Items(inbox) \cup Items(ms)
  BY <1>1, <1>2, ReplyFacts
<1>4. session' \in [login : BOOLEAN, subscribed : BOOLEAN] /\ session'.login = ok BY <1>1 DEF TypeOK
<1>5. TypeOK' BY <1>3, <1>4, ServedFacts DEF TypeOK
<1>6. ~session.login BY ServedFacts DEF Login
<1>7. ~Privileged BY <1>6 DEF Login
<1>8. reader # "connect" BY DEF Lifecycle
<1>9. Login' BY <1>3, <1>2, <1>4, <1>7, <1>8, ServedFacts DEF Login, Privileged
<1>10. UNCHANGED ord OBVIOUS
<1>11. Placement' BY <1>10, ServedFacts DEF Placement, Constructed
<1>12. SentIsSentWhileLinkHolds' BY <1>10, StillOnItsWay
<1>13. Mapping' BY <1>2, <1>3, <1>10 DEF Mapping, Ends
<1> QED BY <1>5, <1>9, <1>11, <1>12, <1>13, ServedFacts

LEMMA ServeSubscribeStep == IInv /\ Served /\ Head(wire).type = "subscribe" /\ ServeSubscribe => IInv'
<1> SUFFICES ASSUME IInv, Served, Head(wire).type = "subscribe", ServeSubscribe PROVE IInv' OBVIOUS
<1> USE DEF IInv, Served, flags, calls, ServeSubscribe
<1>1. session' \in [login : BOOLEAN, subscribed : BOOLEAN] /\ session'.login = session.login
  BY DEF TypeOK
<1>2. TypeOK' BY <1>1, ServedFacts DEF TypeOK
<1>3. Login' BY <1>1, ServedFacts DEF Login, Privileged
<1>4. Placement' BY ServedFacts DEF Placement, Constructed
<1>5. SentIsSentWhileLinkHolds' BY StillOnItsWay
<1>6. Mapping' BY DEF Mapping
<1> QED BY <1>2, <1>3, <1>4, <1>5, <1>6, ServedFacts

LEMMA ServePongStep == IInv /\ Served /\ Head(wire).type = "pong" /\ UNCHANGED <<exchange, inbox>> => IInv'
<1> SUFFICES ASSUME IInv, Served, Head(wire).type = "pong", UNCHANGED <<exchange, inbox>> PROVE IInv' OBVIOUS
<1> USE DEF IInv, Served, flags, calls, exchange
<1>1. TypeOK' BY ServedFacts DEF TypeOK
<1>2. Login' BY ServedFacts DEF Login, Privileged
<1>3. Placement' BY ServedFacts DEF Placement, Constructed
<1>4. SentIsSentWhileLinkHolds' BY StillOnItsWay
<1>5. Mapping' BY DEF Mapping
<1> QED BY <1>1, <1>2, <1>3, <1>4, <1>5, ServedFacts

LEMMA ServeCancelAllStep ==
  IInv /\ Served /\ Head(wire).type = "cancel_all" /\ EndOf(LiveOrders) /\ UNCHANGED session => IInv'
<1> SUFFICES ASSUME IInv, Served, Head(wire).type = "cancel_all", EndOf(LiveOrders), UNCHANGED session
             PROVE  IInv'
  OBVIOUS
<1> USE DEF IInv, Served, flags, calls
<1>1. \A c \in Items(wire) : c \notin Items(wire') => c.type # "place" BY ServedFacts
<1>2. /\ inbox' \in Seq(Messages) /\ Len(inbox') <= InboxMax
      /\ ord' \in [Orders -> {"none", "live", "over", "refused"}]
      /\ Login' /\ Placement' /\ SentIsSentWhileLinkHolds' /\ Mapping'
  BY <1>1, ServedFacts, OrdersEnd
<1>3. TypeOK' BY <1>2, ServedFacts DEF TypeOK
<1> QED BY <1>2, <1>3, ServedFacts

\* The answers of a placement or a cancel: an answer, and for a subscribed session an event.
LEMMA ReportFacts ==
  ASSUME TypeOK, NEW t \in {"place", "cancel"}, NEW e \in {"event", "finish"}, NEW o \in Orders,
         Report(Answer(t, o, TRUE), e, o)
  PROVE  /\ inbox' \in Seq(Messages) /\ Len(inbox') <= InboxMax
         /\ Items(inbox') \subseteq Items(inbox) \cup {Answer(t, o, TRUE), Event(e, o)}
<1> DEFINE x == Answer(t, o, TRUE)
           y == Event(e, o)
<1>1. x \in Messages /\ y \in Messages BY MessageTypes
<1>2. Reply(<<x>>) \/ Reply(<<x, y>>) \/ Reply(<<y, x>>) BY DEF Report
<1> HIDE DEF x, y
<1>3. \A ms \in {<<x>>, <<x, y>>, <<y, x>>} : ms \in Seq(Messages) /\ Items(ms) \subseteq {x, y}
  <2>1. <<x>> \in Seq(Messages) /\ Items(<<x>>) \subseteq {x, y} BY <1>1 DEF Items
  <2>2. <<x, y>> \in Seq(Messages) /\ Items(<<x, y>>) \subseteq {x, y} BY <1>1 DEF Items
  <2>3. <<y, x>> \in Seq(Messages) /\ Items(<<y, x>>) \subseteq {x, y} BY <1>1 DEF Items
  <2> QED BY <2>1, <2>2, <2>3
<1>4. \E ms \in {<<x>>, <<x, y>>, <<y, x>>} : Reply(ms) BY <1>2
<1>5. PICK ms \in Seq(Messages) : Reply(ms) /\ Items(ms) \subseteq {x, y} BY <1>3, <1>4
<1> QED BY <1>5, ReplyFacts DEF x, y

LEMMA RefusalFacts ==
  ASSUME TypeOK, NEW t \in {"place", "cancel"}, NEW o \in Orders, Reply(<<Answer(t, o, FALSE)>>)
  PROVE  /\ inbox' \in Seq(Messages) /\ Len(inbox') <= InboxMax
         /\ Items(inbox') = Items(inbox) \cup {Answer(t, o, FALSE)}
<1> DEFINE x == Answer(t, o, FALSE)
<1>1. x \in Messages BY MessageTypes
<1> HIDE DEF x
<1>2. <<x>> \in Seq(Messages) /\ Items(<<x>>) = {x} BY <1>1 DEF Items
<1> QED BY <1>2, ReplyFacts DEF x

LEMMA ServePlaceStep ==
  ASSUME NEW o \in Orders
  PROVE  IInv /\ Served /\ Placing(o, Head(wire)) /\ ServePlace(o) => IInv'
<1> SUFFICES ASSUME IInv, Served, Placing(o, Head(wire)), ServePlace(o) PROVE IInv' OBVIOUS
<1> USE DEF IInv, Served, flags, calls
<1>1. /\ inbox' \in Seq(Messages) /\ Len(inbox') <= InboxMax
      /\ \A m \in Items(inbox') : m \in Items(inbox) \/ (m.type # "login" /\ ~Ends(m))
      /\ UNCHANGED session
  BY ReportFacts, RefusalFacts DEF ServePlace, Answer, Event, Ends
<1>2. /\ ord' \in [Orders -> {"none", "live", "over", "refused"}]
      /\ ord'[o] # "none" /\ \A p \in Orders : p # o => ord'[p] = ord[p]
  BY DEF ServePlace, TypeOK
<1>3. TypeOK' BY <1>1, <1>2, ServedFacts DEF TypeOK
<1>4. Login' BY <1>1, ServedFacts DEF Login, Privileged
<1>5. ord[o] = "none" /\ place[o] \notin {"idle", "ws", "rest"} BY ServedFacts DEF Placement
<1>6. \A c \in Items(wire') : ~Placing(o, c) BY ServedFacts
<1>7. Placement' BY <1>2, <1>5, <1>6, ServedFacts DEF Placement, Constructed
<1>8. SentIsSentWhileLinkHolds'
  <2> SUFFICES ASSUME NEW p \in Orders, place'[p] = "sent", link' = "up", running', ord'[p] = "none"
               PROVE  \E i \in DOMAIN wire' : wire'[i].type = "place" /\ wire'[i].order = p
    BY DEF SentIsSentWhileLinkHolds
  <2>1. p # o /\ ord[p] = "none" BY <1>2
  <2>2. PICK c \in Items(wire) : c.type = "place" /\ c.order = p
    BY <2>1 DEF SentIsSentWhileLinkHolds, Items
  <2>3. c \in Items(wire') BY <2>1, <2>2, ServedFacts DEF Placing
  <2> QED BY <2>2, <2>3 DEF Items
<1>9. \A p \in Orders : ord[p] = "over" => ord'[p] = "over" BY <1>2, <1>5
<1>10. \A m \in Items(inbox) : Ends(m) => m.order \in Orders
  BY DEF TypeOK, Items, Ends, Messages
<1>11. told \subseteq Orders BY DEF TypeOK
<1>12. Mapping' BY <1>1, <1>9, <1>10, <1>11 DEF Mapping
<1> QED BY <1>3, <1>4, <1>7, <1>8, <1>12, ServedFacts

LEMMA ServeCancelStep ==
  ASSUME NEW o \in Orders
  PROVE  IInv /\ Served /\ Head(wire).type = "cancel" /\ ServeCancel(o) => IInv'
<1> SUFFICES ASSUME IInv, Served, Head(wire).type = "cancel", ServeCancel(o) PROVE IInv' OBVIOUS
<1> USE DEF IInv, Served, flags, calls
<1>1. /\ inbox' \in Seq(Messages) /\ Len(inbox') <= InboxMax /\ UNCHANGED session
      /\ \A m \in Items(inbox') :
           m \in Items(inbox) \/ (m.type # "login" /\ (Ends(m) => m.order = o /\ ord'[o] = "over"))
  <2>1. CASE Reply(<<Answer("cancel", o, FALSE)>>) /\ UNCHANGED <<session, ord>>
    BY <2>1, RefusalFacts DEF Answer, Ends
  <2>2. CASE Report(Answer("cancel", o, TRUE), "finish", o) /\ UNCHANGED session /\ ord' = [ord EXCEPT ![o] = "over"]
    <3>1. ord'[o] = "over" BY <2>2 DEF TypeOK
    <3> QED BY <2>2, <3>1, ReportFacts DEF Answer, Event, Ends
  <2> QED BY <2>1, <2>2 DEF ServeCancel
<1>2. /\ ord' \in [Orders -> {"none", "live", "over", "refused"}]
      /\ \A p \in Orders : (ord'[p] = "none" <=> ord[p] = "none") /\ (ord[p] = "over" => ord'[p] = "over")
  BY DEF ServeCancel, TypeOK
<1>3. TypeOK' BY <1>1, <1>2, ServedFacts DEF TypeOK
<1>4. Login' BY <1>1, ServedFacts DEF Login, Privileged
<1>5. Placement' BY <1>2, ServedFacts DEF Placement, Constructed
<1>6. SentIsSentWhileLinkHolds' BY <1>2, StillOnItsWay
<1>7. \A m \in Items(inbox) : Ends(m) => m.order \in Orders
  BY DEF TypeOK, Items, Ends, Messages
<1>8. told \subseteq Orders BY DEF TypeOK
<1>9. Mapping' BY <1>1, <1>2, <1>7, <1>8 DEF Mapping
<1> QED BY <1>3, <1>4, <1>5, <1>6, <1>9, ServedFacts

LEMMA ServeStep == IInv /\ Serve => IInv'
<1> SUFFICES ASSUME IInv, Serve PROVE IInv' OBVIOUS
<1> DEFINE c == Head(wire)
<1>1. Served BY DEF Serve, Served
<1>2. c \in Commands BY <1>1, ServedFacts
<1>3. CASE c.type = "login" BY <1>1, <1>3, ServeLoginStep DEF Serve
<1>4. CASE c.type = "subscribe" BY <1>1, <1>4, ServeSubscribeStep DEF Serve
<1>5. CASE c.type = "place"
  <2>1. c.order \in Orders /\ Placing(c.order, c) /\ ServePlace(c.order)
    BY <1>2, <1>5 DEF Commands, Placing, Serve
  <2> QED BY <1>1, <2>1, ServePlaceStep
<1>6. CASE c.type = "cancel"
  <2>1. c.order \in Orders /\ ServeCancel(c.order)
    BY <1>2, <1>6 DEF Commands, Serve
  <2> QED BY <1>1, <1>6, <2>1, ServeCancelStep
<1>7. CASE c.type = "pong" BY <1>1, <1>7, ServePongStep DEF Serve
<1>8. CASE c.type = "cancel_all" BY <1>1, <1>8, ServeCancelAllStep DEF Serve
<1>9. c.type \in {"login", "subscribe", "place", "cancel", "pong", "cancel_all"}
  BY <1>2 DEF Commands
<1> QED BY <1>3, <1>4, <1>5, <1>6, <1>7, <1>8, <1>9

(***************************************************************************)
(* Theorems                                                                *)
(***************************************************************************)

LEMMA StutterStep == IInv /\ UNCHANGED vars => IInv'
<1> SUFFICES ASSUME IInv, UNCHANGED vars PROVE IInv' OBVIOUS
<1> USE DEF IInv, vars, flags, calls, exchange, net
<1>1. TypeOK' BY DEF TypeOK
<1>2. Login' BY DEF Login, Privileged
<1>3. Lifecycle' BY DEF Lifecycle
<1>4. Placement' BY DEF Placement, Constructed
<1>5. SentIsSentWhileLinkHolds' BY DEF SentIsSentWhileLinkHolds
<1>6. Mapping' BY DEF Mapping
<1> QED BY <1>1, <1>2, <1>3, <1>4, <1>5, <1>6

LEMMA NextIInv == IInv /\ [Next]_vars => IInv'
<1> SUFFICES ASSUME IInv, [Next]_vars PROVE IInv' OBVIOUS
<1>1. CASE Connect \/ Listen BY <1>1, ConnectStep, ReadStep, ReaderWrites, ReaderLeaves DEF Listen
<1>2. CASE (\E o \in Orders : PlaceCheck(o)) \/ (\E n \in Names : CancelCheck(n)) \/ SweepCheck
  BY <1>2, CheckStep
<1>3. CASE \E o \in Orders : Fill(o) BY <1>3, FillStep
<1>4. CASE \E o \in Orders : PlaceWs(o) \/ PlaceRest(o) BY <1>4, PlaceWsStep, PlaceRestStep
<1>5. CASE (\E n \in Names : CancelWs(n) \/ CancelRest(n)) \/ SweepWs \/ SweepRest
  BY <1>5, CancelWsStep, RestCancelStep
<1>6. CASE \E n \in Names : LookUp(n) BY <1>6, LookUpStep
<1>7. CASE Fetch \/ ShutdownBegin \/ CloseSocket \/ JoinAndReset
  BY <1>7, FetchStep, ShutdownStep, LinkGoesStep
<1>8. CASE Serve \/ ServerPing \/ LinkBreaks BY <1>8, ServeStep, ServerPingStep, LinkGoesStep
<1>9. CASE UNCHANGED vars BY <1>9, StutterStep
<1> QED BY <1>1, <1>2, <1>3, <1>4, <1>5, <1>6, <1>7, <1>8, <1>9 DEF Next, Call

\* The inductive invariant holds in every state.
THEOREM Invariance == Spec => []IInv
BY InitIInv, NextIInv, PTL DEF Spec

\* The flags, the map, the calls and both queues have the values GateWsImpl can give them,
\* and neither queue outgrows its bound.
THEOREM TypeCorrect == Spec => []TypeOK
<1>1. IInv => TypeOK BY DEF IInv
<1> QED BY <1>1, Invariance, PTL

\* No order, cancel or cancel-all is written by any thread before the login has been
\* accepted, although each call tests `authenticated` some steps before it writes.
THEOREM LoginComesFirst == Spec => []CommandsAfterLogin
<1>1. IInv => CommandsAfterLogin
  BY DEF IInv, Login, Privileged, Items, CommandsAfterLogin
<1> QED BY <1>1, Invariance, PTL

\* place_order_ws says "Sent" without looking at what ws_write did, and is right as long as
\* the connection holds and shutdown() has not begun.
THEOREM SentIsSent == Spec => []SentIsSentWhileLinkHolds
<1>1. IInv => SentIsSentWhileLinkHolds BY DEF IInv
<1> QED BY <1>1, Invariance, PTL

\* A session that shutdown() has taken down is neither connected nor authenticated again.
THEOREM GoneIsDown == Spec => []ClosedForGood
<1>1. IInv => ClosedForGood BY DEF IInv, Lifecycle, ClosedForGood
<1> QED BY <1>1, Invariance, PTL

\* The name by which a cancel goes out is looked up in order_id_map and nowhere else.
LEMMA OnlyLookUpChooses ==
  ASSUME TypeOK, Next, NEW n \in Names, cancel[n] = "lookup", cancel'[n] = "client"
  PROVE  LookUp(n)
<1>1. CASE Connect \/ Listen
  BY <1>1 DEF Connect, Listen, Read, WritePong, SubscribeOrders, FirstReadFails, ListenTest,
              ReadFails, Unset, calls
<1>2. CASE \E o \in Orders : PlaceCheck(o) \/ Fill(o) \/ PlaceWs(o) \/ PlaceRest(o)
  BY <1>2 DEF PlaceCheck, Fill, PlaceWs, PlaceRest, calls
<1>3. CASE \E k \in Names : CancelCheck(k) \/ CancelWs(k) \/ CancelRest(k)
  BY <1>3 DEF CancelCheck, CancelWs, CancelRest, TypeOK
<1>4. CASE \E k \in Names : LookUp(k)
  BY <1>4 DEF LookUp, TypeOK
<1>5. CASE SweepCheck \/ SweepWs \/ SweepRest \/ Fetch
  BY <1>5 DEF SweepCheck, SweepWs, SweepRest, Fetch, calls
<1>6. CASE ShutdownBegin \/ CloseSocket \/ JoinAndReset
  BY <1>6 DEF ShutdownBegin, CloseSocket, JoinAndReset, calls
<1>7. CASE Serve \/ ServerPing \/ LinkBreaks
  BY <1>7 DEF Serve, ServerPing, LinkBreaks, calls
<1> QED BY <1>1, <1>2, <1>3, <1>4, <1>5, <1>6, <1>7 DEF Next, Call

\* Once the answer to its placement has been handled, a cancel of an order goes out by
\* our own name for it only when the order is over: no other message, fetch or refused
\* cancel takes its entry away.
THEOREM CancelsFindTheirOrder == Spec => MapServesCancels
<1> DEFINE FoundIn(o) == cancel[Client(o)] = "lookup" /\ cancel'[Client(o)] = "client" /\ o \in told
                           => ord[o] = "over"
<1>1. IInv /\ [Next]_vars => [\A o \in Orders : FoundIn(o)]_vars
  <2> SUFFICES ASSUME IInv, Next, NEW o \in Orders,
                      cancel[Client(o)] = "lookup", cancel'[Client(o)] = "client", o \in told
               PROVE  ord[o] = "over"
    OBVIOUS
  <2>1. Client(o) \in Names BY DEF Client, Names
  <2>2. LookUp(Client(o)) BY <2>1, OnlyLookUpChooses DEF IInv
  <2>3. Client(o) \notin order_id_map BY <2>1, <2>2 DEF LookUp, IInv, TypeOK
  <2> QED BY <2>3 DEF IInv, Mapping
<1> QED BY <1>1, Invariance, PTL DEF Spec, MapServesCancels

=============================================================================
