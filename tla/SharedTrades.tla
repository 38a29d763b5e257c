---------------------------- MODULE SharedTrades ----------------------------
(***************************************************************************)
(* The recent trades of every exchange (scr/trades.h): feed threads add,   *)
(* the render thread takes copies and clears.  Each operation holds the    *)
(* mutex from beginning to end, and so is one step.  A trade is a value of *)
(* the set Trades; positions count from 1.                                 *)
(***************************************************************************)
EXTENDS Naturals, Sequences, FiniteSets

CONSTANTS
    Exchanges,
    Trades,
    NoTrade,    \* Trade{}
    Max,        \* 20
    MaxEx,      \* 4
    MaxLog      \* bound: trades of an exchange between two clears

ASSUME SizesAssumption ==
    /\ Max \in Nat \ {0} /\ MaxEx \in Nat \ {0} /\ MaxLog \in Nat
    /\ NoTrade \notin Trades

VARIABLES
    names,      \* exchange_count is its length
    trades, counts,
    shown,      \* the snapshot last drawn for each exchange
    log         \* history: what has been recorded since the last clear_all

vars == <<names, trades, counts, shown, log>>

Lists == [1 .. Max -> Trades \cup {NoTrade}]

TypeOK ==
    /\ names \in Seq(Exchanges) /\ Len(names) <= MaxEx
    /\ trades \in [1 .. MaxEx -> Lists]
    /\ counts \in [1 .. MaxEx -> 0 .. Max]
    /\ shown \in [Exchanges -> Seq(Trades)]
    /\ log \in [Exchanges -> Seq(Trades)]

EmptyList == [i \in 1 .. Max |-> NoTrade]

Init ==
    /\ names = <<>>
    /\ trades = [i \in 1 .. MaxEx |-> EmptyList]
    /\ counts = [i \in 1 .. MaxEx |-> 0]
    /\ shown = [e \in Exchanges |-> <<>>]
    /\ log = [e \in Exchanges |-> <<>>]

-----------------------------------------------------------------------------
(* Faulty variants of definitions below, used to show that the properties at *)
(* the end notice them.                                                      *)

\* The shift runs from the front: every place gets the first trade.
ShiftFromFront(list, t) == [i \in 1 .. Max |-> IF i = 1 THEN t ELSE list[1]]

\* The count goes one too far.
CountOnePast(n) == IF n <= Max THEN n + 1 ELSE n

-----------------------------------------------------------------------------
IndexOf(e) == {i \in DOMAIN names : names[i] = e}

\* Shift right, prepend.
Shifted(list, t) == [i \in 1 .. Max |-> IF i = 1 THEN t ELSE list[i - 1]]
Counted(n) == IF n < Max THEN n + 1 ELSE n

PrependAt(i, e, t) ==
    /\ trades' = [trades EXCEPT ![i] = Shifted(@, t)]
    /\ counts' = [counts EXCEPT ![i] = Counted(@)]
    /\ log' = [log EXCEPT ![e] = Append(@, t)]
    /\ UNCHANGED shown

\* An exchange that finds no place is not recorded.
Add(e, t) ==
    /\ Len(log[e]) < MaxLog
    /\ \/ \E i \in IndexOf(e) : PrependAt(i, e, t) /\ UNCHANGED names
       \/ /\ IndexOf(e) = {} /\ Len(names) < MaxEx
          /\ names' = Append(names, e)
          /\ PrependAt(Len(names) + 1, e, t)
       \/ /\ IndexOf(e) = {} /\ Len(names) = MaxEx
          /\ UNCHANGED vars

\* snapshot(), by draw_trades_table.
Snapshot(e) ==
    /\ \/ \E i \in IndexOf(e) :
            shown' = [shown EXCEPT ![e] = [j \in 1 .. counts[i] |-> trades[i][j]]]
       \/ IndexOf(e) = {} /\ shown' = [shown EXCEPT ![e] = <<>>]
    /\ UNCHANGED <<names, trades, counts, log>>

\* Only the lists in use are wiped; an exchange keeps its place.
ClearAll ==
    /\ counts' = [i \in 1 .. MaxEx |-> IF i <= Len(names) THEN 0 ELSE counts[i]]
    /\ trades' = [i \in 1 .. MaxEx |-> IF i <= Len(names) THEN EmptyList ELSE trades[i]]
    /\ log' = [e \in Exchanges |-> <<>>]
    /\ UNCHANGED <<names, shown>>

Next ==
    \/ \E e \in Exchanges, t \in Trades : Add(e, t)
    \/ \E e \in Exchanges : Snapshot(e)
    \/ ClearAll

Spec == Init /\ [][Next]_vars

-----------------------------------------------------------------------------
(* Properties *)

\* Panels see the newest Max trades since the last clear, newest first, whatever the order
\* in which exchanges appear, fill their lists and are cleared.
Log == INSTANCE TradeLog WITH followed <- {names[i] : i \in DOMAIN names}
ImplementsTradeLog == Log!Spec

=============================================================================
