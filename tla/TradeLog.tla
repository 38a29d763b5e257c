------------------------------ MODULE TradeLog ------------------------------
(***************************************************************************)
(* What a panel may expect of its list of trades: everything an exchange   *)
(* has traded since the last clear is remembered in order, and a look      *)
(* shows the newest Max of it, newest first.  At most MaxEx exchanges are  *)
(* followed, the first to trade.                                           *)
(***************************************************************************)
EXTENDS Naturals, Sequences, FiniteSets

CONSTANTS Exchanges, Trades, Max, MaxEx

VARIABLES
    followed,   \* the exchanges that have a list
    log,        \* all trades since the last clear, oldest first
    shown       \* what was last seen of each list

vars == <<followed, log, shown>>

Shortest(a, b) == IF a < b THEN a ELSE b
Recent(s) == [i \in 1 .. Shortest(Len(s), Max) |-> s[Len(s) + 1 - i]]

Init ==
    /\ followed = {}
    /\ log = [e \in Exchanges |-> <<>>]
    /\ shown = [e \in Exchanges |-> <<>>]

Record(e, t) ==
    /\ e \in followed \/ Cardinality(followed) < MaxEx
    /\ followed' = followed \cup {e}
    /\ log' = [log EXCEPT ![e] = Append(@, t)]
    /\ UNCHANGED shown

Clear ==
    /\ log' = [e \in Exchanges |-> <<>>]
    /\ UNCHANGED <<followed, shown>>

Look(e) ==
    /\ shown' = [shown EXCEPT ![e] = Recent(log[e])]
    /\ UNCHANGED <<followed, log>>

Next ==
    \/ \E e \in Exchanges, t \in Trades : Record(e, t)
    \/ Clear
    \/ \E e \in Exchanges : Look(e)

Spec == Init /\ [][Next]_vars

=============================================================================
