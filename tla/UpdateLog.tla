------------------------------ MODULE UpdateLog ------------------------------
(***************************************************************************)
(* What a caller of scr/disruptor.h may rely on: a log to which updates    *)
(* are appended while no reader is Capacity behind, and from which every   *)
(* reader is handed every entry, once and in order.                        *)
(***************************************************************************)
EXTENDS Naturals, Sequences

CONSTANTS Readers, Entries, Capacity

VARIABLES
    log,        \* everything published
    delivered   \* what each reader has been handed

logVars == <<log, delivered>>

Init ==
    /\ log = <<>>
    /\ delivered = [r \in Readers |-> <<>>]

Behind(r) == Len(log) - Len(delivered[r])

Publish(e) ==
    /\ \A r \in Readers : Behind(r) < Capacity
    /\ log' = Append(log, e)
    /\ UNCHANGED delivered

Deliver(r) ==
    /\ Len(delivered[r]) < Len(log)
    /\ delivered' = [delivered EXCEPT ![r] = Append(@, log[Len(@) + 1])]
    /\ UNCHANGED log

Next == (\E e \in Entries : Publish(e)) \/ (\E r \in Readers : Deliver(r))

Spec == Init /\ [][Next]_logVars /\ \A r \in Readers : WF_logVars(Deliver(r))

=============================================================================
