---------------------------- MODULE SharedDisplay ----------------------------
(***************************************************************************)
(* The books of all panels (scr/orderbook.h): the aggregator updates them, *)
(* the render thread takes copies and clears them.  Each operation holds   *)
(* the mutex from beginning to end.  Of an update only the exchange and    *)
(* the pair it is of are kept.  An exchange has the slot that its first    *)
(* update was given, for good.                                             *)
(***************************************************************************)
EXTENDS Naturals, Sequences

CONSTANTS Exchanges, Pairs, NoPair, MaxSlots    \* 4

ASSUME SlotsAssumption == MaxSlots \in Nat \ {0} /\ NoPair \notin Pairs

VARIABLE slots

Updates == [ex : Exchanges, pair : Pairs]
Books   == [ex : Exchanges, pair : Pairs \cup {NoPair}]

SlotsOf(books, e) == {i \in DOMAIN books : books[i].ex = e}

\* Faulty variants: the latest update goes first; clearing gives the slots away.
UpdateInFront(u) == slots' = <<u>> \o SelectSeq(slots, LAMBDA s : s.ex # u.ex)
ClearSlots == slots' = <<>>

\* update()
Update(u) ==
    \/ \E i \in SlotsOf(slots, u.ex) : slots' = [slots EXCEPT ![i] = u]
    \/ /\ SlotsOf(slots, u.ex) = {}
       /\ slots' = IF Len(slots) < MaxSlots THEN Append(slots, u) ELSE slots

\* clear_books(): the levels and the pair go, the slots stay.
ClearBooks == slots' = [i \in DOMAIN slots |-> [slots[i] EXCEPT !.pair = NoPair]]

=============================================================================
