---------------------------- MODULE MCOrderPanel ----------------------------
(* The instances of OrderPanel that TLC checks. *)
EXTENDS OrderPanel

CONSTANTS a, b

OneOwn   == {a}
TwoOwn   == {a, b}
NoOwn    == {}
TwoOther == {a, b}
NoOther  == {}

=============================================================================
