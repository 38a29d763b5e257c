---------------------------- MODULE MCGateSession ----------------------------
(* The instance of GateSession that TLC checks. *)
EXTENDS GateSession

CONSTANTS a, b

OneOrder  == {a}
TwoOrders == {a, b}

=============================================================================
