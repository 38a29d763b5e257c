----------------------------- MODULE MCDepthBook -----------------------------
(* The instance of DepthBook that TLC checks. *)
EXTENDS DepthBook

ThreePrices == 1 .. 3

=============================================================================
