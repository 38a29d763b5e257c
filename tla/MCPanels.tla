------------------------------ MODULE MCPanels ------------------------------
(* The instance of Panels that TLC checks. *)
EXTENDS Panels

CONSTANTS x, y, p, q

Both     == {x, y}
OneKeyed == {x}
TwoPairs == {p, q}

=============================================================================
