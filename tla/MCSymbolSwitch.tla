--------------------------- MODULE MCSymbolSwitch ---------------------------
(* The instances of SymbolSwitch that TLC checks. *)
EXTENDS SymbolSwitch

CONSTANTS btc, eth

TwoSymbols == {btc, eth}
=============================================================================
