--------------------------- MODULE MCSharedTrades ---------------------------
(* The instance of SharedTrades that TLC checks. *)
EXTENDS SharedTrades, TLC

Symmetries == Permutations(Exchanges) \cup Permutations(Trades)

=============================================================================
