---------------------------- MODULE MCOrderStream ----------------------------
(* The instance of OrderStream that TLC checks: its constants are numbers. *)
EXTENDS OrderStream

=============================================================================
