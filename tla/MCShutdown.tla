------------------------------ MODULE MCShutdown ------------------------------
(* The instances of Shutdown that TLC checks. *)
EXTENDS Shutdown

CONSTANTS mexc, gate, mexc_order_stream, bingx_order_stream

TwoFeeds   == <<mexc, gate>>
TwoStreams == <<mexc_order_stream, bingx_order_stream>>
NoStream   == <<>>
=============================================================================
