----------------------------- MODULE MCDisruptor -----------------------------
(* The instances of Disruptor that TLC checks. *)
EXTENDS Disruptor

CONSTANTS mexc, gate, agg, second, u1, u2

\* A producer thread as the ring was designed for, and the two that are enough
\* to show what main.cpp's four do.
OneProducer  == {mexc}
TwoProducers == {mexc, gate}
TwoConsumers == {agg, second}
OneConsumer  == {agg}
TwoUpdates   == {u1, u2}
=============================================================================
