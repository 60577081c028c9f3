----------------------------- MODULE MCStreams -----------------------------
(* Model values for Streams.                                               *)
EXTENDS Streams

CONSTANTS c1, c2, b1
=============================================================================
