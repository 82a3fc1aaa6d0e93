------------------------------- MODULE MCWebUDP -------------------------------
(* Two callers, two targets and two streams; the second may be of another QUIC *)
(* connection when the first has died.                                         *)
EXTENDS WebUDP

TwoWires == 1..2
=============================================================================
