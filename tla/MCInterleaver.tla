---------------------------- MODULE MCInterleaver ----------------------------
(* A small muxer for TLC: streams whose time bases differ. *)
EXTENDS Interleaver
UnequalTicks == [s \in Streams |-> CASE s = 0 -> 2 [] s = 1 -> 3 [] OTHER -> 1]
LowDts == -1 .. 1
=============================================================================
