------------------------------- MODULE MCDemux -------------------------------
(* Small files for TLC: AAC LC in stereo and video, nothing out of the way. *)
EXTENDS Demux
AacLc == [profile |-> 1, rate |-> 44100, channels |-> 2, frameSize |-> 1024]
Media == [kind : {"audio"}, size : {249, 3000}] \cup [kind : {"video"}, size : {1}]
Files == [codec : {AacLc}, packets : UNION {[1 .. n -> Media] : n \in 0 .. 3}]
=============================================================================
