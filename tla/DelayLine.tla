------------------------------ MODULE DelayLine ------------------------------
(***************************************************************************)
(* What x264_encoder_encode promises its caller, with no thread or list in *)
(* sight: pictures go in in display order and come out once each, in coded *)
(* order, and while the caller keeps feeding it the encoder holds back     *)
(* exactly MaxDelay of them (x264_encoder_maximum_delayed_frames).         *)
(***************************************************************************)
EXTENDS Naturals, Sequences, FiniteSets, Functions

CONSTANTS MaxDelay,  \* frames.i_delay
          MaxB       \* param.i_bframe

VARIABLES input,     \* pictures taken, numbered from 0
          emitted,   \* the coded frames handed back, in order
          stopped    \* a flush or a close has begun

Init == input = 0 /\ emitted = <<>> /\ stopped = FALSE

Held == input - Len(emitted)

(* Frame f may be coded next: either every earlier minigop is complete and  *)
(* f closes one of at most MaxB B-frames, or f is one of the B-frames that  *)
(* the last closing frame left behind.                                      *)
MayFollow(f) ==
  LET coded   == Range(emitted)
      skipped == (0 .. f - 1) \ coded
  IN  /\ f \in (0 .. input - 1) \ coded
      /\ IF coded = 0 .. Len(emitted) - 1
           THEN Cardinality(skipped) <= MaxB
           ELSE \E g \in coded : f < g

Take == ~stopped /\ Held <= MaxDelay /\ input' = input + 1 /\ UNCHANGED <<emitted, stopped>>
Stop == stopped' = TRUE /\ UNCHANGED <<input, emitted>>
Emit == /\ stopped \/ Held = MaxDelay + 1
        /\ \E f \in 0 .. input - 1 : MayFollow(f) /\ emitted' = Append(emitted, f)
        /\ UNCHANGED <<input, stopped>>

Spec == Init /\ [][Take \/ Stop \/ Emit]_<<input, emitted, stopped>>
=============================================================================
