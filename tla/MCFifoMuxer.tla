----------------------------- MODULE MCFifoMuxer ------------------------------
EXTENDS FifoMuxer

Settings(drop, recover, any, stream, restart, max) ==
  [drop |-> drop, recover |-> recover, any |-> any,
   stream |-> stream, restart |-> restart, max |-> max]

MCOptions ==
  {Settings(FALSE, FALSE, FALSE, FALSE, FALSE, 0), \* the defaults
   Settings(FALSE, TRUE, TRUE, FALSE, FALSE, 0),
   Settings(FALSE, TRUE, FALSE, FALSE, TRUE, 2),
   Settings(TRUE, TRUE, FALSE, FALSE, TRUE, 0),
   Settings(TRUE, TRUE, FALSE, TRUE, TRUE, 2),
   Settings(TRUE, TRUE, TRUE, TRUE, FALSE, 1),
   Settings(FALSE, TRUE, FALSE, TRUE, FALSE, 0)}   \* turned down by fifo_init

(* drop_pkts_on_overflow, attempt_recovery and restart_with_keyframe. *)
GapOptions == {Settings(TRUE, TRUE, FALSE, FALSE, TRUE, 0)}
=============================================================================
