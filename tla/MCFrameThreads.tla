---------------------------- MODULE MCFrameThreads ----------------------------
EXTENDS FrameThreads

Codec(update, own, delayed, hw, packets, fails) ==
  [update |-> update, own |-> own, delayed |-> delayed, hw |-> hw,
   packets |-> packets, fails |-> fails]

MCOptions ==
  {Codec(TRUE, FALSE, TRUE, "none", 2, 1),    \* H.264
   Codec(TRUE, TRUE, TRUE, "none", 4, 0),     \* the same for a caller with own buffers
   Codec(TRUE, TRUE, TRUE, "none", 2, 1),
   Codec(TRUE, FALSE, TRUE, "serial", 3, 0),  \* and with hardware
   Codec(TRUE, TRUE, TRUE, "safe", 3, 0),
   Codec(FALSE, FALSE, FALSE, "none", 3, 0),  \* intra only
   Codec(FALSE, TRUE, FALSE, "none", 2, 1)}
=============================================================================
