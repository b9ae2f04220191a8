----------------------------- MODULE VideoEncode ------------------------------
(***************************************************************************)
(* ffvencode: main reads pictures, CffVencode::Encode sends each to the    *)
(* encoder and collects the packets there are, main appends them to the    *)
(* file.  Below it are the send and receive calls of libavcodec/encode.c,  *)
(* which keep one packet, and X264_frame of libavcodec/libx264.c, which    *)
(* asks x264 once for a picture and as often as it takes when flushing.    *)
(* x264 is DelayLine, which Lookahead implements.                          *)
(***************************************************************************)
EXTENDS Integers, Sequences, FiniteSets

CONSTANTS
  MaxDelay, MaxB,  \* of DelayLine; ffvencode sets max_b_frames to 0
  MaxFrames,       \* bound: pictures in the input file
  MaxFails         \* bound: how often x264 or the allocation of a packet fails

ASSUME EncodeAssumption ==
  MaxDelay \in Nat /\ MaxB \in Nat /\ MaxFrames \in Nat /\ MaxFails \in Nat

Ok        == "ok"
Again     == "again"     \* AVERROR(EAGAIN)
EndOfFile == "eof"       \* AVERROR_EOF
Failed    == "external"  \* AVERROR_EXTERNAL, AVERROR(ENOMEM)

NoPacket == -1
Junk     == -2          \* in the file: the buffer as an older call left it

VARIABLES
  received, emitted, stopped,  \* x264: input, emitted, stopped of DelayLine
  draining,    \* avctx->internal->draining
  kept,        \* the packet in buffer_pkt, NoPacket unless buffer_pkt_valid
  at,          \* where the program is
  caller,      \* who called do_encode: avcodec_send_frame or ..._receive_packet
  num, i,      \* main: pictures in the file, loop index
  data,        \* h264_data: the packets of this call, in h264_data[0 .. length - 1]
  file,        \* the packets written
  fails        \* history: failures so far

x264 == <<received, emitted, stopped>>
vars == <<x264, draining, kept, at, caller, num, i, data, file, fails>>

X264 == INSTANCE DelayLine WITH input <- received

EncodeInit ==
  /\ X264!Init /\ draining = FALSE /\ kept = NoPacket
  /\ num \in 0 .. MaxFrames
  /\ at = "read" /\ caller = "send" /\ i = 0 /\ data = <<>> /\ file = <<>> /\ fails = 0

CanFail == fails < MaxFails

-----------------------------------------------------------------------------
(* main and Encode. *)

(* The loop of main, then the flush with yuv_data = NULL; a picture that     *)
(* cannot be made writable is the end of this Encode.                        *)
Flushing == i = num
ReadPicture ==
  /\ at = "read" /\ data' = <<>>
  /\ \/ at' = "send" /\ UNCHANGED fails
     \/ ~Flushing /\ CanFail /\ at' = "failed" /\ fails' = fails + 1
  /\ UNCHANGED <<x264, draining, kept, caller, num, i, file>>

(* avcodec_send_frame: refused, or on to do_encode. *)
Encodes(who) == at' = "x264" /\ caller' = who /\ kept' = NoPacket
Refusal == IF draining THEN EndOfFile ELSE IF kept # NoPacket THEN Again ELSE Ok
SendFrame ==
  /\ at = "send"
  /\ draining' = (draining \/ Flushing)
  /\ IF Refusal = Ok THEN Encodes("send")
     ELSE at' = "failed" /\ UNCHANGED <<kept, caller>>
  /\ UNCHANGED <<x264, num, i, data, file, fails>>

(* avcodec_receive_packet: the packet that is kept, or, when draining, the   *)
(* next one.                                                                 *)
Receive ==
  /\ at = "receive" /\ kept # NoPacket
  /\ data' = Append(data, kept) /\ kept' = NoPacket
  /\ UNCHANGED <<x264, draining, at, caller, num, i, file, fails>>

ReceiveEncodes ==
  /\ at = "receive" /\ kept = NoPacket /\ draining
  /\ Encodes("receive")
  /\ UNCHANGED <<x264, draining, num, i, data, file, fails>>

ReceiveAgain ==
  /\ at = "receive" /\ kept = NoPacket /\ ~draining
  /\ at' = "encoded"
  /\ UNCHANGED <<x264, draining, kept, caller, num, i, data, file, fails>>

(* What Encode has collected goes to the file.  When it failed h264_size is  *)
(* still the size of the buffer, and that much of it is written.             *)
NextPicture == i' = i + 1 /\ at' = IF Flushing THEN "done" ELSE "read"
WriteFile ==
  /\ at \in {"encoded", "failed"}
  /\ file' = IF at = "encoded" THEN file \o data ELSE Append(file, Junk)
  /\ NextPicture
  /\ UNCHANGED <<x264, draining, kept, caller, num, data, fails>>

-----------------------------------------------------------------------------
(* X264_frame in do_encode. *)

(* x264_encoder_encode takes the picture or starts to flush... *)
TakePicture ==
  /\ at = "x264" /\ at' = "frame"
  /\ IF draining THEN X264!Stop ELSE X264!Take
  /\ UNCHANGED <<draining, kept, caller, num, i, data, file, fails>>

(* ... and returns a frame, which becomes the packet...                      *)
Returns(result) ==
  at' = CASE result = Ok -> "receive"
          [] result = Failed -> "failed"
          [] result = EndOfFile -> IF caller = "send" THEN "receive" ELSE "encoded"
EmitFrame ==
  /\ at = "frame" /\ X264!Emit
  /\ \/ kept' = emitted'[Len(emitted')] /\ Returns(Ok) /\ UNCHANGED fails
     \/ CanFail /\ Returns(Failed) /\ fails' = fails + 1 /\ UNCHANGED kept
  /\ UNCHANGED <<draining, caller, num, i, data, file>>

(* ... or nothing: X264_frame asks again while it flushes and x264 still     *)
(* holds pictures (x264_encoder_delayed_frames).                             *)
HoldsMoreOnce == FALSE       \* mutant: X264_frame asks once
HoldsMoreAlways == draining  \* mutant: it asks until there is a frame
HoldsMore == draining /\ X264!Held > 0
EmitNothing ==
  /\ at = "frame" /\ (draining \/ X264!Held <= MaxDelay)
  /\ IF HoldsMore THEN at' = "x264" ELSE Returns(EndOfFile)
  /\ UNCHANGED <<x264, draining, kept, caller, num, i, data, file, fails>>

EncodeFails ==
  /\ at = "x264" /\ CanFail /\ fails' = fails + 1 /\ Returns(Failed)
  /\ UNCHANGED <<x264, draining, kept, caller, num, i, data, file>>

-----------------------------------------------------------------------------
Terminated == at = "done" /\ UNCHANGED vars

EncodeStep ==
  \/ ReadPicture \/ SendFrame \/ Receive \/ ReceiveEncodes \/ ReceiveAgain
  \/ WriteFile \/ TakePicture \/ EmitFrame \/ EmitNothing \/ EncodeFails
EncodeNext == EncodeStep \/ Terminated

EncodeSpec == EncodeInit /\ [][EncodeNext]_vars

(* The program runs, and x264 gives its pictures out when it is flushed      *)
(* (FlushDrains of Lookahead).                                               *)
EncodeFairSpec == EncodeSpec /\ WF_vars(EncodeStep) /\ SF_vars(EmitFrame)

-----------------------------------------------------------------------------
(* What is in the file or will be: a call that has failed leaves Junk in     *)
(* place of the packets it had collected.                                    *)
OnTheWay == (IF at \in {"done", "read"} THEN <<>> ELSE data)
            \o (IF kept = NoPacket THEN <<>> ELSE <<kept>>)
Line     == file \o (IF at = "failed" THEN <<Junk>> ELSE OnTheWay)

(* In line, position x is the place of the packet em[k]: the packet is there *)
(* or Junk is, after all that was emitted before and before all that was     *)
(* emitted after it.                                                         *)
InPlace(line, em, x, k) ==
  /\ line[x] \in {em[k], Junk}
  /\ \A y \in 1 .. Len(line), l \in 1 .. Len(em) :
       line[y] = em[l] => (y < x <=> l < k)
Accounts(line, em) ==
  /\ \A k \in 1 .. Len(em) : \E x \in 1 .. Len(line) : InPlace(line, em, x, k)
  /\ \A x \in 1 .. Len(line) :
       line[x] # Junk => \E k \in 1 .. Len(em) : InPlace(line, em, x, k)
JunkIn(line) == {x \in 1 .. Len(line) : line[x] = Junk}

(* Through any number of failures the file has every packet that x264 has    *)
(* emitted once and in that order, but for those of a call that failed, with *)
(* stale bytes in their place, once for each failure and nowhere else.       *)
(* At the end every picture has been given to x264 but for one per failure,  *)
(* and has come out of it unless the flush itself has failed.                *)
FlushFailed == file # <<>> /\ file[Len(file)] = Junk
FileExact ==
  /\ Accounts(Line, emitted)
  /\ Cardinality(JunkIn(Line)) = fails
  /\ at = "done" => /\ received \in num - fails .. num
                    /\ Len(emitted) = received \/ FlushFailed

(* The program, once it runs, ends: the flush does, whatever the delay.      *)
ProgramEnds == at # "read" ~> at = "done"

-----------------------------------------------------------------------------
(* The invariant that is proved in ProgramProofs. *)

EncodeTypeOK ==
  /\ received \in Nat /\ emitted \in Seq(Nat) /\ stopped \in BOOLEAN
  /\ draining \in BOOLEAN /\ kept \in Nat \union {NoPacket}
  /\ at \in {"read", "send", "x264", "frame", "receive", "encoded", "failed", "done"}
  /\ caller \in {"send", "receive"} /\ num \in Nat /\ i \in Nat
  /\ data \in Seq(Nat) /\ file \in Seq(Nat \union {Junk}) /\ fails \in Nat

(* x264 gives out what it was given, nothing twice, so never more than that. *)
EmittedOnce ==
  /\ X264!Range(emitted) \subseteq 0 .. received - 1
  /\ Cardinality(X264!Range(emitted)) = Len(emitted)

(* How far the program is: x264 has the pictures up to this one, which is   *)
(* the flush after the last, but for one per failure.                        *)
InCall == at \in {"frame", "receive", "encoded", "failed"}
Past   == IF at = "done" THEN num ELSE i + (IF InCall /\ ~draining THEN 1 ELSE 0)
InStep ==
  /\ i <= num \/ at = "done"
  /\ at = "done" => i = num + 1
  /\ received \in Past - fails .. Past
  /\ draining <=> at = "done" \/ (Flushing /\ at \notin {"read", "send"})
  /\ caller = "receive" => draining
  /\ at # "receive" => kept = NoPacket
  /\ draining /\ at = "encoded" => Len(emitted) = received
  /\ at = "done" => Len(emitted) = received \/ FlushFailed

EncodeIInv == EncodeTypeOK /\ EmittedOnce /\ InStep /\ FileExact
=============================================================================
