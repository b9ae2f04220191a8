------------------------------- MODULE MuxFile -------------------------------
(***************************************************************************)
(* CffmuxFile of ffmuxfile/ffmuxfile.cpp, which muxes the audio of one     *)
(* file and the video of another into an mp4, as hello.cpp drives it:      *)
(* Create, Muxer, Destory, whatever they return.  The packets it makes go  *)
(* through the interleaving of libavformat, module Interleaver.            *)
(*                                                                         *)
(* An input file is the sequence of packets av_read_frame would return;    *)
(* only those of the chosen stream are its own.  Times are integers in     *)
(* the time base of a stream, a time base is a number of common units.     *)
(***************************************************************************)
EXTENDS Interleaver

CONSTANTS
  Inputs,      \* the inputs to try: [h264, video, audio], two files and a mode
  VideoIn,     \* time base of the video input
  AudioIn,     \* time base of the audio input
  FrameUnits,  \* 1 / r_frame_rate, in common units
  FrameSize,   \* samples in an audio frame; a sample is a tick of the output
  Failures     \* what may fail: "create", "header"

(* A video file is read in order of dts, each frame two ticks of the output  *)
(* or more after the last one, and none is presented before it is decoded;   *)
(* what is read as raw H.264 has no time stamps, but for a dts of 0 at first. *)
VideoPackets == [own : BOOLEAN, pts : Int \cup {NoTs}, dts : Int \cup {NoTs}]
Plays(file) == \A i \in DOMAIN file : file[i].own =>
  /\ file[i].pts \in Int /\ file[i].dts \in Int /\ file[i].dts <= file[i].pts
  /\ \A k \in 1 .. i - 1 : file[k].own =>
       (file[i].dts - file[k].dts) * VideoIn >= 2 * Tick[1]
IsRaw(file) == \A i \in DOMAIN file : file[i].own => file[i].dts \in {NoTs, 0}

(* The time bases of the mp4 are fine: those of video have at least 10000    *)
(* ticks a second (mov_init), those of audio are samples.                    *)
ASSUME MuxFileAssumption ==
  /\ Streams = {0, 1}
  /\ VideoIn \in Nat \ {0} /\ AudioIn \in Nat \ {0}
  /\ FrameUnits \in Nat \ {0} /\ FrameSize \in Nat \ {0}
  /\ FrameUnits >= VideoIn + 2 * Tick[1] /\ FrameSize * Tick[0] >= AudioIn + 2 * Tick[0]
  /\ MaxDelta > 0 => MaxDelta >= Tick[0] + Tick[1]
  /\ \A f \in Inputs :
       /\ f.h264 \in BOOLEAN /\ f.video \in Seq(VideoPackets) /\ f.audio \in Seq([own : BOOLEAN])
       /\ IF f.h264 THEN IsRaw(f.video) ELSE Plays(f.video)

Audio == 0   \* m_sAudioOst.output_index: addStream is called for it first
Video == 1   \* m_sVideoOst.output_index

VARIABLES
  h264,         \* m_bH264Video
  vfile, afile, \* what is left of the two inputs
  v, a,         \* the OutputStreams: pkt, next_pts, last_pts, offset, counts
  readV, readA, \* m_bReadVideo, m_bReadAudio
  mpc,          \* where the program is
  handle,       \* of m_pOutFmtCtx, its pb, the inputs and filters: none, open, freed
  sent,         \* history: packets given to av_interleaved_write_frame
  input,        \* history: the two files and the mode
  failed        \* history: Create or the header has failed

streamVars == <<vfile, afile, v, a, readV, readA>>
fileVars   == <<h264, streamVars, mpc, handle, sent, input, failed>>

(* XX_MAX_PTS, beyond every time stamp of the model. *)
MaxPts == 100000

(* av_rescale_q: to the nearest, halves away from zero. *)
RoundDiv(n, d) == IF n >= 0 THEN (2 * n + d) \div (2 * d) ELSE -((d - 2 * n) \div (2 * d))
Rescale(t, from, to) == IF t = NoTs THEN NoTs ELSE RoundDiv(t * from, to)

(* An OutputStream before its first packet; src, a history, is the place of  *)
(* its packet in the input.                                                  *)
NewVideo == [src |-> 0, pts |-> 0, dts |-> 0, next |-> 0, last |-> 0, offset |-> 0, count |-> 0]
NewAudio == [src |-> 0, pts |-> 0, next |-> 0, last |-> 0, count |-> 0]

MuxInit ==
  /\ Init
  /\ input \in Inputs
  /\ h264 = input.h264 /\ vfile = input.video /\ afile = input.audio
  /\ v = NewVideo /\ a = NewAudio
  /\ readV = FALSE /\ readA = FALSE
  /\ mpc = "new" /\ handle = "none" /\ sent = <<>> /\ failed = FALSE

-----------------------------------------------------------------------------
(* The loops around av_read_frame: packets of other streams are freed.       *)
OwnIn(file)   == {i \in DOMAIN file : file[i].own}
HasOwn(file)  == OwnIn(file) # {}
FirstOwn(file) == CHOOSE i \in OwnIn(file) : \A k \in OwnIn(file) : i <= k
RestDropsLast(file) == IF HasOwn(file) THEN SubSeq(file, FirstOwn(file) + 1, Len(file) - 1) ELSE <<>>
Rest(file)    == IF HasOwn(file) THEN SubSeq(file, FirstOwn(file) + 1, Len(file)) ELSE <<>>
NextOwn(file) == file[FirstOwn(file)]

(* initVideo and initAudio. *)
InitVideo ==
  IF ~HasOwn(vfile) THEN [v EXCEPT !.next = MaxPts]
  ELSE LET p == NextOwn(vfile) IN
       [v EXCEPT !.src = FirstOwn(vfile), !.next = 0, !.pts = 0,
                 !.dts = IF h264 THEN p.dts ELSE p.dts - p.pts,
                 !.offset = IF h264 THEN @ ELSE p.pts,
                 !.count = IF h264 THEN 1 ELSE 0]
InitAudio ==
  IF ~HasOwn(afile) THEN [a EXCEPT !.next = MaxPts]
  ELSE [a EXCEPT !.src = FirstOwn(afile), !.next = 0, !.pts = 0, !.count = FrameSize]

NextDrifts ==
  LET t == v.pts + Rescale(1, FrameUnits, VideoIn)
  IN  [v EXCEPT !.src = @ + FirstOwn(vfile), !.next = t, !.pts = t, !.dts = t]

(* The reading half of writeVideoFrame and writeAudioFrame. *)
NextVideo ==
  LET p == NextOwn(vfile)
      t == IF h264 THEN Rescale(v.count, FrameUnits, VideoIn) ELSE p.pts - v.offset
  IN  [v EXCEPT !.src = @ + FirstOwn(vfile), !.next = t, !.pts = t,
                !.dts = IF h264 THEN t ELSE t - (p.pts - p.dts),
                !.count = IF h264 THEN @ + 1 ELSE @]
NextAudio ==
  LET t == Rescale(a.count, Tick[Audio], AudioIn)
  IN  [a EXCEPT !.src = @ + FirstOwn(afile), !.next = t, !.pts = t, !.count = @ + FrameSize]

(* Create.  When it fails it has called Destory. *)
Create == \E ok \in BOOLEAN :
  /\ mpc = "new" /\ (~ok => "create" \in Failures)
  /\ v' = InitVideo /\ a' = InitAudio
  /\ vfile' = Rest(vfile) /\ afile' = Rest(afile)
  /\ readV' = TRUE /\ readA' = TRUE
  /\ handle' = IF ok THEN "open" ELSE "freed"
  /\ mpc' = "created" /\ failed' = ~ok
  /\ UNCHANGED <<h264, sent, input, muxVars>>

(* Destory closes the bitstream filters and the context and forgets neither, *)
(* so it must not be called twice.                                           *)
DestoryInto(where) ==
  IF handle = "freed" THEN mpc' = "crashed" /\ handle' = handle
                      ELSE mpc' = where /\ handle' = "freed"

(* Muxer, up to its loop: avformat_write_header. *)
WriteHeader == \E ok \in BOOLEAN :
  /\ mpc = "created" /\ (~ok => "header" \in Failures)
  /\ IF handle = "freed" THEN mpc' = "crashed" /\ handle' = handle
     ELSE IF ok THEN mpc' = "loop" /\ handle' = handle
     ELSE DestoryInto("muxed")
  /\ failed' = (failed \/ ~ok)
  /\ UNCHANGED <<h264, streamVars, sent, input, muxVars>>

VideoFirst == readV

(* The stream that is behind goes first: av_compare_ts on next_pts. *)
VideoIsNext == readV /\ (~readA \/ v.next * VideoIn <= a.next * AudioIn)

(* A packet is bumped past the one before it, then offered to the muxer;     *)
(* compute_muxer_pkt_fields turns away a dts that does not increase and a    *)
(* pts before the dts, and Muxer does not look at the result.                *)
Bump(pts, lastPts) == IF pts <= lastPts THEN lastPts + 1 ELSE pts
Give(s, src, pts, dts) ==
  LET d  == IF dts = NoTs THEN pts ELSE dts
      ok == Accepts(s, d) /\ pts >= d
  IN  /\ IF ok THEN Submit(s, d) ELSE UNCHANGED muxVars
      /\ sent' = Append(sent, [st |-> s, src |-> src, pts |-> pts, ok |-> ok])

WriteVideo ==
  /\ mpc = "loop" /\ pc = "idle" /\ VideoIsNext
  /\ LET pts == Bump(Rescale(v.pts, VideoIn, Tick[Video]), v.last)
     IN  /\ Give(Video, v.src, pts, Rescale(v.dts, VideoIn, Tick[Video]))
         /\ v' = [v EXCEPT !.last = pts]
  /\ mpc' = "videoSent"
  /\ UNCHANGED <<h264, vfile, afile, a, readV, readA, handle, input, failed>>

ReadVideo ==
  /\ mpc = "videoSent" /\ pc = "idle"
  /\ readV' = HasOwn(vfile)
  /\ v' = IF HasOwn(vfile) THEN NextVideo ELSE v
  /\ vfile' = Rest(vfile)
  /\ mpc' = "loop"
  /\ UNCHANGED <<h264, afile, a, readA, handle, sent, input, failed, muxVars>>

WriteAudio ==
  /\ mpc = "loop" /\ pc = "idle" /\ readA /\ ~VideoIsNext
  /\ LET pts == Bump(Rescale(a.pts, AudioIn, Tick[Audio]), a.last)
     IN  /\ Give(Audio, a.src, pts, pts)
         /\ a' = [a EXCEPT !.last = pts]
  /\ mpc' = "audioSent"
  /\ UNCHANGED <<h264, vfile, afile, v, readV, readA, handle, input, failed>>

ReadAudio ==
  /\ mpc = "audioSent" /\ pc = "idle"
  /\ readA' = HasOwn(afile)
  /\ a' = IF HasOwn(afile) THEN NextAudio ELSE a
  /\ afile' = Rest(afile)
  /\ mpc' = "loop"
  /\ UNCHANGED <<h264, vfile, v, readV, handle, sent, input, failed, muxVars>>

WriteTrailer ==
  /\ mpc = "loop" /\ ~readV /\ ~readA
  /\ Trailer
  /\ mpc' = "trailing"
  /\ UNCHANGED <<h264, streamVars, handle, sent, input, failed>>
MuxerReturns ==
  /\ mpc = "trailing" /\ pc = "done"
  /\ mpc' = "muxed"
  /\ UNCHANGED <<h264, streamVars, handle, sent, input, failed, muxVars>>

(* The work of libavformat inside a call. *)
MuxWork == Work /\ UNCHANGED fileVars

Destory ==
  /\ mpc = "muxed"
  /\ DestoryInto("exit")
  /\ UNCHANGED <<h264, streamVars, sent, input, failed, muxVars>>

Over == mpc \in {"exit", "crashed"} /\ UNCHANGED <<fileVars, muxVars>>

Step == \/ Create \/ WriteHeader \/ WriteVideo \/ ReadVideo \/ WriteAudio \/ ReadAudio
        \/ WriteTrailer \/ MuxerReturns \/ MuxWork \/ Destory
MuxNext == Step \/ Over
MuxSpec == MuxInit /\ [][MuxNext]_<<fileVars, muxVars>>

-----------------------------------------------------------------------------
(* What was sent for a stream, the blank packet of an empty input aside, and *)
(* what is own of a file up to a place of it.                                *)
SentOf(s)        == {i \in DOMAIN sent : sent[i].st = s /\ sent[i].src > 0}
OwnUpTo(file, n) == {i \in OwnIn(file) : i <= n}

(* Every packet of either input is offered once, in order, and none is       *)
(* turned away by the muxer, whose result nobody looks at: without failures  *)
(* all of them have been written at the end.                                 *)
FramesKept ==
  /\ \A i \in DOMAIN sent : sent[i].ok
  /\ \A s \in Streams : \A i, j \in SentOf(s) : i < j => sent[i].src < sent[j].src
  /\ (mpc = "muxed" /\ ~failed /\ lost = {}) =>
       /\ {sent[i].src : i \in SentOf(Video)} = OwnIn(input.video)
       /\ {sent[i].src : i \in SentOf(Audio)} = OwnIn(input.audio)
       /\ Len(out) = Len(sent)

(* The packets of the file are in order of time even where the interleaving  *)
(* forces them out, because the stream that is behind is muxed first.  (The  *)
(* blank packet of an input without frames has time 0 and is sent last.)     *)
BothOwn     == HasOwn(input.video) /\ HasOwn(input.audio)
FileOrdered == BothOwn =>
  \A i, j \in 1 .. Len(out) : i < j => Time(out[i].pkt) <= Time(out[j].pkt)

Near(x, y, e) == x - y <= e /\ y - x <= e

(* A video packet keeps the distance it had from the first one, or from the  *)
(* count of frames, to within half a tick of the input and one of the output. *)
VideoWanted(n) ==
  LET file == input.video
  IN  IF h264 THEN (Cardinality(OwnUpTo(file, n)) - 1) * FrameUnits
              ELSE (file[n].pts - file[FirstOwn(file)].pts) * VideoIn
VideoTimesKept == \A i \in SentOf(Video) :
  Near(2 * (sent[i].pts * Tick[Video]), 2 * VideoWanted(sent[i].src), VideoIn + 2 * Tick[Video])

(* Audio is timed by the samples that came before: rounding never adds up.   *)
AudioWanted(n) == (Cardinality(OwnUpTo(input.audio, n)) - 1) * FrameSize * Tick[Audio]
AudioTimesKept == \A i \in SentOf(Audio) :
  Near(2 * (sent[i].pts * Tick[Audio]), 2 * AudioWanted(sent[i].src), AudioIn + 2 * Tick[Audio])

(* Frames are presented in the order the input presents them in.             *)
PresentationKept == \A i, j \in SentOf(Video) :
  LET file == input.video
  IN  (sent[i].ok /\ sent[j].ok /\ file[sent[i].src].pts < file[sent[j].src].pts)
        => sent[i].pts < sent[j].pts

(* No packet's time drifts, of either stream. *)
TimesKept == VideoTimesKept /\ AudioTimesKept

-----------------------------------------------------------------------------
(* The inductive invariant behind them.  A stream's packet is pending, or it *)
(* is the one that was sent last.                                            *)
PendingV == readV /\ mpc # "videoSent"
PendingA == readA /\ mpc # "audioSent"

(* What is left of a file, the packet at place n being held. *)
Left(rest, file, n) ==
  \/ rest = SubSeq(file, n + 1, Len(file))
  \/ rest = <<>> /\ OwnUpTo(file, n) = OwnIn(file)

MuxPhases ==
  /\ input \in Inputs /\ h264 = input.h264
  /\ mpc \in {"new", "created", "loop", "videoSent", "audioSent", "trailing",
              "muxed", "exit", "crashed"}
  /\ mpc = "new" => v = NewVideo /\ a = NewAudio /\ vfile = input.video /\ afile = input.audio
  /\ mpc \in {"new", "created"} =>
       pc = "idle" /\ sent = <<>> /\ out = <<>> /\ cur = [s \in Streams |-> NoTs]
  /\ mpc = "loop" => pc = "idle"
  /\ mpc \in {"videoSent", "audioSent"} => pc \in {"idle", "drain"}
  /\ mpc = "videoSent" => readV
  /\ mpc = "audioSent" => readA
  /\ mpc = "trailing" => pc \in {"trailer", "done"}
  /\ pc \in {"trailer", "done"} => mpc \in {"trailing", "muxed", "exit", "crashed"} /\ ~readV /\ ~readA
  /\ pc # "flush"
  /\ mpc = "muxed" /\ ~failed => pc = "done"

(* Each packet is accounted for in numbers. *)
MuxCounts ==
  /\ lost = {} => Len(out) + Len(buf) = Len(sent)
  /\ pc = "done" => buf = <<>> \/ lost # {}

(* The video packet that is held: its place, its times, and its dts as the   *)
(* muxer gets it, after all it has got before.                               *)
VideoPlace ==
  LET file == input.video IN
  /\ v \in [src : Nat, pts : Int, dts : Int \cup {NoTs}, next : Int, last : Int,
            offset : Int, count : Nat]
  /\ ~readV => OwnUpTo(file, v.src) = OwnIn(file)
  /\ IF ~HasOwn(file) THEN v.src = 0 /\ v.pts = 0 /\ v.dts = 0 /\ vfile = <<>>
     ELSE /\ v.src \in OwnIn(file) /\ Left(vfile, file, v.src)
          /\ v.next = v.pts
VideoClock ==
  LET file == input.video IN
  IF h264
    THEN /\ v.count = Cardinality(OwnUpTo(file, v.src))
         /\ v.pts = Rescale(v.count - 1, FrameUnits, VideoIn)
         /\ v.dts = v.pts \/ (v.src = FirstOwn(file) /\ v.dts = NoTs)
    ELSE /\ v.offset = file[FirstOwn(file)].pts
         /\ v.pts = file[v.src].pts - v.offset
         /\ v.dts = file[v.src].dts - v.offset
VideoDts == IF v.dts = NoTs THEN 1 ELSE Rescale(v.dts, VideoIn, Tick[Video])
VideoDue ==
  IF ~PendingV THEN cur[Video] = VideoDts
  ELSE IF ~HasOwn(input.video) \/ v.src = FirstOwn(input.video)
    THEN v.last = 0 /\ cur[Video] = NoTs
  ELSE cur[Video] \in Int /\ cur[Video] < VideoDts
VideoHeld == VideoPlace /\ VideoDue /\ (HasOwn(input.video) => VideoClock)

AudioHeld ==
  LET file == input.audio IN
  /\ a \in [src : Nat, pts : Int, next : Int, last : Int, count : Nat]
  /\ ~readA => OwnUpTo(file, a.src) = OwnIn(file)
  /\ IF ~HasOwn(file) THEN a.src = 0 /\ a.pts = 0 /\ afile = <<>>
     ELSE /\ a.src \in OwnIn(file) /\ Left(afile, file, a.src)
          /\ a.next = a.pts
          /\ a.count = Cardinality(OwnUpTo(file, a.src)) * FrameSize
          /\ a.pts = Rescale(a.count - FrameSize, Tick[Audio], AudioIn)
  /\ IF cur[Audio] = NoTs THEN PendingA /\ a.last = 0 ELSE cur[Audio] = a.last

(* What has been sent: all that is own, up to what is held. *)
SentSoFar(s, file, n, pending) ==
  /\ {sent[i].src : i \in SentOf(s)} = OwnUpTo(file, n) \ (IF pending THEN {n} ELSE {})
  /\ \A i, j \in SentOf(s) : i < j => sent[i].src < sent[j].src

MuxInv ==
  /\ IInv /\ MuxPhases /\ MuxCounts
  /\ sent \in Seq([st : Streams, src : Nat, pts : Int, ok : {TRUE}])
  /\ mpc # "new" =>
       /\ VideoHeld /\ SentSoFar(Video, input.video, v.src, PendingV)
       /\ AudioHeld /\ SentSoFar(Audio, input.audio, a.src, PendingA)

(* Without B-frames, which lose their order, a frame is presented when it is *)
(* decoded, and a time stamp is only bumped for the first packet.            *)
NoBFrames == \A f \in Inputs : ~f.h264 =>
  \A i \in OwnIn(f.video) : f.video[i].pts = f.video[i].dts
Unbumped(sentAt, pts, from, to, pending) ==
  LET due == Rescale(pts, from, to) IN
  IF pending THEN sentAt < due \/ (sentAt = 0 /\ pts = 0) ELSE sentAt <= due + 1
VideoTimely == (mpc # "new" /\ HasOwn(input.video)) =>
  Unbumped(v.last, v.pts, VideoIn, Tick[Video], PendingV)
AudioTimely == (mpc # "new" /\ HasOwn(input.audio)) =>
  Unbumped(a.last, a.pts, AudioIn, Tick[Audio], PendingA)
TimesInv == MuxInv /\ TimesKept /\ VideoTimely /\ AudioTimely

(* Neither stream gets ahead of the other, and neither may still send what   *)
(* precedes the packet written last.                                         *)
NotAheadOf(s, next, in) == cur[s] # NoTs => (cur[s] - 1) * Tick[s] <= next * in
NotBefore(t, s, next, in) ==
  \/ cur[s] # NoTs /\ t <= cur[s] * Tick[s]
  \/ t + Tick[s] <= next * in
Level ==
  /\ readA => NotAheadOf(Video, a.next, AudioIn)
  /\ readV => NotAheadOf(Audio, v.next, VideoIn)
Floor == out # <<>> =>
  LET t == Time(out[Len(out)].pkt) IN
  /\ \A i \in 1 .. Len(buf) : t <= Time(buf[i])
  /\ readV => NotBefore(t, Video, v.next, VideoIn)
  /\ readA => NotBefore(t, Audio, a.next, AudioIn)
OrderInv ==
  /\ TimesInv /\ FileOrdered
  /\ (BothOwn /\ mpc # "new") => Level /\ Floor
=============================================================================
