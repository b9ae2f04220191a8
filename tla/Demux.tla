--------------------------------- MODULE Demux --------------------------------
(***************************************************************************)
(* CffmuxFile of ffdemux/ffmuxfile.cpp as its hello.cpp drives it: it      *)
(* splits a file into its video and its audio, the audio with an ADTS      *)
(* header before each packet.  The time stamps it computes on the way are  *)
(* never used and are left out; so is what the bitstream filter does to    *)
(* the bytes of the video.                                                 *)
(***************************************************************************)
EXTENDS Adts

CONSTANTS
  Inputs,       \* [codec, packets] to try, with packets of [kind, size]
  CreateFails   \* Create may fail

(* The premise of the theorems. *)
DemuxAssumption ==
  \A f \in Inputs :
    /\ f.codec \in [profile : Int, rate : Nat, channels : Nat, frameSize : Nat]
    /\ f.packets \in Seq([kind : {"video", "audio", "other"}, size : Nat])

VARIABLES
  media,  \* the file
  pos,    \* packets read
  header, \* m_uADTS
  audio,  \* m_pAf: headers and the packets after them
  video,  \* m_pVf: packets
  handle, \* m_pInFmtCtx, the files and the filters: none, open, closed
  pc      \* new, demux, done, exit, crashed

demuxVars == <<media, pos, header, audio, video, handle, pc>>

(* Nothing initializes m_uADTS. *)
Garbage == {<<b, b, b, b, b, b, b>> : b \in {0, 255}}

DemuxInit ==
  /\ media \in Inputs /\ pos = 0 /\ header \in Garbage
  /\ audio = <<>> /\ video = <<>> /\ handle = "none" /\ pc = "new"

(* Create.  When it fails m_pInFmtCtx is NULL; main does not look, and       *)
(* av_read_frame dereferences it.                                            *)
Create == \E ok \in BOOLEAN :
  /\ pc = "new" /\ (~ok => CreateFails)
  /\ handle' = IF ok THEN "open" ELSE "closed"
  /\ pc' = IF ok THEN "demux" ELSE "crashed"
  /\ UNCHANGED <<media, pos, header, audio, video>>

-----------------------------------------------------------------------------
Packet == media.packets[pos + 1]
Reads(kind) == pc = "demux" /\ pos < Len(media.packets) /\ Packet.kind = kind

(* The configuration for the header, in bytes.  A frame of 2048 samples is   *)
(* of an AAC whose core runs at half the rate.                               *)
Codec   == media.codec
Halving == Codec.frameSize \div 1024
Rate    == Codec.rate \div Halving
Config  == [profile |-> Codec.profile % 256, freq |-> FrequencyFrom(Rate) % 256,
            chan |-> Codec.channels % 256]
Length  == Packet.size + HeaderBytes

(* A packet that is too long gets the header that was there before.          *)
ReadAudio ==
  /\ Reads("audio") /\ Halving # 0
  /\ CanSave(Length) => Config \in Configs
  /\ header' = IF CanSave(Length) THEN AdtsHeader(Config, Length) ELSE header
  /\ audio' = Append(audio, [head |-> header', size |-> Packet.size, no |-> pos + 1])
  /\ pos' = pos + 1
  /\ UNCHANGED <<media, video, handle, pc>>

(* A division by zero, or an assertion of mpeg4_aac_adts_save. *)
ReadUnsupported ==
  /\ Reads("audio")
  /\ Halving # 0 => (CanSave(Length) /\ Config \notin Configs)
  /\ pc' = "crashed"
  /\ UNCHANGED <<media, pos, header, audio, video, handle>>

ReadVideo ==
  /\ Reads("video")
  /\ video' = Append(video, [no |-> pos + 1])
  /\ pos' = pos + 1
  /\ UNCHANGED <<media, header, audio, handle, pc>>

ReadOther ==
  /\ Reads("other")
  /\ pos' = pos + 1
  /\ UNCHANGED <<media, header, audio, video, handle, pc>>

DemuxReturns ==
  /\ pc = "demux" /\ pos = Len(media.packets)
  /\ pc' = "done"
  /\ UNCHANGED <<media, pos, header, audio, video, handle>>
Destory ==
  /\ pc = "done"
  /\ handle' = "closed" /\ pc' = "exit"
  /\ UNCHANGED <<media, pos, header, audio, video>>
Over == pc \in {"exit", "crashed"} /\ UNCHANGED demuxVars

DemuxNext == Create \/ ReadAudio \/ ReadUnsupported \/ ReadVideo \/ ReadOther
               \/ DemuxReturns \/ Destory \/ Over
DemuxSpec == DemuxInit /\ [][DemuxNext]_demuxVars
-----------------------------------------------------------------------------
DemuxTypeOK ==
  /\ media \in Inputs /\ pos \in 0 .. Len(media.packets)
  /\ header \in Seq(0 .. 255) /\ Len(header) = HeaderBytes
  /\ audio \in Seq([head : Seq(0 .. 255), size : Nat, no : Nat])
  /\ video \in Seq([no : Nat])
  /\ handle \in {"none", "open", "closed"} /\ pc \in {"new", "demux", "done", "exit", "crashed"}

(* Every audio packet that a header can be made for has its own: the length  *)
(* of this packet, not of another one, the rate of the stream and its number *)
(* of channels as it is.  What the fields mean is left to HeaderDescribes.   *)
HeaderMatches == \A i \in 1 .. Len(audio) :
  CanSave(audio[i].size + HeaderBytes) =>
    /\ FrameLength(audio[i].head) = audio[i].size + HeaderBytes
    /\ AdtsLoad(audio[i].head).chan = Codec.channels % 256
    /\ Frequencies[AdtsLoad(audio[i].head).freq + 1] = Rate

(* The header before a packet describes it, as mpeg4-aac.h explains the      *)
(* fields: the object type, which is one more than the profile of libavcodec *)
(* (FF_PROFILE_AAC_LOW is 1, line 13 has 2 for AAC LC), the rate, the        *)
(* channels, of which configuration 7 has eight (line 15), and the length.   *)
ObjectType     == Codec.profile + 1
ChannelsOf(ch) == IF ch = 7 THEN 8 ELSE ch
HeaderDescribes == \A i \in 1 .. Len(audio) :
  LET aac == AdtsLoad(audio[i].head)
  IN  /\ aac.profile = ObjectType
      /\ Frequencies[aac.freq + 1] = Rate
      /\ ChannelsOf(aac.chan) = Codec.channels
      /\ FrameLength(audio[i].head) = audio[i].size + HeaderBytes
=============================================================================
