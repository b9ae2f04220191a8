--------------------------------- MODULE Adts ---------------------------------
(***************************************************************************)
(* The headers of ffdemux/mpeg4-aac.c, byte by byte.  The fields that are  *)
(* or-ed into a byte do not overlap, so they are added; a byte is cut to   *)
(* eight bits where a field can be wider.                                  *)
(***************************************************************************)
EXTENDS Integers, Sequences

HeaderBytes == 7
Configs == [profile : 1 .. 30, freq : 0 .. 12, chan : 0 .. 7]  \* what the asserts let pass

Frequencies == <<96000, 88200, 64000, 48000, 44100, 32000, 24000, 22050,
                 16000, 12000, 11025, 8000, 7350>>
FrequencyFrom(rate) ==
  IF \E i \in 0 .. 12 : Frequencies[i + 1] = rate
    THEN CHOOSE i \in 0 .. 12 : Frequencies[i + 1] = rate ELSE -1

(* mpeg4_aac_adts_save: no header at all for a frame of 4096 bytes or more. *)
CanSave(len) == len < 4096

HighBits(len) == (len \div 2048) % 4
AdtsHeader(c, len) ==
  <<255, 241,
    ((c.profile - 1) * 64 + c.freq * 4 + ((c.chan \div 4) % 2)) % 256,
    (c.chan % 4) * 64 + HighBits(len),
    (len \div 8) % 256,
    (len % 8) * 32 + 31,
    252 + ((len \div 1024) % 4)>>

(* mpeg4_aac_adts_load *)
AdtsLoad(h) == [profile |-> ((h[3] \div 64) % 4) + 1,
                freq    |-> (h[3] \div 4) % 16,
                chan    |-> (h[3] % 2) * 4 + ((h[4] \div 64) % 4)]

(* mpeg4_aac_audio_specific_config_save and _load *)
AscHeader(c) == <<c.profile * 8 + ((c.freq \div 2) % 8),
                  (c.freq % 2) * 128 + (c.chan % 16) * 8>>
AscLoad(h)   == [profile |-> (h[1] \div 8) % 32,
                 freq    |-> (h[1] % 8) * 2 + ((h[2] \div 128) % 2),
                 chan    |-> (h[2] \div 8) % 16]

(* What a reader of the stream takes for the length of the frame: the field  *)
(* aac_frame_length, of thirteen bits.                                       *)
FrameLength(h) == (h[4] % 4) * 2048 + h[5] * 8 + ((h[6] \div 32) % 8)

(* mpeg4_aac_test: the two headers of a stream of AAC LC at 22050 Hz, mono.   *)
AdtsTest ==
  LET aac == [profile |-> 2, freq |-> 7, chan |-> 1]
      asc == <<19, 136>>
  IN  /\ AscLoad(asc) = aac /\ AscHeader(aac) = asc
      /\ AdtsHeader(aac, 1 + HeaderBytes) = <<255, 241, 92, 64, 1, 31, 252>>
      /\ AdtsLoad(AdtsHeader(aac, 1 + HeaderBytes)) = aac
      /\ FrequencyFrom(22050) = aac.freq
=============================================================================
