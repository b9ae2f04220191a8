------------------------------ MODULE MCMuxFile ------------------------------
(* Small files for TLC. *)
EXTENDS MuxFile
Ticks == [s \in Streams |-> IF s = 0 THEN 1 ELSE 2]
Own(t, d) == [own |-> TRUE, pts |-> t, dts |-> d]
Foreign   == [own |-> FALSE, pts |-> 0, dts |-> 0]
(* One to four frames, at any of a few times, with an audio packet between. *)
Times(n)  == {t \in [1 .. n -> 3 .. 9] : \A i \in 1 .. n - 1 : t[i] < t[i + 1]}
Plain(n)  == {[i \in 1 .. n |-> Own(t[i], t[i])] : t \in Times(n)}
Mixed(n)  == {[i \in 1 .. n + 1 |-> IF i = 2 THEN Foreign ELSE IF i = 1 THEN f[1] ELSE f[i - 1]] : f \in Plain(n)}
PlainVideo == UNION {Plain(n) \cup Mixed(n) : n \in 1 .. 4}
RawVideo   == {[i \in 1 .. n |-> Own(NoTs, IF i = 1 THEN d ELSE NoTs)] : n \in 1 .. 4, d \in {NoTs, 0}}
Empty      == {<<Foreign>>, <<>>}
(* I P B B: coded order is not the order of presentation. *)
Reordered  == <<Own(2, 0), Own(8, 2), Own(4, 4), Own(6, 6)>>
AudioFile(n) == [i \in 1 .. n |-> [own |-> TRUE]]
MixedAudio == <<[own |-> FALSE], [own |-> TRUE], [own |-> FALSE], [own |-> TRUE]>>
AudioFiles == {AudioFile(n) : n \in {1, 3, 5}} \cup {MixedAudio}
AllInputs  == [h264 : {FALSE}, video : PlainVideo, audio : AudioFiles]
                \cup [h264 : {TRUE}, video : RawVideo, audio : AudioFiles]
                \cup [h264 : {FALSE}, video : Empty \cup Plain(1), audio : {AudioFile(n) : n \in 0 .. 2}]
                \cup [h264 : {FALSE}, video : Empty, audio : {AudioFile(5)}]
                \cup [h264 : {FALSE}, video : Plain(4), audio : {AudioFile(0)}]
WithBFrames == [h264 : {FALSE}, video : {Reordered}, audio : {AudioFile(n) : n \in 0 .. 2}]
=============================================================================
