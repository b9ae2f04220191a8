--------------------------- MODULE LookaheadProofs ---------------------------
(***************************************************************************)
(* The safety of the lookahead pipeline, for every value of its            *)
(* parameters: IInv is inductive, and the properties follow from it.       *)
(***************************************************************************)
EXTENDS Lookahead, ListFacts, SequenceTheorems, FiniteSetTheorems, TLAPS

(* A sequence of whole minigops holds its first one, and what follows it is *)
(* again a sequence of whole minigops.                                      *)
LEMMA FirstMinigop ==
  ASSUME NEW s \in Seq(Frame), s # <<>>, WholeMinigops(s)
  PROVE  /\ s[1].bf \in 0 .. BFrames
         /\ s[1].bf + 1 \in 1 .. Len(s)
         /\ WholeMinigops(SubSeq(s, s[1].bf + 2, Len(s)))
<1>1. PICK heads \in SUBSET (1 .. Len(s)) :
        1 \in heads /\ \A h \in heads : h + s[h].bf + 1 \in heads \cup {Len(s) + 1}
  BY DEF WholeMinigops
<1>2. Len(s) \in Nat /\ \A i \in 1 .. Len(s) : s[i].bf \in 0 .. BFrames
  <2>1. Len(s) \in Nat /\ \A i \in 1 .. Len(s) : s[i] \in Frame
    BY LenProperties, ElementOfSeq
  <2> QED BY <2>1 DEF Frame
<1> DEFINE n == s[1].bf + 1
           t == SubSeq(s, n + 1, Len(s))
           rest == {h \in 1 .. Len(t) : h + n \in heads}
<1>3. n \in 1 .. Len(s)
  BY <1>1, <1>2, ParamAssumption
<1>4. t \in Seq(Frame) /\ Len(t) = Len(s) - n /\ \A i \in 1 .. Len(t) : t[i] = s[n + i]
  <2> HIDE DEF n
  <2> QED BY <1>2, <1>3, Cut
<1>5. n + 1 \in heads \cup {Len(s) + 1}
  BY <1>1, <1>2, ParamAssumption
<1>6. t # <<>> => 1 \in rest
  <2> HIDE DEF n, t
  <2> QED BY <1>2, <1>3, <1>4, <1>5, EmptySeq
<1>7. \A h \in rest : h + t[h].bf + 1 \in rest \cup {Len(t) + 1}
  <2> TAKE h \in rest
  <2>1. t[h] = s[n + h] /\ (n + h) + s[n + h].bf + 1 \in heads \cup {Len(s) + 1}
    <3> HIDE DEF n, t
    <3> QED BY <1>1, <1>2, <1>3, <1>4
  <2>2. s[n + h].bf \in Nat
    <3> HIDE DEF n, t
    <3> QED BY <1>2, <1>3, <1>4, ParamAssumption
  <2>3. h \in 1 .. Len(t) /\ n \in 1 .. Len(s) /\ Len(t) = Len(s) - n
    BY <1>3, <1>4
  <2>6. t[h].bf = s[n + h].bf
    BY <2>1
  <2>4. CASE (n + h) + s[n + h].bf + 1 = Len(s) + 1
    <3> HIDE DEF n, t, rest
    <3>1. h + t[h].bf + 1 = Len(t) + 1
      <4> DEFINE b == s[n + h].bf
      <4>1. n \in Nat /\ h \in Nat /\ b \in Nat /\ (n + h) + b + 1 = Len(s) + 1
        BY <1>2, <2>2, <2>3, <2>4
      <4> HIDE DEF b
      <4>2. h + b + 1 = Len(t) + 1
        BY <1>2, <2>3, <4>1
      <4> QED BY <2>6, <4>2 DEF b
    <3> QED BY <3>1
  <2>5. CASE (n + h) + s[n + h].bf + 1 \in heads
    <3>1. (h + t[h].bf + 1) + n \in heads /\ h + t[h].bf + 1 \in 1 .. Len(t)
      <4> HIDE DEF n, t, rest
      <4> QED BY <1>2, <2>6, <2>2, <2>3, <2>5
    <3> QED BY <3>1
  <2> HIDE DEF n, t, rest
  <2> QED BY <2>1, <2>4, <2>5, Zenon
<1>8. WholeMinigops(t)
  <2> HIDE DEF n, t
  <2> QED BY <1>6, <1>7 DEF WholeMinigops
<1> QED BY <1>2, <1>3, <1>8, ParamAssumption

(* Appending one whole minigop leaves whole minigops. *)
LEMMA AppendMinigop ==
  ASSUME NEW s \in Seq(Frame), WholeMinigops(s),
         NEW t \in Seq(Frame), t # <<>>, t[1].bf + 1 = Len(t)
  PROVE  WholeMinigops(s \o t)
<1>1. PICK heads \in SUBSET (1 .. Len(s)) :
        /\ s # <<>> => 1 \in heads
        /\ \A h \in heads : h + s[h].bf + 1 \in heads \cup {Len(s) + 1}
  BY DEF WholeMinigops
<1> DEFINE u == s \o t
           new == heads \cup {Len(s) + 1}
<1>2. /\ Len(s) \in Nat /\ Len(t) \in Nat \ {0}
      /\ Len(u) = Len(s) + Len(t)
      /\ \A i \in 1 .. Len(s) + Len(t) : u[i] = IF i <= Len(s) THEN s[i] ELSE t[i - Len(s)]
  BY LenProperties, ConcatProperties, EmptySeq
<1> HIDE DEF u
<1>3. new \in SUBSET (1 .. Len(u))
  <2>1. 1 .. Len(s) \subseteq 1 .. Len(u) /\ Len(s) + 1 \in 1 .. Len(u)
    BY <1>2
  <2> QED BY <2>1
<1>4. 1 \in new
  BY <1>1, <1>2, EmptySeq
<1>5. ASSUME NEW h \in new
      PROVE  h + u[h].bf + 1 \in new \cup {Len(u) + 1}
  <2>1. CASE h \in heads
    BY <1>1, <1>2, <2>1
  <2>2. CASE h = Len(s) + 1
    <3>1. u[h] = t[1]
      BY <1>2, <2>2
    <3>2. t[1] \in Frame
      BY <1>2, ElementOfSeq
    <3>3. t[1].bf \in 0 .. BFrames
      BY <3>2 DEF Frame
    <3>4. u[h].bf = t[1].bf
      BY <3>1
    <3>5. t[1].bf \in Nat
      BY <3>3, ParamAssumption
    <3>6. t[1].bf = Len(t) - 1
      BY <1>2, <3>5
    <3>7. h + u[h].bf + 1 = Len(u) + 1
      BY <1>2, <2>2, <3>4, <3>6
    <3> QED BY <3>7
  <2> QED BY <2>1, <2>2
<1>6. WholeMinigops(u)
  <2> HIDE DEF new
  <2> QED BY <1>3, <1>4, <1>5 DEF WholeMinigops
<1> QED BY <1>6 DEF u

-----------------------------------------------------------------------------
LEMMA Params ==
  /\ Warmup = SliceLen + SyncLookahead + Vfr
  /\ Warmup \in Nat
  /\ IfbufMax \in Nat /\ NextMax \in Nat /\ OfbufMax \in Nat /\ CurrentMax \in Nat
  /\ Warmup + 1 < NextMax /\ Warmup + 1 < OfbufMax
  /\ BFrames + 1 <= CurrentMax
  /\ SliceLen + Vfr \in Nat
BY ParamAssumption DEF Warmup, Delay, IfbufMax, NextMax, OfbufMax, CurrentMax

LEMMA Phase == ASSUME NEW p \in Threads PROVE NextPhase(p) \in Threads
<1>1. ThreadFrames \in Nat \ {0, 1} /\ p \in Nat
  BY ParamAssumption DEF Threads
<1>2. (p + 1) % ThreadFrames \in 0 .. ThreadFrames - 1
  BY <1>1
<1> QED BY <1>2 DEF NextPhase, Threads

(* The lengths and the types of the lists, which is all that most steps need. *)
LEMMA Lengths ==
  ASSUME TypeOK
  PROVE  /\ Len(ifbuf) \in Nat /\ Len(next) \in Nat
         /\ Len(ofbuf) \in Nat /\ Len(current) \in Nat
         /\ input \in Nat
BY LenProperties, ParamAssumption DEF TypeOK

(* A step that leaves every queue alone. *)
LEMMA QueuesUnchanged ==
  ASSUME IInv, UNCHANGED <<ifbuf, next, ofbuf, current>>
  PROVE  ListsFit' /\ WholeMinigops(ofbuf)' /\ Queued' = Queued
BY DEF IInv, ListsFit, WholeMinigops, Queued, IfbufMax, NextMax, OfbufMax, CurrentMax

LEMMA InitHolds == Init => IInv
<1> SUFFICES ASSUME Init PROVE IInv
  OBVIOUS
<1>1. TypeOK
  <2>1. <<>> \in Seq(Frame) /\ <<>> \in Seq(Numbers)
    BY EmptySeq
  <2>2. 0 \in Threads /\ 0 \in 0 .. MaxInput /\ 0 \in 0 .. BFrames
    BY ParamAssumption DEF Threads
  <2>3. slot \in [Threads -> Frame]
    BY ParamAssumption, <2>2 DEF Init, NoFrame, Frame, Numbers
  <2> QED BY <2>1, <2>2, <2>3 DEF Init, TypeOK
<1>2. ListsFit /\ QueuedBound
  BY Params, EmptySeq DEF Init, ListsFit, QueuedBound, Queued, Calling, Putting
<1>3. WholeMinigops(ofbuf)
  BY EmptySeq DEF Init, WholeMinigops
<1>4. LaPhases /\ EncPhases /\ JobPhases
  BY ParamAssumption, EmptySeq, Phase
     DEF Init, LaPhases, EncPhases, JobPhases, Calling, Putting, Oldest, Threads
<1> QED BY <1>1, <1>2, <1>3, <1>4 DEF IInv

-----------------------------------------------------------------------------
(* The steps that leave the queues alone. *)

LEMMA LaLoopStep ==
  ASSUME IInv, LaLoop
  PROVE  IInv'
<1> USE DEF LaLoop, encVars
<1>1. TypeOK'
  BY ParamAssumption, Phase DEF IInv, TypeOK
<1>2. ListsFit' /\ WholeMinigops(ofbuf)'
  BY QueuesUnchanged
<1>3. QueuedBound'
  BY QueuesUnchanged, Lengths, Params DEF IInv, QueuedBound, Calling, Putting, Warmup, Delay
<1>4. LaPhases'
  BY DEF IInv, TypeOK, LaPhases, EncPhases, Putting
<1>5. EncPhases'
  BY DEF IInv, TypeOK, EncPhases, LaPhases, Calling, Putting, Warmup, Delay
<1>6. JobPhases'
  BY Phase DEF IInv, TypeOK, JobPhases, EncPhases, Calling, Putting, Oldest, Warmup, Delay
<1> QED BY <1>1, <1>2, <1>3, <1>4, <1>5, <1>6 DEF IInv

LEMMA LaIfWokenStep ==
  ASSUME IInv, LaIfWoken
  PROVE  IInv'
<1> USE DEF LaIfWoken, encVars
<1>1. TypeOK'
  BY ParamAssumption, Phase DEF IInv, TypeOK
<1>2. ListsFit' /\ WholeMinigops(ofbuf)'
  BY QueuesUnchanged
<1>3. QueuedBound'
  BY QueuesUnchanged, Lengths, Params DEF IInv, QueuedBound, Calling, Putting, Warmup, Delay
<1>4. LaPhases'
  BY DEF IInv, TypeOK, LaPhases, EncPhases, Putting
<1>5. EncPhases'
  BY DEF IInv, TypeOK, EncPhases, LaPhases, Calling, Putting, Warmup, Delay
<1>6. JobPhases'
  BY Phase DEF IInv, TypeOK, JobPhases, EncPhases, Calling, Putting, Oldest, Warmup, Delay
<1> QED BY <1>1, <1>2, <1>3, <1>4, <1>5, <1>6 DEF IInv

LEMMA LaExitStep ==
  ASSUME IInv, LaExit
  PROVE  IInv'
<1> USE DEF LaExit, EncAfterFill
<1>1. TypeOK'
  BY ParamAssumption, Phase DEF IInv, TypeOK
<1>2. ListsFit' /\ WholeMinigops(ofbuf)'
  BY QueuesUnchanged
<1>3. QueuedBound'
  BY QueuesUnchanged, Lengths, Params DEF IInv, QueuedBound, Calling, Putting, Warmup, Delay
<1>4. LaPhases'
  BY DEF IInv, TypeOK, LaPhases, EncPhases, Putting
<1>5. EncPhases'
  BY DEF IInv, TypeOK, EncPhases, LaPhases, Calling, Putting, Warmup, Delay
<1>6. JobPhases'
  BY Phase DEF IInv, TypeOK, JobPhases, EncPhases, Calling, Putting, Oldest, Warmup, Delay
<1> QED BY <1>1, <1>2, <1>3, <1>4, <1>5, <1>6 DEF IInv

LEMMA EncodePictureStep ==
  ASSUME IInv, EncodePicture
  PROVE  IInv'
<1> USE DEF EncodePicture, laVars
<1>1. TypeOK'
  BY ParamAssumption, Phase DEF IInv, TypeOK
<1>2. ListsFit' /\ WholeMinigops(ofbuf)'
  BY QueuesUnchanged
<1>3. QueuedBound'
  <2>1. Queued' = Queued /\ Queued \in Nat /\ input \in Nat
    BY QueuesUnchanged, Lengths DEF Queued, IInv
  <2> QED BY <2>1, Params DEF IInv, QueuedBound, Calling, Putting
<1>4. LaPhases'
  BY DEF IInv, TypeOK, LaPhases, EncPhases, Putting
<1>5. EncPhases'
  BY DEF IInv, TypeOK, EncPhases, LaPhases, Calling, Putting, Warmup, Delay
<1>6. JobPhases'
  <2>1. job[phase'] = "none" /\ enc' = "put"
    BY DEF IInv, JobPhases, Oldest
  <2>2. input' <= Warmup => input <= Warmup
    BY Params, Lengths DEF IInv
  <2> QED BY <2>1, <2>2 DEF IInv, JobPhases, Calling, Putting
<1> QED BY <1>1, <1>2, <1>3, <1>4, <1>5, <1>6 DEF IInv

LEMMA EncodeErrorStep ==
  ASSUME IInv, EncodeError
  PROVE  IInv'
<1> USE DEF EncodeError, laVars
<1>1. TypeOK'
  BY ParamAssumption, Phase DEF IInv, TypeOK
<1>2. ListsFit' /\ WholeMinigops(ofbuf)'
  BY QueuesUnchanged
<1>3. QueuedBound'
  BY QueuesUnchanged, Lengths, Params DEF IInv, QueuedBound, Calling, Putting, Warmup, Delay
<1>4. LaPhases'
  BY DEF IInv, TypeOK, LaPhases, EncPhases, Putting
<1>5. EncPhases'
  BY DEF IInv, TypeOK, EncPhases, LaPhases, Calling, Putting, Warmup, Delay
<1>6. JobPhases'
  BY Phase DEF IInv, TypeOK, JobPhases, EncPhases, Calling, Putting, Oldest, Warmup, Delay
<1> QED BY <1>1, <1>2, <1>3, <1>4, <1>5, <1>6 DEF IInv

LEMMA PutCastStep ==
  ASSUME IInv, PutCast
  PROVE  IInv'
<1> USE DEF PutCast, LaAfterFill
<1>1. TypeOK'
  BY ParamAssumption, Phase DEF IInv, TypeOK
<1>2. ListsFit' /\ WholeMinigops(ofbuf)'
  BY QueuesUnchanged
<1>3. QueuedBound'
  <2>1. Queued' = Queued /\ Queued \in Nat /\ input \in Nat
    BY QueuesUnchanged, Lengths DEF Queued, IInv
  <2> QED BY <2>1, Params DEF IInv, QueuedBound, Calling, Putting
<1>4. LaPhases'
  BY DEF IInv, TypeOK, LaPhases, EncPhases, Putting
<1>5. EncPhases'
  BY Params, Lengths DEF IInv, TypeOK, EncPhases, LaPhases, Calling, Putting
<1>6. JobPhases'
  BY Phase DEF IInv, TypeOK, JobPhases, EncPhases, Calling, Putting, Oldest, Warmup, Delay
<1> QED BY <1>1, <1>2, <1>3, <1>4, <1>5, <1>6 DEF IInv

LEMMA EncodeFlushStep ==
  ASSUME IInv, EncodeFlush
  PROVE  IInv'
<1> USE DEF EncodeFlush, LaAfterFill
<1>1. TypeOK'
  BY ParamAssumption, Phase DEF IInv, TypeOK
<1>2. ListsFit' /\ WholeMinigops(ofbuf)'
  BY QueuesUnchanged
<1>3. QueuedBound'
  <2>1. Queued' = Queued /\ Queued \in Nat /\ input \in Nat
    BY QueuesUnchanged, Lengths DEF Queued, IInv
  <2> QED BY <2>1, Params DEF IInv, QueuedBound, Calling, Putting
<1>4. LaPhases'
  BY DEF IInv, TypeOK, LaPhases, EncPhases, Putting
<1>5. EncPhases'
  BY DEF IInv, TypeOK, EncPhases, LaPhases, Calling, Putting, Warmup, Delay
<1>6. JobPhases'
  BY Phase DEF IInv, TypeOK, JobPhases, EncPhases, Calling, Putting, Oldest, Warmup, Delay
<1> QED BY <1>1, <1>2, <1>3, <1>4, <1>5, <1>6 DEF IInv

LEMMA TakeNothingStep ==
  ASSUME IInv, TakeNothing
  PROVE  IInv'
<1> USE DEF TakeNothing, laVars, LookaheadIsEmpty
<1>1. TypeOK'
  BY ParamAssumption, Phase DEF IInv, TypeOK
<1>2. ListsFit' /\ WholeMinigops(ofbuf)'
  BY QueuesUnchanged
<1>3. QueuedBound'
  <2>1. Queued' = Queued /\ Queued \in Nat /\ input \in Nat
    BY QueuesUnchanged, Lengths DEF Queued, IInv
  <2>2. ifbuf = <<>>
    BY DEF IInv, LaPhases, EncPhases
  <2>3. Queued = 0
    BY <2>2, EmptySeq DEF Queued
  <2> QED BY <2>1, <2>3, Params DEF IInv, QueuedBound, Calling, Putting
<1>4. LaPhases'
  BY DEF IInv, TypeOK, LaPhases, EncPhases, Putting
<1>5. EncPhases'
  BY DEF IInv, TypeOK, EncPhases, LaPhases, Calling, Putting, Warmup, Delay
<1>6. JobPhases'
  BY Phase DEF IInv, TypeOK, JobPhases, EncPhases, Calling, Putting, Oldest, Warmup, Delay
<1> QED BY <1>1, <1>2, <1>3, <1>4, <1>5, <1>6 DEF IInv

LEMMA FrameEndStep ==
  ASSUME IInv, FrameEnd
  PROVE  IInv'
<1> USE DEF FrameEnd, laVars
<1>1. TypeOK'
  <2>1. Oldest \in Threads
    BY Phase DEF IInv, TypeOK, Oldest
  <2>2. NoFrame \in Frame
    BY ParamAssumption DEF NoFrame, Frame, Numbers
  <2>3. slot[Oldest].no \in Numbers
    BY <2>1 DEF IInv, TypeOK, Frame
  <2>4. emitted' \in Seq(Numbers)
    BY <2>3, AppendProperties DEF IInv, TypeOK
  <2>5. slot' \in [Threads -> Frame]
    BY <2>2 DEF IInv, TypeOK
  <2> QED BY <2>4, <2>5 DEF IInv, TypeOK
<1>2. ListsFit' /\ WholeMinigops(ofbuf)'
  BY QueuesUnchanged
<1>3. QueuedBound'
  BY QueuesUnchanged, Lengths, Params DEF IInv, QueuedBound, Calling, Putting, Warmup, Delay
<1>4. LaPhases'
  BY DEF IInv, TypeOK, LaPhases, EncPhases, Putting
<1>5. EncPhases'
  BY DEF IInv, TypeOK, EncPhases, LaPhases, Calling, Putting, Warmup, Delay
<1>6. JobPhases'
  BY Phase DEF IInv, TypeOK, JobPhases, EncPhases, Calling, Putting, Oldest, Warmup, Delay
<1> QED BY <1>1, <1>2, <1>3, <1>4, <1>5, <1>6 DEF IInv

LEMMA CloseStep ==
  ASSUME IInv, Close
  PROVE  IInv'
<1> USE DEF Close, LaAfterFill
<1>1. TypeOK'
  BY ParamAssumption, Phase DEF IInv, TypeOK
<1>2. ListsFit' /\ WholeMinigops(ofbuf)'
  BY QueuesUnchanged
<1>3. QueuedBound'
  BY QueuesUnchanged, Lengths, Params DEF IInv, QueuedBound, Calling, Putting, Warmup, Delay
<1>4. LaPhases'
  BY DEF IInv, TypeOK, LaPhases, EncPhases, Putting
<1>5. EncPhases'
  BY DEF IInv, TypeOK, EncPhases, LaPhases, Calling, Putting, Warmup, Delay
<1>6. JobPhases'
  BY Phase DEF IInv, TypeOK, JobPhases, EncPhases, Calling, Putting, Oldest, Warmup, Delay
<1> QED BY <1>1, <1>2, <1>3, <1>4, <1>5, <1>6 DEF IInv

LEMMA JoinedStep ==
  ASSUME IInv, Joined
  PROVE  IInv'
<1> USE DEF Joined, laVars
<1>1. TypeOK'
  BY ParamAssumption, Phase DEF IInv, TypeOK
<1>2. ListsFit' /\ WholeMinigops(ofbuf)'
  BY QueuesUnchanged
<1>3. QueuedBound'
  BY QueuesUnchanged, Lengths, Params DEF IInv, QueuedBound, Calling, Putting, Warmup, Delay
<1>4. LaPhases'
  BY DEF IInv, TypeOK, LaPhases, EncPhases, Putting
<1>5. EncPhases'
  BY DEF IInv, TypeOK, EncPhases, LaPhases, Calling, Putting, Warmup, Delay
<1>6. JobPhases'
  BY Phase DEF IInv, TypeOK, JobPhases, EncPhases, Calling, Putting, Oldest, Warmup, Delay
<1> QED BY <1>1, <1>2, <1>3, <1>4, <1>5, <1>6 DEF IInv

LEMMA FinishJobStep ==
  ASSUME IInv, NEW t \in Threads, FinishJob(t)
  PROVE  IInv'
<1> USE DEF FinishJob, laVars, encVars
<1>1. TypeOK'
  BY ParamAssumption, Phase DEF IInv, TypeOK
<1>2. ListsFit' /\ WholeMinigops(ofbuf)'
  BY QueuesUnchanged
<1>3. QueuedBound'
  BY QueuesUnchanged, Lengths, Params DEF IInv, QueuedBound, Calling, Putting, Warmup, Delay
<1>4. LaPhases'
  BY DEF IInv, TypeOK, LaPhases, EncPhases, Putting
<1>5. EncPhases'
  BY DEF IInv, TypeOK, EncPhases, LaPhases, Calling, Putting, Warmup, Delay
<1>6. JobPhases'
  BY Phase DEF IInv, TypeOK, JobPhases, EncPhases, Calling, Putting, Oldest, Warmup, Delay
<1> QED BY <1>1, <1>2, <1>3, <1>4, <1>5, <1>6 DEF IInv

LEMMA StutterStep ==
  ASSUME IInv, UNCHANGED vars
  PROVE  IInv'
<1> USE DEF vars
<1>1. TypeOK'
  BY ParamAssumption, Phase DEF IInv, TypeOK
<1>2. ListsFit' /\ WholeMinigops(ofbuf)'
  BY QueuesUnchanged
<1>3. QueuedBound'
  BY QueuesUnchanged, Lengths, Params DEF IInv, QueuedBound, Calling, Putting, Warmup, Delay
<1>4. LaPhases'
  BY DEF IInv, TypeOK, LaPhases, EncPhases, Putting
<1>5. EncPhases'
  BY DEF IInv, TypeOK, EncPhases, LaPhases, Calling, Putting, Warmup, Delay
<1>6. JobPhases'
  BY Phase DEF IInv, TypeOK, JobPhases, EncPhases, Calling, Putting, Oldest, Warmup, Delay
<1> QED BY <1>1, <1>2, <1>3, <1>4, <1>5, <1>6 DEF IInv

-----------------------------------------------------------------------------
(* The steps that move frames. *)

LEMMA PutFrameStep ==
  ASSUME IInv, PutFrame
  PROVE  IInv'
<1> USE DEF PutFrame, laVars
<1> DEFINE f == [no |-> input - 1, bf |-> 0]
<1>1. f \in Frame
  <2>1. input >= 1 /\ input \in 0 .. MaxInput
    BY Lengths DEF IInv, TypeOK, QueuedBound, Queued, Putting
  <2> QED BY <2>1, ParamAssumption DEF Frame, Numbers
<1>2. Append(ifbuf, f) \in Seq(Frame) /\ Len(Append(ifbuf, f)) = Len(ifbuf) + 1
  BY <1>1, AppendProperties DEF IInv, TypeOK
<1> HIDE DEF f
<1>3. TypeOK'
  BY <1>2 DEF IInv, TypeOK, f
<1>4. ListsFit'
  BY <1>2, Lengths, Params DEF IInv, ListsFit, f
<1>5. WholeMinigops(ofbuf)'
  BY DEF IInv, WholeMinigops
<1>6. QueuedBound'
  <2>1. Queued \in Nat /\ input \in Nat
    BY Lengths DEF IInv, Queued
  <2>2. CASE enc' = "putWait" /\ UNCHANGED ifbuf
    BY <2>1, <2>2 DEF IInv, QueuedBound, Queued, Calling, Putting
  <2>3. CASE enc' = "putCast" /\ ifbuf' = Append(ifbuf, f)
    <3>1. Queued' = Queued + 1
      BY <1>2, <2>3, Lengths DEF IInv, Queued
    <3> QED BY <2>1, <2>3, <3>1, Params DEF IInv, QueuedBound, Calling, Putting
  <2> QED BY <2>2, <2>3 DEF f
<1>7. LaPhases' /\ EncPhases' /\ JobPhases'
  BY DEF IInv, LaPhases, EncPhases, JobPhases, Calling, Putting
<1> QED BY <1>3, <1>4, <1>5, <1>6, <1>7 DEF IInv

(* A frame leaves frames.current, and the call goes on or fails. *)
LEMMA CurrentTail ==
  ASSUME IInv, current # <<>>
  PROVE  /\ Head(current) \in Frame
         /\ Tail(current) \in Seq(Frame)
         /\ Len(Tail(current)) = Len(current) - 1
         /\ Len(current) \in Nat \ {0}
BY HeadTailProperties, EmptySeq DEF IInv, TypeOK

LEMMA TakeFrameStep ==
  ASSUME IInv, TakeFrame
  PROVE  IInv'
<1> USE DEF TakeFrame, laVars
<1>1. TypeOK'
  BY CurrentTail DEF IInv, TypeOK
<1>2. ListsFit'
  BY CurrentTail, Lengths, Params DEF IInv, ListsFit
<1>6. WholeMinigops(ofbuf)'
  BY DEF IInv, WholeMinigops
<1>3. QueuedBound'
  BY CurrentTail, Lengths, Params DEF IInv, QueuedBound, Queued, Calling, Putting
<1>4. LaPhases' /\ EncPhases'
  BY CurrentTail, ParamAssumption DEF IInv, LaPhases, EncPhases, Calling, Putting
<1>5. JobPhases'
  BY Lengths, Params DEF IInv, JobPhases, EncPhases, Calling, Putting
<1> QED BY <1>1, <1>2, <1>3, <1>4, <1>5, <1>6 DEF IInv

LEMMA TakeFailsStep ==
  ASSUME IInv, TakeFails
  PROVE  IInv'
<1> USE DEF TakeFails, laVars
<1>1. TypeOK'
  BY CurrentTail DEF IInv, TypeOK
<1>2. ListsFit'
  BY CurrentTail, Lengths, Params DEF IInv, ListsFit
<1>6. WholeMinigops(ofbuf)'
  BY DEF IInv, WholeMinigops
<1>3. QueuedBound'
  BY CurrentTail, Lengths, Params DEF IInv, QueuedBound, Queued, Calling, Putting
<1>4. LaPhases' /\ EncPhases'
  BY CurrentTail, ParamAssumption DEF IInv, LaPhases, EncPhases, Calling, Putting
<1>5. JobPhases'
  BY Lengths, Params DEF IInv, JobPhases, EncPhases, Calling, Putting
<1> QED BY <1>1, <1>2, <1>3, <1>4, <1>5, <1>6 DEF IInv

LEMMA LaFillStep ==
  ASSUME IInv, LaFill
  PROVE  IInv' /\ Queued' = Queued
<1> DEFINE n == Minimum(NextMax - Len(next), Len(ifbuf))
<1>1. n \in 0 .. Len(ifbuf) /\ Len(next) + n <= NextMax
  BY Lengths, Params DEF IInv, ListsFit, Minimum
<1>2. /\ next' = next \o SubSeq(ifbuf, 1, n)
      /\ ifbuf' = SubSeq(ifbuf, n + 1, Len(ifbuf))
      /\ la = "fill" /\ la' \in {"decide", "ifWait", "loop"}
      /\ la' = "decide" => Len(next') > SliceLen + Vfr
      /\ enc' = enc \/ (enc = "putWait" /\ enc' = "putWoken")
      /\ UNCHANGED <<ofbuf, threadActive, draining, job,
                     exitThread, input, current, phase, slot, emitted>>
  BY DEF LaFill, EncAfterShift
<1> HIDE DEF n
<1>3. /\ next' \in Seq(Frame) /\ Len(next') = Len(next) + n
      /\ ifbuf' \in Seq(Frame) /\ Len(ifbuf') = Len(ifbuf) - n
  <2>1. /\ SubSeq(ifbuf, 1, n) \in Seq(Frame) /\ Len(SubSeq(ifbuf, 1, n)) = n
        /\ ifbuf' \in Seq(Frame) /\ Len(ifbuf') = Len(ifbuf) - n
    BY <1>1, <1>2, Cut DEF IInv, TypeOK
  <2> QED BY <1>2, <2>1, ConcatProperties DEF IInv, TypeOK
<1>9. /\ Len(ifbuf) \in Nat /\ Len(next) \in Nat /\ Len(ofbuf) \in Nat
      /\ Len(current) \in Nat
  BY Lengths DEF IInv
<1>10. Len(ofbuf') = Len(ofbuf) /\ Len(current') = Len(current)
  BY <1>2
<1>4. TypeOK'
  BY <1>2, <1>3 DEF IInv, TypeOK
<1>5. ListsFit'
  BY <1>1, <1>3, <1>9, <1>10, Params DEF IInv, ListsFit
<1>11. WholeMinigops(ofbuf)'
  BY <1>2 DEF IInv, WholeMinigops
<1>12. Queued' = Queued
  BY <1>1, <1>3, <1>9, <1>10 DEF Queued
<1>6. QueuedBound'
  BY <1>2, <1>12 DEF IInv, QueuedBound, Calling, Putting
<1>7. LaPhases'
  <2>1. ASSUME la' = "decide" PROVE next' # <<>>
    <3>1. Len(next') > SliceLen + Vfr /\ SliceLen + Vfr \in Nat
      BY <1>2, <2>1, Params
    <3>2. Len(next') # 0
      BY <3>1
    <3> QED BY <3>2, EmptySeq
  <2> QED BY <1>2, <2>1 DEF IInv, LaPhases
<1>8. EncPhases' /\ JobPhases'
  BY <1>2 DEF IInv, EncPhases, JobPhases, Calling, Putting, Oldest
<1> QED BY <1>4, <1>5, <1>11, <1>12, <1>6, <1>7, <1>8 DEF IInv

LEMMA LaDrainStep ==
  ASSUME IInv, LaDrain
  PROVE  IInv' /\ Queued' = Queued
<1>1. /\ next' = next \o ifbuf /\ ifbuf' = <<>> /\ draining'
      /\ la = "drain"
      /\ la' = IF next' # <<>> THEN "decide" ELSE "exit"
      /\ enc' = enc \/ (enc = "putWait" /\ enc' = "putWoken")
      /\ UNCHANGED <<ofbuf, threadActive, job,
                     exitThread, input, current, phase, slot, emitted>>
  BY DEF LaDrain, EncAfterShift
<1>2. /\ next' \in Seq(Frame) /\ Len(next') = Len(next) + Len(ifbuf)
      /\ ifbuf' \in Seq(Frame) /\ Len(ifbuf') = 0
  BY <1>1, ConcatProperties, EmptySeq DEF IInv, TypeOK
<1>3. Queued' = Queued
  BY <1>1, <1>2, Lengths DEF IInv, Queued
<1>4. TypeOK'
  BY <1>1, <1>2 DEF IInv, TypeOK, LaDrain
<1>9. WholeMinigops(ofbuf)'
  BY <1>1 DEF IInv, WholeMinigops
<1>5. ListsFit'
  <2>1. Len(next') <= NextMax
    BY <1>2, Lengths, Params DEF IInv, QueuedBound, Queued
  <2> QED BY <1>1, <1>2, <2>1, Params DEF IInv, ListsFit
<1>6. QueuedBound'
  BY <1>1, <1>3 DEF IInv, QueuedBound, Calling, Putting
<1>7. LaPhases'
  BY <1>1 DEF IInv, LaPhases
<1>8. EncPhases' /\ JobPhases'
  BY <1>1 DEF IInv, EncPhases, JobPhases, Calling, Putting, Oldest
<1> QED BY <1>3, <1>4, <1>5, <1>9, <1>6, <1>7, <1>8 DEF IInv

(* x264_slicetype_decide leaves the frames of next where their minigop needs *)
(* them, and its first frame now says how long the minigop is.               *)
LEMMA LaDecideStep ==
  ASSUME IInv, LaDecide
  PROVE  IInv' /\ Queued' = Queued
<1> DEFINE m == Len(next)
<1>16. PICK k \in 0 .. Minimum(BFrames, m - 1) : \E p \in CodedOrders(k) :
        next' = [i \in DOMAIN next |->
                   IF i = 1 THEN [next[k + 1] EXCEPT !.bf = k]
                   ELSE IF i <= k + 1 THEN next[p[i]] ELSE next[i]]
  BY DEF LaDecide
<1>1. PICK p \in CodedOrders(k) :
        next' = [i \in DOMAIN next |->
                   IF i = 1 THEN [next[k + 1] EXCEPT !.bf = k]
                   ELSE IF i <= k + 1 THEN next[p[i]] ELSE next[i]]
  BY <1>16
<1>2. /\ m \in Nat \ {0} /\ DOMAIN next = 1 .. m
      /\ \A i \in 1 .. m : next[i] \in Frame
  BY LenProperties, EmptySeq, ElementOfSeq DEF IInv, TypeOK, LaDecide
<1>3. k \in 0 .. BFrames /\ k + 1 \in 1 .. m
  BY <1>2, ParamAssumption DEF Minimum
<1>4. \A i \in 2 .. k + 1 : p[i] \in 1 .. m
  BY <1>2, <1>3 DEF CodedOrders
<1>5. [next[k + 1] EXCEPT !.bf = k] \in Frame
  BY <1>2, <1>3 DEF Frame
<1> HIDE DEF m
<1>6. next' \in [1 .. m -> Frame]
  BY <1>1, <1>2, <1>3, <1>4, <1>5
<1>7. next' \in Seq(Frame) /\ Len(next') = m
  <2>1. next' \in Seq(Frame)
    BY <1>2, <1>6, SeqDef
  <2> QED BY <1>2, <1>6, <2>1, LenProperties
<1>8. next'[1].bf = k
  <2>1. next'[1] = [next[k + 1] EXCEPT !.bf = k]
    BY <1>1, <1>2
  <2> QED BY <1>2, <1>3, <2>1 DEF Frame
<1>9. /\ la = "decide" /\ la' = "ship"
      /\ UNCHANGED <<ifbuf, ofbuf, threadActive, draining, job, exitThread,
                     enc, input, current, phase, slot, emitted>>
  BY DEF LaDecide, encVars
<1>10. TypeOK'
  BY <1>7, <1>9 DEF IInv, TypeOK
<1>11. ListsFit' /\ Queued' = Queued
  BY <1>7, <1>9 DEF IInv, ListsFit, Queued, m
<1>12. WholeMinigops(ofbuf)'
  BY <1>9 DEF IInv, WholeMinigops
<1>13. QueuedBound'
  BY <1>9, <1>11 DEF IInv, QueuedBound
<1>14. LaPhases'
  <2>1. next' # <<>> /\ next'[1].bf + 1 <= Len(next')
    BY <1>2, <1>3, <1>7, <1>8, EmptySeq
  <2> QED BY <1>9, <2>1 DEF IInv, LaPhases
<1>15. EncPhases' /\ JobPhases'
  BY <1>9 DEF IInv, EncPhases, JobPhases, Oldest
<1> QED BY <1>10, <1>11, <1>12, <1>13, <1>14, <1>15 DEF IInv

LEMMA LaShipStep ==
  ASSUME IInv, LaShip
  PROVE  IInv' /\ Queued' = Queued
<1> DEFINE n == next[1].bf + 1
           minigop == SubSeq(next, 1, n)
<1>1. la = "ship" /\ Len(ofbuf) # OfbufMax
  BY Lengths, Params, EmptySeq DEF LaShip, IInv, LaPhases, QueuedBound, Queued, TypeOK
<1>2. next # <<>> /\ n <= Len(next) /\ Head(next) = next[1]
  BY <1>1 DEF IInv, LaPhases
<1>3. /\ ofbuf' = ofbuf \o minigop
      /\ next' = SubSeq(next, n + 1, Len(next))
      /\ enc' = EncAfterFill
      /\ la' = IF ~draining THEN "loop" ELSE IF next' # <<>> THEN "decide" ELSE "exit"
      /\ UNCHANGED <<ifbuf, threadActive, draining, job,
                     exitThread, input, current, phase, slot, emitted>>
  BY <1>1, <1>2 DEF LaShip
<1>4. n \in 1 .. Len(next)
  <2>1. Len(next) \in Nat \ {0}
    BY <1>2, EmptySeq DEF IInv, TypeOK
  <2>2. next[1] \in Frame
    BY <2>1, ElementOfSeq DEF IInv, TypeOK
  <2>3. next[1].bf \in 0 .. BFrames
    BY <2>2 DEF Frame
  <2> QED BY <1>2, <2>1, <2>3, ParamAssumption
<1> HIDE DEF n
<1>5. /\ minigop \in Seq(Frame) /\ Len(minigop) = n
      /\ \A i \in 1 .. n : minigop[i] = next[i]
      /\ next' \in Seq(Frame) /\ Len(next') = Len(next) - n
  BY <1>3, <1>4, Lengths, Cut DEF IInv, TypeOK
<1> HIDE DEF minigop
<1>6. ofbuf' \in Seq(Frame) /\ Len(ofbuf') = Len(ofbuf) + n
  BY <1>3, <1>5, ConcatProperties DEF IInv, TypeOK
<1>7. WholeMinigops(ofbuf)'
  <2>1. minigop # <<>> /\ minigop[1] = next[1]
    BY <1>4, <1>5, EmptySeq, Lengths DEF IInv
  <2>2. minigop[1].bf + 1 = Len(minigop)
    BY <1>5, <2>1 DEF n
  <2>3. WholeMinigops(ofbuf \o minigop)
    BY <1>5, <2>1, <2>2, AppendMinigop DEF IInv, TypeOK
  <2> QED BY <1>3, <2>3 DEF WholeMinigops
<1>8. /\ Len(ifbuf) \in Nat /\ Len(next) \in Nat /\ Len(ofbuf) \in Nat
      /\ Len(current) \in Nat
      /\ Len(ifbuf') = Len(ifbuf) /\ Len(current') = Len(current)
  BY <1>3, Lengths DEF IInv
<1>9. Queued' = Queued
  BY <1>4, <1>5, <1>6, <1>8 DEF Queued
<1>10. enc' = enc \/ (enc = "getWait" /\ enc' = "getWoken")
  BY <1>3 DEF EncAfterFill
<1>11. TypeOK'
  BY <1>3, <1>5, <1>6, <1>10 DEF IInv, TypeOK
<1>12. ListsFit'
  <2>1. Queued <= Warmup + 1 /\ Queued \in Nat
    BY <1>8, Params DEF IInv, QueuedBound, Queued
  <2>2. Len(ofbuf') <= OfbufMax
    BY <1>4, <1>5, <1>6, <1>8, <1>9, <2>1, Params DEF Queued
  <2> QED BY <1>4, <1>5, <1>8, <2>2, Params DEF IInv, ListsFit
<1>13. QueuedBound'
  BY <1>3, <1>9, <1>10 DEF IInv, QueuedBound, Calling, Putting
<1>14. LaPhases'
  BY <1>1, <1>3 DEF IInv, LaPhases
<1>15. EncPhases' /\ JobPhases'
  BY <1>1, <1>3, <1>10 DEF IInv, EncPhases, LaPhases, JobPhases, Calling, Putting, Oldest
<1> QED BY <1>7, <1>9, <1>11, <1>12, <1>13, <1>14, <1>15 DEF IInv

LEMMA GetFramesStep ==
  ASSUME IInv, GetFrames
  PROVE  IInv' /\ Queued' = Queued
<1>1. CASE ofbuf = <<>> \/ current # <<>>
  <2>1. /\ enc' \in {"take", "getWait"}
        /\ enc' = "take" => current # <<>> \/ ~threadActive
        /\ enc \in Calling
        /\ UNCHANGED <<ifbuf, next, ofbuf, la, threadActive, draining, job,
                       exitThread, input, current, phase, slot, emitted>>
    BY <1>1 DEF GetFrames, Calling
  <2>2. TypeOK' /\ ListsFit' /\ WholeMinigops(ofbuf)'
    BY <2>1, QueuesUnchanged DEF IInv, TypeOK
  <2>3. QueuedBound'
    BY <2>1, QueuesUnchanged DEF IInv, QueuedBound, Calling, Putting
  <2>4. LaPhases' /\ EncPhases' /\ JobPhases'
    BY <1>1, <2>1 DEF IInv, LaPhases, EncPhases, JobPhases, Calling, Putting, Oldest
  <2> QED BY <2>1, <2>2, <2>3, <2>4, QueuesUnchanged DEF IInv
<1>2. CASE ofbuf # <<>> /\ current = <<>>
  <2> DEFINE n == ofbuf[1].bf + 1
  <2>1. Head(ofbuf) = ofbuf[1]
    BY <1>2 DEF IInv, TypeOK
  <2>2. /\ current' = SubSeq(ofbuf, 1, n)
        /\ ofbuf' = SubSeq(ofbuf, n + 1, Len(ofbuf))
        /\ la' = LaAfterTake /\ enc' = "take" /\ enc \in Calling
        /\ UNCHANGED <<ifbuf, next, threadActive, draining, job,
                       exitThread, input, phase, slot, emitted>>
    BY <1>2, <2>1 DEF GetFrames, Calling
  <2>3. n \in 1 .. BFrames + 1 /\ n \in 1 .. Len(ofbuf) /\ WholeMinigops(ofbuf')
    BY <1>2, <2>2, FirstMinigop, ParamAssumption DEF IInv, TypeOK
  <2> HIDE DEF n
  <2>4. /\ current' \in Seq(Frame) /\ Len(current') = n
        /\ ofbuf' \in Seq(Frame) /\ Len(ofbuf') = Len(ofbuf) - n
    BY <2>2, <2>3, Lengths, Cut DEF IInv, TypeOK
  <2>5. la' = la
    BY <2>2 DEF LaAfterTake, IInv, LaPhases
  <2>6. /\ Len(ifbuf) \in Nat /\ Len(next) \in Nat /\ Len(ofbuf) \in Nat
        /\ Len(current) = 0
        /\ Len(ifbuf') = Len(ifbuf) /\ Len(next') = Len(next)
    BY <1>2, <2>2, Lengths, EmptySeq DEF IInv
  <2>7. Queued' = Queued
    BY <2>3, <2>4, <2>6 DEF Queued
  <2>8. TypeOK'
    BY <2>2, <2>4, <2>5 DEF IInv, TypeOK
  <2>9. ListsFit'
    BY <2>3, <2>4, <2>6, Params, ParamAssumption DEF IInv, ListsFit
  <2>10. QueuedBound'
    BY <2>2, <2>7 DEF IInv, QueuedBound, Calling, Putting
  <2>11. WholeMinigops(ofbuf)'
    BY <2>3 DEF WholeMinigops
  <2>12. LaPhases' /\ JobPhases'
    BY <2>2, <2>5 DEF IInv, LaPhases, JobPhases, Calling, Putting
  <2>13. EncPhases'
    <3>1. current' # <<>> /\ Len(current') <= BFrames + 1
      BY <2>3, <2>4, EmptySeq, ParamAssumption
    <3> QED BY <2>2, <3>1 DEF IInv, EncPhases, Calling, Putting
  <2> QED BY <2>7, <2>8, <2>9, <2>10, <2>11, <2>12, <2>13 DEF IInv
<1> QED BY <1>1, <1>2

-----------------------------------------------------------------------------
LEMMA Inductive == IInv /\ [Next]_vars => IInv'
<1> SUFFICES ASSUME IInv, [Next]_vars PROVE IInv'
  OBVIOUS
<1>1. CASE LaStep
  BY <1>1, LaLoopStep, LaFillStep, LaIfWokenStep, LaDecideStep, LaShipStep,
     LaDrainStep, LaExitStep DEF LaStep
<1>2. CASE Caller
  BY <1>2, EncodePictureStep, EncodeErrorStep, EncodeFlushStep, CloseStep DEF Caller
<1>3. CASE EncStep
  BY <1>3, PutFrameStep, PutCastStep, GetFramesStep, TakeNothingStep, TakeFrameStep,
     TakeFailsStep, FrameEndStep, JoinedStep DEF EncStep
<1>4. CASE \E t \in Threads : FinishJob(t)
  BY <1>4, FinishJobStep
<1>5. CASE Closed \/ UNCHANGED vars
  BY <1>5, StutterStep DEF Closed
<1> QED BY <1>1, <1>2, <1>3, <1>4, <1>5 DEF Next

(* IInv holds in every state of every instance. *)
THEOREM Invariance == Spec => []IInv
<1> QED BY InitHolds, Inductive, PTL DEF Spec

(* Type correctness: in particular every minigop the calling thread takes    *)
(* from ofbuf is there in full.                                              *)
THEOREM TypeCorrect == Spec => []TypeOK
<1>1. IInv => TypeOK
  BY DEF IInv
<1> QED BY <1>1, Invariance, PTL

(* No list of the pipeline outgrows its array (the asserts of                *)
(* lookahead_shift, and the unchecked frames.current).                       *)
THEOREM ListsNeverOverflow == Spec => []ListsFit
<1>1. IInv => ListsFit
  BY DEF IInv
<1> QED BY <1>1, Invariance, PTL

(* The lookahead thread never waits for room in ofbuf, flush or no flush.    *)
THEOREM LookaheadNeverBlocksOnOutput == Spec => []ShipNeverBlocks
<1>1. IInv => ShipNeverBlocks
  <2> SUFFICES ASSUME IInv, la = "ship" PROVE ShipNeverBlocks
    BY DEF IInv, LaPhases, ShipNeverBlocks
  <2>1. next # <<>> /\ next[1].bf + 1 <= Len(next) /\ Head(next) = next[1]
    BY DEF IInv, LaPhases, TypeOK
  <2>2. /\ Len(ifbuf) \in Nat /\ Len(next) \in Nat \ {0} /\ Len(ofbuf) \in Nat
        /\ Len(current) \in Nat
    BY <2>1, Lengths, EmptySeq DEF IInv, TypeOK
  <2>3. next[1] \in Frame
    BY <2>2, ElementOfSeq DEF IInv, TypeOK
  <2>4. next[1].bf \in Nat
    BY <2>3, ParamAssumption DEF Frame
  <2>5. Len(ofbuf) + Len(next) <= Warmup + 1
    BY <2>2, Params DEF IInv, QueuedBound, Queued
  <2>6. Len(ofbuf) + next[1].bf + 1 <= OfbufMax
    BY <2>1, <2>2, <2>4, <2>5, Params, SMTT(30)
  <2> QED BY <2>1, <2>6 DEF ShipNeverBlocks
<1> QED BY <1>1, Invariance, PTL

(* x264_frame_shift is never called on an empty frames.current.              *)
THEOREM TakeNeverEmpty == Spec => []TakeFindsFrame
<1>1. IInv => TakeFindsFrame
  BY DEF IInv, TakeFindsFrame, LaPhases, EncPhases, LookaheadIsEmpty
<1> QED BY <1>1, Invariance, PTL

(* thread_current has no job left when a call picks it.                      *)
THEOREM FrameThreadIsFree == Spec => []SlotIsFree
<1>1. IInv => SlotIsFree
  BY DEF IInv, SlotIsFree, JobPhases, Calling, Putting
<1> QED BY <1>1, Invariance, PTL

-----------------------------------------------------------------------------
(* Where every picture is. *)

Busy == {t \in Threads : job[t] # "none"}
LEMMA BusyFinite ==
  ASSUME TypeOK
  PROVE  IsFiniteSet(Busy) /\ Cardinality(Busy) \in Nat
<1>1. 0 \in Int /\ ThreadFrames - 1 \in Int
  BY ParamAssumption
<1>2. IsFiniteSet(Threads)
  BY <1>1, FS_Interval DEF Threads
<1>3. Busy \in SUBSET Threads
  BY DEF Busy
<1>4. IsFiniteSet(Busy)
  BY <1>2, <1>3, FS_Subset
<1> QED BY <1>4, FS_CardinalityType

(* With one frame thread idle, no more than i_thread_frames - 1 are busy.    *)
LEMMA OneIdle ==
  ASSUME TypeOK, NEW t \in Threads, job[t] = "none"
  PROVE  Cardinality(Busy) <= ThreadFrames - 1
<1>1. ThreadFrames \in Nat \ {0, 1} /\ ThreadFrames - 1 \in Int /\ 0 \in Int
  BY ParamAssumption
<1>2. IsFiniteSet(Threads) /\ Cardinality(Threads) = ThreadFrames
  <2>1. Cardinality(0 .. ThreadFrames - 1) = (ThreadFrames - 1) - 0 + 1 /\ IsFiniteSet(0 .. ThreadFrames - 1)
    BY <1>1, FS_Interval
  <2> QED BY <1>1, <2>1 DEF Threads
<1>3. IsFiniteSet(Threads \ {t}) /\ Cardinality(Threads \ {t}) = ThreadFrames - 1
  BY <1>2, FS_RemoveElement
<1>4. Busy \in SUBSET (Threads \ {t})
  BY DEF Busy
<1> QED BY <1>3, <1>4, FS_Subset

LEMMA AccountedBusy ==
  LET sum == Cardinality(Busy) + Queued + Len(emitted) + (IF enc \in Putting THEN 1 ELSE 0)
  IN  /\ Accounted <=> (enc \notin {"error", "join", "closed"} => sum = input)
      /\ Accounted' <=> (enc' \notin {"error", "join", "closed"} => sum' = input')
BY DEF Accounted, Busy

LEMMA AccountOther ==
  ASSUME CountInv, [Next]_vars, ~(TakeFrame \/ FrameEnd \/ PutFrame)
  PROVE  Accounted'
<1> USE DEF Putting
<1>1. CASE UNCHANGED Queued /\ UNCHANGED <<input, emitted, Busy>>
           /\ (enc' \in Putting <=> enc \in Putting)
           /\ (enc' \notin {"error", "join", "closed"} => enc \notin {"error", "join", "closed"})
  BY <1>1 DEF CountInv, Accounted, Busy
<1>2. CASE enc' \in {"error", "join", "closed"}
  BY <1>2 DEF Accounted
<1>3. CASE EncodePicture
  <2>1. /\ input' = input + 1 /\ enc' = "put" /\ enc = "idle" /\ Busy' = Busy
        /\ UNCHANGED <<ifbuf, next, ofbuf, current, emitted>>
    BY <1>3 DEF EncodePicture, laVars, Busy
  <2>2. Queued' = Queued /\ Queued \in Nat /\ Len(emitted) \in Nat
    BY <2>1, QueuesUnchanged, Lengths, LenProperties DEF CountInv, IInv, Queued, TypeOK
  <2>3. Cardinality(Busy) \in Nat /\ input \in Nat
    BY BusyFinite, Lengths DEF CountInv, IInv
  <2> QED BY <2>1, <2>2, <2>3, AccountedBusy DEF CountInv
<1>4. CASE LaStep
  <2>1. Queued' = Queued /\ UNCHANGED <<input, emitted, job>> /\ enc' \in {enc, EncAfterShift, EncAfterFill}
    <3>1. LaFill \/ LaDrain \/ LaDecide \/ LaShip => Queued' = Queued
      BY LaFillStep, LaDrainStep, LaDecideStep, LaShipStep DEF CountInv
    <3>2. LaLoop \/ LaIfWoken \/ LaExit => Queued' = Queued
      BY QueuesUnchanged DEF CountInv, LaLoop, LaIfWoken, LaExit, encVars
    <3>3. UNCHANGED <<input, emitted, job>> /\ enc' \in {enc, EncAfterShift, EncAfterFill}
      BY <1>4 DEF LaStep, LaLoop, LaFill, LaIfWoken, LaDecide, LaShip, LaDrain, LaExit, encVars
    <3> QED BY <1>4, <3>1, <3>2, <3>3 DEF LaStep
  <2> QED BY <1>1, <2>1 DEF Busy, EncAfterShift, EncAfterFill
<1>5. CASE GetFrames
  <2>1. Queued' = Queued
    BY <1>5, GetFramesStep DEF CountInv
  <2>2. /\ UNCHANGED <<input, emitted, Busy>>
        /\ enc \in {"get", "getWoken"} /\ enc' \in {"take", "getWait"}
    BY <1>5 DEF GetFrames, Busy
  <2> QED BY <1>1, <2>1, <2>2
<1>6. CASE PutCast \/ EncodeFlush \/ TakeNothing
  <2>1. /\ UNCHANGED <<ifbuf, next, ofbuf, current, input, emitted, Busy>>
        /\ enc \in {"putCast", "idle", "take"} /\ enc' \in {"idle", "get", "end"}
    BY <1>6 DEF PutCast, EncodeFlush, TakeNothing, laVars, Busy
  <2> QED BY <1>1, <2>1, QueuesUnchanged DEF CountInv
<1>7. CASE EncodeError \/ Close \/ Joined \/ TakeFails
  BY <1>2, <1>7 DEF EncodeError, Close, Joined, TakeFails
<1>8. CASE \E t \in Threads : FinishJob(t)
  <2>1. PICK t \in Threads : FinishJob(t)
    BY <1>8
  <2>2. Busy' = Busy
    BY <2>1 DEF FinishJob, Busy, CountInv, IInv, TypeOK
  <2>3. UNCHANGED <<ifbuf, next, ofbuf, current, input, emitted, enc>>
    BY <2>1 DEF FinishJob, laVars, encVars
  <2> QED BY <1>1, <2>2, <2>3, QueuesUnchanged DEF CountInv
<1>9. CASE Closed \/ UNCHANGED vars
  <2>1. UNCHANGED <<ifbuf, next, ofbuf, current, input, emitted, Busy, enc>>
    BY <1>9 DEF Closed, vars, Busy
  <2> QED BY <1>1, <2>1, QueuesUnchanged DEF CountInv
<1> QED BY <1>3, <1>4, <1>5, <1>6, <1>7, <1>8, <1>9 DEF Next, Caller, EncStep

LEMMA AccountStep ==
  ASSUME CountInv, TakeFrame \/ FrameEnd \/ PutFrame
  PROVE  Accounted'
<1>1. /\ Cardinality(Busy) \in Nat /\ IsFiniteSet(Busy) /\ Queued \in Nat
      /\ emitted \in Seq(Numbers) /\ Len(emitted) \in Nat /\ input \in Nat
  BY BusyFinite, Lengths, LenProperties DEF CountInv, IInv, TypeOK, Queued
<1>2. CASE TakeFrame
  <2>1. /\ enc = "take" /\ enc' = "end" /\ current # <<>> /\ current' = Tail(current)
        /\ UNCHANGED <<ifbuf, next, ofbuf, input, emitted>>
        /\ job' = [job EXCEPT ![phase] = "running"] /\ phase \in Threads
    BY <1>2 DEF TakeFrame, laVars, CountInv, IInv, TypeOK
  <2>2. job[phase] = "none" /\ job \in [Threads -> {"none", "running", "finished", "failed"}]
    BY <2>1 DEF CountInv, IInv, TypeOK, JobPhases, Calling
  <2>3. Busy' = Busy \cup {phase} /\ phase \notin Busy
    BY <2>1, <2>2 DEF Busy
  <2>4. Cardinality(Busy') = Cardinality(Busy) + 1
    BY <1>1, <2>3, FS_AddElement
  <2>5. Queued' = Queued - 1
    BY <2>1, CurrentTail, Lengths DEF CountInv, IInv, Queued
  <2> QED BY <1>1, <2>1, <2>4, <2>5, AccountedBusy DEF CountInv, Putting
<1>3. CASE FrameEnd
  <2>1. /\ enc = "end" /\ enc' \in {"error", "idle"}
        /\ UNCHANGED <<ifbuf, next, ofbuf, current, input>>
        /\ job' = [job EXCEPT ![Oldest] = "none"] /\ Oldest \in Threads
        /\ job \in [Threads -> {"none", "running", "finished", "failed"}]
        /\ job[Oldest] # "running"
        /\ emitted' = IF job[Oldest] = "finished" THEN Append(emitted, slot[Oldest].no) ELSE emitted
        /\ job[Oldest] = "failed" => enc' = "error"
    BY <1>3, Phase DEF FrameEnd, laVars, CountInv, IInv, TypeOK, Oldest
  <2>2. Queued' = Queued
    BY <2>1, QueuesUnchanged DEF CountInv
  <2>3. CASE job[Oldest] = "finished"
    <3>1. Busy' = Busy \ {Oldest} /\ Oldest \in Busy
      BY <2>1, <2>3 DEF Busy
    <3>2. Cardinality(Busy') = Cardinality(Busy) - 1
      BY <1>1, <3>1, FS_RemoveElement
    <3>3. slot[Oldest].no \in Numbers
      BY <2>1 DEF CountInv, IInv, TypeOK, Frame
    <3>4. Len(emitted') = Len(emitted) + 1
      BY <1>1, <2>1, <2>3, <3>3, AppendProperties
    <3> QED BY <1>1, <2>1, <2>2, <3>2, <3>4, AccountedBusy DEF CountInv, Putting
  <2>4. CASE job[Oldest] = "none"
    <3>1. Busy' = Busy /\ emitted' = emitted
      BY <2>1, <2>4 DEF Busy
    <3> QED BY <1>1, <2>1, <2>2, <3>1, AccountedBusy DEF CountInv, Putting
  <2>5. CASE job[Oldest] = "failed"
    BY <2>1, <2>5 DEF Accounted
  <2> QED BY <2>1, <2>3, <2>4, <2>5
<1>4. CASE PutFrame
  <2>1. UNCHANGED <<next, ofbuf, current, input, emitted, Busy>> /\ enc \in {"put", "putWoken"}
    BY <1>4 DEF PutFrame, laVars, Busy
  <2>2. CASE enc' = "putWait" /\ ifbuf' = ifbuf
    <3>1. Queued' = Queued
      BY <2>1, <2>2, QueuesUnchanged DEF CountInv
    <3> QED BY <1>1, <2>1, <2>2, <3>1, AccountedBusy DEF CountInv, Putting
  <2>3. CASE enc' = "putCast" /\ ifbuf' = Append(ifbuf, [no |-> input - 1, bf |-> 0])
    <3>1. [no |-> input - 1, bf |-> 0] \in Frame
      <4>1. input >= 1 /\ input \in 0 .. MaxInput
        BY <2>1, Lengths DEF CountInv, IInv, TypeOK, QueuedBound, Queued, Putting
      <4> QED BY <4>1, ParamAssumption DEF Frame, Numbers
    <3>2. Len(ifbuf') = Len(ifbuf) + 1
      BY <2>3, <3>1, AppendProperties DEF CountInv, IInv, TypeOK
    <3>3. Queued' = Queued + 1
      BY <2>1, <3>2, Lengths DEF CountInv, IInv, Queued
    <3> QED BY <1>1, <2>1, <2>3, <3>3, AccountedBusy DEF CountInv, Putting
  <2> QED BY <1>4, <2>2, <2>3 DEF PutFrame
<1> QED BY <1>2, <1>3, <1>4

LEMMA CountInit == Init => CountInv
<1> SUFFICES ASSUME Init PROVE CountInv
  OBVIOUS
<1>1. {t \in Threads : job[t] # "none"} = {}
  BY DEF Init
<1>2. Queued = 0 /\ Len(emitted) = 0
  BY EmptySeq DEF Init, Queued
<1>3. Accounted
  BY <1>1, <1>2, FS_EmptySet DEF Init, Accounted, Putting
<1> QED BY <1>3, InitHolds DEF CountInv

(* x264_encoder_delayed_frames between two calls is exactly what the caller  *)
(* still has to get back, and at most x264_encoder_maximum_delayed_frames.   *)
THEOREM DelayedFramesCount == Spec => []DelayedFramesExact
<1>1. CountInv /\ IInv' /\ [Next]_vars => CountInv'
  BY AccountOther, AccountStep DEF CountInv
<1>2. CountInv => DelayedFramesExact
  <2> SUFFICES ASSUME CountInv, enc = "idle"
      PROVE  DelayedFrames = input - Len(emitted) /\ DelayedFrames <= Delay
    BY DEF DelayedFramesExact
  <2>1. /\ Cardinality(Busy) \in Nat /\ Queued \in Nat /\ Len(emitted) \in Nat /\ input \in Nat
    BY BusyFinite, Lengths, LenProperties DEF CountInv, IInv, TypeOK, Queued
  <2>2. Cardinality(Busy) + Queued + Len(emitted) = input
    BY <2>1 DEF CountInv, Accounted, Busy, Putting
  <2>3. DelayedFrames = Cardinality(Busy) + Queued
    BY <2>1, Lengths DEF DelayedFrames, Busy, Queued, CountInv, IInv
  <2>4. Queued <= Warmup
    BY Params DEF CountInv, IInv, QueuedBound, Calling
  <2>5. Cardinality(Busy) <= ThreadFrames - 1
    <3>1. Oldest \in Threads /\ job[Oldest] = "none"
      BY Phase DEF CountInv, IInv, TypeOK, JobPhases, Oldest
    <3> QED BY <3>1, OneIdle DEF CountInv, IInv
  <2>6. Warmup = Delay + 1 - ThreadFrames /\ Delay \in Nat /\ ThreadFrames \in Nat
    BY ParamAssumption DEF Warmup, Delay
  <2> QED BY <2>1, <2>2, <2>3, <2>4, <2>5, <2>6
<1> QED BY <1>1, <1>2, CountInit, Invariance, PTL DEF Spec
-----------------------------------------------------------------------------
(* That the pipeline implements DelayLine: the frames that have been shipped *)
(* stand in one line, of which the lists and the ring of frame threads hold  *)
(* consecutive pieces.                                                       *)

Live == enc \notin {"error", "join", "closed"}
InOneLine ==
  \E young \in 0 .. ThreadFrames, line \in [0 .. Shipped - 1 -> 0 .. Shipped - 1] :
    CodedOrder(line) /\ Ring(young) /\ InLine(line, young)
LiveInv == Coding \in Nat /\ Lag /\ Undecided /\ InOneLine

LEMMA LineParts == (LineInv <=> IInv /\ (Live => LiveInv)) /\ (LineInv' <=> IInv' /\ (Live' => LiveInv'))
BY DEF LineInv, Live, LiveInv, InOneLine

LEMMA LineCounts ==
  ASSUME IInv
  PROVE  /\ Len(ifbuf) \in Nat /\ Len(next) \in Nat /\ Len(ofbuf) \in Nat /\ Len(current) \in Nat
         /\ input \in Nat /\ emitted \in Seq(Numbers) /\ Len(emitted) \in Nat
         /\ Queued \in Nat /\ Put \in Nat /\ Taken \in Nat /\ Shipped \in Nat
         /\ Shipped = Taken + Len(current) + Len(ofbuf)
         /\ Put = Shipped + Len(next) + Len(ifbuf)
         /\ Put <= input /\ Taken = Coding + Len(emitted)
<1>1. /\ Len(ifbuf) \in Nat /\ Len(next) \in Nat /\ Len(ofbuf) \in Nat /\ Len(current) \in Nat
      /\ input \in Nat /\ emitted \in Seq(Numbers) /\ Len(emitted) \in Nat
  BY Lengths, LenProperties DEF IInv, TypeOK
<1>2. Queued \in Nat /\ Queued + (IF enc \in Putting THEN 1 ELSE 0) <= input
  BY <1>1 DEF IInv, QueuedBound, Queued
<1> QED BY <1>1, <1>2 DEF Put, Taken, Shipped, Coding, Queued

(* The ages of the frame threads. *)
LEMMA NextPhaseIs ==
  ASSUME NEW p \in Threads
  PROVE  NextPhase(p) = IF p = ThreadFrames - 1 THEN 0 ELSE p + 1
<1>1. ThreadFrames \in Nat \ {0, 1} /\ p \in 0 .. ThreadFrames - 1
  BY ParamAssumption DEF Threads
<1>2. CASE p = ThreadFrames - 1
  <2>1. p + 1 = ThreadFrames
    BY <1>1, <1>2
  <2>2. ThreadFrames % ThreadFrames = 0
    BY <1>1
  <2> QED BY <1>2, <2>1, <2>2 DEF NextPhase
<1>3. CASE p # ThreadFrames - 1
  <2>1. p + 1 \in 0 .. ThreadFrames - 1
    BY <1>1, <1>3
  <2>2. (p + 1) % ThreadFrames = p + 1
    BY <1>1, <2>1
  <2> QED BY <1>3, <2>2 DEF NextPhase
<1> QED BY <1>2, <1>3

LEMMA Ages ==
  ASSUME IInv
  PROVE  /\ ThreadFrames \in Nat \ {0, 1} /\ phase \in Threads /\ Oldest \in Threads
         /\ \A t \in Threads : Age(t) \in 0 .. ThreadFrames - 1
         /\ Age(phase) = 0 /\ Age(Oldest) = ThreadFrames - 1
         /\ \A t \in Threads : (Age(t) = 0 => t = phase) /\ (Age(t) = ThreadFrames - 1 => t = Oldest)
<1>1. ThreadFrames \in Nat \ {0, 1} /\ phase \in Threads
  BY ParamAssumption DEF IInv, TypeOK
<1>2. Oldest = IF phase = ThreadFrames - 1 THEN 0 ELSE phase + 1
  BY <1>1, NextPhaseIs DEF Oldest
<1> QED BY <1>1, <1>2 DEF Age, Threads

(* A call moves the phase on: every thread ages, and the oldest is next.     *)
LEMMA Aged ==
  ASSUME IInv, phase' = NextPhase(phase)
  PROVE  \A t \in Threads : Age(t)' = IF Age(t) = ThreadFrames - 1 THEN 0 ELSE Age(t) + 1
<1>1. ThreadFrames \in Nat \ {0, 1} /\ phase \in Threads
  BY ParamAssumption DEF IInv, TypeOK
<1>2. phase' = IF phase = ThreadFrames - 1 THEN 0 ELSE phase + 1
  BY <1>1, NextPhaseIs
<1>3. ASSUME NEW t \in Threads
      PROVE  Age(t)' = IF Age(t) = ThreadFrames - 1 THEN 0 ELSE Age(t) + 1
  <2>1. /\ t \in Nat /\ t < ThreadFrames /\ phase \in Nat /\ phase < ThreadFrames
    BY <1>1 DEF Threads
  <2>2. CASE phase = ThreadFrames - 1
    BY <1>1, <1>2, <2>1, <2>2 DEF Age
  <2>3. CASE phase # ThreadFrames - 1
    BY <1>1, <1>2, <2>1, <2>3 DEF Age
  <2> QED BY <2>2, <2>3
<1> QED BY <1>3

(* A step that moves no frame along the line.                                *)
LEMMA LineKept ==
  ASSUME InOneLine, UNCHANGED <<Taken, Shipped, emitted, slot, phase, current, ofbuf>>,
         \A t \in Threads : job[t] # "none" <=> job'[t] # "none",
         \/ Coding = 0
         \/ exitThread' /\ Queued' = 0
         \/ /\ enc' \in Returning <=> enc \in Returning
            /\ exitThread /\ Queued = 0 => exitThread' /\ Queued' = 0
  PROVE  InOneLine'
<1>1. PICK young \in 0 .. ThreadFrames, line \in [0 .. Shipped - 1 -> 0 .. Shipped - 1] :
        CodedOrder(line) /\ Ring(young) /\ InLine(line, young)
  BY DEF InOneLine
<1>2. CodedOrder(line)'
  BY <1>1 DEF CodedOrder, MayCome
<1>3. Coding' = Coding /\ \A t \in Threads : Age(t)' = Age(t)
  BY DEF Coding, Age
<1>4. Ring(young)'
  BY <1>1, <1>3 DEF Ring
<1>5. InLine(line, young)'
  BY <1>1, <1>3 DEF InLine
<1> QED BY <1>2, <1>4, <1>5 DEF InOneLine
(* Where the lists are in the line. *)
LEMMA LineOf ==
  ASSUME IInv, NEW young \in 0 .. ThreadFrames,
         NEW line \in [0 .. Shipped - 1 -> 0 .. Shipped - 1],
         CodedOrder(line), Ring(young), InLine(line, young), Coding \in Nat
  PROVE  /\ \A p \in 0 .. Shipped - 1 : line[p] \in 0 .. Shipped - 1
         /\ \A p, q \in 0 .. Shipped - 1 : line[p] = line[q] => p = q
         /\ \A t \in Threads : job[t] # "none" =>
              Taken - 1 + young - Age(t) \in Len(emitted) .. Taken - 1
<1>1. \A p \in 0 .. Shipped - 1 : line[p] \in 0 .. Shipped - 1
  OBVIOUS
<1>2. \A p, q \in 0 .. Shipped - 1 : line[p] = line[q] => p = q
  BY DEF CodedOrder, IsInjective
<1>3. ASSUME NEW t \in Threads, job[t] # "none"
      PROVE  Taken - 1 + young - Age(t) \in Len(emitted) .. Taken - 1
  <2>1. Age(t) \in young .. young + Coding - 1
    BY <1>3 DEF Ring
  <2>2. Age(t) \in Nat /\ young \in Nat /\ Taken \in Nat /\ Len(emitted) \in Nat /\ Taken = Coding + Len(emitted)
    BY Ages, LineCounts
  <2> QED BY <2>1, <2>2
<1> QED BY <1>1, <1>2, <1>3

(* A call that begins: the ring has aged by one.                             *)
LEMMA LineAged ==
  ASSUME IInv, LiveInv, enc = "idle", enc' \notin Returning, phase' = NextPhase(phase),
         UNCHANGED <<Taken, Shipped, emitted, slot, current, ofbuf, job>>,
         exitThread => exitThread', Queued' = Queued
  PROVE  InOneLine'
<1>1. PICK young \in 0 .. ThreadFrames, line \in [0 .. Shipped - 1 -> 0 .. Shipped - 1] :
        CodedOrder(line) /\ Ring(young) /\ InLine(line, young)
  BY DEF LiveInv, InOneLine
<1>2. CodedOrder(line)'
  BY <1>1 DEF CodedOrder, MayCome
<1>3. /\ Coding' = Coding /\ Coding \in Nat /\ Taken \in Nat
      /\ ThreadFrames \in Nat \ {0, 1} /\ Oldest \in Threads /\ job[Oldest] = "none"
      /\ \A t \in Threads : Age(t) \in 0 .. ThreadFrames - 1
      /\ Age(Oldest) = ThreadFrames - 1
      /\ \A t \in Threads : Age(t) = ThreadFrames - 1 => t = Oldest
      /\ \A t \in Threads : Age(t)' = IF Age(t) = ThreadFrames - 1 THEN 0 ELSE Age(t) + 1
  <2>1. job[Oldest] = "none"
    BY DEF IInv, JobPhases
  <2>2. Coding' = Coding /\ Coding \in Nat
    BY DEF Coding, LiveInv
  <2> QED BY <2>1, <2>2, Ages, Aged, LineCounts
<1>4. CASE Coding = 0
  <2>1. \A t \in Threads : job[t] = "none"
    BY <1>1, <1>3, <1>4 DEF Ring
  <2>2. Ring(0)'
    BY <1>3, <1>4, <2>1 DEF Ring
  <2>3. InLine(line, 0)'
    BY <1>1, <2>1 DEF InLine
  <2>4. 0 \in 0 .. ThreadFrames
    BY <1>3
  <2> QED BY <1>2, <2>2, <2>3, <2>4 DEF InOneLine
<1>5. CASE Coding # 0
  <2>1. young + Coding <= ThreadFrames - 1
    <3>1. ~(Age(Oldest) \in young .. young + Coding - 1)
      BY <1>1, <1>3 DEF Ring
    <3>2. young + Coding <= ThreadFrames
      BY <1>1 DEF Ring
    <3> QED BY <1>3, <1>5, <3>1, <3>2
  <2>2. \A t \in Threads : job[t] # "none" => Age(t)' = Age(t) + 1 /\ Age(t) \in Nat
    BY <1>3
  <2>3. young + 1 \in 0 .. ThreadFrames
    BY <1>3, <1>5, <2>1
  <2>4. Ring(young + 1)'
    <3>1. ASSUME NEW t \in Threads
          PROVE  job'[t] # "none" <=> Age(t)' \in young + 1 .. young + 1 + Coding' - 1
      <4>1. job[t] # "none" <=> Age(t) \in young .. young + Coding - 1
        BY <1>1 DEF Ring
      <4> QED BY <1>3, <2>1, <4>1
    <3>2. young + 1 + Coding' <= ThreadFrames
      BY <1>3, <2>1
    <3>3. \/ exitThread' /\ Queued' = 0
          \/ young + 1 = 1
      <4>1. (exitThread /\ Queued = 0) \/ young = 0
        BY <1>1, <1>5 DEF Ring, Returning
      <4> QED BY <4>1
    <3> QED BY <3>1, <3>2, <3>3 DEF Ring
  <2>5. InLine(line, young + 1)'
    <3>1. ASSUME NEW t \in Threads, job[t] # "none"
          PROVE  slot[t].no = line[Taken - 1 + (young + 1) - Age(t)']
      <4>1. slot[t].no = line[Taken - 1 + young - Age(t)]
        BY <1>1, <3>1 DEF InLine
      <4>2. Taken - 1 + (young + 1) - Age(t)' = Taken - 1 + young - Age(t)
        BY <1>3, <2>2, <3>1
      <4> QED BY <4>1, <4>2
    <3> QED BY <1>1, <3>1 DEF InLine
  <2> QED BY <1>2, <2>3, <2>4, <2>5 DEF InOneLine
<1> QED BY <1>4, <1>5

(* The first minigop of ofbuf becomes frames.current.                        *)
LEMMA LineMoved ==
  ASSUME IInv, LiveInv, GetFrames, Queued' = Queued
  PROVE  InOneLine' /\ Taken' = Taken /\ Shipped' = Shipped
<1>1. /\ UNCHANGED <<ifbuf, next, job, exitThread, input, phase, slot, emitted>>
      /\ enc \in {"get", "getWoken"} /\ enc' \in {"take", "getWait"}
  BY DEF GetFrames
<1>2. Taken' = Taken /\ Shipped' = Shipped
  BY <1>1 DEF Taken, Shipped, Put, Putting
<1>3. CASE UNCHANGED <<current, ofbuf>>
  BY <1>1, <1>2, <1>3, LineKept DEF LiveInv, Returning
<1>4. CASE current = <<>> /\ ofbuf # <<>>
  <2> DEFINE n == ofbuf[1].bf + 1
  <2>1. Head(ofbuf) = ofbuf[1]
    BY <1>4 DEF IInv, TypeOK
  <2>2. current' = SubSeq(ofbuf, 1, n) /\ ofbuf' = SubSeq(ofbuf, n + 1, Len(ofbuf))
    BY <1>4, <2>1 DEF GetFrames
  <2>3. n \in 1 .. Len(ofbuf) /\ Len(ofbuf) \in Nat
    BY <1>4, FirstMinigop, LineCounts DEF IInv, TypeOK
  <2> HIDE DEF n
  <2>4. /\ Len(current') = n /\ \A i \in 1 .. n : current'[i] = ofbuf[i]
        /\ Len(ofbuf') = Len(ofbuf) - n /\ \A i \in 1 .. Len(ofbuf) - n : ofbuf'[i] = ofbuf[n + i]
    <3>1. n \in 0 .. Len(ofbuf)
      BY <2>3
    <3> QED BY <2>2, <3>1, Cut DEF IInv, TypeOK
  <2>5. PICK young \in 0 .. ThreadFrames, line \in [0 .. Shipped - 1 -> 0 .. Shipped - 1] :
          CodedOrder(line) /\ Ring(young) /\ InLine(line, young)
    BY DEF LiveInv, InOneLine
  <2>6. Len(current) = 0 /\ Taken \in Nat
    BY <1>4, LineCounts
  <2>7. CodedOrder(line)'
    BY <1>2, <2>5 DEF CodedOrder, MayCome
  <2>8. Coding' = Coding /\ \A t \in Threads : Age(t)' = Age(t)
    BY <1>1, <1>2 DEF Coding, Age
  <2>9. Ring(young)'
    BY <1>1, <2>5, <2>8 DEF Ring, Returning
  <2>10. InLine(line, young)'
    <3>1. \A i \in 1 .. Len(ofbuf) : ofbuf[i].no = line[Taken + i - 1]
      BY <2>3, <2>5, <2>6 DEF InLine
    <3>2. \A i \in 1 .. Len(current') : current'[i].no = line[Taken + i - 1]
      BY <2>3, <2>4, <3>1
    <3>3. \A i \in 1 .. Len(ofbuf') : ofbuf'[i].no = line[Taken + Len(current') + i - 1]
      <4> TAKE i \in 1 .. Len(ofbuf')
      <4>1. n + i \in 1 .. Len(ofbuf) /\ ofbuf'[i] = ofbuf[n + i]
        BY <2>3, <2>4
      <4>2. ofbuf[n + i].no = line[Taken + (n + i) - 1] /\ Taken + (n + i) - 1 = Taken + Len(current') + i - 1
        BY <2>3, <2>4, <2>6, <3>1, <4>1
      <4> QED BY <4>1, <4>2
    <3> QED BY <1>1, <1>2, <2>5, <2>8, <3>2, <3>3 DEF InLine
  <2> QED BY <1>2, <2>5, <2>7, <2>9, <2>10 DEF InOneLine
<1>5. UNCHANGED <<current, ofbuf>> \/ (current = <<>> /\ ofbuf # <<>>)
  BY DEF GetFrames
<1> QED BY <1>2, <1>3, <1>4, <1>5
(* A frame leaves frames.current for the frame thread of this call.          *)
LEMMA LineTaken ==
  ASSUME IInv, LiveInv, TakeFrame
  PROVE  InOneLine' /\ Taken' = Taken + 1 /\ Queued' = Queued - 1 /\ Shipped' = Shipped
<1>1. /\ enc = "take" /\ enc' = "end" /\ current # <<>> /\ current' = Tail(current)
      /\ slot' = [slot EXCEPT ![phase] = Head(current)] /\ job' = [job EXCEPT ![phase] = "running"]
      /\ UNCHANGED <<ifbuf, next, ofbuf, exitThread, input, phase, emitted>>
      /\ slot \in [Threads -> Frame] /\ job \in [Threads -> {"none", "running", "finished", "failed"}]
  BY DEF TakeFrame, laVars, IInv, TypeOK
<1>2. /\ Len(current) \in Nat \ {0} /\ Head(current) = current[1]
      /\ Len(current') = Len(current) - 1 /\ \A i \in 1 .. Len(current) - 1 : current'[i] = current[i + 1]
  BY <1>1, Shifted DEF IInv, TypeOK
<1>3. /\ Queued' = Queued - 1 /\ Put' = Put /\ Taken' = Taken + 1 /\ Shipped' = Shipped
      /\ Queued \in Nat \ {0}
  <2>1. Queued' = Queued - 1 /\ Queued \in Nat \ {0}
    <3>1. /\ Len(ifbuf) \in Nat /\ Len(next) \in Nat /\ Len(ofbuf) \in Nat
          /\ Len(ifbuf') = Len(ifbuf) /\ Len(next') = Len(next) /\ Len(ofbuf') = Len(ofbuf)
      BY <1>1, LineCounts
    <3> QED BY <1>2, <3>1 DEF Queued
  <2>2. Put' = Put /\ Put \in Nat
    BY <1>1, LineCounts DEF Put, Putting
  <2>3. Shipped' = Shipped
    BY <1>1, <2>2 DEF Shipped
  <2>4. Taken' = Taken + 1
    <3>1. Taken = Put - Queued /\ Taken' = Put' - Queued'
      BY DEF Taken
    <3> QED BY <2>1, <2>2, <3>1
  <2> QED BY <2>1, <2>2, <2>3, <2>4
<1>4. PICK young \in 0 .. ThreadFrames, line \in [0 .. Shipped - 1 -> 0 .. Shipped - 1] :
        CodedOrder(line) /\ Ring(young) /\ InLine(line, young)
  BY DEF LiveInv, InOneLine
<1>5. /\ Coding \in Nat /\ Coding' = Coding + 1 /\ \A t \in Threads : Age(t)' = Age(t)
      /\ ThreadFrames \in Nat \ {0, 1} /\ phase \in Threads /\ Taken \in Nat /\ Age(phase) = 0
      /\ \A t \in Threads : Age(t) \in 0 .. ThreadFrames - 1 /\ (Age(t) = 0 => t = phase)
  <2>1. Coding \in Nat /\ Taken \in Nat /\ Len(emitted) \in Nat
    BY LineCounts DEF LiveInv
  <2>2. Coding = Taken - Len(emitted) /\ Coding' = Taken' - Len(emitted)
    BY <1>1 DEF Coding
  <2>3. \A t \in Threads : Age(t)' = Age(t)
    BY <1>1 DEF Age
  <2> QED BY <1>3, <2>1, <2>2, <2>3, Ages
<1>6. Coding = 0 \/ young = 1
  BY <1>1, <1>3, <1>4 DEF Ring, Returning
<1>7. CodedOrder(line)'
  BY <1>3, <1>4 DEF CodedOrder, MayCome
<1>8. Ring(0)'
  <2>1. 0 + Coding' <= ThreadFrames
    BY <1>4, <1>5, <1>6 DEF Ring
  <2>2. ASSUME NEW t \in Threads
        PROVE  job'[t] # "none" <=> Age(t)' \in 0 .. 0 + Coding' - 1
    <3>1. CASE t = phase
      BY <1>1, <1>5, <3>1
    <3>2. CASE t # phase
      <4>1. job'[t] = job[t] /\ Age(t) # 0
        BY <1>1, <1>5, <3>2
      <4>2. job[t] # "none" <=> Age(t) \in young .. young + Coding - 1
        BY <1>4 DEF Ring
      <4> QED BY <1>5, <1>6, <4>1, <4>2
    <3> QED BY <3>1, <3>2
  <2> QED BY <1>1, <2>1, <2>2 DEF Ring, Returning
<1>9. InLine(line, 0)'
  <2>1. ASSUME NEW t \in Threads, job'[t] # "none"
        PROVE  slot'[t].no = line[Taken' - 1 + 0 - Age(t)']
    <3>1. CASE t = phase
      <4>1. slot'[t] = current[1] /\ current[1].no = line[Taken + 1 - 1]
        BY <1>1, <1>2, <1>4, <3>1 DEF InLine
      <4>2. Taken' - 1 + 0 - Age(t)' = Taken + 1 - 1
        BY <1>3, <1>5, <3>1
      <4> QED BY <4>1, <4>2
    <3>2. CASE t # phase
      <4>1. job'[t] = job[t] /\ slot'[t] = slot[t]
        BY <1>1, <3>2
      <4>2. young = 1
        <5>1. Age(t) \in young .. young + Coding - 1
          BY <1>4, <2>1, <4>1 DEF Ring
        <5> QED BY <1>5, <1>6, <5>1
      <4>3. slot[t].no = line[Taken - 1 + young - Age(t)]
        BY <1>4, <2>1, <4>1 DEF InLine
      <4>4. Taken' - 1 + 0 - Age(t)' = Taken - 1 + young - Age(t)
        BY <1>3, <1>5, <4>2
      <4> QED BY <4>1, <4>3, <4>4
    <3> QED BY <3>1, <3>2
  <2>2. \A i \in 1 .. Len(current') : current'[i].no = line[Taken' + i - 1]
    <3> TAKE i \in 1 .. Len(current')
    <3>1. i + 1 \in 1 .. Len(current) /\ current'[i] = current[i + 1]
      BY <1>2
    <3>2. current[i + 1].no = line[Taken + (i + 1) - 1] /\ Taken + (i + 1) - 1 = Taken' + i - 1
      BY <1>3, <1>4, <1>5, <3>1 DEF InLine
    <3> QED BY <3>1, <3>2
  <2>3. \A i \in 1 .. Len(ofbuf) : ofbuf[i].no = line[Taken' + Len(current') + i - 1]
    <3>1. Taken' + Len(current') = Taken + Len(current)
      BY <1>2, <1>3, <1>5
    <3> QED BY <1>4, <3>1 DEF InLine
  <2> QED BY <1>1, <1>4, <2>1, <2>2, <2>3 DEF InLine
<1>10. 0 \in 0 .. ThreadFrames
  BY <1>5
<1> QED BY <1>3, <1>4, <1>7, <1>8, <1>9, <1>10 DEF InOneLine

(* The oldest frame is returned: it is the next one of the line.             *)
LEMMA LineReturned ==
  ASSUME IInv, LiveInv, FrameEnd, Live'
  PROVE  /\ InOneLine' /\ Taken' = Taken /\ Shipped' = Shipped /\ Queued' = Queued
         /\ Coding' \in Nat
         /\ \/ emitted' = emitted
            \/ /\ \E line \in [0 .. Shipped - 1 -> 0 .. Shipped - 1] :
                    /\ CodedOrder(line) /\ Len(emitted) < Shipped
                    /\ \A i \in 1 .. Len(emitted) : emitted[i] = line[i - 1]
                    /\ emitted' = Append(emitted, line[Len(emitted)])
               /\ exitThread \/ Coding = ThreadFrames
<1>1. /\ enc = "end" /\ enc' \in {"error", "idle"}
      /\ UNCHANGED <<ifbuf, next, ofbuf, current, input, exitThread, phase>>
      /\ job' = [job EXCEPT ![Oldest] = "none"] /\ Oldest \in Threads
      /\ slot' = [slot EXCEPT ![Oldest] = NoFrame] /\ slot \in [Threads -> Frame]
      /\ job \in [Threads -> {"none", "running", "finished", "failed"}]
      /\ job[Oldest] \in {"none", "finished"}
      /\ emitted' = IF job[Oldest] = "finished" THEN Append(emitted, slot[Oldest].no) ELSE emitted
  BY Phase DEF FrameEnd, laVars, IInv, TypeOK, Oldest, Live
<1>2. /\ Taken' = Taken /\ Shipped' = Shipped /\ Queued' = Queued /\ enc' = "idle"
      /\ \A t \in Threads : Age(t)' = Age(t)
  BY <1>1 DEF Taken, Shipped, Queued, Put, Putting, Age, Live
<1>3. PICK young \in 0 .. ThreadFrames, line \in [0 .. Shipped - 1 -> 0 .. Shipped - 1] :
        CodedOrder(line) /\ Ring(young) /\ InLine(line, young)
  BY DEF LiveInv, InOneLine
<1>4. CodedOrder(line)'
  BY <1>2, <1>3 DEF CodedOrder, MayCome
<1>5. /\ ThreadFrames \in Nat \ {0, 1} /\ \A t \in Threads : Age(t) \in 0 .. ThreadFrames - 1
      /\ Age(Oldest) = ThreadFrames - 1
      /\ \A t \in Threads : Age(t) = ThreadFrames - 1 => t = Oldest
      /\ Coding \in Nat /\ Taken = Coding + Len(emitted) /\ Len(emitted) \in Nat /\ Taken \in Nat
      /\ Len(current) \in Nat /\ Len(ofbuf) \in Nat /\ Shipped = Taken + Len(current) + Len(ofbuf)
      /\ emitted \in Seq(Numbers)
  BY Ages, LineCounts DEF LiveInv
<1>6. CASE job[Oldest] = "none"
  <2>1. job' = job /\ emitted' = emitted /\ Coding' = Coding
    BY <1>1, <1>2, <1>6 DEF Coding
  <2>2. \A t \in Threads : job[t] # "none" => slot'[t] = slot[t]
    BY <1>1, <1>6
  <2>3. Ring(young)'
    BY <1>1, <1>2, <1>3, <2>1 DEF Ring, Returning
  <2>4. InLine(line, young)'
    BY <1>1, <1>2, <1>3, <2>1, <2>2 DEF InLine
  <2> QED BY <1>2, <1>4, <1>5, <2>1, <2>3, <2>4 DEF InOneLine
<1>7. CASE job[Oldest] = "finished"
  <2>1. young + Coding = ThreadFrames /\ Coding # 0
    <3>1. Age(Oldest) \in young .. young + Coding - 1 /\ young + Coding <= ThreadFrames
      BY <1>1, <1>3, <1>7 DEF Ring
    <3> QED BY <1>5, <3>1
  <2>2. slot[Oldest].no = line[Len(emitted)]
    <3>1. slot[Oldest].no = line[Taken - 1 + young - Age(Oldest)]
      BY <1>1, <1>3, <1>7 DEF InLine
    <3>2. Taken - 1 + young - Age(Oldest) = Len(emitted)
      BY <1>5, <2>1
    <3> QED BY <3>1, <3>2
  <2>3. emitted' = Append(emitted, line[Len(emitted)])
    BY <1>1, <1>7, <2>2
  <2>4. line[Len(emitted)] \in Numbers
    BY <1>1, <2>2 DEF Frame
  <2>5. /\ Len(emitted') = Len(emitted) + 1
        /\ \A i \in 1 .. Len(emitted) + 1 : emitted'[i] = IF i <= Len(emitted) THEN emitted[i] ELSE line[Len(emitted)]
    BY <1>5, <2>3, <2>4, Pushed
  <2>6. Coding' = Coding - 1
    BY <1>2, <1>5, <2>5 DEF Coding
  <2>7. Ring(young)'
    <3>1. ASSUME NEW t \in Threads
          PROVE  job'[t] # "none" <=> Age(t)' \in young .. young + Coding' - 1
      <4>1. CASE t = Oldest
        <5>1. job'[t] = "none"
          BY <1>1, <4>1
        <5> QED BY <1>2, <1>5, <2>1, <2>6, <4>1, <5>1
      <4>2. CASE t # Oldest
        <5>1. job'[t] = job[t] /\ Age(t) # ThreadFrames - 1
          BY <1>1, <1>5, <4>2
        <5>2. job[t] # "none" <=> Age(t) \in young .. young + Coding - 1
          BY <1>3 DEF Ring
        <5> QED BY <1>2, <1>5, <2>1, <2>6, <5>1, <5>2
      <4> QED BY <4>1, <4>2
    <3>2. young + Coding' <= ThreadFrames
      BY <1>5, <2>1, <2>6
    <3> QED BY <1>1, <1>2, <1>3, <1>5, <2>1, <3>1, <3>2 DEF Ring, Returning
  <2>8. InLine(line, young)'
    <3>1. ASSUME NEW t \in Threads, job'[t] # "none"
          PROVE  slot'[t].no = line[Taken' - 1 + young - Age(t)']
      <4>1. t # Oldest
        BY <1>1, <3>1
      <4>2. job'[t] = job[t] /\ slot'[t] = slot[t]
        BY <1>1, <4>1
      <4> QED BY <1>2, <1>3, <3>1, <4>2 DEF InLine
    <3>2. \A i \in 1 .. Len(emitted') : emitted'[i] = line[i - 1]
      <4> TAKE i \in 1 .. Len(emitted')
      <4>1. CASE i <= Len(emitted)
        BY <1>3, <1>5, <2>5, <4>1, SMTT(30) DEF InLine
      <4>2. CASE i = Len(emitted) + 1
        BY <1>5, <2>5, <4>2
      <4> QED BY <1>5, <2>5, <4>1, <4>2
    <3> QED BY <1>1, <1>2, <1>3, <3>1, <3>2 DEF InLine
  <2>9. exitThread \/ Coding = ThreadFrames
    <3>1. exitThread \/ young = 0
      BY <1>1, <1>3, <2>1 DEF Ring, Returning
    <3> QED BY <1>5, <2>1, <3>1
  <2>10. Coding' \in Nat /\ Len(emitted) < Shipped
    BY <1>5, <2>1, <2>6
  <2>11. \A i \in 1 .. Len(emitted) : emitted[i] = line[i - 1]
    BY <1>3 DEF InLine
  <2> QED BY <1>2, <1>3, <1>4, <2>3, <2>7, <2>8, <2>9, <2>10, <2>11 DEF InOneLine
<1> QED BY <1>1, <1>6, <1>7
(* A minigop that has been decided joins the line.                           *)
LEMMA LineShipped ==
  ASSUME IInv, LiveInv, LaShip, Queued' = Queued
  PROVE  InOneLine' /\ Undecided' /\ Taken' = Taken
<1> DEFINE n == next[1].bf + 1
           minigop == SubSeq(next, 1, n)
<1>1. la = "ship" /\ Len(ofbuf) # OfbufMax /\ next # <<>> /\ n <= Len(next) /\ Head(next) = next[1]
  BY Lengths, Params, EmptySeq DEF LaShip, IInv, LaPhases, QueuedBound, Queued, TypeOK
<1>2. /\ ofbuf' = ofbuf \o minigop
      /\ next' = SubSeq(next, n + 1, Len(next))
      /\ enc' = EncAfterFill /\ la' \in {"loop", "decide", "exit"}
      /\ UNCHANGED <<ifbuf, threadActive, draining, job, exitThread, input, current, phase, slot, emitted>>
  BY <1>1 DEF LaShip
<1>3. next[1].bf \in 0 .. BFrames /\ n \in 1 .. Len(next) /\ Len(next) \in Nat /\ BFrames \in Nat
  <2>1. Len(next) \in Nat \ {0}
    BY <1>1, EmptySeq DEF IInv, TypeOK
  <2>2. next[1] \in Frame
    BY <2>1, ElementOfSeq DEF IInv, TypeOK
  <2> QED BY <1>1, <2>1, <2>2, ParamAssumption DEF Frame
<1>4. /\ next[1].no = Shipped + n - 1
      /\ \A i \in 2 .. n : next[i].no \in Shipped .. Shipped + n - 2
      /\ \A i, j \in 2 .. n : next[i].no = next[j].no => i = j
      /\ \A i \in n + 1 .. Len(next) : next[i].no = Shipped + i - 1
      /\ \A i \in 1 .. Len(ifbuf) : ifbuf[i].no = Shipped + Len(next) + i - 1
  <2> DEFINE m == IF la = "ship" THEN next[1].bf + 1 ELSE 0
  <2>1. m = n
    BY <1>1
  <2>2. /\ \A i \in m + 1 .. Len(next) : next[i].no = Shipped + i - 1
        /\ \A i \in 1 .. Len(ifbuf) : ifbuf[i].no = Shipped + Len(next) + i - 1
        /\ m > 0 => next[1].no = Shipped + m - 1
        /\ \A i \in 2 .. m : next[i].no \in Shipped .. Shipped + m - 2
        /\ \A i, j \in 2 .. m : next[i].no = next[j].no => i = j
    BY DEF LiveInv, Undecided
  <2> HIDE DEF m, n
  <2> QED BY <1>3, <2>1, <2>2
<1>20. n = next[1].bf + 1 /\ n - 1 \in 0 .. BFrames
  BY <1>3
<1> HIDE DEF n
<1>5. /\ minigop \in Seq(Frame) /\ Len(minigop) = n
      /\ \A i \in 1 .. n : minigop[i] = next[i]
      /\ next' \in Seq(Frame) /\ Len(next') = Len(next) - n
      /\ \A i \in 1 .. Len(next) - n : next'[i] = next[n + i]
  <2>1. n \in 0 .. Len(next)
    BY <1>3
  <2> QED BY <1>2, <2>1, Cut DEF IInv, TypeOK
<1> HIDE DEF minigop
<1>6. /\ Len(ofbuf) \in Nat /\ Len(ofbuf') = Len(ofbuf) + n
      /\ \A i \in 1 .. Len(ofbuf) + n : ofbuf'[i] = IF i <= Len(ofbuf) THEN ofbuf[i] ELSE next[i - Len(ofbuf)]
  <2>1. /\ ofbuf \in Seq(Frame) /\ Len(ofbuf) \in Nat
    BY LineCounts DEF IInv, TypeOK
  <2>2. /\ Len(ofbuf') = Len(ofbuf) + n
        /\ \A i \in 1 .. Len(ofbuf) + n : ofbuf'[i] = IF i <= Len(ofbuf) THEN ofbuf[i] ELSE minigop[i - Len(ofbuf)]
    <3>1. /\ Len(ofbuf \o minigop) = Len(ofbuf) + Len(minigop)
          /\ \A i \in 1 .. Len(ofbuf) + Len(minigop) :
               (ofbuf \o minigop)[i] = IF i <= Len(ofbuf) THEN ofbuf[i] ELSE minigop[i - Len(ofbuf)]
      BY <1>5, <2>1, ConcatProperties
    <3> QED BY <1>2, <1>5, <3>1
  <2> QED BY <1>3, <1>5, <2>1, <2>2
<1>7. /\ Taken' = Taken /\ Shipped' = Shipped + n /\ Coding' = Coding
      /\ \A t \in Threads : Age(t)' = Age(t)
      /\ Taken \in Nat /\ Shipped \in Nat /\ Len(current) \in Nat
      /\ Shipped = Taken + Len(current) + Len(ofbuf) /\ Len(emitted) \in Nat /\ Coding \in Nat
      /\ Taken = Coding + Len(emitted) /\ Len(ifbuf) \in Nat
      /\ (enc' \in Returning <=> enc \in Returning)
  <2>1. Put' = Put
    BY <1>2 DEF Put, Putting, EncAfterFill
  <2>2. Taken' = Taken /\ Coding' = Coding
    BY <1>2, <2>1 DEF Taken, Coding
  <2>3. Shipped = Put - Len(next) - Len(ifbuf) /\ Shipped' = Put - Len(next') - Len(ifbuf)
    BY <1>2, <2>1 DEF Shipped
  <2>4. Put \in Nat /\ Len(ifbuf) \in Nat
    BY LineCounts
  <2>5. Shipped' = Shipped + n
    BY <1>3, <1>5, <2>3, <2>4
  <2> QED BY <1>2, <2>2, <2>5, LineCounts DEF LiveInv, Age, EncAfterFill, Returning
<1>8. PICK young \in 0 .. ThreadFrames, line \in [0 .. Shipped - 1 -> 0 .. Shipped - 1] :
        CodedOrder(line) /\ Ring(young) /\ InLine(line, young)
  BY DEF LiveInv, InOneLine
<1>9. /\ \A p \in 0 .. Shipped - 1 : line[p] \in 0 .. Shipped - 1
      /\ \A p, q \in 0 .. Shipped - 1 : line[p] = line[q] => p = q
      /\ \A p \in 0 .. Shipped - 1 : MayCome(line, p)
      /\ \A t \in Threads : job[t] # "none" => Taken - 1 + young - Age(t) \in Len(emitted) .. Taken - 1
  <2>1. \A p \in 0 .. Shipped - 1 : MayCome(line, p)
    BY <1>8 DEF CodedOrder
  <2>2. Coding \in Nat
    BY <1>7
  <2>3. /\ \A p \in 0 .. Shipped - 1 : line[p] \in 0 .. Shipped - 1
        /\ \A p, q \in 0 .. Shipped - 1 : line[p] = line[q] => p = q
        /\ \A t \in Threads : job[t] # "none" => Taken - 1 + young - Age(t) \in Len(emitted) .. Taken - 1
    BY <1>8, <2>2, LineOf
  <2> QED BY <2>1, <2>3
<1>21. PICK longer : longer = [p \in 0 .. Shipped' - 1 |-> IF p < Shipped THEN line[p] ELSE next[p - Shipped + 1].no]
  OBVIOUS
<1>22. /\ n \in Nat \ {0} /\ Shipped \in Nat /\ Shipped' = Shipped + n
       /\ Taken \in Nat /\ Len(current) \in Nat /\ Len(ofbuf) \in Nat
       /\ Shipped = Taken + Len(current) + Len(ofbuf)
  BY <1>3, <1>6, <1>7
<1>10. /\ \A p \in 0 .. Shipped - 1 : longer[p] = line[p]
       /\ \A i \in 1 .. n : longer[Shipped + i - 1] = next[i].no
       /\ longer[Shipped] = Shipped + n - 1
  <2>1. \A p \in 0 .. Shipped - 1 : longer[p] = line[p]
    BY <1>21, <1>22
  <2>2. ASSUME NEW i \in 1 .. n
        PROVE  longer[Shipped + i - 1] = next[i].no
    <3>1. /\ Shipped + i - 1 \in 0 .. Shipped' - 1 /\ ~(Shipped + i - 1 < Shipped)
          /\ (Shipped + i - 1) - Shipped + 1 = i
      BY <1>22
    <3> QED BY <1>21, <3>1
  <2>3. longer[Shipped] = next[1].no
    <3>1. 1 \in 1 .. n /\ Shipped + 1 - 1 = Shipped
      BY <1>22
    <3> QED BY <2>2, <3>1
  <2> QED BY <1>4, <2>1, <2>2, <2>3
<1>11. /\ \A i \in 1 .. n : next[i].no \in Shipped .. Shipped' - 1
       /\ \A i, j \in 1 .. n : next[i].no = next[j].no => i = j
  <2>1. \A i \in 1 .. n : i = 1 \/ i \in 2 .. n
    BY <1>22
  <2>2. \A i \in 2 .. n : next[i].no \in Shipped .. Shipped + n - 2
    BY <1>4
  <2>3. \A i \in 1 .. n : next[i].no \in Shipped .. Shipped' - 1
    BY <1>4, <1>22, <2>1, <2>2
  <2>4. \A i \in 2 .. n : next[i].no # next[1].no
    BY <1>4, <1>22, <2>2
  <2> QED BY <1>4, <2>1, <2>3, <2>4
<1>12. \A p \in 0 .. Shipped' - 1 : p \in 0 .. Shipped - 1 \/ (p - Shipped + 1 \in 1 .. n /\ p = Shipped + (p - Shipped + 1) - 1)
  BY <1>22
<1>13. longer \in [0 .. Shipped' - 1 -> 0 .. Shipped' - 1]
  <2>1. ASSUME NEW p \in 0 .. Shipped' - 1
        PROVE  (IF p < Shipped THEN line[p] ELSE next[p - Shipped + 1].no) \in 0 .. Shipped' - 1
    <3>1. CASE p \in 0 .. Shipped - 1
      BY <1>9, <1>22, <3>1
    <3>2. CASE p - Shipped + 1 \in 1 .. n /\ ~(p < Shipped)
      BY <1>11, <1>22, <3>2
    <3> QED BY <1>22, <3>1, <3>2
  <2> QED BY <1>21, <2>1
<1>14. \A p, q \in 0 .. Shipped' - 1 : longer[p] = longer[q] => p = q
  <2>1. ASSUME NEW p \in 0 .. Shipped' - 1, NEW q \in 0 .. Shipped' - 1, longer[p] = longer[q]
        PROVE  p = q
    <3> DEFINE i == p - Shipped + 1
               j == q - Shipped + 1
    <3>1. CASE p \in 0 .. Shipped - 1 /\ q \in 0 .. Shipped - 1
      BY <1>9, <1>10, <2>1, <3>1
    <3>2. CASE p \in 0 .. Shipped - 1 /\ j \in 1 .. n /\ q = Shipped + j - 1
      <4>1. longer[p] \in 0 .. Shipped - 1 /\ longer[q] \in Shipped .. Shipped' - 1
        <5> HIDE DEF j
        <5> QED BY <1>9, <1>10, <1>11, <3>2
      <4> QED BY <1>7, <2>1, <4>1
    <3>3. CASE q \in 0 .. Shipped - 1 /\ i \in 1 .. n /\ p = Shipped + i - 1
      <4>1. longer[q] \in 0 .. Shipped - 1 /\ longer[p] \in Shipped .. Shipped' - 1
        <5> HIDE DEF i
        <5> QED BY <1>9, <1>10, <1>11, <3>3
      <4> QED BY <1>7, <2>1, <4>1
    <3>4. CASE i \in 1 .. n /\ p = Shipped + i - 1 /\ j \in 1 .. n /\ q = Shipped + j - 1
      <4>1. next[i].no = next[j].no
        <5> HIDE DEF i, j
        <5> QED BY <1>10, <2>1, <3>4
      <4>2. i = j
        <5> HIDE DEF i, j
        <5> QED BY <1>11, <3>4, <4>1
      <4> QED BY <1>7, <3>4, <4>2
    <3> QED BY <1>12, <3>1, <3>2, <3>3, <3>4
  <2> QED BY <2>1
<1>15. \A p \in 0 .. Shipped' - 1 : MayCome(longer, p)
  <2> TAKE p \in 0 .. Shipped' - 1
  <2>1. CASE p \in 0 .. Shipped - 1
    <3>1. longer[p] = line[p] /\ \A q \in 0 .. p - 1 : longer[q] = line[q]
      BY <1>7, <1>10, <2>1
    <3>2. MayCome(line, p)
      BY <1>9, <2>1
    <3> QED BY <3>1, <3>2 DEF MayCome
  <2>2. CASE p = Shipped
    <3>1. longer[p] \in p .. p + BFrames
      <4>1. longer[p] = p + (n - 1) /\ n - 1 \in 0 .. BFrames /\ BFrames \in Nat
        BY <1>3, <1>10, <1>20, <1>22, <2>2
      <4> QED BY <1>22, <2>2, <4>1
    <3>2. \A q \in 0 .. p - 1 : longer[q] < p
      BY <1>7, <1>9, <1>10, <2>2
    <3> QED BY <3>1, <3>2 DEF MayCome
  <2>3. CASE p > Shipped
    <3> DEFINE i == p - Shipped + 1
    <3>1. i \in 2 .. n /\ p = Shipped + i - 1
      <4>1. p \in 0 .. Shipped + n - 1
        BY <1>22
      <4> QED BY <1>22, <2>3, <4>1
    <3> HIDE DEF i
    <3>2. longer[p] = next[i].no /\ next[i].no \in Shipped .. Shipped + n - 2
      BY <1>3, <1>4, <1>10, <3>1
    <3>3. Shipped \in 0 .. p - 1 /\ longer[p] < longer[Shipped]
      <4>1. Shipped \in 0 .. p - 1
        BY <1>22, <2>3
      <4>2. longer[Shipped] = Shipped + n - 1 /\ longer[p] \in Shipped .. Shipped + n - 2
        BY <1>10, <3>2
      <4> QED BY <1>22, <4>1, <4>2
    <3> QED BY <3>3 DEF MayCome
  <2> QED BY <1>7, <2>1, <2>2, <2>3
<1>16. CodedOrder(longer)'
  <2>1. DOMAIN longer = 0 .. Shipped' - 1
    BY <1>13
  <2>2. IsInjective(longer)
    BY <1>14, <2>1 DEF IsInjective
  <2> QED BY <1>13, <1>15, <2>2 DEF CodedOrder, MayCome
<1>17. Ring(young)'
  <2>1. Queued' = Queued /\ exitThread' = exitThread /\ UNCHANGED job
    BY <1>2
  <2> QED BY <1>7, <1>8, <2>1 DEF Ring
<1>18. InLine(longer, young)'
  <2>1. \A i \in 1 .. Len(emitted) : emitted[i] = longer[i - 1]
    <3> TAKE i \in 1 .. Len(emitted)
    <3>1. emitted[i] = line[i - 1] /\ i - 1 \in 0 .. Shipped - 1
      BY <1>6, <1>7, <1>8 DEF InLine
    <3> QED BY <1>10, <3>1
  <2>2. \A t \in Threads : job[t] # "none" => slot[t].no = longer[Taken - 1 + young - Age(t)]
    <3> TAKE t \in Threads
    <3> HAVE job[t] # "none"
    <3>1. slot[t].no = line[Taken - 1 + young - Age(t)]
      BY <1>8 DEF InLine
    <3>2. Taken - 1 + young - Age(t) \in 0 .. Shipped - 1
      BY <1>6, <1>7, <1>9
    <3> QED BY <1>10, <3>1, <3>2
  <2>3. \A i \in 1 .. Len(current) : current[i].no = longer[Taken + i - 1]
    <3> TAKE i \in 1 .. Len(current)
    <3>1. current[i].no = line[Taken + i - 1] /\ Taken + i - 1 \in 0 .. Shipped - 1
      BY <1>6, <1>7, <1>8 DEF InLine
    <3> QED BY <1>10, <3>1
  <2>4. \A i \in 1 .. Len(ofbuf') : ofbuf'[i].no = longer[Taken + Len(current) + i - 1]
    <3> TAKE i \in 1 .. Len(ofbuf')
    <3>1. CASE i <= Len(ofbuf)
      <4>1. ofbuf'[i] = ofbuf[i] /\ i \in 1 .. Len(ofbuf)
        BY <1>3, <1>6, <3>1
      <4>2. ofbuf[i].no = line[Taken + Len(current) + i - 1]
        BY <1>8, <4>1 DEF InLine
      <4>3. Taken + Len(current) + i - 1 \in 0 .. Shipped - 1
        BY <1>22, <4>1
      <4> QED BY <1>10, <4>1, <4>2, <4>3
    <3>2. CASE i > Len(ofbuf)
      <4> DEFINE j == i - Len(ofbuf)
      <4>1. ofbuf'[i] = next[j] /\ j \in 1 .. n /\ Taken + Len(current) + i - 1 = Shipped + j - 1
        <5>1. i \in 1 .. Len(ofbuf) + n /\ ~(i <= Len(ofbuf))
          BY <1>6, <1>22, <3>2
        <5>2. ofbuf'[i] = next[j]
          BY <1>6, <5>1
        <5> QED BY <1>22, <5>1, <5>2
      <4> HIDE DEF j
      <4>2. longer[Shipped + j - 1] = next[j].no
        BY <1>10, <4>1
      <4> QED BY <4>1, <4>2
    <3> QED BY <1>6, <3>1, <3>2
  <2> QED BY <1>2, <1>7, <2>1, <2>2, <2>3, <2>4 DEF InLine
<1>19. Undecided'
  <2>1. \A i \in 1 .. Len(next') : next'[i].no = Shipped' + i - 1
    <3> TAKE i \in 1 .. Len(next')
    <3>1. next'[i] = next[n + i] /\ n + i \in n + 1 .. Len(next)
      BY <1>3, <1>5
    <3>2. next[n + i].no = Shipped + (n + i) - 1
      BY <1>4, <3>1
    <3>3. i \in Nat /\ Shipped + (n + i) - 1 = Shipped' + i - 1
      BY <1>22
    <3> QED BY <3>1, <3>2, <3>3
  <2>2. \A i \in 1 .. Len(ifbuf) : ifbuf[i].no = Shipped' + Len(next') + i - 1
    <3>1. Shipped' + Len(next') = Shipped + Len(next)
      BY <1>3, <1>5, <1>22
    <3> QED BY <1>4, <3>1
  <2> DEFINE m == IF la' = "ship" THEN next'[1].bf + 1 ELSE 0
  <2>3. m = 0
    BY <1>2
  <2> HIDE DEF m
  <2>4. \A i \in m + 1 .. Len(next') : next'[i].no = Shipped' + i - 1
    BY <2>1, <2>3
  <2>5. 2 .. m = {} /\ ~(m > 0)
    BY <2>3
  <2> QED BY <1>2, <2>2, <2>4, <2>5 DEF Undecided, m
<1> QED BY <1>7, <1>8, <1>13, <1>16, <1>17, <1>18, <1>19 DEF InOneLine
(* Pictures move from ifbuf to next, in order.                               *)
LEMMA UndecidedMoved ==
  ASSUME IInv, LiveInv, la # "ship", la' # "ship", NEW n \in 0 .. Len(ifbuf),
         Shipped' = Shipped, Len(next') = Len(next) + n, Len(ifbuf') = Len(ifbuf) - n,
         \A i \in 1 .. Len(next) + n :
           next'[i] = IF i <= Len(next) THEN next[i] ELSE ifbuf[i - Len(next)],
         \A i \in 1 .. Len(ifbuf) - n : ifbuf'[i] = ifbuf[n + i]
  PROVE  Undecided'
<1>1. /\ \A i \in 1 .. Len(next) : next[i].no = Shipped + i - 1
      /\ \A i \in 1 .. Len(ifbuf) : ifbuf[i].no = Shipped + Len(next) + i - 1
      /\ Len(next) \in Nat /\ Len(ifbuf) \in Nat /\ Shipped \in Nat
  <2> DEFINE m == IF la = "ship" THEN next[1].bf + 1 ELSE 0
  <2>1. m = 0
    OBVIOUS
  <2>2. /\ \A i \in m + 1 .. Len(next) : next[i].no = Shipped + i - 1
        /\ \A i \in 1 .. Len(ifbuf) : ifbuf[i].no = Shipped + Len(next) + i - 1
    BY DEF LiveInv, Undecided
  <2>3. Len(next) \in Nat /\ Len(ifbuf) \in Nat /\ Shipped \in Nat
    BY LineCounts
  <2> HIDE DEF m
  <2>4. \A i \in 1 .. Len(next) : next[i].no = Shipped + i - 1
    BY <2>1, <2>2
  <2> QED BY <2>2, <2>3, <2>4
<1>2. ASSUME NEW i \in 1 .. Len(next')
      PROVE  next'[i].no = Shipped' + i - 1
  <2>1. CASE i <= Len(next)
    <3>1. i \in 1 .. Len(next) /\ next'[i] = next[i]
      BY <1>1, <2>1
    <3> QED BY <1>1, <3>1
  <2>2. CASE ~(i <= Len(next))
    <3> DEFINE k == i - Len(next)
    <3>1. k \in 1 .. Len(ifbuf) /\ next'[i] = ifbuf[k] /\ Shipped + Len(next) + k - 1 = Shipped + i - 1
      <4>1. i \in 1 .. Len(next) + n
        OBVIOUS
      <4>2. next'[i] = ifbuf[k]
        BY <2>2, <4>1
      <4> QED BY <1>1, <2>2, <4>1, <4>2
    <3> HIDE DEF k
    <3> QED BY <1>1, <3>1
  <2> QED BY <2>1, <2>2
<1>3. ASSUME NEW i \in 1 .. Len(ifbuf')
      PROVE  ifbuf'[i].no = Shipped' + Len(next') + i - 1
  <2>1. /\ n + i \in 1 .. Len(ifbuf) /\ ifbuf'[i] = ifbuf[n + i]
        /\ Shipped + Len(next) + (n + i) - 1 = Shipped' + Len(next') + i - 1
    BY <1>1
  <2> QED BY <1>1, <2>1
<1> DEFINE m == IF la' = "ship" THEN next'[1].bf + 1 ELSE 0
<1>4. m = 0 /\ 2 .. m = {} /\ ~(m > 0)
  OBVIOUS
<1> HIDE DEF m
<1>5. \A i \in m + 1 .. Len(next') : next'[i].no = Shipped' + i - 1
  BY <1>2, <1>4
<1> QED BY <1>3, <1>4, <1>5 DEF Undecided, m

LEMMA UndecidedKept ==
  ASSUME LiveInv, UNCHANGED <<ifbuf, next, Shipped>>, la' = "ship" <=> la = "ship"
  PROVE  Undecided'
BY DEF LiveInv, Undecided

(* The slice type decision puts the frames of a minigop in coded order.      *)
LEMMA MinigopDecided ==
  ASSUME IInv, LiveInv, LaDecide, Shipped' = Shipped
  PROVE  Undecided'
<1>1. /\ la = "decide" /\ la' = "ship" /\ ifbuf' = ifbuf
      /\ \E k \in 0 .. Minimum(BFrames, Len(next) - 1) : \E p \in CodedOrders(k) :
           next' = [i \in DOMAIN next |->
                      IF i = 1 THEN [next[k + 1] EXCEPT !.bf = k]
                      ELSE IF i <= k + 1 THEN next[p[i]] ELSE next[i]]
  BY DEF LaDecide
<1>2. PICK k \in 0 .. Minimum(BFrames, Len(next) - 1) : \E p \in CodedOrders(k) :
        next' = [i \in DOMAIN next |->
                   IF i = 1 THEN [next[k + 1] EXCEPT !.bf = k]
                   ELSE IF i <= k + 1 THEN next[p[i]] ELSE next[i]]
  BY <1>1
<1>3. PICK p \in CodedOrders(k) :
        next' = [i \in DOMAIN next |->
                   IF i = 1 THEN [next[k + 1] EXCEPT !.bf = k]
                   ELSE IF i <= k + 1 THEN next[p[i]] ELSE next[i]]
  BY <1>2
<1>4. /\ Len(next) \in Nat \ {0} /\ DOMAIN next = 1 .. Len(next)
      /\ \A i \in 1 .. Len(next) : next[i] \in Frame
      /\ Len(ifbuf) \in Nat /\ Shipped \in Nat
  BY LineCounts, LenProperties, EmptySeq, ElementOfSeq DEF IInv, TypeOK, LaDecide
<1>5. k \in Nat /\ k + 1 \in 1 .. Len(next)
  BY <1>4, ParamAssumption DEF Minimum
<1>6. /\ \A i \in 1 .. Len(next) : next[i].no = Shipped + i - 1
      /\ \A i \in 1 .. Len(ifbuf) : ifbuf[i].no = Shipped + Len(next) + i - 1
  <2> DEFINE m == IF la = "ship" THEN next[1].bf + 1 ELSE 0
  <2>1. m = 0
    BY <1>1
  <2>2. /\ \A i \in m + 1 .. Len(next) : next[i].no = Shipped + i - 1
        /\ \A i \in 1 .. Len(ifbuf) : ifbuf[i].no = Shipped + Len(next) + i - 1
    BY DEF LiveInv, Undecided
  <2> HIDE DEF m
  <2> QED BY <2>1, <2>2
<1>7. /\ p \in [1 .. k + 1 -> 1 .. k + 1] /\ p[1] = k + 1
      /\ \A i, j \in 1 .. k + 1 : p[i] = p[j] => i = j
  <2>1. p \in [1 .. k + 1 -> 1 .. k + 1] /\ IsInjective(p) /\ p[1] = k + 1
    BY DEF CodedOrders
  <2> QED BY <2>1 DEF IsInjective
<1>8. \A i \in 2 .. k + 1 : p[i] \in 1 .. k /\ p[i] \in 1 .. Len(next)
  <2> TAKE i \in 2 .. k + 1
  <2>1. i \in 1 .. k + 1 /\ 1 \in 1 .. k + 1 /\ i # 1
    BY <1>5
  <2>2. p[i] \in 1 .. k + 1 /\ p[i] # k + 1
    BY <1>7, <2>1
  <2> QED BY <1>5, <2>2
<1>9. /\ Len(next') = Len(next) /\ next'[1].no = Shipped + k /\ next'[1].bf = k
      /\ \A i \in 2 .. k + 1 : next'[i] = next[p[i]]
      /\ \A i \in k + 2 .. Len(next) : next'[i] = next[i]
  <2>1. next'[1] = [next[k + 1] EXCEPT !.bf = k]
    BY <1>3, <1>4
  <2>2. next[k + 1].no = Shipped + (k + 1) - 1 /\ next[k + 1] \in Frame
    BY <1>4, <1>5, <1>6
  <2>3. next'[1].no = Shipped + k /\ next'[1].bf = k
    BY <1>4, <1>5, <2>1, <2>2 DEF Frame
  <2>4. \A i \in 2 .. k + 1 : next'[i] = next[p[i]]
    BY <1>3, <1>4, <1>5
  <2>5. \A i \in k + 2 .. Len(next) : next'[i] = next[i]
    BY <1>3, <1>4, <1>5
  <2>6. DOMAIN next' = 1 .. Len(next) /\ next' \in Seq(Frame)
    <3>1. next' \in Seq(Frame)
      BY LaDecideStep DEF IInv, TypeOK
    <3> QED BY <1>3, <1>4, <3>1
  <2>7. Len(next') = Len(next)
    BY <1>4, <2>6, LenProperties
  <2> QED BY <2>3, <2>4, <2>5, <2>7
<1> DEFINE n == IF la' = "ship" THEN next'[1].bf + 1 ELSE 0
<1>10. n = k + 1
  BY <1>1, <1>9
<1> HIDE DEF n
<1>11. \A i \in n + 1 .. Len(next') : next'[i].no = Shipped' + i - 1
  <2> TAKE i \in n + 1 .. Len(next')
  <2>1. i \in k + 2 .. Len(next) /\ i \in 1 .. Len(next)
    BY <1>4, <1>5, <1>9, <1>10
  <2> QED BY <1>6, <1>9, <2>1
<1>12. \A i \in 1 .. Len(ifbuf') : ifbuf'[i].no = Shipped' + Len(next') + i - 1
  BY <1>1, <1>6, <1>9
<1>13. n > 0 => next'[1].no = Shipped' + n - 1
  BY <1>4, <1>5, <1>9, <1>10
<1>14. \A i \in 2 .. n : next'[i].no = Shipped + p[i] - 1
  BY <1>6, <1>8, <1>9, <1>10
<1>15. \A i \in 2 .. n : next'[i].no \in Shipped' .. Shipped' + n - 2
  <2> TAKE i \in 2 .. n
  <2>1. p[i] \in 1 .. k /\ next'[i].no = Shipped + p[i] - 1
    BY <1>8, <1>10, <1>14
  <2> QED BY <1>4, <1>5, <1>10, <2>1
<1>16. \A i, j \in 2 .. n : next'[i].no = next'[j].no => i = j
  <2> TAKE i, j \in 2 .. n
  <2>1. p[i] \in 1 .. k /\ next'[i].no = Shipped + p[i] - 1 /\ p[j] \in 1 .. k /\ next'[j].no = Shipped + p[j] - 1
    BY <1>8, <1>10, <1>14
  <2>2. i \in 1 .. k + 1 /\ j \in 1 .. k + 1
    BY <1>5, <1>10
  <2>3. next'[i].no = next'[j].no => p[i] = p[j]
    BY <1>4, <2>1
  <2> QED BY <1>7, <2>2, <2>3
<1> QED BY <1>11, <1>12, <1>13, <1>15, <1>16 DEF Undecided, n
LEMMA LagKept ==
  ASSUME Lag, UNCHANGED <<Queued, input>>, ~exitThread' => ~exitThread,
         enc' \in Returning <=> enc \in Returning, enc' \in Putting <=> enc \in Putting
  PROVE  Lag'
BY DEF Lag, Minimum, Warmup, Delay

(* The steps of the lookahead thread.                                        *)
LEMMA LineLaStep ==
  ASSUME IInv, IInv', LiveInv, LaStep
  PROVE  LiveInv' /\ UNCHANGED <<input, emitted, exitThread>>
<1>1. /\ UNCHANGED <<input, emitted, exitThread, job, slot, phase, current>>
      /\ enc' \in Returning <=> enc \in Returning
      /\ enc' \in Putting <=> enc \in Putting
  <2>1. /\ UNCHANGED <<input, emitted, exitThread, job, slot, phase, current>>
        /\ enc' \in {enc, EncAfterShift, EncAfterFill}
    BY DEF LaStep, LaLoop, LaFill, LaIfWoken, LaDecide, LaShip, LaDrain, LaExit, encVars
  <2> QED BY <2>1 DEF EncAfterShift, EncAfterFill, Returning, Putting
<1>2. Queued' = Queued
  <2>1. LaFill \/ LaDrain \/ LaDecide \/ LaShip => Queued' = Queued
    BY LaFillStep, LaDrainStep, LaDecideStep, LaShipStep
  <2>2. LaLoop \/ LaIfWoken \/ LaExit => Queued' = Queued
    BY QueuesUnchanged DEF LaLoop, LaIfWoken, LaExit, encVars
  <2> QED BY <2>1, <2>2 DEF LaStep
<1>3. Lag'
  BY <1>1, <1>2, LagKept DEF LiveInv
<1>4. Put' = Put /\ Taken' = Taken /\ Coding' = Coding
  BY <1>1, <1>2 DEF Put, Taken, Coding
<1>5. CASE LaShip
  BY <1>1, <1>2, <1>3, <1>4, <1>5, LineShipped DEF LiveInv
<1>6. CASE LaLoop \/ LaIfWoken \/ LaExit
  <2>1. UNCHANGED <<ifbuf, next, ofbuf>> /\ la # "ship" /\ la' # "ship"
    BY <1>6 DEF LaLoop, LaIfWoken, LaExit, encVars
  <2>2. Shipped' = Shipped
    BY <1>4, <2>1 DEF Shipped
  <2>3. InOneLine'
    BY <1>1, <1>2, <1>4, <2>1, <2>2, LineKept DEF LiveInv
  <2> QED BY <1>1, <1>3, <1>4, <2>1, <2>2, <2>3, UndecidedKept DEF LiveInv
<1>7. CASE LaDecide
  <2>1. UNCHANGED <<ifbuf, ofbuf>> /\ Len(next') = Len(next)
    <3>1. UNCHANGED <<ifbuf, ofbuf>>
      BY <1>7 DEF LaDecide
    <3>2. Len(next) \in Nat /\ Len(next') \in Nat /\ Len(ifbuf) \in Nat /\ Len(ofbuf) \in Nat /\ Len(current) \in Nat
      BY LineCounts, Lengths DEF IInv, TypeOK
    <3>3. Len(ifbuf) + Len(next) + Len(ofbuf) + Len(current) = Len(ifbuf) + Len(next') + Len(ofbuf) + Len(current)
      BY <1>1, <1>2, <3>1 DEF Queued
    <3> QED BY <3>1, <3>2, <3>3
  <2>2. Shipped' = Shipped
    BY <1>4, <2>1 DEF Shipped
  <2>3. InOneLine'
    BY <1>1, <1>2, <1>4, <2>1, <2>2, LineKept DEF LiveInv
  <2> QED BY <1>1, <1>3, <1>4, <1>7, <2>2, <2>3, MinigopDecided DEF LiveInv
<1>8. CASE LaFill \/ LaDrain
  <2>1. PICK n \in 0 .. Len(ifbuf) :
          /\ Len(next') = Len(next) + n /\ Len(ifbuf') = Len(ifbuf) - n
          /\ \A i \in 1 .. Len(next) + n :
               next'[i] = IF i <= Len(next) THEN next[i] ELSE ifbuf[i - Len(next)]
          /\ \A i \in 1 .. Len(ifbuf) - n : ifbuf'[i] = ifbuf[n + i]
    <3>1. CASE LaFill
      <4> DEFINE n == Minimum(NextMax - Len(next), Len(ifbuf))
      <4>1. n \in 0 .. Len(ifbuf)
        BY Lengths, Params DEF IInv, ListsFit, Minimum
      <4>2. next' = next \o SubSeq(ifbuf, 1, n) /\ ifbuf' = SubSeq(ifbuf, n + 1, Len(ifbuf))
        BY <3>1 DEF LaFill
      <4> HIDE DEF n
      <4>3. /\ SubSeq(ifbuf, 1, n) \in Seq(Frame) /\ Len(SubSeq(ifbuf, 1, n)) = n
            /\ \A i \in 1 .. n : SubSeq(ifbuf, 1, n)[i] = ifbuf[i]
            /\ Len(ifbuf') = Len(ifbuf) - n /\ \A i \in 1 .. Len(ifbuf) - n : ifbuf'[i] = ifbuf[n + i]
        BY <4>1, <4>2, Cut DEF IInv, TypeOK
      <4>4. /\ Len(next') = Len(next) + n
            /\ \A i \in 1 .. Len(next) + n :
                 next'[i] = IF i <= Len(next) THEN next[i] ELSE SubSeq(ifbuf, 1, n)[i - Len(next)]
        <5> DEFINE part == SubSeq(ifbuf, 1, n)
        <5>1. part \in Seq(Frame) /\ Len(part) = n /\ next \in Seq(Frame)
          BY <4>3 DEF IInv, TypeOK
        <5>2. next' = next \o part
          BY <4>2
        <5> HIDE DEF part
        <5>3. /\ Len(next') = Len(next) + n
              /\ \A i \in 1 .. Len(next) + n : next'[i] = IF i <= Len(next) THEN next[i] ELSE part[i - Len(next)]
          BY <5>1, <5>2, ConcatProperties
        <5> QED BY <5>3 DEF part
      <4>5. ASSUME NEW i \in 1 .. Len(next) + n
            PROVE  next'[i] = IF i <= Len(next) THEN next[i] ELSE ifbuf[i - Len(next)]
        <5>1. Len(next) \in Nat /\ (~(i <= Len(next)) => i - Len(next) \in 1 .. n)
          BY <4>1, LineCounts
        <5> QED BY <4>3, <4>4, <5>1
      <4> QED BY <4>1, <4>3, <4>4, <4>5
    <3>2. CASE LaDrain
      <4>1. next' = next \o ifbuf /\ ifbuf' = <<>> /\ Len(ifbuf) \in Nat
        BY <3>2, LineCounts DEF LaDrain
      <4>2. /\ Len(next') = Len(next) + Len(ifbuf)
            /\ \A i \in 1 .. Len(next) + Len(ifbuf) :
                 next'[i] = IF i <= Len(next) THEN next[i] ELSE ifbuf[i - Len(next)]
        BY <4>1, ConcatProperties DEF IInv, TypeOK
      <4>3. Len(ifbuf') = Len(ifbuf) - Len(ifbuf) /\ 1 .. Len(ifbuf) - Len(ifbuf) = {} /\ Len(ifbuf) \in 0 .. Len(ifbuf)
        BY <4>1, EmptySeq
      <4> QED BY <4>2, <4>3
    <3> QED BY <1>8, <3>1, <3>2
  <2>2. ofbuf' = ofbuf /\ la # "ship" /\ la' # "ship"
    BY <1>8 DEF LaFill, LaDrain
  <2>3. Shipped' = Shipped
    <3>1. Put \in Nat /\ Len(next) \in Nat /\ Len(ifbuf) \in Nat
      BY LineCounts
    <3>2. Put' - Len(next') - Len(ifbuf') = Put - Len(next) - Len(ifbuf)
      BY <1>4, <2>1, <3>1
    <3> QED BY <3>2 DEF Shipped
  <2>4. InOneLine'
    BY <1>1, <1>2, <1>4, <2>2, <2>3, LineKept DEF LiveInv
  <2>5. Undecided'
    BY <2>1, <2>2, <2>3, UndecidedMoved
  <2> QED BY <1>1, <1>3, <1>4, <2>4, <2>5 DEF LiveInv
<1> QED BY <1>1, <1>5, <1>6, <1>7, <1>8 DEF LaStep
(* The steps of the caller and of the frame threads.                         *)
LEMMA LineCallStep ==
  ASSUME IInv, IInv', LiveInv, Live',
         \/ Caller \/ PutFrame \/ PutCast \/ GetFrames \/ TakeNothing \/ TakeFails \/ Joined
         \/ (\E t \in Threads : FinishJob(t)) \/ Closed \/ UNCHANGED vars
  PROVE  LiveInv'
<1>1. ~(EncodeError \/ Close \/ TakeFails \/ Joined \/ Closed)
  BY DEF Live, EncodeError, Close, TakeFails, Joined, Closed, vars
<1>2. CASE EncodePicture
  <2>1. /\ enc = "idle" /\ enc' = "put" /\ input' = input + 1 /\ phase' = NextPhase(phase) /\ ~exitThread
        /\ UNCHANGED <<ifbuf, next, ofbuf, la, job, exitThread, current, slot, emitted>>
    BY <1>2 DEF EncodePicture, laVars
  <2>2. Queued' = Queued /\ input \in Nat
    BY <2>1, QueuesUnchanged, LineCounts
  <2>3. Put' = Put
    BY <2>1, <2>2 DEF Put, Putting
  <2>4. Taken' = Taken /\ Shipped' = Shipped /\ Coding' = Coding
    BY <2>1, <2>2, <2>3 DEF Taken, Shipped, Coding
  <2>5. InOneLine'
    BY <2>1, <2>2, <2>4, LineAged DEF Returning
  <2>6. Undecided'
    BY <2>1, <2>4, UndecidedKept
  <2>7. Lag'
    BY <2>1, <2>2, Params DEF LiveInv, Lag, Minimum, Returning, Putting, Warmup, Delay
  <2> QED BY <2>1, <2>4, <2>5, <2>6, <2>7 DEF LiveInv
<1>3. CASE EncodeFlush
  <2>1. /\ enc = "idle" /\ enc' = "get" /\ phase' = NextPhase(phase) /\ exitThread'
        /\ UNCHANGED <<ifbuf, next, ofbuf, input, job, current, slot, emitted>>
        /\ la' = "ship" <=> la = "ship"
    BY <1>3 DEF EncodeFlush, LaAfterFill
  <2>2. Queued' = Queued /\ input \in Nat
    BY <2>1, QueuesUnchanged, LineCounts
  <2>3. Put' = Put
    BY <2>1 DEF Put, Putting
  <2>4. Taken' = Taken /\ Shipped' = Shipped /\ Coding' = Coding
    BY <2>1, <2>2, <2>3 DEF Taken, Shipped, Coding
  <2>5. InOneLine'
    BY <2>1, <2>2, <2>4, LineAged DEF Returning
  <2>6. Undecided'
    BY <2>1, <2>4, UndecidedKept
  <2>7. exitThread' = TRUE
    BY <1>3 DEF EncodeFlush
  <2>8. Lag'
    BY <2>7 DEF Lag
  <2> QED BY <2>1, <2>4, <2>5, <2>6, <2>7, <2>8 DEF LiveInv
<1>4. CASE PutFrame
  <2>1. /\ enc \in {"put", "putWoken"} /\ (la' = "ship" <=> la = "ship")
        /\ UNCHANGED <<next, ofbuf, la, job, exitThread, input, current, phase, slot, emitted>>
        /\ \/ enc' = "putWait" /\ UNCHANGED ifbuf
           \/ enc' = "putCast" /\ ifbuf' = Append(ifbuf, [no |-> input - 1, bf |-> 0])
    BY <1>4 DEF PutFrame, laVars
  <2>2. CASE enc' = "putWait" /\ UNCHANGED ifbuf
    <3>1. Queued' = Queued
      BY <2>1, <2>2, QueuesUnchanged
    <3>2. Put' = Put /\ Taken' = Taken /\ Shipped' = Shipped /\ Coding' = Coding
      BY <2>1, <2>2, <3>1 DEF Put, Putting, Taken, Shipped, Coding
    <3>3. InOneLine'
      BY <2>1, <2>2, <3>1, <3>2, LineKept DEF LiveInv, Returning
    <3>4. Undecided' /\ Lag'
      BY <2>1, <2>2, <3>1, <3>2, UndecidedKept, LagKept DEF LiveInv, Returning, Putting
    <3> QED BY <2>1, <3>2, <3>3, <3>4 DEF LiveInv
  <2>3. CASE enc' = "putCast" /\ ifbuf' = Append(ifbuf, [no |-> input - 1, bf |-> 0])
    <3> DEFINE f == [no |-> input - 1, bf |-> 0]
    <3>1. f \in Frame
      <4>1. input >= 1 /\ input \in 0 .. MaxInput
        BY <2>1, Lengths DEF IInv, TypeOK, QueuedBound, Queued, Putting
      <4> QED BY <4>1, ParamAssumption DEF Frame, Numbers
    <3>2. /\ Len(ifbuf') = Len(ifbuf) + 1
          /\ \A i \in 1 .. Len(ifbuf) + 1 : ifbuf'[i] = IF i <= Len(ifbuf) THEN ifbuf[i] ELSE f
      <4> HIDE DEF f
      <4>1. ifbuf' = Append(ifbuf, f)
        BY <2>3 DEF f
      <4> QED BY <3>1, <4>1, Pushed DEF IInv, TypeOK
    <3>3. Queued' = Queued + 1
      BY <2>1, <3>2, LineCounts DEF Queued
    <3>4. Put' = Put + 1 /\ Put = input - 1
      BY <2>1, <2>3, LineCounts DEF Put, Putting
    <3>5. Taken' = Taken /\ Shipped' = Shipped
      <4>1. /\ Put \in Nat /\ Queued \in Nat /\ Len(next) \in Nat /\ Len(ifbuf) \in Nat
        BY LineCounts
      <4>2. Put' - Queued' = Put - Queued
        BY <3>3, <3>4, <4>1
      <4>3. Put' - Len(next') - Len(ifbuf') = Put - Len(next) - Len(ifbuf)
        <5>1. Len(next') = Len(next)
          BY <2>1
        <5>2. Len(ifbuf') = Len(ifbuf) + 1
          BY <3>2
        <5> HIDE DEF f
        <5> QED BY <3>4, <4>1, <5>1, <5>2
      <4> QED BY <4>2, <4>3 DEF Taken, Shipped
    <3>6. Coding' = Coding
      BY <2>1, <3>5 DEF Coding
    <3>7. InOneLine'
      <4>1. ~exitThread /\ (enc' \in Returning <=> enc \in Returning)
        BY <2>1, <2>3 DEF IInv, EncPhases, Putting, Returning
      <4> QED BY <2>1, <3>5, <4>1, LineKept DEF LiveInv
    <3>8. Undecided'
      <4>1. /\ \A i \in 1 .. Len(ifbuf) : ifbuf[i].no = Shipped + Len(next) + i - 1
        BY DEF LiveInv, Undecided
      <4>2. /\ Put = Shipped + Len(next) + Len(ifbuf) /\ Len(ifbuf) \in Nat /\ Len(next) \in Nat /\ Shipped \in Nat
        BY LineCounts
      <4>3. \A i \in 1 .. Len(ifbuf') : ifbuf'[i].no = Shipped' + Len(next') + i - 1
        <5> TAKE i \in 1 .. Len(ifbuf')
        <5>1. CASE i <= Len(ifbuf)
          BY <2>1, <3>2, <3>5, <4>1, <4>2, <5>1
        <5>2. CASE i = Len(ifbuf) + 1
          <6>1. ifbuf'[i].no = Put
            BY <3>2, <3>4, <4>2, <5>2
          <6> QED BY <2>1, <3>5, <4>2, <5>2, <6>1
        <5> QED BY <3>2, <4>2, <5>1, <5>2
      <4> QED BY <2>1, <3>5, <4>3 DEF LiveInv, Undecided
    <3>9. Lag'
      <4>1. ~exitThread /\ exitThread' = exitThread /\ input' = input
        BY <2>1, <2>3 DEF IInv, EncPhases, Putting
      <4>2. Queued = Minimum(input - 1, Warmup) + 0
        BY <2>1, <4>1 DEF LiveInv, Lag, Returning, Putting
      <4>3. Queued' = Minimum(input - 1, Warmup) + 1
        <5> DEFINE m == Minimum(input - 1, Warmup)
        <5>1. m \in Int
          BY LineCounts, Params DEF Minimum
        <5> HIDE DEF m
        <5>2. Queued = m + 0
          BY <4>2 DEF m
        <5>3. Queued' = m + 1
          BY <3>3, <5>1, <5>2
        <5> QED BY <5>3 DEF m
      <4> QED BY <2>3, <4>1, <4>3 DEF Lag, Returning, Putting, Minimum, Warmup, Delay
    <3> QED BY <2>1, <3>6, <3>7, <3>8, <3>9 DEF LiveInv
  <2> QED BY <2>1, <2>2, <2>3
<1>5. CASE PutCast
  <2>1. /\ enc = "putCast" /\ enc' = (IF input <= Warmup THEN "idle" ELSE "get")
        /\ UNCHANGED <<ifbuf, next, ofbuf, job, exitThread, input, current, phase, slot, emitted>>
        /\ (la' = "ship" <=> la = "ship")
    BY <1>5 DEF PutCast, LaAfterFill
  <2>2. ~exitThread /\ Queued' = Queued /\ input \in Nat /\ Warmup \in Nat
    BY <2>1, QueuesUnchanged, LineCounts, Params DEF IInv, EncPhases
  <2>3. Put' = Put /\ Put = input
    BY <2>1, <2>2 DEF Put, Putting
  <2>4. Taken' = Taken /\ Shipped' = Shipped /\ Coding' = Coding
    BY <2>1, <2>2, <2>3 DEF Taken, Shipped, Coding
  <2>5. Queued = Minimum(input - 1, Warmup) + 1
    BY <2>1, <2>2 DEF LiveInv, Lag, Returning, Putting
  <2>6. input <= Warmup => Coding = 0
    <3> HAVE input <= Warmup
    <3>1. Queued = input
      BY <2>2, <2>5 DEF Minimum
    <3>2. Taken = 0
      BY <2>2, <2>3, <3>1 DEF Taken
    <3> QED BY <3>2, LineCounts DEF LiveInv
  <2>7. InOneLine'
    BY <2>1, <2>2, <2>4, <2>6, LineKept DEF LiveInv, Returning
  <2>8. Undecided'
    BY <2>1, <2>4, UndecidedKept
  <2>9. Lag'
    BY <2>1, <2>2, <2>5 DEF Lag, Returning, Putting, Minimum, Warmup, Delay
  <2> QED BY <2>1, <2>4, <2>7, <2>8, <2>9 DEF LiveInv
<1>6. CASE GetFrames
  <2>1. /\ enc \in {"get", "getWoken"} /\ enc' \in {"take", "getWait"}
        /\ UNCHANGED <<ifbuf, next, exitThread, input, emitted>> /\ (la' = "ship" <=> la = "ship")
    BY <1>6 DEF GetFrames, LaAfterTake
  <2>2. Queued' = Queued
    BY <1>6, GetFramesStep
  <2>3. InOneLine' /\ Taken' = Taken /\ Shipped' = Shipped
    BY <1>6, <2>2, LineMoved
  <2>4. Coding' = Coding
    BY <2>1, <2>3 DEF Coding
  <2>5. Undecided' /\ Lag'
    BY <2>1, <2>2, <2>3, UndecidedKept, LagKept DEF LiveInv, Returning, Putting
  <2> QED BY <2>1, <2>3, <2>4, <2>5 DEF LiveInv
<1>7. CASE TakeNothing
  <2>1. /\ enc = "take" /\ enc' = "end" /\ current = <<>> /\ next = <<>> /\ ofbuf = <<>>
        /\ UNCHANGED <<ifbuf, next, ofbuf, la, job, exitThread, input, current, phase, slot, emitted>>
    BY <1>7 DEF TakeNothing, LookaheadIsEmpty, laVars
  <2>2. exitThread /\ ifbuf = <<>>
    BY <2>1 DEF IInv, EncPhases, LaPhases
  <2>3. Queued' = Queued /\ Queued = 0
    BY <2>1, <2>2, QueuesUnchanged, EmptySeq DEF Queued
  <2>4. Put' = Put /\ Taken' = Taken /\ Shipped' = Shipped /\ Coding' = Coding
    BY <2>1, <2>3 DEF Put, Putting, Taken, Shipped, Coding
  <2>5. InOneLine'
    BY <2>1, <2>2, <2>3, <2>4, LineKept DEF LiveInv
  <2>6. Undecided'
    BY <2>1, <2>4, UndecidedKept
  <2>7. Lag'
    BY <2>1, <2>2 DEF Lag
  <2> QED BY <2>1, <2>4, <2>5, <2>6, <2>7 DEF LiveInv
<1>8. CASE (\E t \in Threads : FinishJob(t)) \/ UNCHANGED vars
  <2>1. UNCHANGED <<ifbuf, next, ofbuf, la, exitThread, enc, input, current, phase, slot, emitted>>
    BY <1>8 DEF FinishJob, laVars, encVars, vars
  <2>2. \A t \in Threads : job[t] # "none" <=> job'[t] # "none"
    BY <1>8 DEF FinishJob, vars, IInv, TypeOK
  <2>3. Queued' = Queued
    BY <2>1, QueuesUnchanged
  <2>4. Put' = Put /\ Taken' = Taken /\ Shipped' = Shipped /\ Coding' = Coding
    BY <2>1, <2>3 DEF Put, Taken, Shipped, Coding
  <2>5. InOneLine'
    BY <2>1, <2>2, <2>3, <2>4, LineKept DEF LiveInv
  <2>6. Undecided' /\ Lag'
    BY <2>1, <2>3, <2>4, UndecidedKept, LagKept DEF LiveInv
  <2> QED BY <2>1, <2>4, <2>5, <2>6 DEF LiveInv
<1> QED BY <1>1, <1>2, <1>3, <1>4, <1>5, <1>6, <1>7, <1>8 DEF Caller
(* The two steps that move a frame into and out of a frame thread.           *)
LEMMA LineTakeStep ==
  ASSUME IInv, IInv', LiveInv, TakeFrame
  PROVE  LiveInv'
<1>1. InOneLine' /\ Taken' = Taken + 1 /\ Queued' = Queued - 1 /\ Shipped' = Shipped
  BY LineTaken
<1>2. /\ enc = "take" /\ enc' = "end"
      /\ UNCHANGED <<ifbuf, next, ofbuf, la, exitThread, input, emitted>>
  BY DEF TakeFrame, laVars
<1>3. /\ Queued \in Nat /\ Taken \in Nat /\ Coding \in Nat /\ Len(emitted) \in Nat
      /\ input \in Nat /\ Warmup \in Nat
  BY LineCounts, Params DEF LiveInv
<1>4. Coding' \in Nat
  BY <1>1, <1>2, <1>3, LineCounts DEF Coding
<1>5. Undecided'
  BY <1>1, <1>2, UndecidedKept
<1>6. Lag'
  <2>1. CASE exitThread
    BY <1>2, <2>1 DEF Lag
  <2>2. CASE ~exitThread
    <3>1. input > Warmup
      BY <1>2, <2>2 DEF IInv, EncPhases, Calling
    <3>2. Queued = Minimum(input - 1, Warmup) + 1
      BY <1>2, <2>2 DEF LiveInv, Lag, Returning, Putting
    <3>3. Minimum(input - 1, Warmup) = Warmup /\ Minimum(input, Warmup) = Warmup
      BY <1>3, <3>1 DEF Minimum
    <3>4. Queued' = Minimum(input, Warmup)
      BY <1>1, <1>3, <3>2, <3>3
    <3> QED BY <1>2, <3>4 DEF Lag, Returning, Minimum, Warmup, Delay
  <2> QED BY <2>1, <2>2 DEF IInv, TypeOK
<1> QED BY <1>1, <1>4, <1>5, <1>6 DEF LiveInv

LEMMA LineEndStep ==
  ASSUME IInv, IInv', LiveInv, FrameEnd, Live'
  PROVE  LiveInv'
<1>1. /\ InOneLine' /\ Shipped' = Shipped /\ Queued' = Queued /\ Coding' \in Nat
  BY LineReturned
<1>2. /\ enc = "end" /\ enc' = "idle"
      /\ UNCHANGED <<ifbuf, next, ofbuf, la, exitThread, input>>
  BY DEF FrameEnd, laVars, Live
<1>3. Undecided'
  BY <1>1, <1>2, UndecidedKept
<1>4. Lag'
  BY <1>1, <1>2, LagKept DEF LiveInv, Returning, Putting
<1> QED BY <1>1, <1>3, <1>4 DEF LiveInv

(* A failed call is followed only by x264_encoder_close.                     *)
LEMMA StillLive ==
  ASSUME [Next]_vars, Live'
  PROVE  Live
BY DEF Live, Next, LaStep, LaLoop, LaFill, LaIfWoken, LaDecide, LaShip, LaDrain, LaExit,
       Caller, EncodePicture, EncodeError, EncodeFlush, Close, EncStep, PutFrame, PutCast,
       GetFrames, TakeNothing, TakeFrame, TakeFails, FrameEnd, Joined, FinishJob, Closed,
       EncAfterShift, EncAfterFill, encVars, vars

LEMMA LineStep ==
  ASSUME LineInv, [Next]_vars
  PROVE  LineInv'
<1>1. IInv /\ IInv'
  BY LineParts, Inductive
<1>2. ASSUME Live'
      PROVE  LiveInv'
  <2>1. LiveInv
    BY <1>2, StillLive, LineParts
  <2>2. CASE LaStep
    BY <1>1, <2>1, <2>2, LineLaStep
  <2>3. CASE TakeFrame
    BY <1>1, <2>1, <2>3, LineTakeStep
  <2>4. CASE FrameEnd
    BY <1>1, <1>2, <2>1, <2>4, LineEndStep
  <2>5. CASE \/ Caller \/ PutFrame \/ PutCast \/ GetFrames \/ TakeNothing \/ TakeFails \/ Joined
             \/ (\E t \in Threads : FinishJob(t)) \/ Closed \/ UNCHANGED vars
    BY <1>1, <1>2, <2>1, <2>5, LineCallStep
  <2> QED BY <2>2, <2>3, <2>4, <2>5 DEF Next, EncStep
<1> QED BY <1>1, <1>2, LineParts

LEMMA LineInit == Init => LineInv
<1> SUFFICES ASSUME Init PROVE LineInv
  OBVIOUS
<1>1. IInv /\ ThreadFrames \in Nat \ {0, 1} /\ Warmup \in Nat
  BY InitHolds, ParamAssumption, Params
<1>2. /\ Len(ifbuf) = 0 /\ Len(next) = 0 /\ Len(ofbuf) = 0 /\ Len(current) = 0 /\ Len(emitted) = 0
      /\ enc = "idle" /\ la = "loop" /\ ~exitThread /\ input = 0
      /\ \A t \in Threads : job[t] = "none"
  BY EmptySeq DEF Init
<1>3. Queued = 0 /\ Put = 0
  <2>1. Queued = 0 + 0 + 0 + 0
    BY <1>2 DEF Queued
  <2>2. Put = 0 - 0
    BY <1>2 DEF Put, Putting
  <2> QED BY <2>1, <2>2
<1>4. Taken = 0 /\ Shipped = 0 /\ Coding = 0
  BY <1>2, <1>3 DEF Taken, Shipped, Coding
<1>5. Lag
  BY <1>1, <1>2, <1>3 DEF Lag, Returning, Minimum
<1>6. Undecided
  BY <1>2 DEF Undecided
<1>7. InOneLine
  <2>1. PICK line : line = [p \in 0 .. Shipped - 1 |-> 0]
    OBVIOUS
  <2>2. 0 .. Shipped - 1 = {}
    BY <1>4
  <2>3. line \in [0 .. Shipped - 1 -> 0 .. Shipped - 1] /\ CodedOrder(line)
    BY <2>1, <2>2 DEF CodedOrder, IsInjective
  <2>4. Ring(0)
    BY <1>1, <1>2, <1>4 DEF Ring
  <2>5. InLine(line, 0)
    BY <1>2 DEF InLine
  <2>6. 0 \in 0 .. ThreadFrames
    BY <1>1
  <2> QED BY <2>3, <2>4, <2>5, <2>6 DEF InOneLine
<1> QED BY <1>1, <1>4, <1>5, <1>6, <1>7, LineParts DEF LiveInv

(* Until a call fails, every frame stands once in one line in coded order:   *)
(* the returned ones, the ring of frame threads from the oldest to the       *)
(* youngest, current and ofbuf, and after them next and ifbuf in display     *)
(* order.                                                                    *)
THEOREM LineInvariance == Spec => []LineInv
BY LineInit, LineStep, PTL DEF Spec
(* An injection of the first n numbers into themselves hits all of them.    *)
LEMMA AllOfThem ==
  ASSUME NEW n \in Nat, NEW f \in Injection(0 .. n - 1, 0 .. n - 1)
  PROVE  \A t \in 0 .. n - 1 : \E q \in 0 .. n - 1 : f[q] = t
<1> DEFINE S == 0 .. n - 1
<1>1. IsFiniteSet(S)
  <2>1. 0 \in Int /\ n - 1 \in Int
    OBVIOUS
  <2> QED BY <2>1, FS_Interval
<1> HIDE DEF S
<1>2. f \in Injection(S, S)
  BY DEF S
<1>3. Cardinality(S) = Cardinality(S) <=> f \in Surjection(S, S)
  BY <1>1, <1>2, FS_Injection, Zenon
<1>4. f \in Surjection(S, S)
  BY <1>3
<1>5. \A t \in S : \E q \in S : f[q] = t
  BY <1>4 DEF Surjection
<1> QED BY <1>5 DEF S

(* The next frame of the line is one that DelayLine may return next.         *)
LEMMA NextMayFollow ==
  ASSUME IInv, Live, LiveInv, NEW line \in [0 .. Shipped - 1 -> 0 .. Shipped - 1], CodedOrder(line),
         Len(emitted) < Shipped, \A i \in 1 .. Len(emitted) : emitted[i] = line[i - 1]
  PROVE  line[Len(emitted)] \in 0 .. input - 1 /\ Line!MayFollow(line[Len(emitted)])
<1> DEFINE n == Len(emitted)
           f == line[n]
           coded == Range(emitted)
<1>1. /\ n \in Nat /\ n \in 0 .. Shipped - 1 /\ Shipped \in Nat /\ Shipped <= input /\ input \in Nat
      /\ DOMAIN emitted = 1 .. n /\ BFrames \in Nat
  BY LineCounts, LenProperties, ParamAssumption
<1>2. /\ \A p \in 0 .. Shipped - 1 : line[p] \in 0 .. Shipped - 1
      /\ \A p, q \in 0 .. Shipped - 1 : line[p] = line[q] => p = q
      /\ MayCome(line, n)
  BY <1>1 DEF CodedOrder, IsInjective
<1> HIDE DEF n
<1>3. coded = {line[q] : q \in 0 .. n - 1}
  <2>1. ASSUME NEW x \in coded
        PROVE  x \in {line[q] : q \in 0 .. n - 1}
    <3>1. PICK i \in 1 .. n : x = emitted[i]
      BY <1>1, <2>1 DEF Range
    <3>2. x = line[i - 1] /\ i - 1 \in 0 .. n - 1
      BY <1>1, <3>1 DEF n
    <3> QED BY <3>2
  <2>2. ASSUME NEW q \in 0 .. n - 1
        PROVE  line[q] \in coded
    <3>1. q + 1 \in 1 .. n /\ (q + 1) - 1 = q
      BY <1>1
    <3>2. emitted[q + 1] = line[q]
      BY <3>1 DEF n
    <3> QED BY <1>1, <3>1, <3>2 DEF Range
  <2> QED BY <2>1, <2>2
<1> HIDE DEF coded
<1>4. f \in 0 .. input - 1 /\ f \notin coded /\ f \in Nat
  BY <1>1, <1>2, <1>3
<1>8. \A q \in 0 .. n - 1 : q \in 0 .. Shipped - 1
  BY <1>1
<1>9. \A q \in 0 .. n - 1 : line[q] \in Nat
  BY <1>1, <1>2, <1>8, SMTT(30)
<1>5. \/ /\ coded = 0 .. n - 1
         /\ f \in n .. n + BFrames
      \/ /\ coded # 0 .. n - 1
         /\ \E g \in coded : f < g
  <2>1. CASE f \in n .. n + BFrames /\ \A q \in 0 .. n - 1 : line[q] < n
    <3>1. \A q \in 0 .. n - 1 : line[q] \in 0 .. n - 1
      <4> TAKE q \in 0 .. n - 1
      <4>1. line[q] \in Nat /\ line[q] < n /\ n \in Nat
        BY <1>1, <1>9, <2>1
      <4> QED BY <4>1
    <3>2. \A p, q \in 0 .. n - 1 : line[p] = line[q] => p = q
      BY <1>2, <1>8
    <3>3. coded = 0 .. n - 1
      <4>1. {line[q] : q \in 0 .. n - 1} = 0 .. n - 1
        <5>1. n \in Nat
          BY <1>1
        <5> DEFINE g == [q \in 0 .. n - 1 |-> line[q]]
        <5>3. g \in Injection(0 .. n - 1, 0 .. n - 1)
          BY <3>1, <3>2 DEF Injection, IsInjective
        <5>4. \A t \in 0 .. n - 1 : \E q \in 0 .. n - 1 : g[q] = t
          <6> HIDE DEF g
          <6> QED BY <5>1, <5>3, AllOfThem
        <5>2. \A t \in 0 .. n - 1 : \E q \in 0 .. n - 1 : line[q] = t
          BY <5>4
        <5> QED BY <3>1, <5>2
      <4> QED BY <1>3, <4>1
    <3> QED BY <2>1, <3>3
  <2>2. CASE \E q \in 0 .. n - 1 : f < line[q]
    <3>1. PICK q \in 0 .. n - 1 : f < line[q]
      BY <2>2
    <3>2. line[q] \in coded /\ line[q] \in Nat
      BY <1>3, <1>9, <3>1
    <3>3. coded # 0 .. n - 1
      <4> SUFFICES ASSUME coded = 0 .. n - 1 PROVE FALSE
        OBVIOUS
      <4>1. line[q] < n
        BY <3>2, <1>1
      <4>2. f \in 0 .. n - 1
        BY <1>1, <1>4, <3>1, <3>2, <4>1
      <4> QED BY <1>4, <4>2
    <3> QED BY <3>1, <3>2, <3>3
  <2> QED BY <1>2, <2>1, <2>2 DEF MayCome
<1>6. CASE coded = 0 .. n - 1 /\ f \in n .. n + BFrames
  <2>1. (0 .. f - 1) \ coded = n .. f - 1
    <3> HIDE DEF f
    <3> QED BY <1>1, <1>4, <1>6
  <2>2. Cardinality(n .. f - 1) = IF n > f - 1 THEN 0 ELSE f - 1 - n + 1
    <3>1. n \in Int /\ f - 1 \in Int
      BY <1>1, <1>4
    <3> QED BY <3>1, FS_Interval
  <2>3. Cardinality(n .. f - 1) <= BFrames
    <3> HIDE DEF f
    <3> QED BY <1>1, <1>4, <1>6, <2>2
  <2>4. Cardinality((0 .. f - 1) \ coded) <= BFrames
    BY <2>1, <2>3
  <2>5. Line!Cardinality((0 .. f - 1) \ coded) <= BFrames
    BY <2>4 DEF Line!Cardinality, Cardinality
  <2> QED BY <1>4, <1>6, <2>5 DEF Line!MayFollow, Line!Range, Range, n, coded
<1>7. CASE coded # 0 .. n - 1 /\ \E g \in coded : f < g
  BY <1>4, <1>7 DEF Line!MayFollow, Line!Range, Range, n, coded
<1> QED BY <1>4, <1>5, <1>6, <1>7 DEF n

(* Between two calls there is room for one more frame in the ring.           *)
LEMMA RingHasRoom ==
  ASSUME IInv, LiveInv, enc = "idle"
  PROVE  Coding <= ThreadFrames - 1
<1>1. PICK young \in 0 .. ThreadFrames, line \in [0 .. Shipped - 1 -> 0 .. Shipped - 1] : Ring(young)
  BY DEF LiveInv, InOneLine
<1>2. /\ ThreadFrames \in Nat \ {0, 1} /\ Oldest \in Threads /\ Age(Oldest) = ThreadFrames - 1
      /\ job[Oldest] = "none" /\ Coding \in Nat
  BY Ages DEF LiveInv, IInv, JobPhases
<1>3. young + Coding <= ThreadFrames /\ ~(Age(Oldest) \in young .. young + Coding - 1)
  BY <1>1, <1>2 DEF Ring
<1> QED BY <1>2, <1>3

(* Every step of the pipeline is a step of DelayLine or changes nothing that *)
(* the caller of x264_encoder_encode sees.                                   *)
LEMMA DelayLineStep ==
  ASSUME LineInv, [Next]_vars
  PROVE  [Line!Take \/ Line!Stop \/ Line!Emit]_<<input, emitted, exitThread>>
<1>1. IInv /\ (Live => LiveInv) /\ (Live' => Live) /\ LineInv'
  BY LineParts, StillLive, LineStep
<1>2. /\ input \in Nat /\ Len(emitted) \in Nat /\ Queued \in Nat /\ Warmup \in Nat
      /\ Warmup = Delay + 1 - ThreadFrames /\ Delay \in Nat /\ ThreadFrames \in Nat \ {0, 1}
      /\ Put \in Nat /\ Taken = Put - Queued /\ Taken = Coding + Len(emitted)
  BY <1>1, LineCounts, Params, ParamAssumption DEF Warmup, Delay, Taken
<1>3. CASE EncodePicture
  <2>1. enc = "idle" /\ ~exitThread /\ input' = input + 1 /\ UNCHANGED <<emitted, exitThread>>
    BY <1>3 DEF EncodePicture
  <2>2. LiveInv
    BY <1>1, <2>1 DEF Live
  <2>3. Put = input
    BY <1>2, <2>1 DEF Put, Putting
  <2>4. Queued <= Warmup
    <3>1. Queued = Minimum(input, Warmup)
      BY <2>1, <2>2 DEF LiveInv, Lag, Returning
    <3> QED BY <1>2, <3>1 DEF Minimum
  <2>5. Coding <= ThreadFrames - 1 /\ Coding \in Nat
    BY <1>1, <2>1, <2>2, RingHasRoom DEF LiveInv
  <2>6. input - Len(emitted) <= Delay
    BY <1>2, <2>3, <2>4, <2>5
  <2> QED BY <2>1, <2>6 DEF Line!Take, Line!Held
<1>4. CASE EncodeFlush \/ Close
  BY <1>4 DEF EncodeFlush, Close, Line!Stop
<1>5. CASE FrameEnd
  <2>1. /\ enc = "end" /\ enc' \in {"idle", "error"} /\ UNCHANGED <<input, exitThread>>
        /\ enc' = "error" => emitted' = emitted
    BY <1>5 DEF FrameEnd
  <2>2. CASE emitted' = emitted
    BY <2>1, <2>2
  <2>3. CASE emitted' # emitted
    <3>1. Live /\ Live' /\ LiveInv
      BY <1>1, <2>1, <2>3 DEF Live
    <3>2. /\ \E line \in [0 .. Shipped - 1 -> 0 .. Shipped - 1] :
               /\ CodedOrder(line) /\ Len(emitted) < Shipped
               /\ \A i \in 1 .. Len(emitted) : emitted[i] = line[i - 1]
               /\ emitted' = Append(emitted, line[Len(emitted)])
          /\ exitThread \/ Coding = ThreadFrames
      BY <1>1, <1>5, <2>3, <3>1, LineReturned
    <3>3. PICK line \in [0 .. Shipped - 1 -> 0 .. Shipped - 1] :
               /\ CodedOrder(line) /\ Len(emitted) < Shipped
               /\ \A i \in 1 .. Len(emitted) : emitted[i] = line[i - 1]
               /\ emitted' = Append(emitted, line[Len(emitted)])
      BY <3>2
    <3>4. line[Len(emitted)] \in 0 .. input - 1 /\ Line!MayFollow(line[Len(emitted)])
      BY <1>1, <3>1, <3>3, NextMayFollow
    <3>5. exitThread \/ input - Len(emitted) = Delay + 1
      <4> SUFFICES ASSUME ~exitThread PROVE input - Len(emitted) = Delay + 1
        OBVIOUS
      <4>1. Coding = ThreadFrames /\ Put = input
        BY <1>2, <2>1, <3>2 DEF Put, Putting
      <4>2. Queued = Minimum(input, Warmup)
        BY <2>1, <3>1 DEF LiveInv, Lag, Returning
      <4>3. Queued = Warmup
        BY <1>2, <4>1, <4>2 DEF Minimum
      <4> QED BY <1>2, <4>1, <4>3
    <3> QED BY <2>1, <3>3, <3>4, <3>5 DEF Line!Emit, Line!Held
  <2> QED BY <2>2, <2>3
<1>6. CASE \/ LaStep \/ EncodeError \/ PutFrame \/ PutCast \/ GetFrames \/ TakeNothing \/ TakeFrame
           \/ TakeFails \/ Joined \/ (\E t \in Threads : FinishJob(t)) \/ Closed \/ UNCHANGED vars
  BY <1>6 DEF LaStep, LaLoop, LaFill, LaIfWoken, LaDecide, LaShip, LaDrain, LaExit, EncodeError,
     PutFrame, PutCast, GetFrames, TakeNothing, TakeFrame, TakeFails, Joined, FinishJob, Closed,
     encVars, vars
<1> QED BY <1>3, <1>4, <1>5, <1>6 DEF Next, Caller, EncStep

(* The pipeline implements DelayLine: each picture the caller puts in comes  *)
(* back at most once and in coded order, and until the flush the encoder     *)
(* never holds back more or, once it returns a frame, less than i_delay.     *)
THEOREM LookaheadIsDelayLine == Spec => ImplementsDelayLine
<1>1. Init => Line!Init
  BY DEF Init, Line!Init
<1>2. LineInv /\ [Next]_vars => [Line!Take \/ Line!Stop \/ Line!Emit]_<<input, emitted, exitThread>>
  BY DelayLineStep
<1> QED BY <1>1, <1>2, LineInvariance, PTL DEF Spec, ImplementsDelayLine, Line!Spec
=============================================================================
