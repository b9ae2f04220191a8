------------------------------ MODULE Lookahead ------------------------------
(***************************************************************************)
(* The frame pipeline of the x264 encoder with a lookahead thread:         *)
(* encoder/lookahead.c and the part of encoder/encoder.c that feeds it,    *)
(* takes frames from it and hands them to the frame threads.               *)
(*                                                                         *)
(*   caller --ifbuf--> [lookahead: next] --ofbuf--> current --> slots -->  *)
(*                                                                         *)
(* Two threads are modelled step by step, `enc' (the caller inside         *)
(* x264_encoder_encode and x264_encoder_close) and `la' (lookahead_thread);*)
(* a frame thread is the one step that finishes its job.  A step is a      *)
(* critical section of the code, or what lies between two of them.  A      *)
(* thread in cond_wait is a pc value of its own, and a broadcast moves it  *)
(* on, so that a wake-up sent too early is lost here as it is in the code. *)
(***************************************************************************)
EXTENDS Naturals, Sequences, FiniteSets, Functions

CONSTANTS
  SliceLen,      \* i_slicetype_length: frames one slice type decision needs
  Vfr,           \* param.b_vfr_input, 0 or 1
  SyncLookahead, \* param.i_sync_lookahead, the threaded lookahead's buffer
  ThreadFrames,  \* i_thread_frames
  BFrames,       \* param.i_bframe
  MaxInput       \* bound of the model: pictures the caller offers

ASSUME ParamAssumption ==
  /\ SliceLen \in Nat /\ BFrames \in Nat /\ SliceLen >= BFrames
  /\ Vfr \in {0, 1}
  /\ SyncLookahead \in Nat \ {0}        \* 0: no lookahead thread
  /\ ThreadFrames \in Nat \ {0, 1}      \* 1 forces i_sync_lookahead to 0
  /\ MaxInput \in Nat \ {0}

VARIABLES
  ifbuf, next, ofbuf,  \* the three x264_sync_frame_list_t
  exitThread,          \* lookahead->b_exit_thread
  threadActive,        \* lookahead->b_thread_active
  la, draining,        \* lookahead thread: its pc, and which loop it is in
  enc,                 \* calling thread: its pc
  input,               \* h->frames.i_input
  current,             \* h->frames.current
  phase,               \* h->i_thread_phase
  slot, job,           \* per frame thread: its fenc, and how far its job is
  emitted              \* history: frames handed back to the caller, in order

laVars   == <<next, threadActive, la, draining>>
encVars  == <<exitThread, enc, input, current, phase, slot, emitted>>
vars == <<ifbuf, next, ofbuf, exitThread, threadActive, la, draining,
          enc, input, current, phase, slot, job, emitted>>

(* Mutants, here and below: plausible bugs the properties must notice.       *)
NextMaxSliceLen  == SliceLen + Vfr

(* h->frames.i_delay, and the sizes of the lists that are derived from it. *)
Delay    == SliceLen + (ThreadFrames - 1) + SyncLookahead + Vfr
IfbufMax == SyncLookahead + 3
NextMax  == Delay + 3
OfbufMax == Delay + 3

(* Calls that return "nothing yet to encode": i_delay + 1 - i_thread_frames. *)
Warmup == Delay + 1 - ThreadFrames

(* The array h->frames.current, without its NULL terminator. *)
CurrentMax == SyncLookahead + BFrames + ThreadFrames + 2

(* A x264_frame_t: its i_frame, in display order, and its i_bframes, set when   *)
(* the frame is found to close a minigop.                                       *)
Numbers == 0 .. MaxInput - 1
Frame   == [no : Numbers, bf : 0 .. BFrames]
Threads == 0 .. ThreadFrames - 1
NoFrame == [no |-> 0, bf |-> 0]  \* a fenc nobody reads
Minimum(a, b) == IF a < b THEN a ELSE b

Init ==
  /\ ifbuf = <<>> /\ next = <<>> /\ ofbuf = <<>> /\ current = <<>>
  /\ exitThread = FALSE /\ threadActive = TRUE
  /\ la = "loop" /\ draining = FALSE
  /\ enc = "idle" /\ input = 0 /\ phase = 0 /\ emitted = <<>>
  /\ slot = [t \in Threads |-> NoFrame]
  /\ job = [t \in Threads |-> "none"]

LaNotSignalled == la

-----------------------------------------------------------------------------
(* Broadcasts on the condition variables that some thread waits on. *)
LaAfterFill   == IF la = "ifWait" THEN "ifWoken" ELSE la     \* ifbuf.cv_fill
LaAfterTake   == IF la = "ofWait" THEN "ofWoken" ELSE la     \* ofbuf.cv_empty
EncAfterFill  == IF enc = "getWait" THEN "getWoken" ELSE enc \* ofbuf.cv_fill
EncAfterShift == IF enc = "putWait" THEN "putWoken" ELSE enc \* ifbuf.cv_empty

-----------------------------------------------------------------------------
(* The lookahead thread. *)

LaLoopNoDrain ==
  /\ la = "loop"
  /\ la' = IF exitThread THEN "exit" ELSE "fill"
  /\ UNCHANGED <<ifbuf, next, ofbuf, threadActive, draining, job, encVars>>

(* while( !b_exit_thread ): read without the mutex. *)
LaLoop ==
  /\ la = "loop"
  /\ la' = IF exitThread THEN "drain" ELSE "fill"
  /\ UNCHANGED <<ifbuf, next, ofbuf, threadActive, draining, job, encVars>>

(* Move what fits from ifbuf to next; then decide, wait, or go round again. *)
LaFill ==
  LET n == Minimum(NextMax - Len(next), Len(ifbuf)) IN
  /\ la = "fill"
  /\ next' = next \o SubSeq(ifbuf, 1, n)
  /\ ifbuf' = SubSeq(ifbuf, n + 1, Len(ifbuf))
  /\ enc' = IF n > 0 THEN EncAfterShift ELSE enc
  /\ la' = IF Len(next') > SliceLen + Vfr THEN "decide"
           ELSE IF ifbuf' = <<>> /\ ~exitThread THEN "ifWait" ELSE "loop"
  /\ UNCHANGED <<ofbuf, threadActive, draining, job,
                 exitThread, input, current, phase, slot, emitted>>

(* Woken in cond_wait on ifbuf.cv_fill: test the condition again. *)
LaIfWoken ==
  /\ la = "ifWoken"
  /\ la' = IF ifbuf = <<>> /\ ~exitThread THEN "ifWait" ELSE "loop"
  /\ UNCHANGED <<ifbuf, next, ofbuf, threadActive, draining, job, encVars>>

CodedOrdersDisplay(k) == {[i \in 1 .. k + 1 |-> i]}

(* The coded order of a minigop of k B-frames and the frame k+1 that closes *)
(* it: that frame, then the B-refs, then the other B-frames, each group in  *)
(* display order.                                                           *)
CodedOrders(k) ==
  {p \in [1 .. k + 1 -> 1 .. k + 1] :
     /\ IsInjective(p)
     /\ p[1] = k + 1
     /\ \E brefs \in 0 .. k : \A i \in 2 .. k : i # brefs + 1 => p[i] < p[i + 1]}

(* x264_slicetype_decide: the first k+1 frames of next become a minigop. *)
LaDecide ==
  /\ la = "decide"
  /\ next # <<>>
  /\ \E k \in 0 .. Minimum(BFrames, Len(next) - 1) : \E p \in CodedOrders(k) :
       next' = [i \in DOMAIN next |->
                  IF i = 1 THEN [next[k + 1] EXCEPT !.bf = k]
                  ELSE IF i <= k + 1 THEN next[p[i]] ELSE next[i]]
  /\ la' = "ship"
  /\ UNCHANGED <<ifbuf, ofbuf, threadActive, draining, job, encVars>>

(* The rest of lookahead_slicetype_decide: hand the minigop to ofbuf, whose *)
(* fullness is tested once, before a shift of several frames.               *)
LaShip ==
  LET n == Head(next).bf + 1 IN
  /\ la \in {"ship", "ofWoken"}
  /\ IF Len(ofbuf) = OfbufMax
       THEN /\ la' = "ofWait"
            /\ UNCHANGED <<next, ofbuf, enc>>
       ELSE /\ ofbuf' = ofbuf \o SubSeq(next, 1, n)
            /\ next' = SubSeq(next, n + 1, Len(next))
            /\ enc' = EncAfterFill
            /\ la' = IF ~draining THEN "loop"
                     ELSE IF next' # <<>> THEN "decide" ELSE "exit"
  /\ UNCHANGED <<ifbuf, threadActive, draining, job,
                 exitThread, input, current, phase, slot, emitted>>

(* End of input: everything left in ifbuf goes to next, whatever its room. *)
LaDrain ==
  /\ la = "drain"
  /\ next' = next \o ifbuf
  /\ ifbuf' = <<>>
  /\ draining' = TRUE
  /\ enc' = IF ifbuf # <<>> THEN EncAfterShift ELSE enc
  /\ la' = IF next' # <<>> THEN "decide" ELSE "exit"
  /\ UNCHANGED <<ofbuf, threadActive, job,
                 exitThread, input, current, phase, slot, emitted>>

(* b_thread_active = 0 under ofbuf's mutex, and wake the encoder. *)
LaExit ==
  /\ la = "exit"
  /\ threadActive' = FALSE
  /\ enc' = EncAfterFill
  /\ la' = "done"
  /\ UNCHANGED <<ifbuf, next, ofbuf, draining, job,
                 exitThread, input, current, phase, slot, emitted>>

-----------------------------------------------------------------------------
(* The calling thread. *)

NextPhase(p) == (p + 1) % ThreadFrames
Oldest == NextPhase(phase)

(* x264_encoder_encode with a picture, up to the queue: the thread phase    *)
(* moves on whatever becomes of the call.                                   *)
EncodePicture ==
  /\ enc = "idle" /\ ~exitThread /\ input < MaxInput
  /\ phase' = NextPhase(phase)
  /\ input' = input + 1
  /\ enc' = "put"
  /\ UNCHANGED <<ifbuf, ofbuf, laVars, job, exitThread, current, slot, emitted>>

(* The calls that return -1: a picture after the flush began, or one that   *)
(* x264_frame_copy_picture rejects.  The caller can only close.             *)
EncodeError ==
  /\ enc = "idle"
  /\ phase' = NextPhase(phase)
  /\ enc' = "error"
  /\ UNCHANGED <<ifbuf, ofbuf, laVars, job, exitThread, input, current, slot, emitted>>

(* x264_sync_frame_list_push on ifbuf, up to its unlock... *)
PutFrame ==
  /\ enc \in {"put", "putWoken"}
  /\ IF Len(ifbuf) = IfbufMax
       THEN enc' = "putWait" /\ UNCHANGED ifbuf
       ELSE enc' = "putCast" /\ ifbuf' = Append(ifbuf, [no |-> input - 1, bf |-> 0])
  /\ UNCHANGED <<ofbuf, laVars, job, exitThread, input, current, phase, slot, emitted>>

(* ...and its broadcast, sent after the unlock. *)
PutCast ==
  /\ enc = "putCast"
  /\ la' = LaAfterFill
  /\ enc' = IF input <= Warmup THEN "idle" ELSE "get"
  /\ UNCHANGED <<ifbuf, ofbuf, next, threadActive, draining, job,
                 exitThread, input, current, phase, slot, emitted>>

(* x264_encoder_encode with NULL: stop the lookahead thread. *)
EncodeFlush ==
  /\ enc = "idle"
  /\ phase' = NextPhase(phase)
  /\ exitThread' = TRUE
  /\ la' = LaAfterFill
  /\ enc' = "get"
  /\ UNCHANGED <<ifbuf, ofbuf, next, threadActive, draining, job,
                 input, current, slot, emitted>>

(* if( !current[0] ) x264_lookahead_get_frames: wait for the lookahead,     *)
(* then take one minigop.                                                   *)
GetFrames ==
  LET n == Head(ofbuf).bf + 1 IN
  /\ enc \in {"get", "getWoken"}
  /\ IF current # <<>>
       THEN enc' = "take" /\ UNCHANGED <<ofbuf, current, la>>
     ELSE IF ofbuf = <<>>
       THEN /\ enc' = IF threadActive THEN "getWait" ELSE "take"
            /\ UNCHANGED <<ofbuf, current, la>>
     ELSE /\ current' = SubSeq(ofbuf, 1, n)
          /\ ofbuf' = SubSeq(ofbuf, n + 1, Len(ofbuf))
          /\ la' = LaAfterTake
          /\ enc' = "take"
  /\ UNCHANGED <<ifbuf, next, threadActive, draining, job,
                 exitThread, input, phase, slot, emitted>>

(* x264_lookahead_is_empty, read under the mutexes of ofbuf and next. *)
LookaheadIsEmpty == next = <<>> /\ ofbuf = <<>>

(* Nothing left to code: go on to encoder_frame_end. *)
TakeNothing ==
  /\ enc = "take" /\ current = <<>> /\ LookaheadIsEmpty
  /\ enc' = "end"
  /\ UNCHANGED <<ifbuf, ofbuf, laVars, job, exitThread, input, current, phase, slot, emitted>>

(* x264_frame_shift, which asserts a frame, and the job of thread_current. *)
TakeFrame ==
  /\ enc = "take" /\ current # <<>>
  /\ slot' = [slot EXCEPT ![phase] = Head(current)]
  /\ job' = [job EXCEPT ![phase] = "running"]
  /\ current' = Tail(current)
  /\ enc' = "end"
  /\ UNCHANGED <<ifbuf, ofbuf, laVars, exitThread, input, phase, emitted>>

(* Every later failure of the call (reference_update, a NAL, ...) returns   *)
(* -1 before the job is dispatched: the frame is out of the queue and lost.  *)
TakeFails ==
  /\ enc = "take" /\ current # <<>>
  /\ current' = Tail(current)
  /\ enc' = "error"
  /\ UNCHANGED <<ifbuf, ofbuf, laVars, job, exitThread, input, phase, slot, emitted>>

(* A frame thread returns from slices_write, which may fail. *)
FinishJob(t) ==
  /\ job[t] = "running"
  /\ \E r \in {"finished", "failed"} : job' = [job EXCEPT ![t] = r]
  /\ UNCHANGED <<ifbuf, ofbuf, laVars, encVars>>

(* encoder_frame_end: wait for the oldest thread, return its frame. *)
FrameEnd ==
  /\ enc = "end"
  /\ job[Oldest] # "running"
  /\ job' = [job EXCEPT ![Oldest] = "none"]
  /\ slot' = [slot EXCEPT ![Oldest] = NoFrame]
  /\ emitted' = IF job[Oldest] = "finished" THEN Append(emitted, slot[Oldest].no) ELSE emitted
  /\ enc' = IF job[Oldest] = "failed" THEN "error" ELSE "idle"
  /\ UNCHANGED <<ifbuf, ofbuf, laVars, exitThread, input, current, phase>>

(* x264_encoder_close: x264_lookahead_delete sets the flag and joins;       *)
(* then the pool and whatever frames are left are deleted.                  *)
Close ==
  /\ enc \in {"idle", "error"}
  /\ exitThread' = TRUE
  /\ la' = LaAfterFill
  /\ enc' = "join"
  /\ UNCHANGED <<ifbuf, ofbuf, next, threadActive, draining, job,
                 input, current, phase, slot, emitted>>

Joined ==
  /\ enc = "join" /\ la = "done"
  /\ enc' = "closed"
  /\ UNCHANGED <<ifbuf, ofbuf, laVars, job, exitThread, input, current, phase, slot, emitted>>

Closed == enc = "closed" /\ UNCHANGED vars

-----------------------------------------------------------------------------
LaStep  == LaLoop \/ LaFill \/ LaIfWoken \/ LaDecide \/ LaShip \/ LaDrain \/ LaExit
Caller  == EncodePicture \/ EncodeError \/ EncodeFlush \/ Close
EncStep == \/ PutFrame \/ PutCast \/ GetFrames \/ TakeNothing \/ TakeFrame
           \/ TakeFails \/ FrameEnd \/ Joined

Next == LaStep \/ Caller \/ EncStep \/ (\E t \in Threads : FinishJob(t)) \/ Closed

Spec == Init /\ [][Next]_vars

(* Every thread that can run is run.  The caller may stop calling. *)
Fairness == /\ WF_vars(LaStep) /\ WF_vars(EncStep)
            /\ \A t \in Threads : WF_vars(FinishJob(t))
FairSpec == Spec /\ Fairness

DelayedFramesNoThreads == Len(current) + Len(ifbuf) + Len(next) + Len(ofbuf)

-----------------------------------------------------------------------------
(* x264_encoder_delayed_frames, under all three mutexes. *)
DelayedFrames == Cardinality({t \in Threads : job[t] # "none"}) + Len(current)
                   + Len(ifbuf) + Len(next) + Len(ofbuf)

TypeOK ==
  /\ ifbuf \in Seq(Frame) /\ next \in Seq(Frame) /\ ofbuf \in Seq(Frame)
  /\ current \in Seq(Frame) /\ emitted \in Seq(Numbers)
  /\ exitThread \in BOOLEAN /\ threadActive \in BOOLEAN /\ draining \in BOOLEAN
  /\ la \in {"loop", "fill", "ifWait", "ifWoken", "decide", "ship", "ofWait",
             "ofWoken", "drain", "exit", "done"}
  /\ enc \in {"idle", "error", "put", "putWait", "putWoken", "putCast", "get",
              "getWait", "getWoken", "take", "end", "join", "closed"}
  /\ input \in 0 .. MaxInput /\ phase \in Threads
  /\ slot \in [Threads -> Frame]
  /\ job \in [Threads -> {"none", "running", "finished", "failed"}]

(* The lists never outgrow their arrays.  lookahead_shift asserts room for   *)
(* every frame it moves, but LaShip only tests that ofbuf is not full before *)
(* it moves a minigop, and LaDrain tests nothing at all before it moves all  *)
(* of ifbuf; frames.current has no check of any kind.                        *)
ListsFit ==
  /\ Len(ifbuf) <= IfbufMax
  /\ Len(next) <= NextMax
  /\ Len(ofbuf) <= OfbufMax
  /\ Len(current) <= CurrentMax

(* The minigop about to be shipped is complete in next and fits in ofbuf,    *)
(* so that the lookahead thread is never stopped there: x264_encoder_close   *)
(* joins it without anyone taking frames from ofbuf.                         *)
ShipNeverBlocks ==
  la \in {"ship", "ofWoken", "ofWait"} =>
    /\ next # <<>>
    /\ Head(next).bf + 1 <= Len(next)
    /\ Len(ofbuf) + Head(next).bf + 1 <= OfbufMax

(* When x264_encoder_encode goes on with no frame in frames.current, there   *)
(* really is nothing left to code: were the lookahead not empty, it would    *)
(* shift a frame from an empty list (assert(frame) of x264_frame_shift).     *)
TakeFindsFrame ==
  enc = "take" /\ current = <<>> =>
    exitThread /\ LookaheadIsEmpty /\ ifbuf = <<>> /\ la = "done"

(* A call never reuses a frame thread whose job has not been waited for.     *)
SlotIsFree ==
  enc \in {"put", "putWait", "putWoken", "putCast", "get", "getWait", "getWoken", "take"} =>
    job[phase] = "none"

(* x264.h:907-914 of the two counters callers rely on.  Between two calls    *)
(* x264_encoder_delayed_frames is exactly what was put in and not returned   *)
(* (libx264.c flushes until it is 0), and it never exceeds                   *)
(* x264_encoder_maximum_delayed_frames.                                      *)
DelayedFramesExact ==
  enc = "idle" =>
    /\ DelayedFrames = input - Len(emitted)
    /\ DelayedFrames <= Delay

(* The pipeline implements DelayLine: each picture is returned once, in      *)
(* coded order, with a latency of exactly i_delay pictures until the flush.  *)
Line == INSTANCE DelayLine WITH
          MaxDelay <- Delay, MaxB <- BFrames, stopped <- exitThread
ImplementsDelayLine == Line!Spec

-----------------------------------------------------------------------------
(* The inductive invariant behind the safety properties above: the number of *)
(* frames in the queues is bounded by the calls that returned nothing, and   *)
(* ofbuf is always a sequence of whole minigops.                             *)

Calling  == {"get", "getWait", "getWoken", "take"}
Putting  == {"put", "putWait", "putWoken"}
Queued   == Len(ifbuf) + Len(next) + Len(ofbuf) + Len(current)

QueuedBound ==
  /\ Queued <= Warmup + (IF enc \in Calling \cup {"putCast"} THEN 1 ELSE 0)
  /\ Queued + (IF enc \in Putting THEN 1 ELSE 0) <= input

(* heads are the places in s of the closing frames. *)
WholeMinigops(s) ==
  \E heads \in SUBSET (1 .. Len(s)) :
    /\ s # <<>> => 1 \in heads
    /\ \A h \in heads : h + s[h].bf + 1 \in heads \cup {Len(s) + 1}

LaPhases ==
  /\ la \in {"drain", "exit", "done"} => exitThread
  /\ draining => exitThread /\ ifbuf = <<>> /\ la \in {"decide", "ship", "exit", "done"}
  /\ la \in {"exit", "done"} => draining /\ next = <<>>
  /\ threadActive <=> la # "done"
  /\ la = "decide" => next # <<>>
  /\ la = "ship" => next # <<>> /\ next[1].bf + 1 <= Len(next)
  /\ la \notin {"ofWait", "ofWoken"}

EncPhases ==
  /\ enc \in Putting \cup {"putCast"} => ~exitThread
  /\ enc \in {"join", "closed"} => exitThread
  /\ enc = "take" /\ current = <<>> => ~threadActive /\ ofbuf = <<>>
  /\ enc \in Calling => exitThread \/ input > Warmup
  /\ Len(current) <= BFrames + 1

JobPhases ==
  /\ enc \in Calling \cup Putting \cup {"putCast"} => job[phase] = "none"
  /\ enc = "idle" => job[Oldest] = "none"
  /\ ~exitThread /\ input <= Warmup => \A t \in Threads : job[t] = "none"

IInv == TypeOK /\ ListsFit /\ QueuedBound /\ WholeMinigops(ofbuf)
          /\ LaPhases /\ EncPhases /\ JobPhases

(* Until a call fails, a picture the caller has put in is in a list, in a    *)
(* frame thread or returned.                                                 *)
Accounted == enc \notin {"error", "join", "closed"} =>
  Cardinality({t \in Threads : job[t] # "none"}) + Queued + Len(emitted)
    + (IF enc \in Putting THEN 1 ELSE 0) = input
CountInv == IInv /\ Accounted

(* The coded order of all the frames that have been shipped, numbered from 0: *)
(* returned, in a frame thread, in current or in ofbuf.  Put pictures have    *)
(* reached the lists, and Taken frames have left them for a frame thread.     *)
Put     == input - (IF enc \in Putting THEN 1 ELSE 0)
Taken   == Put - Queued
Shipped == Put - Len(next) - Len(ifbuf)
Coding  == Taken - Len(emitted)

(* A frame closes a minigop that begins where all before it end, or some      *)
(* frame before it is displayed after it.                                     *)
MayCome(line, p) ==
  \/ line[p] \in p .. p + BFrames /\ \A q \in 0 .. p - 1 : line[q] < p
  \/ \E q \in 0 .. p - 1 : line[p] < line[q]
CodedOrder(line) ==
  /\ line \in [0 .. Shipped - 1 -> 0 .. Shipped - 1] /\ IsInjective(line)
  /\ \A p \in 0 .. Shipped - 1 : MayCome(line, p)

(* The frame threads are used in a ring: from the one used last, whose age is *)
(* young, to the oldest.  Only when nothing is left is a call without a frame. *)
Returning == {"idle", "end"}
Age(t) == IF t <= phase THEN phase - t ELSE phase + ThreadFrames - t
Ring(young) ==
  /\ young + Coding <= ThreadFrames
  /\ \A t \in Threads : job[t] # "none" <=> Age(t) \in young .. young + Coding - 1
  /\ \/ Coding = 0
     \/ exitThread /\ Queued = 0
     \/ young = IF enc \in Returning THEN 0 ELSE 1

InLine(line, young) ==
  /\ \A i \in 1 .. Len(emitted) : emitted[i] = line[i - 1]
  /\ \A t \in Threads : job[t] # "none" => slot[t].no = line[Taken - 1 + young - Age(t)]
  /\ \A i \in 1 .. Len(current) : current[i].no = line[Taken + i - 1]
  /\ \A i \in 1 .. Len(ofbuf) : ofbuf[i].no = line[Taken + Len(current) + i - 1]

(* What is not shipped yet is in display order, but for a minigop that has    *)
(* just been decided.                                                         *)
Undecided ==
  LET n == IF la = "ship" THEN next[1].bf + 1 ELSE 0 IN
  /\ \A i \in n + 1 .. Len(next) : next[i].no = Shipped + i - 1
  /\ \A i \in 1 .. Len(ifbuf) : ifbuf[i].no = Shipped + Len(next) + i - 1
  /\ n > 0 => next[1].no = Shipped + n - 1
  /\ \A i \in 2 .. n : next[i].no \in Shipped .. Shipped + n - 2
  /\ \A i, j \in 2 .. n : next[i].no = next[j].no => i = j

(* While the caller feeds it, exactly the first calls return nothing.         *)
Lag == ~exitThread =>
  Queued = IF enc \in Returning THEN Minimum(input, Warmup)
           ELSE Minimum(input - 1, Warmup) + (IF enc \in Putting THEN 0 ELSE 1)

LineInv ==
  /\ IInv
  /\ enc \notin {"error", "join", "closed"} =>
       /\ Coding \in Nat /\ Lag /\ Undecided
       /\ \E young \in 0 .. ThreadFrames, line \in [0 .. Shipped - 1 -> 0 .. Shipped - 1] :
            CodedOrder(line) /\ Ring(young) /\ InLine(line, young)

-----------------------------------------------------------------------------
(* Liveness, under Fairness. *)

(* Every call comes back: no wake-up is lost and no list is waited on that   *)
(* nobody fills or empties; and x264_encoder_close joins the lookahead       *)
(* thread, flushed or not.                                                   *)
CallReturns ==
  /\ enc \notin {"idle", "error", "join", "closed"} ~> enc \in {"idle", "error"}
  /\ enc = "join" ~> enc = "closed"

(* The loop of X264_frame: a caller that keeps flushing while                *)
(* x264_encoder_delayed_frames is not 0 gets every frame back.               *)
FlushLoop == exitThread /\ DelayedFrames > 0 /\ EncodeFlush
FlushSpec == FairSpec /\ WF_vars(FlushLoop)
FlushDrains ==
  enc = "idle" /\ exitThread ~>
    \/ Len(emitted) = input
    \/ enc \in {"error", "join", "closed"}
=============================================================================
