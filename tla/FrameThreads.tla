----------------------------- MODULE FrameThreads -----------------------------
(***************************************************************************)
(* Frame threading of decoders, libavcodec/pthread_frame.c, under the      *)
(* receive loop of libavcodec/decode.c: N threads, each with a codec       *)
(* context of its own, get the packets in turn.  A thread may start when   *)
(* the one before it has set up its context, which is then copied, and     *)
(* waits for the rows of the frames it refers to.                          *)
(*                                                                         *)
(* A step is a critical section.  A thread inside pthread_cond_wait is     *)
(* asleep on a condition until a signal or a broadcast wakes it; it then   *)
(* repeats its test.  p->mutex of a thread is held by its worker except    *)
(* while it waits for a packet.                                            *)
(*                                                                         *)
(* The codec is one that reorders by Delay frames and refers to the frame  *)
(* before; what it makes of a packet is chosen freely.                     *)
(***************************************************************************)
EXTENDS Integers, Sequences, FiniteSets

CONSTANTS
  N,           \* avctx->thread_count
  Early,       \* 1 for FFV1, which returns a frame one packet earlier, else 0
  Delay,       \* reordering delay of the codec
  MaxErrors,   \* nb_errors_max of decode_simple_internal
  Options      \* what kinds of codec and caller to explore

ASSUME FrameAssumption ==
  /\ N \in Nat \ {0, 1} /\ Early \in {0, 1} /\ Delay \in Nat
  /\ MaxErrors \in Nat
  /\ \A o \in Options :
       /\ o.update \in BOOLEAN     \* the codec has update_thread_context
       /\ o.own \in BOOLEAN        \* get_buffer2, get_format run in the caller's thread
       /\ o.delayed \in BOOLEAN    \* AV_CODEC_CAP_DELAY
       /\ o.packets \in Nat        \* bound: packets the caller has
       /\ o.fails \in Nat          \* bound: how often a copy, a buffer or a decoder fails
       /\ o.hw \in {"none", "serial", "safe"}  \* hwaccel; HWACCEL_CAP_ASYNC_SAFE
       /\ o.hw # "none" => o.update
       \* a codec that holds frames back carries state from frame to frame
       /\ o.delayed /\ Delay > 0 => o.update

Threads == 0 .. N - 1
Caller  == N
Nobody  == -1

VARIABLES
  opt,      \* one of the Options
  user,     \* the caller: where it is, its packet, loop index and results
  fctx,     \* FrameThreadContext
  dec,      \* draining, draining_done, nb_draining_errors of AVCodecInternal
  th,       \* PerThreadContext of each thread, with the codec context
  worker,   \* frame_worker_thread: where each one is
  lock,     \* who holds buffer_mutex, hwaccel_mutex and async_lock
  asleep,   \* the condition a thread waits on
  complete, \* frames since the last flush whose progress is reported as finished
  hist      \* history: packets given and flushed; since then, those that make
            \* no frame, and the frames returned

vars == <<opt, user, fctx, dec, th, worker, lock, asleep, complete, hist>>

Awake       == <<"awake", Nobody>>
Input(t)    == <<"input", t>>      \* p->input_cond
Progress(t) == <<"progress", t>>   \* p->progress_cond
Output(t)   == <<"output", t>>     \* p->output_cond
Async       == <<"async", Nobody>> \* fctx->async_cond

Sleeps(x, cond) == asleep' = [asleep EXCEPT ![x] = cond]
Wake(conds) == asleep' = [x \in DOMAIN asleep |-> IF asleep[x] \in conds THEN Awake ELSE asleep[x]]
Signal(cond) ==
  LET waiting == {x \in DOMAIN asleep : asleep[x] = cond}
  IN IF waiting = {} THEN UNCHANGED asleep
     ELSE \E x \in waiting : asleep' = [asleep EXCEPT ![x] = Awake]

(* A ThreadFrame is its packet's number and the thread that decodes it.      *)
NoRef      == [no |-> 0, owner |-> Nobody]
NewContext == [held |-> <<>>, ref |-> NoRef, format |-> FALSE]

Idle       == [at |-> "idle", pkt |-> 0, i |-> 0, got |-> 0, err |-> 0]

Init ==
  /\ opt \in Options
  /\ user = Idle
  /\ fctx = [decoding |-> 0, finished |-> 0, delaying |-> TRUE, prev |-> Nobody]
  /\ dec = [draining |-> FALSE, done |-> FALSE, errors |-> 0]
  /\ th = [t \in Threads |-> [state |-> "ready", pkt |-> 0, frame |-> 0, result |-> 0,
                              die |-> FALSE, released |-> FALSE, needs |-> NoRef, ctx |-> NewContext]]
  /\ worker = [t \in Threads |-> "wait"]
  /\ lock = [buffer |-> Nobody, hw |-> Nobody, async |-> Caller]
  /\ asleep = [x \in 0 .. N |-> Awake]
  /\ complete = {}
  /\ hist = [given |-> 0, flushed |-> 0, fails |-> 0, dropped |-> {}, returned |-> <<>>]

-----------------------------------------------------------------------------
(* The caller, ff_thread_decode_frame. *)

(* The failures a behaviour has left, and the record of one that drops a packet. *)
CanFail == hist.fails < opt.fails
Results == IF CanFail THEN {0, -1} ELSE {0}
Failed(r, packets) == [hist EXCEPT !.fails = @ - r, !.dropped = @ \cup packets]

Goes(place) == user' = [user EXCEPT !.at = place]

(* avcodec_send_packet with a packet, or with NULL from then on; async_unlock. *)
SendPacket ==
  /\ user.at = "idle" /\ ~dec.draining /\ hist.given < opt.packets
  /\ user' = [user EXCEPT !.at = "submit", !.pkt = hist.given + 1, !.got = 0, !.err = 0]
  /\ hist' = [hist EXCEPT !.given = @ + 1]
  /\ lock' = [lock EXCEPT !.async = Nobody] /\ Wake({Async})
  /\ UNCHANGED <<opt, fctx, dec, th, worker, complete>>

Drain ==
  /\ user.at = "idle" /\ ~dec.done
  /\ dec' = [dec EXCEPT !.draining = TRUE]
  /\ user' = [user EXCEPT !.at = "submit", !.pkt = 0, !.got = 0, !.err = 0]
  /\ lock' = [lock EXCEPT !.async = Nobody] /\ Wake({Async})
  /\ UNCHANGED <<opt, fctx, th, worker, complete, hist>>

(* Whether a packet is still to be returned at once, when next_decoding is n. *)
Delaying(n) == fctx.delaying /\ n <= N - 1 - Early
ReturnsNone(n) == Delaying(n) /\ user.pkt # 0

(* submit_packet is done; next_decoding is n, prev_thread is p. *)
Submitted(n, p) ==
  /\ fctx' = [fctx EXCEPT !.decoding = n, !.prev = p, !.delaying = Delaying(n)]
  /\ user' = [user EXCEPT !.at = IF ReturnsNone(n) THEN "return" ELSE "collect",
                          !.i = fctx.finished]

(* The empty packet is no use to a codec without a delay. *)
SubmitNothing ==
  /\ user.at = "submit" /\ user.pkt = 0 /\ ~opt.delayed
  /\ Submitted(fctx.decoding, fctx.prev)
  /\ UNCHANGED <<opt, dec, th, worker, lock, asleep, complete, hist>>

(* p->mutex: the worker has it unless it waits for a packet. *)
Current == fctx.decoding
MutexFree(t) == worker[t] \in {"wait", "exited"}

(* update_context_from_user and release_delayed_buffers. *)
LockThread ==
  /\ user.at = "submit" /\ ~(user.pkt = 0 /\ ~opt.delayed)
  /\ MutexFree(Current)
  /\ th[Current].released => lock.buffer = Nobody
  /\ th' = [th EXCEPT ![Current].released = FALSE]
  /\ Goes("copy")
  /\ UNCHANGED <<opt, fctx, dec, worker, lock, asleep, complete, hist>>

(* submit_packet waits until the thread before has set up its context... *)
SettingUp(t) == th[t].state = "setup"
AwaitSetup ==
  /\ user.at = "copy" /\ asleep[Caller] = Awake
  /\ fctx.prev # Nobody /\ SettingUp(fctx.prev)
  /\ Sleeps(Caller, Progress(fctx.prev))
  /\ UNCHANGED <<opt, user, fctx, dec, th, worker, lock, complete, hist>>

(* ... then copies it and starts the thread... *)
CopiedContext ==
  IF fctx.prev # Nobody /\ opt.update THEN th[fctx.prev].ctx ELSE th[Current].ctx

CopyContext ==
  /\ user.at = "copy" /\ asleep[Caller] = Awake
  /\ fctx.prev # Nobody => ~SettingUp(fctx.prev)
  /\ th' = [th EXCEPT ![Current].ctx = CopiedContext, ![Current].pkt = user.pkt,
                      ![Current].state = "setup"]
  /\ Signal(Input(Current))
  /\ IF opt.own THEN Goes("callback") /\ UNCHANGED fctx
                ELSE Submitted(Current + 1, Current)
  /\ UNCHANGED <<opt, dec, worker, lock, complete, hist>>

(* ... unless the copy or the reference to the packet fails. *)
CopyFails ==
  /\ user.at = "copy" /\ asleep[Caller] = Awake /\ CanFail
  /\ fctx.prev # Nobody => ~SettingUp(fctx.prev)
  /\ user' = [user EXCEPT !.at = "return", !.err = -1]
  /\ hist' = Failed(-1, {user.pkt})
  /\ UNCHANGED <<opt, fctx, dec, th, worker, lock, asleep, complete>>

(* The caller's own get_buffer2 and get_format are called on behalf of the   *)
(* thread that sets up.  The answer of get_buffer2 is in p->result.          *)
Asks(t) == th[t].state \in {"buffer", "format"}
AnsweredQuietly == UNCHANGED asleep  \* mutant: the thread is not woken
Answered == Signal(Progress(Current))
CallBackOnce ==  \* mutant: only one call back is answered
  /\ user.at = "callback" /\ asleep[Caller] = Awake
  /\ IF SettingUp(Current)
       THEN Sleeps(Caller, Progress(Current)) /\ UNCHANGED <<user, fctx, th>>
       ELSE /\ Submitted(Current + 1, Current) /\ Wake({Progress(Current)})
            /\ th' = [th EXCEPT ![Current].state = IF Asks(Current) THEN "setup" ELSE @]
  /\ UNCHANGED <<opt, dec, worker, lock, complete, hist>>

CallBack ==
  /\ user.at = "callback" /\ asleep[Caller] = Awake
  /\ \/ /\ SettingUp(Current) /\ Sleeps(Caller, Progress(Current))
        /\ UNCHANGED <<user, fctx, th, hist>>
     \/ /\ Asks(Current) /\ Answered
        /\ \E r \in (IF th[Current].state = "buffer" THEN Results ELSE {0}) :
             /\ th' = [th EXCEPT ![Current].state = "setup", ![Current].result = r]
             /\ hist' = Failed(r, {})
        /\ UNCHANGED <<user, fctx>>
     \/ /\ th[Current].state \in {"finished", "ready"}
        /\ Submitted(Current + 1, Current)
        /\ UNCHANGED <<th, asleep, hist>>
  /\ UNCHANGED <<opt, dec, worker, lock, complete>>

(* The oldest thread's frame is returned; at the end of the stream, that of  *)
(* the first thread which has one or has failed.                             *)
NextIndex(i) == (i + 1) % N
StopsAtFirst(t, i) == FALSE  \* mutant: an empty-handed thread ends the drain
GoesOn(t, i) == user.pkt = 0 /\ th[t].frame = 0 /\ th[t].result >= 0 /\ i # fctx.finished
PendingSetup(t) == th[t].state \notin {"finished", "ready"}  \* mutant: the setup is enough
Pending(t) == th[t].state # "ready"
Collect ==
  /\ user.at = "collect" /\ asleep[Caller] = Awake
  /\ LET t == user.i
         i == NextIndex(t)
     IN IF Pending(t)
          THEN Sleeps(Caller, Output(t)) /\ UNCHANGED <<user, fctx, th>>
          ELSE /\ th' = [th EXCEPT ![t].frame = 0, ![t].result = 0]
               /\ user' = [user EXCEPT !.got = th[t].frame, !.err = th[t].result, !.i = i,
                                       !.at = IF GoesOn(t, i) THEN "collect" ELSE "return"]
               /\ fctx' = IF GoesOn(t, i) THEN fctx
                          ELSE [fctx EXCEPT !.decoding = @ % N, !.finished = i]
               /\ UNCHANGED asleep
  /\ UNCHANGED <<opt, dec, worker, lock, complete, hist>>

(* async_lock. *)
AsyncTaken == lock.async # Nobody

(* decode_simple_internal: when draining is over. *)
AfterCallPatient ==  \* mutant: errors are not counted
  IF ~dec.draining \/ user.got # 0 \/ user.err < 0 THEN dec ELSE [dec EXCEPT !.done = TRUE]
AfterCall ==
  IF ~dec.draining \/ user.got # 0 THEN dec
  ELSE IF user.err < 0
       THEN [dec EXCEPT !.errors = @ + 1, !.done = dec.errors >= MaxErrors]
       ELSE [dec EXCEPT !.done = TRUE]

Return ==
  /\ user.at = "return" /\ asleep[Caller] = Awake
  /\ IF AsyncTaken THEN Sleeps(Caller, Async) /\ UNCHANGED <<user, dec, lock, hist>>
     ELSE /\ lock' = [lock EXCEPT !.async = Caller] /\ dec' = AfterCall
          /\ user' = Idle
          /\ hist' = IF user.got = 0 THEN hist
                     ELSE [hist EXCEPT !.returned = Append(@, user.got)]
          /\ UNCHANGED asleep
  /\ UNCHANGED <<opt, fctx, th, worker, complete>>

-----------------------------------------------------------------------------
(* ff_thread_flush, from avcodec_flush_buffers, and ff_frame_thread_free. *)

Stop(place) ==
  /\ user.at = "idle" /\ user' = [user EXCEPT !.at = place, !.i = 0]
  /\ lock' = [lock EXCEPT !.async = Nobody] /\ Wake({Async})
  /\ UNCHANGED <<opt, fctx, dec, th, worker, complete, hist>>
Flush == Stop("flush")
Close == Stop("free")

(* park_frame_worker_threads. *)
Parked == user.i = N
Park ==
  /\ user.at \in {"flush", "free"} /\ asleep[Caller] = Awake /\ ~Parked
  /\ IF th[user.i].state # "ready"
       THEN Sleeps(Caller, Output(user.i)) /\ UNCHANGED <<user, th>>
       ELSE /\ th' = [th EXCEPT ![user.i].frame = 0]
            /\ user' = [user EXCEPT !.i = @ + 1] /\ UNCHANGED asleep
  /\ UNCHANGED <<opt, fctx, dec, worker, lock, complete, hist>>

(* The context of the thread used last goes to the first one.  Threads that  *)
(* are parked have let the async lock go, so the caller gets it at once.     *)
FirstContext(t) ==
  IF t = 0 /\ fctx.prev # Nobody /\ opt.update THEN th[fctx.prev].ctx ELSE th[t].ctx
FlushedContext(t) == [FirstContext(t) EXCEPT !.held = <<>>, !.ref = NoRef]

FlushThreads ==
  /\ user.at = "flush" /\ asleep[Caller] = Awake /\ Parked /\ ~AsyncTaken
  /\ (\E t \in Threads : th[t].released) => lock.buffer = Nobody
  /\ lock' = [lock EXCEPT !.async = Caller]
  /\ fctx' = [decoding |-> 0, finished |-> 0, delaying |-> TRUE, prev |-> Nobody]
  /\ dec' = [draining |-> FALSE, done |-> FALSE, errors |-> 0]
  /\ th' = [t \in Threads |-> [th[t] EXCEPT !.frame = 0, !.result = 0, !.released = FALSE,
                                            !.ctx = FlushedContext(t)]]
  /\ hist' = [hist EXCEPT !.flushed = hist.given, !.dropped = {}, !.returned = <<>>]
  /\ complete' = {} /\ user' = Idle
  /\ UNCHANGED <<opt, worker, asleep>>

FreeThreads ==
  /\ user.at = "free" /\ asleep[Caller] = Awake /\ Parked /\ ~AsyncTaken
  /\ lock' = [lock EXCEPT !.async = Caller]
  /\ user' = [user EXCEPT !.at = "kill", !.i = 0]
  /\ UNCHANGED <<opt, fctx, dec, th, worker, asleep, complete, hist>>

Kill ==
  /\ user.at = "kill" /\ MutexFree(user.i)
  /\ th' = [th EXCEPT ![user.i].die = TRUE]
  /\ Signal(Input(user.i))
  /\ Goes("join")
  /\ UNCHANGED <<opt, fctx, dec, worker, lock, complete, hist>>

Join ==
  /\ user.at = "join" /\ worker[user.i] = "exited"
  /\ th[user.i].released => lock.buffer = Nobody
  /\ th' = [th EXCEPT ![user.i].released = FALSE]
  /\ user' = [user EXCEPT !.at = IF user.i + 1 = N THEN "closed" ELSE "kill", !.i = @ + 1]
  /\ UNCHANGED <<opt, fctx, dec, worker, lock, asleep, complete, hist>>

-----------------------------------------------------------------------------
(* frame_worker_thread. *)

WorkerGoes(t, place) == worker' = [worker EXCEPT ![t] = place]
Runs(t, place) == worker[t] = place /\ asleep[t] = Awake

HasHw(t)   == opt.hw # "none" /\ th[t].ctx.format
HwFree(t)  == lock.hw \in {Nobody, t}
CallerHas(t) == user.at = "copy" /\ Current = t

AwaitPacket(t) ==
  /\ Runs(t, "wait") /\ ~CallerHas(t)
  /\ CASE th[t].die -> WorkerGoes(t, "exited") /\ UNCHANGED asleep
       [] ~th[t].die /\ th[t].state = "ready" -> Sleeps(t, Input(t)) /\ UNCHANGED worker
       [] OTHER -> WorkerGoes(t, "begin") /\ UNCHANGED asleep
  /\ UNCHANGED <<opt, user, fctx, dec, th, lock, complete, hist>>

(* A codec without a context to copy lets the next thread start at once, if  *)
(* it need not call back; with a hwaccel threads run one after the other.    *)
SetupEnds(t) ==
  /\ th' = [th EXCEPT ![t].state = "finished"]
  /\ Wake({Progress(t)})

Begin(t) ==
  /\ Runs(t, "begin") /\ (HasHw(t) => HwFree(t))
  /\ IF ~opt.update /\ ~opt.own THEN SetupEnds(t) ELSE UNCHANGED <<th, asleep>>
  /\ lock' = IF HasHw(t) THEN [lock EXCEPT !.hw = t] ELSE lock
  /\ WorkerGoes(t, "decode")
  /\ UNCHANGED <<opt, user, fctx, dec, complete, hist>>

(* codec->decode fails or makes nothing of a packet. *)
Fails(t, r, packets) ==
  /\ th' = [th EXCEPT ![t].frame = 0, ![t].result = r]
  /\ hist' = Failed(r, packets)

(* The empty packet asks for a frame that is held back; the codec may answer *)
(* with an error as often as it likes.                                       *)
Oldest(held) == IF held = <<>> THEN 0 ELSE Head(held)
DecodeEmpty(t) ==
  /\ Runs(t, "decode") /\ th[t].pkt = 0
  /\ \/ th' = [th EXCEPT ![t].frame = Oldest(th[t].ctx.held), ![t].result = 0,
                         ![t].ctx.held = IF @ = <<>> THEN @ ELSE Tail(@)]
     \/ opt.fails > 0 /\ th' = [th EXCEPT ![t].frame = 0, ![t].result = -1]
  /\ WorkerGoes(t, "end")
  /\ UNCHANGED <<opt, user, fctx, dec, lock, asleep, complete, hist>>

(* A packet that fails, or that makes no frame. *)
DecodeNothing(t) ==
  /\ Runs(t, "decode") /\ th[t].pkt # 0
  /\ \E r \in Results : Fails(t, r, {th[t].pkt})
  /\ WorkerGoes(t, "end")
  /\ UNCHANGED <<opt, user, fctx, dec, lock, asleep, complete>>

(* ff_thread_get_format, for the first packet.  A thread that calls back is  *)
(* woken by the answer only: its older frames are complete, so nobody else   *)
(* waits on its progress_cond but the caller.                                *)
GetFormat(t) ==
  /\ Runs(t, "decode") /\ th[t].pkt # 0 /\ ~th[t].ctx.format
  /\ IF opt.own
       THEN /\ th' = [th EXCEPT ![t].state = "format"]
            /\ asleep' = [x \in DOMAIN asleep |->
                            IF x = t THEN Progress(t)
                            ELSE IF asleep[x] = Progress(t) THEN Awake ELSE asleep[x]]
            /\ WorkerGoes(t, "format")
       ELSE /\ th' = [th EXCEPT ![t].ctx.format = TRUE]
            /\ UNCHANGED <<asleep, worker>>
  /\ UNCHANGED <<opt, user, fctx, dec, lock, complete, hist>>

GotFormat(t) ==
  /\ Runs(t, "format") /\ SettingUp(t)
  /\ th' = [th EXCEPT ![t].ctx.format = TRUE] /\ WorkerGoes(t, "decode")
  /\ UNCHANGED <<opt, user, fctx, dec, lock, asleep, complete, hist>>

(* ff_thread_get_buffer, under buffer_mutex. *)
GetBuffer(t) ==
  /\ Runs(t, "decode") /\ th[t].pkt # 0 /\ th[t].ctx.format /\ lock.buffer = Nobody
  /\ IF opt.own
       THEN /\ th' = [th EXCEPT ![t].state = "buffer"]
            /\ asleep' = [x \in DOMAIN asleep |->
                            IF x = t THEN Progress(t)
                            ELSE IF asleep[x] = Progress(t) THEN Awake ELSE asleep[x]]
            /\ lock' = [lock EXCEPT !.buffer = t] /\ WorkerGoes(t, "buffer")
            /\ UNCHANGED hist
       ELSE /\ \/ WorkerGoes(t, "setup") /\ UNCHANGED <<th, hist>>
               \/ CanFail /\ Fails(t, -1, {th[t].pkt}) /\ WorkerGoes(t, "end")
            /\ UNCHANGED <<asleep, lock>>
  /\ UNCHANGED <<opt, user, fctx, dec, complete>>

(* Without a context to copy, the setup ends here. *)
GotBuffer(t) ==
  /\ Runs(t, "buffer") /\ SettingUp(t)
  /\ lock' = [lock EXCEPT !.buffer = Nobody]
  /\ LET failed == th[t].result < 0
     IN /\ th' = [th EXCEPT ![t].state = IF opt.update THEN @ ELSE "finished",
                            ![t].frame = 0]
        /\ IF opt.update THEN UNCHANGED asleep ELSE Wake({Progress(t)})
        /\ WorkerGoes(t, IF failed THEN "end" ELSE "setup")
        /\ hist' = IF failed THEN Failed(0, {th[t].pkt}) ELSE hist
  /\ UNCHANGED <<opt, user, fctx, dec, complete>>

(* The codec picks the frame to return, lets its last reference go           *)
(* (ff_thread_release_buffer) and finishes the setup.                        *)
Held(t) == Append(th[t].ctx.held, th[t].pkt)
DelayOf(t) == IF opt.delayed THEN Delay ELSE 0
Shows(t) == Len(Held(t)) > DelayOf(t)
ThisFrame(t) == [no |-> th[t].pkt, owner |-> t]
SetUp(t) ==
  /\ Runs(t, "setup") /\ (HasHw(t) => HwFree(t))
  /\ opt.own => lock.buffer = Nobody
  /\ th' = [th EXCEPT
       ![t].frame = IF Shows(t) THEN Head(Held(t)) ELSE 0,
       ![t].ctx.held = IF Shows(t) THEN Tail(Held(t)) ELSE Held(t),
       ![t].needs = th[t].ctx.ref,
       ![t].ctx.ref = IF opt.update THEN ThisFrame(t) ELSE NoRef,
       ![t].released = opt.own /\ th[t].ctx.ref # NoRef,
       ![t].result = 0,
       ![t].state = IF HasHw(t) \/ ~opt.update THEN @ ELSE "finished"]
  /\ IF HasHw(t) \/ ~opt.update THEN UNCHANGED asleep ELSE Wake({Progress(t)})
  /\ lock' = IF HasHw(t) THEN [lock EXCEPT !.hw = t] ELSE lock
  /\ worker' = [worker EXCEPT ![t] = IF HasHw(t) THEN "async" ELSE "rows"]
  /\ UNCHANGED <<opt, user, fctx, dec, complete, hist>>

(* ff_thread_finish_setup with a hwaccel that must not run beside the caller. *)
SerialSetup(t) ==
  /\ worker[t] \in {"async", "endAsync"} /\ asleep[t] = Awake
  /\ IF opt.hw = "serial" /\ AsyncTaken
       THEN Sleeps(t, Async) /\ UNCHANGED <<th, worker, lock>>
       ELSE /\ SetupEnds(t)
            /\ lock' = IF opt.hw = "serial" THEN [lock EXCEPT !.async = t] ELSE lock
            /\ WorkerGoes(t, IF worker[t] = "async" THEN "rows" ELSE "unlock")
  /\ UNCHANGED <<opt, user, fctx, dec, complete, hist>>

(* ff_thread_await_progress for the rows of the reference, then               *)
(* ff_thread_report_progress for its own, to those who wait for this thread.  *)
Reported(t) == {th[t].pkt}
DecodeRows(t) ==
  /\ Runs(t, "rows")
  /\ LET ref == th[t].needs
     IN IF ref # NoRef /\ ref.no \notin complete
          THEN Sleeps(t, Progress(ref.owner)) /\ UNCHANGED <<th, worker, complete>>
          ELSE /\ complete' = complete \cup Reported(t)
               /\ th' = [th EXCEPT ![t].needs = NoRef]
               /\ Wake({Progress(t)}) /\ WorkerGoes(t, "end")
  /\ UNCHANGED <<opt, user, fctx, dec, lock, hist>>

(* The codec has returned; perhaps it has not finished its setup. *)
AfterDecode(t) == IF lock.hw = t THEN "unlock" ELSE "ready"
End(t) ==
  /\ Runs(t, "end")
  /\ IF ~SettingUp(t)
       THEN WorkerGoes(t, AfterDecode(t)) /\ UNCHANGED <<th, lock, asleep>>
       ELSE IF HasHw(t)
       THEN /\ HwFree(t) /\ lock' = [lock EXCEPT !.hw = t]
            /\ WorkerGoes(t, "endAsync") /\ UNCHANGED <<th, asleep>>
       ELSE SetupEnds(t) /\ WorkerGoes(t, "ready") /\ UNCHANGED lock
  /\ UNCHANGED <<opt, user, fctx, dec, complete, hist>>

Unlock(t) ==
  /\ Runs(t, "unlock")
  /\ lock' = [lock EXCEPT !.hw = IF @ = t THEN Nobody ELSE @,
                          !.async = IF @ = t THEN Nobody ELSE @]
  /\ IF lock.async = t THEN Wake({Async}) ELSE UNCHANGED asleep
  /\ WorkerGoes(t, "ready")
  /\ UNCHANGED <<opt, user, fctx, dec, th, complete, hist>>

(* Only the caller waits on output_cond, so one signal is enough. *)
Ready(t) ==
  /\ Runs(t, "ready")
  /\ th' = [th EXCEPT ![t].state = "ready"]
  /\ Wake({Progress(t), Output(t)})
  /\ WorkerGoes(t, "wait")
  /\ UNCHANGED <<opt, user, fctx, dec, lock, complete, hist>>

-----------------------------------------------------------------------------
UserStep ==
  \/ SubmitNothing \/ LockThread \/ AwaitSetup \/ CopyContext \/ CopyFails
  \/ CallBack \/ Collect \/ Return
  \/ Park \/ FlushThreads \/ FreeThreads \/ Kill \/ Join

WorkerStep(t) ==
  \/ AwaitPacket(t) \/ Begin(t) \/ DecodeEmpty(t) \/ DecodeNothing(t)
  \/ GetFormat(t) \/ GotFormat(t) \/ GetBuffer(t) \/ GotBuffer(t)
  \/ SetUp(t) \/ SerialSetup(t) \/ DecodeRows(t) \/ End(t) \/ Unlock(t) \/ Ready(t)

Terminated == user.at = "closed" /\ UNCHANGED vars

Next ==
  \/ SendPacket \/ Drain \/ Flush \/ Close \/ UserStep
  \/ \E t \in Threads : WorkerStep(t)
  \/ Terminated

Spec == Init /\ [][Next]_vars

(* Every thread runs, and the caller within a call. *)
FairSpec == /\ Spec /\ WF_vars(UserStep) /\ \A t \in Threads : WF_vars(WorkerStep(t))
            /\ WF_vars(Drain /\ dec.draining)

-----------------------------------------------------------------------------
(* Frames are returned in the order of their packets, each once and none     *)
(* from before a flush.                                                      *)
Returned(i) == hist.returned[i]
InOrder ==
  /\ \A i, j \in 1 .. Len(hist.returned) : i < j => Returned(i) < Returned(j)
  /\ \A i \in 1 .. Len(hist.returned) : Returned(i) > hist.flushed

(* When draining is over, every packet since the last flush has come back,   *)
(* unless it failed or made no frame (or the codec has kept failing).        *)
NoneLeft == (dec.done /\ dec.errors <= MaxErrors) =>
  \A n \in hist.flushed + 1 .. hist.given :
    n \in hist.dropped \/ \E i \in 1 .. Len(hist.returned) : Returned(i) = n

(* Frames come back in the order of their packets and each of them once,     *)
(* while the threads fill up, drain and start anew after a flush.            *)
EachFrameOnce == InOrder /\ NoneLeft

(* A frame that is returned is complete, although the thread that returned   *)
(* it need not be the one that decodes it.                                   *)
ReturnedComplete == \A i \in 1 .. Len(hist.returned) : Returned(i) \in complete

BeforeSetup == {"begin", "decode", "format", "buffer", "setup", "async"}
(* No context is copied while its thread still sets it up, not even while    *)
(* the thread waits for a call back: submit_packet only looks for            *)
(* STATE_SETTING_UP.                                                         *)
SetupHandedOn ==
  (user.at = "copy" /\ opt.update /\ fctx.prev # Nobody /\ ~SettingUp(fctx.prev))
    => worker[fctx.prev] \notin BeforeSetup

-----------------------------------------------------------------------------
(* The invariant behind these, in four parts. *)

Calling == {"submit", "copy", "callback", "collect", "return"}
Active  == Calling \cup {"idle"}
Ending  == {"kill", "join", "closed"}
Somebody == Threads \cup {Nobody}
Refs     == [no : Nat, owner : Somebody]
Contexts == [held : Seq(Nat), ref : Refs, format : BOOLEAN]
Users   == [at : Active \cup Ending \cup {"flush", "free"}, pkt : Nat, i : 0 .. N,
            got : Nat, err : {0, -1}]
PerThread == [state : {"ready", "setup", "buffer", "format", "finished"}, pkt : Nat, frame : Nat,
              result : {0, -1}, die : BOOLEAN, released : BOOLEAN, needs : Refs, ctx : Contexts]
Histories == [given : Nat, flushed : Nat, fails : Nat, dropped : SUBSET Nat, returned : Seq(Nat)]
Conditions == {"awake", "input", "progress", "output", "async"} \X Somebody
TypeOK ==
  /\ opt \in Options
  /\ user \in Users
  /\ fctx \in [decoding : 0 .. N, finished : Threads, delaying : BOOLEAN, prev : Somebody]
  /\ dec \in [draining : BOOLEAN, done : BOOLEAN, errors : Nat]
  /\ th \in [Threads -> PerThread]
  /\ worker \in [Threads -> BeforeSetup \cup {"wait", "exited", "rows", "endAsync", "end",
                                              "unlock", "ready"}]
  /\ lock \in [buffer : Somebody, hw : Somebody, async : Somebody \cup {Caller}]
  /\ asleep \in [0 .. N -> Conditions]
  /\ complete \subseteq Nat
  /\ hist \in Histories

(* What the state of a thread says of where its worker is, and of the caller *)
(* who answers it.                                                           *)
InSetup(t) == th[t].state \in {"setup", "buffer", "format"}
Machine(t) ==
  /\ th[t].state = "ready" => worker[t] \in {"wait", "exited"}
  /\ worker[t] = "wait" => th[t].state \in {"ready", "setup"}
  /\ worker[t] = "exited" => th[t].die
  /\ th[t].die => user.at \in Ending
  /\ worker[t] \in {"format", "buffer", "setup"} => th[t].pkt # 0
  /\ opt.own /\ InSetup(t) => user.at = "callback" /\ Current = t
  /\ Asks(t) => opt.own /\ worker[t] \in {"format", "buffer"}
  /\ opt.own /\ worker[t] \in {"begin", "decode", "format", "buffer"} => InSetup(t)
  /\ opt.update /\ worker[t] \in BeforeSetup => InSetup(t)

(* The caller goes round the threads: those between the one whose frame is   *)
(* due and the one that is next have a packet, the others are done with.     *)
Where  == IF fctx.decoding = N THEN 0 ELSE fctx.decoding
Off(t) == IF t >= fctx.finished THEN t - fctx.finished ELSE t - fctx.finished + N
Span   == IF user.at = "collect" /\ Where = fctx.finished THEN N ELSE Off(Where)
Out(t) == \/ Off(t) < Span /\ (user.at = "collect" => Off(t) >= Off(user.i))
          \/ user.at = "callback" /\ t = Current
Spent(t) == th[t].state = "ready" /\ th[t].frame = 0 /\ th[t].result = 0
Ring ==
  /\ fctx.decoding = N => user.at = "collect"
  /\ user.at \in {"kill", "join", "collect"} => user.i \in Threads
  /\ fctx.prev = Nobody => fctx.decoding = 0
  /\ fctx.prev # Nobody => Where = IF fctx.prev + 1 = N THEN 0 ELSE fctx.prev + 1
  /\ fctx.delaying /\ ~dec.draining => fctx.finished = 0
  /\ user.at \in Calling => (user.pkt = 0 <=> dec.draining)
  /\ user.at = "collect" /\ user.pkt # 0 => ~fctx.delaying
  /\ user.at = "copy" => worker[Current] = "wait"
  /\ user.at \in Active => \A t \in Threads : Out(t) \/ Spent(t)
  /\ user.at \in {"flush", "free"} => \A t \in Threads : t < user.i => th[t].state = "ready"

(* Where the packets are: undecided in a thread, a frame of a thread, or     *)
(* held back in the context of the thread used last.                         *)
Undecided(t) ==
  \/ worker[t] \in {"begin", "decode", "format", "buffer", "setup"}
  \/ worker[t] = "wait" /\ th[t].state = "setup"
Item(t) == IF Undecided(t) THEN th[t].pkt ELSE th[t].frame
Latest  == IF user.at = "callback" THEN Current ELSE fctx.prev
Queue   == IF Latest = Nobody THEN <<>> ELSE th[Latest].ctx.held
Sent    == IF user.at \in {"submit", "copy"} /\ user.pkt # 0 THEN hist.given - 1 ELSE hist.given
Elems(q)     == {q[k] : k \in 1 .. Len(q)}
Ascending(q) == \A k, l \in 1 .. Len(q) : k < l => q[k] < q[l]
Behind(n)    == /\ hist.flushed < n /\ n <= Sent /\ user.got < n
                /\ \A x \in Elems(hist.returned) : x < n
Rowing(n)    == \E u \in Threads : th[u].pkt = n /\ worker[u] \in {"async", "rows"}
Order ==
  /\ \A t \in Threads : Item(t) # 0 => Behind(Item(t))
  /\ \A t, u \in Threads : Off(t) < Off(u) /\ Item(t) # 0 /\ Item(u) # 0 => Item(t) < Item(u)
  /\ \A x \in Elems(Queue) : Behind(x)
  /\ Ascending(Queue)
  /\ \A t \in Threads, x \in Elems(Queue) :
       Item(t) # 0 => IF Undecided(t) THEN x < Item(t) ELSE Item(t) < x
Accounted ==
  \A n \in hist.flushed + 1 .. Sent :
    \/ n \in hist.dropped \/ n = user.got \/ n \in Elems(hist.returned)
    \/ \E t \in Threads : Item(t) = n
    \/ n \in Elems(Queue)
Calls ==
  /\ user.at # "return" => user.got = 0
  /\ user.at \in Calling /\ user.pkt # 0 => user.pkt = hist.given
  /\ dec.done => dec.draining /\ user.at \notin Calling
  /\ hist.flushed <= Sent /\ \A x \in Elems(hist.returned) : x <= Sent
  /\ user.got # 0 => /\ hist.flushed < user.got /\ user.got <= hist.given
                     /\ \A x \in Elems(hist.returned) : x < user.got
Holding ==
  /\ ~opt.update \/ ~opt.delayed => \A t \in Threads : th[t].ctx.held = <<>>
  /\ user.at \in Active =>
      /\ \A t \in Threads : Undecided(t) => th[t].frame = 0 /\ (opt.update => t = Latest)
      /\ Latest = Nobody => \A t \in Threads : th[t].ctx.held = <<>>
Draining ==
  /\ user.at \in {"callback", "collect"} /\ user.pkt = 0 /\ opt.delayed =>
      /\ Latest # Nobody /\ th[Latest].pkt = 0
      /\ Undecided(Latest) \/ th[Latest].frame # 0 \/ th[Latest].result # 0 \/ Queue = <<>>
  /\ user.at = "return" /\ user.pkt = 0 /\ user.got = 0 /\ user.err = 0 =>
      Queue = <<>> /\ \A t \in Threads : Spent(t)
Flow == Calls /\ Holding /\ Draining /\ (user.at \in Active => Order /\ Accounted)

(* A frame is complete, or on its way in a thread the caller waits for first. *)
Rows ==
  user.at \in Active =>
    /\ \A t \in Threads : th[t].frame # 0 =>
         \/ th[t].frame \in complete
         \/ \E u \in Threads : /\ th[u].pkt = th[t].frame /\ worker[u] \in {"async", "rows"}
                              /\ Off(u) <= Off(t)
    /\ \A x \in Elems(Queue) : x \in complete \/ Rowing(x)
    /\ user.got # 0 => user.got \in complete

IInv == /\ TypeOK /\ (\A t \in Threads : Machine(t)) /\ Ring /\ Flow /\ Rows
        /\ EachFrameOnce /\ ReturnedComplete

(* Every call returns: no deadlock between the caller and the threads, which *)
(* wait for him to call back, for each other's rows, and for three locks.    *)
CallReturns == user.at \notin {"idle", "closed"} ~> user.at \in {"idle", "closed"}

(* A caller who drains comes to an end, whatever the codec answers. *)
DrainEnds == dec.draining ~> dec.done \/ ~dec.draining \/ user.at = "closed"
=============================================================================
