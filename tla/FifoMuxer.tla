------------------------------ MODULE FifoMuxer -------------------------------
(***************************************************************************)
(* The fifo muxer, libavformat/fifo.c: the caller's packets go through a   *)
(* message queue to a thread that writes them with another muxer, restarts *)
(* that muxer when it fails, and drops packets when the queue is full, as  *)
(* the options say.                                                        *)
(*                                                                         *)
(* What the inner muxer and its output answer is chosen freely, at most    *)
(* MaxFails times with an error.  It has no AVOutputFormat.init (or one    *)
(* that answers 1), so that avformat_write_header returns 0 or an error.   *)
(* Time is the caller's: when the recovery wait is over in real time is    *)
(* chosen freely too.                                                      *)
(***************************************************************************)
EXTENDS MessageQueue

CONSTANTS
  Options,     \* the settings of FifoContext to explore
  Errors,      \* what the inner muxer may fail with
  MaxPackets,  \* bound: packets the caller has
  MaxFails     \* bound: how often the inner muxer fails

Ok   == "ok"
Eof  == "eof"     \* AVERROR_EOF
Again == "again"  \* AVERROR(EAGAIN)
Exit == "exit"    \* AVERROR_EXIT
(* EINVAL, ENOSYS and the others that is_recoverable takes for permanent. *)
Permanent == "inval"

(* fifo_init turns these settings down. *)
Accepted(o) == o.stream => o.drop

ASSUME FifoAssumption ==
  /\ Options \subseteq [drop: BOOLEAN,     \* drop_pkts_on_overflow
                        recover: BOOLEAN,  \* attempt_recovery
                        any: BOOLEAN,      \* recover_any_error
                        stream: BOOLEAN,   \* recovery_wait_streamtime
                        restart: BOOLEAN,  \* restart_with_keyframe
                        max: Nat]          \* max_recovery_attempts
  /\ {NoErr, Ok, Eof} \intersect Errors = {} /\ NoErr \notin {Ok, Eof, Again}
  /\ MaxPackets \in Nat /\ MaxFails \in Nat

VARIABLES
  opts,     \* the options of this muxer
  user,     \* the caller: where it is
  inHand,   \* the message it waits to send, HeaderMsg if none
  given,    \* packets handed over so far: numbers the next one
  overflow, \* fifo->overflow_flag
  writer,   \* fifo_consumer_thread: where it is
  msg, ret, \* its message and the result it last saw
  header,   \* ctx->header_written
  nr,       \* ctx->recovery_nr; only whether it is 0 when there is no maximum
  lastTs,   \* whether ctx->last_recovery_ts is a time stamp
  dropKey,  \* ctx->drop_until_keyframe
  out,      \* history: what the inner muxer was made to write
  fails     \* history: failures so far

userVars   == <<user, inHand, given>>
writerVars == <<writer, msg, ret, header, nr, lastTs, dropKey, out, fails>>
fifoVars   == <<queueVars, opts, overflow, userVars, writerVars>>

(* FifoMessage.  scale counts how often the time stamps were converted from  *)
(* the caller's time base to that of the output.                             *)
Message(t, n, k, ts) == [type |-> t, n |-> n, key |-> k, ts |-> ts, scale |-> 0]
HeaderMsg == Message("header", 0, FALSE, TRUE)
FlushMsg  == Message("flush", 0, FALSE, TRUE)

Began == Message("began", 0, FALSE, TRUE)  \* in out: avformat_write_header ...
Ended == Message("ended", 0, FALSE, TRUE)  \* ... and av_write_trailer

Init ==
  /\ QueueInit
  /\ opts \in {o \in Options : Accepted(o)}
  /\ user = "new" /\ inHand = HeaderMsg /\ given = 0 /\ overflow = FALSE
  /\ writer = "none" /\ msg = HeaderMsg /\ ret = Ok
  /\ header = FALSE /\ nr = 0 /\ lastTs = FALSE /\ dropKey = FALSE
  /\ out = <<>> /\ fails = 0

-----------------------------------------------------------------------------
(* The caller. *)

(* fifo_write_header starts the thread, whose first message is made up. *)
WriteHeader ==
  /\ user = "new" /\ user' = "idle"
  /\ writer' = "dispatch"
  /\ UNCHANGED <<queueVars, opts, overflow, inHand, given,
                 msg, ret, header, nr, lastTs, dropKey, out, fails>>

(* av_thread_message_queue_send in fifo_write_packet. *)
SendMessage(m) ==
  \/ SendPuts(m) /\ user' = "idle" /\ inHand' = HeaderMsg
  \/ opts.drop /\ SendFull /\ user' = "overflow" /\ UNCHANGED <<queueVars, inHand>>
  \/ ~opts.drop /\ SendWaits("user") /\ user' = "send" /\ inHand' = m
  \/ SendFails /\ user' = "idle" /\ inHand' = HeaderMsg /\ UNCHANGED queueVars

(* fifo_write_packet, with a packet or with NULL. *)
WritePacket ==
  /\ user = "idle" /\ given < MaxPackets
  /\ \/ SendMessage(FlushMsg) /\ UNCHANGED given
     \/ /\ given' = given + 1
        /\ \E key, ts \in BOOLEAN :
             /\ ts \/ opts.stream
             /\ SendMessage(Message("packet", given + 1, key, ts))
  /\ UNCHANGED <<opts, overflow, writerVars>>

(* The caller was waiting for room and is awake again. *)
SendAgain ==
  /\ user = "send" /\ "user" \notin sendWait
  /\ SendMessage(inHand)
  /\ UNCHANGED <<opts, overflow, given, writerVars>>

(* The queue was full: set the flag, under overflow_flag_lock, which the     *)
(* thread holds from its test to its reset.                                  *)
SetOverflow ==
  /\ user = "overflow" /\ writer # "clear"
  /\ overflow' = TRUE /\ user' = "idle"
  /\ UNCHANGED <<queueVars, opts, inHand, given, writerVars>>

(* fifo_write_trailer. *)
WriteTrailer ==
  /\ user = "idle" /\ user' = "join"
  /\ SetErrRecv(Eof)
  /\ UNCHANGED <<opts, overflow, inHand, given, writerVars>>

Joined ==
  /\ user = "join" /\ writer = "exited" /\ user' = "done"
  /\ UNCHANGED <<queueVars, opts, overflow, inHand, given, writerVars>>

-----------------------------------------------------------------------------
(* The thread. *)

Fails(e) == e \in Errors /\ fails < MaxFails /\ fails' = fails + 1
Works    == UNCHANGED fails

(* fifo_thread_write_header fails: before avformat_write_header has          *)
(* succeeded, or after it, when an option is left over.                      *)
HeaderFails(o, e) ==
  /\ Fails(e)
  /\ \/ header' = FALSE /\ out' = o
     \/ e = Permanent /\ header' = TRUE /\ out' = Append(o, Began)

(* fifo_thread_write_packet: time stamps are converted before the packet is  *)
(* written, and stay converted when that fails.                              *)
PacketDone(o, skip, r) ==
  LET p == [msg EXCEPT !.scale = @ + 1]
  IN IF skip /\ ~msg.key
     THEN r = Ok /\ Works /\ out' = o /\ dropKey' = TRUE /\ UNCHANGED msg
     ELSE /\ dropKey' = FALSE /\ msg' = p
          /\ \/ r = Ok /\ Works /\ out' = Append(o, p)
             \/ Fails(r) /\ out' = o

(* fifo_thread_dispatch_message with result r, when the output so far is o,  *)
(* its header is written or not (h), and packets are to be skipped (skip).   *)
Dispatch(o, h, skip, r) ==
  \/ ~h /\ HeaderFails(o, r) /\ dropKey' = skip /\ UNCHANGED msg
  \/ LET begun == IF h THEN o ELSE Append(o, Began)
     IN /\ header' = TRUE
        /\ IF msg.type = "packet" THEN PacketDone(begun, skip, r)
           ELSE /\ \/ r = Ok /\ Works
                   \/ msg.type = "flush" /\ Fails(r)
                /\ out' = begun /\ dropKey' = skip /\ UNCHANGED msg

Results == Errors \union {Ok}

DispatchMessage ==
  /\ writer = "dispatch" /\ nr = 0
  /\ \E r \in Results :
       /\ Dispatch(out, header, dropKey, r)
       /\ ret' = r
       /\ writer' = IF r = Ok THEN "check" ELSE "recover"
  /\ UNCHANGED <<queueVars, opts, overflow, userVars, nr, lastTs>>

(* A message that is received during a recovery goes straight to it. *)
DispatchLater ==
  /\ writer = "dispatch" /\ nr > 0 /\ writer' = "recover"
  /\ UNCHANGED <<queueVars, opts, overflow, userVars,
                 msg, ret, header, nr, lastTs, dropKey, out, fails>>

(* is_recoverable. *)
IsRecoverable(e) ==
  /\ opts.recover
  /\ IF opts.any THEN e # Exit ELSE e \notin {Permanent, Eof, Exit}

(* fifo_thread_recover after an attempt that answers e: the caller's packets *)
(* are given up or the attempt is repeated.                                  *)
AfterAttemptSkips(e) ==  \* a mutant
  writer' = (IF e # Again THEN "stop" ELSE "check") /\ ret' = (IF e # Again THEN e ELSE ret)
AfterAttempt(e) ==
  IF e # Again THEN writer' = "stop" /\ ret' = e
  ELSE writer' = (IF opts.drop THEN "check" ELSE "recover") /\ UNCHANGED ret

RecoverNot ==
  /\ writer = "recover" /\ ~IsRecoverable(ret)
  /\ AfterAttempt(ret)
  /\ UNCHANGED <<queueVars, opts, overflow, userVars,
                 msg, header, nr, lastTs, dropKey, out, fails>>

(* fifo_thread_attempt_recovery ends what the output has begun... *)
OutLeftOpen == out  \* a mutant
EndedOut == IF header THEN Append(out, Ended) ELSE out

(* ... then may find that it is too early.  With stream time this is so      *)
(* exactly when the time stamp of the last failure is unknown: subtracting   *)
(* AV_NOPTS_VALUE from a time stamp, which is not negative here, gives a     *)
(* huge negative time.  In real time a muxer that does not drop packets      *)
(* sleeps until it is time.                                                  *)
TooEarly ==
  /\ writer = "recover" /\ IsRecoverable(ret) /\ nr > 0 /\ opts.drop
  /\ opts.stream => ~lastTs
  /\ header' = FALSE /\ out' = EndedOut
  /\ AfterAttempt(Again)
  /\ UNCHANGED <<queueVars, opts, overflow, userVars, msg, nr, lastTs, dropKey, fails>>

Attempts == IF opts.max = 0 THEN 1 ELSE nr + 1
SkipOnlyOn == dropKey  \* a mutant
Skip     == dropKey \/ (opts.restart /\ opts.drop)

(* fifo_thread_process_recovery_failure. *)
RecoveryFails(e) ==
  /\ lastTs' = (opts.stream => msg.ts)
  /\ nr' = Attempts
  /\ AfterAttempt(IF opts.max > 0 /\ Attempts >= opts.max THEN e ELSE Again)

AttemptRecovery ==
  /\ writer = "recover" /\ IsRecoverable(ret)
  /\ (nr > 0 /\ opts.stream) => lastTs
  /\ \E r \in Results :
       /\ Dispatch(EndedOut, FALSE, Skip, r)
       /\ CASE r = Ok -> nr' = 0 /\ lastTs' = lastTs /\ writer' = "check" /\ ret' = r
            [] r # Ok /\ IsRecoverable(r) -> RecoveryFails(r)
            [] OTHER -> nr' = Attempts /\ lastTs' = lastTs /\ AfterAttempt(r)
  /\ UNCHANGED <<queueVars, opts, overflow, userVars>>

SkipAfterOverflow == dropKey \/ opts.restart

(* fifo_consumer_thread, under overflow_flag_lock: the queue is emptied when *)
(* the caller found it full; the caller may go on before the flag is reset.  *)
CheckOverflow ==
  /\ writer = "check"
  /\ IF overflow
       THEN Flush /\ dropKey' = SkipAfterOverflow /\ writer' = "clear"
       ELSE UNCHANGED <<queueVars, dropKey>> /\ writer' = "recv"
  /\ UNCHANGED <<opts, overflow, userVars, msg, ret, header, nr, lastTs, out, fails>>

ClearOverflow ==
  /\ writer = "clear" /\ writer' = "recv" /\ overflow' = FALSE
  /\ UNCHANGED <<queueVars, opts, userVars,
                 msg, ret, header, nr, lastTs, dropKey, out, fails>>

(* av_thread_message_queue_recv. *)
Receive ==
  /\ writer = "recv" /\ "writer" \notin recvWait
  /\ \/ RecvTakes /\ msg' = Head(queue) /\ ret' = Ok /\ writer' = "dispatch"
     \/ RecvWaits("writer") /\ UNCHANGED <<msg, ret, writer>>
     \/ RecvFails /\ ret' = errRecv /\ writer' = "stop" /\ UNCHANGED <<queueVars, msg>>
  /\ UNCHANGED <<opts, overflow, userVars, header, nr, lastTs, dropKey, out, fails>>

(* av_thread_message_queue_set_err_send, and out of the loop. *)
Stop ==
  /\ writer = "stop" /\ writer' = "trailer"
  /\ SetErrSend(ret)
  /\ UNCHANGED <<opts, overflow, userVars,
                 msg, ret, header, nr, lastTs, dropKey, out, fails>>

(* fifo_thread_write_trailer. *)
ThreadTrailer ==
  /\ writer = "trailer" /\ writer' = "exited"
  /\ out' = EndedOut
  /\ UNCHANGED <<queueVars, opts, overflow, userVars,
                 msg, ret, header, nr, lastTs, dropKey, fails>>

-----------------------------------------------------------------------------
UserStep   == SendAgain \/ SetOverflow \/ Joined
WriterStep ==
  \/ DispatchMessage \/ DispatchLater \/ RecoverNot \/ TooEarly \/ AttemptRecovery
  \/ CheckOverflow \/ ClearOverflow \/ Receive \/ Stop \/ ThreadTrailer

(* The caller is done, and so is the thread. *)
Terminating == user = "done" /\ UNCHANGED fifoVars

Next ==
  \/ WriteHeader \/ WritePacket \/ WriteTrailer \/ UserStep
  \/ WriterStep
  \/ Terminating

Spec == Init /\ [][Next]_fifoVars

(* The thread runs, and the caller within a call. *)
FairSpec == Spec /\ WF_fifoVars(UserStep) /\ WF_fifoVars(WriterStep)

-----------------------------------------------------------------------------
IsPacket(m)   == m.type = "packet"
Has(s, n)     == \E i \in 1 .. Len(s) : IsPacket(s[i]) /\ s[i].n = n
Older(s, n)   == \A i \in 1 .. Len(s) : IsPacket(s[i]) => s[i].n < n
Newer(s, n)   == \A i \in 1 .. Len(s) : IsPacket(s[i]) => n < s[i].n
Increasing(s) == \A i, j \in 1 .. Len(s) :
                   i < j /\ IsPacket(s[i]) /\ IsPacket(s[j]) => s[i].n < s[j].n

(* A muxer that does not drop packets leaves no gap, and has written them    *)
(* all when its thread was stopped by fifo_write_trailer and not by an error *)
(* (doc/muxers.texi:1777 "none of them is lost").                            *)
NoGap(s) == \A i \in 1 .. Len(s) : IsPacket(s[i]) => \A n \in 1 .. s[i].n : Has(s, n)
NothingLost ==
  ~opts.drop =>
    /\ NoGap(out)
    /\ writer = "exited" /\ errSend = Eof => \A n \in 1 .. given : Has(out, n)

(* What fifo.c promises of packets: they are always written in the order     *)
(* they were given and none twice, however often the output is restarted in  *)
(* between, and none is lost when it may not drop any.                       *)
Complete == Increasing(out) /\ NothingLost

(* Every header the inner muxer writes is closed by one trailer before the   *)
(* next, also after failures in the header, in a packet or in a restart, and *)
(* packets are written between the two only.                                 *)
SessionsClosed ==
  /\ \A i \in 1 .. Len(out) :
       IF out[i].type = "began" THEN i = 1 \/ out[i - 1].type = "ended"
                                ELSE i > 1 /\ out[i - 1].type # "ended"
  /\ writer = "exited" => out = <<>> \/ out[Len(out)].type = "ended"

(* With restart_with_keyframe (and dropping) an output that was restarted    *)
(* begins with a key frame, in whatever step the failure happened.           *)
RestartsWithKey ==
  opts.restart /\ opts.drop =>
    \A i \in 2 .. Len(out) :
      i > 2 /\ IsPacket(out[i]) /\ out[i - 1].type = "began" => out[i].key

(* With restart_with_keyframe a gap in the packets, also one that overflow   *)
(* leaves, ends at a key frame: "whether to wait for the keyframe after      *)
(* recovering from queue overflow or failure" (doc/muxers.texi:1808).        *)
Gap(s, i) == IsPacket(s[i]) /\ s[i].n > 1 /\ ~Has(s, s[i].n - 1)
GapEndsAtKey == opts.restart /\ opts.drop =>
  \A i \in 1 .. Len(out) : Gap(out, i) => out[i].key

(* What is left of that: the thread may test the flag between the send that  *)
(* found the queue full and the setting of the flag, then it writes what the *)
(* next send brings; the packet after that one is a key frame.               *)
KeyAfterGap(s) ==
  \A i, j \in 1 .. Len(s) :
    /\ i < j /\ Gap(s, i) /\ IsPacket(s[j])
    /\ \A k \in i + 1 .. j - 1 : ~IsPacket(s[k])
    => s[i].key \/ s[j].key
GapClosesSoon == opts.restart /\ opts.drop => KeyAfterGap(out)

(* Every call of the muxer returns: the caller that waits for room gets it   *)
(* or an error, and av_write_trailer joins a thread that ends.               *)
CallReturns == user \in {"send", "overflow", "join"} ~> user \in {"idle", "done"}

-----------------------------------------------------------------------------
(* The invariant that is proved in FormatProofs. *)

Messages ==
  [type: {"header", "packet", "flush", "began", "ended"}, n: Nat,
   key: BOOLEAN, ts: BOOLEAN, scale: Nat]

TypeOK ==
  /\ opts \in Options /\ Accepted(opts)
  /\ queue \in Seq(Messages) /\ Len(queue) <= QueueSize
  /\ errSend \in Errors \union {NoErr, Ok, Eof, Again} /\ errRecv \in {NoErr, Eof}
  /\ sendWait \subseteq {"user"} /\ recvWait \subseteq {"writer"}
  /\ user \in {"new", "idle", "send", "overflow", "join", "done"}
  /\ inHand \in Messages /\ given \in Nat /\ overflow \in BOOLEAN
  /\ writer \in {"none", "dispatch", "recover", "check", "clear", "recv",
                 "stop", "trailer", "exited"}
  /\ msg \in Messages /\ ret \in Errors \union {Ok, Eof}
  /\ header \in BOOLEAN /\ nr \in Nat /\ lastTs \in BOOLEAN /\ dropKey \in BOOLEAN
  /\ out \in Seq(Messages)

(* Who waits is where it can wait, and has a reason. *)
Waiting ==
  /\ "user" \in sendWait => user = "send"
  /\ "writer" \in recvWait => writer = "recv"
  /\ NobodySleepsInVain
  /\ ~opts.drop => ~overflow /\ ~dropKey /\ user # "overflow"
  /\ user = "new" <=> writer = "none"
  /\ user \in {"join", "done"} <=> errRecv # NoErr

(* The packets that are on their way. *)
InWork == writer \in {"dispatch", "recover"} /\ IsPacket(msg)
Held   == user = "send" /\ IsPacket(inHand)

(* What is written is older than what the thread works on, that older than   *)
(* what is queued, and that older than what the caller waits to send.        *)
AllOlder(s, t) == \A i \in 1 .. Len(s), j \in 1 .. Len(t) :
                    IsPacket(s[i]) /\ IsPacket(t[j]) => s[i].n < t[j].n
AgeOrder ==
  /\ writer = "none" => ~IsPacket(msg)
  /\ Increasing(out) /\ Older(out, given + 1)
  /\ Increasing(queue) /\ Older(queue, given + 1) /\ AllOlder(out, queue)
  /\ InWork => msg.n <= given /\ Older(out, msg.n) /\ Newer(queue, msg.n)
  /\ Held => /\ inHand.n = given /\ Older(out, given) /\ Older(queue, given)
             /\ InWork => msg.n < given

(* Where a packet can be. *)
Somewhere(n) ==
  Has(out, n) \/ Has(queue, n) \/ (InWork /\ msg.n = n) \/ (Held /\ inHand.n = n)

(* The thread ends with Eof only when it was told to and has written all.    *)
Ending == writer \in {"stop", "trailer", "exited"}
Accounted ==
  /\ errSend = IF writer \in {"trailer", "exited"} THEN ret ELSE NoErr
  /\ ret = Eof => Ending /\ errRecv # NoErr /\ queue = <<>>
  /\ ~opts.drop /\ (Ending => ret = Eof) => \A n \in 1 .. given : Somewhere(n)

(* The output is open exactly when the thread thinks so; between two failed  *)
(* attempts it is not; and a restarted one that has no packet yet waits for  *)
(* a key frame or is about to be restarted.                                  *)
Open(s)     == s # <<>> /\ s[Len(s)].type # "ended"
Began2(s)   == Len(s) > 1 /\ s[Len(s)].type = "began"
Retrying    == nr > 0 \/ writer = "recover" \/ Ending
Sessions ==
  /\ writer # "exited" => (header <=> Open(out))
  /\ header \/ out = <<>> \/ Retrying
  /\ opts.restart /\ opts.drop /\ Began2(out) => dropKey \/ Retrying
  /\ ~opts.recover =>
       /\ nr = 0 /\ ~Began2(out)
       /\ writer # "exited" => header \/ out = <<>>

IInv ==
  /\ TypeOK /\ Waiting /\ AgeOrder /\ Accounted /\ Sessions
  /\ NothingLost /\ SessionsClosed /\ RestartsWithKey

-----------------------------------------------------------------------------
(* Why a gap ends at a key frame.  Only a key frame is written while the     *)
(* thread is Safe; the flag may be Pending, not yet seen by the thread.      *)
Safe    == dropKey \/ nr > 0 \/ writer = "recover" \/ Ending
Pending == overflow /\ writer # "clear"
BadEnd(s) == \E i \in 1 .. Len(s) :
  Gap(s, i) /\ ~s[i].key /\ \A k \in i + 1 .. Len(s) : ~IsPacket(s[k])

(* Until the queue is found full no packet is missing between what the       *)
(* thread handled last, what it works on, what is queued and what comes.     *)
Handled(n) == IF InWork THEN msg.n = n ELSE n = 0 \/ Has(out, n) \/ Safe
Unbroken ==
  /\ InWork => msg.n = 1 \/ Has(out, msg.n - 1) \/ Safe
  /\ \A i, j \in 1 .. Len(queue) :
       i < j /\ IsPacket(queue[i]) /\ IsPacket(queue[j]) => Has(queue, queue[j].n - 1)
  /\ \A i \in 1 .. Len(queue) :
       IsPacket(queue[i]) => Has(queue, queue[i].n - 1) \/ Handled(queue[i].n - 1)
  /\ user # "overflow" =>
       /\ (\E i \in 1 .. Len(queue) : IsPacket(queue[i])) => Has(queue, given)
       /\ Has(queue, given) \/ Handled(given)

GapInv ==
  /\ user = "send" => ~opts.drop
  /\ opts.restart /\ opts.drop =>
       /\ KeyAfterGap(out)
       /\ BadEnd(out) => Safe \/ (overflow /\ writer = "check")
       /\ ~Pending /\ ~Ending => Unbroken
=============================================================================
