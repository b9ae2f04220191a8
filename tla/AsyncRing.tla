------------------------------ MODULE AsyncRing -------------------------------
(***************************************************************************)
(* The async protocol, libavformat/async.c: a thread reads ahead from an   *)
(* inner protocol into a ring that also keeps what was read last, so that  *)
(* short seeks move a position in the ring; other seeks are left to the    *)
(* thread.                                                                 *)
(*                                                                         *)
(* A step is a section under the mutex or a step of what is done without   *)
(* it: the thread fills the ring (libavutil/fifo.c) and the caller seeks   *)
(* backwards with no lock.  The content of the inner protocol is its       *)
(* positions: byte p of the stream is p.                                   *)
(***************************************************************************)
EXTENDS Integers, Sequences

CONSTANTS
  Ahead,      \* BUFFER_CAPACITY
  Back,       \* READ_BACK_CAPACITY
  Short,      \* SHORT_SEEK_THRESHOLD
  Chunk,      \* what is read at a time
  NdxMod,     \* 2^32, where the indices of AVFifoBuffer wrap
  Total,      \* bytes of the inner protocol
  MaxRead,    \* bound: bytes asked for in one call
  Targets,    \* positions the caller seeks to
  MaxFails,   \* bound: how often the inner protocol fails
  Interrupts  \* whether the caller's interrupt callback may ask to stop

Size == Ahead + Back

ASSUME AsyncAssumption ==
  /\ Ahead \in Nat \ {0} /\ Back \in Nat /\ Short \in Nat /\ Chunk \in Nat \ {0}
  /\ NdxMod \in Nat /\ NdxMod > Size
  /\ Total \in Nat /\ MaxRead \in Nat \ {0} /\ MaxFails \in Nat /\ Targets \subseteq Nat
  /\ Interrupts \in BOOLEAN

(* Results below zero; 0 is also what inner_io_error and io_error start with. *)
Eof     == -1  \* AVERROR_EOF
Exit    == -2  \* AVERROR_EXIT
Invalid == -3  \* AVERROR(EINVAL)
IoError == -4  \* any other error of the inner protocol

VARIABLES
  fifo,     \* AVFifoBuffer: its bytes, rptr, wptr, rndx, wndx
  readPos,  \* ring->read_pos
  inner,    \* the inner protocol: its position and how often it failed
  seek,     \* seek_request, seek_pos, seek_completed, seek_ret
  io,       \* inner_io_error, io_error, io_eof_reached, abort_request
  logical,  \* c->logical_pos
  sized,    \* whether c->logical_size is known
  user,     \* the caller: where it is, bytes to go, result so far
  got,      \* history: what the last call returned, from where, which bytes
  task,     \* async_buffer_task: where it is, with the locals of av_fifo_generic_write
  mainWaits, taskWaits  \* who waits on cond_wakeup_main, cond_wakeup_background

ringVars == <<fifo, readPos, inner, seek, io, logical, sized, user, got, task, mainWaits, taskWaits>>

Min2(a, b) == IF a < b THEN a ELSE b

FifoSize  == (fifo.wndx - fifo.rndx) % NdxMod  \* av_fifo_size
RingSpace == Size - FifoSize                   \* ring_space
RingSize  == FifoSize - readPos                \* ring_size

NoBytes == -1
EmptyFifo(bytes) == [bytes |-> bytes, rptr |-> 0, wptr |-> 0, rndx |-> 0, wndx |-> 0]
Nothing == [ret |-> 0, from |-> 0, bytes |-> <<>>]

RingInit ==
  /\ fifo = EmptyFifo([i \in 0 .. Size - 1 |-> NoBytes]) /\ readPos = 0
  /\ inner = [pos |-> 0, fails |-> 0]
  /\ seek = [request |-> FALSE, pos |-> 0, completed |-> FALSE, ret |-> 0]
  /\ io = [innerError |-> 0, error |-> 0, eof |-> FALSE, abort |-> FALSE]
  /\ logical = 0 /\ sized \in BOOLEAN
  /\ user = [at |-> "idle", toRead |-> 0, target |-> 0] /\ got = Nothing
  /\ task = [at |-> "check", left |-> 0, done |-> 0, wptr |-> 0]
  /\ mainWaits = FALSE /\ taskWaits = FALSE

(* async_check_interrupt: once it has said yes it always does. *)
Interrupted == io.abort \/ Interrupts
Continues   == ~io.abort

-----------------------------------------------------------------------------
(* The caller. *)

CallIs(place, n, target) ==
  user' = [at |-> place, toRead |-> n, target |-> target]
Idle == CallIs("idle", 0, 0)
ReadReturns(ret, bytes) == Idle /\ got' = [ret |-> ret, from |-> logical, bytes |-> bytes]
SeekReturns(ret) == Idle /\ got' = [Nothing EXCEPT !.ret = ret]

(* async_read. *)
Read ==
  /\ user.at = "idle"
  /\ \E n \in 1 .. MaxRead : CallIs("read", n, 0)
  /\ got' = Nothing
  /\ UNCHANGED <<fifo, readPos, inner, seek, io, logical, sized, task, mainWaits, taskWaits>>

(* ring_generic_read: what is further back than Back is given up. *)
At(ptr) == ptr % Size
Bytes(n) == [i \in 1 .. n |-> fifo.bytes[At(fifo.rptr + readPos + i - 1)]]
KeepAll(n) ==  \* mutant: nothing is given up
  readPos' = readPos + n /\ UNCHANGED fifo
RingRead(n) ==
  LET drain == readPos + n - Back
  IN IF drain <= 0 THEN readPos' = readPos + n /\ UNCHANGED fifo
     ELSE /\ readPos' = Back
          /\ fifo' = [fifo EXCEPT !.rptr = At(@ + drain), !.rndx = (@ + drain) % NdxMod]

(* async_read_internal up to a wait or the end: for async_read, which takes  *)
(* what there is, and for a seek forwards, which skips all it is asked to.   *)
InRead == user.at \in {"read", "skip"} /\ ~mainWaits
WakeTask == taskWaits' = FALSE

ReadStopped ==
  /\ InRead /\ Interrupted
  /\ io' = [io EXCEPT !.abort = TRUE]
  /\ IF user.at = "read" THEN ReadReturns(Exit, <<>>) ELSE SeekReturns(logical)
  /\ WakeTask
  /\ UNCHANGED <<fifo, readPos, inner, seek, logical, sized, task, mainWaits>>

ReadCopies ==
  /\ InRead /\ Continues /\ RingSize > 0
  /\ LET n == Min2(user.toRead, RingSize)
     IN /\ RingRead(n)
        /\ logical' = logical + n
        /\ CASE user.at = "read" -> ReadReturns(n, Bytes(n)) /\ UNCHANGED mainWaits
             [] user.at = "skip" /\ n = user.toRead -> SeekReturns(logical') /\ UNCHANGED mainWaits
             [] OTHER -> user' = [user EXCEPT !.toRead = @ - n] /\ mainWaits' = TRUE /\ UNCHANGED got
  /\ WakeTask
  /\ UNCHANGED <<inner, seek, io, sized, task>>

ReadEnds ==
  /\ InRead /\ Continues /\ RingSize <= 0 /\ io.eof
  /\ IF user.at = "skip" THEN SeekReturns(logical)
     ELSE ReadReturns(IF io.error # 0 THEN io.error ELSE Eof, <<>>)
  /\ WakeTask
  /\ UNCHANGED <<fifo, readPos, inner, seek, io, logical, sized, task, mainWaits>>

ReadWaits ==
  /\ InRead /\ Continues /\ RingSize <= 0 /\ ~io.eof
  /\ mainWaits' = TRUE /\ WakeTask
  /\ UNCHANGED <<fifo, readPos, inner, seek, io, logical, sized, user, got, task>>

(* async_seek to an absolute position, or from where we are.  Whether the    *)
(* ring has it is found without the mutex, while the thread may be writing.  *)
InRingLoose(p) == p >= logical - readPos - 1 /\ p < logical + RingSize + Short  \* mutant
InRing(p) == p >= logical - readPos /\ p < logical + RingSize + Short

Seek(p) ==
  /\ user.at = "idle" /\ got' = Nothing
  /\ \/ p = logical /\ CallIs("current", 0, 0)
     \/ p > logical /\ InRing(p) /\ CallIs("skip", p - logical, 0)
     \/ p < logical /\ InRing(p) /\ CallIs("back", 0, p)
     \/ p # logical /\ ~InRing(p) /\ (~sized \/ p > Total) /\ CallIs("cannot", 0, 0)
     \/ p # logical /\ ~InRing(p) /\ sized /\ p <= Total /\ CallIs("slow", 0, p)
  /\ UNCHANGED <<fifo, readPos, inner, seek, io, logical, sized, task, mainWaits, taskWaits>>

SeekAnswers ==
  /\ user.at \in {"current", "cannot"}
  /\ SeekReturns(IF user.at = "current" THEN logical ELSE Invalid)
  /\ UNCHANGED <<fifo, readPos, inner, seek, io, logical, sized, task, mainWaits, taskWaits>>

(* ring_drain backwards, without the mutex. *)
SeekBack ==
  /\ user.at = "back"
  /\ readPos' = readPos + user.target - logical
  /\ logical' = user.target
  /\ SeekReturns(logical')
  /\ UNCHANGED <<fifo, inner, seek, io, sized, task, mainWaits, taskWaits>>

(* Other seeks are a request to the thread. *)
RequestSeek ==
  /\ user.at = "slow"
  /\ seek' = [request |-> TRUE, pos |-> user.target, completed |-> FALSE, ret |-> 0]
  /\ \/ /\ Continues /\ CallIs("await", 0, 0) /\ mainWaits' = TRUE /\ WakeTask
        /\ UNCHANGED <<io, got>>
     \/ /\ Interrupted /\ io' = [io EXCEPT !.abort = TRUE]
        /\ SeekReturns(Exit) /\ UNCHANGED <<mainWaits, taskWaits>>
  /\ UNCHANGED <<fifo, readPos, inner, logical, sized, task>>

AwaitSeek ==
  /\ user.at = "await" /\ ~mainWaits
  /\ \/ /\ Interrupted /\ io' = [io EXCEPT !.abort = TRUE]
        /\ SeekReturns(Exit) /\ UNCHANGED <<logical, mainWaits, taskWaits>>
     \/ /\ Continues /\ seek.completed
        /\ logical' = IF seek.ret >= 0 THEN seek.ret ELSE logical
        /\ SeekReturns(seek.ret) /\ UNCHANGED <<io, mainWaits, taskWaits>>
     \/ /\ Continues /\ ~seek.completed
        /\ mainWaits' = TRUE /\ WakeTask /\ UNCHANGED <<io, logical, user, got>>
  /\ UNCHANGED <<fifo, readPos, inner, seek, sized, task>>

(* async_close. *)
Close ==
  /\ user.at = "idle"
  /\ io' = [io EXCEPT !.abort = TRUE] /\ WakeTask
  /\ CallIs("join", 0, 0)
  /\ UNCHANGED <<fifo, readPos, inner, seek, logical, sized, got, task, mainWaits>>

Joined ==
  /\ user.at = "join" /\ task.at = "exited" /\ CallIs("closed", 0, 0)
  /\ UNCHANGED <<fifo, readPos, inner, seek, io, logical, sized, got, task, mainWaits, taskWaits>>

-----------------------------------------------------------------------------
(* async_buffer_task. *)

Runs(place) == task.at = place /\ ~taskWaits
WakeMain == mainWaits' = FALSE
CanFail  == inner.fails < MaxFails

TaskExits ==
  /\ Runs("check") /\ Interrupted
  /\ io' = [io EXCEPT !.abort = TRUE, !.eof = TRUE, !.error = Exit]
  /\ task' = [task EXCEPT !.at = "exited"] /\ WakeMain
  /\ UNCHANGED <<fifo, readPos, inner, seek, logical, sized, user, got, taskWaits>>

(* ffurl_seek of the inner protocol empties the ring, or fails. *)
Answered(ret) == seek' = [seek EXCEPT !.request = FALSE, !.completed = TRUE, !.ret = ret]
Restarted == [io EXCEPT !.eof = FALSE, !.error = 0]
TaskSeeks ==
  /\ Runs("check") /\ Continues /\ seek.request
  /\ \/ /\ inner' = [inner EXCEPT !.pos = seek.pos]
        /\ io' = Restarted
        /\ fifo' = EmptyFifo(fifo.bytes) /\ readPos' = 0
        /\ Answered(seek.pos)
     \/ /\ CanFail /\ inner' = [inner EXCEPT !.fails = @ + 1]
        /\ Answered(IoError) /\ UNCHANGED <<io, fifo, readPos>>
  /\ WakeMain
  /\ UNCHANGED <<logical, sized, user, got, task, taskWaits>>

TaskRests ==
  /\ Runs("check") /\ Continues /\ ~seek.request
  /\ io.eof \/ RingSpace <= 0
  /\ taskWaits' = TRUE /\ WakeMain
  /\ UNCHANGED <<fifo, readPos, inner, seek, io, logical, sized, user, got, task>>

(* av_fifo_generic_write, without the mutex: the inner protocol reads right  *)
(* into the ring, up to its end and then from its start; only then is wndx   *)
(* written, and the bytes are there.                                         *)
StartWrite ==
  /\ Runs("check") /\ Continues /\ ~seek.request /\ ~io.eof /\ RingSpace > 0
  /\ task' = [at |-> "write", left |-> Min2(Chunk, RingSpace), done |-> 0, wptr |-> fifo.wptr]
  /\ UNCHANGED <<fifo, readPos, inner, seek, io, logical, sized, user, got, mainWaits, taskWaits>>

Written(p, n) ==
  [i \in 0 .. Size - 1 |-> IF i \in p .. p + n - 1 THEN inner.pos + i - p ELSE fifo.bytes[i]]

WriteChunk ==
  /\ Runs("write")
  /\ \E n \in 1 .. Min2(task.left, Size - task.wptr) :
       /\ inner.pos + n <= Total
       /\ fifo' = [fifo EXCEPT !.bytes = Written(task.wptr, n)]
       /\ inner' = [inner EXCEPT !.pos = @ + n]
       /\ task' = [task EXCEPT !.at = IF n = task.left THEN "publish" ELSE "write",
                               !.left = @ - n, !.done = @ + n, !.wptr = At(@ + n)]
  /\ io' = [io EXCEPT !.innerError = 0]
  /\ UNCHANGED <<readPos, seek, logical, sized, user, got, mainWaits, taskWaits>>

(* The end (0 or AVERROR_EOF), an error or an interrupt. *)
WriteStops ==
  /\ Runs("write")
  /\ \E e \in {0, Eof, Exit, IoError} :
       /\ e \in {0, Eof} => inner.pos = Total
       /\ e = Exit => Interrupted
       /\ e = IoError => CanFail
       /\ inner' = IF e = IoError THEN [inner EXCEPT !.fails = @ + 1] ELSE inner
       /\ io' = [io EXCEPT !.innerError = e, !.abort = @ \/ e = Exit]
  /\ task' = [task EXCEPT !.at = "publish"]
  /\ UNCHANGED <<fifo, readPos, seek, logical, sized, user, got, mainWaits, taskWaits>>

Publish ==
  /\ Runs("publish")
  /\ fifo' = [fifo EXCEPT !.wndx = (@ + task.done) % NdxMod, !.wptr = task.wptr]
  /\ task' = [task EXCEPT !.at = "finish"]
  /\ UNCHANGED <<readPos, inner, seek, io, logical, sized, user, got, mainWaits, taskWaits>>

Finish ==
  /\ Runs("finish")
  /\ io' = IF task.done > 0 THEN io
           ELSE [io EXCEPT !.eof = TRUE, !.error = IF io.innerError < 0 THEN io.innerError ELSE @]
  /\ task' = [at |-> "check", left |-> 0, done |-> 0, wptr |-> 0] /\ WakeMain
  /\ UNCHANGED <<fifo, readPos, inner, seek, logical, sized, user, got, taskWaits>>

-----------------------------------------------------------------------------
UserStep ==
  \/ ReadStopped \/ ReadCopies \/ ReadEnds \/ ReadWaits
  \/ SeekAnswers \/ SeekBack \/ RequestSeek \/ AwaitSeek \/ Joined
TaskStep ==
  TaskExits \/ TaskSeeks \/ TaskRests \/ StartWrite \/ WriteChunk \/ WriteStops \/ Publish \/ Finish

Terminated == user.at = "closed" /\ UNCHANGED ringVars

RingNext ==
  \/ Read \/ Close
  \/ \E p \in Targets : Seek(p)
  \/ UserStep \/ TaskStep \/ Terminated

RingSpec == RingInit /\ [][RingNext]_ringVars

(* The thread runs, the inner protocol answers, and the caller goes on       *)
(* within a call.                                                            *)
RingFairSpec == RingSpec /\ WF_ringVars(UserStep) /\ WF_ringVars(TaskStep)

-----------------------------------------------------------------------------
(* A read returns the bytes of the stream at the position where the caller   *)
(* is: whatever was sought before, in the ring or by the thread, and         *)
(* whatever the thread is writing into the ring meanwhile; and it says that  *)
(* the stream has ended only at its end, although the end was met by a       *)
(* thread that is ahead, maybe before a seek.                                *)
ReadExact ==
  /\ \A i \in 1 .. Len(got.bytes) : got.bytes[i] = got.from + i - 1
  /\ got.ret = Eof => got.from >= Total

(* Every call returns: neither waits for the other with the ring full, at    *)
(* the end, after an error or while a seek is asked for.                     *)
CallReturns == user.at \notin {"idle", "closed"} ~> user.at \in {"idle", "closed"}

-----------------------------------------------------------------------------
(* The invariant that is proved in LibThreadsProofs. *)

Errors == {0, Eof, Exit, IoError}
RingTypeOK ==
  /\ fifo \in [bytes: [0 .. Size - 1 -> Int], rptr: 0 .. Size - 1, wptr: 0 .. Size - 1,
               rndx: 0 .. NdxMod - 1, wndx: 0 .. NdxMod - 1]
  /\ readPos \in 0 .. Back /\ inner \in [pos: Nat, fails: Nat]
  /\ seek \in [request: BOOLEAN, pos: Nat, completed: BOOLEAN, ret: Nat \cup {IoError}]
  /\ io \in [innerError: Errors, error: Errors, eof: BOOLEAN, abort: BOOLEAN]
  /\ logical \in Nat /\ sized \in BOOLEAN
  /\ user \in [at: {"idle", "read", "skip", "current", "cannot", "back", "slow", "await",
                    "join", "closed"}, toRead: Nat, target: Nat]
  /\ task \in [at: {"check", "write", "publish", "finish", "exited"}, left: Nat, done: Nat,
               wptr: 0 .. Size - 1]
  /\ mainWaits \in BOOLEAN /\ taskWaits \in BOOLEAN

(* Where the ring begins in the stream: until the caller has seen the answer *)
(* of the thread to his seek, not where he thinks it does.  And how much is  *)
(* in it, what the thread has written but not published included.            *)
Jumped  == user.at = "await" /\ seek.completed /\ seek.ret >= 0
Start   == IF Jumped THEN seek.ret ELSE logical - readPos
Writing == task.at \in {"write", "publish"}
Stored  == FifoSize + (IF Writing THEN task.done ELSE 0)

(* The thread stays within the space it found, which can only grow.          *)
Bounds ==
  /\ readPos <= FifoSize /\ Stored <= Size
  /\ fifo.wptr = At(fifo.rptr + FifoSize)
  /\ Writing => task.wptr = At(fifo.rptr + Stored)
  /\ task.at = "write" => task.left > 0 /\ Stored + task.left <= Size

(* A seek that is left to the thread is one the caller waits for, or has     *)
(* given up with everything else.                                            *)
Seeks ==
  /\ seek.request /\ ~io.abort => user.at = "await"
  /\ user.at = "await" => (seek.request <=> ~seek.completed)
  /\ Jumped => readPos = 0
  /\ user.at = "back" => logical - readPos <= user.target /\ user.target < logical

(* Until the caller wants to stop, the ring has the bytes of the stream from *)
(* Start on, the inner protocol is where they end, and an end that was met   *)
(* is the end of the stream.                                                 *)
Contents == ~io.abort =>
  /\ inner.pos = Start + Stored
  /\ \A k \in 0 .. Stored - 1 : fifo.bytes[At(fifo.rptr + k)] = Start + k
Ends == ~io.abort =>
  /\ IF io.eof THEN task.at = "check" /\ (io.error \in {0, Eof} => inner.pos = Total)
               ELSE io.error = 0
  /\ task.at \in {"publish", "finish"} /\ task.done = 0 /\ io.innerError \in {0, Eof}
       => inner.pos = Total

RingIInv == RingTypeOK /\ Bounds /\ Seeks /\ Contents /\ Ends /\ ReadExact
=============================================================================
