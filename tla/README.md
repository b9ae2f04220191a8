# orange-ffmpeg in TLA+

A verification project for this repository: TLA+ modules that model its
pipelines, TLC configurations that check them on small instances, and theorems
that the TLA+ proof system (TLAPS) checks for every value of the constants.

Paths below are relative to `src/`; `FF/` stands for
`ffmpeg-libs/src/FFmpeg/`, `x264/` for `ffmpeg-libs/src/x264/`.

1. [The system](#1-the-system): its parts, their state, what is hard about
   them
2. [The modules](#2-the-modules): what models what, and how to read it against
   the code
3. [The runs](#3-the-runs): what TLC checks, with which bounds
4. [Fairness](#4-fairness)
5. [The proofs](#5-the-proofs)
6. [What the checks found](#6-what-the-checks-found)
7. [What is not modelled](#7-what-is-not-modelled)
8. [Plan](#8-plan)

## 1. The system

The repository holds four small C++ programs (`ffmpeg-code/`), the libraries
they are built from, in source (`ffmpeg-libs/src/`: FFmpeg, x264, fdk-aac) and
prebuilt, and a collection of command lines (`ffmpeg-cmd/`).

    ffmuxfile    audio file + video file --> interleaving of libavformat --> mp4
    ffdemux      mp4 --> libavformat --> .h264 and .aac (ADTS headers written by hand)
    ffvencode    raw pictures --> send/receive of libavcodec --> x264 --> .h264
    swscale      one picture --> libswscale --> one picture

The programs are sequential. The concurrency is below them: x264 encodes with
a lookahead thread, frame threads and thread pools, FFmpeg decodes with frame
threads and slice threads. The parts, with the state each keeps, its
operations, what is hard about it and what makes it correct:

| part | state | operations | what is hard | correct means |
|---|---|---|---|---|
| **x264 lookahead pipeline** `x264/encoder/lookahead.c`, `encoder.c`, lists of `common/frame.c` | three bounded lists (`ifbuf`, `next`, `ofbuf`), `frames.current`, thread phase, one context per frame thread | `x264_encoder_encode` with a picture or NULL, `_delayed_frames`, `_close`; the lookahead thread | three kinds of threads, condition variables, room tested for one frame and used for several, flags read outside the mutex | every picture comes out once, in coded order, after exactly `i_delay` others; every call and close returns; no list overflows |
| **x264 thread pool** `x264/common/threadpool.c` | lists of free, queued and finished jobs, the exit flag | init, run, wait, delete; the worker loop | lost wake-ups, waits nobody would end, jobs reused while their result is read | jobs start in order, a wait returns its own result, delete ends |
| **libavformat interleaving** `FF/libavformat/mux.c` | one sorted packet list, a pointer per stream into it, `cur_dts`, the offset against negative time stamps, `shortest_end` | `av_interleaved_write_frame` (packet or NULL), `av_write_trailer` | time bases that differ, pointers into a list that changes, sparse streams, flushes, failing output | packets are written in order of time, each once, and none is left in the list for too long |
| **ffmuxfile** `ffmpeg-code/ffmuxfile/` | the two inputs, per stream the next and last time stamps and counts | `Create`, `Muxer`, `Destory` | which stream goes next, in two time bases; time stamps made up for raw H.264; results nobody looks at | every frame of both inputs ends up in the file, in order and at its time |
| **ffdemux** `ffmpeg-code/ffdemux/` | the position in the file, one ADTS header that is reused | `Create`, `Demux`, `Destory`; `mpeg4_aac_adts_save` and `_load`, the same for AudioSpecificConfig | fields spread over bits of several bytes, a header that is refused | each audio packet follows a header that describes it (it does not: section 6) |
| **slice threads** `FF/libavutil/slicethread.c`, `FF/libavcodec/pthread_slice.c` | two shared counters, a flag and a mutex per worker, `done` | create, execute, free; `run_jobs` | nobody counts finished jobs; fields of the next call set without a lock | each job runs once, under a thread number of its own; a call returns when all are done |
| **ffvencode**, **send/receive** `FF/libavcodec/encode.c`, `libx264.c` | one buffered packet, the draining flag | `Encode`; `avcodec_send_frame`, `avcodec_receive_packet` | draining, a packet left in the buffer, failures in the middle | the file is the stream of packets, once each |
| **swscale program** `ffmpeg-code/swscale/` | plane pointers and strides | `Create`, `Scale`, `ScaleX`, `Destory` | strides that are padded, odd sizes | each row of the picture is moved where it belongs |
| **frame threads (decoding)** `FF/libavcodec/pthread_frame.c` | a state per thread, progress per frame | submit, output, report and await progress, flush, free | setup handed from thread to thread, call-backs to the caller, order of output | frames come back in order; nobody waits for progress that never comes |
| **frame-thread encoder** `FF/libavcodec/frame_thread_encoder.c` | a queue of tasks, a ring of results | encode, init, free; the worker | the ring's indices, exit with tasks queued | packets in order of submission |
| **message queue** `FF/libavutil/threadmessage.c` | a bounded queue, two error states | send, receive, set errors, flush, free | one signal per message; shutdown | no wake-up lost |
| **fifo muxer** `FF/libavformat/fifo.c` | the queue, the overflow flag, the recovery state of its thread | write packet or NULL, write trailer; the writing thread | a queue that is full, outputs that fail and are restarted, a flag beside the queue | no packet is lost that may not be dropped, every header has its trailer, a restart begins with a key frame, every call returns |
| **input threads** `FF/fftools/ffmpeg.c` | a message queue per input | read a packet, stop | shutdown while a thread waits for room | every thread is joined |
| **async protocol** `FF/libavformat/async.c` | a ring, positions, a seek request | read, seek, close; the background thread | the ring is used by two threads | the bytes read are those at the position |
| **x264 frame threads, rows and references** `x264/encoder/encoder.c`, `common/frame.c` | rows done per frame, reference counts, the unused frames | encode a frame, wait for a row of another | a frame that fails while others wait for its rows | nobody waits for ever; no frame is reused while it is referred to |

How the modelled parts interact:

    ffvencode (VideoEncode)                     ffmuxfile (MuxFile)   ffdemux (Demux)
        | instance of                               | extends             | extends
    what x264 promises (DelayLine)              interleaving            headers (Adts)
        | implemented by                        (Interleaver)
    lookahead and calls (Lookahead)                 | implements
        |                  \                    a merge (PacketMerge)
    jobs (ThreadPool)   rows and references
                        (FrameRows)             fifo muxer (FifoMuxer)
                                                    | extends
    decoding threads (FrameThreads)             message queue (MessageQueue)
    slice threads (SliceThread)                 read-ahead (AsyncRing)

ffmuxfile calls the interleaving of libavformat, and the model of one extends
the model of the other. The lookahead pipeline hands frames to frame threads
that run as jobs of a thread pool: `Lookahead` keeps of a job that it runs,
ends or fails. `ThreadPool` and `FrameRows` show what makes that an
abstraction one can trust: jobs start in order, a wait returns that job's own
result and always returns, and a frame thread that waits for the rows of
another gets them as long as none fails. What the pipeline promises its
caller is stated in `DelayLine`; `VideoEncode` uses just that.

Every hazard the code is exposed to, at its line and with the properties that
would catch it, is listed in `PROJECT.json`.

## 2. The modules

| module | models | kind |
|---|---|---|
| `DelayLine` | what `x264_encoder_encode` promises | abstract specification |
| `Lookahead` | lookahead.c and the control of encoder.c around it | implements `DelayLine` |
| `ThreadPool` | threadpool.c | |
| `PacketMerge` | what interleaving promises: a FIFO per stream, least head first | abstract specification |
| `Interleaver` | the packet list of mux.c | implements `PacketMerge` |
| `MuxFile` | the ffmuxfile program | extends `Interleaver` |
| `Adts` | mpeg4-aac.c, byte by byte | operators only |
| `Demux` | the ffdemux program | extends `Adts` |
| `SliceThread` | slicethread.c | |
| `VideoEncode` | the ffvencode program, encode.c, the flush loop of libx264.c | uses `DelayLine` |
| `FrameThreads` | pthread_frame.c and the receive loop of decode.c | |
| `MessageQueue` | threadmessage.c | operators and variables |
| `FifoMuxer` | fifo.c | extends `MessageQueue` |
| `AsyncRing` | async.c | |
| `FrameRows` | x264's frame threads: rows, references, the pool of frames | |
| `MCPrograms`, `MCLibThreads` | `MuxFile` and `VideoEncode`, `SliceThread` and `AsyncRing`: two components in one run, one of them in each behaviour | |
| other `MC*` | instances for TLC, with one or more `.cfg` each; `FrameRows` needs no module for it | |
| `*Proofs`, `ListFacts` | theorems and the lemmas about lists they share | |

The operators that are introduced as mutants (`KeepAll`, `TooLateByOne`, ...)
are no part of a model: each is a plausible bug with which one of the
definitions is replaced to see that the property it is listed with in
`PROJECT.json` notices.

### Lookahead

A step is a critical section, or what lies between two of them. The variables
have the names of the code: `ifbuf`, `next`, `ofbuf` are the three
`x264_sync_frame_list_t`, `current` is `h->frames.current`, `phase` is
`h->i_thread_phase`; `slot[t]` and `job[t]` are the frame and the job of frame
thread `t`. `la` and `enc` are the program counters of the lookahead thread
and the caller. A thread in `cond_wait` is at a place of its own (`ifWait`,
`putWait`, `getWait`) and a broadcast moves it on, so a wake-up that comes too
early is lost as in the code; spurious wake-ups are left out, since every wait
is in a loop that tests again. A frame is its number and, once it closes a
minigop, the number of B-frames that go with it; the slice type decision is a
free choice among all minigops that `BFrames` allows and all coded orders
(`x264_slicetype_decide` puts B-references first). `EncodeError`, `TakeFails`
and a failing job are the ways a call returns -1; after that the model only
lets the caller close. Frames are not pooled or counted here.

### ThreadPool

Jobs are numbers, the lists sequences of them. A worker is at `loop`, `take`,
`sleep`, `exec` or `push`; the owner of the pool at `idle`, `queue`, `scan`,
`asleep`, `give` and `join`. Places called `blocked` exist to be shown
unreachable: they are waits for room that nobody would end. The owner obeys
the rule x264 keeps (no more arguments than threads, no argument run again
before it was waited for), and may delete the pool with jobs outstanding.
`serial` and `turn` number the runs, so that a result is known for the run it
comes from.

### Interleaver

`buf` is the packet list, `last[s]` is `last_in_packet_buffer` as a position
in it, `cur[s]` is `cur_dts`, with `NoTs` for `AV_NOPTS_VALUE`; `shift` and
`off` are the offset against negative time stamps and its conversion per
stream; `out` is what was written, `lost` what was not and never will be, and
`unwritten` those of `lost` whose writing has failed. Time bases are
whole numbers of a common unit (`Tick`), so `av_compare_ts` is a comparison of
products. Every round of the loops in `av_interleaved_write_frame` and
`av_write_trailer` is a step. A packet that is rejected changes nothing.
`ObeyAtZero` says that the caller keeps `dts` increasing even after a zero,
which `compute_muxer_pkt_fields` does not test (it takes zero for "none"); the
order of the output depends on it, so it is TRUE in every run with that
property and a hypothesis of the theorem.

### MuxFile

The variables of `Interleaver` plus the program's: `v` and `a` are the two
`OutputStream`s, `vfile` and `afile` what is left of the inputs, `readV` and
`readA` the loop flags. Writing a packet is three steps: make and submit it,
let the interleaving run, read the next one. What the program does after a
failure it has ignored is undefined behaviour (freed or missing contexts); the
model ends there in the state `crashed`. `src`, a history, is the place in the
input of the packet a stream holds. An input without frames makes the program
send one blank packet with time 0, after all of the other input; `FileOrdered`
speaks of two inputs that have frames.

`MuxFileAssumption` says what inputs the program is for: a video file is in
order of `dts` and presents nothing before it is decoded. Its frames are two
ticks of the output or more apart: the mp4 has at least 10000 of them a second
(`mov_init`, `FF/libavformat/movenc.c:5965`). A tick of the audio is a sample,
and the 10 s of `max_interleave_delta` are more than a tick of each.

### Adts and Demux

`Adts` gives the headers byte by byte; `AdtsTest` are the vectors of
`mpeg4_aac_test`, the theorem `TestPasses` says that they hold. `Demux` reads
one packet per step; `header` is `m_uADTS`, which starts as bytes nobody has
set and keeps its old value when `mpeg4_aac_adts_save` refuses.
`HeaderDescribes` compares each header with what `mpeg4-aac.h` says of its
fields, `HeaderMatches` is the part of it that holds: the length, the rate and
the number of channels, for packets that can have a header.

### SliceThread

`firstJob` and `currentJob` are the two shared counters, each `fetch_add` is
one step (`Take`, `Draw`). A worker holds its mutex except while it waits, so
the mutex is not a variable: the caller can lock it exactly when the worker is
at `wait`. `asleep[w]` is `w->done`. `took` and `out` record which threads
have drawn a first job and a last number; the counters are compared with them
in the invariant.

### VideoEncode

`received`, `emitted` and `stopped` are the variables of `DelayLine`, `kept` is
the one packet that `avcodec_receive_packet` and `avcodec_send_frame` keep in
`buffer_pkt`, `draining` the flag of the codec context; `data` and `file` are
the buffer of main and the file. `at` says which call the program is in and
`caller` for whom `do_encode` runs. ffvencode has the packets of one `Encode`
in a buffer it reuses; where it writes what it has not filled, the file gets
`Junk`. `FileExact` places each packet of x264 in the file, or `Junk` in its
stead (`InPlace`), and counts the `Junk`.

### FrameThreads

A step is a critical section. `th[t]` is `PerThreadContext` with the part of
the codec context that the next thread copies, `worker[t]` the place in
`frame_worker_thread`, `user` the place of the caller in
`ff_thread_decode_frame` and `decode_simple_internal`. A thread that waits on
a condition is in `asleep` under the name of that condition; a signal takes
out one sleeper, a broadcast all. `Options` chooses what kinds of codec and
caller there are: with or without `update_thread_context`, buffers and formats
from the caller's own thread (the worker then asks the caller and sleeps),
hardware that must not be used by two, an intra-only codec. A codec refers to
the frame before and returns frames `Delay` packets late. `complete` are the
frames whose progress is reported to the end; a reference is awaited only when
it belongs to another thread.

### MessageQueue and FifoMuxer

Every operator of `MessageQueue` is one critical section; `sendWait` and
`recvWait` are the threads inside `pthread_cond_wait`. In `FifoMuxer` the
caller is `user`, with the message it is trying to send `inHand`; the thread
is `writer`. `out` is what the inner muxer was made to write: `Began` and
`Ended` for a header and a trailer, and the packets. What the inner muxer
answers is free up to `MaxFails` failures of the kinds in `Errors`; it has no
`AVOutputFormat.init`, so that `avformat_write_header` answers 0 or an error.
Setting the overflow flag is a step of its own after the send that failed,
because the code has no lock over both. `nr` and `lastTs` keep of
`recovery_nr` and `last_recovery_ts` what the code tests.

### AsyncRing

`fifo` is `AVFifoBuffer` with its indices, which wrap at `NdxMod` (2^32 in the
code), `readPos` is `ring->read_pos`, negative when the caller has sought
back. What the code does under the mutex is one step; the background thread
fills the ring, and the caller seeks back, outside of it, in steps of their
own. Byte *p* of the stream is the number *p*, so a wrong byte shows.

### FrameRows

`ctx[t]` is what `thread_sync_context` hands from one encoder context to the
next: `fdec`, the reference list, the marks of the last slice header and the I
frame of an open GOP. `count`, `unused` and `made` are the reference counts
and the pool of `frame.c`; the operators `Hold`, `Drop`, `TakeFdec`, `Without`,
`Sync`, `Update` and `Reset` change them as the functions do, in their order,
and a call of `x264_encoder_encode` is one step because only the caller touches
them. `EncodeRow` is one row of a frame thread: it waits for the lines of
every reference, encodes and announces its own. A frame's type is free; that
`reference_build_list` may leave frames out of a list only makes threads wait
for less.

## 3. The runs

| run | instance | states | asks |
|---|---|---|---|
| `lookahead` | decision over 2 frames, sync buffer 1, 3 frame threads, `i_vfr_input` on, up to 2 B-frames, 8 pictures | 812 000 | Is every picture returned once, in order and on time; does everything end; does every list fit? |
| `threadpool` | 3 workers, 2 arguments, 5 jobs | 198 000 | Is any wake-up lost, any list full, any result another job's; does deletion end? |
| `frame_rows` | 3 frame threads, 2 references, 3 rows, 5 calls, strict pyramid, open GOPs, one failure | 1 250 000 | Is a frame reused while it is read; are the counts exact; does anybody wait for ever? |
| `interleave` | 3 streams, ticks 2, 3 and 1, one sparse, `dts` from -1 to 1, 6 packets, flushes, failing output, shortest | 880 000 | Is the file in order, the buffer bounded, every packet accounted for? |
| `programs` | ffmuxfile: videos of up to 4 frames at any of 7 times, raw or not, with foreign packets; audio of up to 5; either one empty; failures. ffvencode: up to 8 pictures, a delay of 3, 2 failures | 732 000 | Does every frame reach the file at its time? Does every packet reach the other file once, also after failures; does the flush end? |
| `lib_threads` | slice threads: 3 workers and the caller, 2 calls of up to 4 jobs, with and without main function. Async protocol: ring of 3 bytes, stream of 4, short seeks of up to 2, one failure, interrupts | 629 000 | Does every job run once, and does each call return just then? Are the bytes those of the position; does every call return? |
| `frame_threads` | 3 threads, 7 kinds of codec and caller, up to 4 packets, a delay of 1, one failure | 598 000 | Do frames come back in order, complete and once; does every call and drain end? |
| `fifo_muxer` | queue of 2, 7 settings, 3 packets, any number of flushes, 2 failures | 1 730 000 | Is anything lost that may not be; is every output closed and restarted with a key frame; does every call return? |
| `mux_bframes` | an mp4 video with two B-frames | small | Are frames presented in the order of the input? (section 6, as for the next three) |
| `demux_headers` | AAC LC, stereo, 44.1 kHz | small | Does the header describe the packet? |
| `fifo_gap` | queue of 2, 5 packets, no failure, dropping and `restart_with_keyframe` | small | Does an overflow end at a key frame? |
| `interleave_flush` | as `interleave`, but the output does not fail | small | Does a flush in the middle keep every packet? |

The last four end with a counterexample, each against a sentence of the
repository. `programs` and `lib_threads` hold two components that do not
interact: a behaviour chooses one, and the other stays where it starts, so
that the states are the sum of the two and not the product.

Why the bounds are enough:

* `lookahead`: with 8 pictures the pipeline warms up (4 calls that return
  nothing with these parameters), runs at its full delay of 6 and is flushed or
  closed at any moment. `i_vfr_input` adds a call to the warm-up but no room to
  `ifbuf`, so a caller who is quick fills it and really is made to wait. Each
  of the three frame threads is used at least twice, and minigops of one, two
  and three frames meet every fill of the lists. The state machine has no other
  dependence on the number of pictures than these lists.
* `threadpool`: two arguments and three workers leave workers idle, asleep and
  without ever a job when the pool is deleted, and let jobs finish out of
  order. Five runs reuse every job structure.
* `frame_rows`: with two references a frame leaves the list by age, by a mark,
  by an IDR, as a B reference and at an open GOP; five calls come round to the
  first context again and reuse frames while two other threads read; three
  rows are the first, one between and the last, which is announced in another
  way.
* `programs`, ffvencode: fewer pictures than the delay, as many, and more; a failure
  at every call, in sending and in draining.
* `interleave`: three streams with pairwise different ticks is the least in
  which an insertion can go to the front, between two streams and to the end,
  and six packets the least in which a stream has several packets on both
  sides of another's. Flushes, failures and the end of the shortest stream
  come between any two.
* `programs`, ffmuxfile: audio and video frames of unequal length, in every order; the
  delta of the interleaving (10) is small enough to be exceeded by a long gap,
  and by a file whose counterpart is empty.
* `lib_threads`, slice threads: fewer jobs than threads, as many, and more; the second call
  starts with every state in which the first can leave the workers; creation
  fails at every worker.
* `frame_threads`: the caller submits to three threads before it takes a frame
  from the first, so two packets meet the end of the stream before, four after
  every thread is in use. Each kind of codec has the calls between threads
  that only it makes.
* `fifo_muxer`: a queue of two fills and overflows with three packets and
  flushes before, during and after a recovery; two failures hit the restart
  itself. With a header, a packet and a restart failing the maximum number of
  attempts is reached.
* `lib_threads`, async protocol: the smallest ring with room ahead and behind.
  A read wraps, a seek moves within the ring, back, ahead and past the end.
  With `Short` 2 a short seek ahead may go past what the ring holds: it then
  reads on as the code does, waits for the thread or meets the end. `NdxMod`
  is small, so the indices wrap as they would after 4 GiB.

TLC also checks deadlock in all of them: a state from which nobody can go on
is an error unless the program has ended. The one exception is `frame_rows`,
where after the failure of a frame thread the encoder really stops (section
6).

## 4. Fairness

* Threads: weak fairness of each thread's steps (`Lookahead`, `ThreadPool`,
  `SliceThread`, `FrameThreads`, `FifoMuxer`, `AsyncRing`, `FrameRows`). The
  threads are POSIX threads of equal priority; one that can run is run. No
  step of a thread needs strong fairness: no lock is taken away from a thread
  that waits for it again and again in any run.
* The caller of a library is fair only inside a call. It need not make another
  one, with two exceptions. `FlushDrains` assumes a caller that keeps calling
  during a flush, as the loop in libx264.c does (`FlushLoop` in `Lookahead`);
  `DrainEnds` one that, once it drains a decoder, goes on until the end, as
  the loop in `decode.c` and every caller of it does (`Drain` in
  `FrameThreads`).
* Inner protocols, muxers and codecs answer every call, with success or an
  error.
* The ffvencode program is sequential: weak fairness of its one next step.
  Strong fairness of `EmitFrame`, that x264 gives a picture out when it is
  asked again and again in a flush, is what `FlushDrains` shows of
  `Lookahead`.

## 5. The proofs

All are of safety, for every value of the constants that the named assumptions
allow.

**Lookahead** (`LookaheadProofs`; assumption `ParamAssumption`). The central
fact is a count: the frames in the four lists are never more than the calls
that have returned nothing (`QueuedBound`: at most `Warmup`, one more within a
call), because every later call takes one out before it puts one in. That
bounds each list, including `next` when it is given all of `ifbuf` without a
test, and `ofbuf` when a minigop is shifted into it after a test for one
place. The second fact is that `ofbuf` is at every moment a sequence of whole
minigops (`WholeMinigops`), so that the caller, who takes one at a time, finds
what the first frame promises. Theorems: `Invariance`, `TypeCorrect`,
`ListsNeverOverflow`, `LookaheadNeverBlocksOnOutput`, `TakeNeverEmpty`,
`FrameThreadIsFree`. `DelayedFramesCount` says what
`x264_encoder_delayed_frames` counts: `CountInv` adds that the frames in the
lists, the busy frame threads, what was returned and the one the caller is
about to put are together what it gave (`Accounted`); one frame thread being
idle between two calls, no more than the maximum are delayed.

`LookaheadIsDelayLine` is the refinement `ImplementsDelayLine`. Its invariant,
`LineInv` (checked in the run `lookahead`, proved as `LineInvariance`), says
that until a call fails there is one line, an injective coded order of all the
frames that have been shipped, of which the parts of the pipeline hold
consecutive pieces (`InLine`): first what was returned, then the frame threads
from the oldest to the youngest, `current` and `ofbuf`. What is not shipped
yet stands in display order in `next` and `ifbuf`, but for a minigop that
 has been decided and not shipped (`Undecided`). The frame threads are a
ring, used in the order of their ages (`Ring`), so that the oldest busy thread
holds the next frame of the line and no call skips one as long as there is
anything to take. `Lag` counts: before the flush, exactly the first `Warmup`
calls return nothing. A picture put in is then `Take` (no more than `i_delay`
are held), a flush or close `Stop`, a finished job of the oldest thread `Emit`
(all frame threads busy and `Warmup` frames queued are `i_delay + 1`), and
every other step changes nothing of `DelayLine`. That the returned frame is
one that may follow (`NextMayFollow`) uses that an injection of the first `n`
numbers into themselves leaves none out (`AllOfThem`).

**ThreadPool** (`EncoderThreadsProofs`; `PoolAssumption`). Two counts again
(`Counts`): all jobs together are as many as the pool has threads, and the
jobs in use are as many as the arguments that wait for one. Since there are no
more arguments than threads, no list is ever full when it is pushed to and
`uninit` never empty when it is popped; what may not block is exactly what
nobody would wake. Theorems: `Invariance`, `NobodyWaitsForRoom`,
`StartedInOrder`, `WaitReturnsOwnResult`, `NoWakeUpIsLost`,
`EveryJobInOnePlace`.

**Interleaver** (`InterleaverProofs`; `InterleaverAssumption`). The invariant
says that the list is sorted, that `last[s]` is the last node of its stream or
zero, and that what was written is not later than what waits or may still
come. Insertion from the stream's own last node keeps the list sorted because
nothing of that stream behind it is newer. On it rest `WrittenInOrder`;
`ListStaysShort`, which needs that a list no stream is missing from is written
before the call returns; `TimesNonNegative`, by the offset, which is found from
the first packet of the list and rounded up in the time base of each stream;
and `ListIsMerge`: the list implements `PacketMerge`, one queue per stream, of
which each step takes the head with the least time. The part of the list that
belongs to a stream is a function defined by recursion on its length
(`PartRule`), and what an insertion and a removal do to it is proved by
first-order induction (`Induct`, `Recursion` in `ListFacts`, from
well-foundedness of the order on the naturals). These are under `ObeyAtZero`,
that the caller also obeys the documentation after a `dts` of zero.
`PacketsAccounted`, each packet in one place and once, and lost for no other
reason than a failed write or the end of the shortest stream
(`LossesExplained`), needs no such thing.

**MuxFile** (`InterleaverProofs`; `MuxFileAssumption`), for any two inputs of
any length, all time bases and frame rates, and failures. Three invariants,
each with the one before:

* `MuxInv`: a stream's packet is pending or is the one that was sent last, and
  all that is its own before this place of the input has been sent, in order.
  The `dts` of what is pending is greater than the last one the muxer took, so
  nothing is ever turned away, although the program would not notice. This and
  `EveryFrameKept` hold with B-frames too.
* `TimesInv`, under `NoBFrames`: a time stamp is bumped past the one before it
  for the first packet only, which by its 0 is not greater than the 0 of a
  stream that has sent nothing; frames due two ticks apart never meet again
  after rounding. That a rescaled time is off by half a tick at most, and two
  by less than what they are apart, are lemmas about `Rescale`.
* `OrderInv`, under `NoBFrames`: neither stream is ahead of the other by more
  than the packet it has just sent (`Level`), and neither can still send what
  comes before the packet that was written last (`Floor`). Only where the
  interleaving forces a packet out, with the other stream missing from the
  list, is something to show; that the list then spans more than a tick of
  each stream is why the delta appears in `MuxFileAssumption`.

Theorems: `MuxInvariance`, `EveryFrameKept`, `TimesDoNotDrift`, `FileInOrder`.
With B-frames time stamps are rewritten, which `mux_bframes` shows, so
`NoBFrames` is a hypothesis of the last two.

**Adts, Demux** (`ProgramProofs`; `DemuxAssumption`). `LengthCarried`, `AdtsRoundTrip`,
`AscRoundTrip` about the headers for all values of their fields, and
`HeadersMatch`, that every packet that can have a header follows its own, with
its length and the rate and channels of the stream, for every codec and file.
`DemuxAssumption` types the inputs and is a premise of the theorem.

**SliceThread** (`LibThreadsProofs`; `SliceAssumption`). The invariant
explains why nobody has to count: `currentJob` is the number of jobs plus the
number of threads that have drawn too much, so the thread that draws the last
number knows that every other thread of the team has finished its last job
(`Counts`); a job is run if and only if its number was drawn and nobody holds
it any more (`JobCounts`); and a worker is awake only in the call it was woken
for (`Place`), which is why the next call may set the shared fields without a
lock. Theorems: `Invariance`, `TypeCorrect`, `EveryJobRunsOnce`,
`ThreadNumbersAreOwn`, `QuietBetweenCalls`.

**VideoEncode** (`ProgramProofs`; `EncodeAssumption`), for every delay,
every reordering, files of any length and any number of failures. The file and
what is on its way to it (the buffer of main, then the kept packet, or `Junk`
when the call has failed) are one line (`Line`), in which every packet x264
has emitted has its place, in their order, and holds it unless `Junk` does
(`Accounts`). A step leaves the line alone, appends a packet to it
(`PacketPlaced`) or puts `Junk` in the place of all that the failing call had
collected (`JunkPlaced`); the count of `Junk` is the count of failures. That
nothing is missing at the end is a count too: what was emitted is a set of
numbers below `received`, none twice (`EmittedOnce`), so when x264 holds
nothing more there are as many as were put in, and `InStep` says how many
those are at each place of the program, with one picture less for a failure at
most. Theorems: `Invariance`, `FileComplete`.

**FifoMuxer** (`FormatProofs`; `FifoAssumption`, `QueueAssumption`), for
queues of any size, all settings of the options, any number of packets and
failures. `AgeOrder` orders the packets by where they are: those in the output
are older than the one in work, that is older than those in the queue, and
these than the one the caller holds. `Accounted` says that without dropping
every packet is in one of these places until the thread ends, and that it ends
with "end of file" only when all are written. `Sessions` ties the flag
`header_written` to the last thing the inner muxer was made to write, and an
output without packets to a key frame that is awaited. Theorems: `Invariance`,
`PacketsComplete`, `OutputClosed`, `RestartedWithKey`, `NoLostWakeup`.

That a gap ends at a key frame does not hold (`fifo_gap`). `GapsCloseSoon` says
what does: the packet that ends the gap or the one after it is a key frame. It
has an invariant of its own, `GapInv`: until the queue is found
full no packet is missing between what was written last and what comes
(`Unbroken`), and whenever one is missing the thread waits for a key frame, or
has the flag still to see. The theorem assumes `RecoversAgain`: if the inner
muxer may answer `EAGAIN`, recovery is on. Without recovery a packet that was
answered so is given up and the next one written, key frame or not; TLC shows
it when `Errors` is `{"again"}` and recovery is off.

**AsyncRing** (`LibThreadsProofs`; `AsyncAssumption`), for rings, streams and
reads of every size and indices that wrap anywhere beyond the ring. The
invariant is `RingIInv`. What the ring holds, what the thread has written and
not published included, is the piece of the stream that begins at `Start`
(`Contents`): `readPos` behind the caller, but while an
answer of the thread to a seek waits to be seen it begins where that seek put
it. `Bounds` keeps the pointers and the indices in step, `Seeks` and `Ends`
say what a request and an end of file mean until the caller has seen them. The
remainders of the indices, whose modulus is not known, need only that a sum or
a difference is off by one turn at most (`OneTurn`). Theorems:
`RingInvariance`, `ReadsAreExact`.

**FrameThreads** (`FrameThreadsProofs`; `FrameAssumption`), for every number of
threads, every delay of the codec, all kinds of codec and caller and any
number of packets and failures. None of the three properties is inductive. The
invariant `IInv` says

* of a thread (`Machine`) what its `state` tells of its place: ready only when
  it waits, setting up as long as the codec may still change its context, and
  asking only while the caller stands before it to answer;
* of the caller (`Ring`) that the threads from the one whose frame is due to
  the one used last have a packet and all others are spent, whatever way the
  two indices have gone round;
* where every packet is (`Accounted`): dropped, returned, in a thread, or held
  back in the context of the thread used last, which is the only one that
  still matters; and in which order (`Order`): along the ring, with the
  frames held back between those that are out and the packet that is not yet
  looked at;
* of draining (`Draining`) that an empty result means that the last context
  holds nothing back, and of rows (`Rows`) that a frame is complete or is
  decoded by a thread that the caller waits for before it returns the frame.

`SetupIsHandedOn` follows from `Machine`, `ReturnedFramesComplete` and
`FramesComeOnce` are parts of the invariant. `FrameAssumption` asks that a
codec that holds frames back has an `update_thread_context`: without one the
frames one context holds back never reach the next, and frames would come out
of order.

**FrameRows** (`EncoderThreadsProofs`; `RowsAssumption`), for every number of
frame threads, of references and of rows, every sequence of frame types and any
frame threads that fail. The invariant (`RowsIInv`) says

* of the counts (`PoolInv`) that a frame has as many holders as its count says
  and that the unused frames are those of the pool nobody holds. Within a call
  this is true of one context at a time: `Counted` splits the holders of a
  frame into the other contexts (`HoldersSplit`) and the current one, which
  `Sync`, `Update` and `Reset` change while every frame keeps its count right;
  `Without` removes frames one by one (`WithoutIs`, by induction over the list);
* of the lists (`RefsInv`) that a context refers to nothing but what any older
  one refers to and the frames coded since, so that the frames held when no
  unused one is left are as few as the other contexts and one list
  (`MadeRoom`): the pool never has more than threads and references together,
  and the list of unused frames has room for them;
* of the jobs (`JobInv`) that the frames a thread reads stay held by its
  context until the thread has been waited for: a frame that is taken is one
  nobody held, so the pictures a thread was told stay theirs;
* of the rows (`LinesInv`) that the lines of a frame never go back while
  somebody refers to it, and tell no more than its thread has done.

Theorems: `RowsInvariance`, `PoolIsExact`, `ReferencesAreGood`. That every
call and the close return (`CallReturns`) is only model-checked.

Only model-checked: all liveness, which with fairness and `ENABLED` is beyond
the prover. `PresentationKept`, `HeaderDescribes`, `GapEndsAtKey` and
`FlushKeepsAll` have counterexamples. No module has a recursive
operator.

## 6. What the checks found

Four runs end with a counterexample; `PROJECT.json` quotes the sentences they
contradict.

* `mux_bframes`: ffmuxfile rewrites the time stamps of B-frames into coded
  order (`ffmpeg-code/ffmuxfile/ffmuxfile.cpp:264`), although its comments
  allow for B-frames.
* `demux_headers`: ffdemux puts the profile of libavcodec
  (`ffmpeg-code/ffdemux/ffmuxfile.cpp:115`) where `mpeg4-aac.h:13` has the
  object type, which is one more: the headers of an AAC LC stream say AAC
  Main. `HeaderDescribes` asks more, and more of it fails: the result of
  `mpeg4_aac_adts_save` is ignored (`ffmuxfile.cpp:117`), so a packet whose
  frame would need 4096 bytes gets the header of an earlier one; and 7
  channels are written as configuration 7, which `mpeg4-aac.h:15` reads as 8.
* `fifo_gap`: `FF/doc/muxers.texi:1808` says of `restart_with_keyframe` "wait
  for the keyframe after recovering from queue overflow or failure". The
  caller sets the flag after the send that failed (`fifo.c:565`), and the
  thread may test it in between; a packet that need not be a key frame is then
  written after the gap. `GapsCloseSoon` proves that it is never more than one.
* `interleave_flush`: `avformat.h:2529` lets a caller flush the queues "at any
  time, not just at the end". With `AVFMT_FLAG_SHORTEST` a flush in the middle
  is taken for the end (`mux.c:1137`): the packet at the head of the list fixes
  `shortest_end` for good, and what is later is dropped, in this call and in
  all that follow.

The following were met while modelling. No run of their own shows them; the
models contain the behaviour where that is said.

* x264, frame threads: when `slices_write` of a frame thread fails, its
  `fail:` label (`x264/encoder/encoder.c:3101`, "Tell other threads we're
  done, so they wouldn't wait for it") tells sliced threads only. A frame
  thread that refers to the failed frame waits in `x264_frame_cond_wait`
  (`common/frame.c:697`) for ever, and so does `x264_encoder_close`, which
  joins it. In `FrameRows` (`Fail`): the reason why `CallReturns` there is
  limited to behaviours without failures and why the run may stop.
* fifo muxer, headers: `header_written` is set `if (!ret)` (`fifo.c:138`), but
  `avformat_write_header` answers 1 when the streams were initialised before
  the call (`mux.c:532` and `mux.c:556`), as an earlier attempt leaves them
  whose header failed after the `init` of the inner muxer had set them up.
  That header counts as not written, and the trailer the comment at
  `fifo.c:98` asks for is left out. Outside of `FifoMuxer`, whose inner muxer
  answers 0 or an error.
* fifo muxer, recovery: the test `last_recovery_ts == AV_NOPTS_VALUE`
  (`fifo.c:315`) is the wrong way round, so that with
  `recovery_wait_streamtime` the wait of `muxers.texi:1796` is never measured:
  it is over at once or never. Time stamps of a packet are rescaled again at
  each attempt to write it. Both are in the model (`TooEarly`, `scale`).
* interleaving: a flush in the middle also fixes the offset against negative
  time stamps before every stream was seen, and a stream that starts earlier
  then fails the assertion at `mux.c:749`. In the model. A `dts` of zero is
  taken for none (`mux.c:638`), so that what follows it is not tested;
  `ObeyAtZero` keeps that out of the runs.
* async protocol: the second assertion of `ring_drain` (`async.c:145`, an
  `av_assert2`) has the wrong sign: compiled in, it would fail at a seek back
  by less than what the ring holds; `io_error` survives a seek within the ring; a short
  seek ahead over the end answers with a shorter position as if it had
  succeeded.
* ffvencode: when `Encode` fails, main writes as many bytes of its buffer as
  the buffer has (`ffmpeg-code/ffvencode/ffvencode.cpp:141`). In the model
  (`Junk`), and counted by `FileExact`.

## 7. What is not modelled

* Of the modelled parts:
  * the lookahead without its thread (`i_sync_lookahead` 0); failing
    allocations in `x264_threadpool_init`;
  * chunked interleaving, `audio_preload`, generated `dts` and bitstream
    filters in mux.c; metadata and failing `addStream` in ffmuxfile; the time
    stamps ffdemux computes and never uses;
  * row progress in pthread_slice.c;
  * audio and encoders with a `receive_packet` of their own in encode.c; the
    delayed packets of one flush in libx264.c share one buffer, a detail of
    memory below `VideoEncode`; a buffer of main too small for the packets of
    one call;
  * failing initialisation, fields and frame pools in pthread_frame.c;
  * the length of waits in fifo.c, and inner muxers with an `init`;
  * weighted duplicates and corrupt references, the cuts of the reference
    lists, rows that are encoded again for the VBV, failing allocations of
    frames in `FrameRows`.
* `frame_thread_encoder.c`: no program here uses it; its queue and ring are
  the pattern of `ThreadPool` and `FifoMuxer`.
* The input threads of `FF/fftools/ffmpeg.c`: each sends to a `MessageQueue`
  of its own and stops at its error; the rest of that file is options and the
  transcoding loop, outside of the repository's own programs.
* Sliced threads and the read-ahead input of x264: both are off or unused in
  every program here, and their jobs run on `ThreadPool`.
* The swscale program: one straight-line call on one picture. Which bytes its
  plane copies move is arithmetic on sizes; no state is left between calls and
  nothing could come in another order.
* Slice type costs and rate control, codecs, filters and fdk-aac are
  computations on samples and bits, with no control for a bounded model to
  explore; they are by far the most lines of the repository. The prebuilt
  libraries, headers and recipes are not code of the system.

## 8. Plan

Done, in this order: the encoder's pipeline, which has the most threads and
the most implicit bounds; the pool it runs on; the interleaving and the two
programs on top of libavformat; the slice threads; the ffvencode program on
what the pipeline promises; the decoder's frame threads; the message queue
with the muxer that lives on it; the async protocol; the encoder's rows and
references.

What is left, most useful first:

1. `FrameRows` as the jobs of `Lookahead`: one model in which a frame thread
   that fails ends the pipeline.
2. The frame-thread encoder, row progress of pthread_slice.c, sliced threads.
