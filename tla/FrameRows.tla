------------------------------ MODULE FrameRows -------------------------------
(***************************************************************************)
(* The frames that x264's frame threads reconstruct and refer to: each     *)
(* call of x264_encoder_encode hands the reference list from one context   *)
(* to the next (thread_sync_context), counts who holds each frame, reuses  *)
(* the ones nobody holds, and starts a thread that encodes row by row,     *)
(* waiting for the rows of its references that other threads are still at. *)
(*                                                                         *)
(* Lookahead has the pictures and the calls, where a frame thread is one   *)
(* step; here the pictures are whatever comes, and a frame refers to all   *)
(* it may refer to (reference_build_list may cut the lists: then it waits  *)
(* for less and needs less).                                               *)
(***************************************************************************)
EXTENDS Integers, SequencesExt, FiniteSetsExt

CONSTANTS
  Threads,    \* i_thread_frames
  NumRef,     \* sps->i_num_ref_frames
  Rows,       \* mb.i_mb_height
  MvRange,    \* analyse.i_mv_range_thread, in lines
  Warmup,     \* i_delay + 1 - i_thread_frames: pictures that only fill the buffers
  Pyramid,    \* i_bframe_pyramid: "none", "strict" or "normal"
  OpenGop,    \* b_open_gop
  MaxCalls,   \* bound: calls of x264_encoder_encode
  MaxFails    \* bound: frame threads that fail

ASSUME RowsAssumption ==
  /\ Threads \in Nat \ {0, 1} /\ NumRef \in Nat \ {0} /\ Rows \in Nat \ {0}
  /\ MvRange \in Nat /\ Warmup \in Nat /\ Pyramid \in {"none", "strict", "normal"} /\ OpenGop \in BOOLEAN
  /\ MaxCalls \in Nat /\ MaxFails \in Nat

Contexts == 0 .. Threads - 1
Frames   == 1 .. Threads + MaxCalls
NoFrame  == 0
Types    == {"IDR", "I", "P", "BREF", "B"}

VARIABLES
  phase,    \* h->i_thread_phase
  ctx,      \* per context: fdec, frames.reference, the mmco of its slice header,
            \* the I frame of an open GOP
  count,    \* i_reference_count
  unused,   \* frames.unused[1], taken from the end
  made,     \* frames allocated so far
  kept,     \* b_kept_as_ref
  bref,     \* i_type is X264_TYPE_BREF
  lines,    \* i_lines_completed
  picture,  \* history: the number of the picture in each frame
  job,      \* per context: its slices_write
  empty,    \* the encoder is flushed and has no more pictures
  caller,   \* the caller: where it is
  calls, coded, fails  \* history: calls, frames started, threads that failed

frameVars == <<phase, ctx, count, unused, made, kept, bref, picture, empty>>
vars == <<frameVars, lines, job, caller, calls, coded, fails>>

(* What a job knows: its state, the row that is next, its frame, and the     *)
(* pictures it needs, its own included.                                      *)
NoJob == [state |-> "none", row |-> 0, fdec |-> NoFrame, fref |-> {}, needs |-> {}]

(* x264_encoder_open: each context has a frame of its own. *)
RowsInit ==
  /\ phase = 0
  /\ ctx = [t \in Contexts |-> [fdec |-> t + 1, refs |-> <<>>, mmco |-> {}, open |-> NoFrame]]
  /\ count = [f \in Frames |-> IF f <= Threads THEN 1 ELSE 0]
  /\ unused = <<>> /\ made = Threads
  /\ kept = [f \in Frames |-> FALSE] /\ bref = [f \in Frames |-> FALSE]
  /\ lines = [f \in Frames |-> -1] /\ picture = [f \in Frames |-> 0]
  /\ job = [t \in Contexts |-> NoJob]
  /\ empty = FALSE /\ caller = "idle" /\ calls = 0 /\ coded = 0 /\ fails = 0

-----------------------------------------------------------------------------
(* The frames of the current context and the pool, as a call changes them:   *)
(* s has the fields of a context, and count, unused and made.                *)

Hold(s, frames) ==
  [s EXCEPT !.count = [f \in Frames |-> IF f \in frames THEN @[f] + 1 ELSE @[f]]]

(* x264_frame_push_unused. *)
Drop(s, f) ==
  [s EXCEPT !.count[f] = @ - 1,
            !.unused = IF s.count[f] = 1 THEN Append(@, f) ELSE @]

(* fdec = x264_frame_pop_unused(h, 1). *)
TakeFdec(s) ==
  LET new == s.unused = <<>>
      f   == IF new THEN s.made + 1 ELSE Last(s.unused)
  IN [s EXCEPT !.fdec = f, !.count[f] = 1,
               !.made = IF new THEN f ELSE @,
               !.unused = IF new THEN @ ELSE Front(@)]

(* Leave the frames out that gone has, in their order. *)
Without(s, gone) ==
  LET left[n \in 0 .. Len(s.refs)] ==
        IF n = 0 THEN [s EXCEPT !.refs = <<>>]
        ELSE IF s.refs[n] \in gone THEN Drop(left[n - 1], s.refs[n])
        ELSE [left[n - 1] EXCEPT !.refs = Append(@, s.refs[n])]
  IN left[Len(s.refs)]

(* Mutant: the frame taken over is not counted.                              *)
SyncUncounted(dst, src) ==
  LET old == [fdec |-> dst.fdec, refs |-> dst.refs, mmco |-> src.mmco, open |-> src.open,
              count |-> count, unused |-> unused, made |-> made]
      s   == Without(Hold(old, ToSet(src.refs)), ToSet(dst.refs))
  IN [Drop(s, dst.fdec) EXCEPT !.fdec = src.fdec, !.refs = src.refs]

(* thread_sync_context: the context takes over what the previous one has. *)
Sync(dst, src) ==
  LET old == [fdec |-> dst.fdec, refs |-> dst.refs, mmco |-> src.mmco, open |-> src.open,
              count |-> count, unused |-> unused, made |-> made]
      s   == Without(Hold(old, ToSet(src.refs)), ToSet(dst.refs))
  IN [Drop(Hold(s, {src.fdec}), dst.fdec) EXCEPT !.fdec = src.fdec, !.refs = src.refs]

(* reference_update: what the previous frame becomes, and a new one. *)
Update(s) ==
  IF ~kept[s.fdec] THEN TakeFdec(Drop(s, s.fdec))
  ELSE LET a == Without(s, s.mmco)
           b == [a EXCEPT !.refs = Append(@, s.fdec)]
       IN TakeFdec(IF Len(b.refs) > NumRef THEN Without(b, {Head(b.refs)}) ELSE b)

(* reference_reset, or reference_hierarchy_reset: B references go when the   *)
(* pyramid is strict, and what precedes the I frame of an open GOP with the  *)
(* next frame that is not a B frame.                                         *)
Reset(s, ty) ==
  IF ty = "IDR" THEN Without([s EXCEPT !.refs = Reverse(@)], ToSet(s.refs))
  ELSE Without(s, {f \in ToSet(s.refs) :
                     /\ ty # "B"
                     /\ \/ Pyramid = "strict" /\ bref[f]
                        \/ ty # "BREF" /\ s.open # NoFrame /\ f # s.open})

(* i_mmco_remove_from_end: room for later B frames is made by marking        *)
(* references for the next reference_update.                                 *)
MayMark(s, ty) ==
  IF Pyramid # "none" /\ ty \in {"P", "BREF"}
    THEN {m \in SUBSET ToSet(s.refs) : Cardinality(m) <= 2} ELSE {{}}

(* i_poc_last_open_gop, for a frame of this type and, when it is an I frame, *)
(* whether it is a key frame.                                                *)
OpenAt(s, ty, key) ==
  CASE ty = "I" -> IF OpenGop /\ key THEN s.fdec ELSE IF OpenGop THEN NoFrame ELSE s.open
    [] ty \in {"IDR", "P"} -> NoFrame
    [] OTHER -> s.open

(* Mutant: a frame used again keeps the lines of the picture it had.         *)
LinesLeft(f) == lines

(* i_lines_completed of a new frame. *)
NoLines(f) == [lines EXCEPT ![f] = -1]

-----------------------------------------------------------------------------
(* x264_encoder_encode. *)

(* The context after that of the last call: thread_current of the next one,  *)
(* and the one whose frame this call returns, thread_oldest.                 *)
Current == (phase + 1) % Threads
Oldest  == Current

EncodeCall == caller = "idle" /\ calls < MaxCalls /\ calls' = calls + 1 /\ phase' = Current

Becomes(s) ==
  /\ ctx' = [ctx EXCEPT ![Current] = [fdec |-> s.fdec, refs |-> s.refs,
                                      mmco |-> s.mmco, open |-> s.open]]
  /\ count' = s.count /\ unused' = s.unused /\ made' = s.made

(* There is nothing to encode: the first pictures fill the lookahead, and a  *)
(* flush finds it empty at last.                                             *)
CallOnlySyncs ==
  /\ EncodeCall /\ Becomes(Sync(ctx[Current], ctx[phase]))
  /\ \/ coded = 0 /\ calls < Warmup /\ caller' = "idle" /\ UNCHANGED empty
     \/ caller' = "wait" /\ empty' = TRUE
  /\ UNCHANGED <<kept, bref, picture, lines, job, coded, fails>>

(* A frame is started; without references it can only be an IDR frame.  The  *)
(* parts of it that change frames and lists are done before the thread runs, *)
(* and no thread looks at those.                                             *)
CallStarts ==
  /\ EncodeCall /\ ~empty /\ caller' = "wait" /\ coded' = coded + 1
  /\ \E ty \in Types, key \in BOOLEAN :
       LET u == Update(Sync(ctx[Current], ctx[phase]))
           s == Reset(u, ty)
       IN /\ ty = "IDR" \/ u.refs # <<>>
          /\ \E m \in MayMark(s, ty) :
               Becomes([s EXCEPT !.mmco = m, !.open = OpenAt(s, ty, key)])
          /\ lines' = NoLines(s.fdec)
          /\ kept' = [kept EXCEPT ![s.fdec] = ty # "B"]
          /\ bref' = [bref EXCEPT ![s.fdec] = ty = "BREF"]
          /\ picture' = [picture EXCEPT ![s.fdec] = coded']
          /\ LET fref == IF ty \in {"IDR", "I"} THEN {} ELSE ToSet(s.refs)
             IN job' = [job EXCEPT ![Current] =
                  [state |-> "run", row |-> 0, fdec |-> s.fdec, fref |-> fref,
                   needs |-> {<<f, picture'[f]>> : f \in fref \union {s.fdec}}]]
  /\ UNCHANGED <<empty, fails>>

(* encoder_frame_end of the oldest thread. *)
CallEnds ==
  /\ caller = "wait" /\ caller' = "idle"
  /\ job[Oldest].state # "run"
  /\ job' = [job EXCEPT ![Oldest] = NoJob]
  /\ UNCHANGED <<frameVars, lines, calls, coded, fails>>

(* x264_encoder_close: threadpool_delete joins the threads, and then every   *)
(* context lets go of its frames.                                            *)
Close ==
  /\ caller = "idle" /\ caller' = "closing"
  /\ UNCHANGED <<frameVars, lines, job, calls, coded, fails>>

Holders(f) == {t \in Contexts : ctx[t].fdec = f} \X {"fdec"}
              \union {t \in Contexts : f \in ToSet(ctx[t].refs)} \X {"refs"}
CloseFrees ==
  /\ caller = "closing" /\ caller' = "closed"
  /\ \A t \in Contexts : job[t].state # "run"
  /\ count' = [f \in Frames |-> count[f] - Cardinality(Holders(f))]
  /\ UNCHANGED <<phase, ctx, unused, made, kept, bref, picture, empty,
                 lines, job, calls, coded, fails>>

-----------------------------------------------------------------------------
(* A frame thread. *)

(* Mutant: the last row is not announced as the end of the frame.            *)
LinesBeforeOnly(y) == 16 * y - 24

(* fdec_filter_row before row y: how far the frame is done. *)
LinesBefore(y) == IF y = Rows THEN 16 * y + 10000 ELSE 16 * y - 24

(* x264_macroblock_analyse at the start of row y waits for this line.        *)
Needed(y) == 16 * y + MvRange

EncodeRow(t) ==
  LET j == job[t]
      y == j.row + 1
  IN /\ j.state = "run"
     /\ \A f \in j.fref : lines[f] >= Needed(j.row)
     /\ job' = [job EXCEPT ![t].row = y, ![t].state = IF y = Rows THEN "done" ELSE "run"]
     /\ lines' = IF kept[j.fdec] THEN [lines EXCEPT ![j.fdec] = LinesBefore(y)] ELSE lines
     /\ UNCHANGED <<frameVars, caller, calls, coded, fails>>

(* slices_write fails, and tells nobody (only sliced threads are told).      *)
Fail(t) ==
  /\ job[t].state = "run" /\ fails < MaxFails
  /\ job' = [job EXCEPT ![t].state = "failed"] /\ fails' = fails + 1
  /\ UNCHANGED <<frameVars, lines, caller, calls, coded>>

-----------------------------------------------------------------------------
Terminated == caller = "closed" /\ UNCHANGED vars

RowsNext ==
  \/ CallOnlySyncs \/ CallStarts \/ CallEnds \/ Close \/ CloseFrees
  \/ \E t \in Contexts : EncodeRow(t) \/ Fail(t)
  \/ Terminated

RowsSpec == RowsInit /\ [][RowsNext]_vars

(* Each frame thread runs, and the caller within a call.                     *)
RowsFairSpec ==
  /\ RowsSpec /\ WF_vars(CallEnds \/ CloseFrees)
  /\ \A t \in Contexts : WF_vars(EncodeRow(t))

-----------------------------------------------------------------------------
(* What a thread that runs refers to: still the picture it was told, however *)
(* often the contexts were synchronised and frames reused since, and with    *)
(* the rows that the row it is at has read, which another thread has done.   *)
RowsDone(f) ==
  LET at == {t \in Contexts : job[t].state \in {"run", "failed"} /\ job[t].fdec = f}
  IN IF at = {} THEN Rows ELSE Min({job[t].row : t \in at})
ReferencesGood ==
  \A t \in Contexts : job[t].state = "run" =>
    /\ \A n \in job[t].needs : picture[n[1]] = n[2]
    /\ \A f \in job[t].fref : job[t].row > 0 => LinesBefore(RowsDone(f)) >= Needed(job[t].row - 1)

(* Reference counts are exact, so that a frame is unused when nobody holds   *)
(* it and then once, none is left when the encoder is closed, and the list   *)
(* of unused frames has "room for max refs plus a few extra"                 *)
(* (encoder.c:1532).                                                         *)
PoolExact ==
  /\ \A f \in Frames : count[f] = IF caller = "closed" THEN 0 ELSE Cardinality(Holders(f))
  /\ caller # "closed" => ToSet(unused) = {f \in 1 .. made : count[f] = 0}
  /\ IsInjective(unused) /\ Len(unused) < Threads + NumRef + 4

(* The inductive invariant behind the two.  A context is as old as the calls *)
(* since it was the current one; what it refers to is, for every older one,  *)
(* what that one refers to and frames coded since.                           *)
Age(t) == IF t <= phase THEN phase - t ELSE phase + Threads - t
CodedSince(t, u) == {ctx[v].fdec : v \in {w \in Contexts : Age(t) < Age(w) /\ Age(w) <= Age(u)}}

RowsTypeOK ==
  /\ phase \in Contexts
  /\ ctx \in [Contexts -> [fdec : Frames, refs : Seq(Frames), mmco : SUBSET Frames,
                          open : Frames \union {NoFrame}]]
  /\ count \in [Frames -> Nat] /\ unused \in Seq(Frames) /\ made \in Nat
  /\ kept \in [Frames -> BOOLEAN] /\ bref \in [Frames -> BOOLEAN]
  /\ lines \in [Frames -> Int] /\ picture \in [Frames -> Nat]
  /\ job \in [Contexts -> [state : {"none", "run", "done", "failed"}, row : 0 .. Rows,
                          fdec : Frames \union {NoFrame}, fref : SUBSET Frames,
                          needs : SUBSET (Frames \X Nat)]]
  /\ empty \in BOOLEAN /\ caller \in {"idle", "wait", "closing", "closed"}
  /\ calls \in 0 .. MaxCalls /\ coded \in 0 .. calls /\ fails \in 0 .. MaxFails

RefsInv == \A t \in Contexts :
  /\ IsInjective(ctx[t].refs) /\ Len(ctx[t].refs) <= NumRef
  /\ ctx[t].fdec \notin ToSet(ctx[t].refs)
  /\ \A u \in Contexts : Age(t) <= Age(u) =>
       ToSet(ctx[t].refs) \subseteq ToSet(ctx[u].refs) \union CodedSince(t, u)

PoolInv ==
  /\ ToSet(unused) = {f \in 1 .. made : count[f] = 0} /\ IsInjective(unused)
  /\ \A f \in Frames : count[f] > 0 => f <= made
  /\ \A f \in Frames : count[f] = Cardinality(Holders(f))
MadeInv == made <= Threads + coded /\ made <= Threads + NumRef

(* A job's frames are held by its context until the job has been waited for. *)
JobInv ==
  /\ \A t \in Contexts : job[t].state # "none" =>
       /\ job[t].fdec = ctx[t].fdec /\ job[t].fref \subseteq ToSet(ctx[t].refs)
       /\ \A n \in job[t].needs : n[1] \in job[t].fref \union {job[t].fdec} /\ picture[n[1]] = n[2]
       /\ \A u \in Contexts : job[u].state # "none" /\ job[u].fdec = job[t].fdec => u = t
       /\ job[t].state # "done" => job[t].row < Rows
  /\ caller = "idle" => job[Oldest].state = "none"
  /\ coded = 0 => \A t \in Contexts : job[t].state = "none"

LinesInv ==
  /\ \A f \in Frames : lines[f] <= LinesBefore(Rows)
  /\ \A t \in Contexts : job[t].state # "none" =>
       /\ \/ lines[job[t].fdec] = -1
          \/ job[t].row > 0 /\ lines[job[t].fdec] <= LinesBefore(job[t].row)
       /\ \A f \in job[t].fref : job[t].row > 0 => lines[f] >= Needed(job[t].row - 1)

RowsIInv ==
  /\ RowsTypeOK /\ RefsInv /\ MadeInv /\ JobInv /\ LinesInv
  /\ IF caller = "closed" THEN PoolExact ELSE PoolInv

(* As long as no frame thread fails, every call and close returns: threads   *)
(* wait for rows in a circle never, nor for rows that nobody will announce.  *)
CallReturns == caller \in {"wait", "closing"} ~> caller \in {"idle", "closed"} \/ fails > 0
=============================================================================
