----------------------------- MODULE Interleaver -----------------------------
(***************************************************************************)
(* The muxing queue of libavformat/mux.c, behind                           *)
(* av_interleaved_write_frame and av_write_trailer.  Packets of all the    *)
(* streams wait in one list ordered by dts; per stream the muxer remembers *)
(* the dts it accepted last (cur_dts) and the stream's last node in the    *)
(* list.  A packet leaves when every stream has one, when the list spans   *)
(* more than max_interleave_delta, or when the caller flushes.             *)
(*                                                                         *)
(* A pointer into the list is the position of its node, 0 for NULL.  One   *)
(* iteration of the loop "interleave, then write" is one step.             *)
(***************************************************************************)
EXTENDS Integers, Sequences, FiniteSets, SequencesExt

CONSTANTS
  Streams,     \* stream indices
  Tick,        \* per stream: its time base, in units of AV_TIME_BASE
  Sparse,      \* VP8 and VP9 streams, which interleaving never waits for long
  NonStrict,   \* AVFMT_TS_NONSTRICT
  AvoidNeg,    \* avoid_negative_ts: 0, 1 MAKE_NON_NEGATIVE, 2 MAKE_ZERO
  MaxDelta,    \* max_interleave_delta, 0 for none
  Shortest,    \* AVFMT_FLAG_SHORTEST
  IoFails,     \* the output may fail
  NoTs,        \* AV_NOPTS_VALUE
  Dts,         \* the time stamps the caller tries
  ObeyAtZero,  \* the caller increases dts also where nobody checks it
  FlushEarly,  \* the caller may flush before the end
  MaxPackets   \* bound of the model: packets accepted

ASSUME InterleaverAssumption ==
  /\ Streams \subseteq Nat /\ IsFiniteSet(Streams) /\ Streams # {}
  /\ Tick \in [Streams -> Nat \ {0}]
  /\ Sparse \subseteq Streams /\ AvoidNeg \in 0 .. 2 /\ MaxDelta \in Nat
  /\ NonStrict \in BOOLEAN /\ Shortest \in BOOLEAN /\ IoFails \in BOOLEAN
  /\ ObeyAtZero \in BOOLEAN /\ FlushEarly \in BOOLEAN
  /\ Dts \subseteq Int /\ NoTs \notin Int /\ MaxPackets \in Nat

VARIABLES
  buf,      \* internal->packet_buffer
  last,     \* per stream: last_in_packet_buffer
  cur,      \* per stream: cur_dts
  shortEnd, \* internal->shortest_end
  shift,    \* internal->offset, in units of AV_TIME_BASE
  off,      \* per stream: mux_ts_offset
  ioError,  \* s->pb->error
  pc,       \* the call in progress: idle, drain, flush, trailer, done
  taken,    \* history, per stream: packets accepted
  out,      \* history: packets written, with the time stamp they got
  lost,     \* history: packets dropped after they were accepted
  unwritten, \* history: those of them whose writing failed
  forced    \* history: a packet left before every stream had one

queueVars == <<buf, last, cur, shortEnd, taken, lost, unwritten, forced>>
writeVars == <<shift, off, ioError, out>>
muxVars   == <<queueVars, writeVars, pc>>

Packets == [st : Streams, dts : Int, no : Nat]

(* avformat_new_stream for a muxer, and avformat_write_header. *)
Init ==
  /\ buf = <<>> /\ last = [s \in Streams |-> 0] /\ cur = [s \in Streams |-> NoTs]
  /\ shortEnd = NoTs /\ shift = NoTs /\ off = [s \in Streams |-> 0]
  /\ ioError = FALSE /\ pc = "idle"
  /\ taken = [s \in Streams |-> 0] /\ out = <<>> /\ forced = FALSE
  /\ lost = {} /\ unwritten = {}

(* Mutants, here and below: plausible bugs the properties must notice. *)
AcceptsAll(s, d) == TRUE

-----------------------------------------------------------------------------
(* compute_muxer_pkt_fields.  A cur_dts of zero is not compared with: only a *)
(* caller who obeys the documentation then keeps the order.                  *)
Checked(s)     == cur[s] # NoTs /\ cur[s] # 0
Follows(s, d)  == IF NonStrict THEN cur[s] <= d ELSE cur[s] < d
Accepts(s, d)  == Checked(s) => Follows(s, d)
Obedient(s, d) == (ObeyAtZero /\ cur[s] = 0) => Follows(s, d)

(* av_compare_ts and interleave_compare_dts: next goes after pkt. *)
Time(p)          == p.dts * Tick[p.st]
After(next, pkt) == \/ Time(next) > Time(pkt)
                    \/ Time(next) = Time(pkt) /\ pkt.st < next.st

(* ff_interleave_add_packet: look from the stream's last node on, but only   *)
(* if the end of the list goes after the packet.                             *)
From(p) == last[p.st] + 1
IsPlace(i, p) ==
  /\ i \in From(p) .. Len(buf) + 1
  /\ IF From(p) <= Len(buf) /\ After(buf[Len(buf)], p)
       THEN /\ i <= Len(buf) /\ After(buf[i], p)
            /\ \A k \in From(p) .. i - 1 : ~After(buf[k], p)
       ELSE i = Len(buf) + 1

AddPacket(p) == \E i \in 1 .. Len(buf) + 1 :
  /\ IsPlace(i, p)
  /\ buf' = InsertAt(buf, i, p)
  /\ last' = [s \in Streams |-> IF s = p.st THEN i
                                ELSE IF last[s] >= i THEN last[s] + 1 ELSE last[s]]

(* av_interleaved_write_frame up to its loop, for a packet that passes. *)
Submit(s, d) ==
  /\ pc = "idle" /\ Accepts(s, d)
  /\ AddPacket([st |-> s, dts |-> d, no |-> taken[s] + 1])
  /\ cur' = [cur EXCEPT ![s] = d]
  /\ taken' = [taken EXCEPT ![s] = @ + 1]
  /\ pc' = "drain"
  /\ UNCHANGED <<shortEnd, lost, unwritten, forced, writeVars>>

(* av_interleaved_write_frame(NULL) and av_write_trailer. *)
Flush ==
  /\ pc = "idle" /\ FlushEarly
  /\ pc' = "flush"
  /\ UNCHANGED <<queueVars, writeVars>>
Trailer ==
  /\ pc = "idle"
  /\ pc' = "trailer"
  /\ UNCHANGED <<queueVars, writeVars>>

-----------------------------------------------------------------------------
FullEnough == \E s \in Streams : last[s] # 0

(* ff_interleave_packet_per_dts, after the packet was added. *)
Eof     == pc \in {"flush", "trailer"}
Busy    == pc = "drain" \/ Eof
Full    == \A s \in Streams : last[s] # 0
Span    == \E s \in Streams :
             last[s] # 0 /\ Time(buf[last[s]]) - Time(buf[1]) > MaxDelta
Overdue == /\ MaxDelta > 0 /\ buf # <<>> /\ ~Eof /\ ~Full
           /\ \A s \in Sparse : last[s] # 0
           /\ Span
Ready   == buf # <<>> /\ (Eof \/ Full \/ Overdue)

EndNow  == IF Shortest /\ Eof /\ shortEnd = NoTs /\ buf # <<>>
             THEN Time(buf[1]) ELSE shortEnd
TooLateByOne(p) == EndNow # NoTs /\ EndNow + 1 <= Time(p)  \* mutant: > for >=
TooLate(p)      == EndNow # NoTs /\ EndNow + 1 < Time(p)

(* Past shortest_end: packets are dropped until one is in time, and nothing  *)
(* is written any more in this call.                                         *)
Return  == IF pc = "trailer" THEN "done" ELSE "idle"
Late(n) == /\ \A i \in 1 .. n : TooLate(buf[i])
           /\ n < Len(buf) => ~TooLate(buf[n + 1])
Truncate ==
  /\ Busy /\ buf # <<>> /\ TooLate(buf[1])
  /\ \E n \in 1 .. Len(buf) :
       /\ Late(n)
       /\ buf' = SubSeq(buf, n + 1, Len(buf))
       /\ last' = [s \in Streams |-> IF last[s] <= n THEN 0 ELSE last[s] - n]
       /\ lost' = lost \cup {buf[i] : i \in 1 .. n}
  /\ shortEnd' = EndNow
  /\ pc' = Return
  /\ UNCHANGED <<cur, taken, unwritten, forced, writeVars>>

(* write_packet: the offset that keeps time stamps from being negative is    *)
(* found once, and rounded up to each stream's time base when first used.    *)
CeilDiv(a, b) == -((-a) \div b)
ShiftFor(p) ==
  IF shift = NoTs /\ AvoidNeg > 0 /\ (p.dts < 0 \/ AvoidNeg = 2)
    THEN -Time(p) ELSE shift
OffForFirst(p) ==
  IF AvoidNeg > 0 /\ shift = NoTs /\ ShiftFor(p) # NoTs
    THEN CeilDiv(ShiftFor(p), Tick[p.st]) ELSE off[p.st]
OffFor(p) ==
  IF AvoidNeg > 0 /\ ShiftFor(p) # NoTs /\ off[p.st] = 0
    THEN CeilDiv(ShiftFor(p), Tick[p.st]) ELSE off[p.st]

NextOnlyOne == Return

(* The head of the list is taken off and written, or lost when the output    *)
(* fails: then the call returns, else it goes on.                            *)
LastAfterPop  == [s \in Streams |-> IF last[s] = 0 THEN 0 ELSE last[s] - 1]
WrittenWith(p) == Append(out, [pkt |-> p, ts |-> p.dts + OffFor(p)])
NextIteration  == pc
WritePacket(p, fails) ==
  /\ shift' = ShiftFor(p) /\ off' = [off EXCEPT ![p.st] = OffFor(p)]
  /\ IF fails
       THEN /\ IoFails /\ ioError' \in {ioError, TRUE}
            /\ lost' = lost \cup {p} /\ unwritten' = unwritten \cup {p}
            /\ out' = out /\ pc' = Return
       ELSE /\ ~ioError /\ ioError' = FALSE
            /\ UNCHANGED <<lost, unwritten>>
            /\ out' = WrittenWith(p) /\ pc' = NextIteration
WriteOne == \E fails \in BOOLEAN :
  /\ Busy /\ Ready /\ ~TooLate(buf[1])
  /\ buf' = Tail(buf) /\ last' = LastAfterPop
  /\ shortEnd' = EndNow
  /\ forced' = (forced \/ (pc # "trailer" /\ ~Full))
  /\ WritePacket(buf[1], fails)
  /\ UNCHANGED <<cur, taken>>

(* interleave_packet had nothing for the caller. *)
Finish ==
  /\ Busy /\ ~Ready /\ ~(buf # <<>> /\ TooLate(buf[1]))
  /\ pc' = Return
  /\ UNCHANGED <<queueVars, writeVars>>

Work == Truncate \/ WriteOne \/ Finish

(* A caller that submits what it likes in any order of the streams. *)
Total == FoldFunction(LAMBDA a, b : a + b, 0, taken)
Offer == \E s \in Streams, d \in Dts :
           Total < MaxPackets /\ Obedient(s, d) /\ Submit(s, d)
Ended == pc = "done" /\ UNCHANGED muxVars

Next == Offer \/ Flush \/ Trailer \/ Work \/ Ended
Spec == Init /\ [][Next]_muxVars
FairSpec == Spec /\ WF_muxVars(Work)

-----------------------------------------------------------------------------
TypeOK ==
  /\ buf \in Seq(Packets) /\ lost \subseteq Packets
  /\ cur \in [Streams -> Int \cup {NoTs}] /\ last \in [Streams -> Nat]
  /\ taken \in [Streams -> Nat] /\ shortEnd \in Int \cup {NoTs}
  /\ shift \in Int \cup {NoTs} /\ off \in [Streams -> Int]
  /\ out \in Seq([pkt : Packets, ts : Int])
  /\ ioError \in BOOLEAN /\ forced \in BOOLEAN
  /\ pc \in {"idle", "drain", "flush", "trailer", "done"}

(* The list is in the order the packets have to be written in. *)
Sorted == \A i, j \in 1 .. Len(buf) : i < j => ~After(buf[i], buf[j])

(* last_in_packet_buffer is the stream's last node, and NULL iff it has none. *)
LastIsLast == \A s \in Streams :
  /\ last[s] <= Len(buf)
  /\ last[s] # 0 => buf[last[s]].st = s
  /\ \A i \in last[s] + 1 .. Len(buf) : buf[i].st # s

(* Nothing that waits is newer than what was accepted last. *)
NotAhead == \A i \in 1 .. Len(buf) :
  cur[buf[i].st] # NoTs /\ buf[i].dts <= cur[buf[i].st]

(* What was written precedes all that waits, and all that may still come. *)
WrittenFirst == (out # <<>> /\ ~forced) =>
  /\ \A i \in 1 .. Len(buf) : Time(out[Len(out)].pkt) <= Time(buf[i])
  /\ pc \notin {"trailer", "done"} => \A s \in Streams :
       cur[s] # NoTs /\ Time(out[Len(out)].pkt) <= cur[s] * Tick[s]

(* Packets are written in order of time, whatever the streams and however    *)
(* their packets come in, as long as none is forced out early.               *)
OutputOrdered == ~forced =>
  \A i, j \in 1 .. Len(out) : i < j => Time(out[i].pkt) <= Time(out[j].pkt)

IInv == /\ TypeOK /\ Sorted /\ LastIsLast /\ NotAhead /\ WrittenFirst /\ OutputOrdered

(* A packet is lost when writing it fails, or when it lies past the end of   *)
(* the shortest stream, which stays what it was found to be first.           *)
LossesExplained ==
  /\ unwritten \subseteq lost
  /\ \A p \in lost \ unwritten : shortEnd # NoTs /\ shortEnd + 1 < Time(p)

(* Every packet that was accepted is in the list, written or lost: in one of *)
(* them and only once, and never lost without one of the two reasons.        *)
Written  == {out[i].pkt : i \in 1 .. Len(out)}
Waiting  == {buf[i] : i \in 1 .. Len(buf)}
Accepted == Written \cup Waiting \cup lost
EachOnce ==
  /\ \A i, j \in 1 .. Len(out) : out[i].pkt = out[j].pkt => i = j
  /\ \A i, j \in 1 .. Len(buf) : buf[i] = buf[j] => i = j
  /\ Written \cap Waiting = {} /\ Written \cap lost = {} /\ Waiting \cap lost = {}
  /\ \A p, q \in Accepted : p.st = q.st /\ p.no = q.no => p = q
  /\ \A s \in Streams : {p.no : p \in {q \in Accepted : q.st = s}} = 1 .. taken[s]
  /\ LossesExplained

(* av_interleaved_write_frame(NULL) "at any time, not just at the end"       *)
(* flushes the queues (avformat.h:2529): until av_write_trailer, and as long *)
(* as the output does not fail, no packet that was accepted is dropped.      *)
FlushKeepsAll == pc \notin {"trailer", "done"} => lost = unwritten

(* Only the flag arms the end of the shortest stream. *)
AccountInv == TypeOK /\ EachOnce /\ (shortEnd # NoTs => Shortest)

(* write_packet keeps time stamps from being negative, whatever the time     *)
(* bases, as long as no packet is forced out early.                          *)
NonNegative == (AvoidNeg > 0 /\ ~forced) =>
  \A i \in 1 .. Len(out) : out[i].ts >= 0

(* The offset is found once; then every stream uses it, rounded up, and      *)
(* nothing that waits or may still come lies before it.                      *)
ShiftKnown ==
  /\ shift = NoTs => \A s \in Streams : off[s] = 0
  /\ (AvoidNeg > 0 /\ shift # NoTs) =>
       \A s \in Streams : off[s] \in {0, CeilDiv(shift, Tick[s])}
  /\ (shift # NoTs /\ ~forced) =>
       /\ \A i \in 1 .. Len(buf) : -shift <= Time(buf[i])
       /\ pc \notin {"trailer", "done"} => \A s \in Streams :
            cur[s] # NoTs /\ -shift <= cur[s] * Tick[s]
ShiftInv == IInv /\ ShiftKnown /\ NonNegative

(* av_interleaved_write_frame returns with no more buffered than the option  *)
(* max_interleave_delta allows, and never with a packet of every stream.     *)
BufferBounded == (pc = "idle" /\ ~ioError /\ lost = {}) =>
  /\ ~Full
  /\ (MaxDelta > 0 /\ \A s \in Sparse : last[s] # 0) =>
       \A i \in 1 .. Len(buf) : Time(buf[i]) - Time(buf[1]) <= MaxDelta

(* The list of mux.c is a merge of one queue per stream. *)
OfStream(list, s) ==
  LET part[i \in 0 .. Len(list)] ==
        IF i = 0 THEN <<>>
        ELSE IF list[i].st = s THEN Append(part[i - 1], list[i]) ELSE part[i - 1]
  IN  part[Len(list)]
Queue(s) == OfStream(buf, s)
NotAfter(p, q) == ~After(p, q)
Merge == INSTANCE PacketMerge WITH
  queue <- [s \in Streams |-> Queue(s)],
  written <- [i \in 1 .. Len(out) |-> out[i].pkt],
  hurried <- forced,
  closed <- pc \in {"trailer", "done"},
  Least <- NotAfter
ImplementsMerge == Merge!Spec
=============================================================================
