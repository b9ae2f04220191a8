-------------------------- MODULE FrameThreadsProofs --------------------------
(***************************************************************************)
(* Frame threads, for every number of threads, every delay of the codec,   *)
(* any number of packets and failures: IInv is inductive.  The types, the  *)
(* machine of each thread and the ring the caller goes round are proved    *)
(* first, for the threads and for the caller; then where every packet is   *)
(* and in which order (Flow), and that no frame is returned before its     *)
(* rows are done (Rows).                                                   *)
(***************************************************************************)
EXTENDS FrameThreads, SequenceTheorems, TLAPS

LEMMA Consts ==
  /\ N \in Nat \ {0, 1} /\ Early \in {0, 1} /\ Delay \in Nat /\ MaxErrors \in Nat
  /\ 0 \in Threads /\ Caller \notin Threads /\ Nobody \notin Threads /\ Caller # Nobody
BY FrameAssumption DEF Threads, Caller, Nobody

LEMMA OptionIs ==
  ASSUME TypeOK
  PROVE  /\ opt.update \in BOOLEAN /\ opt.own \in BOOLEAN /\ opt.delayed \in BOOLEAN
         /\ opt.packets \in Nat /\ opt.fails \in Nat /\ opt.hw \in {"none", "serial", "safe"}
         /\ opt.hw # "none" => opt.update
         /\ opt.delayed /\ Delay > 0 => opt.update
BY FrameAssumption DEF TypeOK

LEMMA SleepType ==
  ASSUME TypeOK
  PROVE  /\ \A c : Wake(c) => asleep' \in [0 .. N -> Conditions]
         /\ \A c : Signal(c) => asleep' \in [0 .. N -> Conditions]
         /\ \A x, t : t \in Threads /\ (Sleeps(x, Progress(t)) \/ Sleeps(x, Output(t)) \/ Sleeps(x, Input(t)))
              => asleep' \in [0 .. N -> Conditions]
         /\ \A x : Sleeps(x, Async) => asleep' \in [0 .. N -> Conditions]
<1>1. asleep \in [0 .. N -> Conditions] /\ Awake \in Conditions /\ Async \in Conditions
  BY DEF TypeOK, Awake, Async, Somebody, Conditions
<1>2. \A t \in Threads : Input(t) \in Conditions /\ Progress(t) \in Conditions /\ Output(t) \in Conditions
  BY DEF Input, Progress, Output, Somebody, Conditions
<1>3. \A c : Wake(c) => asleep' \in [0 .. N -> Conditions]
  BY <1>1 DEF Wake
<1>4. \A c : Signal(c) => asleep' \in [0 .. N -> Conditions]
  BY <1>1 DEF Signal
<1>5. \A x, c : Sleeps(x, c) /\ c \in Conditions => asleep' \in [0 .. N -> Conditions]
  BY <1>1 DEF Sleeps
<1> QED BY <1>1, <1>2, <1>3, <1>4, <1>5

FrameContexts == [decoding : 0 .. N, finished : Threads, delaying : BOOLEAN, prev : Somebody]
Decoders == [draining : BOOLEAN, done : BOOLEAN, errors : Nat]
Locks == [buffer : Somebody, hw : Somebody, async : Somebody \cup {Caller}]
NewCall == SendPacket \/ Drain \/ Flush \/ Close
Places == Active \cup Ending \cup {"flush", "free"}

(* What records become when a field changes. *)
LEMMA UserType ==
  ASSUME NEW u \in Users, NEW a \in Places, NEW i \in 0 .. N
  PROVE  /\ [u EXCEPT !.at = a] \in Users /\ [u EXCEPT !.at = a, !.i = i] \in Users
         /\ [u EXCEPT !.i = i] \in Users
         /\ \A e \in {0, -1} : [u EXCEPT !.at = a, !.err = e] \in Users
         /\ \A p \in Nat : [u EXCEPT !.at = a, !.pkt = p, !.got = 0, !.err = 0] \in Users
         /\ \A g \in Nat, e \in {0, -1} : [u EXCEPT !.got = g, !.err = e, !.i = i, !.at = a] \in Users
<1>1. [u EXCEPT !.at = a] \in Users /\ [u EXCEPT !.at = a, !.i = i] \in Users /\ [u EXCEPT !.i = i] \in Users
  BY DEF Users, Places
<1>2. \A e \in {0, -1} : [u EXCEPT !.at = a, !.err = e] \in Users
  BY DEF Users, Places
<1>3. \A p \in Nat : [u EXCEPT !.at = a, !.pkt = p, !.got = 0, !.err = 0] \in Users
  BY DEF Users, Places
<1>4. \A g \in Nat, e \in {0, -1} : [u EXCEPT !.got = g, !.err = e, !.i = i, !.at = a] \in Users
  BY DEF Users, Places
<1> QED BY <1>1, <1>2, <1>3, <1>4

LEMMA ThreadType ==
  ASSUME NEW r \in PerThread
  PROVE  /\ \A x \in {"ready", "setup", "buffer", "format", "finished"} : [r EXCEPT !.state = x] \in PerThread
         /\ \A x \in {"ready", "setup", "buffer", "format", "finished"}, e \in {0, -1} :
              [r EXCEPT !.state = x, !.result = e] \in PerThread
         /\ \A x \in {"ready", "setup", "buffer", "format", "finished"} :
              [r EXCEPT !.state = x, !.frame = 0] \in PerThread
         /\ \A n \in Nat, e \in {0, -1} : [r EXCEPT !.frame = n, !.result = e] \in PerThread
         /\ [r EXCEPT !.frame = 0] \in PerThread
         /\ \A b \in BOOLEAN : [r EXCEPT !.released = b] \in PerThread
         /\ [r EXCEPT !.die = TRUE] \in PerThread
         /\ \A x \in Refs : [r EXCEPT !.needs = x] \in PerThread
         /\ \A c \in Contexts, p \in Nat : [r EXCEPT !.ctx = c, !.pkt = p, !.state = "setup"] \in PerThread
         /\ [r EXCEPT !.ctx.format = TRUE] \in PerThread
         /\ \A q \in Seq(Nat), n \in Nat : [r EXCEPT !.frame = n, !.result = 0, !.ctx.held = q] \in PerThread
         /\ \A c \in Contexts : [r EXCEPT !.frame = 0, !.result = 0, !.released = FALSE, !.ctx = c] \in PerThread
         /\ \A n \in Nat, q \in Seq(Nat), x, y \in Refs, b \in BOOLEAN,
               v \in {"ready", "setup", "buffer", "format", "finished"} :
              [r EXCEPT !.frame = n, !.ctx.held = q, !.needs = x, !.ctx.ref = y, !.released = b,
                        !.result = 0, !.state = v] \in PerThread
<1>1. \A x \in {"ready", "setup", "buffer", "format", "finished"} : [r EXCEPT !.state = x] \in PerThread
  BY DEF PerThread, Contexts
<1>2. \A x \in {"ready", "setup", "buffer", "format", "finished"}, e \in {0, -1} :
        [r EXCEPT !.state = x, !.result = e] \in PerThread
  BY DEF PerThread, Contexts
<1>3. \A x \in {"ready", "setup", "buffer", "format", "finished"} :
        [r EXCEPT !.state = x, !.frame = 0] \in PerThread
  BY DEF PerThread, Contexts
<1>4. \A n \in Nat, e \in {0, -1} : [r EXCEPT !.frame = n, !.result = e] \in PerThread
  BY DEF PerThread, Contexts
<1>5. [r EXCEPT !.frame = 0] \in PerThread
  BY DEF PerThread, Contexts
<1>6. \A b \in BOOLEAN : [r EXCEPT !.released = b] \in PerThread
  BY DEF PerThread, Contexts
<1>7. [r EXCEPT !.die = TRUE] \in PerThread
  BY DEF PerThread, Contexts
<1>8. \A x \in Refs : [r EXCEPT !.needs = x] \in PerThread
  BY DEF PerThread, Contexts
<1>9. \A c \in Contexts, p \in Nat : [r EXCEPT !.ctx = c, !.pkt = p, !.state = "setup"] \in PerThread
  BY DEF PerThread, Contexts
<1>10. [r EXCEPT !.ctx.format = TRUE] \in PerThread
  BY DEF PerThread, Contexts
<1>11. \A q \in Seq(Nat), n \in Nat : [r EXCEPT !.frame = n, !.result = 0, !.ctx.held = q] \in PerThread
  BY DEF PerThread, Contexts
<1>12. \A c \in Contexts : [r EXCEPT !.frame = 0, !.result = 0, !.released = FALSE, !.ctx = c] \in PerThread
  BY DEF PerThread, Contexts
<1>13. ASSUME NEW n \in Nat, NEW q \in Seq(Nat), NEW x \in Refs, NEW y \in Refs, NEW b \in BOOLEAN,
               NEW v \in {"ready", "setup", "buffer", "format", "finished"}
       PROVE  [r EXCEPT !.frame = n, !.ctx.held = q, !.needs = x, !.ctx.ref = y, !.released = b,
                        !.result = 0, !.state = v] \in PerThread
  <2>1. [r.ctx EXCEPT !.held = q, !.ref = y] \in Contexts
    BY DEF PerThread, Contexts
  <2>2. \A c \in Contexts : [r EXCEPT !.frame = n, !.ctx = c, !.needs = x, !.released = b,
                                     !.result = 0, !.state = v] \in PerThread
    BY DEF PerThread
  <2>3. [r EXCEPT !.frame = n, !.ctx.held = q, !.needs = x, !.ctx.ref = y, !.released = b,
                  !.result = 0, !.state = v]
        = [r EXCEPT !.frame = n, !.ctx = [r.ctx EXCEPT !.held = q, !.ref = y], !.needs = x,
                    !.released = b, !.result = 0, !.state = v]
    BY DEF PerThread
  <2> QED BY <2>1, <2>2, <2>3
<1> QED BY <1>1, <1>2, <1>3, <1>4, <1>5, <1>6, <1>7, <1>8, <1>9, <1>10, <1>11, <1>12, <1>13

LEMMA HistType ==
  ASSUME NEW h \in Histories
  PROVE  /\ \A r \in {0, -1}, d \in SUBSET Nat :
              [h EXCEPT !.fails = @ - r, !.dropped = @ \cup d] \in Histories
         /\ [h EXCEPT !.given = @ + 1] \in Histories
         /\ \A n \in Nat : [h EXCEPT !.returned = Append(@, n)] \in Histories
         /\ [h EXCEPT !.flushed = h.given, !.dropped = {}, !.returned = <<>>] \in Histories
<1>1. \A r \in {0, -1}, d \in SUBSET Nat : h.fails - r \in Nat /\ h.dropped \cup d \in SUBSET Nat
  <2>1. h.fails \in Nat /\ h.dropped \in SUBSET Nat
    BY DEF Histories
  <2>2. \A r \in {0, -1} : h.fails - r \in Nat
    BY <2>1
  <2> QED BY <2>1, <2>2
<1>2. \A r \in {0, -1}, d \in SUBSET Nat :
        [h EXCEPT !.fails = @ - r, !.dropped = @ \cup d] \in Histories
  BY <1>1 DEF Histories
<1>3. [h EXCEPT !.given = @ + 1] \in Histories
  <2>1. h.given + 1 \in Nat
    BY DEF Histories
  <2>2. \A n \in Nat : [h EXCEPT !.given = n] \in Histories
    BY DEF Histories
  <2> QED BY <2>1, <2>2
<1>4. \A n \in Nat : [h EXCEPT !.returned = Append(@, n)] \in Histories
  <2>1. \A n \in Nat : Append(h.returned, n) \in Seq(Nat)
    BY DEF Histories
  <2> QED BY <2>1 DEF Histories
<1>5. [h EXCEPT !.flushed = h.given, !.dropped = {}, !.returned = <<>>] \in Histories
  <2>1. h.given \in Nat /\ {} \in SUBSET Nat /\ <<>> \in Seq(Nat)
    BY EmptySeq DEF Histories
  <2>2. \A n \in Nat, d \in SUBSET Nat, q \in Seq(Nat) :
          [h EXCEPT !.flushed = n, !.dropped = d, !.returned = q] \in Histories
    BY DEF Histories
  <2> QED BY <2>1, <2>2
<1> QED BY <1>2, <1>3, <1>4, <1>5

LEMMA SetType ==
  ASSUME TypeOK, NEW t \in Threads, NEW r \in PerThread
  PROVE  [th EXCEPT ![t] = r] \in [Threads -> PerThread]
BY DEF TypeOK

(* When a call is submitted. *)
LEMMA SubmitType ==
  ASSUME TypeOK, NEW n \in 0 .. N, NEW p \in Somebody, Submitted(n, p)
  PROVE  user' \in Users /\ fctx' \in FrameContexts
<1>1. (IF ReturnsNone(n) THEN "return" ELSE "collect") \in Places
  BY DEF Places, Active, Calling
<1>2. user \in Users /\ fctx.finished \in 0 .. N
  BY Consts DEF TypeOK, Threads
<1>3. user' \in Users
  <2>1. user' = [user EXCEPT !.at = IF ReturnsNone(n) THEN "return" ELSE "collect", !.i = fctx.finished]
    BY DEF Submitted
  <2> QED BY <1>1, <1>2, <2>1, UserType
<1>4. fctx' \in FrameContexts
  BY DEF TypeOK, Submitted, Delaying, FrameContexts
<1> QED BY <1>3, <1>4

LEMMA WorkerType ==
  ASSUME TypeOK, NEW t,
         NEW place \in BeforeSetup \cup {"wait", "exited", "rows", "endAsync", "end", "unlock", "ready"},
         WorkerGoes(t, place)
  PROVE  worker' \in [Threads -> BeforeSetup \cup {"wait", "exited", "rows", "endAsync", "end",
                                                   "unlock", "ready"}]
BY DEF TypeOK, WorkerGoes

(* The threads the caller deals with are threads. *)
LEMMA Indices ==
  ASSUME TypeOK, Ring
  PROVE  /\ user.at # "collect" => Current \in Threads
         /\ user.at \in {"collect", "kill", "join"} => user.i \in Threads
         /\ user.at \in {"flush", "free"} /\ ~Parked => user.i \in Threads
         /\ \A t \in Threads : t \in 0 .. N - 1 /\ NextIndex(t) \in Threads
         /\ \A t \in Threads : NextIndex(t) = IF t + 1 = N THEN 0 ELSE t + 1
         /\ Threads \subseteq 0 .. N /\ user.i \in 0 .. N
<1>1. \A t \in Threads : t \in 0 .. N - 1
  BY DEF Threads
<1>2. ASSUME NEW t \in Threads PROVE NextIndex(t) = IF t + 1 = N THEN 0 ELSE t + 1
  BY <1>1, Consts DEF NextIndex
<1>3. \A t \in Threads : NextIndex(t) \in Threads
  BY <1>2, Consts DEF Threads
<1>4. user.i \in 0 .. N /\ Threads \subseteq 0 .. N /\ fctx.decoding \in 0 .. N
  BY Consts DEF TypeOK, Users, Threads
<1>5. user.at # "collect" => Current \in Threads
  BY <1>4, Consts DEF Ring, Current, Threads
<1>6. user.at \in {"collect", "kill", "join"} => user.i \in Threads
  BY DEF Ring
<1>7. user.at \in {"flush", "free"} /\ ~Parked => user.i \in Threads
  BY <1>4, Consts DEF Parked, Threads
<1> QED BY <1>1, <1>2, <1>3, <1>4, <1>5, <1>6, <1>7

LEMMA PlaceNames ==
  /\ Active \subseteq Places /\ Ending \subseteq Places /\ Calling \subseteq Active
  /\ {"flush", "free"} \subseteq Places
  /\ Calling = {"submit", "copy", "callback", "collect", "return"}
  /\ Active = {"submit", "copy", "callback", "collect", "return", "idle"}
  /\ Ending = {"kill", "join", "closed"}
BY DEF Places, Active, Ending, Calling

LEMMA SetupEndsType ==
  ASSUME TypeOK, NEW t \in Threads, SetupEnds(t)
  PROVE  th' \in [Threads -> PerThread] /\ asleep' \in [0 .. N -> Conditions]
<1>1. th[t] \in PerThread
  BY DEF TypeOK
<1>2. [th[t] EXCEPT !.state = "finished"] \in PerThread
  BY <1>1, ThreadType
<1>3. th' = [th EXCEPT ![t] = [th[t] EXCEPT !.state = "finished"]]
  BY DEF SetupEnds
<1> QED BY <1>2, <1>3, SetType, SleepType DEF SetupEnds

LEMMA FailsType ==
  ASSUME TypeOK, NEW t \in Threads, NEW r \in Results, NEW d \in SUBSET Nat, Fails(t, r, d)
  PROVE  th' \in [Threads -> PerThread] /\ hist' \in Histories
<1>1. th[t] \in PerThread /\ hist \in Histories /\ r \in {0, -1} /\ 0 \in Nat
  BY DEF TypeOK, Results
<1>2. [th[t] EXCEPT !.frame = 0, !.result = r] \in PerThread
  BY <1>1, ThreadType
<1>3. th' = [th EXCEPT ![t] = [th[t] EXCEPT !.frame = 0, !.result = r]]
  BY DEF Fails
<1>4. hist' = [hist EXCEPT !.fails = @ - r, !.dropped = @ \cup d]
  BY DEF Fails, Failed
<1> QED BY <1>1, <1>2, <1>3, <1>4, SetType, HistType

(* The caller keeps the types. *)
LEMMA UserTypes ==
  ASSUME TypeOK, Ring,
         SendPacket \/ Drain \/ Flush \/ Close \/ SubmitNothing \/ LockThread \/ AwaitSetup
           \/ CopyContext \/ CopyFails \/ CallBack
  PROVE  TypeOK'
<1> USE DEF Places, Active, Calling, Ending
<1>0. /\ user \in Users /\ hist \in Histories /\ lock \in Locks /\ user.pkt \in Nat
      /\ 0 \in 0 .. N /\ fctx.prev \in Somebody /\ fctx.decoding \in 0 .. N
  BY Consts DEF TypeOK, Locks, Users
<1>1. CASE SendPacket
  <2>1. hist.given + 1 \in Nat
    BY <1>0 DEF Histories
  <2>2. user' \in Users /\ hist' \in Histories
    BY <1>0, <1>1, <2>1, UserType, HistType DEF SendPacket
  <2>3. asleep' \in [0 .. N -> Conditions]
    BY <1>1, SleepType DEF SendPacket
  <2>4. lock' \in Locks
    BY <1>0, <1>1 DEF SendPacket, Locks, Somebody
  <2> QED BY <1>1, <2>2, <2>3, <2>4 DEF SendPacket, TypeOK, Locks
<1>2. CASE Drain
  <2>2. user' \in Users /\ dec' \in Decoders
    BY <1>0, <1>2, UserType DEF Drain, TypeOK, Decoders
  <2>3. asleep' \in [0 .. N -> Conditions]
    BY <1>2, SleepType DEF Drain
  <2>4. lock' \in Locks
    BY <1>0, <1>2 DEF Drain, Locks, Somebody
  <2> QED BY <1>2, <2>2, <2>3, <2>4 DEF Drain, TypeOK, Locks, Decoders
<1>3. CASE Flush \/ Close
  <2>1. PICK place \in {"flush", "free"} : Stop(place)
    BY <1>3 DEF Flush, Close
  <2>2. user' \in Users
    BY <1>0, <2>1, UserType DEF Stop
  <2>3. asleep' \in [0 .. N -> Conditions]
    BY <2>1, SleepType DEF Stop
  <2>4. lock' \in Locks
    BY <1>0, <2>1 DEF Stop, Locks, Somebody
  <2> QED BY <2>1, <2>2, <2>3, <2>4 DEF Stop, TypeOK, Locks
<1>4. CASE SubmitNothing
  <2>1. user' \in Users /\ fctx' \in FrameContexts
    BY <1>0, <1>4, SubmitType DEF SubmitNothing
  <2> QED BY <1>4, <2>1 DEF SubmitNothing, TypeOK, FrameContexts
<1>5. CASE LockThread
  <2>1. Current \in Threads /\ th[Current] \in PerThread
    BY <1>5, Indices DEF LockThread, TypeOK
  <2>2. [th[Current] EXCEPT !.released = FALSE] \in PerThread
    BY <2>1, ThreadType
  <2>3. th' = [th EXCEPT ![Current] = [th[Current] EXCEPT !.released = FALSE]]
    BY <1>5 DEF LockThread
  <2>4. th' \in [Threads -> PerThread]
    BY <2>1, <2>2, <2>3, SetType
  <2>5. user' \in Users
    BY <1>0, <1>5, UserType DEF LockThread, Goes
  <2> QED BY <1>5, <2>4, <2>5 DEF LockThread, TypeOK
<1>6. CASE AwaitSetup
  <2>1. fctx.prev \in Threads
    BY <1>0, <1>6 DEF AwaitSetup, Somebody
  <2>2. asleep' \in [0 .. N -> Conditions]
    BY <1>6, <2>1, SleepType DEF AwaitSetup
  <2> QED BY <1>6, <2>2 DEF AwaitSetup, TypeOK
<1>7. CASE CopyContext
  <2>1. Current \in Threads /\ th[Current] \in PerThread /\ Current + 1 \in 0 .. N /\ Current \in Somebody
    BY <1>7, Indices, Consts DEF CopyContext, TypeOK, Threads, Somebody
  <2>2. CopiedContext \in Contexts
    BY <2>1 DEF TypeOK, CopiedContext, Somebody, PerThread
  <2>3. [th[Current] EXCEPT !.ctx = CopiedContext, !.pkt = user.pkt, !.state = "setup"] \in PerThread
    BY <1>0, <2>1, <2>2, ThreadType
  <2>4. th' = [th EXCEPT ![Current] = [th[Current] EXCEPT !.ctx = CopiedContext, !.pkt = user.pkt,
                                                           !.state = "setup"]]
    BY <1>7 DEF CopyContext
  <2>5. th' \in [Threads -> PerThread] /\ asleep' \in [0 .. N -> Conditions]
    BY <1>7, <2>1, <2>3, <2>4, SetType, SleepType DEF CopyContext
  <2>6. user' \in Users /\ fctx' \in FrameContexts
    <3>1. CASE opt.own
      <4>1. user' \in Users
        BY <1>0, <1>7, <3>1, UserType DEF CopyContext, Goes
      <4> QED BY <1>7, <3>1, <4>1 DEF CopyContext, TypeOK, FrameContexts
    <3>2. CASE ~opt.own
      BY <1>7, <2>1, <3>2, SubmitType DEF CopyContext
    <3> QED BY <3>1, <3>2
  <2> QED BY <1>7, <2>5, <2>6 DEF CopyContext, TypeOK, FrameContexts
<1>8. CASE CopyFails
  <2>1. user' \in Users
    BY <1>0, <1>8, UserType DEF CopyFails
  <2>2. hist' = [hist EXCEPT !.fails = @ - (-1), !.dropped = @ \cup {user.pkt}]
    BY <1>8 DEF CopyFails, Failed
  <2>3. -1 \in {0, -1} /\ {user.pkt} \in SUBSET Nat
    BY <1>0
  <2>4. hist' \in Histories
    BY <1>0, <2>2, <2>3, HistType
  <2> QED BY <1>8, <2>1, <2>4 DEF CopyFails, TypeOK
<1>9. CASE CallBack
  <2>1. Current \in Threads /\ th[Current] \in PerThread /\ Current + 1 \in 0 .. N /\ Current \in Somebody
    BY <1>9, Indices, Consts DEF CallBack, TypeOK, Threads, Somebody
  <2>2. CASE SettingUp(Current) /\ Sleeps(Caller, Progress(Current)) /\ UNCHANGED <<user, fctx, th, hist>>
    <3>1. asleep' \in [0 .. N -> Conditions]
      BY <2>1, <2>2, SleepType
    <3> QED BY <1>9, <2>2, <3>1 DEF CallBack, TypeOK
  <2>3. CASE /\ Asks(Current) /\ Answered
             /\ \E r \in (IF th[Current].state = "buffer" THEN Results ELSE {0}) :
                  /\ th' = [th EXCEPT ![Current].state = "setup", ![Current].result = r]
                  /\ hist' = Failed(r, {})
             /\ UNCHANGED <<user, fctx>>
    <3>1. PICK r \in {0, -1} : /\ th' = [th EXCEPT ![Current].state = "setup", ![Current].result = r]
                               /\ hist' = Failed(r, {})
      BY <2>3 DEF Results
    <3>2. [th[Current] EXCEPT !.state = "setup", !.result = r] \in PerThread
      BY <2>1, ThreadType
    <3>3. th' = [th EXCEPT ![Current] = [th[Current] EXCEPT !.state = "setup", !.result = r]]
      BY <3>1
    <3>4. th' \in [Threads -> PerThread]
      BY <2>1, <3>2, <3>3, SetType
    <3>5. hist' = [hist EXCEPT !.fails = @ - r, !.dropped = @ \cup {}] /\ {} \in SUBSET Nat
      BY <3>1 DEF Failed
    <3>6. hist' \in Histories
      BY <1>0, <3>5, HistType
    <3>7. asleep' \in [0 .. N -> Conditions]
      BY <2>3, SleepType DEF Answered
    <3> QED BY <1>9, <2>3, <3>4, <3>6, <3>7 DEF CallBack, TypeOK
  <2>4. CASE /\ th[Current].state \in {"finished", "ready"}
             /\ Submitted(Current + 1, Current)
             /\ UNCHANGED <<th, asleep, hist>>
    <3>1. user' \in Users /\ fctx' \in FrameContexts
      BY <2>1, <2>4, SubmitType
    <3> QED BY <1>9, <2>4, <3>1 DEF CallBack, TypeOK, FrameContexts
  <2> QED BY <1>9, <2>2, <2>3, <2>4 DEF CallBack
<1> QED BY <1>1, <1>2, <1>3, <1>4, <1>5, <1>6, <1>7, <1>8, <1>9

LEMMA UserTypesToo ==
  ASSUME TypeOK, Ring,
         Collect \/ Return \/ Park \/ FlushThreads \/ FreeThreads \/ Kill \/ Join
  PROVE  TypeOK'
<1> USE DEF Places, Active, Calling, Ending
<1>0. /\ user \in Users /\ hist \in Histories /\ lock \in Locks /\ user.pkt \in Nat
      /\ 0 \in 0 .. N /\ fctx \in FrameContexts /\ user.i \in 0 .. N
  BY Consts DEF TypeOK, Locks, Users, FrameContexts
<1>1. CASE Collect
  <2> DEFINE t == user.i
             i == NextIndex(t)
  <2>1. t \in Threads /\ th[t] \in PerThread /\ i \in Threads /\ i \in 0 .. N
    BY <1>1, Indices DEF Collect, TypeOK
  <2> HIDE DEF t, i
  <2>2. CASE Pending(t)
    <3>1. Sleeps(Caller, Output(t)) /\ UNCHANGED <<user, fctx, th>>
      BY <1>1, <2>2 DEF Collect, t
    <3>2. asleep' \in [0 .. N -> Conditions]
      BY <2>1, <3>1, SleepType
    <3> QED BY <1>1, <3>1, <3>2 DEF Collect, TypeOK
  <2>3. CASE ~Pending(t)
    <3>1. /\ th' = [th EXCEPT ![t].frame = 0, ![t].result = 0]
          /\ user' = [user EXCEPT !.got = th[t].frame, !.err = th[t].result, !.i = i,
                                  !.at = IF GoesOn(t, i) THEN "collect" ELSE "return"]
          /\ fctx' = IF GoesOn(t, i) THEN fctx
                     ELSE [fctx EXCEPT !.decoding = @ % N, !.finished = i]
          /\ UNCHANGED asleep
      BY <1>1, <2>3 DEF Collect, t, i
    <3>2. [th[t] EXCEPT !.frame = 0, !.result = 0] \in PerThread
      BY <2>1, ThreadType
    <3>3. th' = [th EXCEPT ![t] = [th[t] EXCEPT !.frame = 0, !.result = 0]]
      BY <3>1
    <3>4. th' \in [Threads -> PerThread]
      BY <2>1, <3>2, <3>3, SetType
    <3>5. th[t].frame \in Nat /\ th[t].result \in {0, -1}
      BY <2>1 DEF PerThread
    <3>6. user' \in Users
      <4>1. (IF GoesOn(t, i) THEN "collect" ELSE "return") \in Places
        OBVIOUS
      <4> QED BY <1>0, <2>1, <3>1, <3>5, <4>1, UserType
    <3>7. fctx' \in FrameContexts
      <4>1. fctx.decoding % N \in 0 .. N
        BY <1>0, Consts DEF FrameContexts
      <4> QED BY <1>0, <2>1, <3>1, <4>1 DEF FrameContexts
    <3> QED BY <1>1, <3>1, <3>4, <3>6, <3>7 DEF Collect, TypeOK, FrameContexts
  <2> QED BY <2>2, <2>3
<1>2. CASE Return
  <2>1. CASE AsyncTaken
    <3>1. asleep' \in [0 .. N -> Conditions]
      BY <1>2, <2>1, SleepType DEF Return
    <3> QED BY <1>2, <2>1, <3>1 DEF Return, TypeOK
  <2>2. CASE ~AsyncTaken
    <3>1. /\ lock' = [lock EXCEPT !.async = Caller] /\ dec' = AfterCall /\ user' = Idle
          /\ hist' = IF user.got = 0 THEN hist ELSE [hist EXCEPT !.returned = Append(@, user.got)]
          /\ UNCHANGED asleep
      BY <1>2, <2>2 DEF Return
    <3>2. lock' \in Locks
      BY <1>0, <3>1 DEF Locks
    <3>3. user' \in Users
      BY <1>0, <3>1 DEF Idle, Users
    <3>4. hist' \in Histories
      <4>1. user.got \in Nat
        BY <1>0 DEF Users
      <4> QED BY <1>0, <3>1, <4>1, HistType
    <3>5. dec' \in Decoders
      <4>1. dec \in Decoders /\ dec.errors + 1 \in Nat /\ (dec.errors >= MaxErrors) \in BOOLEAN
        BY DEF TypeOK, Decoders
      <4>2. \A n \in Nat, b \in BOOLEAN : [dec EXCEPT !.errors = n, !.done = b] \in Decoders
        BY <4>1 DEF Decoders
      <4>3. [dec EXCEPT !.done = TRUE] \in Decoders
        BY <4>1 DEF Decoders
      <4>4. dec' \in {dec, [dec EXCEPT !.errors = dec.errors + 1, !.done = dec.errors >= MaxErrors],
                     [dec EXCEPT !.done = TRUE]}
        BY <3>1 DEF AfterCall
      <4> QED BY <4>1, <4>2, <4>3, <4>4
    <3> QED BY <1>2, <3>1, <3>2, <3>3, <3>4, <3>5 DEF Return, TypeOK, Locks, Decoders
  <2> QED BY <2>1, <2>2
<1>3. CASE Park
  <2>1. user.i \in Threads /\ th[user.i] \in PerThread /\ user.i + 1 \in 0 .. N
    BY <1>3, Indices, Consts DEF Park, TypeOK, Threads
  <2>2. CASE th[user.i].state # "ready"
    <3>1. Sleeps(Caller, Output(user.i)) /\ UNCHANGED <<user, th>>
      BY <1>3, <2>2 DEF Park
    <3>2. asleep' \in [0 .. N -> Conditions]
      BY <2>1, <3>1, SleepType
    <3> QED BY <1>3, <3>1, <3>2 DEF Park, TypeOK
  <2>3. CASE th[user.i].state = "ready"
    <3>1. /\ th' = [th EXCEPT ![user.i].frame = 0] /\ user' = [user EXCEPT !.i = user.i + 1]
          /\ UNCHANGED asleep
      BY <1>3, <2>3 DEF Park
    <3>2. [th[user.i] EXCEPT !.frame = 0] \in PerThread
      BY <2>1, ThreadType
    <3>3. th' = [th EXCEPT ![user.i] = [th[user.i] EXCEPT !.frame = 0]]
      BY <3>1
    <3>4. th' \in [Threads -> PerThread]
      BY <2>1, <3>2, <3>3, SetType
    <3>5. user' \in Users
      <4>1. "flush" \in Places
        OBVIOUS
      <4> QED BY <1>0, <2>1, <3>1, <4>1, UserType
    <3> QED BY <1>3, <3>1, <3>4, <3>5 DEF Park, TypeOK
  <2> QED BY <2>2, <2>3
<1>4. CASE FlushThreads
  <2>1. \A t \in Threads : FlushedContext(t) \in Contexts
    <3>1. \A t \in Threads : th[t].ctx \in Contexts /\ NoRef \in Refs /\ <<>> \in Seq(Nat)
      BY EmptySeq DEF TypeOK, PerThread, NoRef, Refs, Somebody
    <3>2. \A t \in Threads : FirstContext(t) \in Contexts
      BY <1>0, <3>1 DEF FirstContext, FrameContexts, Somebody
    <3>3. \A c \in Contexts, q \in Seq(Nat), r \in Refs : [c EXCEPT !.held = q, !.ref = r] \in Contexts
      BY DEF Contexts
    <3> QED BY <3>1, <3>2, <3>3 DEF FlushedContext
  <2>2. \A t \in Threads : [th[t] EXCEPT !.frame = 0, !.result = 0, !.released = FALSE,
                                         !.ctx = FlushedContext(t)] \in PerThread
    BY <2>1, ThreadType DEF TypeOK
  <2>3. th' \in [Threads -> PerThread]
    BY <1>4, <2>2 DEF FlushThreads
  <2>4. lock' \in Locks
    BY <1>0, <1>4 DEF FlushThreads, Locks
  <2>5. user' \in Users
    BY <1>0, <1>4 DEF FlushThreads, Idle, Users
  <2>6. hist' \in Histories
    BY <1>0, <1>4, HistType DEF FlushThreads
  <2>7. fctx' \in FrameContexts /\ dec' \in Decoders
    BY <1>0, <1>4, Consts DEF FlushThreads, FrameContexts, Decoders, Somebody
  <2>8. complete' \subseteq Nat
    BY <1>4 DEF FlushThreads
  <2> QED BY <1>4, <2>3, <2>4, <2>5, <2>6, <2>7, <2>8 DEF FlushThreads, TypeOK, Locks, FrameContexts, Decoders
<1>5. CASE FreeThreads
  <2>1. user' \in Users
    BY <1>0, <1>5, UserType DEF FreeThreads
  <2>2. lock' \in Locks
    BY <1>0, <1>5 DEF FreeThreads, Locks
  <2> QED BY <1>5, <2>1, <2>2 DEF FreeThreads, TypeOK, Locks
<1>6. CASE Kill
  <2>1. user.i \in Threads /\ th[user.i] \in PerThread
    BY <1>6, Indices DEF Kill, TypeOK
  <2>2. [th[user.i] EXCEPT !.die = TRUE] \in PerThread
    BY <2>1, ThreadType
  <2>3. th' = [th EXCEPT ![user.i] = [th[user.i] EXCEPT !.die = TRUE]]
    BY <1>6 DEF Kill
  <2>4. th' \in [Threads -> PerThread] /\ asleep' \in [0 .. N -> Conditions]
    BY <1>6, <2>1, <2>2, <2>3, SetType, SleepType DEF Kill
  <2>5. user' \in Users
    BY <1>0, <1>6, UserType DEF Kill, Goes
  <2> QED BY <1>6, <2>4, <2>5 DEF Kill, TypeOK
<1>7. CASE Join
  <2>1. user.i \in Threads /\ th[user.i] \in PerThread /\ user.i + 1 \in 0 .. N
    BY <1>7, Indices, Consts DEF Join, TypeOK, Threads
  <2>2. [th[user.i] EXCEPT !.released = FALSE] \in PerThread
    BY <2>1, ThreadType
  <2>3. th' = [th EXCEPT ![user.i] = [th[user.i] EXCEPT !.released = FALSE]]
    BY <1>7 DEF Join
  <2>4. th' \in [Threads -> PerThread]
    BY <2>1, <2>2, <2>3, SetType
  <2>5. user' = [user EXCEPT !.at = IF user.i + 1 = N THEN "closed" ELSE "kill", !.i = user.i + 1]
    BY <1>7 DEF Join
  <2>6. user' \in Users
    BY <1>0, <2>1, <2>5, UserType
  <2> QED BY <1>7, <2>4, <2>6 DEF Join, TypeOK
<1> QED BY <1>1, <1>2, <1>3, <1>4, <1>5, <1>6, <1>7

(* A step of a worker keeps the types, and touches its own thread only. *)
LEMMA WorkerTypes ==
  ASSUME TypeOK, NEW t \in Threads, WorkerStep(t)
  PROVE  /\ TypeOK'
         /\ UNCHANGED <<opt, user, fctx, dec>>
         /\ \A u \in Threads \ {t} : th'[u] = th[u] /\ worker'[u] = worker[u]
         /\ th'[t].pkt = th[t].pkt /\ th'[t].die = th[t].die
         /\ hist'.given = hist.given /\ hist'.flushed = hist.flushed
         /\ hist'.returned = hist.returned /\ hist.dropped \subseteq hist'.dropped
         /\ complete \subseteq complete'
<1> DEFINE Own == /\ UNCHANGED <<opt, user, fctx, dec>>
                  /\ \A u \in Threads \ {t} : th'[u] = th[u] /\ worker'[u] = worker[u]
                  /\ th'[t].pkt = th[t].pkt /\ th'[t].die = th[t].die
                  /\ hist'.given = hist.given /\ hist'.flushed = hist.flushed
                  /\ hist'.returned = hist.returned /\ hist.dropped \subseteq hist'.dropped
                  /\ complete \subseteq complete'
           W == BeforeSetup \cup {"wait", "exited", "rows", "endAsync", "end", "unlock", "ready"}
<1> SUFFICES TypeOK' /\ Own
  OBVIOUS
<1>0. /\ th[t] \in PerThread /\ worker \in [Threads -> W] /\ th \in [Threads -> PerThread]
      /\ hist \in Histories /\ lock \in Locks /\ complete \subseteq Nat /\ t \in Somebody
      /\ th[t].pkt \in Nat /\ th[t].ctx \in Contexts
  BY DEF TypeOK, Locks, PerThread, Somebody
<1>a. /\ {"begin", "decode", "format", "buffer", "setup", "async", "wait", "exited", "rows", "endAsync",
          "end", "unlock", "ready"} = W
  BY DEF BeforeSetup
<1> HIDE DEF W
<1>b. ASSUME NEW p \in W, WorkerGoes(t, p)
      PROVE  worker' \in [Threads -> W] /\ \A u \in Threads \ {t} : worker'[u] = worker[u]
  BY <1>0, <1>b DEF WorkerGoes
<1>c. ASSUME NEW r \in PerThread, th' = [th EXCEPT ![t] = r]
      PROVE  th' \in [Threads -> PerThread] /\ \A u \in Threads \ {t} : th'[u] = th[u]
  BY <1>0, <1>c
<1>d. ASSUME SetupEnds(t)
      PROVE  /\ th' \in [Threads -> PerThread] /\ asleep' \in [0 .. N -> Conditions]
             /\ \A u \in Threads \ {t} : th'[u] = th[u]
             /\ th'[t].pkt = th[t].pkt /\ th'[t].die = th[t].die
  BY <1>0, <1>d, SetupEndsType DEF SetupEnds, PerThread
<1>e. ASSUME NEW r \in Results, NEW d \in SUBSET Nat, Fails(t, r, d)
      PROVE  /\ th' \in [Threads -> PerThread] /\ hist' \in Histories
             /\ \A u \in Threads \ {t} : th'[u] = th[u]
             /\ th'[t].pkt = th[t].pkt /\ th'[t].die = th[t].die
             /\ hist'.given = hist.given /\ hist'.flushed = hist.flushed
             /\ hist'.returned = hist.returned /\ hist.dropped \subseteq hist'.dropped
  BY <1>0, <1>e, FailsType DEF Fails, Failed, PerThread, Histories
<1>f. \A v \in {"ready", "setup", "buffer", "format", "finished"} :
        /\ [th[t] EXCEPT !.state = v] \in PerThread
        /\ [th[t] EXCEPT !.state = v, !.frame = 0] \in PerThread
  BY <1>0, ThreadType
<1>1. CASE AwaitPacket(t)
  <2>1. worker' = worker \/ WorkerGoes(t, "exited") \/ WorkerGoes(t, "begin")
    BY <1>1 DEF AwaitPacket
  <2>2. worker' \in [Threads -> W] /\ \A u \in Threads \ {t} : worker'[u] = worker[u]
    BY <1>0, <1>a, <1>b, <2>1
  <2>3. asleep' = asleep \/ Sleeps(t, Input(t))
    BY <1>1 DEF AwaitPacket
  <2>4. asleep' \in [0 .. N -> Conditions]
    BY <2>3, SleepType DEF TypeOK
  <2> QED BY <1>1, <2>2, <2>4 DEF AwaitPacket, TypeOK, W
<1>2. CASE Begin(t)
  <2>1. worker' \in [Threads -> W] /\ \A u \in Threads \ {t} : worker'[u] = worker[u]
    BY <1>2, <1>a, <1>b DEF Begin
  <2>2. SetupEnds(t) \/ UNCHANGED <<th, asleep>>
    BY <1>2 DEF Begin
  <2>3. /\ th' \in [Threads -> PerThread] /\ asleep' \in [0 .. N -> Conditions]
        /\ \A u \in Threads \ {t} : th'[u] = th[u]
        /\ th'[t].pkt = th[t].pkt /\ th'[t].die = th[t].die
    BY <1>d, <2>2 DEF TypeOK
  <2>4. lock' \in Locks
    BY <1>0, <1>2 DEF Begin, Locks
  <2> QED BY <1>2, <2>1, <2>3, <2>4 DEF Begin, TypeOK, W, Locks
<1>3. CASE DecodeEmpty(t)
  <2>1. worker' \in [Threads -> W] /\ \A u \in Threads \ {t} : worker'[u] = worker[u]
    BY <1>3, <1>a, <1>b DEF DecodeEmpty
  <2>2. th[t].ctx.held \in Seq(Nat)
    BY <1>0 DEF Contexts
  <2>3. Oldest(th[t].ctx.held) \in Nat
    BY <2>2 DEF Oldest
  <2>4. (IF th[t].ctx.held = <<>> THEN th[t].ctx.held ELSE Tail(th[t].ctx.held)) \in Seq(Nat)
    BY <2>2
  <2>5. PICK r \in PerThread : th' = [th EXCEPT ![t] = r] /\ r.pkt = th[t].pkt /\ r.die = th[t].die
    <3>1. CASE th' = [th EXCEPT ![t].frame = Oldest(th[t].ctx.held), ![t].result = 0,
                         ![t].ctx.held = IF @ = <<>> THEN @ ELSE Tail(@)]
      <4> DEFINE q == IF th[t].ctx.held = <<>> THEN th[t].ctx.held ELSE Tail(th[t].ctx.held)
                 r == [th[t] EXCEPT !.frame = Oldest(th[t].ctx.held), !.result = 0, !.ctx.held = q]
      <4>1. r \in PerThread
        BY <1>0, <2>3, <2>4, ThreadType
      <4>2. th' = [th EXCEPT ![t] = r]
        BY <3>1
      <4>3. r.pkt = th[t].pkt /\ r.die = th[t].die
        BY <1>0 DEF PerThread
      <4> QED BY <4>1, <4>2, <4>3
    <3>2. CASE th' = [th EXCEPT ![t].frame = 0, ![t].result = -1]
      <4> DEFINE r == [th[t] EXCEPT !.frame = 0, !.result = -1]
      <4>1. 0 \in Nat /\ -1 \in {0, -1}
        OBVIOUS
      <4>2. r \in PerThread
        BY <1>0, <4>1, ThreadType
      <4>3. r.pkt = th[t].pkt /\ r.die = th[t].die
        BY <1>0 DEF PerThread
      <4> QED BY <3>2, <4>2, <4>3
    <3> QED BY <1>3, <3>1, <3>2 DEF DecodeEmpty
  <2> QED BY <1>0, <1>3, <1>c, <2>1, <2>5 DEF DecodeEmpty, TypeOK, W
<1>4. CASE DecodeNothing(t)
  <2>1. worker' \in [Threads -> W] /\ \A u \in Threads \ {t} : worker'[u] = worker[u]
    BY <1>4, <1>a, <1>b DEF DecodeNothing
  <2>2. PICK r \in Results : Fails(t, r, {th[t].pkt})
    BY <1>4 DEF DecodeNothing
  <2>3. {th[t].pkt} \in SUBSET Nat
    BY <1>0
  <2> QED BY <1>4, <1>e, <2>1, <2>2, <2>3 DEF DecodeNothing, TypeOK, W
<1>5. CASE GetFormat(t)
  <2>1. worker' = worker \/ WorkerGoes(t, "format")
    BY <1>5 DEF GetFormat
  <2>2. worker' \in [Threads -> W] /\ \A u \in Threads \ {t} : worker'[u] = worker[u]
    BY <1>0, <1>a, <1>b, <2>1
  <2>3. asleep' \in [0 .. N -> Conditions]
    <3>1. Awake \in Conditions /\ Progress(t) \in Conditions /\ asleep \in [0 .. N -> Conditions]
      BY DEF TypeOK, Awake, Progress, Conditions, Somebody
    <3> QED BY <1>5, <3>1 DEF GetFormat
  <2>4. PICK r \in PerThread : th' = [th EXCEPT ![t] = r] /\ r.pkt = th[t].pkt /\ r.die = th[t].die
    <3>1. [th[t] EXCEPT !.state = "format"] \in PerThread /\ [th[t] EXCEPT !.ctx.format = TRUE] \in PerThread
      BY <1>0, ThreadType
    <3>2. \/ th' = [th EXCEPT ![t] = [th[t] EXCEPT !.state = "format"]]
          \/ th' = [th EXCEPT ![t] = [th[t] EXCEPT !.ctx.format = TRUE]]
      BY <1>5 DEF GetFormat
    <3> QED BY <1>0, <3>1, <3>2 DEF PerThread
  <2> QED BY <1>0, <1>5, <1>c, <2>2, <2>3, <2>4 DEF GetFormat, TypeOK, W
<1>6. CASE GotFormat(t)
  <2>1. worker' \in [Threads -> W] /\ \A u \in Threads \ {t} : worker'[u] = worker[u]
    BY <1>6, <1>a, <1>b DEF GotFormat
  <2>2. [th[t] EXCEPT !.ctx.format = TRUE] \in PerThread
    BY <1>0, ThreadType
  <2>3. th' = [th EXCEPT ![t] = [th[t] EXCEPT !.ctx.format = TRUE]]
    BY <1>6 DEF GotFormat
  <2>4. th'[t].pkt = th[t].pkt /\ th'[t].die = th[t].die
    BY <1>0, <2>3 DEF PerThread
  <2> QED BY <1>0, <1>6, <1>c, <2>1, <2>2, <2>3, <2>4 DEF GotFormat, TypeOK, W
<1>7. CASE GetBuffer(t)
  <2>1. CASE opt.own
    <3>1. worker' \in [Threads -> W] /\ \A u \in Threads \ {t} : worker'[u] = worker[u]
      BY <1>7, <1>a, <1>b, <2>1 DEF GetBuffer
    <3>2. asleep' \in [0 .. N -> Conditions]
      <4>1. Awake \in Conditions /\ Progress(t) \in Conditions /\ asleep \in [0 .. N -> Conditions]
        BY DEF TypeOK, Awake, Progress, Conditions, Somebody
      <4> QED BY <1>7, <2>1, <4>1 DEF GetBuffer
    <3>3. th' = [th EXCEPT ![t] = [th[t] EXCEPT !.state = "buffer"]]
      BY <1>7, <2>1 DEF GetBuffer
    <3>4. th'[t].pkt = th[t].pkt /\ th'[t].die = th[t].die
      BY <1>0, <3>3 DEF PerThread
    <3>5. lock' \in Locks
      BY <1>0, <1>7, <2>1 DEF GetBuffer, Locks
    <3> QED BY <1>0, <1>7, <1>c, <1>f, <2>1, <3>1, <3>2, <3>3, <3>4, <3>5 DEF GetBuffer, TypeOK, W, Locks
  <2>2. CASE ~opt.own /\ WorkerGoes(t, "setup") /\ UNCHANGED <<th, hist>>
    <3>1. worker' \in [Threads -> W] /\ \A u \in Threads \ {t} : worker'[u] = worker[u]
      BY <2>2, <1>a, <1>b
    <3> QED BY <1>0, <1>7, <2>2, <3>1 DEF GetBuffer, TypeOK, W
  <2>3. CASE ~opt.own /\ CanFail /\ Fails(t, -1, {th[t].pkt}) /\ WorkerGoes(t, "end")
    <3>1. worker' \in [Threads -> W] /\ \A u \in Threads \ {t} : worker'[u] = worker[u]
      BY <2>3, <1>a, <1>b
    <3>2. {th[t].pkt} \in SUBSET Nat /\ -1 \in Results
      BY <1>0, <2>3 DEF Results
    <3> QED BY <1>0, <1>7, <1>e, <2>3, <3>1, <3>2 DEF GetBuffer, TypeOK, W
  <2> QED BY <1>7, <2>1, <2>2, <2>3 DEF GetBuffer
<1>8. CASE GotBuffer(t)
  <2> DEFINE v == IF opt.update THEN th[t].state ELSE "finished"
             p == IF th[t].result < 0 THEN "end" ELSE "setup"
  <2>1. WorkerGoes(t, p) /\ p \in W
    BY <1>8, <1>a DEF GotBuffer
  <2>2. worker' \in [Threads -> W] /\ \A u \in Threads \ {t} : worker'[u] = worker[u]
    BY <1>b, <2>1
  <2>3. v \in {"ready", "setup", "buffer", "format", "finished"}
    BY <1>0 DEF PerThread
  <2>4. th' = [th EXCEPT ![t] = [th[t] EXCEPT !.state = v, !.frame = 0]]
    BY <1>8 DEF GotBuffer
  <2>5. [th[t] EXCEPT !.state = v, !.frame = 0] \in PerThread
    BY <1>f, <2>3
  <2>6. th'[t].pkt = th[t].pkt /\ th'[t].die = th[t].die
    BY <1>0, <2>4 DEF PerThread
  <2>7. asleep' \in [0 .. N -> Conditions]
    BY <1>8, SleepType DEF GotBuffer, TypeOK
  <2>8. lock' \in Locks
    BY <1>0, <1>8 DEF GotBuffer, Locks, Somebody
  <2>9. /\ hist' \in Histories /\ hist'.given = hist.given /\ hist'.flushed = hist.flushed
        /\ hist'.returned = hist.returned /\ hist.dropped \subseteq hist'.dropped
    <3>1. hist' = hist \/ hist' = [hist EXCEPT !.fails = @ - 0, !.dropped = @ \cup {th[t].pkt}]
      BY <1>8 DEF GotBuffer, Failed
    <3>2. {th[t].pkt} \in SUBSET Nat
      BY <1>0
    <3>3. hist' \in Histories
      BY <1>0, <3>1, <3>2, HistType
    <3> QED BY <1>0, <3>1, <3>3 DEF Histories
  <2> HIDE DEF v, p
  <2>10. th' \in [Threads -> PerThread] /\ \A u \in Threads \ {t} : th'[u] = th[u]
    BY <1>c, <2>4, <2>5
  <2> QED BY <1>8, <2>2, <2>6, <2>7, <2>8, <2>9, <2>10 DEF GotBuffer, TypeOK, W, Locks
<1>9. CASE SetUp(t)
  <2> DEFINE f == IF Shows(t) THEN Head(Held(t)) ELSE 0
             q == IF Shows(t) THEN Tail(Held(t)) ELSE Held(t)
             x == th[t].ctx.ref
             y == IF opt.update THEN ThisFrame(t) ELSE NoRef
             b == opt.own /\ th[t].ctx.ref # NoRef
             v == IF HasHw(t) \/ ~opt.update THEN th[t].state ELSE "finished"
  <2>1. Held(t) \in Seq(Nat) /\ Held(t) # <<>>
    <3>1. th[t].ctx.held \in Seq(Nat)
      BY <1>0 DEF Contexts
    <3> QED BY <1>0, <3>1 DEF Held
  <2>2. f \in Nat /\ q \in Seq(Nat)
    BY <2>1
  <2>3. x \in Refs /\ y \in Refs
    BY <1>0 DEF Contexts, Refs, ThisFrame, NoRef, Somebody
  <2>4. b \in BOOLEAN /\ v \in {"ready", "setup", "buffer", "format", "finished"}
    BY <1>0, OptionIs DEF PerThread
  <2>5. th' = [th EXCEPT ![t] = [th[t] EXCEPT !.frame = f, !.ctx.held = q, !.needs = x, !.ctx.ref = y,
                                              !.released = b, !.result = 0, !.state = v]]
    <3>1. th' = [th EXCEPT ![t].frame = f, ![t].ctx.held = q, ![t].needs = x, ![t].ctx.ref = y,
                           ![t].released = b, ![t].result = 0,
                           ![t].state = IF HasHw(t) \/ ~opt.update THEN @ ELSE "finished"]
      BY <1>9, Zenon DEF SetUp
    <3>2. t \in DOMAIN th
      BY <1>0
    <3> HIDE DEF f, q, x, y, b
    <3> QED BY <1>0, <3>1, <3>2 DEF PerThread, v
  <2> HIDE DEF f, q, x, y, b, v
  <2>6. [th[t] EXCEPT !.frame = f, !.ctx.held = q, !.needs = x, !.ctx.ref = y,
                      !.released = b, !.result = 0, !.state = v] \in PerThread
    BY <1>0, <2>2, <2>3, <2>4, ThreadType
  <2>7. th'[t].pkt = th[t].pkt /\ th'[t].die = th[t].die
    BY <1>0, <2>5 DEF PerThread
  <2>8. worker' = [worker EXCEPT ![t] = "async"] \/ worker' = [worker EXCEPT ![t] = "rows"]
    BY <1>9 DEF SetUp
  <2>9. worker' \in [Threads -> W] /\ \A u \in Threads \ {t} : worker'[u] = worker[u]
    BY <1>0, <1>a, <2>8
  <2>10. asleep' \in [0 .. N -> Conditions]
    BY <1>9, SleepType DEF SetUp, TypeOK
  <2>11. lock' \in Locks
    BY <1>0, <1>9 DEF SetUp, Locks
  <2>12. th' \in [Threads -> PerThread] /\ \A u \in Threads \ {t} : th'[u] = th[u]
    BY <1>c, <2>5, <2>6
  <2> QED BY <1>9, <2>7, <2>9, <2>10, <2>11, <2>12 DEF SetUp, TypeOK, W, Locks
<1>10. CASE SerialSetup(t)
  <2>1. CASE opt.hw = "serial" /\ AsyncTaken
    <3>1. asleep' \in [0 .. N -> Conditions]
      BY <1>10, <2>1, SleepType DEF SerialSetup
    <3> QED BY <1>10, <2>1, <3>1 DEF SerialSetup, TypeOK
  <2>2. CASE ~(opt.hw = "serial" /\ AsyncTaken)
    <3>1. SetupEnds(t) /\ (WorkerGoes(t, "rows") \/ WorkerGoes(t, "unlock"))
      BY <1>10, <2>2 DEF SerialSetup
    <3>2. worker' \in [Threads -> W] /\ \A u \in Threads \ {t} : worker'[u] = worker[u]
      BY <1>a, <1>b, <3>1
    <3>3. lock' \in Locks
      BY <1>0, <1>10, <2>2 DEF SerialSetup, Locks, Somebody
    <3> QED BY <1>10, <1>d, <3>1, <3>2, <3>3 DEF SerialSetup, TypeOK, W, Locks
  <2> QED BY <2>1, <2>2
<1>11. CASE DecodeRows(t)
  <2> DEFINE ref == th[t].needs
  <2>0. ref \in Refs
    BY <1>0 DEF PerThread
  <2>1. CASE ref # NoRef /\ ref.no \notin complete
    <3>1. Sleeps(t, Progress(ref.owner)) /\ UNCHANGED <<th, worker, complete>>
      BY <1>11, <2>1 DEF DecodeRows
    <3>2. Progress(ref.owner) \in Conditions
      BY <2>0 DEF Progress, Conditions, Refs
    <3>3. asleep' \in [0 .. N -> Conditions]
      BY <3>1, <3>2 DEF Sleeps, TypeOK
    <3> QED BY <1>11, <3>1, <3>3 DEF DecodeRows, TypeOK
  <2>2. CASE ~(ref # NoRef /\ ref.no \notin complete)
    <3>1. /\ complete' = complete \cup {th[t].pkt} /\ th' = [th EXCEPT ![t] = [th[t] EXCEPT !.needs = NoRef]]
          /\ Wake({Progress(t)}) /\ WorkerGoes(t, "end")
      BY <1>11, <2>2 DEF DecodeRows, Reported
    <3>2. NoRef \in Refs
      BY DEF NoRef, Refs, Somebody
    <3>3. [th[t] EXCEPT !.needs = NoRef] \in PerThread
      BY <1>0, <3>2, ThreadType
    <3>4. th' \in [Threads -> PerThread] /\ \A u \in Threads \ {t} : th'[u] = th[u]
      BY <1>c, <3>1, <3>3
    <3>5. th'[t].pkt = th[t].pkt /\ th'[t].die = th[t].die
      BY <1>0, <3>1 DEF PerThread
    <3>6. worker' \in [Threads -> W] /\ \A u \in Threads \ {t} : worker'[u] = worker[u]
      BY <1>a, <1>b, <3>1
    <3>7. asleep' \in [0 .. N -> Conditions]
      BY <3>1, SleepType
    <3>8. complete' \subseteq Nat /\ complete \subseteq complete'
      BY <1>0, <3>1
    <3> QED BY <1>11, <3>4, <3>5, <3>6, <3>7, <3>8 DEF DecodeRows, TypeOK, W
  <2> QED BY <2>1, <2>2
<1>12. CASE End(t)
  <2>1. WorkerGoes(t, "unlock") \/ WorkerGoes(t, "ready") \/ WorkerGoes(t, "endAsync")
    BY <1>12 DEF End, AfterDecode
  <2>2. worker' \in [Threads -> W] /\ \A u \in Threads \ {t} : worker'[u] = worker[u]
    BY <1>a, <1>b, <2>1
  <2>3. SetupEnds(t) \/ UNCHANGED <<th, asleep>>
    BY <1>12 DEF End
  <2>4. /\ th' \in [Threads -> PerThread] /\ asleep' \in [0 .. N -> Conditions]
        /\ \A u \in Threads \ {t} : th'[u] = th[u]
        /\ th'[t].pkt = th[t].pkt /\ th'[t].die = th[t].die
    BY <1>d, <2>3 DEF TypeOK
  <2>5. lock' \in Locks
    BY <1>0, <1>12 DEF End, Locks
  <2> QED BY <1>12, <2>2, <2>4, <2>5 DEF End, TypeOK, W, Locks
<1>13. CASE Unlock(t)
  <2>1. worker' \in [Threads -> W] /\ \A u \in Threads \ {t} : worker'[u] = worker[u]
    BY <1>13, <1>a, <1>b DEF Unlock
  <2>2. asleep' \in [0 .. N -> Conditions]
    BY <1>13, SleepType DEF Unlock, TypeOK
  <2>3. lock' \in Locks
    BY <1>0, <1>13 DEF Unlock, Locks, Somebody
  <2> QED BY <1>13, <2>1, <2>2, <2>3 DEF Unlock, TypeOK, W, Locks
<1>14. CASE Ready(t)
  <2>1. worker' \in [Threads -> W] /\ \A u \in Threads \ {t} : worker'[u] = worker[u]
    BY <1>14, <1>a, <1>b DEF Ready
  <2>2. th' = [th EXCEPT ![t] = [th[t] EXCEPT !.state = "ready"]]
    BY <1>14 DEF Ready
  <2>3. th' \in [Threads -> PerThread] /\ \A u \in Threads \ {t} : th'[u] = th[u]
    BY <1>c, <1>f, <2>2
  <2>4. th'[t].pkt = th[t].pkt /\ th'[t].die = th[t].die
    BY <1>0, <2>2 DEF PerThread
  <2>5. asleep' \in [0 .. N -> Conditions]
    BY <1>14, SleepType DEF Ready
  <2> QED BY <1>14, <2>1, <2>3, <2>4, <2>5 DEF Ready, TypeOK, W
<1> QED BY <1>1, <1>2, <1>3, <1>4, <1>5, <1>6, <1>7, <1>8, <1>9, <1>10, <1>11, <1>12, <1>13, <1>14
        DEF WorkerStep

-----------------------------------------------------------------------------
(* The thread of a step goes on as the code says. *)
LEMMA WorkerMachine ==
  ASSUME TypeOK, NEW t \in Threads, WorkerStep(t), \A u \in Threads : Machine(u)
  PROVE  \A u \in Threads : Machine(u)'
<1>0. /\ TypeOK' /\ UNCHANGED <<opt, user, fctx>>
      /\ \A u \in Threads \ {t} : th'[u] = th[u] /\ worker'[u] = worker[u]
      /\ th'[t].pkt = th[t].pkt /\ th'[t].die = th[t].die
  BY WorkerTypes
<1>1. ASSUME NEW u \in Threads \ {t} PROVE Machine(u)'
  BY <1>0 DEF Machine, InSetup, Asks, Current
<1>2. /\ th[t] \in PerThread /\ th'[t] \in PerThread /\ worker[t] \in BeforeSetup \cup
           {"wait", "exited", "rows", "endAsync", "end", "unlock", "ready"}
      /\ t \in DOMAIN th /\ t \in DOMAIN worker
  BY <1>0 DEF TypeOK
<1>3. Machine(t) /\ opt.own \in BOOLEAN /\ opt.update \in BOOLEAN
  BY OptionIs
<1> USE DEF Machine, InSetup, Asks, Current, BeforeSetup, WorkerGoes, Runs, SettingUp
<1>a. ASSUME SetupEnds(t) PROVE th'[t].state = "finished"
  BY <1>a, <1>2 DEF SetupEnds, PerThread
<1>4. CASE AwaitPacket(t)
  BY <1>0, <1>2, <1>3, <1>4 DEF AwaitPacket
<1>5. CASE Begin(t)
  BY <1>0, <1>2, <1>3, <1>5, <1>a DEF Begin
<1>6. CASE DecodeEmpty(t)
  <2>1. th'[t].state = th[t].state
    BY <1>2, <1>6 DEF DecodeEmpty, PerThread
  <2> QED BY <1>0, <1>2, <1>3, <1>6, <2>1 DEF DecodeEmpty
<1>7. CASE DecodeNothing(t)
  <2>1. th'[t].state = th[t].state
    BY <1>2, <1>7 DEF DecodeNothing, Fails, PerThread
  <2> QED BY <1>0, <1>2, <1>3, <1>7, <2>1 DEF DecodeNothing
<1>8. CASE GetFormat(t)
  <2>1. th'[t].state = IF opt.own THEN "format" ELSE th[t].state
    BY <1>2, <1>8 DEF GetFormat, PerThread
  <2> QED BY <1>0, <1>2, <1>3, <1>8, <2>1 DEF GetFormat
<1>9. CASE GotFormat(t)
  <2>1. th'[t].state = th[t].state
    BY <1>2, <1>9 DEF GotFormat, PerThread
  <2> QED BY <1>0, <1>2, <1>3, <1>9, <2>1 DEF GotFormat
<1>10. CASE GetBuffer(t)
  <2>1. th'[t].state = IF opt.own THEN "buffer" ELSE th[t].state
    BY <1>2, <1>10 DEF GetBuffer, Fails, PerThread
  <2> QED BY <1>0, <1>2, <1>3, <1>10, <2>1 DEF GetBuffer
<1>11. CASE GotBuffer(t)
  <2>1. th'[t].state = IF opt.update THEN th[t].state ELSE "finished"
    BY <1>2, <1>11 DEF GotBuffer, PerThread
  <2>2. worker[t] = "buffer" /\ th[t].state = "setup" /\ worker'[t] \in {"end", "setup"}
    BY <1>2, <1>11 DEF GotBuffer
  <2> QED BY <1>0, <1>3, <2>1, <2>2
<1>12. CASE SetUp(t)
  <2>1. th'[t].state = IF HasHw(t) \/ ~opt.update THEN th[t].state ELSE "finished"
    BY <1>2, <1>12, Zenon DEF SetUp, PerThread
  <2>2. worker'[t] = IF HasHw(t) THEN "async" ELSE "rows"
    BY <1>2, <1>12 DEF SetUp
  <2>3. HasHw(t) => opt.update
    BY OptionIs DEF HasHw
  <2>4. worker[t] = "setup"
    BY <1>12 DEF SetUp
  <2> QED BY <1>0, <1>3, <2>1, <2>2, <2>3, <2>4
<1>13. CASE SerialSetup(t)
  <2>1. \/ th'[t] = th[t] /\ worker'[t] = worker[t]
        \/ th'[t].state = "finished" /\ worker'[t] \in {"rows", "unlock"}
    BY <1>2, <1>13, <1>a DEF SerialSetup
  <2> QED BY <1>0, <1>2, <1>3, <1>13, <2>1 DEF SerialSetup
<1>14. CASE DecodeRows(t)
  <2>1. th'[t].state = th[t].state
    BY <1>2, <1>14 DEF DecodeRows, PerThread
  <2> QED BY <1>0, <1>2, <1>3, <1>14, <2>1 DEF DecodeRows
<1>15. CASE End(t)
  <2>1. \/ th'[t] = th[t] /\ worker'[t] \in {"unlock", "ready", "endAsync"}
        \/ th'[t].state = "finished" /\ worker'[t] = "ready"
    BY <1>2, <1>15, <1>a DEF End, AfterDecode
  <2> QED BY <1>0, <1>2, <1>3, <1>15, <2>1 DEF End
<1>16. CASE Unlock(t)
  BY <1>0, <1>2, <1>3, <1>16 DEF Unlock
<1>17. CASE Ready(t)
  <2>1. th'[t].state = "ready"
    BY <1>2, <1>17 DEF Ready, PerThread
  <2> QED BY <1>0, <1>2, <1>3, <1>17, <2>1 DEF Ready
<1>18. Machine(t)'
  BY <1>4, <1>5, <1>6, <1>7, <1>8, <1>9, <1>10, <1>11, <1>12, <1>13, <1>14, <1>15, <1>16, <1>17
     DEF WorkerStep
<1> QED BY <1>1, <1>18

(* A worker that has nothing to do does nothing. *)
LEMMA AtRest ==
  ASSUME TypeOK, NEW t \in Threads, WorkerStep(t), Machine(t),
         worker[t] = "wait" \/ th[t].state = "ready"
  PROVE  AwaitPacket(t) /\ th' = th /\ ~CallerHas(t)
<1>1. worker[t] \in {"wait", "exited"}
  BY DEF Machine
<1>2. AwaitPacket(t)
  BY <1>1 DEF WorkerStep, Begin, DecodeEmpty, DecodeNothing, GetFormat, GotFormat, GetBuffer, GotBuffer,
              SetUp, SerialSetup, DecodeRows, End, Unlock, Ready, Runs
<1> QED BY <1>2 DEF AwaitPacket

LEMMA WorkerRing ==
  ASSUME TypeOK, NEW t \in Threads, WorkerStep(t), \A u \in Threads : Machine(u), Ring
  PROVE  Ring'
<1>1. /\ UNCHANGED <<opt, user, fctx, dec>>
      /\ \A u \in Threads \ {t} : th'[u] = th[u] /\ worker'[u] = worker[u]
  BY WorkerTypes
<1>2. \A u \in Threads : th[u].state = "ready" => th'[u] = th[u]
  BY <1>1, AtRest
<1>3. user.at = "copy" => worker'[Current] = "wait"
  <2>1. user.at = "copy" => Current \in Threads /\ worker[Current] = "wait"
    BY Indices DEF Ring
  <2>2. user.at = "copy" => Current # t
    BY <2>1, AtRest DEF CallerHas
  <2> QED BY <1>1, <2>1, <2>2
<1>4. Where' = Where /\ Span' = Span /\ Current' = Current
  BY <1>1 DEF Where, Span, Off, Current
<1>5. \A u \in Threads : Out(u)' = Out(u)
  BY <1>1, <1>4 DEF Out, Off
<1>6. \A u \in Threads : Spent(u) => Spent(u)'
  BY <1>2 DEF Spent
<1> QED BY <1>1, <1>2, <1>3, <1>4, <1>5, <1>6 DEF Ring

(* The caller moves no worker, and no thread into its setup but the one it   *)
(* starts.                                                                   *)
LEMMA UserMachine ==
  ASSUME TypeOK, TypeOK', Ring, \A t \in Threads : Machine(t),
         NewCall \/ UserStep
  PROVE  \A t \in Threads : Machine(t)'
<1> SUFFICES ASSUME NEW t \in Threads PROVE Machine(t)'
  OBVIOUS
<1>0. /\ th[t] \in PerThread /\ th'[t] \in PerThread /\ t \in DOMAIN th /\ Machine(t)
      /\ user \in Users /\ "at" \in DOMAIN user /\ opt.own \in BOOLEAN
      /\ DOMAIN th = Threads /\ \A u \in Threads : th[u] \in PerThread
  BY OptionIs DEF TypeOK, Users
<1>1. worker' = worker /\ opt' = opt
  BY DEF NewCall, SendPacket, Drain, Flush, Close, Stop, UserStep, SubmitNothing, LockThread, AwaitSetup,
         CopyContext, CopyFails, CallBack, Collect, Return, Park, FlushThreads, FreeThreads, Kill, Join
<1> DEFINE Same == /\ th'[t].state = th[t].state /\ th'[t].pkt = th[t].pkt /\ th'[t].die = th[t].die
                   /\ UNCHANGED <<worker, opt>>
<1> USE DEF Machine, InSetup, Asks, Ending, NewCall
<1>2. CASE SendPacket \/ Drain \/ Flush \/ Close
  <2>1. Same /\ user.at = "idle"
    BY <1>1, <1>2 DEF SendPacket, Drain, Flush, Close, Stop
  <2> QED BY <1>0, <2>1
<1>3. CASE SubmitNothing \/ CopyFails
  <2>1. Same /\ user.at \in {"submit", "copy"}
    BY <1>1, <1>3 DEF SubmitNothing, CopyFails
  <2> QED BY <1>0, <2>1
<1>4. CASE LockThread
  <2>1. Same /\ user.at = "submit"
    BY <1>0, <1>1, <1>4 DEF LockThread, PerThread
  <2> QED BY <1>0, <2>1
<1>5. CASE AwaitSetup
  <2>1. Same /\ user.at = "copy" /\ user' = user
    BY <1>1, <1>5 DEF AwaitSetup
  <2> QED BY <1>0, <2>1
<1>6. CASE CopyContext
  <2>1. Current \in Threads /\ worker[Current] = "wait" /\ user.at = "copy"
    BY <1>6, Indices DEF CopyContext, Ring
  <2>2. CASE t # Current
    <3>1. Same
      BY <1>0, <1>1, <1>6, <2>2 DEF CopyContext
    <3> QED BY <1>0, <2>1, <3>1
  <2>3. CASE t = Current
    <3>1. th'[t].state = "setup" /\ th'[t].die = th[t].die
      BY <1>0, <1>6, <2>3 DEF CopyContext, PerThread
    <3>2. opt.own => user'.at = "callback" /\ Current' = Current
      BY <1>0, <1>6 DEF CopyContext, Goes, Current, Users
    <3> QED BY <1>0, <1>1, <2>1, <2>3, <3>1, <3>2 DEF BeforeSetup
  <2> QED BY <2>2, <2>3
<1>7. CASE CallBack
  <2>1. Current \in Threads /\ user.at = "callback"
    BY <1>7, Indices DEF CallBack
  <2>2. CASE SettingUp(Current) /\ UNCHANGED <<user, fctx, th, hist>>
    <3>1. Same
      BY <1>1, <2>2
    <3> QED BY <1>0, <2>1, <2>2, <3>1 DEF Current
  <2>3. CASE /\ Asks(Current)
             /\ \E r \in (IF th[Current].state = "buffer" THEN Results ELSE {0}) :
                  th' = [th EXCEPT ![Current].state = "setup", ![Current].result = r]
             /\ UNCHANGED <<user, fctx>>
    <3>1. PICK r : th' = [th EXCEPT ![Current].state = "setup", ![Current].result = r]
      BY <2>3
    <3>2. CASE t # Current
      <4>1. Same
        BY <1>0, <1>1, <3>1, <3>2
      <4> QED BY <1>0, <2>1, <2>3, <4>1 DEF Current
    <3>3. CASE t = Current
      <4>1. th'[t].state = "setup" /\ th'[t].die = th[t].die /\ th'[t].pkt = th[t].pkt
        BY <1>0, <3>1, <3>3 DEF PerThread
      <4>2. worker[t] \notin {"wait", "exited"}
        BY <1>0, <2>1, <2>3, <3>3
      <4>3. user' = user /\ fctx' = fctx
        BY <2>3
      <4> QED BY <1>0, <1>1, <2>1, <3>3, <4>1, <4>2, <4>3 DEF Current
    <3> QED BY <3>2, <3>3
  <2>4. CASE th[Current].state \in {"finished", "ready"} /\ UNCHANGED <<th, asleep, hist>>
    <3>1. Same
      BY <1>1, <2>4
    <3> QED BY <1>0, <2>1, <2>4, <3>1
  <2> QED BY <1>7, <2>2, <2>3, <2>4 DEF CallBack
<1>8. CASE Collect
  <2>1. Same /\ user.at = "collect"
    BY <1>0, <1>1, <1>8 DEF Collect, PerThread
  <2> QED BY <1>0, <2>1
<1>9. CASE Return
  <2>1. Same /\ user.at = "return"
    BY <1>1, <1>9 DEF Return
  <2> QED BY <1>0, <2>1
<1>10. CASE Park
  <2>1. Same /\ user.at \in {"flush", "free"}
    BY <1>0, <1>1, <1>10 DEF Park, PerThread
  <2> QED BY <1>0, <2>1
<1>11. CASE FlushThreads
  <2>1. Same /\ user.at = "flush"
    BY <1>0, <1>1, <1>11 DEF FlushThreads, PerThread
  <2> QED BY <1>0, <2>1
<1>12. CASE FreeThreads
  <2>1. Same /\ user.at = "free"
    BY <1>1, <1>12 DEF FreeThreads
  <2> QED BY <1>0, <2>1
<1>13. CASE Kill
  <2>1. th'[t].state = th[t].state /\ th'[t].pkt = th[t].pkt /\ (th[t].die => th'[t].die)
    BY <1>0, <1>13 DEF Kill, PerThread
  <2>2. user.at = "kill" /\ user'.at = "join"
    BY <1>0, <1>13 DEF Kill, Goes, Users
  <2> QED BY <1>0, <1>1, <2>1, <2>2
<1>14. CASE Join
  <2>1. Same /\ user.at = "join"
    BY <1>0, <1>1, <1>14 DEF Join, PerThread
  <2>2. user'.at \in {"closed", "kill"}
    BY <1>0, <1>14 DEF Join, Users
  <2> QED BY <1>0, <2>1, <2>2
<1> QED BY <1>2, <1>3, <1>4, <1>5, <1>6, <1>7, <1>8, <1>9, <1>10, <1>11, <1>12, <1>13, <1>14 DEF UserStep

-----------------------------------------------------------------------------
(* The places of the threads, counted from the one whose frame is due. *)
From(f, t) == IF t >= f THEN t - f ELSE t - f + N

LEMMA Turns ==
  ASSUME NEW f \in Threads, NEW t \in Threads
  PROVE  /\ From(f, t) \in 0 .. N - 1 /\ From(f, f) = 0
         /\ NextIndex(t) \in Threads
         /\ NextIndex(t) # f => From(f, NextIndex(t)) = From(f, t) + 1
         /\ NextIndex(t) = f <=> From(f, t) = N - 1
         /\ \A u \in Threads : From(f, u) = From(f, t) => u = t
         /\ \A u \in Threads : From(NextIndex(t), u) =
              IF From(f, u) > From(f, t) THEN From(f, u) - From(f, t) - 1
              ELSE From(f, u) + N - From(f, t) - 1
<1>1. f \in 0 .. N - 1 /\ t \in 0 .. N - 1 /\ N \in Nat \ {0, 1} /\ Threads = 0 .. N - 1
  BY Consts DEF Threads
<1>2. NextIndex(t) = IF t + 1 = N THEN 0 ELSE t + 1
  BY <1>1 DEF NextIndex
<1> QED BY <1>1, <1>2 DEF From

LEMMA OffIs ==
  ASSUME TypeOK, Ring
  PROVE  /\ fctx.finished \in Threads /\ Where \in Threads
         /\ user.at # "collect" => Where = Current
         /\ \A t \in Threads : Off(t) = From(fctx.finished, t)
         /\ user.at # "collect" => Span = Off(Where)
         /\ Span \in 0 .. N
<1>1. fctx.finished \in Threads /\ fctx.decoding \in 0 .. N
  BY DEF TypeOK
<1>2. Where \in Threads
  BY <1>1, Consts DEF Where, Threads
<1>3. \A t \in Threads : Off(t) = From(fctx.finished, t)
  BY DEF Off, From
<1>4. Off(Where) \in 0 .. N - 1
  BY <1>1, <1>2, <1>3, Turns
<1>5. Span \in 0 .. N
  BY <1>4, Consts DEF Span
<1> QED BY <1>1, <1>2, <1>3, <1>5 DEF Where, Current, Span, Ring

(* A packet is handed over: its thread is the last of those that have one. *)
LEMMA SubmittedRing ==
  ASSUME TypeOK, Ring, user.at \in {"copy", "callback"}, Submitted(Current + 1, Current),
         dec' = dec, worker' = worker, \A t \in Threads \ {Current} : th'[t] = th[t]
  PROVE  /\ Ring' /\ fctx'.finished = fctx.finished
         /\ \A t \in Threads : Off(t)' = Off(t)
         /\ user'.at \in {"return", "collect"} /\ user'.pkt = user.pkt
         /\ user'.got = user.got /\ fctx'.prev = Current /\ Latest' = Current
         /\ user'.at = "return" => user.pkt # 0
         /\ user'.at = "collect" => user'.i = fctx.finished
<1> DEFINE c == Current
           f == fctx.finished
<1>1. /\ c \in Threads /\ f \in Threads /\ c = fctx.decoding /\ c \in 0 .. N - 1
      /\ user \in Users /\ fctx \in FrameContexts /\ N \in Nat \ {0, 1} /\ Early \in {0, 1}
      /\ c # Nobody
  BY Indices, Consts DEF Current, TypeOK, FrameContexts
<1>2. /\ fctx'.decoding = c + 1 /\ fctx'.prev = c /\ fctx'.delaying = Delaying(c + 1)
      /\ fctx'.finished = f
  BY <1>1 DEF Submitted, FrameContexts
<1>3. /\ user'.at = IF ReturnsNone(c + 1) THEN "return" ELSE "collect"
      /\ user'.i = f /\ user'.pkt = user.pkt /\ user'.got = user.got
  BY <1>1 DEF Submitted, Users
<1>4. Where' = NextIndex(c) /\ NextIndex(c) = IF c + 1 = N THEN 0 ELSE c + 1
  BY <1>1, <1>2, Indices DEF Where
<1>5. \A t \in Threads : Off(t)' = From(f, t) /\ Off(t) = From(f, t)
  BY <1>2 DEF Off, From
<1>6. Span = From(f, c)
  BY <1>1, <1>5, OffIs
<1>7. ReturnsNone(c + 1) => f = 0 /\ c + 1 <= N - 1 /\ c + 1 \in Threads /\ user.pkt # 0
  BY <1>1 DEF ReturnsNone, Delaying, Ring, Calling, Threads
<1>8. \A t \in Threads : From(f, t) <= From(f, c) => Out(t)'
  <2> SUFFICES ASSUME NEW t \in Threads, From(f, t) <= From(f, c) PROVE Out(t)'
    OBVIOUS
  <2>1. From(f, t) \in 0 .. N - 1 /\ From(f, f) = 0 /\ From(f, c) \in 0 .. N - 1 /\ NextIndex(c) \in Threads
    BY <1>1, Turns
  <2>2. CASE ~ReturnsNone(c + 1)
    <3>1. user'.at = "collect"
      BY <1>3, <2>2
    <3>2. CASE NextIndex(c) = f
      <4>1. Span' = N
        BY <1>2, <1>4, <3>1, <3>2 DEF Span
      <4> QED BY <1>1, <1>3, <1>5, <2>1, <3>1, <4>1 DEF Out
    <3>3. CASE NextIndex(c) # f
      <4>1. From(f, NextIndex(c)) = From(f, c) + 1
        BY <1>1, <3>3, Turns
      <4>2. PICK w \in Threads : w = NextIndex(c)
        BY <2>1
      <4>3. Span' = Off(w)'
        BY <1>2, <1>4, <3>1, <3>3, <4>2 DEF Span, Off
      <4>4. Span' = From(f, c) + 1
        BY <1>5, <4>1, <4>2, <4>3
      <4> QED BY <1>1, <1>3, <1>5, <2>1, <3>1, <4>4 DEF Out
    <3> QED BY <3>2, <3>3
  <2>3. CASE ReturnsNone(c + 1)
    <3>1. user'.at = "return" /\ f = 0 /\ c + 1 \in Threads /\ c + 1 <= N - 1
      BY <1>3, <1>7, <2>3
    <3>2. Where' = c + 1
      BY <1>1, <1>4, <3>1
    <3>3. PICK w \in Threads : w = c + 1
      BY <3>1
    <3>4. Span' = From(f, c + 1)
      <4>1. Span' = Off(w)'
        BY <3>1, <3>2, <3>3 DEF Span, Off
      <4> QED BY <1>5, <3>3, <4>1
    <3>5. From(f, c + 1) = c + 1 /\ From(f, c) = c
      BY <1>1, <3>1 DEF From
    <3>6. Off(t)' < Span'
      BY <1>1, <1>5, <2>1, <3>4, <3>5
    <3> QED BY <3>1, <3>6 DEF Out
  <2> QED BY <2>2, <2>3
<1>9. \A t \in Threads : Out(t)' \/ Spent(t)'
  <2> SUFFICES ASSUME NEW t \in Threads PROVE Out(t)' \/ Spent(t)'
    OBVIOUS
  <2>1. CASE t = c
    BY <1>1, <1>8, <2>1, Turns
  <2>2. CASE t # c
    <3>1. Out(t) \/ Spent(t)
      BY DEF Ring, Active, Calling
    <3>2. Spent(t) => Spent(t)'
      BY <2>2 DEF Spent
    <3>3. Out(t) => Off(t) < Span
      BY <2>2 DEF Out
    <3>4. Out(t) => From(f, t) <= From(f, c)
      BY <1>1, <1>5, <1>6, <3>3, Turns, SMTT(30)
    <3> QED BY <1>8, <3>1, <3>2, <3>4
  <2> QED BY <2>1, <2>2
<1>10. Latest' = c
  BY <1>2, <1>3 DEF Latest
<1>11. user'.pkt = 0 <=> dec'.draining
  BY <1>3 DEF Ring, Calling
<1>12. Ring'
  <2>1. fctx'.decoding = N => user'.at = "collect"
    BY <1>1, <1>2, <1>3, <1>7
  <2>2. fctx'.prev # Nobody /\ Where' = IF fctx'.prev + 1 = N THEN 0 ELSE fctx'.prev + 1
    BY <1>1, <1>2, <1>4
  <2>3. fctx'.delaying /\ ~dec'.draining => fctx'.finished = 0
    BY <1>2 DEF Delaying, Ring
  <2>4. user'.at = "collect" /\ user'.pkt # 0 => ~fctx'.delaying
    BY <1>2, <1>3 DEF ReturnsNone
  <2>5. user'.at \in {"return", "collect"} /\ user'.i \in Threads
    BY <1>1, <1>3
  <2> QED BY <1>9, <1>11, <2>1, <2>2, <2>3, <2>4, <2>5 DEF Ring
<1> QED BY <1>2, <1>3, <1>5, <1>7, <1>10, <1>12

(* What the caller takes from a thread that is done. *)
LEMMA CollectIs ==
  ASSUME TypeOK, Ring, Collect, NEW c \in Threads, c = user.i, ~Pending(c)
  PROVE  /\ th[c].state = "ready" /\ user.at = "collect"
         /\ \A u \in Threads \ {c} : th'[u] = th[u]
         /\ th'[c].frame = 0 /\ th'[c].result = 0 /\ th'[c].state = "ready"
         /\ th'[c].pkt = th[c].pkt /\ th'[c].ctx = th[c].ctx
         /\ UNCHANGED <<opt, dec, worker, lock, complete, hist, asleep>>
         /\ user'.got = th[c].frame /\ user'.err = th[c].result /\ user'.pkt = user.pkt
         /\ user'.i = NextIndex(c)
         /\ user'.at = IF GoesOn(c, NextIndex(c)) THEN "collect" ELSE "return"
         /\ fctx'.prev = fctx.prev /\ fctx'.delaying = fctx.delaying
         /\ GoesOn(c, NextIndex(c)) => fctx' = fctx
         /\ ~GoesOn(c, NextIndex(c)) => fctx'.decoding = Where /\ fctx'.finished = NextIndex(c)
<1> DEFINE i == NextIndex(c)
<1>1. /\ th \in [Threads -> PerThread] /\ th[c] \in PerThread /\ c \in DOMAIN th
      /\ user \in Users /\ fctx \in FrameContexts
  BY DEF TypeOK, FrameContexts
<1>2. /\ th' = [th EXCEPT ![c].frame = 0, ![c].result = 0]
      /\ user' = [user EXCEPT !.got = th[c].frame, !.err = th[c].result, !.i = i,
                              !.at = IF GoesOn(c, i) THEN "collect" ELSE "return"]
      /\ fctx' = IF GoesOn(c, i) THEN fctx
                 ELSE [fctx EXCEPT !.decoding = @ % N, !.finished = i]
      /\ UNCHANGED <<opt, dec, worker, lock, complete, hist, asleep>>
  BY DEF Collect
<1>3. th[c].state = "ready"
  BY DEF Pending
<1>4. fctx.decoding % N = Where
  <2>1. fctx.decoding \in 0 .. N
    BY <1>1 DEF FrameContexts
  <2> QED BY <2>1, Consts DEF Where
<1> HIDE DEF i
<1>5. \A u \in Threads \ {c} : th'[u] = th[u]
  BY <1>1, <1>2
<1>6. th'[c] = [th[c] EXCEPT !.frame = 0, !.result = 0]
  BY <1>1, <1>2, Zenon
<1>7. /\ th'[c].frame = 0 /\ th'[c].result = 0 /\ th'[c].state = "ready"
      /\ th'[c].pkt = th[c].pkt /\ th'[c].ctx = th[c].ctx
  BY <1>1, <1>3, <1>6 DEF PerThread
<1>8. /\ user'.got = th[c].frame /\ user'.err = th[c].result /\ user'.pkt = user.pkt
      /\ user'.i = i /\ user'.at = IF GoesOn(c, i) THEN "collect" ELSE "return"
  BY <1>1, <1>2 DEF Users
<1>9. /\ fctx'.prev = fctx.prev /\ fctx'.delaying = fctx.delaying
      /\ GoesOn(c, i) => fctx' = fctx
      /\ ~GoesOn(c, i) => fctx'.decoding = Where /\ fctx'.finished = i
  BY <1>1, <1>2, <1>4 DEF FrameContexts
<1>10. user.at = "collect"
  BY DEF Collect
<1> QED BY <1>2, <1>3, <1>5, <1>7, <1>8, <1>9, <1>10 DEF i

(* The round goes on with the next thread, or the next one is now due. *)
LEMMA CollectRing ==
  ASSUME TypeOK, Ring, Collect, NEW c \in Threads, c = user.i, ~Pending(c)
  PROVE  /\ Ring' /\ Latest' = Latest /\ Spent(c)'
         /\ \A u \in Threads \ {c} : Spent(u) => Spent(u)'
         /\ \A u \in Threads \ {c} : Spent(u) \/ Off(u) > Off(c)
         /\ \E k \in Nat : \A u \in Threads : Spent(u)' \/ Off(u)' = Off(u) - k
         /\ user'.at = "return" /\ user'.pkt = 0 /\ user'.got = 0 /\ user'.err = 0
              => \A u \in Threads : Spent(u)'
<1> DEFINE i == NextIndex(c)
           f == fctx.finished
<1>0. /\ i \in Threads /\ f \in Threads /\ Where \in Threads
      /\ fctx.decoding \in 0 .. N /\ N \in Nat \ {0, 1}
      /\ fctx.prev \in Somebody
  BY Indices, OffIs, Consts DEF TypeOK
<1>1. /\ th[c].state = "ready" /\ user.at = "collect"
      /\ \A u \in Threads \ {c} : th'[u] = th[u]
      /\ th'[c].frame = 0 /\ th'[c].result = 0 /\ th'[c].state = "ready"
      /\ UNCHANGED <<opt, dec, worker>>
      /\ user'.got = th[c].frame /\ user'.err = th[c].result /\ user'.pkt = user.pkt
      /\ user'.i = i /\ user'.at = IF GoesOn(c, i) THEN "collect" ELSE "return"
      /\ fctx'.prev = fctx.prev /\ fctx'.delaying = fctx.delaying
      /\ GoesOn(c, i) => fctx' = fctx
      /\ ~GoesOn(c, i) => fctx'.decoding = Where /\ fctx'.finished = i
  BY CollectIs
<1>2. Latest' = Latest
  BY <1>1 DEF Latest
<1>3. /\ \A u \in Threads : Off(u) = From(f, u) /\ From(f, u) \in 0 .. N - 1
      /\ \A u \in Threads : From(f, u) = From(f, c) => u = c
      /\ i # f => From(f, i) = From(f, c) + 1
      /\ i = f <=> From(f, c) = N - 1
      /\ From(f, f) = 0
  <2>1. \A u \in Threads : From(f, u) = From(f, c) => u = c
    BY <1>0, Turns, ZenonT(40)
  <2>2. \A u \in Threads : From(f, u) \in 0 .. N - 1
    BY <1>0, Turns
  <2>3. /\ i # f => From(f, i) = From(f, c) + 1
        /\ i = f <=> From(f, c) = N - 1
        /\ From(f, f) = 0
    BY <1>0, Turns, ZenonT(40)
  <2> HIDE DEF i
  <2>4. \A u \in Threads : Off(u) = From(f, u)
    BY OffIs
  <2> QED BY <2>1, <2>2, <2>3, <2>4
<1>11. \A u \in Threads : From(i, u) = IF From(f, u) > From(f, c) THEN From(f, u) - From(f, c) - 1
                                       ELSE From(f, u) + N - From(f, c) - 1
  BY <1>0, Turns, ZenonT(40)
<1> HIDE DEF i, f
<1>4. Spent(c)' /\ \A u \in Threads \ {c} : Spent(u) => Spent(u)'
  BY <1>1 DEF Spent
<1>5. \A u \in Threads : Out(u) \/ Spent(u)
  BY <1>1 DEF Ring, Active, Calling
<1>6. \A u \in Threads \ {c} : Spent(u) \/ Off(u) > Off(c)
  <2> SUFFICES ASSUME NEW u \in Threads \ {c}, ~Spent(u) PROVE Off(u) > Off(c)
    OBVIOUS
  <2>1. Out(u)
    BY <1>5
  <2>2. Off(u) >= Off(c)
    BY <1>1, <2>1 DEF Out
  <2> QED BY <1>0, <1>3, <2>2
<1>7. CASE GoesOn(c, i)
  <2>1. user'.at = "collect" /\ fctx' = fctx /\ i # f /\ user.pkt = 0
    BY <1>1, <1>7 DEF GoesOn, f
  <2>2. Where' = Where /\ \A u \in Threads : Off(u)' = Off(u)
    BY <2>1 DEF Where, Off
  <2>3. Span' = Span
    BY <1>1, <2>1 DEF Span, Where, Off
  <2>4. PICK d \in Threads : d = i
    BY <1>0
  <2>5. \A u \in Threads : Off(u) < Span /\ Off(u) >= Off(d) => Out(u)'
    BY <1>1, <2>1, <2>2, <2>3, <2>4 DEF Out
  <2>6. \A u \in Threads : Out(u)' \/ Spent(u)'
    <3> SUFFICES ASSUME NEW u \in Threads, ~(Spent(u)') PROVE Out(u)'
      OBVIOUS
    <3>1. u # c /\ ~Spent(u)
      BY <1>4
    <3>2. Off(u) > Off(c) /\ Off(u) < Span
      BY <1>1, <1>5, <1>6, <3>1 DEF Out
    <3>3. Off(u) >= Off(d)
      BY <1>3, <2>1, <2>4, <3>2
    <3> QED BY <2>5, <3>2, <3>3
  <2>7. Ring'
    BY <1>0, <1>1, <2>1, <2>2, <2>6 DEF Ring
  <2>8. \A u \in Threads : Spent(u)' \/ Off(u)' = Off(u) - 0
    BY <1>3, <2>2
  <2> QED BY <1>2, <1>4, <1>6, <2>1, <2>7, <2>8
<1>8. CASE ~GoesOn(c, i)
  <2>1. user'.at = "return" /\ fctx'.decoding = Where /\ fctx'.finished = i
    BY <1>1, <1>8
  <2>2. Where' = Where
    BY <1>0, <2>1, Indices DEF Where
  <2>3. \A u \in Threads : Off(u)' = From(i, u)
    BY <2>1 DEF Off, From
  <2>4. PICK w \in Threads : w = Where
    BY <1>0
  <2>5. Span' = Off(w)'
    BY <2>1, <2>2, <2>4 DEF Span, Off
  <2>6. \A u \in Threads \ {c} : ~Spent(u) => Off(u)' = Off(u) - (From(f, c) + 1) /\ Off(u)' < Span'
    <3> SUFFICES ASSUME NEW u \in Threads \ {c}, ~Spent(u)
                 PROVE  Off(u)' = Off(u) - (From(f, c) + 1) /\ Off(u)' < Span'
      OBVIOUS
    <3>1. From(f, u) > From(f, c) /\ From(f, u) < Span
      BY <1>1, <1>3, <1>5, <1>6 DEF Out
    <3>2. Off(u)' = From(f, u) - From(f, c) - 1
      BY <1>11, <2>3, <3>1
    <3>3. CASE w = f
      <4>1. Span' = N - From(f, c) - 1
        BY <1>0, <1>3, <1>11, <2>3, <2>5, <3>3
      <4> QED BY <1>0, <1>3, <3>2, <4>1
    <3>4. CASE w # f
      <4>1. Span = From(f, w)
        BY <1>3, <2>4, <3>4 DEF Span, f
      <4>2. Span' = From(f, w) - From(f, c) - 1
        BY <1>3, <1>11, <2>3, <2>5, <3>1, <4>1
      <4> QED BY <1>0, <1>3, <3>1, <3>2, <4>1, <4>2
    <3> QED BY <3>3, <3>4
  <2>7. \A u \in Threads : Out(u)' \/ Spent(u)'
    BY <1>4, <2>1, <2>6 DEF Out
  <2>8. fctx'.delaying /\ ~dec'.draining => fctx'.finished = 0
    BY <1>1 DEF Ring, Calling
  <2>9. fctx'.prev = Nobody => fctx'.decoding = 0
    BY <1>0, <1>1, <2>1 DEF Ring, Where
  <2>10. fctx'.decoding # N
    BY <1>0, <2>1, Indices
  <2>11. Ring'
    BY <1>1, <2>1, <2>2, <2>7, <2>8, <2>9, <2>10 DEF Ring, Calling
  <2>12. \E k \in Nat : \A u \in Threads : Spent(u)' \/ Off(u)' = Off(u) - k
    <3>1. From(f, c) + 1 \in Nat
      BY <1>3
    <3>2. \A u \in Threads : Spent(u)' \/ Off(u)' = Off(u) - (From(f, c) + 1)
      BY <1>4, <2>6
    <3> QED BY <3>1, <3>2
  <2>13. user'.pkt = 0 /\ user'.got = 0 /\ user'.err = 0 => \A u \in Threads : Spent(u)'
    <3> SUFFICES ASSUME user'.pkt = 0, user'.got = 0, user'.err = 0, NEW u \in Threads, u # c
                 PROVE  Spent(u)'
      BY <1>4
    <3>1. i = f
      BY <1>1, <1>8 DEF GoesOn, f
    <3>2. From(f, c) = N - 1 /\ From(f, u) \in 0 .. N - 1
      BY <1>3, <3>1
    <3> QED BY <1>3, <1>4, <1>6, <3>2
  <2> QED BY <1>2, <1>4, <1>6, <2>11, <2>12, <2>13
<1> QED BY <1>7, <1>8

(* Steps of the caller that leave his place in the round alone. *)
LEMMA SameRound ==
  ASSUME TypeOK, Ring, fctx' = fctx, user.at # "collect", user'.at # "collect"
  PROVE  /\ fctx'.decoding # N
         /\ fctx'.prev = Nobody => fctx'.decoding = 0
         /\ fctx'.prev # Nobody => Where' = IF fctx'.prev + 1 = N THEN 0 ELSE fctx'.prev + 1
         /\ \A t \in Threads : Off(t)' = Off(t)
         /\ Span' = Span /\ Where' = Where
         /\ \A t \in Threads : Out(t) /\ user.at # "callback" => Out(t)'
         /\ \A t \in Threads : Out(t)' /\ user'.at # "callback" => Out(t)
<1>1. Where' = Where /\ \A t \in Threads : Off(t)' = Off(t)
  BY DEF Where, Off
<1>2. Span' = Span
  BY DEF Span, Where, Off
<1> QED BY <1>1, <1>2 DEF Ring, Out

LEMMA UserRing ==
  ASSUME TypeOK, Ring, \A t \in Threads : Machine(t), NewCall \/ UserStep
  PROVE  Ring'
<1> USE DEF NewCall
<1>0. /\ user \in Users /\ DOMAIN th = Threads /\ \A u \in Threads : th[u] \in PerThread
      /\ hist.given \in Nat /\ fctx \in FrameContexts /\ th \in [Threads -> PerThread]
      /\ N \in Nat \ {0, 1} /\ Nobody \notin Threads /\ 0 \in Threads
      /\ dec \in [draining : BOOLEAN, done : BOOLEAN, errors : Nat]
  BY Consts DEF TypeOK, Histories, FrameContexts
<1>1. CASE SendPacket
  <2>1. /\ user.at = "idle" /\ user'.at = "submit" /\ user'.pkt # 0 /\ ~dec.draining
        /\ UNCHANGED <<fctx, dec, th, worker>>
    BY <1>0, <1>1 DEF SendPacket, Users
  <2>2. \A t \in Threads : Out(t)' \/ Spent(t)'
    BY <2>1, SameRound DEF Ring, Active, Calling, Spent
  <2> QED BY <2>1, <2>2, SameRound DEF Ring
<1>2. CASE Drain
  <2>1. /\ user.at = "idle" /\ user'.at = "submit" /\ user'.pkt = 0 /\ dec'.draining
        /\ UNCHANGED <<fctx, th, worker>>
    BY <1>0, <1>2 DEF Drain, Users
  <2>2. \A t \in Threads : Out(t)' \/ Spent(t)'
    BY <2>1, SameRound DEF Ring, Active, Calling, Spent
  <2> QED BY <2>1, <2>2, SameRound DEF Ring
<1>3. CASE Flush \/ Close
  <2>1. /\ user.at = "idle" /\ user'.at \in {"flush", "free"} /\ user'.i = 0
        /\ UNCHANGED <<fctx, dec, th, worker>>
    BY <1>0, <1>3 DEF Flush, Close, Stop, Users
  <2>2. \A t \in Threads : ~(t < user'.i)
    BY <2>1, Indices
  <2> QED BY <2>1, <2>2, SameRound DEF Ring, Active, Calling
<1>4. CASE SubmitNothing
  <2>1. /\ user.at = "submit" /\ user.pkt = 0 /\ UNCHANGED <<dec, th, worker>>
        /\ fctx'.decoding = fctx.decoding /\ fctx'.prev = fctx.prev
        /\ fctx'.finished = fctx.finished /\ (fctx'.delaying => fctx.delaying)
        /\ user'.at = "collect" /\ user'.i = fctx.finished /\ user'.pkt = 0
    BY <1>0, <1>4 DEF SubmitNothing, Submitted, Users, FrameContexts, ReturnsNone, Delaying
  <2>2. Where' = Where /\ \A t \in Threads : Off(t)' = Off(t)
    BY <2>1 DEF Where, Off
  <2>3. PICK f \in Threads : f = fctx.finished
    BY OffIs
  <2>4. \A t \in Threads : Off(t) \in 0 .. N - 1 /\ Off(f) = 0
    BY <2>3, OffIs, Turns
  <2>5. PICK w \in Threads : w = Where
    BY OffIs
  <2>6. Span = Off(w) /\ Span' = IF w = f THEN N ELSE Off(w)
    <3>1. Off(w)' = Off(w)
      BY <2>2
    <3>2. Span' = IF w = f THEN N ELSE Off(w)'
      BY <2>1, <2>2, <2>3, <2>5 DEF Span, Off
    <3> QED BY <2>1, <2>5, <3>1, <3>2 DEF Span
  <2>7. \A t \in Threads : Off(t) < Span => Out(t)'
    <3> SUFFICES ASSUME NEW t \in Threads, Off(t) < Span PROVE Out(t)'
      OBVIOUS
    <3>1. Off(t) < Span' /\ Off(t) >= Off(f)
      BY <1>0, <2>4, <2>6
    <3>2. Off(t)' = Off(t) /\ Off(f)' = Off(f) /\ user'.i = f
      BY <2>1, <2>2, <2>3
    <3> QED BY <3>1, <3>2 DEF Out
  <2>8. \A t \in Threads : Out(t)' \/ Spent(t)'
    BY <2>1, <2>7 DEF Ring, Active, Calling, Spent, Out
  <2> QED BY <1>0, <2>1, <2>2, <2>8 DEF Ring, Calling, FrameContexts
<1>5. CASE LockThread
  <2>1. /\ user.at = "submit" /\ user'.at = "copy" /\ user'.pkt = user.pkt /\ worker[Current] = "wait"
        /\ UNCHANGED <<fctx, dec, worker>>
    <3>1. Current \in Threads /\ user.at = "submit" /\ MutexFree(Current)
      BY <1>5, Indices DEF LockThread
    <3>2. worker[Current] = "wait"
      BY <3>1 DEF MutexFree, Machine, Ending
    <3> QED BY <1>0, <1>5, <3>1, <3>2 DEF LockThread, Goes, Users
  <2>2. \A t \in Threads : /\ th'[t].state = th[t].state /\ th'[t].frame = th[t].frame
                           /\ th'[t].result = th[t].result
    BY <1>0, <1>5 DEF LockThread, PerThread
  <2>3. \A t \in Threads : Out(t)' \/ Spent(t)'
    BY <2>1, <2>2, SameRound DEF Ring, Active, Calling, Spent
  <2>4. worker'[Current'] = "wait"
    BY <2>1 DEF Current
  <2> QED BY <2>1, <2>3, <2>4, SameRound DEF Ring, Calling
<1>6. CASE AwaitSetup
  BY <1>6 DEF AwaitSetup, Ring, Where, Current, Out, Off, Span, Spent
<1>7. CASE CopyContext
  <2>1. /\ user.at = "copy" /\ Current \in Threads /\ UNCHANGED <<dec, worker>>
        /\ th' = [th EXCEPT ![Current].ctx = CopiedContext, ![Current].pkt = user.pkt,
                            ![Current].state = "setup"]
    BY <1>7, Indices DEF CopyContext
  <2>2. \A t \in Threads \ {Current} : th'[t] = th[t]
    BY <1>0, <2>1
  <2>3. CASE opt.own
    <3>1. user'.at = "callback" /\ user'.pkt = user.pkt /\ fctx' = fctx
      BY <1>0, <1>7, <2>3 DEF CopyContext, Goes, Users
    <3>2. \A t \in Threads : Out(t)' \/ Spent(t)'
      <4>1. ASSUME NEW t \in Threads, t # Current PROVE Out(t)' \/ Spent(t)'
        <5>1. Out(t) \/ Spent(t)
          BY <2>1 DEF Ring, Active, Calling
        <5>2. Spent(t) => Spent(t)'
          BY <2>2, <4>1 DEF Spent
        <5> QED BY <2>1, <3>1, <5>1, <5>2, SameRound
      <4>2. Current' = Current
        BY <3>1 DEF Current
      <4>3. \A t \in Threads : t = Current => Out(t)'
        BY <3>1, <4>2 DEF Out
      <4> QED BY <4>1, <4>3
    <3> QED BY <2>1, <3>1, <3>2, SameRound DEF Ring, Calling
  <2>4. CASE ~opt.own
    BY <1>7, <2>1, <2>2, <2>4, SubmittedRing DEF CopyContext
  <2> QED BY <2>3, <2>4
<1>8. CASE CopyFails
  <2>1. /\ user.at = "copy" /\ user'.at = "return" /\ user'.pkt = user.pkt
        /\ UNCHANGED <<fctx, dec, th, worker>>
    BY <1>0, <1>8 DEF CopyFails, Users
  <2>2. \A t \in Threads : Out(t)' \/ Spent(t)'
    BY <2>1, SameRound DEF Ring, Active, Calling, Spent
  <2> QED BY <2>1, <2>2, SameRound DEF Ring, Calling
<1>9. CASE CallBack
  <2>1. user.at = "callback" /\ Current \in Threads /\ UNCHANGED <<dec, worker>>
    BY <1>9, Indices DEF CallBack
  <2>2. CASE UNCHANGED <<user, fctx, th>>
    BY <2>1, <2>2 DEF Ring, Where, Current, Out, Off, Span, Spent
  <2>3. CASE /\ \E r \in (IF th[Current].state = "buffer" THEN Results ELSE {0}) :
                  th' = [th EXCEPT ![Current].state = "setup", ![Current].result = r]
             /\ UNCHANGED <<user, fctx>>
    <3>1. \A t \in Threads \ {Current} : th'[t] = th[t]
      BY <1>0, <2>3
    <3>2. \A t \in Threads : Out(t)' <=> Out(t)
      BY <2>3 DEF Out, Off, Span, Where, Current
    <3>3. \A t \in Threads : Out(t)' \/ Spent(t)'
      BY <2>1, <3>1, <3>2 DEF Ring, Active, Calling, Spent, Out
    <3> QED BY <2>1, <2>3, <3>3 DEF Ring, Where, Current
  <2>4. CASE Submitted(Current + 1, Current) /\ UNCHANGED <<th, asleep, hist>>
    BY <2>1, <2>4, SubmittedRing
  <2> QED BY <1>9, <2>2, <2>3, <2>4 DEF CallBack
<1>10. CASE Collect
  <2>1. CASE Pending(user.i)
    <3>1. UNCHANGED <<user, fctx, th, dec, worker>>
      BY <1>10, <2>1 DEF Collect
    <3> QED BY <3>1 DEF Ring, Where, Current, Out, Off, Span, Spent
  <2>2. CASE ~Pending(user.i)
    <3>1. PICK c \in Threads : c = user.i
      BY <1>10, Indices DEF Collect
    <3> QED BY <1>10, <2>2, <3>1, CollectRing
  <2> QED BY <2>1, <2>2
<1>11. CASE Return
  <2>1. CASE UNCHANGED <<user, dec>>
    BY <1>11, <2>1 DEF Return, Ring, Where, Current, Out, Off, Span, Spent
  <2>2. CASE user' = Idle /\ dec' = AfterCall
    <3>1. /\ user.at = "return" /\ user'.at = "idle" /\ dec'.draining = dec.draining
          /\ UNCHANGED <<fctx, th, worker>>
      BY <1>0, <1>11, <2>2 DEF Return, Idle, AfterCall
    <3>2. \A t \in Threads : Out(t)' \/ Spent(t)'
      BY <3>1, SameRound DEF Ring, Active, Calling, Spent
    <3> QED BY <3>1, <3>2, SameRound DEF Ring, Calling
  <2> QED BY <1>11, <2>1, <2>2 DEF Return
<1>12. CASE Park
  <2>1. /\ user.at \in {"flush", "free"} /\ user'.at = user.at /\ user.i \in Threads
        /\ UNCHANGED <<fctx, dec, worker>>
        /\ \A t \in Threads : th'[t].state = th[t].state
    BY <1>0, <1>12, Indices DEF Park, Users, PerThread
  <2>2. user'.i = user.i \/ (user'.i = user.i + 1 /\ th[user.i].state = "ready")
    <3>1. user' = user \/ (user' = [user EXCEPT !.i = @ + 1] /\ th[user.i].state = "ready")
      <4>1. CASE th[user.i].state # "ready"
        BY <1>12, <4>1 DEF Park
      <4>2. CASE th[user.i].state = "ready"
        BY <1>12, <4>2, Zenon DEF Park
      <4> QED BY <4>1, <4>2
    <3> QED BY <1>0, <3>1 DEF Users
  <2>3. \A t \in Threads : t < user'.i => th'[t].state = "ready"
    BY <2>1, <2>2, Indices DEF Ring
  <2> QED BY <2>1, <2>3, SameRound DEF Ring, Calling, Active
<1>13. CASE FlushThreads
  <2>1. /\ fctx'.decoding = 0 /\ fctx'.prev = Nobody /\ fctx'.finished = 0 /\ user'.at = "idle"
    BY <1>13 DEF FlushThreads, Idle
  <2>2. \A t \in Threads : th[t].state = "ready"
    <3>1. user.at = "flush" /\ user.i = N
      BY <1>13 DEF FlushThreads, Parked
    <3>2. \A t \in Threads : t < user.i
      BY <1>0, <3>1, Indices
    <3> QED BY <3>1, <3>2 DEF Ring
  <2>3. \A t \in Threads : Spent(t)'
    BY <1>0, <1>13, <2>2 DEF FlushThreads, Spent, PerThread
  <2> QED BY <1>0, <2>1, <2>3 DEF Ring, Calling
<1>14. CASE FreeThreads
  <2>1. /\ user.at = "free" /\ user'.at = "kill" /\ user'.i = 0 /\ UNCHANGED <<fctx, dec, th, worker>>
    BY <1>0, <1>14 DEF FreeThreads, Users
  <2> QED BY <1>0, <2>1, SameRound DEF Ring, Calling, Active
<1>15. CASE Kill
  <2>1. /\ user.at = "kill" /\ user'.at = "join" /\ user'.i = user.i /\ UNCHANGED <<fctx, dec, worker>>
    BY <1>0, <1>15 DEF Kill, Goes, Users
  <2> QED BY <1>0, <2>1, SameRound DEF Ring, Calling, Active
<1>16. CASE Join
  <2>1. /\ user.at = "join" /\ user'.at = IF user.i + 1 = N THEN "closed" ELSE "kill"
        /\ user'.i = user.i + 1 /\ UNCHANGED <<fctx, dec, worker>>
    BY <1>0, <1>16 DEF Join, Users
  <2>2. user.i \in Threads /\ (user.i + 1 # N => user.i + 1 \in Threads)
    BY <1>0, <2>1, Indices DEF Threads
  <2> QED BY <1>0, <2>1, <2>2, SameRound DEF Ring, Calling, Active
<1> QED BY <1>1, <1>2, <1>3, <1>4, <1>5, <1>6, <1>7, <1>8, <1>9, <1>10, <1>11, <1>12, <1>13,
           <1>14, <1>15, <1>16 DEF UserStep

-----------------------------------------------------------------------------
(* The packets and frames.  A thread that is spent has none of them, and so  *)
(* do all threads after the one used last.                                   *)
LEMMA SpentItem ==
  ASSUME NEW t \in Threads, Machine(t), Spent(t)
  PROVE  Item(t) = 0 /\ ~Undecided(t) /\ worker[t] \in {"wait", "exited"}
BY DEF Machine, Spent, Item, Undecided

LEMMA BeyondLatest ==
  ASSUME TypeOK, Ring, user.at \in Active, Latest # Nobody
  PROVE  Latest \in Threads /\ \A u \in Threads : Off(u) > Off(Latest) => Spent(u)
<1>0. /\ N \in Nat \ {0, 1} /\ fctx.finished \in Threads /\ Where \in Threads /\ fctx.prev \in Somebody
      /\ \A t \in Threads : Off(t) = From(fctx.finished, t) /\ Off(t) \in 0 .. N - 1
      /\ \A t \in Threads : Out(t) \/ Spent(t)
  BY Consts, OffIs, Turns DEF TypeOK, Ring
<1>1. CASE user.at = "callback"
  <2>1. Latest = Current /\ Current \in Threads /\ Where = Current /\ Span = Off(Current)
    BY <1>1, Indices, OffIs DEF Latest, Ring
  <2>2. \A u \in Threads : Out(u) => Off(u) <= Off(Current)
    BY <1>0, <1>1, <2>1 DEF Out
  <2> QED BY <1>0, <2>1, <2>2
<1>2. CASE user.at # "callback"
  <2>1. PICK p \in Threads : p = fctx.prev /\ Latest = p /\ p # Nobody
    BY <1>0, <1>2, Consts DEF Latest, Somebody
  <2>2. NextIndex(p) = Where
    BY <2>1, Indices DEF Ring
  <2>3. CASE Where = fctx.finished
    <3>1. Off(p) = N - 1
      BY <1>0, <2>1, <2>2, <2>3, Turns
    <3> QED BY <1>0, <2>1, <3>1
  <2>4. CASE Where # fctx.finished
    <3>1. Off(NextIndex(p)) = Off(p) + 1
      <4>1. From(fctx.finished, NextIndex(p)) = From(fctx.finished, p) + 1
        BY <1>0, <2>2, <2>4, Turns
      <4> QED BY <1>0, <2>2, <4>1
    <3>2. Span = Off(Where)
      BY <2>4 DEF Span
    <3>3. \A u \in Threads : Out(u) => Off(u) < Off(p) + 1
      BY <1>2, <2>2, <3>1, <3>2 DEF Out
    <3> QED BY <1>0, <2>1, <3>3
  <2> QED BY <2>3, <2>4
<1> QED BY <1>1, <1>2

(* What the step of a worker makes of its packet. *)
Quiet(t) ==
  /\ user.at \in Active => (Undecided(t)' <=> Undecided(t))
  /\ th'[t].frame = th[t].frame \/ (Undecided(t) /\ th'[t].frame = 0)
  /\ th'[t].ctx.held = th[t].ctx.held /\ th'[t].result = th[t].result
  /\ hist' = hist
Decided(t) == Undecided(t) /\ ~Undecided(t)'
Takes(t) ==
  /\ Decided(t) /\ th[t].pkt = 0 /\ hist' = hist
  /\ \/ /\ th'[t].frame = Oldest(th[t].ctx.held)
        /\ th'[t].ctx.held = IF th[t].ctx.held = <<>> THEN <<>> ELSE Tail(th[t].ctx.held)
     \/ /\ th'[t].frame = 0 /\ th'[t].result # 0
        /\ th'[t].ctx.held = th[t].ctx.held
Drops(t) ==
  /\ Decided(t) /\ th[t].pkt # 0 /\ th'[t].frame = 0
  /\ th'[t].ctx.held = th[t].ctx.held
  /\ hist'.dropped = hist.dropped \cup {th[t].pkt}
Keeps(t) ==
  /\ Decided(t) /\ th[t].pkt # 0 /\ hist' = hist
  /\ th'[t].frame = (IF Shows(t) THEN Head(Held(t)) ELSE 0)
  /\ th'[t].ctx.held = (IF Shows(t) THEN Tail(Held(t)) ELSE Held(t))
  /\ worker'[t] \in {"async", "rows"}

LEMMA TakenFields ==
  ASSUME NEW r \in PerThread, NEW f, NEW q
  PROVE  /\ [r EXCEPT !.frame = f, !.result = 0, !.ctx.held = q].frame = f
         /\ [r EXCEPT !.frame = f, !.result = 0, !.ctx.held = q].ctx.held = q
BY DEF PerThread, Contexts

LEMMA WorkerKinds ==
  ASSUME TypeOK, NEW t \in Threads, WorkerStep(t), Machine(t)
  PROVE  /\ Quiet(t) \/ Takes(t) \/ Drops(t) \/ Keeps(t)
         /\ worker[t] \in {"async", "rows"}
              => worker'[t] \in {"async", "rows"} \/ th[t].pkt \in complete'
<1> DEFINE Going == worker[t] \in {"async", "rows"}
                      => worker'[t] \in {"async", "rows"} \/ th[t].pkt \in complete'
           Goal == Going /\ (Quiet(t) \/ Takes(t) \/ Drops(t) \/ Keeps(t))
<1>0. /\ th[t] \in PerThread /\ t \in DOMAIN th /\ t \in DOMAIN worker
      /\ th \in [Threads -> PerThread] /\ DOMAIN worker = Threads
  BY DEF TypeOK
<1>1. CASE AwaitPacket(t)
  <2>1. UNCHANGED <<th, hist>> /\ worker[t] = "wait"
    BY <1>1 DEF AwaitPacket, Runs
  <2>2. \/ th[t].die /\ worker'[t] = "exited"
        \/ th[t].state = "ready" /\ worker'[t] = "wait"
        \/ th[t].state # "ready" /\ worker'[t] = "begin"
    BY <1>0, <1>1, <2>1 DEF AwaitPacket, WorkerGoes
  <2>3. user.at \in Active => (Undecided(t)' <=> Undecided(t))
    BY <2>1, <2>2 DEF Undecided, Machine, Active, Calling, Ending
  <2> QED BY <2>1, <2>3 DEF Quiet
<1>2. CASE Begin(t)
  <2>1. th'[t] = th[t] \/ th'[t] = [th[t] EXCEPT !.state = "finished"]
    BY <1>0, <1>2, Zenon DEF Begin, SetupEnds
  <2>2. hist' = hist /\ worker[t] = "begin" /\ worker'[t] = "decode"
    BY <1>0, <1>2 DEF Begin, Runs, WorkerGoes
  <2> QED BY <1>0, <2>1, <2>2 DEF Quiet, Undecided, PerThread
<1>3. CASE DecodeEmpty(t)
  <2>1. worker[t] = "decode" /\ worker'[t] = "end" /\ th[t].pkt = 0 /\ hist' = hist
    BY <1>0, <1>3 DEF DecodeEmpty, Runs, WorkerGoes
  <2>2. \/ th'[t] = [th[t] EXCEPT !.frame = Oldest(th[t].ctx.held), !.result = 0,
                                  !.ctx.held = IF @ = <<>> THEN @ ELSE Tail(@)]
        \/ th'[t] = [th[t] EXCEPT !.frame = 0, !.result = -1]
    BY <1>0, <1>3, Zenon DEF DecodeEmpty
  <2>3. /\ th'[t].frame = Oldest(th[t].ctx.held)
        /\ th'[t].ctx.held = IF th[t].ctx.held = <<>> THEN <<>> ELSE Tail(th[t].ctx.held)
     \/ /\ th'[t].frame = 0 /\ th'[t].result # 0
        /\ th'[t].ctx.held = th[t].ctx.held
    <3>1. CASE th'[t] = [th[t] EXCEPT !.frame = 0, !.result = -1]
      BY <1>0, <3>1 DEF PerThread
    <3>2. CASE th'[t] = [th[t] EXCEPT !.frame = Oldest(th[t].ctx.held), !.result = 0,
                                      !.ctx.held = IF @ = <<>> THEN @ ELSE Tail(@)]
      <4> DEFINE f == Oldest(th[t].ctx.held)
                 q == IF th[t].ctx.held = <<>> THEN <<>> ELSE Tail(th[t].ctx.held)
      <4>1. q = IF th[t].ctx.held = <<>> THEN th[t].ctx.held ELSE Tail(th[t].ctx.held)
        OBVIOUS
      <4>2. th'[t] = [th[t] EXCEPT !.frame = f, !.result = 0, !.ctx.held = q]
        BY <3>2, <4>1, Zenon
      <4> HIDE DEF f, q
      <4>3. th'[t].frame = f /\ th'[t].ctx.held = q
        BY <1>0, <4>2, TakenFields
      <4> QED BY <4>3 DEF f, q
    <3> QED BY <2>2, <3>1, <3>2
  <2> QED BY <2>1, <2>3 DEF Takes, Decided, Undecided
<1>4. CASE DecodeNothing(t)
  <2>1. worker[t] = "decode" /\ worker'[t] = "end" /\ th[t].pkt # 0
    BY <1>0, <1>4 DEF DecodeNothing, Runs, WorkerGoes
  <2>2. PICK r \in Results : Fails(t, r, {th[t].pkt})
    BY <1>4 DEF DecodeNothing
  <2>3. th'[t] = [th[t] EXCEPT !.frame = 0, !.result = r]
    BY <1>0, <2>2, Zenon DEF Fails
  <2>4. th'[t].frame = 0 /\ th'[t].ctx.held = th[t].ctx.held
    BY <1>0, <2>3 DEF PerThread
  <2>5. hist'.dropped = hist.dropped \cup {th[t].pkt}
    BY <2>2 DEF Fails, Failed, TypeOK, Histories
  <2> QED BY <2>1, <2>4, <2>5 DEF Drops, Decided, Undecided
<1>5. CASE GetFormat(t)
  <2>1. th'[t] = [th[t] EXCEPT !.state = "format"] \/ th'[t] = [th[t] EXCEPT !.ctx.format = TRUE]
    BY <1>0, <1>5, Zenon DEF GetFormat
  <2>3. /\ th'[t].frame = th[t].frame /\ th'[t].ctx.held = th[t].ctx.held
        /\ th'[t].result = th[t].result
    BY <1>0, <2>1, ZenonT(40) DEF PerThread, Contexts
  <2>2. hist' = hist /\ worker[t] = "decode" /\ worker'[t] \in {"decode", "format"}
    <3>1. hist' = hist /\ worker[t] = "decode"
      BY <1>5 DEF GetFormat, Runs
    <3>2. worker' = worker \/ worker' = [worker EXCEPT ![t] = "format"]
      BY <1>5, Zenon DEF GetFormat, WorkerGoes
    <3> QED BY <1>0, <3>1, <3>2
  <2> QED BY <2>2, <2>3 DEF Quiet, Undecided
<1>6. CASE GotFormat(t)
  <2>1. th'[t] = [th[t] EXCEPT !.ctx.format = TRUE]
    BY <1>0, <1>6, Zenon DEF GotFormat
  <2>2. hist' = hist /\ worker[t] = "format" /\ worker'[t] = "decode"
    BY <1>0, <1>6 DEF GotFormat, Runs, WorkerGoes
  <2> QED BY <1>0, <2>1, <2>2 DEF Quiet, Undecided, PerThread, Contexts
<1>7. CASE GetBuffer(t)
  <2>1. worker[t] = "decode" /\ th[t].pkt # 0
    BY <1>7 DEF GetBuffer, Runs
  <2>2. CASE th'[t] = [th[t] EXCEPT !.state = "buffer"] /\ hist' = hist /\ worker'[t] = "buffer"
    BY <1>0, <2>1, <2>2 DEF Quiet, Undecided, PerThread
  <2>3. CASE th' = th /\ hist' = hist /\ worker'[t] = "setup"
    BY <1>0, <2>1, <2>3 DEF Quiet, Undecided
  <2>4. CASE Fails(t, -1, {th[t].pkt}) /\ worker'[t] = "end"
    <3>1. th'[t] = [th[t] EXCEPT !.frame = 0, !.result = -1]
      BY <1>0, <2>4, Zenon DEF Fails
    <3>2. th'[t].frame = 0 /\ th'[t].ctx.held = th[t].ctx.held
      BY <1>0, <3>1 DEF PerThread
    <3>3. hist'.dropped = hist.dropped \cup {th[t].pkt}
      BY <2>4 DEF Fails, Failed, TypeOK, Histories
    <3> QED BY <2>1, <2>4, <3>2, <3>3 DEF Drops, Decided, Undecided
  <2>5. CASE opt.own
    BY <1>0, <1>7, <2>2, <2>5, Zenon DEF GetBuffer, WorkerGoes
  <2>6. CASE ~opt.own
    BY <1>0, <1>7, <2>3, <2>4, <2>6, Zenon DEF GetBuffer, WorkerGoes
  <2> QED BY <2>5, <2>6
<1>8. CASE GotBuffer(t)
  <2>1. /\ worker[t] = "buffer" /\ th[t].pkt # 0 /\ Undecided(t)
        /\ worker'[t] = IF th[t].result < 0 THEN "end" ELSE "setup"
        /\ hist' = IF th[t].result < 0 THEN Failed(0, {th[t].pkt}) ELSE hist
    BY <1>0, <1>8 DEF GotBuffer, Runs, WorkerGoes, Machine, Undecided
  <2>2. th'[t] = [th[t] EXCEPT !.state = IF opt.update THEN @ ELSE "finished", !.frame = 0]
    BY <1>0, <1>8, Zenon DEF GotBuffer
  <2>3. th'[t].frame = 0 /\ th'[t].ctx.held = th[t].ctx.held /\ th'[t].result = th[t].result
    BY <1>0, <2>2 DEF PerThread
  <2>4. CASE th[t].result < 0
    <3>1. hist'.dropped = hist.dropped \cup {th[t].pkt}
      BY <2>1, <2>4 DEF Failed, TypeOK, Histories
    <3> QED BY <2>1, <2>3, <2>4, <3>1 DEF Drops, Decided, Undecided
  <2>5. CASE ~(th[t].result < 0)
    BY <2>1, <2>3, <2>5 DEF Quiet, Undecided
  <2> QED BY <2>4, <2>5
<1>9. CASE SetUp(t)
  <2>1. /\ worker[t] = "setup" /\ th[t].pkt # 0 /\ worker'[t] \in {"async", "rows"} /\ hist' = hist
    BY <1>0, <1>9 DEF SetUp, Runs, Machine
  <2>2. th'[t] = [th[t] EXCEPT
       !.frame = IF Shows(t) THEN Head(Held(t)) ELSE 0,
       !.ctx.held = IF Shows(t) THEN Tail(Held(t)) ELSE Held(t),
       !.needs = th[t].ctx.ref,
       !.ctx.ref = IF opt.update THEN ThisFrame(t) ELSE NoRef,
       !.released = opt.own /\ th[t].ctx.ref # NoRef,
       !.result = 0,
       !.state = IF HasHw(t) \/ ~opt.update THEN @ ELSE "finished"]
    BY <1>0, <1>9, Zenon DEF SetUp
  <2>3. /\ th'[t].frame = (IF Shows(t) THEN Head(Held(t)) ELSE 0)
        /\ th'[t].ctx.held = (IF Shows(t) THEN Tail(Held(t)) ELSE Held(t))
    <3> DEFINE f == IF Shows(t) THEN Head(Held(t)) ELSE 0
               q == IF Shows(t) THEN Tail(Held(t)) ELSE Held(t)
               x == IF opt.update THEN ThisFrame(t) ELSE NoRef
               b == opt.own /\ th[t].ctx.ref # NoRef
               s == IF HasHw(t) \/ ~opt.update THEN th[t].state ELSE "finished"
    <3>1. th'[t] = [th[t] EXCEPT !.frame = f, !.ctx.held = q, !.needs = th[t].ctx.ref, !.ctx.ref = x,
                                 !.released = b, !.result = 0, !.state = s]
      BY <2>2
    <3> HIDE DEF f, q, x, b, s
    <3>2. th'[t].frame = f /\ th'[t].ctx.held = q
      <4> DEFINE n == th[t].ctx.ref
      <4>1. th'[t] = [th[t] EXCEPT !.frame = f, !.ctx.held = q, !.needs = n, !.ctx.ref = x,
                                   !.released = b, !.result = 0, !.state = s]
        BY <3>1
      <4> HIDE DEF n
      <4>2. th'[t].frame = f
        BY <1>0, <4>1 DEF PerThread
      <4>3. th'[t].ctx = [[th[t].ctx EXCEPT !.held = q] EXCEPT !.ref = x]
        BY <1>0, <4>1 DEF PerThread
      <4>4. th[t].ctx \in Contexts
        BY <1>0 DEF PerThread
      <4>5. th'[t].ctx.held = q
        BY <4>3, <4>4 DEF Contexts
      <4> QED BY <4>2, <4>5
    <3> QED BY <3>2 DEF f, q
  <2> QED BY <2>1, <2>3 DEF Keeps, Decided, Undecided
<1>10. CASE SerialSetup(t)
  <2>1. th'[t] = th[t] \/ th'[t] = [th[t] EXCEPT !.state = "finished"]
    BY <1>0, <1>10, Zenon DEF SerialSetup, SetupEnds
  <2>2. /\ hist' = hist /\ worker[t] \in {"async", "endAsync"}
        /\ worker'[t] \in {"async", "endAsync", "rows", "unlock"}
        /\ worker[t] = "async" => worker'[t] \in {"async", "rows"}
    BY <1>0, <1>10 DEF SerialSetup, WorkerGoes
  <2> QED BY <1>0, <2>1, <2>2 DEF Quiet, Undecided, PerThread
<1>11. CASE DecodeRows(t)
  <2>1. th'[t] = th[t] \/ th'[t] = [th[t] EXCEPT !.needs = NoRef]
    BY <1>0, <1>11, Zenon DEF DecodeRows
  <2>2. /\ hist' = hist /\ worker[t] = "rows" /\ worker'[t] \in {"rows", "end"}
        /\ worker'[t] = "rows" \/ th[t].pkt \in complete'
    BY <1>0, <1>11 DEF DecodeRows, Runs, WorkerGoes, Reported
  <2> QED BY <1>0, <2>1, <2>2 DEF Quiet, Undecided, PerThread
<1>12. CASE End(t)
  <2>1. th'[t] = th[t] \/ th'[t] = [th[t] EXCEPT !.state = "finished"]
    BY <1>0, <1>12, Zenon DEF End, SetupEnds
  <2>2. hist' = hist /\ worker[t] = "end" /\ worker'[t] \in {"endAsync", "unlock", "ready"}
    BY <1>0, <1>12 DEF End, Runs, WorkerGoes, AfterDecode
  <2> QED BY <1>0, <2>1, <2>2 DEF Quiet, Undecided, PerThread
<1>13. CASE Unlock(t)
  BY <1>0, <1>13 DEF Unlock, Runs, WorkerGoes, Quiet, Undecided
<1>14. CASE Ready(t)
  <2>1. th'[t] = [th[t] EXCEPT !.state = "ready"]
    BY <1>0, <1>14, Zenon DEF Ready
  <2>2. hist' = hist /\ worker[t] = "ready" /\ worker'[t] = "wait"
    BY <1>0, <1>14 DEF Ready, Runs, WorkerGoes
  <2> QED BY <1>0, <2>1, <2>2 DEF Quiet, Undecided, PerThread
<1> QED BY <1>1, <1>2, <1>3, <1>4, <1>5, <1>6, <1>7, <1>8, <1>9, <1>10, <1>11, <1>12, <1>13,
           <1>14 DEF WorkerStep

(* Ascending sequences: the first element is the least, and one above all    *)
(* others may be appended.                                                   *)
LEMMA HeadFirst ==
  ASSUME NEW q \in Seq(Nat), q # <<>>, Ascending(q)
  PROVE  /\ Head(q) \in Nat /\ Tail(q) \in Seq(Nat) /\ Ascending(Tail(q))
         /\ Elems(q) = {Head(q)} \cup Elems(Tail(q))
         /\ \A x \in Elems(Tail(q)) : Head(q) < x
<1>1. /\ Len(q) \in Nat \ {0} /\ Head(q) = q[1] /\ Tail(q) \in Seq(Nat)
      /\ Len(Tail(q)) = Len(q) - 1
      /\ \A k \in 1 .. Len(Tail(q)) : Tail(q)[k] = q[k + 1]
      /\ \A k \in 1 .. Len(q) : q[k] \in Nat
  OBVIOUS
<1> DEFINE r == Tail(q)
<1> HIDE DEF r
<1>2. Len(r) = Len(q) - 1 /\ \A k \in 1 .. Len(r) : r[k] = q[k + 1]
  BY <1>1 DEF r
<1>3. Ascending(r)
  BY <1>1, <1>2 DEF Ascending
<1>4. \A x \in Elems(r) : q[1] < x
  BY <1>1, <1>2 DEF Ascending, Elems
<1>5. Elems(q) = {q[1]} \cup Elems(r)
  <2>1. ASSUME NEW k \in 1 .. Len(q) PROVE q[k] \in {q[1]} \cup Elems(r)
    <3>1. CASE k = 1
      BY <3>1
    <3>2. CASE k # 1
      <4>1. k - 1 \in 1 .. Len(r) /\ r[k - 1] = q[k]
        BY <1>1, <1>2, <3>2
      <4> QED BY <4>1 DEF Elems
    <3> QED BY <3>1, <3>2
  <2>2. ASSUME NEW k \in 1 .. Len(r) PROVE r[k] \in Elems(q)
    <3>1. k + 1 \in 1 .. Len(q) /\ r[k] = q[k + 1]
      BY <1>1, <1>2
    <3> QED BY <3>1 DEF Elems
  <2>3. q[1] \in Elems(q)
    BY <1>1 DEF Elems
  <2> QED BY <2>1, <2>2, <2>3 DEF Elems
<1> QED BY <1>1, <1>3, <1>4, <1>5 DEF r

LEMMA AppendLast ==
  ASSUME NEW q \in Seq(Nat), NEW p \in Nat, Ascending(q), \A x \in Elems(q) : x < p
  PROVE  /\ Append(q, p) \in Seq(Nat) /\ Append(q, p) # <<>> /\ Ascending(Append(q, p))
         /\ Elems(Append(q, p)) = Elems(q) \cup {p}
<1> DEFINE r == Append(q, p)
<1>1. /\ Len(q) \in Nat /\ r \in Seq(Nat) /\ r # <<>> /\ Len(r) = Len(q) + 1 /\ r[Len(q) + 1] = p
      /\ \A k \in 1 .. Len(q) : r[k] = q[k]
  OBVIOUS
<1> HIDE DEF r
<1>2. \A k \in 1 .. Len(q) : q[k] < p
  BY DEF Elems
<1>3. Ascending(r)
  BY <1>1, <1>2, SMTT(30) DEF Ascending
<1>4. Elems(r) = Elems(q) \cup {p}
  <2>1. ASSUME NEW k \in 1 .. Len(r) PROVE r[k] \in Elems(q) \cup {p}
    BY <1>1 DEF Elems
  <2>2. ASSUME NEW k \in 1 .. Len(q) PROVE q[k] \in Elems(r)
    <3>1. k \in 1 .. Len(r) /\ r[k] = q[k]
      BY <1>1
    <3> QED BY <3>1 DEF Elems
  <2>3. p \in Elems(r)
    <3>1. Len(q) + 1 \in 1 .. Len(r)
      BY <1>1
    <3> QED BY <1>1, <3>1 DEF Elems
  <2> QED BY <2>1, <2>2, <2>3 DEF Elems
<1> QED BY <1>1, <1>3, <1>4 DEF r

LEMMA NoElems ==
  /\ Elems(<<>>) = {} /\ Ascending(<<>>)
  /\ \A q \in Seq(Nat) : Elems(q) \subseteq Nat
BY DEF Elems, Ascending

LEMMA PieceTypes ==
  ASSUME TypeOK, Ring
  PROVE  /\ Queue \in Seq(Nat) /\ \A t \in Threads : Item(t) \in Nat
         /\ \A t \in Threads : th[t].ctx.held \in Seq(Nat) /\ th[t].pkt \in Nat /\ th[t].frame \in Nat
         /\ Latest \in Somebody /\ Sent \in Int
         /\ hist.given \in Nat /\ hist.flushed \in Nat /\ hist.returned \in Seq(Nat)
<1>1. \A t \in Threads : th[t].ctx.held \in Seq(Nat) /\ th[t].pkt \in Nat /\ th[t].frame \in Nat
  BY DEF TypeOK, PerThread, Contexts
<1>2. Latest \in Somebody
  BY Indices DEF Latest, TypeOK, Somebody
<1>3. hist.given \in Nat /\ hist.flushed \in Nat /\ hist.returned \in Seq(Nat)
  BY DEF TypeOK, Histories
<1> QED BY <1>1, <1>2, <1>3 DEF Queue, Item, Sent, Somebody

(* Pieces that go, and leave the others as they were. *)
LEMMA OrderKept ==
  ASSUME Order, Queue' = Queue,
         \A t \in Threads : \/ Item(t)' = 0
                            \/ /\ Item(t)' = Item(t)
                               /\ Queue = <<>> \/ (Undecided(t)' <=> Undecided(t)),
         \A t, u \in Threads : Item(t)' # 0 /\ Item(u)' # 0 /\ Off(t)' < Off(u)' => Off(t) < Off(u),
         \A t \in Threads : Item(t)' # 0 => Behind(Item(t))',
         \A x \in Elems(Queue) : Behind(x)'
  PROVE  Order'
<1>1. Elems(Queue)' = Elems(Queue) /\ Ascending(Queue)'
  BY DEF Elems, Ascending, Order
<1>2. \A t \in Threads, x \in Elems(Queue) :
        Item(t)' # 0 => IF Undecided(t)' THEN x < Item(t)' ELSE Item(t)' < x
  BY NoElems DEF Order
<1>3. \A t, u \in Threads : Off(t)' < Off(u)' /\ Item(t)' # 0 /\ Item(u)' # 0 => Item(t)' < Item(u)'
  BY DEF Order
<1> QED BY <1>1, <1>2, <1>3 DEF Order

LEMMA WorkerSame ==
  ASSUME TypeOK, Ring, NEW t \in Threads, WorkerStep(t)
  PROVE  /\ UNCHANGED <<opt, user, fctx, dec>>
         /\ \A u \in Threads : Off(u)' = Off(u)
         /\ Latest' = Latest /\ Sent' = Sent
         /\ \A n : Behind(n)' <=> Behind(n)
         /\ \A u \in Threads \ {t} : /\ th'[u] = th[u] /\ worker'[u] = worker[u]
                                     /\ Item(u)' = Item(u) /\ (Undecided(u)' <=> Undecided(u))
                                     /\ Spent(u)' <=> Spent(u)
         /\ Latest # t => Queue' = Queue
         /\ Latest = t => Queue = th[t].ctx.held /\ Queue' = th'[t].ctx.held
         /\ hist'.given = hist.given /\ hist'.flushed = hist.flushed
         /\ hist'.returned = hist.returned /\ hist.dropped \subseteq hist'.dropped
         /\ complete \subseteq complete' /\ th'[t].pkt = th[t].pkt
         /\ Elems(hist.returned)' = Elems(hist.returned)
<1>1. /\ UNCHANGED <<opt, user, fctx, dec>>
      /\ \A u \in Threads \ {t} : th'[u] = th[u] /\ worker'[u] = worker[u]
      /\ hist'.given = hist.given /\ hist'.flushed = hist.flushed
      /\ hist'.returned = hist.returned /\ hist.dropped \subseteq hist'.dropped
      /\ complete \subseteq complete' /\ th'[t].pkt = th[t].pkt
  BY WorkerTypes
<1>2. (\A u \in Threads : Off(u)' = Off(u)) /\ Latest' = Latest /\ Sent' = Sent
  BY <1>1 DEF Off, Latest, Sent, Current
<1>3. Elems(hist.returned)' = Elems(hist.returned)
  BY <1>1 DEF Elems
<1>4. \A n : Behind(n)' <=> Behind(n)
  BY <1>1, <1>2, <1>3 DEF Behind
<1>5. \A u \in Threads \ {t} : /\ Undecided(u)' <=> Undecided(u)
                               /\ Spent(u)' <=> Spent(u)
  BY <1>1 DEF Undecided, Spent
<1>6. \A u \in Threads \ {t} : Item(u)' = Item(u)
  BY <1>1, <1>5 DEF Item
<1>7. Nobody # t /\ Latest \in Threads \cup {Nobody}
  BY PieceTypes, Consts DEF Somebody
<1>8. Latest # t => Queue' = Queue
  BY <1>1, <1>2, <1>7 DEF Queue
<1>9. Latest = t => Queue = th[t].ctx.held /\ Queue' = th'[t].ctx.held
  BY <1>2, <1>7 DEF Queue
<1> QED BY <1>1, <1>2, <1>3, <1>4, <1>5, <1>6, <1>8, <1>9

(* The thread used last decides on its packet: q is the queue with it.  Its  *)
(* frame is the first of them.                                               *)
LEMMA Decides ==
  ASSUME TypeOK, TypeOK', Ring, Ring', Order,
         NEW t \in Threads, WorkerStep(t), t = Latest, Undecided(t), ~(Undecided(t)'),
         \A u \in Threads \ {t} : ~Undecided(u),
         \A u \in Threads : Off(u) > Off(t) => Item(u) = 0,
         NEW q, \/ q = Queue /\ Item(t) = 0
                \/ q = Append(Queue, Item(t)) /\ Item(t) # 0,
         \/ Item(t)' = 0 /\ Queue' = q
         \/ q # <<>> /\ Item(t)' = Head(q) /\ Queue' = Tail(q)
  PROVE  /\ Order'
         /\ \A n \in Elems(Queue) : n \in Elems(Queue)' \/ Item(t)' = n
         /\ Item(t) # 0 => Item(t) \in Elems(Queue)' \/ Item(t)' = Item(t)
         /\ \A n \in Elems(Queue)' : n \in Elems(Queue) \/ n = Item(t)
         /\ Item(t)' # 0 => Item(t)' \in Elems(Queue) \/ Item(t)' = Item(t)
         /\ \A n \in Elems(Queue) : n # 0
<1>1. /\ Queue \in Seq(Nat) /\ Item(t) \in Nat /\ Elems(Queue) \subseteq Nat
      /\ \A u \in Threads : Item(u) \in Nat /\ Off(u) \in Int
      /\ \A u \in Threads \ {t} : Off(u) # Off(t)
  <2>1. \A u \in Threads : Off(u) = From(fctx.finished, u) /\ Off(u) \in Int
    BY OffIs, Turns
  <2>2. \A u \in Threads \ {t} : Off(u) # Off(t)
    BY <2>1, OffIs, Turns
  <2> QED BY <2>1, <2>2, PieceTypes, NoElems
<1>2. /\ q \in Seq(Nat) /\ Ascending(q)
      /\ Elems(q) = IF Item(t) = 0 THEN Elems(Queue) ELSE Elems(Queue) \cup {Item(t)}
  BY <1>1, AppendLast DEF Order
<1>3. \A x \in Elems(q) : Behind(x) /\ x \in Nat /\ x # 0
  <2>1. \A x \in Elems(q) : Behind(x) /\ x \in Nat
    BY <1>1, <1>2 DEF Order
  <2> QED BY <2>1, PieceTypes DEF Behind
<1>4. \A u \in Threads \ {t}, x \in Elems(q) : Item(u) # 0 => Item(u) < x
  <2> SUFFICES ASSUME NEW u \in Threads \ {t}, NEW x \in Elems(q), Item(u) # 0 PROVE Item(u) < x
    OBVIOUS
  <2>1. x \in Elems(Queue) => Item(u) < x
    BY DEF Order
  <2>2. Off(u) < Off(t)
    BY <1>1
  <2>3. Item(t) # 0 => Item(u) < Item(t)
    BY <2>2 DEF Order
  <2> QED BY <1>2, <2>1, <2>3
<1>5. \E i \in Nat, r \in Seq(Nat) :
        /\ Item(t)' = i /\ Queue' = r /\ Ascending(r)
        /\ Elems(q) = IF i = 0 THEN Elems(r) ELSE {i} \cup Elems(r)
        /\ i # 0 => \A x \in Elems(r) : i < x
  <2>1. CASE Item(t)' = 0 /\ Queue' = q
    <3>1. /\ Item(t)' = 0 /\ Queue' = q /\ Ascending(q)
          /\ Elems(q) = IF 0 = 0 THEN Elems(q) ELSE {0} \cup Elems(q)
          /\ 0 # 0 => \A x \in Elems(q) : 0 < x
      BY <1>2, <2>1
    <3>2. 0 \in Nat /\ q \in Seq(Nat)
      BY <1>2
    <3> QED BY <3>1, <3>2, Zenon
  <2>2. CASE q # <<>> /\ Item(t)' = Head(q) /\ Queue' = Tail(q)
    <3>1. /\ Head(q) \in Nat /\ Tail(q) \in Seq(Nat) /\ Ascending(Tail(q))
          /\ Elems(q) = {Head(q)} \cup Elems(Tail(q))
          /\ \A x \in Elems(Tail(q)) : Head(q) < x
      BY <1>2, <2>2, HeadFirst
    <3>2. Head(q) # 0
      BY <1>3, <3>1
    <3> QED BY <2>2, <3>1, <3>2
  <2> QED BY <2>1, <2>2
<1>6. PICK i \in Nat, r \in Seq(Nat) :
        /\ Item(t)' = i /\ Queue' = r /\ Ascending(r)
        /\ Elems(q) = IF i = 0 THEN Elems(r) ELSE {i} \cup Elems(r)
        /\ i # 0 => \A x \in Elems(r) : i < x
  BY <1>5
<1>7. /\ Elems(Queue)' = Elems(r) /\ Ascending(Queue)'
      /\ \A u \in Threads \ {t} : Item(u)' = Item(u) /\ ~(Undecided(u)')
      /\ \A u \in Threads : Off(u)' = Off(u)
      /\ \A n : Behind(n)' <=> Behind(n)
  BY <1>6, WorkerSame DEF Elems, Ascending
<1>8. \A u \in Threads : Item(u)' # 0 => Behind(Item(u))'
  <2> SUFFICES ASSUME NEW u \in Threads, Item(u)' # 0 PROVE Behind(Item(u))'
    OBVIOUS
  <2>1. PICK n : n = Item(u)'
    OBVIOUS
  <2>2. Behind(n)
    BY <1>3, <1>6, <1>7, <2>1 DEF Order
  <2>3. Behind(n)'
    BY <1>7, <2>2
  <2> QED BY <2>1, <2>3 DEF Behind
<1>9. \A u, v \in Threads : Off(u)' < Off(v)' /\ Item(u)' # 0 /\ Item(v)' # 0 => Item(u)' < Item(v)'
  <2> SUFFICES ASSUME NEW u \in Threads, NEW v \in Threads, Off(u)' < Off(v)', Item(u)' # 0, Item(v)' # 0
               PROVE  Item(u)' < Item(v)'
    OBVIOUS
  <2>1. Off(u) < Off(v)
    BY <1>7
  <2>2. CASE u # t /\ v # t
    BY <1>7, <2>1, <2>2 DEF Order
  <2>3. CASE v = t
    <3>1. u # t /\ Item(v)' = i /\ i \in Elems(q)
      BY <1>1, <1>6, <2>1, <2>3
    <3> QED BY <1>4, <1>7, <3>1
  <2>4. CASE u = t
    <3>1. v # t /\ Item(v) = 0
      BY <1>1, <2>1, <2>4
    <3> QED BY <1>7, <3>1
  <2> QED BY <2>2, <2>3, <2>4
<1>10. \A u \in Threads, x \in Elems(r) : Item(u)' # 0 => Item(u)' < x
  <2> SUFFICES ASSUME NEW u \in Threads, NEW x \in Elems(r), Item(u)' # 0 PROVE Item(u)' < x
    OBVIOUS
  <2>1. CASE u = t
    BY <1>6, <2>1
  <2>2. CASE u # t
    BY <1>4, <1>6, <1>7, <2>2
  <2> QED BY <2>1, <2>2
<1>11. \A x \in Elems(r) : Behind(x)'
  BY <1>3, <1>6, <1>7
<1>12. Order'
  BY <1>7, <1>8, <1>9, <1>10, <1>11 DEF Order
<1>13. /\ \A n \in Elems(Queue) : n \in Elems(r) \/ i = n
       /\ Item(t) # 0 => Item(t) \in Elems(r) \/ i = Item(t)
       /\ \A n \in Elems(r) : n \in Elems(Queue) \/ n = Item(t)
       /\ i # 0 => i \in Elems(Queue) \/ i = Item(t)
  BY <1>2, <1>6
<1>14. \A n \in Elems(Queue) : n # 0
  BY <1>2, <1>3
<1> QED BY <1>6, <1>7, <1>12, <1>13, <1>14

(* A codec without a delay, or without a context to copy, holds nothing back. *)
LEMMA HoldsNone ==
  ASSUME TypeOK, NEW t \in Threads, ~opt.update \/ ~opt.delayed, th[t].ctx.held = <<>>
  PROVE  Shows(t) /\ Head(Held(t)) = th[t].pkt /\ Tail(Held(t)) = <<>>
<1>1. DelayOf(t) = 0
  BY OptionIs, Consts DEF DelayOf
<1>2. Held(t) = <<th[t].pkt>>
  BY DEF Held
<1> QED BY <1>1, <1>2 DEF Shows

LEMMA WorkerPieces ==
  ASSUME TypeOK, TypeOK', Ring, Ring', \A u \in Threads : Machine(u), Flow,
         NEW t \in Threads, WorkerStep(t), user.at \in Active
  PROVE  /\ Order'
         /\ \A n \in Elems(Queue) : n \in Elems(Queue)' \/ Item(t)' = n
         /\ Item(t) # 0 => \/ Item(t) \in Elems(Queue)' \/ Item(t)' = Item(t)
                           \/ Item(t) \in hist'.dropped
         /\ \A n \in Elems(Queue)' :
              n \in Elems(Queue) \/ (n = th[t].pkt /\ worker'[t] \in {"async", "rows"} /\ Undecided(t))
         /\ \/ th'[t].frame = th[t].frame \/ th'[t].frame = 0
            \/ Latest = t /\ th'[t].frame \in Elems(Queue) /\ Undecided(t)
            \/ th'[t].frame = th[t].pkt /\ worker'[t] \in {"async", "rows"} /\ Undecided(t)
         /\ Undecided(t)' => Undecided(t) /\ th'[t].frame = 0
         /\ Latest = t /\ th[t].pkt = 0 =>
              \/ Undecided(t)' \/ th'[t].frame # 0 \/ th'[t].result # 0 \/ Queue' = <<>>
              \/ ~(Undecided(t) \/ th[t].frame # 0 \/ th[t].result # 0 \/ Queue = <<>>)
<1> DEFINE Going == worker'[t] \in {"async", "rows"}
           Goal == /\ Order'
                   /\ \A n \in Elems(Queue) : n \in Elems(Queue)' \/ Item(t)' = n
                   /\ Item(t) # 0 => \/ Item(t) \in Elems(Queue)' \/ Item(t)' = Item(t)
                                     \/ Item(t) \in hist'.dropped
                   /\ \A n \in Elems(Queue)' : n \in Elems(Queue) \/ (n = th[t].pkt /\ Going /\ Undecided(t))
                   /\ \/ th'[t].frame = th[t].frame \/ th'[t].frame = 0
                      \/ Latest = t /\ th'[t].frame \in Elems(Queue) /\ Undecided(t)
                      \/ th'[t].frame = th[t].pkt /\ Going /\ Undecided(t)
                   /\ Undecided(t)' => Undecided(t) /\ th'[t].frame = 0
                   /\ Latest = t /\ th[t].pkt = 0 =>
                        \/ Undecided(t)' \/ th'[t].frame # 0 \/ th'[t].result # 0 \/ Queue' = <<>>
                        \/ ~(Undecided(t) \/ th[t].frame # 0 \/ th[t].result # 0 \/ Queue = <<>>)
<1>0. /\ Order /\ \A u \in Threads : Undecided(u) => th[u].frame = 0 /\ (opt.update => u = Latest)
      /\ ~opt.update \/ ~opt.delayed => \A u \in Threads : th[u].ctx.held = <<>>
  BY DEF Flow, Holding
<1>1. /\ Item(t) = (IF Undecided(t) THEN th[t].pkt ELSE th[t].frame)
      /\ Item(t)' = (IF Undecided(t)' THEN th[t].pkt ELSE th'[t].frame)
      /\ \A u \in Threads : Off(u)' = Off(u) /\ Off(u) \in Int
      /\ \A u \in Threads \ {t} : Item(u)' = Item(u) /\ (Undecided(u)' <=> Undecided(u))
      /\ Latest # t => Queue' = Queue
      /\ Latest = t => Queue = th[t].ctx.held /\ Queue' = th'[t].ctx.held
      /\ \A n : Behind(n)' <=> Behind(n)
  <2>1. \A u \in Threads : Off(u) \in Int
    BY OffIs, Turns
  <2> QED BY <2>1, WorkerSame DEF Item
(* Nothing but the piece of t goes. *)
<1>2. ASSUME Queue' = Queue, \/ Item(t)' = 0
                            \/ (Item(t)' = Item(t) /\ (Queue = <<>> \/ (Undecided(t)' <=> Undecided(t))))
      PROVE  Order' /\ Elems(Queue)' = Elems(Queue)
  <2>1. \A u \in Threads : \/ Item(u)' = 0
                           \/ /\ Item(u)' = Item(u)
                              /\ Queue = <<>> \/ (Undecided(u)' <=> Undecided(u))
    BY <1>1, <1>2
  <2>2. \A u \in Threads : Item(u)' # 0 => Behind(Item(u))'
    <3> SUFFICES ASSUME NEW u \in Threads, Item(u)' # 0 PROVE Behind(Item(u))'
      OBVIOUS
    <3>1. PICK n : n = Item(u)'
      OBVIOUS
    <3>2. Behind(n)
      BY <1>0, <2>1, <3>1 DEF Order
    <3>3. Behind(n)'
      BY <1>1, <3>2
    <3> QED BY <3>1, <3>3 DEF Behind
  <2>3. \A x \in Elems(Queue) : Behind(x)'
    BY <1>0, <1>1 DEF Order
  <2>4. Elems(Queue)' = Elems(Queue)
    BY <1>2 DEF Elems
  <2>5. Order'
    BY <1>0, <1>1, <1>2, <2>1, <2>2, <2>3, OrderKept
  <2> QED BY <2>4, <2>5
<1>3. CASE Quiet(t)
  <2>1. /\ Undecided(t)' <=> Undecided(t)
        /\ th'[t].frame = th[t].frame /\ th'[t].result = th[t].result /\ th'[t].ctx.held = th[t].ctx.held
    BY <1>0, <1>3 DEF Quiet
  <2>2. Queue' = Queue /\ Item(t)' = Item(t)
    BY <1>1, <2>1
  <2>3. Order' /\ Elems(Queue)' = Elems(Queue)
    BY <1>2, <2>1, <2>2
  <2> QED BY <1>0, <2>1, <2>2, <2>3
<1>4. CASE Drops(t)
  <2>1. /\ Undecided(t) /\ ~(Undecided(t)') /\ th[t].pkt # 0 /\ th'[t].frame = 0
        /\ th'[t].ctx.held = th[t].ctx.held /\ th[t].pkt \in hist'.dropped
    BY <1>4 DEF Drops, Decided
  <2>2. Queue' = Queue /\ Item(t)' = 0 /\ Item(t) = th[t].pkt
    BY <1>1, <2>1
  <2>3. Order' /\ Elems(Queue)' = Elems(Queue)
    BY <1>2, <2>2
  <2> QED BY <2>1, <2>2, <2>3
<1>5. CASE ~opt.update /\ (Takes(t) \/ Keeps(t))
  <2>1. Undecided(t) /\ ~(Undecided(t)') /\ th[t].ctx.held = <<>> /\ Item(t) = th[t].pkt
    BY <1>0, <1>1, <1>5 DEF Takes, Keeps, Decided
  <2>2. Queue = <<>>
    <3>1. Latest \in Threads \cup {Nobody}
      BY PieceTypes DEF Somebody
    <3> QED BY <1>0, <1>5, <3>1 DEF Queue
  <2>3. th'[t].ctx.held = <<>> /\ \/ th'[t].frame = 0
                                  \/ th'[t].frame = th[t].pkt /\ Going
    <3>1. CASE Takes(t)
      BY <2>1, <3>1 DEF Takes, Oldest
    <3>2. CASE Keeps(t)
      BY <1>5, <2>1, <3>2, HoldsNone DEF Keeps
    <3> QED BY <1>5, <3>1, <3>2
  <2>4. Queue' = Queue /\ Item(t)' = th'[t].frame
    BY <1>1, <2>1, <2>2, <2>3
  <2>5. Order' /\ Elems(Queue)' = Elems(Queue)
    BY <1>2, <2>1, <2>2, <2>3, <2>4
  <2>6. Item(t) # 0 => Item(t)' = Item(t)
    <3>1. CASE Takes(t)
      BY <2>1, <3>1 DEF Takes
    <3>2. CASE Keeps(t)
      BY <1>5, <2>1, <2>4, <3>2, HoldsNone DEF Keeps
    <3> QED BY <1>5, <3>1, <3>2
  <2> QED BY <2>1, <2>2, <2>3, <2>4, <2>5, <2>6
<1>6. CASE opt.update /\ (Takes(t) \/ Keeps(t))
  <2>1. /\ Undecided(t) /\ ~(Undecided(t)') /\ t = Latest /\ Item(t) = th[t].pkt
        /\ Queue = th[t].ctx.held /\ Queue' = th'[t].ctx.held /\ Item(t)' = th'[t].frame
        /\ \A u \in Threads \ {t} : ~Undecided(u)
    BY <1>0, <1>1, <1>6 DEF Takes, Keeps, Decided
  <2>2. \A u \in Threads : Off(u) > Off(t) => Item(u) = 0
    <3>1. \A u \in Threads : Off(u) > Off(t) => Spent(u)
      BY <2>1, BeyondLatest, Consts
    <3> QED BY <3>1, SpentItem
  <2>3. \E q : /\ \/ q = Queue /\ Item(t) = 0
                  \/ q = Append(Queue, Item(t)) /\ Item(t) # 0
               /\ \/ Item(t)' = 0 /\ Queue' = q
                  \/ q # <<>> /\ Item(t)' = Head(q) /\ Queue' = Tail(q)
    <3>1. CASE Takes(t)
      <4>1. Item(t) = 0
        BY <2>1, <3>1 DEF Takes
      <4>2. \/ Item(t)' = 0 /\ Queue' = Queue
            \/ Queue # <<>> /\ Item(t)' = Head(Queue) /\ Queue' = Tail(Queue)
        BY <2>1, <3>1 DEF Takes, Oldest
      <4> QED BY <4>1, <4>2
    <3>2. CASE Keeps(t)
      <4>1. Item(t) # 0 /\ Held(t) = Append(Queue, Item(t))
        BY <2>1, <3>2 DEF Keeps, Held
      <4>2. \/ Item(t)' = 0 /\ Queue' = Held(t)
            \/ Item(t)' = Head(Held(t)) /\ Queue' = Tail(Held(t))
        BY <2>1, <3>2 DEF Keeps
      <4>3. Held(t) # <<>>
        BY <4>1, PieceTypes
      <4> QED BY <4>1, <4>2, <4>3
    <3> QED BY <1>6, <3>1, <3>2
  <2>4. PICK q : /\ \/ q = Queue /\ Item(t) = 0
                    \/ q = Append(Queue, Item(t)) /\ Item(t) # 0
                 /\ \/ Item(t)' = 0 /\ Queue' = q
                    \/ q # <<>> /\ Item(t)' = Head(q) /\ Queue' = Tail(q)
    BY <2>3
  <2>5. /\ Order'
        /\ \A n \in Elems(Queue) : n \in Elems(Queue)' \/ Item(t)' = n
        /\ Item(t) # 0 => Item(t) \in Elems(Queue)' \/ Item(t)' = Item(t)
        /\ \A n \in Elems(Queue)' : n \in Elems(Queue) \/ n = Item(t)
        /\ Item(t)' # 0 => Item(t)' \in Elems(Queue) \/ Item(t)' = Item(t)
        /\ \A n \in Elems(Queue) : n # 0
    BY <1>0, <2>1, <2>2, <2>4, Decides
  <2>6. CASE Takes(t)
    <3>1. Item(t) = 0 /\ \A n \in Elems(Queue)' : n \in Elems(Queue)
      <4>1. Item(t) = 0
        BY <2>1, <2>6 DEF Takes
      <4>2. \/ Queue' = Queue
            \/ Queue # <<>> /\ Queue' = Tail(Queue)
        BY <2>4, <4>1
      <4>3. CASE Queue' = Queue
        BY <4>1, <4>3 DEF Elems
      <4>4. CASE Queue # <<>> /\ Queue' = Tail(Queue)
        <5>1. Elems(Queue)' = Elems(Tail(Queue))
          BY <4>4 DEF Elems
        <5>2. Elems(Queue) = {Head(Queue)} \cup Elems(Tail(Queue))
          BY <1>0, <4>4, HeadFirst, PieceTypes DEF Order
        <5> QED BY <4>1, <5>1, <5>2
      <4> QED BY <4>2, <4>3, <4>4
    <3>2. th'[t].frame # 0 \/ th'[t].result # 0 \/ Queue' = <<>>
      <4>1. \/ th'[t].result # 0
            \/ th[t].ctx.held = <<>> /\ th'[t].ctx.held = <<>>
            \/ th[t].ctx.held # <<>> /\ th'[t].frame = Head(th[t].ctx.held)
        BY <2>6 DEF Takes, Oldest
      <4>2. Queue # <<>> => Head(Queue) \in Elems(Queue)
        BY <1>0, HeadFirst, PieceTypes DEF Order
      <4> QED BY <2>1, <2>5, <4>1, <4>2
    <3> QED BY <2>1, <2>5, <3>1, <3>2
  <2>7. CASE Keeps(t)
    <3>1. Going /\ th[t].pkt # 0
      BY <2>7 DEF Keeps
    <3> QED BY <2>1, <2>5, <3>1
  <2> QED BY <1>6, <2>6, <2>7
<1> QED BY <1>3, <1>4, <1>5, <1>6, WorkerKinds

LEMMA WorkerFlow ==
  ASSUME TypeOK, TypeOK', Ring, Ring', \A u \in Threads : Machine(u), Flow,
         NEW t \in Threads, WorkerStep(t)
  PROVE  Flow'
<1>0. /\ UNCHANGED <<opt, user, fctx, dec>>
      /\ Latest' = Latest /\ Sent' = Sent
      /\ \A u \in Threads \ {t} : /\ th'[u] = th[u] /\ Item(u)' = Item(u)
                                  /\ Undecided(u)' <=> Undecided(u)
                                  /\ Spent(u)' <=> Spent(u)
      /\ Latest # t => Queue' = Queue
      /\ hist'.given = hist.given /\ hist'.flushed = hist.flushed
      /\ hist.dropped \subseteq hist'.dropped /\ th'[t].pkt = th[t].pkt
      /\ Elems(hist.returned)' = Elems(hist.returned)
  BY WorkerSame
<1>1. Calls'
  BY <1>0 DEF Flow, Calls
<1>2. ~opt.update \/ ~opt.delayed => th'[t].ctx.held = <<>>
  <2> SUFFICES ASSUME ~opt.update \/ ~opt.delayed PROVE th'[t].ctx.held = <<>>
    OBVIOUS
  <2>1. th[t].ctx.held = <<>>
    BY DEF Flow, Holding
  <2>2. CASE Keeps(t)
    BY <2>1, <2>2, HoldsNone DEF Keeps
  <2> QED BY <2>1, <2>2, WorkerKinds DEF Quiet, Takes, Drops
<1>3. Holding'
  <2>1. ~opt'.update \/ ~opt'.delayed => \A u \in Threads : th'[u].ctx.held = <<>>
    BY <1>0, <1>2 DEF Flow, Holding
  <2>2. ASSUME user.at \in Active, NEW u \in Threads, Undecided(u)'
        PROVE  th'[u].frame = 0 /\ (opt.update => u = Latest)
    <3>1. CASE u = t
      BY <2>2, <3>1, WorkerPieces DEF Flow, Holding
    <3>2. CASE u # t
      BY <1>0, <2>2, <3>2 DEF Flow, Holding
    <3> QED BY <3>1, <3>2
  <2>3. ASSUME user.at \in Active, Latest = Nobody
        PROVE  th'[t].ctx.held = <<>>
    <3>1. th[t].ctx.held = <<>> /\ (opt.update => ~Undecided(t))
      BY <2>3, Consts DEF Flow, Holding
    <3>2. opt.update => Quiet(t)
      BY <3>1, WorkerKinds DEF Takes, Drops, Keeps, Decided
    <3> QED BY <1>2, <3>1, <3>2 DEF Quiet
  <2>4. user.at \in Active /\ Latest = Nobody => \A u \in Threads : th'[u].ctx.held = <<>>
    BY <1>0, <2>3 DEF Flow, Holding
  <2> QED BY <1>0, <2>1, <2>2, <2>4 DEF Holding
<1>4. user.at \in Active => Order' /\ Accounted'
  <2> SUFFICES ASSUME user.at \in Active PROVE Order' /\ Accounted'
    OBVIOUS
  <2>1. /\ Order'
        /\ \A n \in Elems(Queue) : n \in Elems(Queue)' \/ Item(t)' = n
        /\ Item(t) # 0 => \/ Item(t) \in Elems(Queue)' \/ Item(t)' = Item(t)
                          \/ Item(t) \in hist'.dropped
    BY WorkerPieces
  <2>2. ASSUME NEW n \in hist.flushed + 1 .. Sent
        PROVE  \/ n \in hist'.dropped \/ n = user.got \/ n \in Elems(hist.returned)
               \/ \E u \in Threads : Item(u)' = n
               \/ n \in Elems(Queue)'
    <3>1. \/ n \in hist.dropped \/ n = user.got \/ n \in Elems(hist.returned)
          \/ \E u \in Threads : Item(u) = n
          \/ n \in Elems(Queue)
      BY DEF Flow, Accounted
    <3>2. n # 0
      BY PieceTypes
    <3>3. ASSUME NEW u \in Threads, Item(u) = n, u # t PROVE Item(u)' = n
      BY <1>0, <3>3
    <3>4. ASSUME Item(t) = n
          PROVE  n \in hist'.dropped \/ n \in Elems(Queue)' \/ Item(t)' = n
      BY <2>1, <3>2, <3>4
    <3> QED BY <1>0, <2>1, <3>1, <3>3, <3>4
  <2>3. Accounted'
    BY <1>0, <2>2 DEF Accounted
  <2> QED BY <2>1, <2>3
<1>5. Draining'
  <2>1. ASSUME user.at \in {"callback", "collect"}, user.pkt = 0, opt.delayed
        PROVE  /\ Latest # Nobody /\ th'[Latest].pkt = 0
               /\ \E p \in Threads : /\ p = Latest
                                     /\ \/ Undecided(p)' \/ th'[p].frame # 0
                                        \/ th'[p].result # 0 \/ Queue' = <<>>
    <3>1. Latest \in Threads /\ Latest # Nobody /\ th[Latest].pkt = 0
      BY <2>1, PieceTypes DEF Flow, Draining, Somebody
    <3>2. PICK p \in Threads : p = Latest
      BY <3>1
    <3>3. Undecided(p) \/ th[p].frame # 0 \/ th[p].result # 0 \/ Queue = <<>>
      BY <2>1, <3>2 DEF Flow, Draining
    <3>4. th'[p].pkt = 0
      BY <1>0, <3>1, <3>2
    <3>5. user.at \in Active
      BY <2>1 DEF Active, Calling
    <3>6. CASE p = t
      BY <3>1, <3>2, <3>3, <3>4, <3>5, <3>6, WorkerPieces
    <3>7. CASE p # t
      BY <1>0, <3>1, <3>2, <3>3, <3>4, <3>7
    <3> QED BY <3>6, <3>7
  <2>2. ASSUME user.at = "return", user.pkt = 0, user.got = 0, user.err = 0
        PROVE  Queue' = <<>> /\ \A u \in Threads : Spent(u)'
    <3>1. Queue = <<>> /\ \A u \in Threads : Spent(u)
      BY <2>2 DEF Flow, Draining
    <3>2. th'[t] = th[t]
      BY <3>1, AtRest DEF Spent
    <3>3. Queue' = Queue /\ Spent(t)'
      BY <3>1, <3>2, WorkerSame DEF Spent
    <3> QED BY <1>0, <3>1, <3>3
  <2>3. user'.at \in {"callback", "collect"} /\ user'.pkt = 0 /\ opt'.delayed =>
          /\ Latest' # Nobody /\ th'[Latest'].pkt = 0
          /\ Undecided(Latest)' \/ th'[Latest'].frame # 0 \/ th'[Latest'].result # 0 \/ Queue' = <<>>
    <3> SUFFICES ASSUME user'.at \in {"callback", "collect"}, user'.pkt = 0, opt'.delayed
                 PROVE  /\ Latest' # Nobody /\ th'[Latest'].pkt = 0
                        /\ \/ Undecided(Latest)' \/ th'[Latest'].frame # 0
                           \/ th'[Latest'].result # 0 \/ Queue' = <<>>
      OBVIOUS
    <3>1. PICK p \in Threads : /\ p = Latest
                               /\ \/ Undecided(p)' \/ th'[p].frame # 0
                                  \/ th'[p].result # 0 \/ Queue' = <<>>
      BY <1>0, <2>1
    <3>2. Undecided(p)' => Undecided(Latest)'
      BY <1>0, <3>1 DEF Undecided
    <3> QED BY <1>0, <2>1, <3>1, <3>2
  <2> QED BY <1>0, <2>2, <2>3 DEF Draining
<1> QED BY <1>0, <1>1, <1>3, <1>4, <1>5 DEF Flow

LEMMA WorkerRows ==
  ASSUME TypeOK, TypeOK', Ring, Ring', \A u \in Threads : Machine(u), Flow, Rows,
         NEW t \in Threads, WorkerStep(t)
  PROVE  Rows'
<1> DEFINE Going(u) == worker[u] \in {"async", "rows"}
<1>0. /\ UNCHANGED <<opt, user, fctx, dec>>
      /\ \A u \in Threads : Off(u)' = Off(u)
      /\ \A u \in Threads \ {t} : th'[u] = th[u] /\ worker'[u] = worker[u]
      /\ complete \subseteq complete' /\ th'[t].pkt = th[t].pkt
      /\ Going(t) => worker'[t] \in {"async", "rows"} \/ th[t].pkt \in complete'
  BY WorkerSame, WorkerKinds
<1> SUFFICES ASSUME user.at \in Active PROVE Rows'
  BY <1>0 DEF Rows
<1>1. \A u \in Threads : Off(u) \in Int /\ Off(u)' = Off(u)
  BY <1>0, OffIs, Turns
(* Who is on the way stays so until the rows are complete. *)
<1>2. ASSUME NEW u \in Threads, Going(u)
      PROVE  \/ th[u].pkt \in complete'
             \/ th'[u].pkt = th[u].pkt /\ worker'[u] \in {"async", "rows"}
  BY <1>0, <1>2
<1>3. ASSUME NEW n \in Elems(Queue) PROVE n \in complete' \/ Rowing(n)'
  <2>1. n \in complete \/ Rowing(n)
    BY DEF Rows
  <2> QED BY <1>0, <1>2, <2>1 DEF Rowing
<1>4. ASSUME th'[t].pkt # 0, worker'[t] \in {"async", "rows"}
      PROVE  Rowing(th[t].pkt)'
  <2>1. \E u \in Threads : th'[u].pkt = th'[t].pkt /\ worker'[u] \in {"async", "rows"}
    BY <1>4
  <2> QED BY <1>0, <2>1 DEF Rowing
<1>5. \A n \in Elems(Queue)' : n \in complete' \/ Rowing(n)'
  <2> SUFFICES ASSUME NEW n \in Elems(Queue)', n \notin Elems(Queue) PROVE Rowing(n)'
    BY <1>3
  <2>1. n = th[t].pkt /\ worker'[t] \in {"async", "rows"}
    BY WorkerPieces
  <2> QED BY <1>0, <2>1 DEF Rowing
<1>6. ASSUME NEW u \in Threads, th'[u].frame # 0
      PROVE  \/ th'[u].frame \in complete'
             \/ \E v \in Threads : /\ th'[v].pkt = th'[u].frame /\ worker'[v] \in {"async", "rows"}
                                  /\ Off(v)' <= Off(u)'
  <2>1. CASE th'[u].frame = th[u].frame
    <3>1. \/ th[u].frame \in complete
          \/ \E v \in Threads : th[v].pkt = th[u].frame /\ Going(v) /\ Off(v) <= Off(u)
      BY <1>6, <2>1 DEF Rows
    <3> QED BY <1>0, <1>1, <1>2, <2>1, <3>1
  <2>2. CASE u = t /\ Latest = t /\ th'[t].frame \in Elems(Queue)
    <3>1. th'[t].frame \in complete \/ Rowing(th'[t].frame)
      BY <2>2 DEF Rows
    <3>2. ASSUME NEW v \in Threads, th[v].pkt = th'[t].frame, Going(v)
          PROVE  Off(v) <= Off(t)
      <4>1. th[v].state # "ready"
        BY <3>2 DEF Machine
      <4>2. ~(Off(v) > Off(Latest))
        BY <2>2, <4>1, BeyondLatest, Consts DEF Spent
      <4> QED BY <1>1, <2>2, <4>2
    <3>3. CASE Rowing(th'[t].frame)
      <4>1. PICK v \in Threads : th[v].pkt = th'[t].frame /\ Going(v)
        BY <3>3 DEF Rowing
      <4>2. Off(v)' <= Off(u)'
        BY <1>1, <2>2, <3>2, <4>1
      <4> QED BY <1>2, <2>2, <4>1, <4>2
    <3> QED BY <1>0, <2>2, <3>1, <3>3
  <2>3. CASE u = t /\ th'[t].frame = th[t].pkt /\ worker'[t] \in {"async", "rows"}
    <3>1. Off(t)' <= Off(u)'
      BY <1>1, <2>3
    <3> QED BY <1>0, <2>3, <3>1
  <2>4. u # t => th'[u].frame = th[u].frame
    BY <1>0
  <2> QED BY <1>6, <2>1, <2>2, <2>3, <2>4, WorkerPieces
<1>7. user'.got # 0 => user'.got \in complete'
  BY <1>0 DEF Rows
<1> QED BY <1>5, <1>6, <1>7 DEF Rows

-----------------------------------------------------------------------------
(* A step that leaves every piece where it is. *)
LEMMA SameFlow ==
  ASSUME TypeOK, Ring, Flow, Rows, user.at \in Active, user'.at \in Active,
         opt' = opt, worker' = worker, complete' = complete, Latest' = Latest,
         \A u \in Threads : /\ th'[u].pkt = th[u].pkt /\ th'[u].frame = th[u].frame
                            /\ th'[u].ctx.held = th[u].ctx.held
                            /\ Undecided(u)' <=> Undecided(u)
                            /\ Off(u)' = Off(u),
         hist'.flushed = hist.flushed, hist'.returned = hist.returned,
         hist.dropped \subseteq hist'.dropped, user'.got = user.got,
         Sent' \in Int, Sent <= Sent', \A n \in Sent + 1 .. Sent' : n \in hist'.dropped
  PROVE  /\ Order' /\ Accounted' /\ Holding' /\ Rows'
         /\ Queue' = Queue /\ \A u \in Threads : Item(u)' = Item(u)
<1>1. Queue' = Queue /\ \A u \in Threads : Item(u)' = Item(u)
  <2>1. Latest \in Threads \cup {Nobody}
    BY PieceTypes DEF Somebody
  <2>2. Queue' = Queue
    BY <2>1 DEF Queue
  <2> QED BY <2>2 DEF Item
<1>2. Elems(hist.returned)' = Elems(hist.returned) /\ Elems(Queue)' = Elems(Queue)
  BY <1>1 DEF Elems
<1>3. \A n \in Nat : Behind(n) => Behind(n)'
  BY <1>2, PieceTypes DEF Behind
<1>4. Order'
  <2>1. \A u \in Threads : Item(u)' # 0 => Behind(Item(u))'
    <3> SUFFICES ASSUME NEW u \in Threads, Item(u)' # 0 PROVE Behind(Item(u))'
      OBVIOUS
    <3>1. PICK n \in Nat : n = Item(u)'
      BY <1>1, PieceTypes
    <3>2. Behind(n)'
      BY <1>1, <1>3, <3>1 DEF Flow, Order
    <3> QED BY <3>1, <3>2 DEF Behind
  <2>2. \A x \in Elems(Queue) : Behind(x)'
    BY <1>3, NoElems, PieceTypes DEF Flow, Order
  <2>3. Order
    BY DEF Flow
  <2> QED BY <1>1, <2>1, <2>2, <2>3, OrderKept
<1>5. Accounted'
  <2> SUFFICES ASSUME NEW n \in hist.flushed + 1 .. Sent'
               PROVE  \/ n \in hist'.dropped \/ n = user.got \/ n \in Elems(hist.returned)
                      \/ \E u \in Threads : Item(u) = n
                      \/ n \in Elems(Queue)
    BY <1>1, <1>2 DEF Accounted
  <2>1. CASE n <= Sent
    BY <2>1, PieceTypes, SMTT(30) DEF Flow, Accounted
  <2>2. CASE ~(n <= Sent)
    BY <2>2, PieceTypes
  <2> QED BY <2>1, <2>2
<1>6. Holding'
  BY <1>1 DEF Flow, Holding
<1>7. Rows'
  <2>1. \A u \in Threads : Off(u) \in Int /\ Off(u)' = Off(u)
    BY OffIs, Turns
  <2>2. \A n : Rowing(n)' <=> Rowing(n)
    BY DEF Rowing
  <2>3. \A u \in Threads : th'[u].frame # 0 =>
          \/ th'[u].frame \in complete'
          \/ \E v \in Threads : /\ th'[v].pkt = th'[u].frame /\ worker'[v] \in {"async", "rows"}
                               /\ Off(v)' <= Off(u)'
    BY <2>1 DEF Rows
  <2> QED BY <1>2, <2>2, <2>3 DEF Rows
<1> QED BY <1>1, <1>4, <1>5, <1>6, <1>7

(* A step that returns nothing and does not end the draining. *)
LEMMA SameReturned ==
  ASSUME EachFrameOnce, ReturnedComplete,
         hist'.flushed = hist.flushed, hist'.returned = hist.returned,
         hist.dropped \subseteq hist'.dropped, complete \subseteq complete',
         ~dec'.done \/ (dec' = dec /\ hist'.given = hist.given)
  PROVE  EachFrameOnce' /\ ReturnedComplete'
<1>1. InOrder' /\ ReturnedComplete'
  BY DEF EachFrameOnce, InOrder, ReturnedComplete, Returned
<1>2. NoneLeft'
  BY DEF EachFrameOnce, NoneLeft, Returned
<1> QED BY <1>1, <1>2 DEF EachFrameOnce

(* Out of a call and its packets nothing is asked but this. *)
LEMMA Resting ==
  ASSUME Flow, Rows, EachFrameOnce, ReturnedComplete,
         UNCHANGED <<opt, dec, hist, complete>>, user.at \notin Calling,
         user'.at \notin Active, user'.got = user.got,
         \A u \in Threads : th'[u].ctx.held = th[u].ctx.held
  PROVE  Flow' /\ Rows' /\ EachFrameOnce' /\ ReturnedComplete'
<1>1. Calls' /\ Holding' /\ Draining'
  BY DEF Flow, Calls, Holding, Draining, Active, Calling, Elems, Sent
<1>2. EachFrameOnce' /\ ReturnedComplete'
  BY SameReturned
<1> QED BY <1>1, <1>2 DEF Flow, Rows

(* The calls, and the steps of a call that do not touch the packets. *)
LEMMA CallFlow ==
  ASSUME TypeOK, Ring, \A t \in Threads : Machine(t), Flow, Rows, EachFrameOnce, ReturnedComplete,
         SendPacket \/ Drain \/ SubmitNothing \/ LockThread \/ AwaitSetup \/ CopyFails
  PROVE  Flow' /\ Rows' /\ EachFrameOnce' /\ ReturnedComplete'
<1>0. /\ user \in Users /\ hist \in Histories /\ th \in [Threads -> PerThread] /\ DOMAIN th = Threads
      /\ fctx \in FrameContexts /\ Sent \in Int /\ hist.given \in Nat
      /\ dec \in [draining : BOOLEAN, done : BOOLEAN, errors : Nat]
  BY PieceTypes DEF TypeOK, FrameContexts
<1>1. ASSUME user.at \in Active \ {"callback"}, user'.at \in Active \ {"callback"},
             opt' = opt, worker' = worker, complete' = complete, fctx'.prev = fctx.prev,
             fctx'.finished = fctx.finished,
             \A u \in Threads : /\ th'[u].pkt = th[u].pkt /\ th'[u].frame = th[u].frame
                                /\ th'[u].ctx.held = th[u].ctx.held /\ th'[u].state = th[u].state,
             hist'.flushed = hist.flushed, hist'.returned = hist.returned,
             hist.dropped \subseteq hist'.dropped, user'.got = user.got,
             Sent' \in Int, Sent <= Sent', \A n \in Sent + 1 .. Sent' : n \in hist'.dropped
      PROVE  Order' /\ Accounted' /\ Holding' /\ Rows'
  <2>1. Latest' = Latest /\ \A u \in Threads : Off(u)' = Off(u)
    BY <1>1 DEF Latest, Off
  <2>2. \A u \in Threads : Undecided(u)' <=> Undecided(u)
    BY <1>1 DEF Undecided
  <2> QED BY <1>1, <2>1, <2>2, SameFlow
<1>2. user.at # "return" => user.got = 0
  BY DEF Flow, Calls
<1>3. CASE SendPacket
  <2>1. /\ user.at = "idle" /\ user'.at = "submit" /\ user'.pkt = hist.given + 1
        /\ user'.got = 0 /\ UNCHANGED <<opt, fctx, dec, th, worker, complete>>
        /\ ~dec.draining
        /\ hist'.given = hist.given + 1 /\ hist'.flushed = hist.flushed
        /\ hist'.returned = hist.returned /\ hist'.dropped = hist.dropped
    BY <1>0, <1>3 DEF SendPacket, Users, Histories
  <2>2. Sent' = Sent
    BY <1>0, <2>1 DEF Sent
  <2>3. Order' /\ Accounted' /\ Holding' /\ Rows'
    BY <1>0, <1>1, <1>2, <2>1, <2>2 DEF Active, Calling
  <2>4. ~dec.done /\ hist.flushed <= Sent /\ \A x \in Elems(hist.returned) : x <= Sent
    BY <2>1 DEF Flow, Calls
  <2>6. Elems(hist.returned)' = Elems(hist.returned)
    BY <2>1 DEF Elems
  <2>5. Calls' /\ Draining'
    BY <1>0, <2>1, <2>2, <2>4, <2>6 DEF Calls, Draining
  <2> QED BY <2>1, <2>3, <2>4, <2>5, SameReturned DEF Flow
<1>4. CASE Drain
  <2>1. /\ user.at = "idle" /\ user'.at = "submit" /\ user'.pkt = 0
        /\ user'.got = 0 /\ UNCHANGED <<opt, fctx, hist, th, worker, complete>>
        /\ ~dec.done /\ ~dec'.done
    BY <1>0, <1>4 DEF Drain, Users
  <2>2. Sent' = Sent
    BY <1>0, <2>1 DEF Sent
  <2>3. Order' /\ Accounted' /\ Holding' /\ Rows'
    BY <1>0, <1>1, <1>2, <2>1, <2>2 DEF Active, Calling
  <2>4. Calls' /\ Draining'
    BY <1>0, <2>1, <2>2 DEF Flow, Calls, Draining, Elems
  <2> QED BY <2>1, <2>3, <2>4, SameReturned DEF Flow
<1>5. CASE SubmitNothing
  <2>1. /\ user.at = "submit" /\ user.pkt = 0 /\ user'.pkt = 0 /\ ~opt.delayed
        /\ UNCHANGED <<opt, dec, th, worker, complete, hist>>
        /\ fctx'.prev = fctx.prev /\ fctx'.finished = fctx.finished
        /\ user'.at = "collect" /\ user'.got = user.got
    BY <1>0, <1>5 DEF SubmitNothing, Submitted, Users, FrameContexts, ReturnsNone
  <2>2. Sent' = Sent
    BY <2>1 DEF Sent
  <2>3. Order' /\ Accounted' /\ Holding' /\ Rows'
    BY <1>0, <1>1, <2>1, <2>2 DEF Active, Calling
  <2>4. Calls' /\ Draining'
    BY <1>0, <2>1, <2>2 DEF Flow, Calls, Draining, Elems, Calling
  <2> QED BY <2>1, <2>3, <2>4, SameReturned DEF Flow
<1>6. CASE LockThread
  <2>1. /\ user.at = "submit" /\ user'.at = "copy" /\ user'.pkt = user.pkt /\ user'.got = user.got
        /\ UNCHANGED <<opt, fctx, dec, worker, complete, hist>>
    BY <1>0, <1>6 DEF LockThread, Goes, Users
  <2>2. \A u \in Threads : /\ th'[u].pkt = th[u].pkt /\ th'[u].frame = th[u].frame
                           /\ th'[u].ctx.held = th[u].ctx.held /\ th'[u].state = th[u].state
    BY <1>0, <1>6 DEF LockThread, PerThread
  <2>3. Sent' = Sent
    BY <2>1 DEF Sent
  <2>4. Order' /\ Accounted' /\ Holding' /\ Rows'
    BY <1>0, <1>1, <2>1, <2>2, <2>3 DEF Active, Calling
  <2>5. Calls' /\ Draining'
    BY <1>0, <2>1, <2>3 DEF Flow, Calls, Draining, Elems, Calling
  <2> QED BY <2>1, <2>4, <2>5, SameReturned DEF Flow
<1>7. CASE AwaitSetup
  <2>1. user.at = "copy" /\ UNCHANGED <<opt, user, fctx, dec, th, worker, complete, hist>>
    BY <1>7 DEF AwaitSetup
  <2>2. Sent' = Sent
    BY <2>1 DEF Sent
  <2>3. Order' /\ Accounted' /\ Holding' /\ Rows'
    BY <1>0, <1>1, <2>1, <2>2 DEF Active, Calling
  <2>4. Calls' /\ Draining'
    BY <1>0, <2>1, <2>2 DEF Flow, Calls, Draining, Elems, Calling
  <2> QED BY <2>1, <2>3, <2>4, SameReturned DEF Flow
<1>8. CASE CopyFails
  <2>1. /\ user.at = "copy" /\ user'.at = "return" /\ user'.pkt = user.pkt /\ user'.got = user.got
        /\ user'.err = -1 /\ UNCHANGED <<opt, fctx, dec, th, worker, complete>>
        /\ hist'.given = hist.given /\ hist'.flushed = hist.flushed
        /\ hist'.returned = hist.returned /\ hist'.dropped = hist.dropped \cup {user.pkt}
    BY <1>0, <1>8 DEF CopyFails, Failed, Users, Histories
  <2>2. user.pkt # 0 => user.pkt = hist.given
    BY <2>1 DEF Flow, Calls, Calling
  <2>3. /\ Sent' = hist.given /\ Sent = IF user.pkt # 0 THEN hist.given - 1 ELSE hist.given
    BY <2>1 DEF Sent
  <2>4. Order' /\ Accounted' /\ Holding' /\ Rows'
    BY <1>0, <1>1, <2>1, <2>2, <2>3 DEF Active, Calling
  <2>6. Elems(hist.returned)' = Elems(hist.returned)
    BY <2>1 DEF Elems
  <2>5. Calls' /\ Draining' /\ ~dec.done
    <3>1. /\ hist.flushed <= Sent /\ ~dec.done /\ user.got = 0
          /\ \A x \in Elems(hist.returned) : x <= Sent
      BY <2>1 DEF Flow, Calls, Calling
    <3>2. Elems(hist.returned) \subseteq Nat /\ hist.flushed \in Nat
      BY PieceTypes, NoElems
    <3>3. hist'.flushed <= Sent' /\ \A x \in Elems(hist.returned)' : x <= Sent'
      BY <1>0, <2>1, <2>3, <2>6, <3>1, <3>2
    <3> QED BY <1>0, <2>1, <2>2, <3>1, <3>3 DEF Calls, Draining
  <2> QED BY <2>1, <2>4, <2>5, SameReturned DEF Flow
<1> QED BY <1>3, <1>4, <1>5, <1>6, <1>7, <1>8

(* The caller answers, or goes on when the thread has set up. *)
LEMMA CallBackFlow ==
  ASSUME TypeOK, Ring, \A t \in Threads : Machine(t), Flow, Rows, EachFrameOnce, ReturnedComplete,
         CallBack
  PROVE  Flow' /\ Rows' /\ EachFrameOnce' /\ ReturnedComplete'
<1>0. /\ user \in Users /\ hist \in Histories /\ th \in [Threads -> PerThread] /\ DOMAIN th = Threads
      /\ fctx \in FrameContexts /\ Sent \in Int /\ Current \in Threads /\ Current # Nobody
      /\ user.at = "callback" /\ Latest = Current
      /\ UNCHANGED <<opt, dec, worker, complete>> /\ ~dec.done
      /\ user.got = 0 /\ (user.pkt # 0 => user.pkt = hist.given)
      /\ Sent = hist.given
  <2>1. user.at = "callback" /\ UNCHANGED <<opt, dec, worker, complete>>
    BY DEF CallBack
  <2>2. ~dec.done /\ user.got = 0 /\ (user.pkt # 0 => user.pkt = hist.given)
    BY <2>1 DEF Flow, Calls, Calling
  <2> QED BY <2>1, <2>2, PieceTypes, Indices, Consts DEF TypeOK, FrameContexts, Latest, Sent
<1>1. CASE UNCHANGED <<user, fctx, th, hist>>
  <2>1. Latest' = Latest /\ Sent' = Sent
    BY <1>0, <1>1 DEF Latest, Sent, Current
  <2>2. \A u \in Threads : (Undecided(u)' <=> Undecided(u)) /\ Off(u)' = Off(u)
    BY <1>0, <1>1 DEF Undecided, Off
  <2>3. Order' /\ Accounted' /\ Holding' /\ Rows' /\ Queue' = Queue
    BY <1>0, <1>1, <2>1, <2>2, SameFlow DEF Active, Calling
  <2>4. Calls' /\ Draining'
    <3>1. Undecided(Latest)' <=> Undecided(Latest)
      BY <1>0, <1>1, <2>1 DEF Undecided
    <3> QED BY <1>0, <1>1, <2>1, <2>3, <3>1 DEF Flow, Calls, Draining, Elems
  <2> QED BY <1>0, <1>1, <2>3, <2>4, SameReturned DEF Flow
<1>2. CASE /\ Asks(Current)
           /\ \E r \in (IF th[Current].state = "buffer" THEN Results ELSE {0}) :
                /\ th' = [th EXCEPT ![Current].state = "setup", ![Current].result = r]
                /\ hist' = Failed(r, {})
           /\ UNCHANGED <<user, fctx>>
  <2>1. PICK r : /\ th' = [th EXCEPT ![Current].state = "setup", ![Current].result = r]
                 /\ hist' = Failed(r, {})
    BY <1>2
  <2>2. PICK c \in Threads : c = Current /\ Latest = c
    BY <1>0
  <2>3. /\ \A u \in Threads : /\ th'[u].pkt = th[u].pkt /\ th'[u].frame = th[u].frame
                              /\ th'[u].ctx.held = th[u].ctx.held
        /\ \A u \in Threads \ {c} : th'[u].state = th[u].state
        /\ th'[c].state = "setup"
    BY <1>0, <2>1, <2>2 DEF PerThread
  <2>4. worker[c] \in {"format", "buffer"}
    BY <1>2, <2>2 DEF Machine
  <2>5. Undecided(c)' /\ \A u \in Threads : Undecided(u)' <=> Undecided(u)
    BY <1>0, <2>3, <2>4 DEF Undecided
  <2>6. /\ hist'.flushed = hist.flushed /\ hist'.returned = hist.returned /\ hist'.given = hist.given
        /\ hist'.dropped = hist.dropped
    BY <1>0, <2>1 DEF Failed, Histories
  <2>7. Latest' = Latest /\ Sent' = Sent /\ \A u \in Threads : Off(u)' = Off(u)
    BY <1>0, <1>2, <2>6 DEF Latest, Sent, Current, Off
  <2>8. Order' /\ Accounted' /\ Holding' /\ Rows' /\ Queue' = Queue
    BY <1>0, <1>2, <2>3, <2>5, <2>6, <2>7, SameFlow DEF Active, Calling
  <2>9. Calls'
    BY <1>0, <1>2, <2>6, <2>7 DEF Flow, Calls, Elems
  <2>10. Draining'
    <3>1. Undecided(Latest)'
      BY <2>2, <2>5, <2>7 DEF Undecided
    <3>2. user.pkt = 0 /\ opt.delayed => th'[Latest].pkt = 0
      BY <1>0, <2>2, <2>3 DEF Flow, Draining
    <3> QED BY <1>0, <1>2, <2>7, <3>1, <3>2 DEF Draining
  <2> QED BY <1>0, <2>6, <2>8, <2>9, <2>10, SameReturned DEF Flow
<1>3. CASE Submitted(Current + 1, Current) /\ UNCHANGED <<th, hist>>
  <2>1. /\ \A u \in Threads : Off(u)' = Off(u)
        /\ user'.at \in {"return", "collect"} /\ user'.pkt = user.pkt /\ user'.got = user.got
        /\ Latest' = Latest /\ (user'.at = "return" => user.pkt # 0)
    BY <1>0, <1>3, SubmittedRing
  <2>2. Sent' = Sent /\ \A u \in Threads : Undecided(u)' <=> Undecided(u)
    BY <1>0, <1>3, <2>1 DEF Sent, Undecided
  <2>3. Order' /\ Accounted' /\ Holding' /\ Rows' /\ Queue' = Queue
    BY <1>0, <1>3, <2>1, <2>2, SameFlow DEF Active, Calling
  <2>4. Calls' /\ Draining'
    <3>1. Undecided(Latest)' <=> Undecided(Latest)
      BY <1>0, <1>3, <2>1 DEF Undecided
    <3> QED BY <1>0, <1>3, <2>1, <2>2, <2>3, <3>1 DEF Flow, Calls, Draining, Elems
  <2> QED BY <1>0, <1>3, <2>3, <2>4, SameReturned DEF Flow
<1> QED BY <1>1, <1>2, <1>3 DEF CallBack

(* A packet is handed to the next thread, which takes over the context. *)
LEMMA CopyIs ==
  ASSUME TypeOK, Ring, \A t \in Threads : Machine(t), Flow, CopyContext,
         NEW c \in Threads, c = Current
  PROVE  /\ user.at = "copy" /\ worker[c] = "wait" /\ Spent(c)
         /\ UNCHANGED <<opt, dec, worker, complete, hist>>
         /\ \A u \in Threads \ {c} : th'[u] = th[u]
         /\ th'[c].pkt = user.pkt /\ th'[c].state = "setup" /\ th'[c].frame = 0
         /\ Latest' = c /\ \A u \in Threads : Off(u)' = Off(u) /\ Off(u) \in Int
         /\ \A u \in Threads : Off(u) > Off(c) => Spent(u)
         /\ user'.at \in {"return", "collect", "callback"} /\ user'.pkt = user.pkt
         /\ user'.got = user.got /\ (user'.at = "return" => user.pkt # 0)
         /\ Queue' = Queue /\ th'[c].ctx.held = Queue
<1>0. /\ user \in Users /\ th \in [Threads -> PerThread] /\ DOMAIN th = Threads /\ th[c] \in PerThread
      /\ c # Nobody /\ fctx.prev \in Threads \cup {Nobody} /\ user.at = "copy"
      /\ worker[c] = "wait"
      /\ UNCHANGED <<opt, dec, worker, complete, hist>>
  BY Consts DEF TypeOK, CopyContext, Somebody, Ring
<1>1. th' = [th EXCEPT ![c].ctx = CopiedContext, ![c].pkt = user.pkt, ![c].state = "setup"]
  BY DEF CopyContext
<1>2. \A u \in Threads \ {c} : th'[u] = th[u]
  BY <1>0, <1>1
<1>3. /\ th'[c].pkt = user.pkt /\ th'[c].state = "setup" /\ th'[c].frame = th[c].frame
      /\ th'[c].ctx = CopiedContext
  <2> DEFINE x == CopiedContext
  <2>1. th' = [th EXCEPT ![c].ctx = x, ![c].pkt = user.pkt, ![c].state = "setup"]
    BY <1>1
  <2> HIDE DEF x
  <2>2. th'[c].pkt = user.pkt /\ th'[c].state = "setup" /\ th'[c].frame = th[c].frame /\ th'[c].ctx = x
    BY <1>0, <2>1 DEF PerThread
  <2> QED BY <2>2 DEF x
<1>4. /\ \A u \in Threads : Off(u) \in Int
      /\ Span = Off(c)
      /\ \A u \in Threads : Out(u) \/ Spent(u)
  BY <1>0, OffIs, Turns DEF Ring, Active, Calling
<1>5. Spent(c) /\ \A u \in Threads : Off(u) > Off(c) => Spent(u)
  <2>1. \A u \in Threads : Off(u) >= Off(c) => Spent(u)
    BY <1>0, <1>4 DEF Out
  <2> QED BY <1>4, <2>1
<1>6. /\ Latest' = c /\ \A u \in Threads : Off(u)' = Off(u)
      /\ user'.at \in {"return", "collect", "callback"} /\ user'.pkt = user.pkt
      /\ user'.got = user.got /\ (user'.at = "return" => user.pkt # 0)
  <2>1. CASE opt.own
    <3>1. user' = [user EXCEPT !.at = "callback"] /\ fctx' = fctx
      BY <2>1 DEF CopyContext, Goes
    <3>2. user'.at = "callback" /\ user'.pkt = user.pkt /\ user'.got = user.got
      BY <1>0, <3>1 DEF Users
    <3> QED BY <3>1, <3>2 DEF Latest, Off, Current
  <2>2. CASE ~opt.own
    <3>1. Submitted(Current + 1, Current)
      BY <2>2 DEF CopyContext
    <3> QED BY <1>0, <1>2, <3>1, SubmittedRing
  <2> QED BY <2>1, <2>2
<1>7. th'[c].ctx.held = Queue
  <2>1. Queue = IF fctx.prev = Nobody THEN <<>> ELSE th[fctx.prev].ctx.held
    BY <1>0 DEF Queue, Latest
  <2>2. CASE fctx.prev # Nobody /\ opt.update
    BY <1>3, <2>1, <2>2 DEF CopiedContext
  <2>3. CASE fctx.prev # Nobody /\ ~opt.update
    <3>1. th[c].ctx.held = <<>> /\ th[fctx.prev].ctx.held = <<>>
      BY <1>0, <2>3 DEF Flow, Holding
    <3> QED BY <1>3, <2>1, <2>3, <3>1 DEF CopiedContext
  <2>4. CASE fctx.prev = Nobody
    <3>1. th[c].ctx.held = <<>>
      BY <1>0, <2>4 DEF Flow, Holding, Latest, Active, Calling
    <3> QED BY <1>3, <2>1, <2>4, <3>1 DEF CopiedContext
  <2> QED BY <2>2, <2>3, <2>4
<1>8. Queue' = Queue
  BY <1>0, <1>6, <1>7 DEF Queue
<1> QED BY <1>0, <1>2, <1>3, <1>4, <1>5, <1>6, <1>7, <1>8 DEF Spent

(* Nobody else is undecided when the context is copied. *)
LEMMA SetUpBefore ==
  ASSUME TypeOK, Ring, \A t \in Threads : Machine(t), user.at = "copy", opt.update,
         fctx.prev # Nobody, ~SettingUp(fctx.prev)
  PROVE  worker[fctx.prev] \notin BeforeSetup /\ ~Undecided(fctx.prev)
<1>1. PICK p \in Threads : p = fctx.prev
  BY DEF TypeOK, Somebody
<1>2. th[p].state # "setup"
  BY <1>1 DEF SettingUp
<1>3. worker[p] \notin BeforeSetup
  BY <1>1, <1>2, Indices DEF Machine, InSetup, Asks
<1> QED BY <1>1, <1>2, <1>3 DEF Undecided, BeforeSetup

LEMMA CopyFlow ==
  ASSUME TypeOK, Ring, \A t \in Threads : Machine(t), Flow, Rows, EachFrameOnce, ReturnedComplete,
         CopyContext
  PROVE  Flow' /\ Rows' /\ EachFrameOnce' /\ ReturnedComplete'
<1>0. PICK c \in Threads : c = Current
  BY Indices DEF CopyContext
<1>1. /\ user.at = "copy" /\ worker[c] = "wait" /\ Spent(c)
      /\ UNCHANGED <<opt, dec, worker, complete, hist>>
      /\ \A u \in Threads \ {c} : th'[u] = th[u]
      /\ th'[c].pkt = user.pkt /\ th'[c].state = "setup" /\ th'[c].frame = 0
      /\ Latest' = c /\ \A u \in Threads : Off(u)' = Off(u) /\ Off(u) \in Int
      /\ \A u \in Threads : Off(u) > Off(c) => Spent(u)
      /\ user'.at \in {"return", "collect", "callback"} /\ user'.pkt = user.pkt
      /\ user'.got = user.got /\ (user'.at = "return" => user.pkt # 0)
      /\ Queue' = Queue /\ th'[c].ctx.held = Queue
  BY <1>0, CopyIs
<1>2. /\ Order /\ Accounted /\ ~dec.done /\ user.got = 0
      /\ user.pkt # 0 => user.pkt = hist.given
      /\ hist.flushed <= Sent /\ \A x \in Elems(hist.returned) : x <= Sent
  BY <1>1 DEF Flow, Calls, Active, Calling
<1>3. /\ hist.given \in Nat /\ hist.flushed \in Nat
      /\ Sent = (IF user.pkt # 0 THEN user.pkt - 1 ELSE hist.given) /\ Sent' = hist.given
      /\ Elems(hist.returned) \subseteq Nat /\ Elems(Queue) \subseteq Nat
      /\ Elems(hist.returned)' = Elems(hist.returned) /\ Elems(Queue)' = Elems(Queue)
      /\ \A u \in Threads : Item(u) \in Nat
      /\ Nobody \notin Threads
  BY <1>1, <1>2, PieceTypes, NoElems, Consts DEF Sent, Elems
<1>4. /\ Undecided(c)' /\ Item(c)' = user.pkt /\ Item(c) = 0
      /\ \A u \in Threads \ {c} : Item(u)' = Item(u) /\ (Undecided(u)' <=> Undecided(u))
      /\ \A u \in Threads : Off(u) > Off(c) => Item(u) = 0
  <2>1. Undecided(c)'
    BY <1>1 DEF Undecided
  <2>2. \A u \in Threads \ {c} : Undecided(u)' <=> Undecided(u)
    BY <1>1 DEF Undecided
  <2>3. Item(c)' = user.pkt /\ \A u \in Threads \ {c} : Item(u)' = Item(u)
    BY <1>1, <2>1, <2>2 DEF Item
  <2> QED BY <1>1, <2>1, <2>2, <2>3, SpentItem
<1>5. opt.update => \A u \in Threads : ~Undecided(u)
  <2> SUFFICES ASSUME opt.update, NEW u \in Threads, Undecided(u) PROVE FALSE
    OBVIOUS
  <2>1. u = fctx.prev
    BY <1>1 DEF Flow, Holding, Latest, Active, Calling
  <2>2. fctx.prev # Nobody /\ ~SettingUp(fctx.prev)
    BY <1>3, <2>1 DEF CopyContext
  <2> QED BY <1>1, <2>1, <2>2, SetUpBefore
<1>6. \A n \in Nat : (Behind(n) => Behind(n)' /\ (user.pkt # 0 => n < user.pkt))
                     /\ (n = user.pkt /\ n # 0 => Behind(n)')
  BY <1>1, <1>2, <1>3 DEF Behind
<1>7. Order'
  <2>1. \A u \in Threads : Item(u)' # 0 => Behind(Item(u))'
    <3> SUFFICES ASSUME NEW u \in Threads, Item(u)' # 0 PROVE Behind(Item(u))'
      OBVIOUS
    <3>1. PICK n \in Nat : n = Item(u)'
      BY <1>3, <1>4, <1>1 DEF TypeOK, Users
    <3>2. Behind(n)'
      BY <1>2, <1>4, <1>6, <3>1 DEF Order
    <3> QED BY <3>1, <3>2 DEF Behind
  <2>2. \A u, v \in Threads : Off(u)' < Off(v)' /\ Item(u)' # 0 /\ Item(v)' # 0 => Item(u)' < Item(v)'
    <3> SUFFICES ASSUME NEW u \in Threads, NEW v \in Threads, Off(u)' < Off(v)', Item(u)' # 0, Item(v)' # 0
                 PROVE  Item(u)' < Item(v)'
      OBVIOUS
    <3>1. Off(u) < Off(v)
      BY <1>1
    <3>2. CASE u # c /\ v # c
      BY <1>2, <1>4, <3>1, <3>2 DEF Order
    <3>3. CASE v = c
      <4>1. u # c /\ Item(u)' = Item(u) /\ Behind(Item(u))
        BY <1>1, <1>2, <1>4, <3>1, <3>3 DEF Order
      <4> QED BY <1>3, <1>4, <1>6, <3>3, <4>1
    <3>4. CASE u = c
      BY <1>1, <1>4, <3>1, <3>4
    <3> QED BY <3>2, <3>3, <3>4
  <2>3. \A x \in Elems(Queue) : Behind(x)' /\ (user.pkt # 0 => x < user.pkt)
    BY <1>2, <1>3, <1>6 DEF Order
  <2>4. \A u \in Threads, x \in Elems(Queue) :
          Item(u)' # 0 => IF Undecided(u)' THEN x < Item(u)' ELSE Item(u)' < x
    BY <1>2, <1>4, <2>3 DEF Order
  <2>5. Ascending(Queue)'
    BY <1>1, <1>2 DEF Order, Ascending
  <2> QED BY <1>3, <2>1, <2>2, <2>3, <2>4, <2>5 DEF Order
<1>8. Accounted'
  <2> SUFFICES ASSUME NEW n \in hist.flushed + 1 .. hist.given
               PROVE  \/ n \in hist.dropped \/ n = 0 \/ n \in Elems(hist.returned)
                      \/ \E u \in Threads : Item(u)' = n
                      \/ n \in Elems(Queue)
    BY <1>1, <1>2, <1>3 DEF Accounted
  <2>1. CASE n <= Sent
    <3>1. \/ n \in hist.dropped \/ n = 0 \/ n \in Elems(hist.returned)
          \/ \E u \in Threads : Item(u) = n
          \/ n \in Elems(Queue)
      BY <1>2, <1>3, <2>1 DEF Accounted
    <3> QED BY <1>3, <1>4, <3>1
  <2>2. CASE ~(n <= Sent)
    <3>1. n = user.pkt
      BY <1>2, <1>3, <2>2
    <3> QED BY <1>4, <3>1
  <2> QED BY <2>1, <2>2
<1>9. Holding'
  <2>1. ~opt.update \/ ~opt.delayed => \A u \in Threads : th'[u].ctx.held = <<>>
    <3>1. Latest \in Threads \cup {Nobody}
      BY PieceTypes DEF Somebody
    <3>2. ~opt.update \/ ~opt.delayed => Queue = <<>> /\ \A u \in Threads : th[u].ctx.held = <<>>
      BY <3>1 DEF Flow, Holding, Queue
    <3> QED BY <1>1, <3>2
  <2>2. \A u \in Threads : Undecided(u)' => th'[u].frame = 0 /\ (opt.update => u = c)
    BY <1>1, <1>4, <1>5 DEF Flow, Holding, Active, Calling
  <2> QED BY <1>1, <1>3, <2>1, <2>2 DEF Holding
<1>10. Draining'
  <2>1. Undecided(Latest)'
    BY <1>1, <1>4 DEF Undecided
  <2> QED BY <1>1, <1>3, <2>1 DEF Draining
<1>11. Calls'
  BY <1>1, <1>2, <1>3 DEF Calls
<1>12. Rows'
  <2>1. \A n : Rowing(n) => Rowing(n)'
    BY <1>1 DEF Rowing
  <2>2. ASSUME NEW u \in Threads, th'[u].frame # 0
        PROVE  \/ th'[u].frame \in complete'
               \/ \E v \in Threads : /\ th'[v].pkt = th'[u].frame /\ worker'[v] \in {"async", "rows"}
                                    /\ Off(v)' <= Off(u)'
    <3>1. u # c /\ th'[u] = th[u]
      BY <1>1, <2>2
    <3>2. \/ th[u].frame \in complete
          \/ \E v \in Threads : /\ th[v].pkt = th[u].frame /\ worker[v] \in {"async", "rows"}
                               /\ Off(v) <= Off(u)
      BY <1>1, <2>2, <3>1 DEF Rows, Active, Calling
    <3>3. \A v \in Threads : worker[v] \in {"async", "rows"} => th'[v] = th[v]
      BY <1>1
    <3> QED BY <1>1, <3>1, <3>2, <3>3
  <2>3. \A x \in Elems(Queue) : x \in complete \/ Rowing(x)'
    BY <1>1, <2>1 DEF Rows, Active, Calling
  <2> QED BY <1>1, <1>2, <1>3, <2>2, <2>3 DEF Rows
<1>13. EachFrameOnce' /\ ReturnedComplete'
  BY <1>1, SameReturned
<1> QED BY <1>7, <1>8, <1>9, <1>10, <1>11, <1>12, <1>13 DEF Flow

(* The frame the caller takes is the first of all that are left, and its     *)
(* rows are complete: whoever might still decode it comes before.            *)
LEMMA CollectFlow ==
  ASSUME TypeOK, Ring, \A t \in Threads : Machine(t), Flow, Rows, EachFrameOnce, ReturnedComplete,
         Collect
  PROVE  Flow' /\ Rows' /\ EachFrameOnce' /\ ReturnedComplete'
<1>0. /\ user.at = "collect" /\ Order /\ Accounted /\ ~dec.done /\ user.got = 0
      /\ user.pkt # 0 => user.pkt = hist.given
      /\ hist.flushed <= Sent /\ \A x \in Elems(hist.returned) : x <= Sent
      /\ Sent = hist.given
      /\ \A u \in Threads : Undecided(u) => th[u].frame = 0 /\ (opt.update => u = Latest)
      /\ Latest = Nobody => \A u \in Threads : th[u].ctx.held = <<>>
  BY DEF Flow, Calls, Collect, Active, Calling, Sent, Holding
<1>1. CASE Pending(user.i)
  <2>1. UNCHANGED <<opt, user, fctx, dec, th, worker, complete, hist>>
    BY <1>1 DEF Collect
  <2>2. Latest' = Latest /\ Sent' = Sent
    BY <2>1 DEF Latest, Sent, Current
  <2>3. \A u \in Threads : (Undecided(u)' <=> Undecided(u)) /\ Off(u)' = Off(u)
    BY <2>1 DEF Undecided, Off
  <2>4. Sent \in Int
    BY PieceTypes
  <2>5. Order' /\ Accounted' /\ Holding' /\ Rows' /\ Queue' = Queue
    BY <1>0, <2>1, <2>2, <2>3, <2>4, SameFlow DEF Active, Calling
  <2>6. Calls' /\ Draining'
    <3>1. Undecided(Latest)' <=> Undecided(Latest)
      BY <2>1, <2>2 DEF Undecided
    <3> QED BY <1>0, <2>1, <2>2, <2>5, <3>1 DEF Flow, Calls, Draining, Elems
  <2> QED BY <2>1, <2>5, <2>6, SameReturned DEF Flow
<1>2. CASE ~Pending(user.i)
  <2>0. PICK c \in Threads : c = user.i
    BY <1>0, Indices
  <2>1. /\ th[c].state = "ready"
        /\ \A u \in Threads \ {c} : th'[u] = th[u]
        /\ th'[c].frame = 0 /\ th'[c].result = 0 /\ th'[c].state = "ready"
        /\ th'[c].pkt = th[c].pkt /\ th'[c].ctx = th[c].ctx
        /\ UNCHANGED <<opt, dec, worker, complete, hist>>
        /\ user'.got = th[c].frame /\ user'.err = th[c].result /\ user'.pkt = user.pkt
        /\ user'.at = IF GoesOn(c, NextIndex(c)) THEN "collect" ELSE "return"
    BY <1>2, <2>0, CollectIs
  <2>2. /\ Latest' = Latest /\ Spent(c)'
        /\ \A u \in Threads \ {c} : Spent(u) \/ Off(u) > Off(c)
        /\ \E k \in Nat : \A u \in Threads : Spent(u)' \/ Off(u)' = Off(u) - k
        /\ user'.at = "return" /\ user'.pkt = 0 /\ user'.got = 0 /\ user'.err = 0
             => \A u \in Threads : Spent(u)'
    BY <1>2, <2>0, CollectRing
  <2>3. PICK k \in Nat : \A u \in Threads : Spent(u)' \/ Off(u)' = Off(u) - k
    BY <2>2
  <2>4. /\ \A u \in Threads : Undecided(u)' <=> Undecided(u)
        /\ \A u \in Threads \ {c} : Item(u)' = Item(u) /\ (Spent(u)' <=> Spent(u))
        /\ ~Undecided(c) /\ Item(c) = th[c].frame /\ Item(c)' = 0
        /\ worker[c] \in {"wait", "exited"}
    <3>1. worker[c] \in {"wait", "exited"} /\ ~Undecided(c)
      BY <2>1 DEF Machine, Undecided
    <3>2. \A u \in Threads : Undecided(u)' <=> Undecided(u)
      BY <2>1, <3>1 DEF Undecided
    <3> QED BY <2>1, <3>1, <3>2 DEF Item, Spent
  <2>5. /\ \A u \in Threads : Item(u) # 0 /\ u # c => Off(u) > Off(c)
        /\ \A u \in Threads : Item(u)' # 0 => Off(u)' = Off(u) - k
    BY <2>2, <2>3, <2>4, SpentItem
  <2>6. /\ Queue' = Queue /\ Elems(Queue)' = Elems(Queue) /\ Elems(hist.returned)' = Elems(hist.returned)
        /\ Sent' = Sent
    <3>1. Latest \in Threads \cup {Nobody}
      BY PieceTypes DEF Somebody
    <3>2. Queue' = Queue
      BY <2>1, <2>2, <3>1 DEF Queue
    <3> QED BY <1>0, <2>1, <3>2 DEF Elems, Sent
  <2>7. /\ Elems(Queue) \subseteq Nat /\ \A u \in Threads : Item(u) \in Nat /\ Off(u) \in Int
        /\ hist.flushed \in Nat /\ Sent \in Int
    <3>1. \A u \in Threads : Off(u) \in Int
      BY OffIs, Turns
    <3> QED BY <3>1, PieceTypes, NoElems
  <2>8. \A n \in Nat : Behind(n) /\ th[c].frame < n => Behind(n)'
    BY <2>1, <2>6 DEF Behind
  <2>9. \A u \in Threads : Item(u)' # 0 => u # c /\ Behind(Item(u)) /\ th[c].frame < Item(u)
    <3> SUFFICES ASSUME NEW u \in Threads, Item(u)' # 0
                 PROVE  u # c /\ Behind(Item(u)) /\ th[c].frame < Item(u)
      OBVIOUS
    <3>1. u # c /\ Item(u) # 0 /\ Behind(Item(u)) /\ Off(c) < Off(u)
      BY <1>0, <2>4, <2>5, <2>7 DEF Order
    <3>2. CASE th[c].frame = 0
      BY <2>7, <3>1, <3>2
    <3>3. CASE th[c].frame # 0
      BY <1>0, <2>4, <3>1, <3>3 DEF Order
    <3> QED BY <3>1, <3>2, <3>3
  <2>10. \A x \in Elems(Queue) : Behind(x) /\ th[c].frame < x
    <3> SUFFICES ASSUME NEW x \in Elems(Queue) PROVE Behind(x) /\ th[c].frame < x
      OBVIOUS
    <3>1. Behind(x)
      BY <1>0 DEF Order
    <3>2. CASE th[c].frame = 0
      BY <2>7, <3>1, <3>2 DEF Behind
    <3>3. CASE th[c].frame # 0
      BY <1>0, <2>4, <3>3 DEF Order
    <3> QED BY <3>1, <3>2, <3>3
  <2>11. Order'
    <3>1. \A u \in Threads : Item(u)' # 0 => Behind(Item(u))'
      <4> SUFFICES ASSUME NEW u \in Threads, Item(u)' # 0 PROVE Behind(Item(u))'
        OBVIOUS
      <4>1. PICK n \in Nat : n = Item(u)'
        BY <2>4, <2>7, <2>9
      <4>2. Behind(n)'
        BY <2>4, <2>8, <2>9, <4>1
      <4> QED BY <4>1, <4>2 DEF Behind
    <3>2. \A x \in Elems(Queue) : Behind(x)'
      BY <2>7, <2>8, <2>10
    <3>3. \A u, v \in Threads : Item(u)' # 0 /\ Item(v)' # 0 /\ Off(u)' < Off(v)' => Off(u) < Off(v)
      BY <2>5, <2>7
    <3>4. \A u \in Threads : Item(u)' = 0 \/ (Item(u)' = Item(u) /\ (Undecided(u)' <=> Undecided(u)))
      BY <2>4
    <3> QED BY <1>0, <2>6, <3>1, <3>2, <3>3, <3>4, OrderKept
  <2>12. Accounted'
    <3> SUFFICES ASSUME NEW n \in hist.flushed + 1 .. Sent
                 PROVE  \/ n \in hist.dropped \/ n = th[c].frame \/ n \in Elems(hist.returned)
                        \/ \E u \in Threads : Item(u)' = n
                        \/ n \in Elems(Queue)
      BY <2>1, <2>6 DEF Accounted
    <3>1. \/ n \in hist.dropped \/ n = 0 \/ n \in Elems(hist.returned)
          \/ \E u \in Threads : Item(u) = n
          \/ n \in Elems(Queue)
      BY <1>0 DEF Accounted
    <3> QED BY <2>4, <2>7, <3>1
  <2>13. Calls'
    <3>1. user'.at # "return" => user'.got = 0
      BY <2>1 DEF GoesOn
    <3>2. th[c].frame # 0 => Behind(th[c].frame)
      BY <1>0, <2>4 DEF Order
    <3> QED BY <1>0, <2>1, <2>6, <3>1, <3>2 DEF Calls, Behind
  <2>14. Holding'
    BY <2>1, <2>2, <2>4, <1>0 DEF Flow, Holding
  <2>15. Draining'
    <3>1. opt.delayed /\ user.pkt = 0 =>
             \E p \in Threads : /\ p = Latest /\ th[p].pkt = 0
                                /\ Undecided(p) \/ th[p].frame # 0 \/ th[p].result # 0 \/ Queue = <<>>
      BY <1>0, PieceTypes DEF Flow, Draining, Somebody
    <3>2. ASSUME user'.at = "collect", user'.pkt = 0, opt.delayed
          PROVE  /\ Latest' # Nobody /\ th'[Latest'].pkt = 0
                 /\ Undecided(Latest)' \/ th'[Latest'].frame # 0 \/ th'[Latest'].result # 0 \/ Queue' = <<>>
      <4>1. PICK p \in Threads : /\ p = Latest /\ th[p].pkt = 0
                                 /\ Undecided(p) \/ th[p].frame # 0 \/ th[p].result # 0 \/ Queue = <<>>
        BY <2>1, <3>1, <3>2
      <4>2. th[c].frame = 0 /\ th[c].result = 0
        BY <2>1, <3>2 DEF GoesOn, TypeOK, PerThread
      <4>3. th'[p].pkt = 0 /\ th'[p].frame = th[p].frame /\ th'[p].result = th[p].result
        BY <2>1, <4>1, <4>2
      <4>4. Undecided(p) => Undecided(Latest)'
        BY <2>1, <2>2, <2>4, <4>1 DEF Undecided
      <4> QED BY <2>2, <2>6, <4>1, <4>3, <4>4, Consts
    <3>3. ASSUME user'.at = "return", user'.pkt = 0, user'.got = 0, user'.err = 0
          PROVE  Queue' = <<>> /\ \A u \in Threads : Spent(u)'
      <4>1. \A u \in Threads : Spent(u)'
        BY <2>2, <3>3
      <4>2. CASE opt.delayed
        <5>1. PICK p \in Threads : /\ p = Latest /\ th[p].pkt = 0
                                   /\ Undecided(p) \/ th[p].frame # 0 \/ th[p].result # 0 \/ Queue = <<>>
          BY <2>1, <3>1, <3>3, <4>2
        <5>2. ~Undecided(p) /\ th[p].frame = 0 /\ th[p].result = 0
          <6>1. CASE p = c
            BY <2>1, <2>4, <3>3, <6>1
          <6>2. CASE p # c
            BY <2>4, <4>1, <6>2, SpentItem DEF Spent
          <6> QED BY <6>1, <6>2
        <5> QED BY <2>6, <4>1, <5>1, <5>2
      <4>3. CASE ~opt.delayed
        <5>1. Latest \in Threads \cup {Nobody}
          BY PieceTypes DEF Somebody
        <5>2. Queue = <<>>
          BY <4>3, <5>1 DEF Flow, Holding, Queue
        <5> QED BY <2>6, <4>1, <5>2
      <4> QED BY <4>2, <4>3
    <3>4. user'.at # "callback"
      BY <2>1
    <3> QED BY <2>1, <3>2, <3>3, <3>4 DEF Draining
  <2>16. Rows'
    <3>1. ASSUME NEW v \in Threads, worker[v] \in {"async", "rows"}
          PROVE  v # c /\ th'[v] = th[v] /\ Off(v) > Off(c) /\ Off(v)' = Off(v) - k
      <4>1. v # c /\ ~Spent(v)
        BY <2>4, <3>1, SpentItem
      <4> QED BY <2>1, <2>2, <2>3, <2>4, <4>1
    <3>2. ASSUME NEW u \in Threads, th[u].frame # 0
          PROVE  \/ th[u].frame \in complete
                 \/ \E v \in Threads : /\ th[v].pkt = th[u].frame /\ worker[v] \in {"async", "rows"}
                                      /\ Off(v) <= Off(u)
      BY <1>0, <3>2 DEF Rows, Active, Calling
    <3>3. ASSUME NEW u \in Threads, th'[u].frame # 0
          PROVE  \/ th'[u].frame \in complete'
                 \/ \E v \in Threads : /\ th'[v].pkt = th'[u].frame /\ worker'[v] \in {"async", "rows"}
                                      /\ Off(v)' <= Off(u)'
      <4>1. u # c /\ th'[u] = th[u] /\ Off(u)' = Off(u) - k
        BY <2>1, <2>3, <3>3 DEF Spent
      <4>2. \/ th[u].frame \in complete
            \/ \E v \in Threads : /\ th[v].pkt = th[u].frame /\ worker[v] \in {"async", "rows"}
                                 /\ Off(v) <= Off(u)
        BY <3>2, <3>3, <4>1
      <4>3. CASE th[u].frame \in complete
        BY <2>1, <4>1, <4>3
      <4>4. ASSUME NEW v \in Threads, th[v].pkt = th[u].frame, worker[v] \in {"async", "rows"},
                   Off(v) <= Off(u)
            PROVE  th'[v].pkt = th'[u].frame /\ worker'[v] \in {"async", "rows"} /\ Off(v)' <= Off(u)'
        <5>1. Off(v)' = Off(v) - k /\ th'[v] = th[v]
          BY <3>1, <4>4
        <5> QED BY <2>1, <2>7, <4>1, <4>4, <5>1
      <4> QED BY <4>2, <4>3, <4>4
    <3>4. \A n : Rowing(n) => Rowing(n)'
      BY <2>1, <3>1 DEF Rowing
    <3>5. \A x \in Elems(Queue) : x \in complete \/ Rowing(x)'
      BY <1>0, <3>4 DEF Rows, Active, Calling
    <3>6. th[c].frame # 0 => th[c].frame \in complete
      BY <2>7, <3>1, <3>2
    <3> QED BY <2>1, <2>6, <3>3, <3>5, <3>6 DEF Rows
  <2>17. EachFrameOnce' /\ ReturnedComplete'
    BY <2>1, SameReturned
  <2> QED BY <2>11, <2>12, <2>13, <2>14, <2>15, <2>16, <2>17 DEF Flow
<1> QED BY <1>1, <1>2

(* The frame goes to the caller's caller. *)
LEMMA ReturnFlow ==
  ASSUME TypeOK, Ring, \A t \in Threads : Machine(t), Flow, Rows, EachFrameOnce, ReturnedComplete,
         Return
  PROVE  Flow' /\ Rows' /\ EachFrameOnce' /\ ReturnedComplete'
<1>0. /\ user.at = "return" /\ Order /\ Accounted /\ ~dec.done
      /\ user.got # 0 => /\ hist.flushed < user.got /\ user.got <= hist.given
                         /\ \A x \in Elems(hist.returned) : x < user.got
      /\ hist.flushed <= Sent /\ \A x \in Elems(hist.returned) : x <= Sent
      /\ Sent = hist.given
      /\ user.got # 0 => user.got \in complete
      /\ UNCHANGED <<opt, fctx, th, worker, complete>>
  BY DEF Flow, Rows, Calls, Return, Active, Calling, Sent
<1>1. /\ Latest' = fctx.prev /\ Latest = fctx.prev /\ Queue' = Queue
      /\ \A u \in Threads : /\ Undecided(u)' <=> Undecided(u)
                            /\ Off(u)' = Off(u) /\ Item(u)' = Item(u) /\ (Spent(u)' <=> Spent(u))
  <2>1. user'.at # "callback"
    BY <1>0 DEF Return, Idle
  <2> QED BY <1>0, <2>1 DEF Latest, Queue, Undecided, Off, Item, Spent
<1>2. CASE UNCHANGED <<user, dec, hist>>
  <2>1. Sent' = Sent /\ Sent \in Int
    BY <1>2, PieceTypes DEF Sent
  <2>2. Order' /\ Accounted' /\ Holding' /\ Rows'
    BY <1>0, <1>1, <1>2, <2>1, SameFlow DEF Active, Calling
  <2>3. Calls' /\ Draining'
    BY <1>0, <1>1, <1>2, <2>1 DEF Flow, Calls, Draining, Elems
  <2> QED BY <1>0, <1>2, <2>2, <2>3, SameReturned DEF Flow
<1>3. CASE /\ user' = Idle /\ dec' = AfterCall
           /\ hist' = IF user.got = 0 THEN hist
                      ELSE [hist EXCEPT !.returned = Append(@, user.got)]
  <2> DEFINE r == hist.returned
             g == user.got
  <2>0. r \in Seq(Nat) /\ g \in Nat /\ hist.flushed \in Nat /\ hist.given \in Nat
    BY PieceTypes DEF TypeOK, Users
  <2>1. /\ user'.at = "idle" /\ user'.got = 0 /\ Sent' = hist.given
        /\ hist'.given = hist.given /\ hist'.flushed = hist.flushed /\ hist'.dropped = hist.dropped
        /\ hist'.returned = IF g = 0 THEN r ELSE Append(r, g)
    BY <1>3 DEF Idle, Sent, TypeOK, Histories
  <2>2. /\ Len(r) \in Nat
        /\ g # 0 => /\ Len(Append(r, g)) = Len(r) + 1 /\ Append(r, g)[Len(r) + 1] = g
                    /\ \A i \in 1 .. Len(r) : Append(r, g)[i] = r[i]
    BY <2>0
  <2> DEFINE q == hist'.returned
  <2>3. \/ g = 0 /\ q = r
        \/ /\ g # 0 /\ Len(q) = Len(r) + 1 /\ q[Len(r) + 1] = g
           /\ \A i \in 1 .. Len(r) : q[i] = r[i]
    BY <2>1, <2>2
  <2> HIDE DEF q
  <2>4. Elems(q) = Elems(r) \cup (IF g = 0 THEN {} ELSE {g})
    <3>1. CASE g = 0
      BY <2>3, <3>1
    <3>2. CASE g # 0
      <4>1. ASSUME NEW i \in 1 .. Len(q) PROVE q[i] \in Elems(r) \cup {g}
        BY <2>2, <2>3, <3>2 DEF Elems
      <4>2. ASSUME NEW i \in 1 .. Len(r) PROVE r[i] \in Elems(q)
        <5>1. i \in 1 .. Len(q) /\ q[i] = r[i]
          BY <2>2, <2>3, <3>2
        <5> QED BY <5>1 DEF Elems
      <4>3. g \in Elems(q)
        <5>1. Len(r) + 1 \in 1 .. Len(q) /\ q[Len(r) + 1] = g
          BY <2>2, <2>3, <3>2
        <5> QED BY <5>1 DEF Elems
      <4> QED BY <3>2, <4>1, <4>2, <4>3 DEF Elems
    <3> QED BY <3>1, <3>2
  <2>5. Elems(hist.returned)' = Elems(q) /\ Elems(Queue)' = Elems(Queue)
    BY <1>1 DEF Elems, q
  <2>6. \A n \in Nat : Behind(n) => Behind(n)'
    <3> SUFFICES ASSUME NEW n \in Nat, Behind(n) PROVE Behind(n)'
      OBVIOUS
    <3>1. hist.flushed < n /\ n <= Sent /\ g < n /\ \A x \in Elems(r) : x < n
      BY DEF Behind
    <3>2. \A x \in Elems(q) : x < n
      BY <2>4, <3>1
    <3>3. 0 < n
      BY <2>0, <3>1
    <3> QED BY <1>0, <2>1, <2>5, <3>1, <3>2, <3>3 DEF Behind
  <2>7. Order'
    <3>1. \A u \in Threads : Item(u)' # 0 => Behind(Item(u))'
      <4> SUFFICES ASSUME NEW u \in Threads, Item(u)' # 0 PROVE Behind(Item(u))'
        OBVIOUS
      <4>1. PICK n \in Nat : n = Item(u)'
        BY <1>1, PieceTypes
      <4>2. Behind(n)'
        BY <1>0, <1>1, <2>6, <4>1 DEF Order
      <4> QED BY <4>1, <4>2 DEF Behind
    <3>2. \A x \in Elems(Queue) : Behind(x)'
      <4>1. Elems(Queue) \subseteq Nat
        BY PieceTypes DEF Elems
      <4> QED BY <1>0, <2>6, <4>1 DEF Order
    <3> QED BY <1>0, <1>1, <3>1, <3>2, OrderKept
  <2>8. Accounted'
    <3> SUFFICES ASSUME NEW n \in hist.flushed + 1 .. hist.given
                 PROVE  \/ n \in hist.dropped \/ n \in Elems(q)
                        \/ \E u \in Threads : Item(u) = n
                        \/ n \in Elems(Queue)
      BY <1>1, <2>1, <2>5 DEF Accounted
    <3>1. \/ n \in hist.dropped \/ n = g \/ n \in Elems(r)
          \/ \E u \in Threads : Item(u) = n
          \/ n \in Elems(Queue)
      BY <1>0 DEF Accounted
    <3>2. n # 0
      BY <2>0
    <3> QED BY <2>4, <3>1, <3>2
  <2>9. dec'.done => dec.draining /\ dec'.draining
    BY <1>0, <1>3 DEF AfterCall, TypeOK
  <2>10. Calls'
    <3>1. hist'.flushed <= Sent' /\ \A x \in Elems(q) : x <= Sent'
      BY <1>0, <2>1, <2>4
    <3> QED BY <1>0, <2>1, <2>5, <2>9, <3>1 DEF Calls, Calling
  <2>11. Holding' /\ Draining'
    BY <1>0, <1>1, <2>1 DEF Flow, Holding, Draining, Active, Calling
  <2>12. Rows'
    <3>1. \A n : Rowing(n)' <=> Rowing(n)
      BY <1>0 DEF Rowing
    <3>2. \A u \in Threads : th[u].frame # 0 =>
           \/ th[u].frame \in complete
           \/ \E v \in Threads : /\ th[v].pkt = th[u].frame /\ worker[v] \in {"async", "rows"}
                                /\ Off(v)' <= Off(u)'
      BY <1>0, <1>1 DEF Rows, Active, Calling
    <3>3. \A x \in Elems(Queue) : x \in complete \/ Rowing(x)
      BY <1>0 DEF Rows, Active, Calling
    <3> QED BY <1>0, <2>1, <2>5, <3>1, <3>2, <3>3 DEF Rows
  <2>13. InOrder' /\ ReturnedComplete'
    <3>1. \A i \in 1 .. Len(r) : r[i] \in complete /\ r[i] > hist.flushed
      BY DEF ReturnedComplete, EachFrameOnce, InOrder, Returned
    <3>2. \A i, j \in 1 .. Len(r) : i < j => r[i] < r[j]
      BY DEF EachFrameOnce, InOrder, Returned
    <3>3. g # 0 => g \in complete /\ g > hist.flushed /\ \A i \in 1 .. Len(r) : r[i] < g
      BY <1>0, <2>0 DEF Elems
    <3>4. \A i \in 1 .. Len(q) : q[i] \in complete /\ q[i] > hist.flushed
      BY <2>2, <2>3, <3>1, <3>3
    <3>5. \A i, j \in 1 .. Len(q) : i < j => q[i] < q[j]
      BY <2>2, <2>3, <3>2, <3>3
    <3> QED BY <1>0, <2>1, <3>4, <3>5 DEF InOrder, ReturnedComplete, Returned, q
  <2>14. NoneLeft'
    <3> SUFFICES ASSUME dec'.done, dec'.errors <= MaxErrors, NEW n \in hist.flushed + 1 .. hist.given
                 PROVE  n \in hist.dropped \/ \E i \in 1 .. Len(q) : q[i] = n
      BY <2>1 DEF NoneLeft, Returned, q
    <3>1. dec.draining /\ g = 0 /\ (user.err < 0 => dec.errors >= MaxErrors /\ dec'.errors = dec.errors + 1)
      BY <1>0, <1>3 DEF AfterCall, TypeOK
    <3>2. user.err = 0
      BY <3>1, Consts DEF TypeOK, Users
    <3>3. user.pkt = 0
      BY <1>0, <3>1 DEF Ring, Calling
    <3>4. Queue = <<>> /\ \A u \in Threads : Spent(u)
      BY <1>0, <3>1, <3>2, <3>3 DEF Flow, Draining
    <3>5. n \notin Elems(Queue) /\ \A u \in Threads : Item(u) = 0
      BY <3>4, NoElems, SpentItem
    <3>6. n # 0
      BY <2>0
    <3>7. n \in hist.dropped \/ n \in Elems(r)
      BY <1>0, <3>1, <3>5, <3>6 DEF Accounted
    <3> QED BY <2>3, <3>1, <3>7 DEF Elems
  <2> QED BY <2>7, <2>8, <2>10, <2>11, <2>12, <2>13, <2>14 DEF Flow, EachFrameOnce
<1> QED BY <1>2, <1>3 DEF Return

(* The caller stops everybody, and starts anew or goes. *)
LEMMA StopFlow ==
  ASSUME TypeOK, Ring, \A t \in Threads : Machine(t), Flow, Rows, EachFrameOnce, ReturnedComplete,
         Flush \/ Close \/ Park \/ FreeThreads \/ Kill \/ Join
  PROVE  Flow' /\ Rows' /\ EachFrameOnce' /\ ReturnedComplete'
<1>0. user \in Users /\ th \in [Threads -> PerThread]
  BY DEF TypeOK
<1>1. CASE Flush \/ Close
  <2>1. /\ UNCHANGED <<opt, dec, hist, complete, th>> /\ user.at = "idle"
        /\ user'.at \in {"flush", "free"} /\ user'.got = user.got
    BY <1>0, <1>1 DEF Flush, Close, Stop, Users
  <2> QED BY <2>1, Resting DEF Active, Calling
<1>2. CASE Park
  <2>1. /\ UNCHANGED <<opt, dec, hist, complete>> /\ user.at \in {"flush", "free"}
        /\ user'.at = user.at /\ user'.got = user.got
    BY <1>0, <1>2 DEF Park, Users
  <2>2. \A u \in Threads : th'[u].ctx.held = th[u].ctx.held
    BY <1>0, <1>2 DEF Park, PerThread
  <2> QED BY <2>1, <2>2, Resting DEF Active, Calling
<1>3. CASE FreeThreads
  <2>1. /\ UNCHANGED <<opt, dec, hist, complete, th>> /\ user.at = "free"
        /\ user'.at = "kill" /\ user'.got = user.got
    BY <1>0, <1>3 DEF FreeThreads, Users
  <2> QED BY <2>1, Resting DEF Active, Calling
<1>4. CASE Kill
  <2>1. /\ UNCHANGED <<opt, dec, hist, complete>> /\ user.at = "kill"
        /\ user'.at = "join" /\ user'.got = user.got
    BY <1>0, <1>4 DEF Kill, Goes, Users
  <2>2. \A u \in Threads : th'[u].ctx.held = th[u].ctx.held
    BY <1>0, <1>4 DEF Kill, PerThread
  <2> QED BY <2>1, <2>2, Resting DEF Active, Calling
<1>5. CASE Join
  <2>1. /\ UNCHANGED <<opt, dec, hist, complete>> /\ user.at = "join"
        /\ user'.at \in {"kill", "closed"} /\ user'.got = user.got
    BY <1>0, <1>5 DEF Join, Users
  <2>2. \A u \in Threads : th'[u].ctx.held = th[u].ctx.held
    BY <1>0, <1>5 DEF Join, PerThread
  <2> QED BY <2>1, <2>2, Resting DEF Active, Calling
<1> QED BY <1>1, <1>2, <1>3, <1>4, <1>5

LEMMA FlushFlow ==
  ASSUME TypeOK, Ring, \A t \in Threads : Machine(t), Flow, Rows, EachFrameOnce, ReturnedComplete,
         FlushThreads
  PROVE  Flow' /\ Rows' /\ EachFrameOnce' /\ ReturnedComplete'
<1>0. /\ user.at = "flush" /\ user.i = N /\ th \in [Threads -> PerThread] /\ hist.given \in Nat
      /\ UNCHANGED <<opt, worker>> /\ fctx'.prev = Nobody /\ ~dec'.done /\ complete' = {}
      /\ user'.at = "idle" /\ user'.got = 0
      /\ hist'.given = hist.given /\ hist'.flushed = hist.given /\ hist'.returned = <<>>
  BY PieceTypes DEF FlushThreads, Idle, Parked, TypeOK, Histories
<1>1. \A u \in Threads : th[u].state = "ready"
  <2>1. \A u \in Threads : u < user.i
    BY <1>0, Indices
  <2> QED BY <1>0, <2>1 DEF Ring
<1>2. \A u \in Threads : th'[u].state = "ready" /\ th'[u].frame = 0 /\ th'[u].ctx.held = <<>>
  <2> SUFFICES ASSUME NEW u \in Threads
               PROVE  th'[u].state = "ready" /\ th'[u].frame = 0 /\ th'[u].ctx.held = <<>>
    OBVIOUS
  <2> DEFINE x == FlushedContext(u)
  <2>1. th'[u] = [th[u] EXCEPT !.frame = 0, !.result = 0, !.released = FALSE, !.ctx = x]
    BY DEF FlushThreads
  <2>2. x.held = <<>>
    <3>1. FirstContext(u) \in Contexts
      BY <1>0 DEF FirstContext, TypeOK, Somebody, PerThread
    <3> QED BY <3>1 DEF FlushedContext, Contexts
  <2> HIDE DEF x
  <2>3. th'[u].state = "ready" /\ th'[u].frame = 0 /\ th'[u].ctx = x
    BY <1>0, <1>1, <2>1 DEF PerThread
  <2> QED BY <2>2, <2>3
<1>3. /\ Latest' = Nobody /\ Queue' = <<>> /\ Sent' = hist.given
      /\ \A u \in Threads : ~(Undecided(u)') /\ Item(u)' = 0
  <2>1. \A u \in Threads : ~(Undecided(u)')
    BY <1>0, <1>1, <1>2 DEF Undecided, Machine
  <2> QED BY <1>0, <1>2, <2>1 DEF Latest, Queue, Sent, Item
<1>4. Elems(Queue)' = {} /\ Ascending(Queue)' /\ Elems(hist.returned)' = {}
  BY <1>0, <1>3 DEF Elems, Ascending
<1>5. Order' /\ Accounted'
  BY <1>0, <1>3, <1>4 DEF Order, Accounted
<1>6. Calls' /\ Holding' /\ Draining'
  BY <1>0, <1>2, <1>3, <1>4 DEF Calls, Holding, Draining, Calling
<1>7. Rows'
  BY <1>0, <1>2, <1>4 DEF Rows
<1>8. EachFrameOnce' /\ ReturnedComplete'
  BY <1>0 DEF EachFrameOnce, InOrder, NoneLeft, ReturnedComplete
<1> QED BY <1>5, <1>6, <1>7, <1>8 DEF Flow

-----------------------------------------------------------------------------
(* The invariant *)

(* Nothing is sent yet, and every thread waits. *)
LEMMA InitInv ==
  ASSUME Init
  PROVE  IInv
<1>0. /\ N \in Nat \ {0, 1} /\ 0 \in Threads /\ 0 \in 0 .. N /\ N \in 0 .. N
      /\ \A t \in Threads : t # N /\ t >= 0 /\ t - 0 = t /\ t \in 0 .. N - 1
  BY Consts DEF Threads
<1>1. /\ opt \in Options /\ user = Idle /\ hist.returned = <<>> /\ hist.given = 0 /\ hist.flushed = 0
      /\ fctx.decoding = 0 /\ fctx.finished = 0 /\ fctx.prev = Nobody
      /\ ~dec.draining /\ ~dec.done /\ dec.errors = 0
      /\ worker = [t \in Threads |-> "wait"] /\ complete = {}
      /\ \A t \in Threads : /\ th[t].state = "ready" /\ th[t].pkt = 0 /\ th[t].frame = 0
                            /\ th[t].result = 0 /\ ~th[t].die /\ th[t].ctx.held = <<>>
  BY DEF Init, NewContext
<1>2. user.at = "idle" /\ user.pkt = 0 /\ user.i = 0 /\ user.got = 0 /\ user.err = 0
  BY <1>1 DEF Idle
<1>3. TypeOK
  <2>1. <<>> \in Seq(Nat) /\ NoRef \in Refs /\ NewContext \in Contexts
    BY DEF NoRef, Refs, NewContext, Contexts, Somebody
  <2>2. user \in Users
    BY <1>0, <1>1 DEF Idle, Users, Active, Calling
  <2>3. /\ fctx \in [decoding : 0 .. N, finished : Threads, delaying : BOOLEAN, prev : Somebody]
        /\ dec \in [draining : BOOLEAN, done : BOOLEAN, errors : Nat]
    BY <1>0 DEF Init, Somebody
  <2>4. th \in [Threads -> PerThread]
    BY <2>1 DEF Init, PerThread
  <2>5. /\ worker \in [Threads -> BeforeSetup \cup {"wait", "exited", "rows", "endAsync", "end",
                                                    "unlock", "ready"}]
        /\ lock \in [buffer : Somebody, hw : Somebody, async : Somebody \cup {Caller}]
    BY DEF Init, Somebody
  <2>6. asleep \in [0 .. N -> Conditions]
    BY DEF Init, Awake, Conditions, Somebody
  <2>7. hist \in Histories
    BY <2>1 DEF Init, Histories
  <2> QED BY <1>1, <2>2, <2>3, <2>4, <2>5, <2>6, <2>7 DEF TypeOK
<1>4. \A t \in Threads : Machine(t)
  BY <1>1 DEF Machine, InSetup, Asks, BeforeSetup
<1>5. \A t \in Threads : Spent(t) /\ ~Undecided(t) /\ Item(t) = 0
  BY <1>1 DEF Spent, Undecided, Item
<1>6. Ring
  BY <1>0, <1>1, <1>2, <1>5 DEF Ring, Calling, Active
<1>7. Latest = Nobody /\ Queue = <<>> /\ Sent = 0
  BY <1>1, <1>2 DEF Latest, Queue, Sent
<1>8. Flow
  <2>1. Calls
    BY <1>1, <1>2, <1>7, NoElems DEF Calls, Calling
  <2>2. Holding
    BY <1>1, <1>5 DEF Holding
  <2>3. Draining
    BY <1>2 DEF Draining
  <2>4. Order
    BY <1>5, <1>7, NoElems DEF Order
  <2>5. Accounted
    BY <1>1, <1>7 DEF Accounted
  <2> QED BY <2>1, <2>2, <2>3, <2>4, <2>5 DEF Flow
<1>9. Rows
  BY <1>1, <1>2, <1>7, NoElems DEF Rows
<1>10. EachFrameOnce /\ ReturnedComplete
  BY <1>1 DEF EachFrameOnce, InOrder, NoneLeft, ReturnedComplete
<1> QED BY <1>3, <1>4, <1>6, <1>8, <1>9, <1>10 DEF IInv

(* A step of a thread: its own lemmas, one for each part. *)
LEMMA WorkerInv ==
  ASSUME IInv, NEW t \in Threads, WorkerStep(t)
  PROVE  IInv'
<1>0. /\ TypeOK /\ (\A u \in Threads : Machine(u)) /\ Ring /\ Flow /\ Rows
      /\ EachFrameOnce /\ ReturnedComplete
  BY DEF IInv
<1>1. /\ TypeOK' /\ UNCHANGED dec
      /\ hist'.given = hist.given /\ hist'.flushed = hist.flushed
      /\ hist'.returned = hist.returned /\ hist.dropped \subseteq hist'.dropped
      /\ complete \subseteq complete'
  BY <1>0, WorkerTypes
<1>2. (\A u \in Threads : Machine(u)') /\ Ring'
  BY <1>0, WorkerMachine, WorkerRing
<1>3. Flow' /\ Rows'
  BY <1>0, <1>1, <1>2, WorkerFlow, WorkerRows
<1>4. EachFrameOnce' /\ ReturnedComplete'
  BY <1>0, <1>1, SameReturned
<1> QED BY <1>1, <1>2, <1>3, <1>4 DEF IInv

(* A step of the caller. *)
LEMMA UserInv ==
  ASSUME IInv, NewCall \/ UserStep
  PROVE  IInv'
<1>0. /\ TypeOK /\ (\A u \in Threads : Machine(u)) /\ Ring /\ Flow /\ Rows
      /\ EachFrameOnce /\ ReturnedComplete
  BY DEF IInv
<1>1. TypeOK'
  BY <1>0, UserTypes, UserTypesToo DEF NewCall, UserStep
<1>2. (\A u \in Threads : Machine(u)') /\ Ring'
  BY <1>0, <1>1, UserMachine, UserRing
<1>3. Flow' /\ Rows' /\ EachFrameOnce' /\ ReturnedComplete'
  BY <1>0, CallFlow, CallBackFlow, CopyFlow, CollectFlow, ReturnFlow, StopFlow, FlushFlow
     DEF NewCall, UserStep
<1> QED BY <1>1, <1>2, <1>3 DEF IInv

LEMMA NextInv == IInv /\ [Next]_vars => IInv'
<1> SUFFICES ASSUME IInv, [Next]_vars PROVE IInv'
  OBVIOUS
<1>1. CASE NewCall \/ UserStep
  BY <1>1, UserInv
<1>2. ASSUME NEW t \in Threads, WorkerStep(t) PROVE IInv'
  BY <1>2, WorkerInv
<1>3. CASE UNCHANGED vars
  <2>1. TypeOK' /\ (\A t \in Threads : Machine(t)') /\ Ring'
    BY <1>3 DEF IInv, vars, TypeOK, Machine, InSetup, Asks, Current, Ring, Where, Out, Off, Span, Spent
  <2>5. /\ Queue' = Queue /\ Latest' = Latest /\ Sent' = Sent
        /\ \A t \in Threads : /\ Off(t)' = Off(t) /\ Item(t)' = Item(t)
                             /\ Undecided(t)' = Undecided(t) /\ Spent(t)' = Spent(t)
    BY <1>3 DEF vars, Queue, Latest, Current, Undecided, Sent, Off, Item, Spent, Where
  <2>7. /\ \A n : Behind(n)' = Behind(n)
        /\ Ascending(Queue)' = Ascending(Queue) /\ Elems(Queue)' = Elems(Queue)
    BY <1>3, <2>5 DEF vars, Behind, Ascending, Elems
  <2>6. Flow /\ Rows
    BY DEF IInv
  <2>2. Flow'
    <3>1. Calls'
      BY <1>3, <2>5, <2>6 DEF vars, Flow, Calls, Elems
    <3>4. Holding'
      BY <1>3, <2>5, <2>6 DEF vars, Flow, Holding
    <3>5. Draining'
      <4>1. (Undecided(Latest))' = Undecided(Latest)
        BY <1>3, <2>5 DEF vars, Undecided
      <4> QED BY <1>3, <2>5, <2>6, <4>1 DEF vars, Flow, Draining
    <3>2. user.at \in Active => Order'
      BY <1>3, <2>5, <2>6, <2>7 DEF vars, Flow, Order
    <3>3. user.at \in Active => Accounted'
      BY <1>3, <2>5, <2>6 DEF vars, Flow, Accounted, Elems
    <3> QED BY <1>3, <3>1, <3>2, <3>3, <3>4, <3>5 DEF vars, Flow
  <2>4. Rows'
    BY <1>3, <2>5, <2>6 DEF vars, Rows, Rowing, Elems
  <2>3. EachFrameOnce' /\ ReturnedComplete'
    BY <1>3 DEF IInv, vars, EachFrameOnce, InOrder, NoneLeft, ReturnedComplete, Returned
  <2> QED BY <2>1, <2>2, <2>3, <2>4 DEF IInv
<1> QED BY <1>1, <1>2, <1>3 DEF Next, NewCall, Terminated

(* The invariant holds, for every number of threads, every delay of the      *)
(* codec and every kind of codec and caller.                                 *)
THEOREM Invariance == Spec => []IInv
BY InitInv, NextInv, PTL DEF Spec

(* No context is copied before its thread has set it up: submit_packet looks *)
(* for STATE_SETTING_UP alone, but a thread that asks the caller for a       *)
(* buffer or a format is answered before the call in which it asks is over.  *)
THEOREM SetupIsHandedOn == Spec => []SetupHandedOn
<1>1. IInv => SetupHandedOn
  BY SetUpBefore DEF IInv, SetupHandedOn
<1> QED BY <1>1, Invariance, PTL

(* A frame that ff_thread_decode_frame returns is decoded to its last row,   *)
(* also when a thread returns it that did not decode it.                     *)
THEOREM ReturnedFramesComplete == Spec => []ReturnedComplete
<1>1. IInv => ReturnedComplete
  BY DEF IInv
<1> QED BY <1>1, Invariance, PTL

(* Frames come in the order of their packets, none twice and none from       *)
(* before a flush; when draining is over, none is missing that the codec did *)
(* not drop.                                                                 *)
THEOREM FramesComeOnce == Spec => []EachFrameOnce
<1>1. IInv => EachFrameOnce
  BY DEF IInv
<1> QED BY <1>1, Invariance, PTL
=============================================================================
