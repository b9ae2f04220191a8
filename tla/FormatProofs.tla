----------------------------- MODULE FormatProofs -----------------------------
(***************************************************************************)
(* The fifo muxer of libavformat, for any queue, any options, any errors   *)
(* and any number of packets and failures: IInv is inductive.  Its parts   *)
(* are proved one after another, each from those before it: types and      *)
(* waiting, what the output has begun and ended, the order of the packets, *)
(* and where each of them is.                                              *)
(***************************************************************************)
EXTENDS FifoMuxer, ListFacts, TLAPS

-----------------------------------------------------------------------------
(* What Append and Tail do to the predicates about sequences of messages.    *)

LEMMA EmptyMessages ==
  ASSUME NEW n
  PROVE  /\ Older(<<>>, n) /\ Newer(<<>>, n) /\ Increasing(<<>>) /\ ~Has(<<>>, n)
         /\ \A s : AllOlder(s, <<>>) /\ AllOlder(<<>>, s)
         /\ NoGap(<<>>) /\ ~Open(<<>>) /\ ~Began2(<<>>)
<1>1. Len(<<>>) = 0
  OBVIOUS
<1> QED BY <1>1 DEF Older, Newer, Increasing, Has, AllOlder, NoGap, Open, Began2

LEMMA OlderAppend ==
  ASSUME NEW s \in Seq(Messages), NEW e \in Messages, NEW n
  PROVE  /\ Older(Append(s, e), n) <=> Older(s, n) /\ (IsPacket(e) => e.n < n)
         /\ Newer(Append(s, e), n) <=> Newer(s, n) /\ (IsPacket(e) => n < e.n)
         /\ Has(Append(s, e), n) <=> Has(s, n) \/ (IsPacket(e) /\ e.n = n)
<1> DEFINE a == Append(s, e)
<1>1. /\ Len(a) = Len(s) + 1 /\ Len(s) \in Nat
      /\ \A i \in 1 .. Len(s) + 1 : a[i] = IF i <= Len(s) THEN s[i] ELSE e
  BY Pushed
<1>2. a[Len(s) + 1] = e /\ \A i \in 1 .. Len(s) : a[i] = s[i]
  BY <1>1
<1>3. 1 .. Len(a) = 1 .. Len(s) \cup {Len(s) + 1}
  BY <1>1
<1> HIDE DEF a
<1>4. Older(a, n) <=> Older(s, n) /\ (IsPacket(e) => e.n < n)
  BY <1>2, <1>3 DEF Older
<1>5. Newer(a, n) <=> Newer(s, n) /\ (IsPacket(e) => n < e.n)
  BY <1>2, <1>3 DEF Newer
<1>6. Has(a, n) <=> Has(s, n) \/ (IsPacket(e) /\ e.n = n)
  BY <1>2, <1>3 DEF Has
<1> QED BY <1>4, <1>5, <1>6 DEF a

LEMMA OrderAppend ==
  ASSUME NEW s \in Seq(Messages), NEW t \in Seq(Messages), NEW e \in Messages
  PROVE  /\ Increasing(s) /\ (IsPacket(e) => Older(s, e.n)) => Increasing(Append(s, e))
         /\ AllOlder(s, t) /\ (IsPacket(e) => Newer(t, e.n)) => AllOlder(Append(s, e), t)
         /\ AllOlder(s, t) /\ (IsPacket(e) => Older(s, e.n)) => AllOlder(s, Append(t, e))
<1> DEFINE a == Append(s, e)
           b == Append(t, e)
<1>1. /\ Len(a) = Len(s) + 1 /\ Len(s) \in Nat
      /\ \A i \in 1 .. Len(s) + 1 : a[i] = IF i <= Len(s) THEN s[i] ELSE e
  BY Pushed
<1>2. /\ Len(b) = Len(t) + 1 /\ Len(t) \in Nat
      /\ \A i \in 1 .. Len(t) + 1 : b[i] = IF i <= Len(t) THEN t[i] ELSE e
  BY Pushed
<1> HIDE DEF a, b
<1>3. Increasing(s) /\ (IsPacket(e) => Older(s, e.n)) => Increasing(a)
  <2> SUFFICES ASSUME Increasing(s), IsPacket(e) => Older(s, e.n),
                      NEW i \in 1 .. Len(a), NEW j \in 1 .. Len(a),
                      i < j, IsPacket(a[i]), IsPacket(a[j])
               PROVE  a[i].n < a[j].n
    BY DEF Increasing
  <2>1. i \in 1 .. Len(s) /\ a[i] = s[i]
    BY <1>1
  <2>2. CASE j <= Len(s)
    <3>1. j \in 1 .. Len(s) /\ a[j] = s[j]
      BY <1>1, <2>2
    <3> QED BY <2>1, <3>1 DEF Increasing
  <2>3. CASE ~(j <= Len(s))
    <3>1. a[j] = e
      BY <1>1, <2>3
    <3> QED BY <2>1, <3>1 DEF Older
  <2> QED BY <2>2, <2>3
<1>4. AllOlder(s, t) /\ (IsPacket(e) => Newer(t, e.n)) => AllOlder(a, t)
  <2> SUFFICES ASSUME AllOlder(s, t), IsPacket(e) => Newer(t, e.n),
                      NEW i \in 1 .. Len(a), NEW j \in 1 .. Len(t),
                      IsPacket(a[i]), IsPacket(t[j])
               PROVE  a[i].n < t[j].n
    BY DEF AllOlder
  <2>1. CASE i <= Len(s)
    <3>1. i \in 1 .. Len(s) /\ a[i] = s[i]
      BY <1>1, <2>1
    <3> QED BY <3>1 DEF AllOlder
  <2>2. CASE ~(i <= Len(s))
    <3>1. a[i] = e
      BY <1>1, <2>2
    <3> QED BY <3>1 DEF Newer
  <2> QED BY <2>1, <2>2
<1>5. AllOlder(s, t) /\ (IsPacket(e) => Older(s, e.n)) => AllOlder(s, b)
  <2> SUFFICES ASSUME AllOlder(s, t), IsPacket(e) => Older(s, e.n),
                      NEW i \in 1 .. Len(s), NEW j \in 1 .. Len(b),
                      IsPacket(s[i]), IsPacket(b[j])
               PROVE  s[i].n < b[j].n
    BY DEF AllOlder
  <2>1. CASE j <= Len(t)
    <3>1. j \in 1 .. Len(t) /\ b[j] = t[j]
      BY <1>2, <2>1
    <3> QED BY <3>1 DEF AllOlder
  <2>2. CASE ~(j <= Len(t))
    <3>1. b[j] = e
      BY <1>2, <2>2
    <3> QED BY <3>1 DEF Older
  <2> QED BY <2>1, <2>2
<1> QED BY <1>3, <1>4, <1>5 DEF a, b

LEMMA TailFacts ==
  ASSUME NEW s \in Seq(Messages), NEW t \in Seq(Messages), t # <<>>, NEW n
  PROVE  /\ Head(t) \in Messages /\ Tail(t) \in Seq(Messages) /\ Len(Tail(t)) = Len(t) - 1
         /\ Older(t, n) => Older(Tail(t), n) /\ (IsPacket(Head(t)) => Head(t).n < n)
         /\ Increasing(t) => Increasing(Tail(t)) /\ (IsPacket(Head(t)) => Newer(Tail(t), Head(t).n))
         /\ AllOlder(s, t) => AllOlder(s, Tail(t)) /\ (IsPacket(Head(t)) => Older(s, Head(t).n))
         /\ Has(t, n) => Has(Tail(t), n) \/ (IsPacket(Head(t)) /\ Head(t).n = n)
<1> DEFINE u == Tail(t)
           h == Head(t)
<1>1. /\ Len(t) \in Nat \ {0} /\ h = t[1] /\ h \in Messages /\ u \in Seq(Messages)
      /\ Len(u) = Len(t) - 1 /\ \A i \in 1 .. Len(t) - 1 : u[i] = t[i + 1]
  BY Shifted
<1> HIDE DEF u, h
<1>2. \A i \in 1 .. Len(u) : u[i] = t[i + 1] /\ i + 1 \in 1 .. Len(t) /\ 1 < i + 1
  BY <1>1
<1>3. 1 \in 1 .. Len(t)
  BY <1>1
<1>4. Older(t, n) => Older(u, n) /\ (IsPacket(h) => h.n < n)
  BY <1>1, <1>2, <1>3 DEF Older
<1>5. Increasing(t) => Increasing(u) /\ (IsPacket(h) => Newer(u, h.n))
  <2> SUFFICES ASSUME Increasing(t) PROVE Increasing(u) /\ (IsPacket(h) => Newer(u, h.n))
    OBVIOUS
  <2>1. Increasing(u)
    <3> SUFFICES ASSUME NEW i \in 1 .. Len(u), NEW j \in 1 .. Len(u),
                        i < j, IsPacket(u[i]), IsPacket(u[j])
                 PROVE  u[i].n < u[j].n
      BY DEF Increasing
    <3>1. i + 1 < j + 1
      BY <1>1
    <3> QED BY <1>2, <3>1 DEF Increasing
  <2>2. IsPacket(h) => Newer(u, h.n)
    BY <1>1, <1>2, <1>3 DEF Increasing, Newer
  <2> QED BY <2>1, <2>2
<1>6. AllOlder(s, t) => AllOlder(s, u) /\ (IsPacket(h) => Older(s, h.n))
  BY <1>1, <1>2, <1>3 DEF AllOlder, Older
<1>7. Has(t, n) => Has(u, n) \/ (IsPacket(h) /\ h.n = n)
  <2> SUFFICES ASSUME NEW i \in 1 .. Len(t), IsPacket(t[i]), t[i].n = n, ~(IsPacket(h) /\ h.n = n)
               PROVE  Has(u, n)
    BY DEF Has
  <2>1. i # 1
    BY <1>1
  <2>2. i - 1 \in 1 .. Len(u) /\ u[i - 1] = t[i]
    BY <1>1, <2>1
  <2> QED BY <2>2 DEF Has
<1> QED BY <1>1, <1>4, <1>5, <1>6, <1>7 DEF u, h

LEMMA MessageType ==
  ASSUME NEW m \in Messages
  PROVE  m.type \in {"header", "packet", "flush", "began", "ended"} /\ m.n \in Nat /\ m.key \in BOOLEAN
BY DEF Messages

LEMMA MadeUp ==
  /\ HeaderMsg \in Messages /\ FlushMsg \in Messages /\ Began \in Messages /\ Ended \in Messages
  /\ ~IsPacket(HeaderMsg) /\ ~IsPacket(FlushMsg) /\ ~IsPacket(Began) /\ ~IsPacket(Ended)
  /\ Began.type = "began" /\ Ended.type = "ended"
BY DEF HeaderMsg, FlushMsg, Began, Ended, Message, Messages, IsPacket

LEMMA PacketMessage ==
  ASSUME NEW n \in Nat, NEW k \in BOOLEAN, NEW ts \in BOOLEAN
  PROVE  LET m == Message("packet", n, k, ts)
         IN  m \in Messages /\ IsPacket(m) /\ m.n = n
BY DEF Message, Messages, IsPacket

-----------------------------------------------------------------------------
(* Sessions of the output. *)

(* SessionsClosed and RestartsWithKey say this of out. *)
Closed(s) == \A i \in 1 .. Len(s) :
  IF s[i].type = "began" THEN i = 1 \/ s[i - 1].type = "ended"
                         ELSE i > 1 /\ s[i - 1].type # "ended"
KeyFirst(s) == \A i \in 2 .. Len(s) :
  i > 2 /\ IsPacket(s[i]) /\ s[i - 1].type = "began" => s[i].key

LEMMA SessionBegins ==
  ASSUME NEW s \in Seq(Messages), Closed(s), ~Open(s)
  PROVE  LET a == Append(s, Began)
         IN  /\ a \in Seq(Messages) /\ a # <<>> /\ Closed(a) /\ Open(a)
             /\ Began2(a) <=> s # <<>>
             /\ KeyFirst(s) => KeyFirst(a)
<1> DEFINE a == Append(s, Began)
<1>1. /\ a \in Seq(Messages) /\ Len(a) = Len(s) + 1 /\ Len(s) \in Nat
      /\ \A i \in 1 .. Len(s) + 1 : a[i] = IF i <= Len(s) THEN s[i] ELSE Began
  BY Pushed, MadeUp
<1>2. a[Len(s) + 1] = Began /\ \A i \in 1 .. Len(s) : a[i] = s[i]
  BY <1>1
<1>3. s = <<>> <=> Len(s) = 0
  BY EmptySeq
<1> HIDE DEF a
<1>4. a # <<>>
  <2>1. Len(a) # 0 /\ Len(<<>>) = 0
    BY <1>1
  <2> QED BY <2>1
<1>5. Open(a) /\ (Began2(a) <=> s # <<>>)
  BY <1>1, <1>2, <1>3, <1>4, MadeUp DEF Open, Began2
<1>6. Closed(a)
  <2> SUFFICES ASSUME NEW i \in 1 .. Len(a)
               PROVE  IF a[i].type = "began" THEN i = 1 \/ a[i - 1].type = "ended"
                                             ELSE i > 1 /\ a[i - 1].type # "ended"
    BY DEF Closed
  <2>1. CASE i <= Len(s)
    <3>1. i \in 1 .. Len(s) /\ a[i] = s[i] /\ (i > 1 => a[i - 1] = s[i - 1])
      BY <1>1, <2>1
    <3> QED BY <3>1 DEF Closed
  <2>2. CASE ~(i <= Len(s))
    <3>1. i = Len(s) + 1 /\ a[i].type = "began"
      BY <1>1, <2>2, MadeUp
    <3>2. i # 1 => s # <<>> /\ a[i - 1] = s[Len(s)]
      BY <1>1, <1>3, <3>1
    <3> QED BY <3>1, <3>2 DEF Open
  <2> QED BY <2>1, <2>2
<1>7. KeyFirst(s) => KeyFirst(a)
  <2> SUFFICES ASSUME KeyFirst(s), NEW i \in 2 .. Len(a), i > 2, IsPacket(a[i]), a[i - 1].type = "began"
               PROVE  a[i].key
    BY DEF KeyFirst
  <2>1. i # Len(s) + 1
    BY <1>2, MadeUp
  <2>2. i \in 2 .. Len(s) /\ a[i] = s[i] /\ a[i - 1] = s[i - 1]
    BY <1>1, <2>1
  <2> QED BY <2>2 DEF KeyFirst
<1> QED BY <1>1, <1>4, <1>5, <1>6, <1>7 DEF a

(* A packet or a trailer in an open session. *)
LEMMA SessionGoesOn ==
  ASSUME NEW s \in Seq(Messages), Closed(s), Open(s), NEW e \in Messages, e.type # "began"
  PROVE  LET a == Append(s, e)
         IN  /\ a \in Seq(Messages) /\ a # <<>> /\ Closed(a) /\ (Open(a) <=> e.type # "ended")
             /\ ~Began2(a) /\ a[Len(a)] = e
             /\ KeyFirst(s) /\ (IsPacket(e) /\ Began2(s) => e.key) => KeyFirst(a)
<1> DEFINE a == Append(s, e)
<1>1. /\ a \in Seq(Messages) /\ Len(a) = Len(s) + 1 /\ Len(s) \in Nat
      /\ \A i \in 1 .. Len(s) + 1 : a[i] = IF i <= Len(s) THEN s[i] ELSE e
  BY Pushed
<1>2. a[Len(a)] = e /\ \A i \in 1 .. Len(s) : a[i] = s[i]
  BY <1>1
<1>3. s # <<>> /\ Len(s) # 0 /\ s[Len(s)].type # "ended"
  BY EmptySeq DEF Open
<1> HIDE DEF a
<1>4. a # <<>>
  <2>1. Len(a) # 0 /\ Len(<<>>) = 0
    BY <1>1
  <2> QED BY <2>1
<1>5. ~Began2(a) /\ (Open(a) <=> e.type # "ended")
  BY <1>2, <1>4 DEF Open, Began2
<1>6. Closed(a)
  <2> SUFFICES ASSUME NEW i \in 1 .. Len(a)
               PROVE  IF a[i].type = "began" THEN i = 1 \/ a[i - 1].type = "ended"
                                             ELSE i > 1 /\ a[i - 1].type # "ended"
    BY DEF Closed
  <2>1. CASE i <= Len(s)
    <3>1. i \in 1 .. Len(s) /\ a[i] = s[i] /\ (i > 1 => a[i - 1] = s[i - 1])
      BY <1>1, <2>1
    <3> QED BY <3>1 DEF Closed
  <2>2. CASE ~(i <= Len(s))
    <3>1. i = Len(s) + 1 /\ a[i] = e /\ i > 1 /\ a[i - 1] = s[Len(s)]
      BY <1>1, <1>3, <2>2
    <3> QED BY <1>3, <3>1
  <2> QED BY <2>1, <2>2
<1>7. KeyFirst(s) /\ (IsPacket(e) /\ Began2(s) => e.key) => KeyFirst(a)
  <2> SUFFICES ASSUME KeyFirst(s), IsPacket(e) /\ Began2(s) => e.key,
                      NEW i \in 2 .. Len(a), i > 2, IsPacket(a[i]), a[i - 1].type = "began"
               PROVE  a[i].key
    BY DEF KeyFirst
  <2>1. CASE i <= Len(s)
    <3>1. i \in 2 .. Len(s) /\ a[i] = s[i] /\ a[i - 1] = s[i - 1]
      BY <1>1, <2>1
    <3> QED BY <3>1 DEF KeyFirst
  <2>2. CASE ~(i <= Len(s))
    <3>1. i = Len(s) + 1 /\ a[i] = e /\ Len(s) > 1 /\ a[i - 1] = s[Len(s)]
      BY <1>1, <1>3, <2>2
    <3> QED BY <3>1 DEF Began2
  <2> QED BY <2>1, <2>2
<1> QED BY <1>1, <1>2, <1>4, <1>5, <1>6, <1>7 DEF a

(* EndedOut: no session is left open, and no packet is added. *)
LEMMA SessionEnds ==
  ASSUME out \in Seq(Messages), Closed(out), header <=> Open(out)
  PROVE  /\ EndedOut \in Seq(Messages) /\ Closed(EndedOut) /\ ~Open(EndedOut)
         /\ header => EndedOut = Append(out, Ended) /\ EndedOut # <<>> /\ ~Began2(EndedOut)
                        /\ EndedOut[Len(EndedOut)].type = "ended"
         /\ ~header => EndedOut = out
         /\ KeyFirst(out) => KeyFirst(EndedOut)
<1>1. CASE header
  <2>1. Ended \in Messages /\ Ended.type = "ended" /\ ~IsPacket(Ended)
    BY MadeUp
  <2>2. EndedOut = Append(out, Ended)
    BY <1>1 DEF EndedOut
  <2>3. LET a == Append(out, Ended)
         IN  /\ a \in Seq(Messages) /\ a # <<>> /\ Closed(a) /\ (Open(a) <=> Ended.type # "ended")
             /\ ~Began2(a) /\ a[Len(a)] = Ended
             /\ KeyFirst(out) /\ (IsPacket(Ended) /\ Began2(out) => Ended.key) => KeyFirst(a)
    BY <1>1, <2>1, SessionGoesOn
  <2> QED BY <1>1, <2>1, <2>2, <2>3
<1>2. CASE ~header
  BY <1>2 DEF EndedOut
<1> QED BY <1>1, <1>2

-----------------------------------------------------------------------------
(* What the steps have in common. *)

LEMMA OptionTypes ==
  ASSUME TypeOK
  PROVE  /\ opts.drop \in BOOLEAN /\ opts.recover \in BOOLEAN /\ opts.any \in BOOLEAN
         /\ opts.stream \in BOOLEAN /\ opts.restart \in BOOLEAN /\ opts.max \in Nat
BY FifoAssumption DEF TypeOK

LEMMA SignalledOne ==
  ASSUME NEW x, NEW w, w \subseteq {x}, NEW v \in Signalled(w)
  PROVE  v = {}
BY DEF Signalled

(* What fifo_thread_dispatch_message does to an output o. *)
LEMMA Dispatched ==
  ASSUME NEW o, NEW h \in BOOLEAN, NEW skip \in BOOLEAN, NEW r \in Results,
         msg \in Messages, Dispatch(o, h, skip, r)
  PROVE  /\ msg' \in Messages /\ msg'.type = msg.type /\ msg'.n = msg.n /\ msg'.key = msg.key
         /\ header' \in BOOLEAN /\ dropKey' \in BOOLEAN /\ (~skip => ~dropKey')
         /\ \/ r # Ok /\ ~h /\ ~header' /\ out' = o /\ dropKey' = skip
            \/ /\ header' /\ out' = (IF h THEN o ELSE Append(o, Began))
               /\ r = Ok => dropKey' = skip /\ (IsPacket(msg) => skip)
            \/ /\ r = Ok /\ IsPacket(msg) /\ header' /\ ~dropKey'
               /\ out' = Append(IF h THEN o ELSE Append(o, Began), msg')
               /\ skip => msg.key
<1> DEFINE b == IF h THEN o ELSE Append(o, Began)
           p == [msg EXCEPT !.scale = @ + 1]
<1>1. Ok \notin Errors
  BY FifoAssumption
<1>2. p \in Messages /\ p.type = msg.type /\ p.n = msg.n /\ p.key = msg.key
  BY DEF Messages
<1>3. CASE ~h /\ HeaderFails(o, r) /\ dropKey' = skip /\ UNCHANGED msg
  BY <1>1, <1>3 DEF HeaderFails, Fails
<1>4. CASE header' = TRUE /\ msg.type = "packet" /\ PacketDone(b, skip, r)
  <2>1. CASE skip /\ ~msg.key
    BY <1>4, <2>1 DEF PacketDone, IsPacket
  <2>2. CASE ~(skip /\ ~msg.key)
    <3>1. /\ dropKey' = FALSE /\ msg' = p
          /\ \/ r = Ok /\ Works /\ out' = Append(b, p)
             \/ Fails(r) /\ out' = b
      BY <1>4, <2>2 DEF PacketDone
    <3>2. CASE r = Ok /\ Works /\ out' = Append(b, p)
      BY <1>2, <1>4, <2>2, <3>1, <3>2, MessageType DEF IsPacket
    <3>3. CASE Fails(r) /\ out' = b
      BY <1>1, <1>2, <1>4, <3>1, <3>3 DEF Fails
    <3> QED BY <3>1, <3>2, <3>3
  <2> QED BY <2>1, <2>2
<1>5. CASE /\ header' = TRUE /\ msg.type # "packet" /\ out' = b /\ dropKey' = skip /\ UNCHANGED msg
  BY <1>5 DEF IsPacket
<1> QED BY <1>3, <1>4, <1>5 DEF Dispatch

-----------------------------------------------------------------------------
(* Types and waiting. *)

LEMMA InitTypes == Init => TypeOK /\ Waiting
<1> SUFFICES ASSUME Init PROVE TypeOK /\ Waiting
  OBVIOUS
<1>1. queue = <<>> /\ out = <<>> /\ Len(queue) = 0 /\ <<>> \in Seq(Messages) /\ QueueSize \in Nat \ {0}
  BY QueueAssumption DEF Init, QueueInit
<1>2. TypeOK
  <2>1. queue \in Seq(Messages) /\ Len(queue) <= QueueSize /\ out \in Seq(Messages)
    BY <1>1
  <2>2. /\ opts \in Options /\ Accepted(opts)
        /\ errSend = NoErr /\ errRecv = NoErr /\ sendWait = {} /\ recvWait = {}
        /\ user = "new" /\ inHand = HeaderMsg /\ given = 0 /\ overflow = FALSE
        /\ writer = "none" /\ msg = HeaderMsg /\ ret = Ok /\ header = FALSE /\ nr = 0
        /\ lastTs = FALSE /\ dropKey = FALSE
    BY DEF Init, QueueInit
  <2> QED BY <2>1, <2>2, MadeUp DEF TypeOK
<1>3. Waiting
  BY <1>1 DEF Init, QueueInit, Waiting, NobodySleepsInVain
<1> QED BY <1>2, <1>3

(* av_thread_message_queue_send, by the caller who is not asleep. *)
LEMMA Sent ==
  ASSUME TypeOK, Waiting, NEW m \in Messages, "user" \notin sendWait, SendMessage(m)
  PROVE  /\ sendWait = {} /\ UNCHANGED <<errSend, errRecv>>
         /\ \/ /\ errSend = NoErr /\ queue' = Append(queue, m) /\ Len(queue') <= QueueSize
               /\ queue' \in Seq(Messages) /\ sendWait' = {} /\ recvWait' = {}
               /\ user' = "idle" /\ inHand' = HeaderMsg
            \/ opts.drop /\ user' = "overflow" /\ UNCHANGED <<queueVars, inHand>>
            \/ /\ ~opts.drop /\ Len(queue) = QueueSize /\ errSend = NoErr
               /\ user' = "send" /\ inHand' = m
               /\ sendWait' = {"user"} /\ UNCHANGED <<queue, recvWait>>
            \/ errSend # NoErr /\ user' = "idle" /\ inHand' = HeaderMsg /\ UNCHANGED queueVars
<1>1. sendWait = {}
  BY DEF TypeOK
<1>2. CASE SendPuts(m) /\ user' = "idle" /\ inHand' = HeaderMsg
  <2>1. recvWait' = {}
    BY <1>2, SignalledOne DEF SendPuts, TypeOK
  <2>2. /\ Append(queue, m) \in Seq(Messages) /\ Len(Append(queue, m)) = Len(queue) + 1 /\ Len(queue) \in Nat
    BY Pushed DEF TypeOK
  <2>3. errSend = NoErr /\ queue' = Append(queue, m) /\ Len(queue) < QueueSize
        /\ UNCHANGED <<errSend, errRecv, sendWait>>
    BY <1>2 DEF SendPuts
  <2>4. Len(queue') <= QueueSize
    BY <2>2, <2>3, QueueAssumption
  <2> QED BY <1>1, <1>2, <2>1, <2>2, <2>3, <2>4
<1>3. CASE opts.drop /\ SendFull /\ user' = "overflow" /\ UNCHANGED <<queueVars, inHand>>
  BY <1>1, <1>3 DEF queueVars
<1>4. CASE ~opts.drop /\ SendWaits("user") /\ user' = "send" /\ inHand' = m
  BY <1>1, <1>4 DEF SendWaits, SendFull
<1>5. CASE SendFails /\ user' = "idle" /\ inHand' = HeaderMsg /\ UNCHANGED queueVars
  BY <1>1, <1>5 DEF SendFails, queueVars
<1> QED BY <1>2, <1>3, <1>4, <1>5 DEF SendMessage

(* The two steps of the caller that send. *)
LEMMA Sends ==
  ASSUME TypeOK, Waiting, WritePacket \/ SendAgain
  PROVE  \E m \in Messages :
           /\ SendMessage(m) /\ "user" \notin sendWait /\ errRecv = NoErr /\ writer # "none"
           /\ UNCHANGED <<opts, overflow, writerVars>>
           /\ \/ user = "idle" /\ given' = given + 1 /\ IsPacket(m) /\ m.n = given + 1
              \/ user = "idle" /\ given' = given /\ ~IsPacket(m)
              \/ user = "send" /\ given' = given /\ m = inHand
<1>1. CASE SendAgain
  <2>1. inHand \in Messages
    BY DEF TypeOK
  <2> QED BY <1>1, <2>1 DEF SendAgain, Waiting
<1>2. CASE WritePacket
  <2>1. user = "idle" /\ "user" \notin sendWait /\ UNCHANGED <<opts, overflow, writerVars>>
        /\ errRecv = NoErr /\ writer # "none"
    BY <1>2 DEF WritePacket, Waiting
  <2>2. CASE SendMessage(FlushMsg) /\ UNCHANGED given
    BY <2>1, <2>2, MadeUp
  <2>3. CASE /\ given' = given + 1
             /\ \E key, ts \in BOOLEAN :
                  /\ ts \/ opts.stream
                  /\ SendMessage(Message("packet", given + 1, key, ts))
    <3>1. PICK key \in BOOLEAN, ts \in BOOLEAN : SendMessage(Message("packet", given + 1, key, ts))
      BY <2>3
    <3>2. given + 1 \in Nat
      BY DEF TypeOK
    <3> DEFINE m == Message("packet", given + 1, key, ts)
    <3>3. m \in Messages /\ IsPacket(m) /\ m.n = given + 1
      BY <3>2, PacketMessage
    <3> HIDE DEF m
    <3>4. SendMessage(m)
      BY <3>1 DEF m
    <3> QED BY <2>1, <2>3, <3>3, <3>4
  <2> QED BY <1>2, <2>2, <2>3 DEF WritePacket
<1> QED BY <1>1, <1>2

(* How the recovery and the dispatch leave the thread. *)
LEMMA Attempted ==
  ASSUME TypeOK, NEW e \in Results, AfterAttempt(e)
  PROVE  /\ writer' \in {"stop", "check", "recover"} /\ ret' \in Results \cup {ret}
         /\ writer' = "stop" => ret' = e
         /\ writer' # "stop" => ret' = ret
         /\ ~opts.drop => writer' # "check"
         /\ e = Again => writer' # "stop"
BY OptionTypes DEF AfterAttempt

(* The writer's steps that dispatch a message. *)
LEMMA Dispatches ==
  ASSUME TypeOK, DispatchMessage \/ AttemptRecovery
  PROVE  \E o \in {out, EndedOut}, h \in BOOLEAN, skip \in BOOLEAN, r \in Results :
           /\ Dispatch(o, h, skip, r)
           /\ UNCHANGED <<queueVars, opts, overflow, userVars>>
           /\ writer \in {"dispatch", "recover"}
           /\ writer' \in {"check", "recover", "stop"} /\ ret' \in Results \cup {ret}
           /\ nr' \in Nat /\ lastTs' \in BOOLEAN
           /\ writer' = "stop" => ret' \in Results
           /\ r = Ok => writer' = "check" /\ ret' = Ok /\ nr' = 0
           /\ ~opts.drop /\ r # Ok => writer' # "check"
           /\ \/ /\ o = out /\ h = header /\ skip = dropKey /\ nr = 0 /\ nr' = 0
                 /\ writer = "dispatch" /\ (r # Ok => writer' = "recover")
              \/ /\ o = EndedOut /\ h = FALSE /\ skip = Skip /\ opts.recover
                 /\ r # Ok => nr' > 0
<1>1. /\ Ok \notin Errors /\ header \in BOOLEAN /\ dropKey \in BOOLEAN /\ lastTs \in BOOLEAN
      /\ nr \in Nat /\ opts.drop \in BOOLEAN /\ opts.restart \in BOOLEAN /\ opts.max \in Nat
      /\ opts.stream \in BOOLEAN
  BY FifoAssumption, OptionTypes DEF TypeOK
<1>2. CASE DispatchMessage
  <2>1. PICK r \in Results : /\ Dispatch(out, header, dropKey, r) /\ ret' = r
                             /\ writer' = IF r = Ok THEN "check" ELSE "recover"
    BY <1>2 DEF DispatchMessage
  <2>2. /\ writer = "dispatch" /\ nr = 0
        /\ UNCHANGED <<queueVars, opts, overflow, userVars, nr, lastTs>>
    BY <1>2 DEF DispatchMessage
  <2> QED BY <1>1, <2>1, <2>2
<1>3. CASE AttemptRecovery
  <2>1. PICK r \in Results :
          /\ Dispatch(EndedOut, FALSE, Skip, r)
          /\ CASE r = Ok -> nr' = 0 /\ lastTs' = lastTs /\ writer' = "check" /\ ret' = r
               [] r # Ok /\ IsRecoverable(r) -> RecoveryFails(r)
               [] OTHER -> nr' = Attempts /\ lastTs' = lastTs /\ AfterAttempt(r)
    BY <1>3 DEF AttemptRecovery
  <2>2. /\ writer = "recover" /\ IsRecoverable(ret) /\ UNCHANGED <<queueVars, opts, overflow, userVars>>
    BY <1>3 DEF AttemptRecovery
  <2>3. Skip \in BOOLEAN /\ Attempts \in Nat /\ Attempts > 0 /\ opts.recover
    BY <1>1, <2>2 DEF Skip, Attempts, IsRecoverable
  <2>4. CASE r = Ok
    <3>1. nr' = 0 /\ lastTs' = lastTs /\ writer' = "check" /\ ret' = r
      BY <2>1, <2>4
    <3>2. nr' \in Nat /\ lastTs' \in BOOLEAN
      BY <1>1, <3>1
    <3> QED BY <2>1, <2>2, <2>3, <2>4, <3>1, <3>2
  <2>5. CASE r # Ok /\ IsRecoverable(r)
    <3>1. RecoveryFails(r)
      BY <2>1, <2>5
    <3> DEFINE e == IF opts.max > 0 /\ Attempts >= opts.max THEN r ELSE Again
    <3>2. nr' = Attempts /\ AfterAttempt(e) /\ lastTs' \in BOOLEAN
      <4>1. msg.ts \in BOOLEAN
        BY DEF TypeOK, Messages
      <4> QED BY <1>1, <3>1, <4>1 DEF RecoveryFails
    <3>3. CASE e = r
      BY <2>1, <2>2, <2>3, <2>5, <3>2, <3>3, Attempted
    <3>4. CASE e = Again
      BY <1>1, <2>1, <2>2, <2>3, <2>5, <3>2, <3>4 DEF AfterAttempt
    <3> QED BY <3>3, <3>4
  <2>6. CASE r # Ok /\ ~IsRecoverable(r)
    <3>1. nr' = Attempts /\ lastTs' = lastTs /\ AfterAttempt(r)
      BY <2>1, <2>6
    <3> QED BY <1>1, <2>1, <2>2, <2>3, <2>6, <3>1, Attempted
  <2> QED BY <2>4, <2>5, <2>6
<1> QED BY <1>2, <1>3

(* The writer's steps that only move on. *)
LEMMA MovesOn ==
  ASSUME TypeOK, Waiting, DispatchLater \/ RecoverNot \/ TooEarly
  PROVE  /\ UNCHANGED <<queueVars, opts, overflow, userVars, msg, nr, lastTs, dropKey>>
         /\ writer \in {"dispatch", "recover"} /\ writer' \in {"check", "recover", "stop"}
         /\ ret' = ret /\ (~opts.drop => writer' # "check")
         /\ nr > 0 \/ (writer = "recover" /\ ~IsRecoverable(ret))
         /\ writer' = "stop" => writer = "recover" /\ ~IsRecoverable(ret)
         /\ \/ header' = header /\ out' = out
            \/ header' = FALSE /\ out' = EndedOut /\ nr > 0
<1>1. CASE DispatchLater
  BY <1>1 DEF DispatchLater, userVars
<1>2. CASE RecoverNot
  BY <1>2, OptionTypes DEF RecoverNot, AfterAttempt
<1>3. CASE TooEarly
  BY <1>3, OptionTypes DEF TooEarly, AfterAttempt
<1> QED BY <1>1, <1>2, <1>3

LEMMA NextTypes ==
  ASSUME TypeOK, Waiting, Next, Closed(out), writer # "exited" => (header <=> Open(out))
  PROVE  TypeOK' /\ Waiting'
<1>1. CASE WritePacket \/ SendAgain
  <2>1. PICK m \in Messages :
           /\ SendMessage(m) /\ "user" \notin sendWait /\ errRecv = NoErr /\ writer # "none"
           /\ UNCHANGED <<opts, overflow, writerVars>>
           /\ \/ user = "idle" /\ given' = given + 1 /\ IsPacket(m) /\ m.n = given + 1
              \/ user = "idle" /\ given' = given /\ ~IsPacket(m)
              \/ user = "send" /\ given' = given /\ m = inHand
    BY <1>1, Sends
  <2>2. given' \in Nat
    BY <2>1 DEF TypeOK
  <2>3. /\ sendWait = {} /\ UNCHANGED <<errSend, errRecv>>
        /\ \/ /\ errSend = NoErr /\ queue' = Append(queue, m) /\ Len(queue') <= QueueSize
              /\ queue' \in Seq(Messages) /\ sendWait' = {} /\ recvWait' = {}
              /\ user' = "idle" /\ inHand' = HeaderMsg
           \/ opts.drop /\ user' = "overflow" /\ UNCHANGED <<queueVars, inHand>>
           \/ /\ ~opts.drop /\ Len(queue) = QueueSize /\ errSend = NoErr
              /\ user' = "send" /\ inHand' = m
              /\ sendWait' = {"user"} /\ UNCHANGED <<queue, recvWait>>
           \/ errSend # NoErr /\ user' = "idle" /\ inHand' = HeaderMsg /\ UNCHANGED queueVars
    BY <2>1, Sent
  <2>4. TypeOK'
    <3>1. /\ queue' \in Seq(Messages) /\ Len(queue') <= QueueSize
          /\ sendWait' \subseteq {"user"} /\ recvWait' \subseteq {"writer"}
          /\ user' \in {"idle", "overflow", "send"} /\ inHand' \in Messages
      BY <2>1, <2>3, MadeUp DEF TypeOK, queueVars
    <3>2. UNCHANGED <<errSend, errRecv, opts, overflow, writer, msg, ret, header, nr, lastTs, dropKey, out>>
      BY <2>1, <2>3 DEF writerVars
    <3> QED BY <2>2, <3>1, <3>2 DEF TypeOK, Accepted
  <2>5. Waiting'
    BY <2>1, <2>3 DEF TypeOK, Waiting, NobodySleepsInVain, queueVars, writerVars
  <2> QED BY <2>4, <2>5
<1>2. CASE WriteHeader
  <2>1. TypeOK'
    BY <1>2 DEF WriteHeader, TypeOK, Accepted, queueVars
  <2>2. Waiting'
    BY <1>2 DEF WriteHeader, Waiting, NobodySleepsInVain, queueVars
  <2> QED BY <2>1, <2>2
<1>3. CASE WriteTrailer
  <2>1. NoErr # Eof
    BY FifoAssumption
  <2>2. TypeOK'
    BY <1>3 DEF WriteTrailer, SetErrRecv, TypeOK, Accepted, writerVars
  <2>3. Waiting'
    BY <1>3, <2>1 DEF WriteTrailer, SetErrRecv, Waiting, NobodySleepsInVain, writerVars
  <2> QED BY <2>2, <2>3
<1>4. CASE SetOverflow
  <2>1. TypeOK'
    BY <1>4 DEF SetOverflow, TypeOK, Accepted, queueVars, writerVars
  <2>2. Waiting'
    BY <1>4 DEF SetOverflow, Waiting, NobodySleepsInVain, queueVars, writerVars
  <2> QED BY <2>1, <2>2
<1>5. CASE Joined
  <2>1. TypeOK'
    BY <1>5 DEF Joined, TypeOK, Accepted, queueVars, writerVars
  <2>2. Waiting'
    BY <1>5 DEF Joined, Waiting, NobodySleepsInVain, queueVars, writerVars
  <2> QED BY <2>1, <2>2
<1>6. CASE DispatchMessage \/ AttemptRecovery
  <2>1. PICK o \in {out, EndedOut}, h \in BOOLEAN, skip \in BOOLEAN, r \in Results :
           /\ Dispatch(o, h, skip, r)
           /\ UNCHANGED <<queueVars, opts, overflow, userVars>>
           /\ writer \in {"dispatch", "recover"}
           /\ writer' \in {"check", "recover", "stop"} /\ ret' \in Results \cup {ret}
           /\ nr' \in Nat /\ lastTs' \in BOOLEAN
           /\ \/ o = out /\ h = header /\ skip = dropKey
              \/ o = EndedOut /\ h = FALSE /\ skip = Skip
    BY <1>6, Dispatches, ZenonT(40)
  <2>2. o \in Seq(Messages)
    BY <2>1, SessionEnds DEF TypeOK
  <2>3. Append(o, Began) \in Seq(Messages)
    BY <2>2, Pushed, MadeUp
  <2>4. msg \in Messages
    BY DEF TypeOK
  <2>5. /\ msg' \in Messages /\ header' \in BOOLEAN /\ dropKey' \in BOOLEAN /\ (~skip => ~dropKey')
        /\ \/ out' = o
           \/ out' = (IF h THEN o ELSE Append(o, Began))
           \/ out' = Append(IF h THEN o ELSE Append(o, Began), msg')
    BY <2>1, <2>4, Dispatched
  <2>6. out' \in Seq(Messages)
    BY <2>2, <2>3, <2>5, Pushed
  <2>7. TypeOK'
    BY <2>1, <2>5, <2>6 DEF TypeOK, Results, Accepted, queueVars, userVars
  <2>8. ~opts.drop => ~skip
    BY <2>1 DEF Waiting, Skip
  <2>9. Waiting'
    BY <2>1, <2>5, <2>8 DEF Waiting, NobodySleepsInVain, queueVars, userVars
  <2> QED BY <2>7, <2>9
<1>7. CASE DispatchLater \/ RecoverNot \/ TooEarly
  <2>1. /\ UNCHANGED <<queueVars, opts, overflow, userVars, msg, nr, lastTs, dropKey>>
        /\ writer \in {"dispatch", "recover"} /\ writer' \in {"check", "recover", "stop"}
        /\ ret' = ret
        /\ \/ header' = header /\ out' = out
           \/ header' = FALSE /\ out' = EndedOut
    BY <1>7, MovesOn
  <2>2. out' \in Seq(Messages)
    BY <2>1, SessionEnds DEF TypeOK
  <2>3. TypeOK'
    <3>1. header' \in BOOLEAN
      BY <2>1 DEF TypeOK
    <3> QED BY <2>1, <2>2, <3>1 DEF TypeOK, Accepted, queueVars, userVars
  <2>4. Waiting'
    BY <2>1 DEF Waiting, NobodySleepsInVain, queueVars, userVars
  <2> QED BY <2>3, <2>4
<1>8. CASE CheckOverflow
  <2>1. <<>> \in Seq(Messages) /\ Len(<<>>) = 0 /\ QueueSize \in Nat
    BY QueueAssumption
  <2>2. TypeOK'
    <3>1. dropKey' \in BOOLEAN
      BY <1>8, OptionTypes DEF CheckOverflow, SkipAfterOverflow, TypeOK
    <3>2. /\ queue' \in Seq(Messages) /\ Len(queue') <= QueueSize /\ writer' \in {"clear", "recv"}
          /\ sendWait' \subseteq {"user"} /\ UNCHANGED <<errSend, errRecv, recvWait>>
      <4>1. CASE overflow
        <5>1. queue' = <<>> /\ sendWait' = {} /\ UNCHANGED <<errSend, errRecv, recvWait>> /\ writer' = "clear"
          BY <1>8, <4>1 DEF CheckOverflow, Flush
        <5> QED BY <2>1, <5>1
      <4>2. CASE ~overflow
        <5>1. UNCHANGED <<queue, errSend, errRecv, sendWait, recvWait>> /\ writer' = "recv"
          BY <1>8, <4>2 DEF CheckOverflow, queueVars
        <5> QED BY <5>1 DEF TypeOK
      <4> QED BY <4>1, <4>2
    <3>3. UNCHANGED <<opts, overflow, userVars, msg, ret, header, nr, lastTs, out>>
      BY <1>8 DEF CheckOverflow
    <3> QED BY <3>1, <3>2, <3>3 DEF TypeOK, Accepted, userVars
  <2>3. Waiting'
    BY <1>8, <2>1 DEF CheckOverflow, Flush, Waiting, NobodySleepsInVain, queueVars, userVars
  <2> QED BY <2>2, <2>3
<1>9. CASE ClearOverflow
  <2>1. TypeOK'
    BY <1>9, ZenonT(40) DEF ClearOverflow, TypeOK, Accepted, queueVars, userVars
  <2>2. Waiting'
    BY <1>9 DEF ClearOverflow, Waiting, NobodySleepsInVain, queueVars, userVars
  <2> QED BY <2>1, <2>2
<1>10. CASE Receive
  <2>1. writer = "recv" /\ UNCHANGED <<opts, overflow, userVars, header, nr, lastTs, dropKey, out, fails>>
    BY <1>10 DEF Receive
  <2>2. CASE RecvTakes /\ msg' = Head(queue) /\ ret' = Ok /\ writer' = "dispatch"
    <3>1. /\ queue # <<>> /\ queue' = Tail(queue) /\ UNCHANGED <<errSend, errRecv, recvWait>>
          /\ sendWait' = {}
      BY <2>2, SignalledOne DEF RecvTakes, TypeOK
    <3>2. Head(queue) \in Messages /\ Tail(queue) \in Seq(Messages) /\ Len(Tail(queue)) = Len(queue) - 1
          /\ Len(queue) \in Nat
      BY <3>1, Shifted DEF TypeOK
    <3>3. Len(Tail(queue)) <= QueueSize
      BY <3>2, QueueAssumption DEF TypeOK
    <3>4. TypeOK'
      BY <2>1, <2>2, <3>1, <3>2, <3>3 DEF TypeOK, Accepted, userVars
    <3>5. Waiting'
      BY <2>1, <2>2, <3>1 DEF Waiting, NobodySleepsInVain, userVars
    <3> QED BY <3>4, <3>5
  <2>3. CASE RecvWaits("writer") /\ UNCHANGED <<msg, ret, writer>>
    <3>1. TypeOK'
      BY <2>1, <2>3 DEF RecvWaits, TypeOK, Accepted, userVars
    <3>2. Waiting'
      BY <2>1, <2>3 DEF RecvWaits, Waiting, NobodySleepsInVain, userVars
    <3> QED BY <3>1, <3>2
  <2>4. CASE RecvFails /\ ret' = errRecv /\ writer' = "stop" /\ UNCHANGED <<queueVars, msg>>
    <3>1. ret' = Eof
      BY <2>4 DEF RecvFails, TypeOK
    <3>2. TypeOK'
      BY <2>1, <2>4, <3>1 DEF TypeOK, Accepted, userVars, queueVars
    <3>3. "writer" \notin recvWait
      BY <1>10 DEF Receive
    <3>4. Waiting'
      BY <2>1, <2>4, <3>3 DEF Waiting, NobodySleepsInVain, userVars, queueVars
    <3> QED BY <3>2, <3>4
  <2> QED BY <1>10, <2>2, <2>3, <2>4 DEF Receive
<1>11. CASE Stop
  <2>1. TypeOK'
    BY <1>11 DEF Stop, SetErrSend, TypeOK, Accepted, userVars
  <2>2. Waiting'
    BY <1>11 DEF Stop, SetErrSend, Waiting, NobodySleepsInVain, userVars
  <2> QED BY <2>1, <2>2
<1>12. CASE ThreadTrailer
  <2>1. EndedOut \in Seq(Messages)
    BY <1>12, SessionEnds DEF ThreadTrailer, TypeOK
  <2>2. TypeOK'
    BY <1>12, <2>1 DEF ThreadTrailer, TypeOK, Accepted, userVars, queueVars
  <2>3. Waiting'
    BY <1>12 DEF ThreadTrailer, Waiting, NobodySleepsInVain, userVars, queueVars
  <2> QED BY <2>2, <2>3
<1>13. CASE Terminating
  BY <1>13 DEF Terminating, fifoVars, queueVars, userVars, writerVars, TypeOK, Accepted, Waiting, NobodySleepsInVain
<1> QED
  BY <1>1, <1>2, <1>3, <1>4, <1>5, <1>6, <1>7, <1>8, <1>9, <1>10, <1>11, <1>12, <1>13
  DEF Next, UserStep, WriterStep

-----------------------------------------------------------------------------
(* What the output has begun and ended. *)

Sound == /\ Closed(out) /\ (writer = "exited" => ~Open(out))
         /\ opts.restart /\ opts.drop => KeyFirst(out)

LEMMA SoundIs == SessionsClosed /\ RestartsWithKey <=> Sound
BY DEF Sound, SessionsClosed, RestartsWithKey, Closed, KeyFirst, Open

LEMMA InitSessions == Init => Sessions /\ Sound
<1> SUFFICES ASSUME Init PROVE Sessions /\ Sound
  OBVIOUS
<1>1. out = <<>> /\ Len(out) = 0
  BY DEF Init
<1>2. writer = "none" /\ header = FALSE /\ nr = 0
  BY DEF Init
<1> QED BY <1>1, <1>2 DEF Sessions, Sound, Closed, KeyFirst, Open, Began2

(* A step that leaves the output alone, unless the thread gives up retrying. *)
LEMMA SameOutput ==
  ASSUME Sessions, Sound, UNCHANGED <<opts, header, nr, out>>, dropKey => dropKey',
         writer # "exited", writer' # "exited", Retrying => Retrying'
  PROVE  Sessions' /\ Sound'
BY DEF Sessions, Sound, Closed, KeyFirst, Open, Began2

LEMMA DispatchSessions ==
  ASSUME TypeOK, Waiting, Sessions, Sound, DispatchMessage \/ AttemptRecovery
  PROVE  Sessions' /\ Sound'
<1>1. PICK o \in {out, EndedOut}, h \in BOOLEAN, skip \in BOOLEAN, r \in Results :
           /\ Dispatch(o, h, skip, r)
           /\ UNCHANGED <<queueVars, opts, overflow, userVars>>
           /\ writer \in {"dispatch", "recover"}
           /\ writer' \in {"check", "recover", "stop"} /\ ret' \in Results \cup {ret}
           /\ nr' \in Nat /\ lastTs' \in BOOLEAN
           /\ writer' = "stop" => ret' \in Results
           /\ r = Ok => writer' = "check" /\ ret' = Ok /\ nr' = 0
           /\ ~opts.drop /\ r # Ok => writer' # "check"
           /\ \/ /\ o = out /\ h = header /\ skip = dropKey /\ nr = 0 /\ nr' = 0
                 /\ writer = "dispatch" /\ (r # Ok => writer' = "recover")
              \/ /\ o = EndedOut /\ h = FALSE /\ skip = Skip /\ opts.recover
                 /\ r # Ok => nr' > 0
  BY Dispatches
<1>2. out \in Seq(Messages) /\ msg \in Messages /\ (header <=> Open(out)) /\ Closed(out) /\ header \in BOOLEAN
  BY <1>1 DEF TypeOK, Sessions, Sound
<1> DEFINE S == opts.restart /\ opts.drop
           b == IF h THEN o ELSE Append(o, Began)
<1>3. /\ EndedOut \in Seq(Messages) /\ Closed(EndedOut) /\ ~Open(EndedOut)
      /\ KeyFirst(out) => KeyFirst(EndedOut)
  BY <1>2, SessionEnds
(* Before the dispatch: the old output, or one that was ended. *)
<1>4. /\ o \in Seq(Messages) /\ Closed(o) /\ (h <=> Open(o)) /\ (S => KeyFirst(o))
      /\ \/ (h \/ o = <<>>) /\ (S /\ Began2(o) => skip) /\ nr = 0 /\ (r # Ok => writer' = "recover")
            /\ (~opts.recover => ~Began2(o))
         \/ ~h /\ (S => skip) /\ opts.recover /\ (r # Ok => nr' > 0)
  <2>1. CASE /\ o = out /\ h = header /\ skip = dropKey /\ nr = 0 /\ nr' = 0
             /\ writer = "dispatch" /\ (r # Ok => writer' = "recover")
    BY <1>2, <2>1 DEF Sessions, Sound, Retrying, Ending
  <2>2. CASE /\ o = EndedOut /\ h = FALSE /\ skip = Skip /\ opts.recover
             /\ r # Ok => nr' > 0
    BY <1>3, <2>2 DEF Skip, Sound
  <2> QED BY <1>1, <2>1, <2>2
(* The header is written where none is. *)
<1>5. /\ b \in Seq(Messages) /\ b # <<>> /\ Closed(b) /\ Open(b) /\ (S => KeyFirst(b))
      /\ S /\ Began2(b) => skip
      /\ ~opts.recover => ~Began2(b)
  <2>1. CASE h
    BY <1>4, <2>1 DEF Open
  <2>2. CASE ~h
    <3>1. LET a == Append(o, Began)
          IN  /\ a \in Seq(Messages) /\ a # <<>> /\ Closed(a) /\ Open(a)
              /\ Began2(a) <=> o # <<>>
              /\ KeyFirst(o) => KeyFirst(a)
      BY <1>4, <2>2, SessionBegins
    <3> QED BY <1>4, <2>2, <3>1
  <2> QED BY <2>1, <2>2
<1> HIDE DEF b
<1>6. UNCHANGED opts /\ writer' \in {"check", "recover", "stop"} /\ (~opts.recover => nr' = 0)
  BY <1>1
<1>7. r # Ok => Retrying'
  BY <1>1, <1>4 DEF Retrying
<1>8. /\ msg' \in Messages /\ msg'.type = msg.type /\ msg'.n = msg.n /\ msg'.key = msg.key
      /\ header' \in BOOLEAN /\ dropKey' \in BOOLEAN /\ (~skip => ~dropKey')
      /\ \/ r # Ok /\ ~h /\ ~header' /\ out' = o /\ dropKey' = skip
         \/ /\ header' /\ out' = b
            /\ r = Ok => dropKey' = skip /\ (IsPacket(msg) => skip)
         \/ /\ r = Ok /\ IsPacket(msg) /\ header' /\ ~dropKey'
            /\ out' = Append(b, msg')
            /\ skip => msg.key
  BY <1>1, <1>2, Dispatched DEF b
<1>9. CASE r # Ok /\ ~h /\ ~header' /\ out' = o /\ dropKey' = skip
  <2>1. ~Open(out') /\ Closed(out') /\ (S => KeyFirst(out')) /\ (~opts.recover => out' = <<>> /\ ~Began2(out'))
    BY <1>4, <1>9
  <2> QED BY <1>6, <1>7, <1>9, <2>1 DEF Sessions, Sound, Open, Closed, KeyFirst, Began2
<1>10. CASE /\ header' /\ out' = b
            /\ r = Ok => dropKey' = skip /\ (IsPacket(msg) => skip)
  <2>1. Open(out') /\ Closed(out') /\ (S => KeyFirst(out')) /\ (~opts.recover => ~Began2(out'))
        /\ (S /\ Began2(out') => dropKey' \/ Retrying')
    BY <1>5, <1>7, <1>10
  <2> QED BY <1>6, <1>10, <2>1 DEF Sessions, Sound, Open, Closed, KeyFirst, Began2
<1>11. CASE /\ r = Ok /\ IsPacket(msg) /\ header' /\ ~dropKey'
            /\ out' = Append(b, msg')
            /\ skip => msg.key
  <2>1. msg' \in Messages /\ msg'.type = "packet" /\ (skip => msg'.key)
    BY <1>8, <1>11 DEF IsPacket
  <2>2. LET a == Append(b, msg')
        IN  /\ a \in Seq(Messages) /\ a # <<>> /\ Closed(a) /\ (Open(a) <=> msg'.type # "ended")
            /\ ~Began2(a) /\ a[Len(a)] = msg'
            /\ KeyFirst(b) /\ (IsPacket(msg') /\ Began2(b) => msg'.key) => KeyFirst(a)
    BY <1>5, <2>1, SessionGoesOn
  <2>3. Open(out') /\ Closed(out') /\ (S => KeyFirst(out')) /\ ~Began2(out')
    BY <1>5, <1>11, <2>1, <2>2
  <2> QED BY <1>6, <1>11, <2>3 DEF Sessions, Sound, Open, Closed, KeyFirst, Began2
<1> QED BY <1>8, <1>9, <1>10, <1>11

LEMMA NextSessions ==
  ASSUME TypeOK, Waiting, Sessions, Sound, Next
  PROVE  Sessions' /\ Sound'
<1>1. CASE WriteHeader
  <2>1. UNCHANGED <<opts, header, nr, out, dropKey>> /\ writer = "none" /\ writer' = "dispatch"
    BY <1>1 DEF WriteHeader, Waiting
  <2> QED BY <2>1, SameOutput DEF Retrying, Ending
<1>2. CASE WritePacket \/ SendAgain \/ SetOverflow \/ WriteTrailer \/ Joined \/ Terminating
  <2>1. UNCHANGED <<opts, writer, header, nr, out, dropKey>>
    BY <1>2 DEF WritePacket, SendAgain, SetOverflow, WriteTrailer, Joined, Terminating, fifoVars, writerVars
  <2> QED BY <2>1 DEF Sessions, Sound, Open, Closed, KeyFirst, Began2, Retrying, Ending
<1>3. CASE DispatchMessage \/ AttemptRecovery
  BY <1>3, DispatchSessions
<1>4. CASE DispatchLater \/ RecoverNot \/ TooEarly
  <2>1. /\ UNCHANGED <<queueVars, opts, overflow, userVars, msg, nr, lastTs, dropKey>>
        /\ writer \in {"dispatch", "recover"} /\ writer' \in {"check", "recover", "stop"}
        /\ ret' = ret /\ (~opts.drop => writer' # "check")
        /\ nr > 0 \/ (writer = "recover" /\ ~IsRecoverable(ret))
        /\ writer' = "stop" => writer = "recover" /\ ~IsRecoverable(ret)
        /\ \/ header' = header /\ out' = out
           \/ header' = FALSE /\ out' = EndedOut /\ nr > 0
    BY <1>4, MovesOn
  <2>2. CASE header' = FALSE /\ out' = EndedOut /\ nr > 0
    <3>1. /\ EndedOut \in Seq(Messages) /\ Closed(EndedOut) /\ ~Open(EndedOut)
          /\ KeyFirst(out) => KeyFirst(EndedOut)
      BY <2>1, SessionEnds DEF TypeOK, Sessions, Sound
    <3>2. opts.recover
      BY <2>2 DEF Sessions
    <3> QED BY <2>1, <2>2, <3>1, <3>2 DEF Sessions, Sound, Open, Closed, KeyFirst, Began2, Retrying
  <2>3. CASE header' = header /\ out' = out /\ (nr > 0 \/ writer' # "check")
    BY <2>1, <2>3, SameOutput DEF Retrying, Ending
  <2>4. CASE header' = header /\ out' = out /\ ~(nr > 0) /\ writer' = "check"
    <3>1. RecoverNot
      BY <1>4, <2>4 DEF DispatchLater, TooEarly
    <3>2. ret = Again /\ ~IsRecoverable(Again)
      BY <2>4, <3>1 DEF RecoverNot, AfterAttempt
    <3>3. ~opts.recover
      BY <3>2 DEF IsRecoverable, Again, Permanent, Eof, Exit
    <3> QED BY <2>1, <2>4, <3>3 DEF Sessions, Sound, Open, Closed, KeyFirst, Began2
  <2> QED BY <2>1, <2>2, <2>3, <2>4
<1>5. CASE CheckOverflow \/ ClearOverflow \/ Receive \/ Stop
  <2>1. /\ UNCHANGED <<opts, header, nr, out>> /\ writer # "exited" /\ writer' # "exited"
        /\ writer \in {"check", "clear", "recv", "stop"} /\ (writer = "stop" => writer' = "trailer")
    BY <1>5 DEF CheckOverflow, ClearOverflow, Receive, Stop
  <2>2. dropKey => dropKey'
    BY <1>5 DEF CheckOverflow, SkipAfterOverflow, ClearOverflow, Receive, Stop
  <2>3. Retrying => Retrying'
    BY <2>1 DEF Retrying, Ending
  <2> QED BY <2>1, <2>2, <2>3, SameOutput
<1>6. CASE ThreadTrailer
  <2>1. writer = "trailer" /\ writer' = "exited" /\ out' = EndedOut /\ UNCHANGED <<opts, header, nr, dropKey>>
    BY <1>6 DEF ThreadTrailer
  <2>2. /\ EndedOut \in Seq(Messages) /\ Closed(EndedOut) /\ ~Open(EndedOut)
        /\ header => ~Began2(EndedOut)
        /\ ~header => EndedOut = out
        /\ KeyFirst(out) => KeyFirst(EndedOut)
    BY <2>1, SessionEnds DEF TypeOK, Sessions, Sound
  <2> QED BY <2>1, <2>2 DEF Sessions, Sound, Open, Closed, KeyFirst, Began2, Retrying, Ending
<1> QED
  BY <1>1, <1>2, <1>3, <1>4, <1>5, <1>6 DEF Next, UserStep, WriterStep

-----------------------------------------------------------------------------
(* The order of the packets. *)

(* t is s with headers and trailers between its packets. *)
SamePackets(s, t) ==
  /\ t \in Seq(Messages)
  /\ \A n \in Nat : (Older(s, n) <=> Older(t, n)) /\ (Has(s, n) <=> Has(t, n))
  /\ Increasing(s) => Increasing(t)
  /\ AllOlder(s, queue) => AllOlder(t, queue)
  /\ NoGap(s) => NoGap(t)

LEMMA NoGapAppend ==
  ASSUME NEW s \in Seq(Messages), NEW e \in Messages, NoGap(s),
         IsPacket(e) => \A n \in 1 .. e.n : n = e.n \/ Has(s, n)
  PROVE  NoGap(Append(s, e))
<1> DEFINE a == Append(s, e)
<1>1. /\ Len(a) = Len(s) + 1 /\ Len(s) \in Nat
      /\ \A i \in 1 .. Len(s) + 1 : a[i] = IF i <= Len(s) THEN s[i] ELSE e
  BY Pushed
<1>2. \A n : Has(a, n) <=> Has(s, n) \/ (IsPacket(e) /\ e.n = n)
  BY OlderAppend
<1> HIDE DEF a
<1>3. ASSUME NEW i \in 1 .. Len(a), IsPacket(a[i]), NEW n \in 1 .. a[i].n
      PROVE  Has(a, n)
  <2>1. CASE i <= Len(s)
    <3>1. i \in 1 .. Len(s) /\ a[i] = s[i]
      BY <1>1, <2>1
    <3>2. Has(s, n)
      BY <1>3, <3>1 DEF NoGap
    <3> QED BY <1>2, <3>2
  <2>2. CASE ~(i <= Len(s))
    <3>1. a[i] = e
      BY <1>1, <2>2
    <3> QED BY <1>2, <1>3, <3>1
  <2> QED BY <2>1, <2>2
<1>4. NoGap(a)
  BY <1>3 DEF NoGap
<1> QED BY <1>4 DEF a

LEMMA Marked ==
  ASSUME NEW s \in Seq(Messages), NEW e \in Messages, ~IsPacket(e), queue \in Seq(Messages)
  PROVE  SamePackets(s, s) /\ SamePackets(s, Append(s, e))
<1> DEFINE a == Append(s, e)
<1>1. a \in Seq(Messages)
  BY Pushed
<1>2. \A n \in Nat : (Older(s, n) <=> Older(a, n)) /\ (Has(s, n) <=> Has(a, n))
  BY OlderAppend
<1>3. /\ Increasing(s) => Increasing(a)
      /\ AllOlder(s, queue) => AllOlder(a, queue)
  BY OrderAppend
<1>4. NoGap(s) => NoGap(a)
  BY NoGapAppend
<1> HIDE DEF a
<1>5. SamePackets(s, a)
  BY <1>1, <1>2, <1>3, <1>4 DEF SamePackets
<1>6. SamePackets(s, s)
  BY DEF SamePackets
<1> QED BY <1>5, <1>6 DEF a

LEMMA MarkedTwice ==
  ASSUME NEW s, NEW t, NEW u, SamePackets(s, t), SamePackets(t, u)
  PROVE  SamePackets(s, u)
BY DEF SamePackets

LEMMA EndedSame == TypeOK => SamePackets(out, EndedOut)
BY Marked, MadeUp DEF TypeOK, EndedOut

(* A dispatch writes the packet it has, unless it fails or may drop it. *)
LEMMA DispatchOrder ==
  ASSUME TypeOK, Waiting, DispatchMessage \/ AttemptRecovery
  PROVE  \E b \in Seq(Messages), r \in Results :
           /\ SamePackets(out, b)
           /\ UNCHANGED <<queueVars, opts, overflow, userVars>>
           /\ writer \in {"dispatch", "recover"}
           /\ writer' \in {"check", "recover", "stop"}
           /\ r = Ok => writer' = "check"
           /\ ~opts.drop /\ r # Ok => writer' # "check"
           /\ ret' \in Results \cup {ret} /\ (writer' = "stop" => ret' \in Results)
           /\ msg' \in Messages /\ msg'.type = msg.type /\ msg'.n = msg.n
           /\ \/ out' = b /\ (r = Ok => ~IsPacket(msg) \/ opts.drop)
              \/ out' = Append(b, msg') /\ IsPacket(msg) /\ r = Ok
<1>1. PICK o \in {out, EndedOut}, h \in BOOLEAN, skip \in BOOLEAN, r \in Results :
           /\ Dispatch(o, h, skip, r)
           /\ UNCHANGED <<queueVars, opts, overflow, userVars>>
           /\ writer \in {"dispatch", "recover"}
           /\ writer' \in {"check", "recover", "stop"} /\ ret' \in Results \cup {ret}
           /\ nr' \in Nat /\ lastTs' \in BOOLEAN
           /\ writer' = "stop" => ret' \in Results
           /\ r = Ok => writer' = "check" /\ ret' = Ok /\ nr' = 0
           /\ ~opts.drop /\ r # Ok => writer' # "check"
           /\ \/ /\ o = out /\ h = header /\ skip = dropKey /\ nr = 0 /\ nr' = 0
                 /\ writer = "dispatch" /\ (r # Ok => writer' = "recover")
              \/ /\ o = EndedOut /\ h = FALSE /\ skip = Skip /\ opts.recover
                 /\ r # Ok => nr' > 0
  BY Dispatches
<1> DEFINE b == IF h THEN o ELSE Append(o, Began)
<1>2. out \in Seq(Messages) /\ queue \in Seq(Messages) /\ msg \in Messages
  BY DEF TypeOK
<1>3. SamePackets(out, o)
  BY <1>1, <1>2, EndedSame, Marked, MadeUp
<1>4. SamePackets(out, Append(o, Began))
  <2>1. SamePackets(o, Append(o, Began))
    BY <1>2, <1>3, Marked, MadeUp DEF SamePackets
  <2> QED BY <1>3, <2>1, MarkedTwice
<1>5. SamePackets(out, b)
  BY <1>3, <1>4
<1>6. /\ msg' \in Messages /\ msg'.type = msg.type /\ msg'.n = msg.n /\ msg'.key = msg.key
      /\ header' \in BOOLEAN /\ dropKey' \in BOOLEAN /\ (~skip => ~dropKey')
      /\ \/ r # Ok /\ ~h /\ ~header' /\ out' = o /\ dropKey' = skip
         \/ /\ header' /\ out' = b
            /\ r = Ok => dropKey' = skip /\ (IsPacket(msg) => skip)
         \/ /\ r = Ok /\ IsPacket(msg) /\ header' /\ ~dropKey'
            /\ out' = Append(b, msg')
            /\ skip => msg.key
  BY <1>1, <1>2, Dispatched
<1>7. skip => opts.drop
  BY <1>1 DEF Skip, Waiting
<1> HIDE DEF b
<1>11. o \in Seq(Messages) /\ b \in Seq(Messages)
  BY <1>3, <1>5 DEF SamePackets
<1>8. CASE r # Ok /\ out' = o
  BY <1>11, <1>1, <1>3, <1>6, <1>8
<1>9. CASE out' = b /\ (r = Ok => ~IsPacket(msg) \/ skip)
  BY <1>11, <1>1, <1>5, <1>6, <1>7, <1>9
<1>10. CASE r = Ok /\ IsPacket(msg) /\ out' = Append(b, msg')
  BY <1>11, <1>1, <1>5, <1>6, <1>10
<1> QED BY <1>6, <1>8, <1>9, <1>10

LEMMA OlderYet ==
  ASSUME NEW s \in Seq(Messages), NEW n \in Nat, Older(s, n)
  PROVE  \A m \in Nat : n <= m => Older(s, m)
<1> SUFFICES ASSUME NEW m \in Nat, n <= m, NEW i \in 1 .. Len(s), IsPacket(s[i])
             PROVE  s[i].n < m
  BY DEF Older
<1>1. s[i] \in Messages
  BY ElementOfSeq
<1>2. s[i].n \in Nat /\ s[i].n < n
  BY <1>1, MessageType DEF Older
<1> QED BY <1>2

LEMMA InitOrder == Init => AgeOrder
<1> SUFFICES ASSUME Init PROVE AgeOrder
  OBVIOUS
<1>1. /\ out = <<>> /\ queue = <<>> /\ user = "new" /\ writer = "none" /\ msg = HeaderMsg
  BY DEF Init, QueueInit
<1>2. /\ Older(<<>>, given + 1) /\ Increasing(<<>>) /\ AllOlder(<<>>, <<>>)
  BY EmptyMessages
<1> QED BY <1>1, <1>2, MadeUp DEF AgeOrder, InWork, Held

(* The message a call sends: a packet is newer than all before it. *)
LEMMA SendOrder ==
  ASSUME TypeOK, Waiting, AgeOrder, WritePacket \/ SendAgain
  PROVE  AgeOrder'
<1>1. PICK m \in Messages :
           /\ SendMessage(m) /\ "user" \notin sendWait /\ errRecv = NoErr /\ writer # "none"
           /\ UNCHANGED <<opts, overflow, writerVars>>
           /\ \/ user = "idle" /\ given' = given + 1 /\ IsPacket(m) /\ m.n = given + 1
              \/ user = "idle" /\ given' = given /\ ~IsPacket(m)
              \/ user = "send" /\ given' = given /\ m = inHand
  BY Sends
<1>2. UNCHANGED <<writer, msg, out>>
  BY <1>1 DEF writerVars
<1>3. /\ given \in Nat /\ given' \in Nat /\ given' + 1 \in Nat /\ given <= given'
      /\ out \in Seq(Messages) /\ queue \in Seq(Messages) /\ msg.n \in Nat /\ m.n \in Nat
  BY <1>1, MessageType DEF TypeOK
<1>4. /\ Increasing(out) /\ Increasing(queue) /\ AllOlder(out, queue)
      /\ Older(out, given + 1) /\ Older(queue, given + 1)
      /\ InWork => msg.n <= given /\ Older(out, msg.n) /\ Newer(queue, msg.n)
  BY DEF AgeOrder
<1>5. Older(out, given' + 1) /\ Older(queue, given' + 1)
  BY <1>3, <1>4, OlderYet
<1>6. IsPacket(m) => /\ m.n = given' /\ Older(out, given') /\ Older(queue, given')
                     /\ InWork => msg.n < given'
  <2>1. CASE user = "idle" /\ given' = given + 1 /\ IsPacket(m) /\ m.n = given + 1
    BY <1>3, <1>4, <2>1
  <2>2. CASE user = "send" /\ given' = given /\ m = inHand
    BY <2>2 DEF AgeOrder, Held
  <2> QED BY <1>1, <2>1, <2>2
<1>7. InWork' <=> InWork
  BY <1>2 DEF InWork, IsPacket
<1>8. (user' = "send" => inHand' = m) => AgeOrder' \/ queue' # queue
  <2> SUFFICES ASSUME user' = "send" => inHand' = m, queue' = queue PROVE AgeOrder'
    OBVIOUS
  <2>1. Held' => /\ inHand'.n = given' /\ Older(out', given') /\ Older(queue', given')
                 /\ InWork' => msg'.n < given'
    BY <1>2, <1>6, <1>7 DEF Held, IsPacket
  <2>2. InWork' => msg'.n <= given' /\ Older(out', msg'.n) /\ Newer(queue', msg'.n)
    BY <1>2, <1>3, <1>4, <1>7
  <2> QED BY <1>1, <1>2, <1>4, <1>5, <2>1, <2>2 DEF AgeOrder
<1>9. CASE queue' = Append(queue, m) /\ user' = "idle"
  <2>1. /\ Increasing(queue') /\ Older(queue', given' + 1) /\ AllOlder(out, queue')
        /\ InWork => Newer(queue', msg.n)
    <3>1. IsPacket(m) => m.n < given' + 1 /\ Older(queue, m.n) /\ Older(out, m.n) /\ (InWork => msg.n < m.n)
      BY <1>3, <1>6
    <3> QED BY <1>3, <1>4, <1>5, <1>9, <3>1, OlderAppend, OrderAppend
  <2>2. ~Held'
    BY <1>9 DEF Held
  <2>3. InWork' => msg'.n <= given' /\ Older(out', msg'.n) /\ Newer(queue', msg'.n)
    BY <1>2, <1>3, <1>4, <1>7, <2>1
  <2> QED BY <1>1, <1>2, <1>4, <1>5, <2>1, <2>2, <2>3 DEF AgeOrder
<1>10. /\ sendWait = {} /\ UNCHANGED <<errSend, errRecv>>
       /\ \/ /\ errSend = NoErr /\ queue' = Append(queue, m) /\ Len(queue') <= QueueSize
             /\ queue' \in Seq(Messages) /\ sendWait' = {} /\ recvWait' = {}
             /\ user' = "idle" /\ inHand' = HeaderMsg
          \/ opts.drop /\ user' = "overflow" /\ UNCHANGED <<queueVars, inHand>>
          \/ /\ ~opts.drop /\ Len(queue) = QueueSize /\ errSend = NoErr
             /\ user' = "send" /\ inHand' = m
             /\ sendWait' = {"user"} /\ UNCHANGED <<queue, recvWait>>
          \/ errSend # NoErr /\ user' = "idle" /\ inHand' = HeaderMsg /\ UNCHANGED queueVars
  BY <1>1, Sent
<1> QED BY <1>8, <1>9, <1>10 DEF queueVars

(* What the thread's steps need: the new output, and that it works on no     *)
(* packet it did not have.                                                   *)
LEMMA WriterOrder ==
  ASSUME TypeOK, AgeOrder, NEW b, SamePackets(out, b),
         UNCHANGED <<queue, inHand, given, user>>, writer' # "none",
         \/ out' = b /\ (InWork' => InWork /\ msg'.n = msg.n)
         \/ out' = Append(b, msg') /\ msg' \in Messages /\ InWork /\ msg'.n = msg.n /\ ~InWork'
  PROVE  AgeOrder'
<1>1. /\ given \in Nat /\ given + 1 \in Nat /\ msg.n \in Nat /\ b \in Seq(Messages) /\ queue \in Seq(Messages)
  BY MessageType DEF TypeOK, SamePackets
<1>2. /\ Increasing(b) /\ AllOlder(b, queue) /\ Older(b, given + 1)
      /\ InWork => msg.n <= given /\ Older(b, msg.n) /\ Newer(queue, msg.n)
      /\ Held => Older(b, given) /\ (InWork => msg.n < given)
  BY <1>1 DEF AgeOrder, SamePackets
<1>3. Held' <=> Held
  BY DEF Held, IsPacket
<1>4. /\ Increasing(queue) /\ Older(queue, given + 1)
      /\ Held => inHand.n = given /\ Older(queue, given)
  BY DEF AgeOrder
<1>5. CASE out' = b /\ (InWork' => InWork /\ msg'.n = msg.n)
  BY <1>2, <1>3, <1>4, <1>5 DEF AgeOrder
<1>6. CASE out' = Append(b, msg') /\ msg' \in Messages /\ InWork /\ msg'.n = msg.n /\ ~InWork'
  <2>1. /\ Increasing(out') /\ AllOlder(out', queue) /\ Older(out', given + 1)
        /\ Held => Older(out', given)
    <3>1. msg.n < given + 1
      BY <1>1, <1>2, <1>6
    <3> QED BY <1>1, <1>2, <1>6, <3>1, OlderAppend, OrderAppend
  <2> QED BY <1>3, <1>4, <1>6, <2>1 DEF AgeOrder
<1> QED BY <1>5, <1>6

LEMMA NextOrder ==
  ASSUME TypeOK, Waiting, AgeOrder, Next
  PROVE  AgeOrder'
<1>1. /\ out \in Seq(Messages) /\ queue \in Seq(Messages) /\ SamePackets(out, out) /\ SamePackets(out, EndedOut)
  BY Marked, MadeUp, EndedSame DEF TypeOK
<1>2. CASE WriteHeader
  <2>1. /\ UNCHANGED <<queue, inHand, given, msg, out>> /\ writer = "none" /\ writer' = "dispatch"
        /\ user' = "idle" /\ ~IsPacket(msg)
    BY <1>2 DEF WriteHeader, queueVars, Waiting, AgeOrder
  <2>2. ~InWork' /\ ~Held'
    BY <2>1 DEF InWork, Held, IsPacket
  <2> QED BY <2>1, <2>2 DEF AgeOrder
<1>3. CASE WritePacket \/ SendAgain
  BY <1>3, SendOrder
<1>4. CASE SetOverflow \/ WriteTrailer \/ Joined \/ Terminating
  <2>1. UNCHANGED <<queue, inHand, given, writer, msg, out>> /\ (user' = "send" <=> user = "send")
    BY <1>4 DEF SetOverflow, WriteTrailer, Joined, Terminating, SetErrRecv, fifoVars, writerVars, userVars, queueVars
  <2> QED BY <2>1 DEF AgeOrder, InWork, Held, IsPacket
<1>5. CASE DispatchMessage \/ AttemptRecovery
  <2>1. PICK b \in Seq(Messages), r \in Results :
           /\ SamePackets(out, b)
           /\ UNCHANGED <<queueVars, opts, overflow, userVars>>
           /\ writer \in {"dispatch", "recover"}
           /\ writer' \in {"check", "recover", "stop"}
           /\ r = Ok => writer' = "check"
           /\ ~opts.drop /\ r # Ok => writer' # "check"
           /\ ret' \in Results \cup {ret} /\ (writer' = "stop" => ret' \in Results)
           /\ msg' \in Messages /\ msg'.type = msg.type /\ msg'.n = msg.n
           /\ \/ out' = b /\ (r = Ok => ~IsPacket(msg) \/ opts.drop)
              \/ out' = Append(b, msg') /\ IsPacket(msg) /\ r = Ok
    BY <1>5, DispatchOrder
  <2>2. UNCHANGED <<queue, inHand, given, user>>
    BY <2>1 DEF queueVars, userVars
  <2>3. (InWork' => InWork /\ msg'.n = msg.n) /\ (IsPacket(msg) => InWork) /\ (writer' = "check" => ~InWork')
    BY <2>1 DEF InWork, IsPacket
  <2> QED BY <2>1, <2>2, <2>3, WriterOrder
<1>6. CASE DispatchLater \/ RecoverNot \/ TooEarly
  <2>1. /\ UNCHANGED <<queueVars, opts, overflow, userVars, msg, nr, lastTs, dropKey>>
        /\ writer \in {"dispatch", "recover"} /\ writer' \in {"check", "recover", "stop"}
        /\ \/ header' = header /\ out' = out
           \/ header' = FALSE /\ out' = EndedOut /\ nr > 0
    BY <1>6, MovesOn
  <2>2. UNCHANGED <<queue, inHand, given, user>> /\ (InWork' => InWork /\ msg'.n = msg.n)
    BY <2>1 DEF queueVars, userVars, InWork, IsPacket
  <2> QED BY <1>1, <2>1, <2>2, WriterOrder
<1>7. CASE CheckOverflow /\ overflow
  <2>1. /\ queue' = <<>> /\ UNCHANGED <<inHand, given, user, msg, out>> /\ writer' = "clear"
    BY <1>7 DEF CheckOverflow, Flush, userVars
  <2>2. Older(<<>>, given + 1) /\ Increasing(<<>>) /\ AllOlder(out, <<>>) /\ Older(<<>>, given)
    BY EmptyMessages
  <2> QED BY <2>1, <2>2 DEF AgeOrder, InWork, Held, IsPacket
<1>8. CASE (CheckOverflow /\ ~overflow) \/ ClearOverflow \/ Stop
  <2>1. UNCHANGED <<queue, inHand, given, user, msg, out>> /\ writer' # "none" /\ ~InWork'
    BY <1>8 DEF CheckOverflow, ClearOverflow, Stop, SetErrSend, queueVars, userVars, InWork
  <2> QED BY <1>1, <2>1, WriterOrder
<1>9. CASE Receive
  <2>1. writer = "recv" /\ UNCHANGED <<inHand, given, user, out>>
    BY <1>9 DEF Receive, userVars
  <2>2. CASE RecvTakes /\ msg' = Head(queue) /\ ret' = Ok /\ writer' = "dispatch"
    <3>1. queue # <<>> /\ queue' = Tail(queue)
      BY <2>2 DEF RecvTakes
    <3> DEFINE h == Head(queue)
    <3>2. /\ h \in Messages /\ Increasing(Tail(queue)) /\ Older(Tail(queue), given + 1)
          /\ AllOlder(out, Tail(queue)) /\ (Held => Older(Tail(queue), given))
          /\ IsPacket(h) => /\ h.n < given + 1 /\ Newer(Tail(queue), h.n) /\ Older(out, h.n)
                            /\ Held => h.n < given
      BY <1>1, <3>1, TailFacts DEF AgeOrder
    <3>3. given \in Nat /\ h.n \in Nat /\ msg' = h
      BY <2>2, <3>2, MessageType DEF TypeOK
    <3> HIDE DEF h
    <3>4. (InWork' <=> IsPacket(h)) /\ (Held' <=> Held)
      BY <2>1, <2>2, <3>3 DEF InWork, Held, IsPacket
    <3>5. /\ Increasing(out) /\ Older(out, given + 1)
          /\ Held => inHand.n = given /\ Older(out, given)
      BY DEF AgeOrder
    <3>6. InWork' => msg'.n <= given
      BY <3>2, <3>3, <3>4
    <3> QED BY <2>1, <2>2, <3>1, <3>2, <3>3, <3>4, <3>5, <3>6 DEF AgeOrder
  <2>3. CASE \/ RecvWaits("writer") /\ UNCHANGED <<msg, ret, writer>>
             \/ RecvFails /\ ret' = errRecv /\ writer' = "stop" /\ UNCHANGED <<queueVars, msg>>
    <3>1. UNCHANGED <<queue, inHand, given, user, msg, out>> /\ writer' # "none" /\ ~InWork'
      BY <2>1, <2>3 DEF RecvWaits, queueVars, InWork
    <3> QED BY <1>1, <3>1, WriterOrder
  <2> QED BY <1>9, <2>2, <2>3 DEF Receive
<1>10. CASE ThreadTrailer
  <2>1. UNCHANGED <<queue, inHand, given, user, msg>> /\ out' = EndedOut /\ writer' # "none" /\ ~InWork'
    BY <1>10 DEF ThreadTrailer, queueVars, userVars, InWork
  <2> QED BY <1>1, <2>1, WriterOrder
<1> QED
  BY <1>2, <1>3, <1>4, <1>5, <1>6, <1>7, <1>8, <1>9, <1>10 DEF Next, UserStep, WriterStep

-----------------------------------------------------------------------------
(* Where the packets are. *)

LEMMA InitAccounted == Init => Accounted /\ NothingLost
<1> SUFFICES ASSUME Init PROVE Accounted /\ NothingLost
  OBVIOUS
<1>1. /\ out = <<>> /\ errSend = NoErr /\ given = 0 /\ writer = "none" /\ ret = Ok
  BY DEF Init, QueueInit
<1>2. NoGap(<<>>) /\ 1 .. given = {}
  BY <1>1, EmptyMessages
<1> QED BY <1>1, <1>2 DEF Accounted, NothingLost, Ending, Ok, Eof

(* A step that moves no packet. *)
LEMMA SamePlaces ==
  ASSUME Accounted, UNCHANGED <<opts, given, errSend, queue, out>>,
         Ending' <=> Ending, writer \in {"trailer", "exited"} <=> writer' \in {"trailer", "exited"},
         ret' = ret, errRecv # NoErr => errRecv' # NoErr,
         InWork => InWork' /\ msg'.n = msg.n,
         Held => Held' /\ inHand'.n = inHand.n
  PROVE  Accounted'
<1>1. \A n : Somewhere(n) => Somewhere(n)'
  BY DEF Somewhere, Has, IsPacket
<1> QED BY <1>1 DEF Accounted

(* The packet of this call is somewhere, and every other still is. *)
LEMMA SendAccounted ==
  ASSUME TypeOK, Waiting, Accounted, NothingLost, AgeOrder, WritePacket \/ SendAgain
  PROVE  Accounted' /\ NothingLost'
<1>1. PICK m \in Messages :
           /\ SendMessage(m) /\ "user" \notin sendWait /\ errRecv = NoErr /\ writer # "none"
           /\ UNCHANGED <<opts, overflow, writerVars>>
           /\ \/ user = "idle" /\ given' = given + 1 /\ IsPacket(m) /\ m.n = given + 1
              \/ user = "idle" /\ given' = given /\ ~IsPacket(m)
              \/ user = "send" /\ given' = given /\ m = inHand
  BY Sends
<1>2. UNCHANGED <<opts, writer, msg, ret, out>>
  BY <1>1 DEF writerVars
<1>3. ret # Eof /\ errSend = (IF writer \in {"trailer", "exited"} THEN ret ELSE NoErr)
  BY <1>1 DEF Accounted
<1>4. /\ sendWait = {} /\ UNCHANGED <<errSend, errRecv>>
      /\ \/ /\ errSend = NoErr /\ queue' = Append(queue, m) /\ Len(queue') <= QueueSize
            /\ queue' \in Seq(Messages) /\ sendWait' = {} /\ recvWait' = {}
            /\ user' = "idle" /\ inHand' = HeaderMsg
         \/ opts.drop /\ user' = "overflow" /\ UNCHANGED <<queueVars, inHand>>
         \/ /\ ~opts.drop /\ Len(queue) = QueueSize /\ errSend = NoErr
            /\ user' = "send" /\ inHand' = m
            /\ sendWait' = {"user"} /\ UNCHANGED <<queue, recvWait>>
         \/ errSend # NoErr /\ user' = "idle" /\ inHand' = HeaderMsg /\ UNCHANGED queueVars
  BY <1>1, Sent
<1>5. ASSUME ~opts.drop, ~Ending, NEW n \in 1 .. given'
      PROVE  Somewhere(n)'
  <2>1. errSend = NoErr /\ ~(writer \in {"trailer", "exited"})
    BY <1>3, <1>5 DEF Ending
  <2>2. given \in Nat /\ queue \in Seq(Messages)
    BY DEF TypeOK
  <2>3. Somewhere(n) \/ (IsPacket(m) /\ m.n = n)
    <3>1. CASE n \in 1 .. given
      BY <1>5, <3>1 DEF Accounted
    <3>2. CASE n \notin 1 .. given
      BY <1>1, <2>2, <3>2
    <3> QED BY <3>1, <3>2
  <2>4. InWork' = InWork /\ msg'.n = msg.n /\ (Has(out, n) => Has(out', n))
    BY <1>2 DEF InWork, IsPacket
  <2>5. Held => m = inHand /\ IsPacket(m)
    BY <1>1 DEF Held
  <2>6. CASE queue' = Append(queue, m)
    <3>1. Has(queue', n) <=> Has(queue, n) \/ (IsPacket(m) /\ m.n = n)
      BY <2>2, <2>6, OlderAppend
    <3> QED BY <2>3, <2>4, <2>5, <3>1 DEF Somewhere
  <2>7. CASE user' = "send" /\ inHand' = m /\ queue' = queue
    <3>1. Held' <=> IsPacket(m)
      BY <2>7 DEF Held, IsPacket
    <3> QED BY <2>3, <2>4, <2>5, <2>7, <3>1 DEF Somewhere
  <2> QED BY <1>4, <1>5, <2>1, <2>6, <2>7
<1>6. Accounted'
  <2>1. (Ending => ret' = Eof) => ~Ending
    BY <1>2, <1>3
  <2>2. Ending' <=> Ending
    BY <1>2 DEF Ending
  <2> QED BY <1>2, <1>3, <1>4, <1>5, <2>1, <2>2 DEF Accounted
<1>7. NothingLost'
  BY <1>2, <1>3, <1>4 DEF NothingLost, NoGap, Has, IsPacket
<1> QED BY <1>6, <1>7

LEMMA DispatchAccounted ==
  ASSUME TypeOK, Waiting, Accounted, NothingLost, AgeOrder, DispatchMessage \/ AttemptRecovery
  PROVE  Accounted' /\ NothingLost'
<1>1. PICK b \in Seq(Messages), r \in Results :
           /\ SamePackets(out, b)
           /\ UNCHANGED <<queueVars, opts, overflow, userVars>>
           /\ writer \in {"dispatch", "recover"}
           /\ writer' \in {"check", "recover", "stop"}
           /\ r = Ok => writer' = "check"
           /\ ~opts.drop /\ r # Ok => writer' # "check"
           /\ ret' \in Results \cup {ret} /\ (writer' = "stop" => ret' \in Results)
           /\ msg' \in Messages /\ msg'.type = msg.type /\ msg'.n = msg.n
           /\ \/ out' = b /\ (r = Ok => ~IsPacket(msg) \/ opts.drop)
              \/ out' = Append(b, msg') /\ IsPacket(msg) /\ r = Ok
  BY DispatchOrder
<1>2. UNCHANGED <<queue, errSend, errRecv, opts, inHand, given, user>>
  BY <1>1 DEF queueVars, userVars
<1>3. ~Ending /\ errSend = NoErr /\ Eof \notin Results /\ ret # Eof /\ ret' # Eof
  <2>1. ~Ending /\ errSend = NoErr
    BY <1>1 DEF Ending, Accounted
  <2>2. Eof \notin Results
    BY FifoAssumption DEF Results, Ok, Eof
  <2>3. ret # Eof
    BY <2>1 DEF Accounted
  <2> QED BY <1>1, <2>1, <2>2, <2>3
<1>4. given \in Nat /\ msg.n \in Nat /\ queue \in Seq(Messages)
  BY MessageType DEF TypeOK
<1>5. \A n \in Nat : Has(out, n) => Has(b, n)
  BY <1>1 DEF SamePackets
<1>6. \A n \in Nat : Has(b, n) => Has(out', n)
  <2>1. CASE out' = b
    BY <2>1
  <2>2. CASE out' = Append(b, msg')
    BY <1>1, <2>2, OlderAppend
  <2> QED BY <1>1, <2>1, <2>2
<1>7. Held' = Held /\ inHand'.n = inHand.n /\ queue' = queue
  BY <1>2 DEF Held, IsPacket
<1>8. ASSUME ~opts.drop, ~Ending' \/ ret' = Eof, NEW n \in 1 .. given
      PROVE  Somewhere(n)'
  <2>1. Somewhere(n) /\ n \in Nat
    BY <1>3, <1>4, <1>8 DEF Accounted
  <2>2. CASE InWork /\ msg.n = n
    <3>1. CASE out' = Append(b, msg')
      BY <1>1, <2>1, <2>2, <3>1, OlderAppend DEF IsPacket, Somewhere
    <3>2. CASE out' = b /\ (r = Ok => ~IsPacket(msg) \/ opts.drop)
      <4>1. r # Ok
        BY <1>8, <2>2, <3>2 DEF InWork
      <4>2. writer' # "check" /\ writer' # "stop"
        BY <1>1, <1>3, <1>8, <4>1 DEF Ending
      <4>3. InWork' /\ msg'.n = n
        BY <1>1, <2>2, <4>2 DEF InWork, IsPacket
      <4> QED BY <4>3 DEF Somewhere
    <3> QED BY <1>1, <3>1, <3>2
  <2>3. CASE ~(InWork /\ msg.n = n)
    BY <1>5, <1>6, <1>7, <2>1, <2>3 DEF Somewhere
  <2> QED BY <2>2, <2>3
<1>9. Accounted'
  <2>1. writer' \notin {"trailer", "exited"}
    BY <1>1
  <2> QED BY <1>2, <1>3, <1>8, <2>1 DEF Accounted
<1>10. ~opts.drop => NoGap(out')
  <2> SUFFICES ASSUME ~opts.drop PROVE NoGap(out')
    OBVIOUS
  <2>1. NoGap(b)
    BY <1>1 DEF NothingLost, SamePackets
  <2>2. CASE out' = Append(b, msg') /\ IsPacket(msg)
    <3>1. InWork /\ IsPacket(msg')
      BY <1>1, <2>2 DEF InWork, IsPacket
    <3>2. ASSUME NEW n \in 1 .. msg.n, n # msg.n PROVE Has(b, n)
      <4>1. n \in 1 .. given /\ n < msg.n /\ n \in Nat
        BY <1>4, <3>1, <3>2 DEF AgeOrder
      <4>2. Somewhere(n)
        BY <1>3, <4>1 DEF Accounted
      <4>3. ~Has(queue, n)
        <5>1. Newer(queue, msg.n)
          BY <3>1 DEF AgeOrder
        <5>2. \A i \in 1 .. Len(queue) : IsPacket(queue[i]) => msg.n < queue[i].n
          BY <5>1 DEF Newer
        <5> QED BY <1>4, <4>1, <5>2 DEF Has
      <4>4. ~(Held /\ inHand.n = n)
        BY <1>4, <3>1, <4>1 DEF AgeOrder
      <4> QED BY <1>5, <3>2, <4>1, <4>2, <4>3, <4>4 DEF Somewhere
    <3> QED BY <1>1, <2>1, <2>2, <3>2, NoGapAppend
  <2> QED BY <1>1, <2>1, <2>2
<1>11. NothingLost'
  BY <1>1, <1>2, <1>10 DEF NothingLost
<1> QED BY <1>9, <1>11

LEMMA NextAccounted ==
  ASSUME TypeOK, Waiting, Accounted, NothingLost, AgeOrder, Next
  PROVE  Accounted' /\ NothingLost'
<1>1. /\ out \in Seq(Messages) /\ queue \in Seq(Messages) /\ SamePackets(out, EndedOut)
  BY EndedSame DEF TypeOK
<1>2. CASE WritePacket \/ SendAgain
  BY <1>2, SendAccounted
<1>3. CASE DispatchMessage \/ AttemptRecovery
  BY <1>3, DispatchAccounted
<1>4. CASE WriteHeader \/ SetOverflow \/ WriteTrailer \/ Joined \/ ClearOverflow \/ Terminating
  <2>1. /\ UNCHANGED <<opts, given, errSend, queue, out, ret, msg, inHand>>
        /\ user' = "send" <=> user = "send"
        /\ errRecv # NoErr => errRecv' # NoErr
        /\ \/ writer' = writer
           \/ writer = "none" /\ writer' = "dispatch"
           \/ writer = "clear" /\ writer' = "recv"
    <3>1. CASE WriteHeader
      BY <3>1 DEF WriteHeader, queueVars, Waiting
    <3>2. CASE SetOverflow \/ Joined \/ ClearOverflow
      BY <3>2 DEF SetOverflow, Joined, ClearOverflow, writerVars, userVars, queueVars
    <3>3. CASE WriteTrailer
      BY <3>3, FifoAssumption DEF WriteTrailer, SetErrRecv, writerVars
    <3>4. CASE Terminating
      BY <3>4 DEF Terminating, fifoVars, writerVars, userVars, queueVars
    <3> QED BY <1>4, <3>1, <3>2, <3>3, <3>4
  <2>2. Accounted'
    BY <2>1, SamePlaces DEF Ending, InWork, Held, IsPacket
  <2>3. NothingLost'
    BY <2>1 DEF NothingLost, NoGap, Has, IsPacket
  <2> QED BY <2>2, <2>3
<1>5. CASE DispatchLater \/ RecoverNot \/ TooEarly
  <2>1. /\ UNCHANGED <<queueVars, opts, overflow, userVars, msg, nr, lastTs, dropKey>>
        /\ writer \in {"dispatch", "recover"} /\ writer' \in {"check", "recover", "stop"}
        /\ ret' = ret /\ (~opts.drop => writer' # "check")
        /\ \/ header' = header /\ out' = out
           \/ header' = FALSE /\ out' = EndedOut /\ nr > 0
    BY <1>5, MovesOn
  <2>2. /\ UNCHANGED <<queue, errSend, errRecv, inHand, given, user>>
        /\ errSend = NoErr /\ ret # Eof
    BY <2>1 DEF queueVars, userVars, Accounted, Ending
  <2>3. SamePackets(out, out')
    BY <1>1, <2>1, Marked, MadeUp
  <2>4. ASSUME ~opts.drop, ~Ending', NEW n \in 1 .. given
        PROVE  Somewhere(n)'
    <3>1. Somewhere(n) /\ n \in Nat
      BY <2>1, <2>4 DEF Accounted, Ending, TypeOK
    <3>2. InWork => InWork' /\ msg'.n = msg.n
      BY <2>1, <2>4 DEF InWork, IsPacket, Ending
    <3>3. (Held => Held' /\ inHand'.n = inHand.n) /\ (Has(out, n) => Has(out', n))
      BY <2>2, <2>3, <3>1 DEF Held, IsPacket, SamePackets
    <3> QED BY <2>2, <3>1, <3>2, <3>3 DEF Somewhere
  <2>5. Accounted'
    BY <2>1, <2>2, <2>4 DEF Accounted
  <2>6. NothingLost'
    BY <2>1, <2>3 DEF NothingLost, SamePackets
  <2> QED BY <2>5, <2>6
<1>6. CASE CheckOverflow
  <2>1. /\ UNCHANGED <<opts, errSend, errRecv, inHand, given, user, msg, ret, out>> /\ (~opts.drop => queue' = queue)
        /\ writer = "check" /\ writer' \in {"clear", "recv"}
    BY <1>6 DEF CheckOverflow, Flush, queueVars, userVars, Waiting
  <2>2. ASSUME ~opts.drop PROVE \A n : Somewhere(n) => Somewhere(n)'
    BY <2>1, <2>2 DEF Somewhere, InWork, Held, IsPacket, Has
  <2>3. Accounted'
    BY <2>1, <2>2 DEF Accounted, Ending
  <2>4. NothingLost'
    BY <2>1 DEF NothingLost, NoGap, Has, IsPacket
  <2> QED BY <2>3, <2>4
<1>7. CASE Receive
  <2>1. writer = "recv" /\ UNCHANGED <<opts, inHand, given, user, out>>
    BY <1>7 DEF Receive, userVars
  <2>2. ~InWork /\ (Held' <=> Held) /\ ~Ending /\ errSend = NoErr
    BY <2>1 DEF InWork, Held, IsPacket, Ending, Accounted
  <2>3. NothingLost' \/ writer' = "exited"
    BY <2>1 DEF NothingLost, NoGap, Has, IsPacket
  <2>4. CASE RecvTakes /\ msg' = Head(queue) /\ ret' = Ok /\ writer' = "dispatch"
    <3>1. queue # <<>> /\ queue' = Tail(queue) /\ UNCHANGED <<errSend, errRecv>>
      BY <2>4 DEF RecvTakes
    <3>2. \A n : Has(queue, n) => Has(queue', n) \/ (IsPacket(msg') /\ msg'.n = n)
      BY <1>1, <2>4, <3>1, TailFacts
    <3>3. IsPacket(msg') => InWork'
      BY <2>4 DEF InWork, IsPacket
    <3>4. ~opts.drop => \A n : Somewhere(n) => Somewhere(n)'
      BY <2>1, <2>2, <3>2, <3>3 DEF Somewhere, Has, IsPacket
    <3>5. Accounted'
      BY <2>1, <2>2, <2>4, <3>1, <3>4 DEF Accounted, Ending, Ok, Eof
    <3> QED BY <2>3, <2>4, <3>5
  <2>5. CASE RecvWaits("writer") /\ UNCHANGED <<msg, ret, writer>>
    BY <2>1, <2>2, <2>3, <2>5, SamePlaces DEF RecvWaits, Ending, Held, IsPacket
  <2>6. CASE RecvFails /\ ret' = errRecv /\ writer' = "stop" /\ UNCHANGED <<queueVars, msg>>
    <3>1. UNCHANGED <<queue, errSend, errRecv>> /\ queue = <<>> /\ errRecv # NoErr
      BY <2>6 DEF RecvFails, queueVars
    <3>2. ~opts.drop => \A n : Somewhere(n) => Somewhere(n)'
      BY <2>1, <2>2, <3>1 DEF Somewhere, Has, IsPacket
    <3>3. Accounted'
      BY <2>1, <2>2, <2>6, <3>1, <3>2 DEF Accounted, Ending
    <3> QED BY <2>3, <2>6, <3>3
  <2> QED BY <1>7, <2>4, <2>5, <2>6 DEF Receive
<1>8. CASE Stop
  <2>1. /\ writer = "stop" /\ writer' = "trailer" /\ errSend' = ret
        /\ UNCHANGED <<opts, queue, errRecv, inHand, given, user, msg, ret, out>>
    BY <1>8 DEF Stop, SetErrSend, userVars
  <2>2. \A n : Somewhere(n) => Somewhere(n)'
    BY <2>1 DEF Somewhere, InWork, Held, IsPacket, Has
  <2>3. Accounted'
    BY <2>1, <2>2 DEF Accounted, Ending
  <2>4. NothingLost'
    BY <2>1 DEF NothingLost, NoGap, Has, IsPacket
  <2> QED BY <2>3, <2>4
<1>9. CASE ThreadTrailer
  <2>1. /\ writer = "trailer" /\ writer' = "exited" /\ out' = EndedOut
        /\ UNCHANGED <<opts, queue, errSend, errRecv, inHand, given, user, msg, ret>>
    BY <1>9 DEF ThreadTrailer, queueVars, userVars
  <2>2. \A n \in Nat : Has(out, n) => Has(out', n)
    BY <1>1, <2>1 DEF SamePackets
  <2>3. \A n \in Nat : Somewhere(n) => Somewhere(n)'
    BY <2>1, <2>2 DEF Somewhere, InWork, Held, IsPacket, Has
  <2>4. Accounted'
    <3>1. given \in Nat
      BY DEF TypeOK
    <3> QED BY <2>1, <2>3, <3>1 DEF Accounted, Ending
  <2>5. ~opts.drop => NoGap(out')
    BY <1>1, <2>1 DEF NothingLost, SamePackets
  <2>6. NothingLost'
    <3>1. ASSUME ~opts.drop, errSend = Eof PROVE \A n \in 1 .. given : Has(out', n)
      <4>1. ret = Eof /\ queue = <<>> /\ errRecv # NoErr
        BY <2>1, <3>1 DEF Accounted
      <4>2. ~InWork /\ ~Held /\ \A n : ~Has(queue, n)
        BY <2>1, <4>1, EmptyMessages DEF InWork, Held, Waiting
      <4>3. \A n \in 1 .. given : Has(out, n)
        BY <3>1, <4>1, <4>2 DEF Accounted, Somewhere
      <4>4. given \in Nat
        BY DEF TypeOK
      <4> QED BY <2>2, <4>3, <4>4
    <3> QED BY <2>1, <2>5, <3>1 DEF NothingLost
  <2> QED BY <2>4, <2>6
<1> QED
  BY <1>2, <1>3, <1>4, <1>5, <1>6, <1>7, <1>8, <1>9 DEF Next, UserStep, WriterStep

-----------------------------------------------------------------------------
(* All parts of the invariant together hold in every state of the muxer and  *)
(* its caller: types, who waits, where each packet is and in which order,    *)
(* and what the output has begun and ended.                                  *)
THEOREM Invariance == Spec => []IInv
<1>1. Init => IInv
  BY InitTypes, InitSessions, InitOrder, InitAccounted, SoundIs DEF IInv
<1>2. IInv /\ [Next]_fifoVars => IInv'
  <2> SUFFICES ASSUME IInv, [Next]_fifoVars PROVE IInv'
    OBVIOUS
  <2>1. CASE Next
    <3>1. Sound
      BY SoundIs DEF IInv
    <3>2. Closed(out) /\ (writer # "exited" => (header <=> Open(out)))
      BY <3>1 DEF IInv, Sessions, Sound
    <3>3. TypeOK' /\ Waiting'
      BY <2>1, <3>2, NextTypes DEF IInv
    <3>4. Sessions' /\ Sound'
      BY <2>1, <3>1, NextSessions DEF IInv
    <3>5. AgeOrder'
      BY <2>1, NextOrder DEF IInv
    <3>6. Accounted' /\ NothingLost'
      BY <2>1, NextAccounted DEF IInv
    <3>7. SessionsClosed' /\ RestartsWithKey'
      BY <3>4 DEF Sound, SessionsClosed, RestartsWithKey, Closed, KeyFirst, Open
    <3> QED BY <3>3, <3>4, <3>5, <3>6, <3>7 DEF IInv
  <2>2. CASE UNCHANGED fifoVars
    <3>1. UNCHANGED <<queue, errSend, errRecv, sendWait, recvWait, opts, overflow, user, inHand, given,
                      writer, msg, ret, header, nr, lastTs, dropKey, out>>
      BY <2>2 DEF fifoVars, queueVars, userVars, writerVars
    <3>2. TypeOK' /\ Waiting'
      BY <3>1 DEF IInv, TypeOK, Accepted, Waiting, NobodySleepsInVain
    <3>3. InWork' = InWork /\ Held' = Held /\ Ending' = Ending /\ Retrying' = Retrying
      BY <3>1 DEF InWork, Held, Ending, Retrying, IsPacket
    <3>4. AgeOrder' /\ Accounted'
      BY <3>1, <3>3 DEF IInv, AgeOrder, Accounted, Somewhere, Older, Newer, Increasing, AllOlder, Has, IsPacket
    <3>5. Sessions' /\ NothingLost' /\ SessionsClosed' /\ RestartsWithKey'
      BY <3>1, <3>3 DEF IInv, Sessions, NothingLost, SessionsClosed, RestartsWithKey, NoGap, Has, Open,
                        Began2, IsPacket
    <3> QED BY <3>2, <3>4, <3>5 DEF IInv
  <2> QED BY <2>1, <2>2
<1> QED BY <1>1, <1>2, PTL DEF Spec

(* fifo_write_packet and fifo_consumer_thread: the inner muxer is given the  *)
(* packets in the order of the calls, none twice, and all of them when the   *)
(* fifo muxer may not drop any.                                              *)
THEOREM PacketsComplete == Spec => []Complete
<1>1. IInv => Complete
  BY DEF IInv, AgeOrder, Complete
<1> QED BY <1>1, Invariance, PTL

(* fifo_thread_write_header, fifo_thread_attempt_recovery and                *)
(* fifo_thread_write_trailer: each header is closed by one trailer, and      *)
(* packets are between the two.                                              *)
THEOREM OutputClosed == Spec => []SessionsClosed
<1>1. IInv => SessionsClosed
  BY DEF IInv
<1> QED BY <1>1, Invariance, PTL

(* drop_until_keyframe: after a restart the first packet is a key frame.     *)
THEOREM RestartedWithKey == Spec => []RestartsWithKey
<1>1. IInv => RestartsWithKey
  BY DEF IInv
<1> QED BY <1>1, Invariance, PTL

(* threadmessage.c with one sender and one receiver: neither waits when the  *)
(* queue or an error would let it go on.                                     *)
THEOREM NoLostWakeup == Spec => []NobodySleepsInVain
<1>1. IInv => NobodySleepsInVain
  BY DEF IInv, Waiting
<1> QED BY <1>1, Invariance, PTL

-----------------------------------------------------------------------------
(* Gaps in the output. *)

(* One more message: a packet after a gap that did not begin at a key frame  *)
(* has to be one.                                                            *)
LEMMA GapAppend ==
  ASSUME NEW s \in Seq(Messages), NEW e \in Messages, KeyAfterGap(s),
         BadEnd(s) /\ IsPacket(e) => e.key
  PROVE  /\ KeyAfterGap(Append(s, e))
         /\ BadEnd(Append(s, e)) =>
              IF IsPacket(e) THEN e.n > 1 /\ ~Has(s, e.n - 1) /\ ~e.key ELSE BadEnd(s)
<1> DEFINE a == Append(s, e)
           l == Len(s)
<1>1. Len(a) = l + 1 /\ l \in Nat /\ \A i \in 1 .. l + 1 : a[i] = IF i <= l THEN s[i] ELSE e
  BY Pushed
<1>2. a[l + 1] = e /\ (\A i \in 1 .. l : a[i] = s[i]) /\ 1 .. l + 1 = 1 .. l \cup {l + 1}
  BY <1>1
<1>3. \A n : Has(s, n) => Has(a, n)
  BY OlderAppend
<1> HIDE DEF a
<1>4. ASSUME NEW i \in 1 .. l, Gap(a, i) PROVE Gap(s, i) /\ a[i] = s[i]
  BY <1>2, <1>3, <1>4 DEF Gap
<1>5. ASSUME Gap(a, l + 1) PROVE IsPacket(e) /\ e.n > 1 /\ ~Has(s, e.n - 1)
  BY <1>2, <1>3, <1>5 DEF Gap
<1>6. KeyAfterGap(a)
  <2> SUFFICES ASSUME NEW i \in 1 .. Len(a), NEW j \in 1 .. Len(a),
                      i < j, Gap(a, i), IsPacket(a[j]),
                      \A k \in i + 1 .. j - 1 : ~IsPacket(a[k])
               PROVE  a[i].key \/ a[j].key
    BY DEF KeyAfterGap
  <2>1. i \in 1 .. l
    BY <1>1
  <2>2. Gap(s, i) /\ a[i] = s[i]
    BY <1>4, <2>1
  <2>3. \A k \in i + 1 .. j - 1 : k \in 1 .. l /\ ~IsPacket(s[k])
    BY <1>1, <1>2, <2>1
  <2>4. CASE j <= l
    <3>1. j \in 1 .. l /\ a[j] = s[j]
      BY <1>1, <1>2, <2>4
    <3>2. i \in 1 .. Len(s) /\ j \in 1 .. Len(s) /\ IsPacket(s[j])
      BY <2>1, <3>1
    <3>3. s[i].key \/ s[j].key
      BY <2>2, <2>3, <3>2 DEF KeyAfterGap
    <3> QED BY <2>2, <3>1, <3>3
  <2>5. CASE ~(j <= l)
    <3>1. j = l + 1 /\ a[j] = e /\ j - 1 = l
      BY <1>1, <1>2, <2>5
    <3>2. ~s[i].key => BadEnd(s)
      BY <2>1, <2>2, <2>3, <3>1 DEF BadEnd
    <3> QED BY <2>2, <3>1, <3>2
  <2> QED BY <2>4, <2>5
<1>7. ASSUME BadEnd(a)
      PROVE  IF IsPacket(e) THEN e.n > 1 /\ ~Has(s, e.n - 1) /\ ~e.key ELSE BadEnd(s)
  <2>1. PICK i \in 1 .. l + 1 : /\ Gap(a, i) /\ ~a[i].key
                               /\ \A k \in i + 1 .. l + 1 : ~IsPacket(a[k])
    BY <1>1, <1>7 DEF BadEnd
  <2>2. CASE i = l + 1
    BY <1>2, <1>5, <2>1, <2>2
  <2>3. CASE i # l + 1
    <3>1. i \in 1 .. l /\ l + 1 \in i + 1 .. l + 1
      BY <1>1, <2>3
    <3>2. ~IsPacket(e) /\ Gap(s, i) /\ a[i] = s[i]
      BY <1>2, <1>4, <2>1, <3>1
    <3>3. \A k \in i + 1 .. l : ~IsPacket(s[k])
      BY <1>1, <1>2, <2>1, <3>1
    <3>4. BadEnd(s)
      BY <2>1, <3>1, <3>2, <3>3 DEF BadEnd
    <3> QED BY <3>2, <3>4
  <2> QED BY <2>2, <2>3
<1> QED BY <1>6, <1>7 DEF a

(* Headers and trailers make no difference. *)
Marks(s, t) ==
  /\ t \in Seq(Messages) /\ \A n : Has(s, n) <=> Has(t, n)
  /\ KeyAfterGap(s) => KeyAfterGap(t) /\ (BadEnd(t) => BadEnd(s))

LEMMA MarkMore ==
  ASSUME NEW s \in Seq(Messages), NEW e \in Messages, ~IsPacket(e)
  PROVE  Marks(s, s) /\ Marks(s, Append(s, e))
<1>1. Append(s, e) \in Seq(Messages) /\ \A n : Has(s, n) <=> Has(Append(s, e), n)
  BY Pushed, OlderAppend
<1>2. KeyAfterGap(s) => KeyAfterGap(Append(s, e)) /\ (BadEnd(Append(s, e)) => BadEnd(s))
  BY GapAppend
<1> QED BY <1>1, <1>2 DEF Marks

LEMMA MarkTwice ==
  ASSUME NEW s, NEW t, NEW u, Marks(s, t), Marks(t, u)
  PROVE  Marks(s, u)
BY DEF Marks

LEMMA EndedMarks == TypeOK => Marks(out, out) /\ Marks(out, EndedOut)
BY MarkMore, MadeUp DEF TypeOK, EndedOut

(* What a dispatch does to the gaps: it writes no packet and the thread is   *)
(* as safe as it was, or it writes one, then a key frame if it was safe.     *)
LEMMA DispatchGap ==
  ASSUME TypeOK, opts.restart, opts.drop, DispatchMessage \/ AttemptRecovery
  PROVE  \E b \in Seq(Messages) :
           /\ Marks(out, b) /\ UNCHANGED <<queueVars, opts, overflow, userVars>>
           /\ writer \in {"dispatch", "recover"} /\ writer' \in {"check", "recover", "stop"}
           /\ msg' \in Messages /\ msg'.n = msg.n /\ msg'.key = msg.key
           /\ IsPacket(msg') <=> IsPacket(msg)
           /\ \/ /\ out' = b /\ (Safe => Safe')
                 /\ IsPacket(msg) => Safe'
              \/ /\ out' = Append(b, msg') /\ IsPacket(msg) /\ writer' = "check"
                 /\ Safe => msg.key
<1>1. PICK o \in {out, EndedOut}, h \in BOOLEAN, skip \in BOOLEAN, r \in Results :
           /\ Dispatch(o, h, skip, r)
           /\ UNCHANGED <<queueVars, opts, overflow, userVars>>
           /\ writer \in {"dispatch", "recover"}
           /\ writer' \in {"check", "recover", "stop"} /\ ret' \in Results \cup {ret}
           /\ nr' \in Nat /\ lastTs' \in BOOLEAN
           /\ writer' = "stop" => ret' \in Results
           /\ r = Ok => writer' = "check" /\ ret' = Ok /\ nr' = 0
           /\ ~opts.drop /\ r # Ok => writer' # "check"
           /\ \/ /\ o = out /\ h = header /\ skip = dropKey /\ nr = 0 /\ nr' = 0
                 /\ writer = "dispatch" /\ (r # Ok => writer' = "recover")
              \/ /\ o = EndedOut /\ h = FALSE /\ skip = Skip /\ opts.recover
                 /\ r # Ok => nr' > 0
  BY Dispatches
<1> DEFINE b == IF h THEN o ELSE Append(o, Began)
<1>2. out \in Seq(Messages) /\ msg \in Messages
  BY DEF TypeOK
<1>3. Marks(out, o) /\ o \in Seq(Messages)
  BY <1>1, EndedMarks DEF Marks
<1>4. Marks(out, b)
  <2>1. Marks(o, b)
    BY <1>3, MarkMore, MadeUp
  <2> QED BY <1>3, <2>1, MarkTwice
<1>5. /\ msg' \in Messages /\ msg'.type = msg.type /\ msg'.n = msg.n /\ msg'.key = msg.key
      /\ header' \in BOOLEAN /\ dropKey' \in BOOLEAN /\ (~skip => ~dropKey')
      /\ \/ r # Ok /\ ~h /\ ~header' /\ out' = o /\ dropKey' = skip
         \/ /\ header' /\ out' = b
            /\ r = Ok => dropKey' = skip /\ (IsPacket(msg) => skip)
         \/ /\ r = Ok /\ IsPacket(msg) /\ header' /\ ~dropKey'
            /\ out' = Append(b, msg')
            /\ skip => msg.key
  BY <1>1, <1>2, Dispatched
<1> HIDE DEF b
<1>6. b \in Seq(Messages) /\ (IsPacket(msg') <=> IsPacket(msg))
  BY <1>4, <1>5 DEF Marks, IsPacket
<1>7. Safe => skip \/ r # Ok
  BY <1>1 DEF Safe, Ending, Skip
<1>8. r # Ok => Safe'
  BY <1>1 DEF Safe
<1>9. skip /\ dropKey' = skip => Safe'
  BY DEF Safe
<1>10. CASE r # Ok /\ out' = o
  BY <1>1, <1>3, <1>5, <1>6, <1>8, <1>10
<1>11. CASE out' = b /\ (r = Ok => dropKey' = skip /\ (IsPacket(msg) => skip))
  BY <1>1, <1>4, <1>5, <1>6, <1>7, <1>8, <1>9, <1>11
<1>12. CASE r = Ok /\ IsPacket(msg) /\ out' = Append(b, msg') /\ (skip => msg.key)
  BY <1>1, <1>4, <1>5, <1>6, <1>7, <1>12
<1> QED BY <1>5, <1>10, <1>11, <1>12

(* A step that leaves the queue alone, and the packet in work, or writes it, *)
(* or gives it up and is safe.                                               *)
LEMMA UnbrokenStays ==
  ASSUME Unbroken, UNCHANGED <<queue, given>>, user' # "overflow" => user # "overflow",
         \A n : Has(out, n) => Has(out', n),
         InWork' => InWork /\ msg'.n = msg.n /\ (Safe => Safe'),
         InWork /\ ~InWork' => Safe' \/ Has(out', msg.n),
         ~InWork => (Safe => Safe')
  PROVE  Unbroken'
<1>1. \A n : Handled(n) => Handled(n)'
  BY DEF Handled
<1>2. InWork' => msg'.n = 1 \/ Has(out', msg'.n - 1) \/ Safe'
  BY DEF Unbroken
<1>3. /\ \A i, j \in 1 .. Len(queue') :
           i < j /\ IsPacket(queue'[i]) /\ IsPacket(queue'[j]) => Has(queue', queue'[j].n - 1)
      /\ \A i \in 1 .. Len(queue') :
           IsPacket(queue'[i]) => Has(queue', queue'[i].n - 1) \/ Handled(queue[i].n - 1)'
  BY <1>1 DEF Unbroken
<1>4. user' # "overflow" =>
        /\ (\E i \in 1 .. Len(queue') : IsPacket(queue'[i])) => Has(queue', given')
        /\ Has(queue', given') \/ Handled(given)'
  BY <1>1 DEF Unbroken
<1> QED BY <1>2, <1>3, <1>4 DEF Unbroken

(* A message is sent: behind what is queued, or not while the queue is full. *)
LEMMA SendGap ==
  ASSUME TypeOK, Waiting, Accounted, GapInv, WritePacket \/ SendAgain
  PROVE  GapInv'
<1>1. PICK m \in Messages :
           /\ SendMessage(m) /\ "user" \notin sendWait /\ errRecv = NoErr /\ writer # "none"
           /\ UNCHANGED <<opts, overflow, writerVars>>
           /\ \/ user = "idle" /\ given' = given + 1 /\ IsPacket(m) /\ m.n = given + 1
              \/ user = "idle" /\ given' = given /\ ~IsPacket(m)
              \/ user = "send" /\ given' = given /\ m = inHand
  BY Sends
<1>2. UNCHANGED <<opts, overflow, writer, msg, nr, dropKey, out>>
  BY <1>1 DEF writerVars
<1>3. \/ errSend = NoErr /\ queue' = Append(queue, m) /\ user' = "idle"
      \/ opts.drop /\ user' = "overflow" /\ queue' = queue
      \/ ~opts.drop /\ user' = "send"
      \/ errSend # NoErr /\ user' = "idle"
  BY <1>1, Sent DEF queueVars
<1>4. user' = "send" => ~opts'.drop
  BY <1>2, <1>3
<1>5. InWork' = InWork /\ Safe' = Safe /\ Ending' = Ending /\ Pending' = Pending
  BY <1>2 DEF InWork, Safe, Ending, Pending, IsPacket
<1>6. ASSUME opts.restart, opts.drop, ~Pending, ~Ending PROVE Unbroken'
  <2>1. Unbroken /\ user # "send"
    BY <1>6 DEF GapInv
  <2>2. errSend = NoErr
    BY <1>6 DEF Accounted, Ending
  <2>3. \A n : Handled(n)' <=> Handled(n)
    BY <1>2, <1>5 DEF Handled
  <2>4. CASE user' = "overflow" /\ queue' = queue
    BY <1>2, <1>5, <2>1, <2>3, <2>4 DEF Unbroken
  <2>5. CASE queue' = Append(queue, m) /\ user' = "idle"
    <3> DEFINE q == queue'
               l == Len(queue)
    <3>1. /\ user = "idle" /\ given' \in {given, given + 1} /\ given \in Nat
          /\ IsPacket(m) => m.n = given + 1 /\ given' = given + 1
          /\ ~IsPacket(m) => given' = given
      BY <1>1, <2>1 DEF TypeOK
    <3>2. queue \in Seq(Messages)
      BY DEF TypeOK
    <3>3. /\ Len(q) = l + 1 /\ l \in Nat
          /\ \A i \in 1 .. l + 1 : q[i] = IF i <= l THEN queue[i] ELSE m
      BY <2>5, <3>2, Pushed
    <3>4. \A n : Has(q, n) <=> Has(queue, n) \/ (IsPacket(m) /\ m.n = n)
      BY <2>5, <3>2, OlderAppend
    <3>5. /\ (\E i \in 1 .. l : IsPacket(queue[i])) => Has(queue, given)
          /\ Has(queue, given) \/ Handled(given)
      BY <2>1, <3>1 DEF Unbroken
    <3> HIDE DEF q
    <3>6. \A i \in 1 .. l : q[i] = queue[i]
      BY <3>3
    <3>7. q[l + 1] = m /\ 1 .. Len(q) = 1 .. l \cup {l + 1}
      BY <3>3
    <3>8. IsPacket(m) => m.n - 1 = given
      BY <3>1
    <3>9. ASSUME NEW i \in 1 .. Len(q), NEW j \in 1 .. Len(q),
                 i < j, IsPacket(q[i]), IsPacket(q[j])
          PROVE  Has(q, q[j].n - 1)
      <4>1. i \in 1 .. l /\ q[i] = queue[i]
        BY <3>3, <3>6, <3>9
      <4>2. CASE j \in 1 .. l
        <5>1. q[j] = queue[j]
          BY <3>6, <4>2
        <5>2. Has(queue, queue[j].n - 1)
          BY <2>1, <3>9, <4>1, <4>2, <5>1 DEF Unbroken
        <5> QED BY <3>4, <5>1, <5>2
      <4>3. CASE j = l + 1
        <5>1. Has(queue, given)
          BY <3>5, <3>9, <4>1
        <5> QED BY <3>4, <3>7, <3>8, <3>9, <4>3, <5>1
      <4> QED BY <3>7, <4>2, <4>3
    <3>10. ASSUME NEW i \in 1 .. Len(q), IsPacket(q[i])
           PROVE  Has(q, q[i].n - 1) \/ Handled(q[i].n - 1)
      <4>1. CASE i \in 1 .. l
        <5>1. q[i] = queue[i]
          BY <3>6, <4>1
        <5>2. Has(queue, queue[i].n - 1) \/ Handled(queue[i].n - 1)
          BY <2>1, <3>10, <4>1, <5>1 DEF Unbroken
        <5> QED BY <3>4, <5>1, <5>2
      <4>2. CASE i = l + 1
        BY <3>4, <3>5, <3>7, <3>8, <3>10, <4>2
      <4> QED BY <3>7, <4>1, <4>2
    <3>11. /\ (\E i \in 1 .. Len(q) : IsPacket(q[i])) => Has(q, given')
           /\ Has(q, given') \/ Handled(given')
      <4>1. CASE IsPacket(m)
        BY <3>1, <3>4, <4>1
      <4>2. CASE ~IsPacket(m)
        <5>1. (\E i \in 1 .. Len(q) : IsPacket(q[i])) => \E i \in 1 .. l : IsPacket(queue[i])
          BY <3>6, <3>7, <4>2
        <5> QED BY <3>1, <3>4, <3>5, <4>2, <5>1
      <4> QED BY <4>1, <4>2
    <3>12. InWork' => msg'.n = 1 \/ Has(out', msg'.n - 1) \/ Safe'
      BY <1>2, <1>5, <2>1 DEF Unbroken
    <3>13. \A n : Handled(n) => Handled(n)'
      BY <2>3
    <3> QED BY <3>9, <3>10, <3>11, <3>12, <3>13 DEF Unbroken, q
  <2> QED BY <1>3, <1>6, <2>2, <2>4, <2>5
<1>7. opts.restart /\ opts.drop =>
        /\ KeyAfterGap(out')
        /\ BadEnd(out') => Safe' \/ (overflow' /\ writer' = "check")
  BY <1>2, <1>5 DEF GapInv
<1> QED BY <1>2, <1>4, <1>5, <1>6, <1>7 DEF GapInv

(* av_thread_message_queue_recv: the head of the queue comes after what the  *)
(* thread handled last.                                                      *)
LEMMA TakeGap ==
  ASSUME TypeOK, AgeOrder, Unbroken, queue # <<>>, queue' = Tail(queue), msg' = Head(queue),
         writer = "recv", writer' = "dispatch", UNCHANGED <<given, user, out, Safe>>
  PROVE  Unbroken'
<1>0. PICK h, t, g : h = Head(queue) /\ t = Tail(queue) /\ g = given
  OBVIOUS
<1>1. queue \in Seq(Messages) /\ given \in Nat
  BY DEF TypeOK
<1>2. /\ Len(queue) \in Nat \ {0} /\ h = queue[1] /\ h \in Messages
      /\ t \in Seq(Messages) /\ Len(t) = Len(queue) - 1
      /\ \A i \in 1 .. Len(queue) - 1 : t[i] = queue[i + 1]
  BY <1>0, <1>1, Shifted
<1>3. \A n : Has(queue, n) => Has(t, n) \/ (IsPacket(h) /\ h.n = n)
  BY <1>0, <1>1, TailFacts
<1>4. IsPacket(h) => Newer(t, h.n) /\ Older(out, h.n)
  BY <1>0, <1>1, TailFacts DEF AgeOrder, TypeOK
<1>5. Increasing(t) /\ Older(t, given + 1)
  BY <1>0, <1>1, TailFacts DEF AgeOrder
<1>6. \A i \in 1 .. Len(t) : t[i] \in Messages /\ t[i].n \in Nat
  <2>1. \A i \in 1 .. Len(t) : t[i] \in Messages
    BY <1>2, ElementOfSeq
  <2> QED BY <2>1, MessageType
<1>7. h.n \in Nat
  BY <1>2, MessageType
<1>8. \A i \in 1 .. Len(t) : i + 1 \in 1 .. Len(queue) /\ 1 < i + 1 /\ t[i] = queue[i + 1]
  BY <1>2
<1>9. ~InWork /\ (InWork' <=> IsPacket(h)) /\ (InWork' => msg'.n = h.n)
  BY <1>0 DEF InWork, IsPacket
<1>10. 1 \in 1 .. Len(queue) /\ queue[1] = h
  BY <1>2
<1>11. \A i \in 1 .. Len(t) : IsPacket(t[i]) => t[i].n <= given /\ (IsPacket(h) => h.n < t[i].n)
  <2>1. \A i \in 1 .. Len(t) : IsPacket(t[i]) => t[i].n < given + 1 /\ (IsPacket(h) => h.n < t[i].n)
    BY <1>4, <1>5 DEF Older, Newer
  <2> QED BY <1>1, <1>6, <2>1
<1>12. IsPacket(h) => ~Has(queue, h.n - 1)
  <2> SUFFICES ASSUME IsPacket(h), Has(queue, h.n - 1) PROVE FALSE
    OBVIOUS
  <2>1. Has(t, h.n - 1)
    BY <1>3, <1>7
  <2>2. PICK i \in 1 .. Len(t) : IsPacket(t[i]) /\ t[i].n = h.n - 1
    BY <2>1 DEF Has
  <2> QED BY <1>7, <1>11, <2>2
<1>13. InWork' => msg'.n = 1 \/ Has(out', msg'.n - 1) \/ Safe'
  <2> SUFFICES ASSUME IsPacket(h) PROVE h.n = 1 \/ Has(out, h.n - 1) \/ Safe
    BY <1>9
  <2>1. Handled(h.n - 1)
    BY <1>10, <1>12 DEF Unbroken
  <2>2. h.n - 1 = 0 => h.n = 1
    BY <1>7
  <2> QED BY <1>9, <2>1, <2>2 DEF Handled
<1>14. ASSUME NEW n, Has(queue, n) PROVE Has(t, n) \/ Handled(n)'
  BY <1>3, <1>9, <1>14 DEF Handled
<1>15. ASSUME NEW n, Handled(n), ~IsPacket(h) PROVE Handled(n)'
  BY <1>9, <1>15 DEF Handled
<1>16. ASSUME NEW i \in 1 .. Len(t), NEW j \in 1 .. Len(t), i < j, IsPacket(t[i]), IsPacket(t[j])
       PROVE  Has(t, t[j].n - 1)
  <2>1. i + 1 < j + 1
    BY <1>2, <1>16
  <2>2. Has(queue, t[j].n - 1)
    BY <1>8, <1>16, <2>1 DEF Unbroken
  <2>3. IsPacket(h) => h.n # t[j].n - 1
    <3>1. t[i].n < t[j].n
      BY <1>5, <1>16 DEF Increasing
    <3> QED BY <1>6, <1>7, <1>11, <1>16, <3>1
  <2> QED BY <1>3, <2>2, <2>3
<1>17. ASSUME NEW i \in 1 .. Len(t), IsPacket(t[i])
       PROVE  Has(t, t[i].n - 1) \/ Handled(t[i].n - 1)'
  <2>1. CASE IsPacket(h)
    <3>1. Has(queue, queue[i + 1].n - 1)
      BY <1>8, <1>10, <1>17, <2>1 DEF Unbroken
    <3>2. Has(queue, t[i].n - 1)
      BY <1>8, <3>1
    <3>3. PICK n : n = t[i].n - 1
      OBVIOUS
    <3>4. Has(t, n) \/ Handled(n)'
      BY <1>14, <3>2, <3>3
    <3> QED BY <3>3, <3>4 DEF Handled
  <2>2. CASE ~IsPacket(h)
    <3>1. PICK n : n = t[i].n - 1
      OBVIOUS
    <3>2. Has(queue, n) \/ Handled(n)
      BY <1>8, <1>17, <3>1 DEF Unbroken, Handled
    <3>3. Has(t, n) \/ Handled(n)'
      BY <1>14, <1>15, <2>2, <3>2
    <3> QED BY <3>1, <3>3 DEF Handled
  <2> QED BY <2>1, <2>2
<1>18. ASSUME user # "overflow"
       PROVE  /\ (\E i \in 1 .. Len(t) : IsPacket(t[i])) => Has(t, g)
              /\ Has(t, g) \/ Handled(g)'
  <2>1. /\ (\E i \in 1 .. Len(queue) : IsPacket(queue[i])) => Has(queue, g)
        /\ Has(queue, g) \/ Handled(g)
    BY <1>0, <1>18 DEF Unbroken, Handled
  <2>2. ASSUME NEW i \in 1 .. Len(t), IsPacket(t[i]) PROVE Has(t, g)
    <3>1. Has(queue, g)
      BY <1>8, <2>1, <2>2
    <3>2. IsPacket(h) => h.n # g
      BY <1>0, <1>1, <1>6, <1>7, <1>11, <2>2
    <3> QED BY <1>3, <3>1, <3>2
  <2>3. CASE Has(queue, g)
    BY <1>14, <2>2, <2>3
  <2>4. CASE ~Has(queue, g)
    <3>1. ~IsPacket(h) /\ Handled(g)
      BY <1>10, <2>1, <2>4
    <3> QED BY <1>15, <2>2, <3>1
  <2> QED BY <2>3, <2>4
<1>19. queue' = t /\ given' = g /\ user' = user
  BY <1>0
<1>20. ASSUME NEW i \in 1 .. Len(queue'), IsPacket(queue'[i])
       PROVE  Has(queue', queue'[i].n - 1) \/ Handled(queue[i].n - 1)'
  BY <1>17, <1>19, <1>20 DEF Handled
<1>21. ASSUME user' # "overflow"
       PROVE  /\ (\E i \in 1 .. Len(queue') : IsPacket(queue'[i])) => Has(queue', given')
              /\ Has(queue', given') \/ Handled(given)'
  BY <1>18, <1>19, <1>21 DEF Handled
<1>22. ASSUME NEW i \in 1 .. Len(queue'), NEW j \in 1 .. Len(queue'),
              i < j, IsPacket(queue'[i]), IsPacket(queue'[j])
       PROVE  Has(queue', queue'[j].n - 1)
  BY <1>16, <1>19, <1>22
<1> QED BY <1>13, <1>20, <1>21, <1>22 DEF Unbroken

(* Without attempt_recovery an inner muxer that answers EAGAIN has its       *)
(* packet dropped by fifo_thread_recover, and nothing waits for a key frame. *)
RecoversAgain ==
  \A o \in Options : o.restart /\ o.drop /\ Again \in Errors => o.recover

(* Steps that leave the packets alone. *)
LEMMA QuietGap ==
  ASSUME TypeOK, GapInv, UNCHANGED <<queue, opts, given, out>>, ~Pending' => ~Pending,
         InWork' <=> InWork, InWork => msg'.n = msg.n, Safe => Safe', Ending => Ending',
         user' = "send" => user = "send", ~Pending' /\ user' # "overflow" => user # "overflow",
         overflow /\ writer = "check" => overflow' /\ writer' = "check"
  PROVE  GapInv'
<1>1. ASSUME opts.restart, opts.drop, ~Pending', ~Ending' PROVE Unbroken'
  <2>1. Unbroken
    BY <1>1 DEF GapInv
  <2>2. user' # "overflow" => user # "overflow"
    BY <1>1
  <2>3. \A n : Has(out, n) => Has(out', n)
    OBVIOUS
  <2> QED BY <2>1, <2>2, <2>3, UnbrokenStays
<1> QED BY <1>1 DEF GapInv

LEMMA NextGap ==
  ASSUME RecoversAgain, TypeOK, Waiting, AgeOrder, Accounted, GapInv, Next
  PROVE  GapInv'
<1>1. out \in Seq(Messages) /\ opts \in Options /\ Marks(out, out) /\ Marks(out, EndedOut)
  BY EndedMarks DEF TypeOK
<1>2. CASE WriteHeader
  <2>1. /\ UNCHANGED <<queue, opts, overflow, given, msg, nr, dropKey, out>>
        /\ writer = "none" /\ writer' = "dispatch" /\ user' = "idle" /\ user = "new" /\ ~IsPacket(msg)
    BY <1>2 DEF WriteHeader, queueVars, Waiting, AgeOrder
  <2> QED BY <2>1, QuietGap DEF InWork, Safe, Ending, Pending, IsPacket
<1>3. CASE WritePacket \/ SendAgain
  BY <1>3, SendGap
<1>4. CASE WriteTrailer \/ Joined \/ Terminating
  <2>1. /\ UNCHANGED <<queue, opts, overflow, given, writer, msg, nr, dropKey, out>>
        /\ user' = user \/ (user # "overflow" /\ user' \in {"join", "done"})
    BY <1>4 DEF WriteTrailer, Joined, Terminating, SetErrRecv, fifoVars, writerVars, userVars, queueVars
  <2> QED BY <2>1, QuietGap DEF InWork, Safe, Ending, Pending, IsPacket
<1>5. CASE SetOverflow
  <2>1. /\ UNCHANGED <<queue, opts, given, writer, msg, nr, dropKey, out>>
        /\ overflow' /\ user' = "idle" /\ writer # "clear"
    BY <1>5 DEF SetOverflow, writerVars, queueVars
  <2> QED BY <2>1, QuietGap DEF InWork, Safe, Ending, Pending, IsPacket
<1>6. CASE ~(opts.restart /\ opts.drop) /\ WriterStep
  <2>1. opts' = opts /\ user' = user
    BY <1>6 DEF WriterStep, DispatchMessage, DispatchLater, RecoverNot, TooEarly, AttemptRecovery,
                CheckOverflow, ClearOverflow, Receive, Stop, ThreadTrailer, userVars
  <2> QED BY <1>6, <2>1 DEF GapInv
<1>7. CASE opts.restart /\ opts.drop /\ (DispatchMessage \/ AttemptRecovery)
  <2>1. PICK b \in Seq(Messages) :
           /\ Marks(out, b) /\ UNCHANGED <<queueVars, opts, overflow, userVars>>
           /\ writer \in {"dispatch", "recover"} /\ writer' \in {"check", "recover", "stop"}
           /\ msg' \in Messages /\ msg'.n = msg.n /\ msg'.key = msg.key
           /\ IsPacket(msg') <=> IsPacket(msg)
           /\ \/ /\ out' = b /\ (Safe => Safe')
                 /\ IsPacket(msg) => Safe'
              \/ /\ out' = Append(b, msg') /\ IsPacket(msg) /\ writer' = "check"
                 /\ Safe => msg.key
    BY <1>7, DispatchGap
  <2>2. UNCHANGED <<queue, opts, overflow, given, user>> /\ ~Ending /\ (Pending' <=> Pending)
    BY <2>1 DEF queueVars, userVars, Ending, Pending
  <2>3. KeyAfterGap(b) /\ (BadEnd(b) => Safe)
    BY <1>7, <2>1 DEF GapInv, Marks
  <2>4. \A n : Has(b, n) <=> Has(out, n)
    BY <2>1 DEF Marks
  <2>5. (InWork <=> IsPacket(msg)) /\ (InWork' => InWork /\ msg'.n = msg.n)
        /\ (writer' = "check" => ~InWork')
    BY <2>1 DEF InWork
  <2>6. ~Pending => Unbroken
    BY <1>7, <2>2 DEF GapInv
  <2>7. CASE out' = b /\ (Safe => Safe') /\ (IsPacket(msg) => Safe')
    <3>1. ~Pending => Unbroken'
      BY <2>2, <2>4, <2>5, <2>6, <2>7, UnbrokenStays
    <3> QED BY <1>7, <2>2, <2>3, <2>7, <3>1 DEF GapInv
  <2>8. CASE /\ out' = Append(b, msg') /\ IsPacket(msg) /\ writer' = "check"
             /\ Safe => msg.key
    <3>1. /\ KeyAfterGap(out')
          /\ BadEnd(out') => msg.n > 1 /\ ~Has(b, msg.n - 1) /\ ~msg.key
      BY <2>1, <2>3, <2>8, GapAppend
    <3>2. BadEnd(out') => Pending
      <4> SUFFICES ASSUME BadEnd(out'), ~Pending PROVE FALSE
        OBVIOUS
      <4>1. msg.n # 1 /\ ~Has(out, msg.n - 1) /\ ~Safe
        <5>1. msg.n \in Nat
          BY MessageType DEF TypeOK
        <5> QED BY <2>4, <2>8, <3>1, <5>1
      <4> QED BY <2>5, <2>6, <2>8, <4>1 DEF Unbroken
    <3>3. BadEnd(out') => overflow' /\ writer' = "check"
      BY <2>2, <2>8, <3>2 DEF Pending
    <3>4. \A n : Has(out', n) <=> Has(b, n) \/ msg.n = n
      BY <2>1, <2>8, OlderAppend
    <3>5. ~Pending => Unbroken'
      BY <2>2, <2>4, <2>5, <2>6, <2>8, <3>4, UnbrokenStays
    <3> QED BY <1>7, <2>2, <3>1, <3>3, <3>5 DEF GapInv
  <2> QED BY <2>1, <2>7, <2>8
<1>8. CASE opts.restart /\ opts.drop /\ (DispatchLater \/ RecoverNot \/ TooEarly)
  <2>1. /\ UNCHANGED <<queueVars, opts, overflow, userVars, msg, nr, lastTs, dropKey>>
        /\ writer \in {"dispatch", "recover"} /\ writer' \in {"check", "recover", "stop"}
        /\ nr > 0 \/ (writer = "recover" /\ ~IsRecoverable(ret))
        /\ \/ header' = header /\ out' = out
           \/ header' = FALSE /\ out' = EndedOut /\ nr > 0
    BY <1>8, MovesOn
  <2>2. Safe'
    <3>1. CASE nr > 0
      BY <2>1, <3>1 DEF Safe
    <3>2. CASE ~(nr > 0)
      <4>1. RecoverNot
        BY <1>8, <3>2 DEF DispatchLater, TooEarly
      <4>2. ret # Again
        <5> SUFFICES ASSUME ret = Again PROVE FALSE
          OBVIOUS
        <5>1. Again \in Errors
          BY DEF TypeOK, Ok, Eof, Again
        <5>2. opts.recover
          BY <1>1, <1>8, <5>1 DEF RecoversAgain
        <5>3. IsRecoverable(Again)
          BY <5>2 DEF IsRecoverable, Again, Exit, Eof, Permanent
        <5> QED BY <4>1, <5>3 DEF RecoverNot
      <4>3. writer' = "stop"
        BY <4>1, <4>2 DEF RecoverNot, AfterAttempt
      <4> QED BY <4>3 DEF Safe, Ending
    <3> QED BY <3>1, <3>2
  <2>3. UNCHANGED <<queue, opts, overflow, given, user>> /\ ~Ending /\ (Pending' <=> Pending)
    BY <2>1 DEF queueVars, userVars, Ending, Pending
  <2>4. Marks(out, out')
    BY <1>1, <2>1
  <2>5. KeyAfterGap(out') /\ \A n : Has(out, n) => Has(out', n)
    BY <1>8, <2>4 DEF Marks, GapInv
  <2>6. ~Pending => Unbroken'
    <3>1. InWork' => InWork /\ msg'.n = msg.n
      BY <2>1 DEF InWork, IsPacket
    <3>2. ~Pending => Unbroken
      BY <1>8, <2>3 DEF GapInv
    <3> QED BY <2>2, <2>3, <2>5, <3>1, <3>2, UnbrokenStays
  <2> QED BY <1>8, <2>2, <2>3, <2>5, <2>6 DEF GapInv
<1>9. CASE opts.restart /\ opts.drop /\ CheckOverflow /\ overflow
  <2>1. /\ queue' = <<>> /\ dropKey' /\ writer' = "clear"
        /\ UNCHANGED <<opts, overflow, given, user, out>>
    BY <1>9 DEF CheckOverflow, Flush, SkipAfterOverflow, userVars
  <2>2. Safe' /\ ~InWork' /\ Len(queue') = 0
    BY <2>1 DEF Safe, InWork
  <2>3. Unbroken'
    BY <2>2 DEF Unbroken, Handled
  <2> QED BY <1>9, <2>1, <2>2, <2>3 DEF GapInv
<1>10. CASE CheckOverflow /\ ~overflow
  <2>1. /\ UNCHANGED <<queue, opts, overflow, given, user, msg, nr, dropKey, out>>
        /\ writer = "check" /\ writer' = "recv" /\ ~overflow
    BY <1>10 DEF CheckOverflow, queueVars, userVars
  <2> QED BY <2>1, QuietGap DEF InWork, Safe, Ending, Pending, IsPacket
<1>11. CASE ClearOverflow
  <2>1. /\ UNCHANGED <<queue, opts, given, user, msg, nr, dropKey, out>>
        /\ writer = "clear" /\ writer' = "recv" /\ ~overflow'
    BY <1>11 DEF ClearOverflow, queueVars, userVars
  <2> QED BY <2>1, QuietGap DEF InWork, Safe, Ending, Pending, IsPacket
<1>12. CASE opts.restart /\ opts.drop /\ Receive
  <2>1. writer = "recv" /\ UNCHANGED <<opts, overflow, given, user, nr, dropKey, out>>
    BY <1>12 DEF Receive, userVars
  <2>2. CASE RecvTakes /\ msg' = Head(queue) /\ ret' = Ok /\ writer' = "dispatch"
    <3>1. queue # <<>> /\ queue' = Tail(queue)
      BY <2>2 DEF RecvTakes
    <3>2. Safe' = Safe /\ Pending' = Pending /\ ~Ending
      BY <2>1, <2>2 DEF Safe, Pending, Ending
    <3>3. ~Pending => Unbroken'
      BY <1>12, <2>1, <2>2, <3>1, <3>2, TakeGap DEF GapInv
    <3> QED BY <1>12, <2>1, <3>2, <3>3 DEF GapInv
  <2>3. CASE RecvWaits("writer") /\ UNCHANGED <<msg, ret, writer>>
    <3>1. UNCHANGED <<queue, msg, writer>>
      BY <2>3 DEF RecvWaits
    <3> QED BY <2>1, <3>1, QuietGap DEF InWork, Safe, Ending, Pending, IsPacket
  <2>4. CASE RecvFails /\ ret' = errRecv /\ writer' = "stop" /\ UNCHANGED <<queueVars, msg>>
    <3>1. Ending' /\ Safe'
      BY <2>4 DEF Ending, Safe
    <3> QED BY <1>12, <2>1, <3>1 DEF GapInv
  <2> QED BY <1>12, <2>2, <2>3, <2>4 DEF Receive
<1>13. CASE opts.restart /\ opts.drop /\ (Stop \/ ThreadTrailer)
  <2>1. /\ UNCHANGED <<opts, user>> /\ writer' \in {"trailer", "exited"}
        /\ out' = out \/ out' = EndedOut
    BY <1>13 DEF Stop, ThreadTrailer, userVars
  <2>2. Ending' /\ Safe'
    BY <2>1 DEF Ending, Safe
  <2>3. KeyAfterGap(out')
    BY <1>1, <1>13, <2>1 DEF GapInv, Marks
  <2> QED BY <1>13, <2>1, <2>2, <2>3 DEF GapInv
<1> QED
  BY <1>2, <1>3, <1>4, <1>5, <1>6, <1>7, <1>8, <1>9, <1>10, <1>11, <1>12, <1>13
  DEF Next, UserStep, WriterStep

LEMMA InitGap == Init => GapInv
<1> SUFFICES ASSUME Init PROVE GapInv
  OBVIOUS
<1>1. /\ out = <<>> /\ queue = <<>> /\ user = "new" /\ writer = "none" /\ given = 0
  BY DEF Init, QueueInit
<1>2. Len(out) = 0 /\ Len(queue) = 0 /\ ~InWork
  BY <1>1 DEF InWork
<1>3. KeyAfterGap(out) /\ ~BadEnd(out)
  BY <1>2 DEF KeyAfterGap, BadEnd
<1>4. Unbroken
  BY <1>1, <1>2 DEF Unbroken, Handled
<1> QED BY <1>1, <1>3, <1>4 DEF GapInv

(* drop_until_keyframe after an overflow, which fifo_thread_dispatch_message *)
(* and fifo_consumer_thread set and test: the packet that ends a gap or the  *)
(* one after it is a key frame, whatever the race with fifo_write_packet.    *)
THEOREM GapsCloseSoon == RecoversAgain => (Spec => []GapClosesSoon)
<1> SUFFICES ASSUME RecoversAgain PROVE Spec => []GapClosesSoon
  OBVIOUS
<1>1. Init => GapInv
  BY InitGap
<1>2. IInv /\ GapInv /\ [Next]_fifoVars => GapInv'
  <2> SUFFICES ASSUME IInv, GapInv, [Next]_fifoVars PROVE GapInv'
    OBVIOUS
  <2>1. CASE Next
    BY <2>1, NextGap DEF IInv
  <2>2. CASE UNCHANGED fifoVars
    <3>1. UNCHANGED <<queue, opts, overflow, given, user, writer, msg, nr, dropKey, out>>
      BY <2>2 DEF fifoVars, queueVars, userVars, writerVars
    <3>2. TypeOK
      BY DEF IInv
    <3> QED BY <3>1, <3>2, QuietGap DEF InWork, Safe, Ending, Pending, IsPacket
  <2> QED BY <2>1, <2>2
<1>3. GapInv => GapClosesSoon
  BY DEF GapInv, GapClosesSoon
<1> QED BY <1>1, <1>2, <1>3, Invariance, PTL DEF Spec
=============================================================================
