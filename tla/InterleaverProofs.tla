-------------------------- MODULE InterleaverProofs --------------------------
(***************************************************************************)
(* The order of the muxed packets, for any streams, time bases, options    *)
(* and callers: IInv is inductive.  The one hypothesis, ObeyAtZero, stands *)
(* where mux.c checks nothing.                                             *)
(***************************************************************************)
EXTENDS MuxFile, ListFacts, FiniteSetTheorems, SequenceTheorems, TLAPS

(* Order in time is order of dts within a stream, whatever its time base. *)
LEMMA Scale ==
  ASSUME NEW z \in Int, NEW b \in Int, z <= b, NEW k \in Nat
  PROVE  z * k \in Int /\ b * k \in Int /\ z * k <= b * k
OBVIOUS

LEMMA TimeType ==
  ASSUME NEW p \in Packets
  PROVE  Time(p) \in Int /\ p.st \in Streams /\ p.st \in Nat /\ p.dts \in Int
<1>1. p.st \in Streams /\ p.dts \in Int /\ Tick[p.st] \in Nat /\ p.st \in Nat
  BY InterleaverAssumption DEF Packets
<1> QED BY <1>1, Scale DEF Time

LEMMA SameStream ==
  ASSUME NEW p \in Packets, NEW d \in Int, p.dts <= d
  PROVE  Time(p) <= d * Tick[p.st]
<1>1. p.st \in Streams /\ p.dts \in Int /\ Tick[p.st] \in Nat
  BY InterleaverAssumption DEF Packets
<1> QED BY <1>1, Scale DEF Time

(* After is a strict order whose complement is transitive. *)
LEMMA Precedes ==
  ASSUME NEW p \in Packets, NEW q \in Packets, NEW r \in Packets
  PROVE  /\ ~After(p, q) /\ ~After(q, r) => ~After(p, r)
         /\ After(p, q) => ~After(q, p)
         /\ After(p, q) /\ ~After(p, r) => After(r, q)
         /\ ~After(p, q) => Time(p) <= Time(q)
         /\ p.st = q.st /\ Time(p) <= Time(q) => ~After(p, q)
BY TimeType DEF After

LEMMA InitInv == Init => IInv
<1> SUFFICES ASSUME Init PROVE IInv
  OBVIOUS
<1>1. Len(buf) = 0 /\ Len(out) = 0 /\ buf = <<>> /\ out = <<>>
  BY DEF Init
<1>2. TypeOK
  <2>1. buf \in Seq(Packets) /\ out \in Seq([pkt : Packets, ts : Int]) /\ lost \subseteq Packets
    BY <1>1 DEF Init
  <2>2. /\ cur \in [Streams -> Int \cup {NoTs}] /\ last \in [Streams -> Nat]
        /\ taken \in [Streams -> Nat] /\ off \in [Streams -> Int]
    BY DEF Init
  <2>3. /\ shortEnd \in Int \cup {NoTs} /\ shift \in Int \cup {NoTs}
        /\ ioError \in BOOLEAN /\ forced \in BOOLEAN
        /\ pc \in {"idle", "drain", "flush", "trailer", "done"}
    BY DEF Init
  <2> QED BY <2>1, <2>2, <2>3 DEF TypeOK
<1>3. Sorted /\ NotAhead /\ OutputOrdered /\ WrittenFirst
  BY <1>1 DEF Sorted, NotAhead, OutputOrdered, WrittenFirst
<1>4. LastIsLast
  BY <1>1 DEF Init, LastIsLast
<1> QED BY <1>2, <1>3, <1>4 DEF IInv

(* What the invariant says of one packet in the list. *)
LEMMA Waits ==
  ASSUME IInv, NEW i \in 1 .. Len(buf)
  PROVE  buf[i] \in Packets /\ Len(buf) \in Nat /\ last \in [Streams -> Nat]
BY LenProperties, ElementOfSeq DEF IInv, TypeOK

(* An obedient caller. *)
LEMMA OffersObey ==
  ASSUME ObeyAtZero, Offer
  PROVE  \E s \in Streams, d \in Int : (cur[s] = 0 => Follows(s, d)) /\ Submit(s, d)
BY InterleaverAssumption DEF Offer, Obedient

(* What a caller may submit is no older than what waits of its stream, nor   *)
(* than what was accepted of it last.                                        *)
LEMMA Increasing ==
  ASSUME IInv, NEW s \in Streams, NEW d \in Int,
         Accepts(s, d), cur[s] = 0 => Follows(s, d)
  PROVE  /\ cur[s] \in Int \cup {NoTs}
         /\ cur[s] # NoTs => cur[s] \in Int /\ cur[s] <= d
         /\ \A i \in 1 .. Len(buf) : buf[i].st = s => buf[i].dts <= d
<1>1. cur[s] \in Int \cup {NoTs}
  BY DEF IInv, TypeOK
<1>2. cur[s] # NoTs => cur[s] \in Int /\ cur[s] <= d
  <2> SUFFICES ASSUME cur[s] # NoTs PROVE cur[s] \in Int /\ cur[s] <= d
    OBVIOUS
  <2>1. Follows(s, d)
    BY DEF Accepts, Checked
  <2> QED BY <1>1, <2>1 DEF Follows
<1>3. ASSUME NEW i \in 1 .. Len(buf), buf[i].st = s PROVE buf[i].dts <= d
  <2>1. buf[i] \in Packets /\ buf[i].dts \in Int
    BY Waits, TimeType
  <2>2. cur[s] # NoTs /\ buf[i].dts <= cur[s]
    BY <1>3 DEF IInv, NotAhead
  <2> QED BY <1>2, <2>1, <2>2
<1> QED BY <1>1, <1>2, <1>3

(* The scan of ff_interleave_add_packet finds the place: all before it       *)
(* precedes the packet, all behind goes after it.                            *)
LEMMA Place ==
  ASSUME IInv, NEW p \in Packets, NEW i \in 1 .. Len(buf) + 1, IsPlace(i, p),
         \A k \in 1 .. Len(buf) : buf[k].st = p.st => buf[k].dts <= p.dts
  PROVE  /\ last[p.st] < i
         /\ \A k \in 1 .. Len(buf) : IF k < i THEN ~After(buf[k], p) ELSE After(buf[k], p)
<1> DEFINE l == last[p.st]
           n == Len(buf)
<1>1. /\ n \in Nat /\ l \in Nat /\ p.st \in Streams /\ l <= n /\ From(p) = l + 1
      /\ l # 0 => buf[l].st = p.st
  BY TimeType, LenProperties DEF IInv, TypeOK, LastIsLast, From
<1>2. \A k \in 1 .. n : buf[k] \in Packets
  BY Waits
<1>3. \A j, k \in 1 .. n : j <= k => ~After(buf[j], buf[k])
  <2>1. \A j \in 1 .. n : ~After(buf[j], buf[j])
    BY <1>2, Precedes
  <2>2. \A j, k \in 1 .. n : j < k => ~After(buf[j], buf[k])
    BY DEF IInv, Sorted
  <2> QED BY <1>1, <2>1, <2>2
<1>4. l # 0 => ~After(buf[l], p)
  <2> SUFFICES ASSUME l # 0 PROVE ~After(buf[l], p)
    OBVIOUS
  <2>1. l \in 1 .. n /\ buf[l] \in Packets /\ buf[l].st = p.st /\ buf[l].dts <= p.dts
    BY <1>1, <1>2
  <2>2. Time(buf[l]) <= p.dts * Tick[p.st]
    BY <2>1, SameStream, TimeType
  <2> QED BY <2>1, <2>2, Precedes DEF Time
<1>5. ASSUME NEW k \in 1 .. n, k <= l PROVE ~After(buf[k], p)
  <2>1. l \in 1 .. n /\ l # 0
    BY <1>1, <1>5
  <2> QED BY <1>2, <1>3, <1>4, <1>5, <2>1, Precedes
<1>6. CASE From(p) <= n /\ After(buf[n], p)
  <2>1. /\ i \in l + 1 .. n /\ After(buf[i], p)
        /\ \A k \in l + 1 .. i - 1 : ~After(buf[k], p)
    BY <1>1, <1>6 DEF IsPlace
  <2>2. ASSUME NEW k \in 1 .. n, k < i PROVE ~After(buf[k], p)
    BY <1>1, <1>5, <2>1, <2>2
  <2>3. ASSUME NEW k \in 1 .. n, ~(k < i) PROVE After(buf[k], p)
    <3>1. i \in 1 .. n /\ i <= k
      BY <1>1, <2>1, <2>3
    <3> QED BY <1>2, <1>3, <2>1, <3>1, Precedes
  <2>4. l < i
    BY <1>1, <2>1
  <2> QED BY <2>2, <2>3, <2>4
<1>7. CASE ~(From(p) <= n /\ After(buf[n], p))
  <2>1. i = n + 1
    BY <1>7 DEF IsPlace
  <2>2. ASSUME NEW k \in 1 .. n PROVE ~After(buf[k], p)
    <3>1. CASE k <= l
      BY <1>5, <3>1
    <3>2. CASE ~(k <= l)
      <4>1. From(p) <= n /\ n \in 1 .. n /\ k <= n
        BY <1>1, <3>2
      <4>2. ~After(buf[n], p) /\ ~After(buf[k], buf[n])
        BY <1>3, <1>7, <4>1
      <4> QED BY <1>2, <4>1, <4>2, Precedes
    <3> QED BY <3>1, <3>2
  <2> QED BY <1>1, <2>1, <2>2
<1> QED BY <1>6, <1>7

LEMMA LastWritten ==
  ASSUME IInv, out # <<>>
  PROVE  /\ Len(out) \in Nat \ {0} /\ out[Len(out)].pkt \in Packets
         /\ Time(out[Len(out)].pkt) \in Int
<1>1. out \in Seq([pkt : Packets, ts : Int])
  BY DEF IInv, TypeOK
<1>2. Len(out) \in Nat \ {0}
  BY <1>1, EmptySeq, LenProperties
<1>3. out[Len(out)] \in [pkt : Packets, ts : Int]
  <2>1. Len(out) \in 1 .. Len(out)
    BY <1>2
  <2> QED BY <1>1, <2>1, ElementOfSeq
<1> QED BY <1>2, <1>3, TimeType

(* The list with one more packet in it. *)
LEMMA InsertedPacket ==
  ASSUME buf \in Seq(Packets), NEW p \in Packets, NEW i \in 1 .. Len(buf) + 1,
         buf' = InsertAt(buf, i, p)
  PROVE  /\ Len(buf) \in Nat /\ buf' \in Seq(Packets) /\ Len(buf') = Len(buf) + 1
         /\ \A k \in 1 .. Len(buf) + 1 :
              buf'[k] = IF k < i THEN buf[k] ELSE IF k = i THEN p ELSE buf[k - 1]
<1> DEFINE new == InsertAt(buf, i, p)
<1>1. /\ Len(buf) \in Nat /\ new \in Seq(Packets) /\ Len(new) = Len(buf) + 1
      /\ \A k \in 1 .. Len(buf) + 1 :
           new[k] = IF k < i THEN buf[k] ELSE IF k = i THEN p ELSE buf[k - 1]
  BY Inserted, SMTT(30)
<1>2. buf' = new
  OBVIOUS
<1> QED BY <1>1, <1>2

LEMMA SubmitStep ==
  ASSUME IInv, NEW s \in Streams, NEW d \in Int, cur[s] = 0 => Follows(s, d), Submit(s, d)
  PROVE  IInv'
<1> DEFINE p == [st |-> s, dts |-> d, no |-> taken[s] + 1]
           n == Len(buf)
<1>1. p \in Packets /\ d \in Int /\ p.st = s /\ p.dts = d
  BY InterleaverAssumption DEF IInv, TypeOK, Packets
<1>2. \A k \in 1 .. n : buf[k].st = s => buf[k].dts <= d
  BY <1>1, Increasing DEF Submit
<1>3. PICK i \in 1 .. n + 1 : /\ IsPlace(i, p)
                             /\ buf' = InsertAt(buf, i, p)
                             /\ last' = [t \in Streams |-> IF t = s THEN i
                                          ELSE IF last[t] >= i THEN last[t] + 1 ELSE last[t]]
  BY <1>1 DEF Submit, AddPacket
<1> HIDE DEF p
<1>4. last[s] < i /\ \A k \in 1 .. n : IF k < i THEN ~After(buf[k], p) ELSE After(buf[k], p)
  BY <1>1, <1>2, <1>3, Place
<1>5. /\ n \in Nat /\ buf' \in Seq(Packets) /\ Len(buf') = n + 1
      /\ \A k \in 1 .. n + 1 : buf'[k] = IF k < i THEN buf[k] ELSE IF k = i THEN p ELSE buf[k - 1]
  <2>1. buf \in Seq(Packets) /\ p \in Packets /\ i \in 1 .. Len(buf) + 1
    BY <1>1 DEF IInv, TypeOK
  <2>2. buf' = InsertAt(buf, i, p)
    BY <1>3
  <2>3. /\ Len(buf) \in Nat /\ buf' \in Seq(Packets) /\ Len(buf') = Len(buf) + 1
        /\ \A k \in 1 .. Len(buf) + 1 :
             buf'[k] = IF k < i THEN buf[k] ELSE IF k = i THEN p ELSE buf[k - 1]
    BY <2>1, <2>2, InsertedPacket
  <2> QED BY <2>3
<1>6. /\ \A k \in 1 .. n : buf[k] \in Packets
      /\ \A k \in 1 .. i - 1 : k \in 1 .. n /\ buf'[k] = buf[k]
      /\ buf'[i] = p
      /\ \A k \in i + 1 .. n + 1 : k - 1 \in i .. n /\ k - 1 \in 1 .. n /\ buf'[k] = buf[k - 1]
  BY <1>5, Waits
<1>7. /\ cur' = [cur EXCEPT ![s] = d] /\ taken' = [taken EXCEPT ![s] = @ + 1]
      /\ pc' = "drain" /\ pc = "idle" /\ out' = out /\ forced' = forced
      /\ UNCHANGED <<shortEnd, lost, writeVars>>
  BY DEF Submit, writeVars
<1>8. TypeOK'
  <2>1. last' \in [Streams -> Nat]
    BY <1>3 DEF IInv, TypeOK
  <2>2. cur' \in [Streams -> Int \cup {NoTs}] /\ taken' \in [Streams -> Nat]
    BY <1>1, <1>7 DEF IInv, TypeOK
  <2> QED BY <1>5, <1>7, <2>1, <2>2 DEF IInv, TypeOK, writeVars
<1>9. Sorted'
  <2> SUFFICES ASSUME NEW j \in 1 .. n + 1, NEW k \in 1 .. n + 1, j < k
               PROVE  ~After(buf'[j], buf'[k])
    BY <1>5 DEF Sorted, After, Time
  <2>1. \A z, b \in 1 .. n : z < b => ~After(buf[z], buf[b])
    BY DEF IInv, Sorted
  <2>2. CASE k < i
    BY <1>5, <2>1, <2>2
  <2>3. CASE k = i
    <3>1. j \in 1 .. n /\ j < i /\ buf'[j] = buf[j] /\ buf'[k] = p
      BY <1>5, <2>3
    <3> QED BY <1>4, <3>1
  <2>4. CASE k > i /\ j = i
    <3>1. k - 1 \in 1 .. n /\ ~(k - 1 < i) /\ buf'[k] = buf[k - 1] /\ buf'[j] = p
      BY <1>5, <2>4
    <3> QED BY <1>1, <1>4, <1>6, <3>1, Precedes
  <2>5. CASE k > i /\ j > i
    <3>1. k - 1 \in 1 .. n /\ j - 1 \in 1 .. n /\ buf'[k] = buf[k - 1] /\ buf'[j] = buf[j - 1] /\ j - 1 < k - 1
      BY <1>5, <2>5
    <3> QED BY <2>1, <3>1
  <2>6. CASE k > i /\ j < i
    <3>1. k - 1 \in 1 .. n /\ j \in 1 .. n /\ buf'[k] = buf[k - 1] /\ buf'[j] = buf[j] /\ j < k - 1
      BY <1>5, <2>6
    <3> QED BY <2>1, <3>1
  <2> QED BY <2>2, <2>3, <2>4, <2>5, <2>6, <1>5
<1>10. LastIsLast'
  <2> SUFFICES ASSUME NEW t \in Streams
               PROVE  /\ last'[t] <= n + 1
                      /\ last'[t] # 0 => buf'[last'[t]].st = t
                      /\ \A k \in last'[t] + 1 .. n + 1 : buf'[k].st # t
    BY <1>5 DEF LastIsLast
  <2>1. /\ last[t] \in Nat /\ last[t] <= n /\ (last[t] # 0 => buf[last[t]].st = t)
        /\ \A k \in last[t] + 1 .. n : buf[k].st # t
    BY DEF IInv, TypeOK, LastIsLast
  <2>2. CASE t = s
    <3>1. last'[t] = i
      BY <1>3, <2>2
    <3>2. ASSUME NEW k \in i + 1 .. n + 1 PROVE buf'[k].st # t
      <4>1. k - 1 \in last[t] + 1 .. n
        BY <1>4, <1>5, <2>1, <2>2
      <4> QED BY <1>6, <2>1, <4>1
    <3> QED BY <1>1, <1>5, <1>6, <2>2, <3>1, <3>2
  <2>3. CASE t # s /\ last[t] >= i
    <3>1. last'[t] = last[t] + 1
      BY <1>3, <2>3
    <3>2. ASSUME NEW k \in last[t] + 2 .. n + 1 PROVE buf'[k].st # t
      <4>1. k - 1 \in last[t] + 1 .. n /\ k \in i + 1 .. n + 1
        BY <1>5, <2>1, <2>3
      <4> QED BY <1>6, <2>1, <4>1
    <3>3. buf'[last[t] + 1] = buf[last[t]] /\ last[t] # 0
      <4>1. last[t] + 1 \in i + 1 .. n + 1 /\ (last[t] + 1) - 1 = last[t]
        BY <1>5, <2>1, <2>3
      <4> QED BY <1>6, <2>1, <2>3, <4>1
    <3> QED BY <1>5, <2>1, <3>1, <3>2, <3>3
  <2>4. CASE t # s /\ ~(last[t] >= i)
    <3>1. last'[t] = last[t]
      BY <1>3, <2>4
    <3>2. ASSUME NEW k \in last[t] + 1 .. n + 1 PROVE buf'[k].st # t
      <4>1. CASE k < i
        <5>1. k \in last[t] + 1 .. n /\ k \in 1 .. i - 1
          BY <1>5, <2>1, <4>1
        <5> QED BY <1>6, <2>1, <5>1
      <4>2. CASE k = i
        BY <1>1, <1>6, <2>4, <4>2
      <4>3. CASE k > i
        <5>1. k - 1 \in last[t] + 1 .. n /\ k \in i + 1 .. n + 1
          BY <1>5, <2>1, <2>4, <4>3
        <5> QED BY <1>6, <2>1, <5>1
      <4> QED BY <1>5, <2>1, <4>1, <4>2, <4>3
    <3>3. last[t] # 0 => buf'[last[t]].st = t
      <4> SUFFICES ASSUME last[t] # 0 PROVE buf'[last[t]].st = t
        OBVIOUS
      <4>1. last[t] \in 1 .. i - 1
        BY <1>5, <2>1, <2>4
      <4> QED BY <1>6, <2>1, <4>1
    <3> QED BY <1>5, <2>1, <3>1, <3>2, <3>3
  <2> QED BY <2>2, <2>3, <2>4
<1>11. NotAhead'
  <2> SUFFICES ASSUME NEW k \in 1 .. n + 1
               PROVE  cur'[buf'[k].st] # NoTs /\ buf'[k].dts <= cur'[buf'[k].st]
    BY <1>5 DEF NotAhead
  <2>1. d # NoTs /\ cur'[s] = d /\ d <= d /\ cur \in [Streams -> Int \cup {NoTs}]
    BY <1>1, <1>7, InterleaverAssumption DEF IInv, TypeOK
  <2>2. ASSUME NEW j \in 1 .. n, buf'[k] = buf[j]
        PROVE  cur'[buf'[k].st] # NoTs /\ buf'[k].dts <= cur'[buf'[k].st]
    <3>1. cur[buf[j].st] # NoTs /\ buf[j].dts <= cur[buf[j].st] /\ buf[j].st \in Streams
      BY <1>6, TimeType DEF IInv, NotAhead
    <3>2. CASE buf[j].st = s
      BY <1>2, <2>1, <2>2, <3>2
    <3>3. CASE buf[j].st # s
      BY <1>7, <2>1, <2>2, <3>1, <3>3
    <3> QED BY <3>2, <3>3
  <2>3. CASE k < i
    BY <1>5, <2>2, <2>3
  <2>4. CASE k = i
    BY <1>1, <1>6, <2>1, <2>4
  <2>5. CASE k > i
    <3>1. k - 1 \in 1 .. n /\ buf'[k] = buf[k - 1]
      BY <1>5, <2>5
    <3> QED BY <2>2, <3>1
  <2> QED BY <2>3, <2>4, <2>5, <1>5
<1>12. WrittenFirst' /\ OutputOrdered'
  <2>1. OutputOrdered'
    BY <1>7 DEF IInv, OutputOrdered, Time
  <2>2. ASSUME out # <<>>, ~forced
        PROVE  /\ \A k \in 1 .. n + 1 : Time(out[Len(out)].pkt) <= Time(buf'[k])
               /\ \A t \in Streams : cur'[t] # NoTs /\ Time(out[Len(out)].pkt) <= cur'[t] * Tick[t]
    <3> DEFINE w == Time(out[Len(out)].pkt)
    <3>1. w \in Int
      BY <2>2, LastWritten
    <3>2. /\ \A k \in 1 .. n : w <= Time(buf[k])
          /\ \A t \in Streams : cur[t] # NoTs /\ w <= cur[t] * Tick[t]
      BY <1>7, <2>2 DEF IInv, WrittenFirst
    <3> HIDE DEF w
    <3>3. w <= d * Tick[s]
      <4>1. cur[s] \in Int /\ cur[s] <= d /\ Tick[s] \in Nat
        BY <1>1, <3>2, Increasing, InterleaverAssumption DEF Submit
      <4>2. cur[s] * Tick[s] \in Int /\ d * Tick[s] \in Int /\ cur[s] * Tick[s] <= d * Tick[s]
        BY <1>1, <4>1, Scale
      <4> QED BY <3>1, <3>2, <4>2
    <3>4. Time(p) = d * Tick[s]
      BY <1>1 DEF Time
    <3>5. \A t \in Streams : cur'[t] # NoTs /\ w <= cur'[t] * Tick[t]
      BY <1>1, <1>7, <3>2, <3>3, InterleaverAssumption DEF IInv, TypeOK
    <3>6. ASSUME NEW k \in 1 .. n + 1 PROVE w <= Time(buf'[k])
      <4>1. CASE k < i
        BY <1>5, <1>6, <3>2, <4>1
      <4>2. CASE k = i
        BY <1>6, <3>3, <3>4, <4>2
      <4>3. CASE k > i
        <5>1. k - 1 \in 1 .. n /\ buf'[k] = buf[k - 1]
          BY <1>5, <4>3
        <5> QED BY <3>2, <5>1
      <4> QED BY <4>1, <4>2, <4>3, <1>5
    <3> QED BY <3>5, <3>6 DEF w
  <2>3. WrittenFirst'
    BY <1>5, <1>7, <2>2 DEF WrittenFirst, Time
  <2> QED BY <2>1, <2>3
<1> QED BY <1>8, <1>9, <1>10, <1>11, <1>12 DEF IInv

LEMMA EndType == ASSUME TypeOK PROVE EndNow \in Int \cup {NoTs}
<1>1. CASE buf = <<>>
  BY <1>1 DEF EndNow, TypeOK
<1>2. CASE buf # <<>>
  <2>1. buf[1] \in Packets
    BY <1>2, Shifted DEF TypeOK
  <2>2. Time(buf[1]) \in Int
    BY <2>1, TimeType
  <2> QED BY <2>2 DEF EndNow, TypeOK
<1> QED BY <1>1, <1>2

LEMMA OffType ==
  ASSUME TypeOK, NEW p \in Packets
  PROVE  /\ p.st \in Streams /\ p.dts \in Int /\ Time(p) \in Int
         /\ ShiftFor(p) \in Int \cup {NoTs} /\ OffFor(p) \in Int /\ p.dts + OffFor(p) \in Int
<1>1. Time(p) \in Int /\ p.st \in Streams /\ p.dts \in Int
  BY TimeType
<1>2. ShiftFor(p) \in Int \cup {NoTs}
  BY <1>1 DEF TypeOK, ShiftFor
<1>3. Tick[p.st] \in Nat \ {0} /\ off[p.st] \in Int
  BY <1>1, InterleaverAssumption DEF TypeOK
<1>4. ASSUME NEW z \in Int PROVE CeilDiv(z, Tick[p.st]) \in Int
  BY <1>3 DEF CeilDiv
<1>5. OffFor(p) \in Int
  BY <1>2, <1>3, <1>4 DEF OffFor
<1> QED BY <1>1, <1>2, <1>5

(* The list without its first m packets. *)
LEMMA ListShrinks ==
  ASSUME TypeOK, NEW m \in 1 .. Len(buf), buf' = SubSeq(buf, m + 1, Len(buf))
  PROVE  /\ Len(buf) \in Nat /\ buf' \in Seq(Packets) /\ Len(buf') = Len(buf) - m
         /\ \A k \in 1 .. Len(buf) - m : buf'[k] = buf[m + k]
<1>1. m \in 0 .. Len(buf) /\ buf \in Seq(Packets) /\ Len(buf) \in Nat
  BY LenProperties DEF TypeOK
<1> QED BY <1>1, Cut

LEMMA ListPops ==
  ASSUME TypeOK, buf # <<>>, buf' = Tail(buf)
  PROVE  /\ Len(buf) \in Nat \ {0} /\ buf[1] \in Packets
         /\ buf' \in Seq(Packets) /\ Len(buf') = Len(buf) - 1
         /\ \A k \in 1 .. Len(buf) - 1 : buf'[k] = buf[1 + k]
<1>1. buf \in Seq(Packets)
  BY DEF TypeOK
<1>2. \A k \in 1 .. Len(buf) - 1 : Tail(buf)[k] = buf[k + 1]
  BY <1>1, Shifted
<1>3. Tail(buf) \in Seq(Packets) /\ Len(Tail(buf)) = Len(buf) - 1 /\ Len(buf) \in Nat \ {0} /\ buf[1] \in Packets
  BY <1>1, Shifted
<1> QED BY <1>2, <1>3

(* Taking nodes off the front leaves the rest in order. *)
LEMMA FrontTaken ==
  ASSUME IInv, NEW m \in 1 .. Len(buf),
         buf' \in Seq(Packets), Len(buf') = Len(buf) - m,
         \A k \in 1 .. Len(buf) - m : buf'[k] = buf[m + k],
         last' = [t \in Streams |-> IF last[t] <= m THEN 0 ELSE last[t] - m],
         cur' = cur
  PROVE  Sorted' /\ LastIsLast' /\ NotAhead'
<1> DEFINE n == Len(buf)
<1>1. n \in Nat /\ last \in [Streams -> Nat]
  BY LenProperties DEF IInv, TypeOK
<1>2. \A k \in 1 .. n - m : m + k \in 1 .. n
  BY <1>1
<1>3. Sorted'
  <2> SUFFICES ASSUME NEW j \in 1 .. n - m, NEW k \in 1 .. n - m, j < k
               PROVE  ~After(buf'[j], buf'[k])
    BY DEF Sorted, After, Time
  <2>1. m + j \in 1 .. n /\ m + k \in 1 .. n /\ m + j < m + k
    BY <1>1
  <2>2. ~After(buf[m + j], buf[m + k])
    BY <2>1 DEF IInv, Sorted
  <2> QED BY <2>2
<1>4. LastIsLast'
  <2> SUFFICES ASSUME NEW t \in Streams
               PROVE  /\ last'[t] <= n - m
                      /\ last'[t] # 0 => buf'[last'[t]].st = t
                      /\ \A k \in last'[t] + 1 .. n - m : buf'[k].st # t
    BY DEF LastIsLast
  <2>1. /\ last[t] \in Nat /\ last[t] <= n /\ (last[t] # 0 => buf[last[t]].st = t)
        /\ \A k \in last[t] + 1 .. n : buf[k].st # t
    BY <1>1 DEF IInv, LastIsLast
  <2>2. CASE last[t] <= m
    <3>1. last'[t] = 0
      BY <2>2
    <3>2. ASSUME NEW k \in 1 .. n - m PROVE buf'[k].st # t
      <4>1. m + k \in last[t] + 1 .. n
        BY <1>1, <2>1, <2>2
      <4> QED BY <2>1, <4>1
    <3> QED BY <1>1, <3>1, <3>2
  <2>3. CASE ~(last[t] <= m)
    <3>1. last'[t] = last[t] - m /\ last[t] - m \in 1 .. n - m /\ m + (last[t] - m) = last[t]
      BY <1>1, <2>1, <2>3
    <3>2. buf'[last[t] - m] = buf[last[t]]
      BY <3>1
    <3>3. ASSUME NEW k \in (last[t] - m) + 1 .. n - m PROVE buf'[k].st # t
      <4>1. m + k \in last[t] + 1 .. n /\ k \in 1 .. n - m
        BY <1>1, <2>1, <2>3
      <4> QED BY <2>1, <4>1
    <3> QED BY <2>1, <2>3, <3>1, <3>2, <3>3
  <2> QED BY <2>2, <2>3
<1>5. NotAhead'
  BY <1>2 DEF IInv, NotAhead
<1> QED BY <1>3, <1>4, <1>5

LEMMA TruncateStep == ASSUME IInv, Truncate PROVE IInv'
<1>1. PICK m \in 1 .. Len(buf) :
        /\ buf' = SubSeq(buf, m + 1, Len(buf))
        /\ last' = [t \in Streams |-> IF last[t] <= m THEN 0 ELSE last[t] - m]
        /\ lost' = lost \cup {buf[i] : i \in 1 .. m}
  BY DEF Truncate
<1>2. /\ cur' = cur /\ taken' = taken /\ forced' = forced /\ out' = out
      /\ UNCHANGED writeVars /\ shortEnd' = EndNow /\ pc' = Return
  BY DEF Truncate, writeVars
<1>3. /\ Len(buf) \in Nat /\ \A i \in 1 .. Len(buf) : buf[i] \in Packets
      /\ last \in [Streams -> Nat]
  BY Waits DEF IInv, TypeOK
<1>4. /\ buf' \in Seq(Packets) /\ Len(buf') = Len(buf) - m
      /\ \A k \in 1 .. Len(buf) - m : buf'[k] = buf[m + k]
  BY <1>1, ListShrinks DEF IInv
<1>5. Sorted' /\ LastIsLast' /\ NotAhead'
  BY <1>1, <1>2, <1>4, FrontTaken
<1>6. TypeOK'
  <2>1. last' \in [Streams -> Nat]
    BY <1>1, <1>3
  <2>2. lost' \subseteq Packets
    BY <1>1, <1>3 DEF IInv, TypeOK
  <2>3. EndNow \in Int \cup {NoTs}
    BY EndType DEF IInv
  <2> QED BY <1>2, <1>4, <2>1, <2>2, <2>3 DEF IInv, TypeOK, Return, writeVars
<1>7. OutputOrdered'
  BY <1>2 DEF IInv, OutputOrdered, Time
<1>8. WrittenFirst'
  <2> SUFFICES ASSUME out # <<>>, ~forced
               PROVE  /\ \A k \in 1 .. Len(buf) - m : Time(out[Len(out)].pkt) <= Time(buf'[k])
                      /\ pc' \notin {"trailer", "done"} => \A t \in Streams :
                           cur[t] # NoTs /\ Time(out[Len(out)].pkt) <= cur[t] * Tick[t]
    BY <1>2, <1>4 DEF WrittenFirst, Time
  <2>1. /\ \A k \in 1 .. Len(buf) : Time(out[Len(out)].pkt) <= Time(buf[k])
        /\ pc \notin {"trailer", "done"} => \A t \in Streams :
             cur[t] # NoTs /\ Time(out[Len(out)].pkt) <= cur[t] * Tick[t]
    BY DEF IInv, WrittenFirst
  <2>2. pc' \notin {"trailer", "done"} => pc \notin {"trailer", "done"}
    BY <1>2 DEF Return, Truncate, Busy, Eof
  <2>3. \A k \in 1 .. Len(buf) - m : m + k \in 1 .. Len(buf)
    BY <1>3
  <2> QED BY <1>4, <2>1, <2>2, <2>3
<1> QED BY <1>5, <1>6, <1>7, <1>8 DEF IInv

(* The head of the list is no later than any other packet in it; when every  *)
(* stream has one, no later than what a stream may still bring.              *)
LEMMA HeadLeast ==
  ASSUME IInv, NEW k \in 1 .. Len(buf)
  PROVE  /\ buf[1] \in Packets /\ Time(buf[1]) \in Int /\ Time(buf[k]) \in Int
         /\ Time(buf[1]) <= Time(buf[k])
<1>1. 1 \in 1 .. Len(buf)
  BY LenProperties DEF IInv, TypeOK
<1>2. /\ buf[1] \in Packets /\ Time(buf[1]) \in Int
      /\ buf[k] \in Packets /\ Time(buf[k]) \in Int
  BY <1>1, Waits, TimeType
<1>3. CASE k = 1
  BY <1>2, <1>3
<1>4. CASE k # 1
  <2>1. ~After(buf[1], buf[k])
    BY <1>1, <1>4 DEF IInv, Sorted
  <2> QED BY <1>2, <2>1, Precedes
<1> QED BY <1>2, <1>3, <1>4

LEMMA HeadBeforeAll ==
  ASSUME IInv, Full, NEW t \in Streams
  PROVE  cur[t] # NoTs /\ cur[t] * Tick[t] \in Int /\ Time(buf[1]) <= cur[t] * Tick[t]
<1>1. last[t] # 0 /\ last[t] \in 1 .. Len(buf) /\ buf[last[t]].st = t
  BY LenProperties DEF Full, IInv, TypeOK, LastIsLast
<1> DEFINE q == buf[last[t]]
<1>2. /\ q \in Packets /\ q.dts \in Int /\ q.st = t
      /\ cur[t] # NoTs /\ q.dts <= cur[t] /\ cur[t] \in Int
  BY <1>1, Waits, TimeType DEF IInv, TypeOK, NotAhead
<1>3. Time(q) <= cur[t] * Tick[t]
  BY <1>2, SameStream
<1>4. cur[t] * Tick[t] \in Int
  BY <1>2, Scale, InterleaverAssumption
<1>5. Time(buf[1]) <= Time(q) /\ Time(q) \in Int /\ Time(buf[1]) \in Int
  BY <1>1, HeadLeast
<1> HIDE DEF q
<1> QED BY <1>2, <1>3, <1>4, <1>5

LEMMA WriteOneStep == ASSUME IInv, WriteOne PROVE IInv'
<1> DEFINE n == Len(buf)
           p == buf[1]
<1>1. PICK fails \in BOOLEAN : WritePacket(p, fails)
  BY DEF WriteOne
<1>2. /\ Busy /\ Ready /\ buf # <<>> /\ buf' = Tail(buf) /\ last' = LastAfterPop
      /\ shortEnd' = EndNow /\ forced' = (forced \/ (pc # "trailer" /\ ~Full))
      /\ cur' = cur /\ taken' = taken
  BY DEF WriteOne, Ready
<1>3. /\ buf' \in Seq(Packets) /\ Len(buf') = n - 1 /\ n \in Nat \ {0} /\ p \in Packets
      /\ \A k \in 1 .. n - 1 : buf'[k] = buf[1 + k]
  BY <1>2, ListPops DEF IInv
<1>4. /\ 1 \in 1 .. n /\ last \in [Streams -> Nat]
      /\ last' = [t \in Streams |-> IF last[t] <= 1 THEN 0 ELSE last[t] - 1]
  BY <1>2, <1>3 DEF IInv, TypeOK, LastAfterPop
<1>5. Sorted' /\ LastIsLast' /\ NotAhead'
  BY <1>2, <1>3, <1>4, FrontTaken
<1>6. Time(p) \in Int /\ p.st \in Streams /\ p.dts \in Int
  BY <1>3, TimeType
<1>7. OffFor(p) \in Int /\ ShiftFor(p) \in Int \cup {NoTs}
  BY <1>3, OffType DEF IInv
<1>8. \/ out' = out /\ pc' = Return
      \/ out' = Append(out, [pkt |-> p, ts |-> p.dts + OffFor(p)]) /\ pc' = pc
  BY <1>1 DEF WritePacket, WrittenWith, NextIteration
<1> HIDE DEF p
<1>9. TypeOK'
  <2>1. last' \in [Streams -> Nat] /\ shortEnd' \in Int \cup {NoTs}
    BY <1>2, <1>4, EndType DEF IInv
  <2>2. out' \in Seq([pkt : Packets, ts : Int])
    <3> DEFINE r == [pkt |-> p, ts |-> p.dts + OffFor(p)]
    <3>1. r \in [pkt : Packets, ts : Int]
      <4>1. p.dts + OffFor(p) \in Int
        BY <1>6, <1>7
      <4> QED BY <1>3, <4>1
    <3> HIDE DEF r
    <3>2. Append(out, r) \in Seq([pkt : Packets, ts : Int])
      BY <3>1, Pushed DEF IInv, TypeOK
    <3> QED BY <1>8, <3>2 DEF IInv, TypeOK, r
  <2>3. lost' \subseteq Packets
    BY <1>1, <1>3 DEF WritePacket, IInv, TypeOK
  <2>4. ioError' \in BOOLEAN
    BY <1>1 DEF WritePacket, IInv, TypeOK
  <2>5. shift' \in Int \cup {NoTs} /\ off' \in [Streams -> Int]
    BY <1>1, <1>7 DEF WritePacket, IInv, TypeOK
  <2>6. pc' \in {"idle", "drain", "flush", "trailer", "done"}
    BY <1>8 DEF Return, IInv, TypeOK
  <2>7. cur' \in [Streams -> Int \cup {NoTs}] /\ taken' \in [Streams -> Nat] /\ forced' \in BOOLEAN
    BY <1>2 DEF IInv, TypeOK
  <2> QED BY <1>3, <2>1, <2>2, <2>3, <2>4, <2>5, <2>6, <2>7 DEF TypeOK
<1>10. /\ pc' \notin {"trailer", "done"} => pc # "trailer"
       /\ pc # "done"
  BY <1>2, <1>8 DEF Return, Busy, Eof
<1>11. \A k \in 1 .. n : Time(buf[k]) \in Int /\ Time(p) <= Time(buf[k])
  BY HeadLeast DEF p
<1>12. CASE out' = out /\ pc' = Return
  <2>1. ~forced' => ~forced
    BY <1>2
  <2>2. OutputOrdered'
    BY <1>12, <2>1 DEF IInv, OutputOrdered, Time
  <2>3. ASSUME out # <<>>, ~forced
        PROVE  /\ \A k \in 1 .. n - 1 : Time(out[Len(out)].pkt) <= Time(buf'[k])
               /\ pc' \notin {"trailer", "done"} => \A t \in Streams :
                    cur[t] # NoTs /\ Time(out[Len(out)].pkt) <= cur[t] * Tick[t]
    <3>1. /\ \A k \in 1 .. n : Time(out[Len(out)].pkt) <= Time(buf[k])
          /\ pc \notin {"trailer", "done"} => \A t \in Streams :
               cur[t] # NoTs /\ Time(out[Len(out)].pkt) <= cur[t] * Tick[t]
      BY <2>3 DEF IInv, WrittenFirst
    <3>2. \A k \in 1 .. n - 1 : 1 + k \in 1 .. n
      BY <1>3
    <3> QED BY <1>3, <1>10, <3>1, <3>2
  <2>4. WrittenFirst'
    BY <1>2, <1>3, <1>12, <2>1, <2>3 DEF WrittenFirst, Time
  <2> QED BY <1>5, <1>9, <2>2, <2>4 DEF IInv
<1>13. CASE out' = Append(out, [pkt |-> p, ts |-> p.dts + OffFor(p)]) /\ pc' = pc
  <2> DEFINE r == [pkt |-> p, ts |-> p.dts + OffFor(p)]
             m == Len(out)
  <2>1. /\ m \in Nat /\ Len(out') = m + 1
        /\ \A k \in 1 .. m + 1 : out'[k] = IF k <= m THEN out[k] ELSE r
    <3>1. r \in [pkt : Packets, ts : Int]
      <4>1. p.dts + OffFor(p) \in Int
        BY <1>6, <1>7
      <4> QED BY <1>3, <4>1
    <3> HIDE DEF r
    <3>2. out \in Seq([pkt : Packets, ts : Int]) /\ out' = Append(out, r)
      BY <1>13 DEF IInv, TypeOK, r
    <3> QED BY <3>1, <3>2, Pushed
  <2>2. r.pkt = p
    OBVIOUS
  <2> HIDE DEF r
  <2>3. out'[m + 1].pkt = p /\ \A k \in 1 .. m : out'[k] = out[k]
    BY <2>1, <2>2
  <2>4. ~forced' => ~forced /\ (pc = "trailer" \/ Full)
    BY <1>2 DEF IInv, TypeOK
  <2>5. ASSUME ~forced, NEW k \in 1 .. m PROVE Time(out[k].pkt) <= Time(p)
    <3>1. out # <<>> /\ m \in 1 .. m
      BY <2>1, <2>5, EmptySeq
    <3>2. Time(out[m].pkt) <= Time(p) /\ Time(out[m].pkt) \in Int
      BY <1>4, <2>5, <3>1, LastWritten DEF IInv, WrittenFirst, p
    <3>3. Time(out[k].pkt) \in Int
      <4>1. out[k] \in [pkt : Packets, ts : Int]
        BY <2>5, ElementOfSeq DEF IInv, TypeOK
      <4> QED BY <4>1, TimeType
    <3>4. k # m => Time(out[k].pkt) <= Time(out[m].pkt)
      <4> SUFFICES ASSUME k # m PROVE Time(out[k].pkt) <= Time(out[m].pkt)
        OBVIOUS
      <4>1. k < m
        BY <2>1
      <4> QED BY <2>5, <3>1, <4>1 DEF IInv, OutputOrdered
    <3> QED BY <1>6, <3>2, <3>3, <3>4
  <2>6. OutputOrdered'
    <3> SUFFICES ASSUME ~forced, NEW j \in 1 .. m + 1, NEW k \in 1 .. m + 1, j < k
                 PROVE  Time(out'[j].pkt) <= Time(out'[k].pkt)
      BY <2>1, <2>4 DEF OutputOrdered, Time
    <3>1. CASE k = m + 1
      <4>1. j \in 1 .. m
        BY <2>1, <3>1
      <4> QED BY <2>3, <2>5, <3>1, <4>1
    <3>2. CASE k # m + 1
      <4>1. j \in 1 .. m /\ k \in 1 .. m
        BY <2>1, <3>2
      <4> QED BY <2>3, <4>1 DEF IInv, OutputOrdered
    <3> QED BY <3>1, <3>2
  <2>7. ASSUME ~forced', pc' \notin {"trailer", "done"}, NEW t \in Streams
        PROVE  cur[t] # NoTs /\ Time(p) <= cur[t] * Tick[t]
    BY <1>10, <2>4, <2>7, HeadBeforeAll DEF p
  <2>8. WrittenFirst'
    <3> SUFFICES ASSUME ~forced'
                 PROVE  /\ \A k \in 1 .. n - 1 : Time(out'[m + 1].pkt) <= Time(buf'[k])
                        /\ pc' \notin {"trailer", "done"} => \A t \in Streams :
                             cur'[t] # NoTs /\ Time(out'[m + 1].pkt) <= cur'[t] * Tick[t]
      BY <1>3, <2>1 DEF WrittenFirst, Time
    <3>1. \A k \in 1 .. n - 1 : 1 + k \in 1 .. n
      BY <1>3
    <3> QED BY <1>2, <1>3, <1>11, <2>3, <2>7, <3>1
  <2> QED BY <1>5, <1>9, <2>6, <2>8 DEF IInv
<1> QED BY <1>8, <1>12, <1>13

(* The other steps change nothing the invariant is about but pc. *)
LEMMA OtherSteps ==
  ASSUME IInv, \/ UNCHANGED muxVars
               \/ UNCHANGED <<queueVars, writeVars>> /\ pc # "done" /\ pc # "trailer"
                  /\ pc' \in {"idle", "flush", "trailer"}
               \/ UNCHANGED <<queueVars, writeVars>> /\ pc = "trailer" /\ pc' = "done"
  PROVE  IInv'
<1>1. /\ buf' = buf /\ last' = last /\ cur' = cur /\ shortEnd' = shortEnd /\ taken' = taken
      /\ lost' = lost /\ forced' = forced /\ shift' = shift /\ off' = off
      /\ ioError' = ioError /\ out' = out
  BY DEF muxVars, queueVars, writeVars
<1>2. /\ pc' \in {"idle", "drain", "flush", "trailer", "done"}
      /\ pc' \notin {"trailer", "done"} => pc \notin {"trailer", "done"}
  BY DEF muxVars, IInv, TypeOK
<1>3. TypeOK' /\ Sorted' /\ LastIsLast' /\ NotAhead' /\ OutputOrdered'
  BY <1>1, <1>2 DEF IInv, TypeOK, Sorted, After, LastIsLast, NotAhead, OutputOrdered, Time
<1>4. WrittenFirst'
  BY <1>1, <1>2 DEF IInv, WrittenFirst, Time
<1> QED BY <1>3, <1>4 DEF IInv

(* The invariant holds in every execution, if the caller also obeys the      *)
(* documentation after a dts of zero.                                        *)
THEOREM Invariance == ObeyAtZero => (Spec => []IInv)
<1> SUFFICES ASSUME ObeyAtZero PROVE Spec => []IInv
  OBVIOUS
<1>1. IInv /\ [Next]_muxVars => IInv'
  <2> SUFFICES ASSUME IInv, [Next]_muxVars PROVE IInv'
    OBVIOUS
  <2>1. CASE Offer
    BY <2>1, OffersObey, SubmitStep
  <2>2. CASE Flush
    BY <2>2, OtherSteps DEF Flush
  <2>3. CASE Trailer
    BY <2>3, OtherSteps DEF Trailer
  <2>4. CASE Truncate
    BY <2>4, TruncateStep
  <2>5. CASE WriteOne
    BY <2>5, WriteOneStep
  <2>6. CASE Finish
    BY <2>6, OtherSteps DEF Finish, Return, Busy, Eof
  <2>7. CASE Ended \/ UNCHANGED muxVars
    BY <2>7, OtherSteps DEF Ended
  <2> QED BY <2>1, <2>2, <2>3, <2>4, <2>5, <2>6, <2>7 DEF Next, Work
<1> QED BY <1>1, InitInv, PTL DEF Spec

(* Packets of all the streams are written in order of time.                  *)
THEOREM WrittenInOrder == ObeyAtZero => (Spec => []OutputOrdered)
<1>1. IInv => OutputOrdered
  BY DEF IInv
<1> SUFFICES ASSUME ObeyAtZero PROVE Spec => []OutputOrdered
  OBVIOUS
<1>2. Spec => []IInv
  BY Invariance
<1> QED BY <1>1, <1>2, PTL

-----------------------------------------------------------------------------
(* Where each packet is.  Nothing here needs an obedient caller. *)

(* The list with a packet in the middle, by TypeOK alone. *)
LEMMA ListGrows ==
  ASSUME TypeOK, NEW s \in Streams, NEW d \in Int, Submit(s, d)
  PROVE  \E i \in 1 .. Len(buf) + 1 :
           /\ Len(buf) \in Nat /\ buf' \in Seq(Packets) /\ Len(buf') = Len(buf) + 1
           /\ \A k \in 1 .. Len(buf) + 1 :
                buf'[k] = IF k < i THEN buf[k]
                          ELSE IF k = i THEN [st |-> s, dts |-> d, no |-> taken[s] + 1]
                          ELSE buf[k - 1]
           /\ last' \in [Streams -> Nat]
<1> DEFINE p == [st |-> s, dts |-> d, no |-> taken[s] + 1]
<1>1. p \in Packets
  BY InterleaverAssumption DEF TypeOK, Packets
<1>2. PICK i \in 1 .. Len(buf) + 1 :
        /\ buf' = InsertAt(buf, i, p)
        /\ last' = [t \in Streams |-> IF t = s THEN i
                      ELSE IF last[t] >= i THEN last[t] + 1 ELSE last[t]]
  BY DEF Submit, AddPacket
<1>3. last' \in [Streams -> Nat]
  BY <1>2, LenProperties DEF TypeOK
<1> HIDE DEF p
<1>4. buf \in Seq(Packets) /\ i \in 1 .. Len(buf) + 1 /\ buf' = InsertAt(buf, i, p)
  BY <1>2 DEF TypeOK
<1>5. /\ Len(buf) \in Nat /\ buf' \in Seq(Packets) /\ Len(buf') = Len(buf) + 1
      /\ \A k \in 1 .. Len(buf) + 1 : buf'[k] = IF k < i THEN buf[k] ELSE IF k = i THEN p ELSE buf[k - 1]
  BY <1>1, <1>4, InsertedPacket
<1> QED BY <1>3, <1>5 DEF p

LEMMA AccountInit == Init => AccountInv
<1> SUFFICES ASSUME Init PROVE AccountInv
  OBVIOUS
<1>1. TypeOK
  BY InitInv DEF IInv
<1>2. Len(buf) = 0 /\ Len(out) = 0 /\ lost = {} /\ unwritten = {} /\ shortEnd = NoTs
       /\ \A s \in Streams : taken[s] = 0
  BY DEF Init
<1>3. Written = {} /\ Waiting = {} /\ Accepted = {}
  BY <1>2 DEF Written, Waiting, Accepted
<1> QED BY <1>1, <1>2, <1>3 DEF AccountInv, EachOnce, LossesExplained

(* A packet that is submitted has a number of its own. *)
LEMMA AccountSubmit ==
  ASSUME AccountInv, NEW s \in Streams, NEW d \in Int, Submit(s, d)
  PROVE  AccountInv'
<1> DEFINE p == [st |-> s, dts |-> d, no |-> taken[s] + 1]
           n == Len(buf)
<1>1. TypeOK /\ EachOnce
  BY DEF AccountInv
<1>2. PICK i \in 1 .. n + 1 :
        /\ n \in Nat /\ buf' \in Seq(Packets) /\ Len(buf') = n + 1
        /\ \A k \in 1 .. n + 1 : buf'[k] = IF k < i THEN buf[k] ELSE IF k = i THEN p ELSE buf[k - 1]
        /\ last' \in [Streams -> Nat]
  BY <1>1, ListGrows
<1>3. /\ cur' = [cur EXCEPT ![s] = d] /\ taken' = [taken EXCEPT ![s] = @ + 1]
      /\ pc' = "drain" /\ out' = out /\ forced' = forced /\ lost' = lost
      /\ unwritten' = unwritten /\ shortEnd' = shortEnd /\ shift' = shift /\ off' = off /\ ioError' = ioError
  BY DEF Submit, writeVars
<1>4. p.st = s /\ p.no = taken[s] + 1 /\ taken[s] \in Nat /\ d \in Int
  BY <1>1, InterleaverAssumption DEF TypeOK
<1> HIDE DEF p
<1>5. TypeOK'
  <2>1. cur' \in [Streams -> Int \cup {NoTs}] /\ taken' \in [Streams -> Nat]
    BY <1>1, <1>3, <1>4 DEF TypeOK
  <2> QED BY <1>1, <1>2, <1>3, <2>1 DEF TypeOK
<1>6. /\ \A k \in 1 .. i - 1 : k \in 1 .. n /\ buf'[k] = buf[k]
      /\ buf'[i] = p
      /\ \A k \in i + 1 .. n + 1 : k - 1 \in i .. n /\ k - 1 \in 1 .. n /\ buf'[k] = buf[k - 1]
  BY <1>2
<1>7. Waiting' = Waiting \cup {p}
  <2>1. Waiting' = {buf'[k] : k \in 1 .. n + 1}
    BY <1>2 DEF Waiting
  <2>2. ASSUME NEW k \in 1 .. n + 1 PROVE buf'[k] \in Waiting \cup {p}
    <3>1. k \in 1 .. i - 1 \/ k = i \/ k \in i + 1 .. n + 1
      BY <1>2
    <3> QED BY <1>6, <3>1 DEF Waiting
  <2>3. ASSUME NEW k \in 1 .. n PROVE \E j \in 1 .. n + 1 : buf'[j] = buf[k]
    <3>1. CASE k < i
      BY <1>2, <3>1
    <3>2. CASE ~(k < i)
      <4>1. k + 1 \in 1 .. n + 1 /\ ~(k + 1 < i) /\ k + 1 # i /\ (k + 1) - 1 = k
        BY <1>2, <3>2
      <4> QED BY <1>2, <4>1
    <3> QED BY <3>1, <3>2
  <2>4. i \in 1 .. n + 1 /\ buf'[i] = p
    BY <1>6
  <2>5. Waiting' \subseteq Waiting \cup {p}
    BY <2>1, <2>2
  <2>6. p \in Waiting'
    BY <2>1, <2>4
  <2>7. Waiting \subseteq Waiting'
    BY <2>1, <2>3 DEF Waiting
  <2> QED BY <2>5, <2>6, <2>7
<1>8. Written' = Written /\ Accepted' = Accepted \cup {p}
  BY <1>3, <1>7 DEF Written, Accepted
<1>9. p \notin Accepted /\ \A q \in Accepted : q.st = s => q.no # p.no
  <2>1. \A q \in Accepted : q.st = s => q.no \in 1 .. taken[s]
    BY <1>1 DEF EachOnce
  <2> QED BY <1>4, <2>1
<1>10. EachOnce'
  <2>1. \A j, k \in 1 .. Len(out') : out'[j].pkt = out'[k].pkt => j = k
    BY <1>1, <1>3 DEF EachOnce
  <2>2. ASSUME NEW j \in 1 .. n + 1, NEW k \in 1 .. n + 1, buf'[j] = buf'[k] PROVE j = k
    <3>1. \A z, b \in 1 .. n : buf[z] = buf[b] => z = b
      BY <1>1 DEF EachOnce
    <3>2. \A z \in 1 .. n : buf[z] # p
      BY <1>9 DEF Accepted, Waiting
    <3>3. /\ j \in 1 .. i - 1 \/ j = i \/ j \in i + 1 .. n + 1
          /\ k \in 1 .. i - 1 \/ k = i \/ k \in i + 1 .. n + 1
      BY <1>2
    <3>4. CASE j = i
      <4>1. k \notin 1 .. i - 1 /\ k \notin i + 1 .. n + 1
        BY <1>6, <2>2, <3>2, <3>4
      <4> QED BY <3>3, <3>4, <4>1
    <3>5. CASE j \in 1 .. i - 1
      <4>1. k # i
        BY <1>6, <2>2, <3>2, <3>5
      <4>2. k \in 1 .. i - 1 => j = k
        BY <1>6, <2>2, <3>1, <3>5
      <4>3. k \in i + 1 .. n + 1 => j = k - 1 /\ j < i /\ ~(k - 1 < i)
        BY <1>6, <2>2, <3>1, <3>5
      <4> QED BY <1>2, <3>3, <4>1, <4>2, <4>3
    <3>6. CASE j \in i + 1 .. n + 1
      <4>1. k # i
        BY <1>6, <2>2, <3>2, <3>6
      <4>2. k \in 1 .. i - 1 => j - 1 = k /\ k < i /\ ~(j - 1 < i)
        BY <1>6, <2>2, <3>1, <3>6
      <4>3. k \in i + 1 .. n + 1 => j - 1 = k - 1
        BY <1>6, <2>2, <3>1, <3>6
      <4> QED BY <1>2, <3>3, <4>1, <4>2, <4>3
    <3> QED BY <3>3, <3>4, <3>5, <3>6
  <2>3. Written' \cap Waiting' = {} /\ Written' \cap lost' = {} /\ Waiting' \cap lost' = {}
    BY <1>1, <1>3, <1>7, <1>8, <1>9 DEF EachOnce, Accepted
  <2>4. \A q, r \in Accepted' : q.st = r.st /\ q.no = r.no => q = r
    BY <1>1, <1>4, <1>8, <1>9 DEF EachOnce
  <2>5. ASSUME NEW t \in Streams
        PROVE  {q.no : q \in {r \in Accepted' : r.st = t}} = 1 .. taken'[t]
    <3>1. {q.no : q \in {r \in Accepted : r.st = t}} = 1 .. taken[t] /\ taken[t] \in Nat
      BY <1>1 DEF EachOnce, TypeOK
    <3>2. CASE t = s
      <4>1. taken'[t] = taken[s] + 1
        BY <1>1, <1>3, <3>2 DEF TypeOK
      <4>2. 1 .. taken[s] + 1 = (1 .. taken[s]) \cup {taken[s] + 1}
        BY <1>4
      <4> QED BY <1>4, <1>8, <3>1, <3>2, <4>1, <4>2
    <3>3. CASE t # s
      BY <1>1, <1>3, <1>4, <1>8, <3>1, <3>3 DEF TypeOK
    <3> QED BY <3>2, <3>3
  <2>6. LossesExplained'
    BY <1>1, <1>3 DEF EachOnce, LossesExplained, Time
  <2> QED BY <1>2, <2>1, <2>2, <2>3, <2>4, <2>5, <2>6 DEF EachOnce
<1> QED BY <1>3, <1>5, <1>10 DEF AccountInv

(* The first m packets leave the list, no other. *)
LEMMA WaitingShrinks ==
  ASSUME EachOnce, NEW m \in 1 .. Len(buf), Len(buf) \in Nat, Len(buf') = Len(buf) - m,
         \A k \in 1 .. Len(buf) - m : buf'[k] = buf[m + k]
  PROVE  /\ Waiting' = Waiting \ {buf[k] : k \in 1 .. m}
         /\ {buf[k] : k \in 1 .. m} \subseteq Waiting
         /\ \A j, k \in 1 .. Len(buf') : buf'[j] = buf'[k] => j = k
<1> DEFINE n == Len(buf)
           D == {buf[k] : k \in 1 .. m}
<1>1. \A z, b \in 1 .. n : buf[z] = buf[b] => z = b
  BY DEF EachOnce
<1>2. \A k \in 1 .. n - m : m + k \in 1 .. n /\ ~(m + k <= m) /\ buf'[k] = buf[m + k]
  OBVIOUS
<1>3. ASSUME NEW j \in 1 .. n - m, NEW k \in 1 .. n - m, buf'[j] = buf'[k] PROVE j = k
  <2>1. m + j = m + k
    BY <1>1, <1>2, <1>3
  <2> QED BY <2>1
<1>4. Waiting' = {buf'[k] : k \in 1 .. n - m}
  BY DEF Waiting
<1>5. ASSUME NEW k \in 1 .. n - m PROVE buf'[k] \in Waiting /\ buf'[k] \notin D
  <2>1. \A j \in 1 .. m : j \in 1 .. n /\ j # m + k
    OBVIOUS
  <2> QED BY <1>1, <1>2, <2>1 DEF Waiting
<1>6. ASSUME NEW k \in 1 .. n, buf[k] \notin D PROVE buf[k] \in Waiting'
  <2>1. ~(k <= m)
    BY <1>6
  <2>2. k - m \in 1 .. n - m /\ m + (k - m) = k
    BY <2>1
  <2> QED BY <1>2, <1>4, <2>2
<1>7. D \subseteq Waiting
  <2>1. \A k \in 1 .. m : k \in 1 .. n
    OBVIOUS
  <2> QED BY <2>1 DEF Waiting
<1>8. Waiting' \subseteq Waiting \ D
  BY <1>4, <1>5
<1>9. Waiting \ D \subseteq Waiting'
  BY <1>6 DEF Waiting
<1> QED BY <1>3, <1>7, <1>8, <1>9

(* The end of the shortest stream is found once. *)
LEMMA EndStays == ASSUME shortEnd # NoTs PROVE EndNow = shortEnd
  BY DEF EndNow

(* What leaves the list is written or lost, not both. *)
LEMMA AccountTruncate == ASSUME AccountInv, Truncate PROVE AccountInv'
<1>1. PICK m \in 1 .. Len(buf) :
        /\ Late(m)
        /\ buf' = SubSeq(buf, m + 1, Len(buf))
        /\ last' = [t \in Streams |-> IF last[t] <= m THEN 0 ELSE last[t] - m]
        /\ lost' = lost \cup {buf[i] : i \in 1 .. m}
  BY DEF Truncate
<1>2. /\ cur' = cur /\ taken' = taken /\ forced' = forced /\ out' = out
      /\ shift' = shift /\ off' = off /\ ioError' = ioError
      /\ shortEnd' = EndNow /\ pc' = Return /\ EndNow # NoTs /\ unwritten' = unwritten
  BY DEF Truncate, writeVars, TooLate
<1>3. TypeOK /\ EachOnce /\ (shortEnd # NoTs => Shortest)
  BY DEF AccountInv
<1>4. /\ Len(buf) \in Nat /\ buf' \in Seq(Packets) /\ Len(buf') = Len(buf) - m
      /\ \A k \in 1 .. Len(buf) - m : buf'[k] = buf[m + k]
  BY <1>1, <1>3, ListShrinks
<1>5. Shortest
  BY <1>2, <1>3 DEF EndNow
<1> DEFINE D == {buf[i] : i \in 1 .. m}
<1>6. /\ Waiting' = Waiting \ D /\ D \subseteq Waiting
      /\ \A j, k \in 1 .. Len(buf') : buf'[j] = buf'[k] => j = k
  BY <1>3, <1>4, WaitingShrinks
<1>7. lost' = lost \cup D /\ D \subseteq Packets
  <2>1. \A i \in 1 .. m : i \in 1 .. Len(buf)
    BY <1>4
  <2>2. \A i \in 1 .. Len(buf) : buf[i] \in Packets
    BY <1>3, ElementOfSeq DEF TypeOK
  <2> QED BY <1>1, <2>1, <2>2
<1> HIDE DEF D
<1>8. TypeOK'
  <2>1. last' \in [Streams -> Nat]
    BY <1>1, <1>3, <1>4 DEF TypeOK
  <2>2. EndNow \in Int \cup {NoTs}
    BY <1>3, EndType
  <2> QED BY <1>2, <1>3, <1>4, <1>7, <2>1, <2>2 DEF TypeOK, Return
<1>9. Written' = Written /\ Accepted' = Accepted
  BY <1>2, <1>6, <1>7 DEF Written, Accepted
<1>10. EachOnce'
  <2>1. \A j, k \in 1 .. Len(out') : out'[j].pkt = out'[k].pkt => j = k
    BY <1>2, <1>3 DEF EachOnce
  <2>2. Written' \cap Waiting' = {} /\ Written' \cap lost' = {} /\ Waiting' \cap lost' = {}
    BY <1>3, <1>6, <1>7, <1>9 DEF EachOnce
  <2>3. LossesExplained'
    <3>1. \A i \in 1 .. m : EndNow + 1 < Time(buf[i])
      BY <1>1 DEF Late, TooLate
    <3>2. \A q \in D : EndNow + 1 < Time(q)
      BY <3>1 DEF D
    <3>3. \A q \in lost \ unwritten : EndNow + 1 < Time(q)
      BY <1>3, EndStays DEF EachOnce, LossesExplained
    <3> QED BY <1>2, <1>3, <1>7, <3>2, <3>3 DEF EachOnce, LossesExplained, Time
  <2> QED BY <1>2, <1>3, <1>5, <1>6, <1>9, <2>1, <2>2, <2>3 DEF EachOnce
<1> QED BY <1>5, <1>8, <1>10 DEF AccountInv

LEMMA AccountWrite == ASSUME AccountInv, WriteOne PROVE AccountInv'
<1> DEFINE p == buf[1]
           n == Len(buf)
<1>1. PICK fails \in BOOLEAN : WritePacket(p, fails)
  BY DEF WriteOne
<1>2. /\ buf # <<>> /\ buf' = Tail(buf) /\ last' = LastAfterPop
      /\ shortEnd' = EndNow /\ forced' = (forced \/ (pc # "trailer" /\ ~Full))
      /\ cur' = cur /\ taken' = taken
  BY DEF WriteOne, Ready
<1>3. TypeOK /\ EachOnce /\ (shortEnd # NoTs => Shortest)
  BY DEF AccountInv
<1>4. /\ n \in Nat \ {0} /\ p \in Packets /\ buf' \in Seq(Packets) /\ Len(buf') = n - 1
      /\ \A k \in 1 .. n - 1 : buf'[k] = buf[1 + k]
  BY <1>2, <1>3, ListPops
<1>5. /\ Waiting' = Waiting \ {p} /\ p \in Waiting
      /\ \A j, k \in 1 .. Len(buf') : buf'[j] = buf'[k] => j = k
  <2>1. 1 \in 1 .. n /\ {buf[k] : k \in 1 .. 1} = {p}
    BY <1>4
  <2> QED BY <1>3, <1>4, <2>1, WaitingShrinks
<1>6. p.st \in Streams /\ p.dts + OffFor(p) \in Int /\ OffFor(p) \in Int /\ ShiftFor(p) \in Int \cup {NoTs}
  BY <1>3, <1>4, OffType
<1>7. \/ /\ out' = out /\ pc' = Return
         /\ lost' = lost \cup {p} /\ unwritten' = unwritten \cup {p}
      \/ /\ out' = Append(out, [pkt |-> p, ts |-> p.dts + OffFor(p)]) /\ pc' = pc
         /\ lost' = lost /\ unwritten' = unwritten
  BY <1>1 DEF WritePacket, WrittenWith, NextIteration
<1>8. /\ last' \in [Streams -> Nat] /\ shortEnd' \in Int \cup {NoTs} /\ ioError' \in BOOLEAN
      /\ cur' \in [Streams -> Int \cup {NoTs}] /\ taken' \in [Streams -> Nat] /\ forced' \in BOOLEAN
      /\ shift' \in Int \cup {NoTs} /\ off' \in [Streams -> Int]
      /\ pc' \in {"idle", "drain", "flush", "trailer", "done"}
  <2>1. last' \in [Streams -> Nat]
    BY <1>2, <1>3 DEF LastAfterPop, TypeOK
  <2>2. shift' \in Int \cup {NoTs} /\ off' \in [Streams -> Int] /\ ioError' \in BOOLEAN
    BY <1>1, <1>3, <1>6 DEF WritePacket, TypeOK
  <2>3. shortEnd' \in Int \cup {NoTs}
    BY <1>2, <1>3, EndType
  <2> QED BY <1>2, <1>3, <1>7, <2>1, <2>2, <2>3 DEF TypeOK, Return
<1>9. shortEnd' # NoTs => Shortest
  BY <1>2, <1>3 DEF EndNow
<1> DEFINE r == [pkt |-> p, ts |-> p.dts + OffFor(p)]
<1>10. r \in [pkt : Packets, ts : Int] /\ r.pkt = p
  BY <1>4, <1>6
<1> HIDE DEF p, r
<1>11. ASSUME lost' \ unwritten' \subseteq lost \ unwritten, unwritten' \subseteq lost'
       PROVE  LossesExplained'
  BY <1>2, <1>3, <1>11, EndStays DEF EachOnce, LossesExplained, Time
<1>12. CASE out' = out /\ lost' = lost \cup {p} /\ unwritten' = unwritten \cup {p}
  <2>1. TypeOK'
    BY <1>3, <1>4, <1>8, <1>12 DEF TypeOK
  <2>2. Written' = Written /\ Accepted' = Accepted
    BY <1>5, <1>12 DEF Written, Accepted
  <2>3. Written' \cap Waiting' = {} /\ Written' \cap lost' = {} /\ Waiting' \cap lost' = {}
    BY <1>3, <1>5, <1>12, <2>2 DEF EachOnce
  <2>4. LossesExplained'
    BY <1>3, <1>12, <1>11 DEF EachOnce, LossesExplained
  <2>5. EachOnce'
    BY <1>2, <1>3, <1>5, <1>12, <2>2, <2>3, <2>4 DEF EachOnce
  <2> QED BY <1>9, <2>1, <2>5 DEF AccountInv
<1>13. CASE out' = Append(out, r) /\ lost' = lost /\ unwritten' = unwritten
  <2> DEFINE m == Len(out)
  <2>1. /\ m \in Nat /\ Len(out') = m + 1 /\ out' \in Seq([pkt : Packets, ts : Int])
        /\ \A k \in 1 .. m + 1 : out'[k] = IF k <= m THEN out[k] ELSE r
    <3>1. out \in Seq([pkt : Packets, ts : Int])
      BY <1>3 DEF TypeOK
    <3> QED BY <1>10, <1>13, <3>1, Pushed
  <2>2. TypeOK'
    BY <1>3, <1>4, <1>8, <1>13, <2>1 DEF TypeOK
  <2>3. out'[m + 1].pkt = p /\ \A k \in 1 .. m : out'[k] = out[k]
    BY <1>10, <2>1
  <2>4. Written' = Written \cup {p}
    <3>1. Written' = {out'[k].pkt : k \in 1 .. m + 1}
      BY <2>1 DEF Written
    <3>2. m + 1 \in 1 .. m + 1 /\ \A k \in 1 .. m : k \in 1 .. m + 1
      BY <2>1
    <3>3. \A k \in 1 .. m + 1 : k \in 1 .. m \/ k = m + 1
      BY <2>1
    <3>4. p \in Written' /\ Written \subseteq Written'
      BY <2>3, <3>1, <3>2 DEF Written
    <3>5. Written' \subseteq Written \cup {p}
      BY <2>3, <3>1, <3>3 DEF Written
    <3> QED BY <3>4, <3>5
  <2>5. p \notin Written
    BY <1>3, <1>5 DEF EachOnce
  <2>6. Accepted' = Accepted
    BY <1>5, <1>13, <2>4 DEF Accepted
  <2>7. ASSUME NEW j \in 1 .. m + 1, NEW k \in 1 .. m + 1, out'[j].pkt = out'[k].pkt PROVE j = k
    <3>1. \A z, b \in 1 .. m : out[z].pkt = out[b].pkt => z = b
      BY <1>3 DEF EachOnce
    <3>2. \A z \in 1 .. m : out[z].pkt # p
      BY <2>5 DEF Written
    <3>3. (j \in 1 .. m \/ j = m + 1) /\ (k \in 1 .. m \/ k = m + 1)
      BY <2>1
    <3> QED BY <2>3, <2>7, <3>1, <3>2, <3>3
  <2>8. Written' \cap Waiting' = {} /\ Written' \cap lost' = {} /\ Waiting' \cap lost' = {}
    BY <1>3, <1>5, <1>13, <2>4 DEF EachOnce
  <2>9. LossesExplained'
    BY <1>3, <1>13, <1>11 DEF EachOnce, LossesExplained
  <2>10. EachOnce'
    BY <1>2, <1>3, <1>5, <1>13, <2>1, <2>6, <2>7, <2>8, <2>9 DEF EachOnce
  <2> QED BY <1>9, <2>2, <2>10 DEF AccountInv
<1> QED BY <1>7, <1>12, <1>13 DEF r

(* Every packet is in one place, once, and is only lost when writing it      *)
(* failed or when it lies past shortest_end; whatever the caller submits.    *)
THEOREM PacketsAccounted == Spec => []EachOnce
<1>1. AccountInv /\ [Next]_muxVars => AccountInv'
  <2> SUFFICES ASSUME AccountInv, [Next]_muxVars PROVE AccountInv'
    OBVIOUS
  <2>1. CASE Offer
    BY <2>1, AccountSubmit, InterleaverAssumption DEF Offer
  <2>2. CASE Truncate
    BY <2>2, AccountTruncate
  <2>3. CASE WriteOne
    BY <2>3, AccountWrite
  <2>4. CASE Flush \/ Trailer \/ Finish \/ Ended \/ UNCHANGED muxVars
    <3>1. /\ UNCHANGED <<buf, last, cur, shortEnd, taken, lost, unwritten, forced>>
          /\ UNCHANGED <<shift, off, ioError, out>>
          /\ pc' \in {"idle", "drain", "flush", "trailer", "done"}
      BY <2>4 DEF Flush, Trailer, Finish, Ended, Return, muxVars, queueVars, writeVars, AccountInv, TypeOK
    <3>2. TypeOK'
      BY <3>1 DEF AccountInv, TypeOK
    <3>3. Written' = Written /\ Waiting' = Waiting /\ Accepted' = Accepted
      BY <3>1 DEF Written, Waiting, Accepted
    <3>4. EachOnce'
      BY <3>1, <3>3 DEF AccountInv, EachOnce, LossesExplained, Time
    <3> QED BY <3>1, <3>2, <3>4 DEF AccountInv
  <2> QED BY <2>1, <2>2, <2>3, <2>4 DEF Next, Work
<1>2. AccountInv => EachOnce
  BY DEF AccountInv
<1> QED BY <1>1, <1>2, AccountInit, PTL DEF Spec

-----------------------------------------------------------------------------
(* What a call leaves in the list. *)

(* The span of the list is the span to the newest packet of some stream. *)
LEMMA SpanBounds ==
  ASSUME IInv, ~Span, NEW i \in 1 .. Len(buf)
  PROVE  Time(buf[i]) - Time(buf[1]) <= MaxDelta
<1> DEFINE s == buf[i].st
           l == last[s]
<1>1. buf[i] \in Packets /\ s \in Streams /\ Len(buf) \in Nat /\ l \in Nat /\ Time(buf[i]) \in Int
  BY Waits, TimeType
<1>2. l # 0 /\ l \in 1 .. Len(buf) /\ i <= l
  BY <1>1 DEF IInv, LastIsLast
<1>3. ~(Time(buf[l]) - Time(buf[1]) > MaxDelta)
  BY <1>1, <1>2 DEF Span
<1>4. buf[l] \in Packets /\ Time(buf[l]) \in Int
  BY <1>2, Waits, TimeType
<1>5. Time(buf[i]) <= Time(buf[l])
  <2>1. CASE i = l
    BY <1>1, <2>1
  <2>2. CASE i # l
    <3>1. ~After(buf[i], buf[l])
      BY <1>1, <1>2, <2>2 DEF IInv, Sorted
    <3> QED BY <1>1, <1>4, <3>1, Precedes
  <2> QED BY <2>1, <2>2
<1>6. 1 \in 1 .. Len(buf)
  BY <1>1
<1>7. Time(buf[1]) \in Int
  BY <1>6, Waits, TimeType
<1> QED BY <1>1, <1>3, <1>4, <1>5, <1>7, InterleaverAssumption

LEMMA EmptyNotFull == ASSUME IInv, buf = <<>> PROVE ~Full
<1>1. Len(buf) = 0
  OBVIOUS
<1>2. PICK s \in Streams : TRUE
  BY InterleaverAssumption
<1>3. last[s] \in Nat /\ last[s] <= 0
  BY <1>1, <1>2 DEF IInv, TypeOK, LastIsLast
<1> QED BY <1>2, <1>3 DEF Full

LEMMA BoundedStep ==
  ASSUME IInv, BufferBounded, [Next]_muxVars
  PROVE  BufferBounded'
<1>1. CASE Offer \/ Flush \/ Trailer
  BY <1>1 DEF Offer, Submit, Flush, Trailer, BufferBounded
<1>2. CASE Truncate
  <2>1. PICK m \in 1 .. Len(buf) : lost' = lost \cup {buf[i] : i \in 1 .. m}
    BY <1>2 DEF Truncate
  <2>2. 1 \in 1 .. m
    BY <2>1, LenProperties DEF IInv, TypeOK
  <2>3. lost' # {}
    BY <2>1, <2>2
  <2> QED BY <2>3 DEF BufferBounded
<1>3. CASE WriteOne
  <2>1. PICK fails \in BOOLEAN : WritePacket(buf[1], fails)
    BY <1>3 DEF WriteOne
  <2>2. CASE fails
    BY <2>1, <2>2 DEF WritePacket, BufferBounded
  <2>3. CASE ~fails
    <3>1. pc' = pc /\ pc # "idle"
      BY <1>3, <2>1, <2>3 DEF WritePacket, NextIteration, WriteOne, Busy, Eof
    <3> QED BY <3>1 DEF BufferBounded
  <2> QED BY <2>2, <2>3
<1>4. CASE Finish
  <2>1. /\ UNCHANGED <<buf, last>> /\ ~Ready
    BY <1>4 DEF Finish, queueVars
  <2>2. ASSUME buf = <<>> PROVE BufferBounded'
    <3>1. buf' = <<>> /\ Len(buf') = 0 /\ ~Full'
      BY <2>1, <2>2, EmptyNotFull DEF Full
    <3> QED BY <3>1 DEF BufferBounded
  <2>3. ASSUME buf # <<>> PROVE BufferBounded'
    <3>1. ~Eof /\ ~Full /\ ~Overdue
      BY <2>1, <2>3 DEF Ready
    <3>2. (MaxDelta > 0 /\ \A s \in Sparse : last[s] # 0) => ~Span
      BY <2>3, <3>1 DEF Overdue
    <3>3. (MaxDelta > 0 /\ \A s \in Sparse : last[s] # 0) =>
             \A i \in 1 .. Len(buf) : Time(buf[i]) - Time(buf[1]) <= MaxDelta
      BY <3>2, SpanBounds
    <3> QED BY <2>1, <3>1, <3>3 DEF BufferBounded, Full, Time
  <2> QED BY <2>2, <2>3
<1>5. CASE Ended \/ UNCHANGED muxVars
  BY <1>5 DEF Ended, muxVars, queueVars, writeVars, BufferBounded, Full, Time
<1> QED BY <1>1, <1>2, <1>3, <1>4, <1>5 DEF Next, Work

(* A call of the caller returns with no packet of every stream in the list,  *)
(* and with no more time in it than max_interleave_delta, unless the output  *)
(* failed or packets were dropped.                                           *)
THEOREM ListStaysShort == ObeyAtZero => (Spec => []BufferBounded)
<1> SUFFICES ASSUME ObeyAtZero PROVE Spec => []BufferBounded
  OBVIOUS
<1>1. Init => BufferBounded
  <2> SUFFICES ASSUME Init PROVE BufferBounded
    OBVIOUS
  <2>1. IInv /\ buf = <<>> /\ Len(buf) = 0
    BY InitInv DEF Init
  <2> QED BY <2>1, EmptyNotFull DEF BufferBounded
<1>2. Spec => []IInv
  BY Invariance
<1> QED BY <1>1, <1>2, BoundedStep, PTL DEF Spec

-----------------------------------------------------------------------------
(* No negative time stamps. *)

(* Rounding up: a packet not before the offset's origin is not negative.     *)
LEMMA RoundedUp ==
  ASSUME NEW m \in Int, NEW k \in Nat \ {0}, NEW d \in Int, -m <= d * k
  PROVE  CeilDiv(m, k) \in Int /\ 0 <= d + CeilDiv(m, k)
<1> DEFINE q == (-m) \div k
<1>1. q \in Int /\ k * q <= -m /\ -m < k * (q + 1)
  OBVIOUS
<1>2. CeilDiv(m, k) = -q
  BY DEF CeilDiv
<1> HIDE DEF q
<1>3. q <= d
  <2> SUFFICES ASSUME d + 1 <= q PROVE FALSE
    BY <1>1
  <2>1. (d + 1) * k <= q * k
    BY <1>1, Scale
  <2>2. d * k + k <= k * q
    BY <1>1, <2>1
  <2>3. d * k \in Int /\ k * q \in Int
    BY <1>1
  <2> QED BY <1>1, <2>2, <2>3
<1> QED BY <1>1, <1>2, <1>3

(* The offset of a packet's stream, after the packet was written. *)
LEMMA OffsetRule ==
  ASSUME IInv, ShiftKnown, NEW p \in Packets
  PROVE  /\ ShiftFor(p) = NoTs => /\ shift = NoTs /\ OffFor(p) = 0
                                  /\ AvoidNeg > 0 => p.dts >= 0
         /\ ShiftFor(p) # NoTs =>
              /\ ShiftFor(p) \in Int
              /\ IF shift = NoTs THEN AvoidNeg > 0 /\ ShiftFor(p) = -Time(p) ELSE ShiftFor(p) = shift
              /\ AvoidNeg > 0 => OffFor(p) = CeilDiv(ShiftFor(p), Tick[p.st])
<1>1. p.st \in Streams /\ p.dts \in Int /\ Time(p) \in Int /\ ShiftFor(p) \in Int \cup {NoTs}
  BY OffType DEF IInv
<1>2. NoTs \notin Int /\ AvoidNeg \in 0 .. 2 /\ -Time(p) \in Int
  BY <1>1, InterleaverAssumption
<1>3. ASSUME ShiftFor(p) = NoTs
      PROVE  shift = NoTs /\ OffFor(p) = 0 /\ (AvoidNeg > 0 => p.dts >= 0)
  <2>1. shift = NoTs /\ (AvoidNeg > 0 => p.dts >= 0)
    BY <1>1, <1>2, <1>3 DEF ShiftFor
  <2> QED BY <1>1, <1>3, <2>1 DEF OffFor, ShiftKnown
<1>4. ASSUME ShiftFor(p) # NoTs
      PROVE  /\ IF shift = NoTs THEN AvoidNeg > 0 /\ ShiftFor(p) = -Time(p) ELSE ShiftFor(p) = shift
             /\ AvoidNeg > 0 => OffFor(p) = CeilDiv(ShiftFor(p), Tick[p.st])
  <2>1. IF shift = NoTs THEN AvoidNeg > 0 /\ ShiftFor(p) = -Time(p) ELSE ShiftFor(p) = shift
    BY <1>4 DEF ShiftFor
  <2>2. AvoidNeg > 0 => \/ off[p.st] = 0
                        \/ shift # NoTs /\ off[p.st] = CeilDiv(shift, Tick[p.st])
    BY <1>1 DEF ShiftKnown
  <2> QED BY <1>4, <2>1, <2>2 DEF OffFor
<1> QED BY <1>1, <1>3, <1>4

LEMMA ShiftWrite ==
  ASSUME IInv, ShiftKnown, NonNegative, WriteOne
  PROVE  ShiftKnown' /\ NonNegative'
<1> DEFINE p == buf[1]
           n == Len(buf)
           o == OffFor(p)
           h == ShiftFor(p)
<1>1. PICK fails \in BOOLEAN : WritePacket(p, fails)
  BY DEF WriteOne
<1>2. /\ buf # <<>> /\ buf' = Tail(buf) /\ pc \in {"drain", "flush", "trailer"}
      /\ forced' = (forced \/ (pc # "trailer" /\ ~Full)) /\ cur' = cur
      /\ shift' = h /\ off' = [off EXCEPT ![p.st] = o]
  BY <1>1 DEF WriteOne, Ready, Busy, Eof, WritePacket
<1>3. /\ n \in Nat \ {0} /\ p \in Packets /\ Len(buf') = n - 1
      /\ \A k \in 1 .. n - 1 : buf'[k] = buf[1 + k]
  BY <1>2, ListPops DEF IInv
<1>4. /\ p.st \in Streams /\ p.dts \in Int /\ Time(p) \in Int /\ o \in Int
      /\ Time(p) = p.dts * Tick[p.st] /\ Tick[p.st] \in Nat \ {0}
      /\ off \in [Streams -> Int]
  BY <1>3, OffType, InterleaverAssumption DEF IInv, TypeOK, Time
<1>5. /\ h = NoTs => shift = NoTs /\ o = 0 /\ (AvoidNeg > 0 => p.dts >= 0)
      /\ h # NoTs => /\ h \in Int
                     /\ IF shift = NoTs THEN AvoidNeg > 0 /\ h = -Time(p) ELSE h = shift
                     /\ AvoidNeg > 0 => o = CeilDiv(h, Tick[p.st])
  BY <1>3, OffsetRule
<1>6. \/ out' = out /\ pc' = Return
      \/ out' = Append(out, [pkt |-> p, ts |-> p.dts + o]) /\ pc' = pc
  BY <1>1 DEF WritePacket, WrittenWith, NextIteration
<1>7. pc' \notin {"trailer", "done"} => pc # "trailer"
  BY <1>6 DEF Return
<1>8. \A k \in 1 .. n : Time(buf[k]) \in Int /\ Time(p) <= Time(buf[k])
  BY HeadLeast
<1>9. (shift # NoTs /\ ~forced) =>
        /\ \A i \in 1 .. n : -shift <= Time(buf[i])
        /\ pc \notin {"trailer", "done"} => \A s \in Streams :
             cur[s] # NoTs /\ -shift <= cur[s] * Tick[s]
  BY DEF ShiftKnown
<1>10. pc' \notin {"trailer", "done"} /\ ~forced' => Full
  BY <1>2, <1>7
<1>11. ASSUME Full, NEW t \in Streams PROVE cur[t] # NoTs /\ Time(p) <= cur[t] * Tick[t]
  BY <1>11, HeadBeforeAll
<1> HIDE DEF p, o, h
<1>12. ShiftKnown'
  <2>1. shift' = NoTs => \A s \in Streams : off'[s] = 0
    BY <1>2, <1>4, <1>5 DEF ShiftKnown
  <2>2. ASSUME AvoidNeg > 0, shift' # NoTs, NEW s \in Streams
        PROVE  off'[s] \in {0, CeilDiv(shift', Tick[s])}
    <3>1. CASE s = p.st
      BY <1>2, <1>4, <1>5, <2>2, <3>1
    <3>2. CASE s # p.st
      BY <1>2, <1>4, <1>5, <2>2, <3>2 DEF ShiftKnown
    <3> QED BY <3>1, <3>2
  <2>3. ASSUME shift' # NoTs, ~forced'
        PROVE  /\ \A i \in 1 .. n - 1 : -shift' <= Time(buf'[i])
               /\ pc' \notin {"trailer", "done"} => \A s \in Streams :
                    cur[s] # NoTs /\ -shift' <= cur[s] * Tick[s]
    <3>1. \A i \in 1 .. n - 1 : 1 + i \in 1 .. n
      BY <1>3
    <3>2. CASE shift = NoTs
      <4>1. -shift' = Time(p)
        BY <1>2, <1>4, <1>5, <2>3, <3>2
      <4> QED BY <1>3, <1>8, <1>10, <1>11, <2>3, <3>1, <4>1
    <3>3. CASE shift # NoTs
      <4>1. shift' = shift /\ ~forced
        BY <1>2, <1>5, <2>3, <3>3 DEF IInv, TypeOK
      <4>2. pc' \notin {"trailer", "done"} => pc \notin {"trailer", "done"}
        BY <1>2, <1>7
      <4> QED BY <1>3, <1>9, <3>1, <3>3, <4>1, <4>2
    <3> QED BY <3>2, <3>3
  <2> QED BY <1>2, <1>3, <2>1, <2>2, <2>3 DEF ShiftKnown, Time
<1>13. ASSUME AvoidNeg > 0, ~forced PROVE 0 <= p.dts + o
  <2>1. CASE h = NoTs
    BY <1>4, <1>5, <1>13, <2>1
  <2>2. CASE h # NoTs
    <3>1. -h <= Time(p)
      <4>1. CASE shift = NoTs
        BY <1>4, <1>5, <2>2, <4>1
      <4>2. CASE shift # NoTs
        <5>1. 1 \in 1 .. n
          BY <1>3
        <5> QED BY <1>5, <1>9, <1>13, <2>2, <4>2, <5>1 DEF p
      <4> QED BY <4>1, <4>2
    <3> QED BY <1>4, <1>5, <1>13, <2>2, <3>1, RoundedUp
  <2> QED BY <2>1, <2>2
<1>14. NonNegative'
  <2> SUFFICES ASSUME AvoidNeg > 0, ~forced' PROVE \A i \in 1 .. Len(out') : out'[i].ts >= 0
    BY DEF NonNegative
  <2>1. ~forced /\ \A i \in 1 .. Len(out) : out[i].ts >= 0
    BY <1>2 DEF NonNegative, IInv, TypeOK
  <2>2. CASE out' = out
    BY <2>1, <2>2
  <2>3. CASE out' # out
    <3> DEFINE r == [pkt |-> p, ts |-> p.dts + o]
    <3>1. r \in [pkt : Packets, ts : Int] /\ r.ts = p.dts + o
      BY <1>3, <1>4
    <3> HIDE DEF r
    <3>2. out' = Append(out, r)
      BY <1>6, <2>3 DEF r
    <3>3. /\ Len(out) \in Nat /\ Len(out') = Len(out) + 1
          /\ \A k \in 1 .. Len(out) + 1 : out'[k] = IF k <= Len(out) THEN out[k] ELSE r
      <4>1. out \in Seq([pkt : Packets, ts : Int])
        BY DEF IInv, TypeOK
      <4> QED BY <3>1, <3>2, <4>1, Pushed
    <3>4. r.ts >= 0
      BY <1>4, <1>13, <2>1, <3>1
    <3> QED BY <2>1, <3>3, <3>4
  <2> QED BY <2>2, <2>3
<1> QED BY <1>12, <1>14

LEMMA ShiftSubmit ==
  ASSUME IInv, ShiftKnown, NonNegative,
         NEW s \in Streams, NEW d \in Int, cur[s] = 0 => Follows(s, d), Submit(s, d)
  PROVE  ShiftKnown' /\ NonNegative'
<1> DEFINE p == [st |-> s, dts |-> d, no |-> taken[s] + 1]
           n == Len(buf)
<1>1. PICK i \in 1 .. n + 1 :
        /\ n \in Nat /\ buf' \in Seq(Packets) /\ Len(buf') = n + 1
        /\ \A k \in 1 .. n + 1 : buf'[k] = IF k < i THEN buf[k] ELSE IF k = i THEN p ELSE buf[k - 1]
  BY ListGrows DEF IInv
<1>2. /\ cur' = [cur EXCEPT ![s] = d] /\ pc' = "drain" /\ pc = "idle"
      /\ UNCHANGED <<out, forced, shift, off>>
  BY DEF Submit, writeVars
<1>3. d \in Int /\ p.st = s /\ Time(p) = d * Tick[s] /\ Tick[s] \in Nat
  BY InterleaverAssumption DEF Time
<1> HIDE DEF p
<1>4. NonNegative'
  BY <1>2 DEF NonNegative
<1>5. ASSUME shift # NoTs, ~forced
      PROVE  /\ \A k \in 1 .. n + 1 : -shift <= Time(buf'[k])
             /\ \A t \in Streams : cur'[t] # NoTs /\ -shift <= cur'[t] * Tick[t]
  <2>1. /\ \A k \in 1 .. n : -shift <= Time(buf[k])
        /\ \A t \in Streams : cur[t] # NoTs /\ -shift <= cur[t] * Tick[t]
        /\ shift \in Int
    BY <1>2, <1>5 DEF ShiftKnown, IInv, TypeOK
  <2>2. -shift <= d * Tick[s]
    <3>1. cur[s] \in Int /\ cur[s] <= d
      BY <1>3, <2>1, Increasing DEF Submit
    <3>2. cur[s] * Tick[s] \in Int /\ d * Tick[s] \in Int /\ cur[s] * Tick[s] <= d * Tick[s]
      BY <1>3, <3>1, Scale
    <3> QED BY <2>1, <3>2
  <2>3. ASSUME NEW k \in 1 .. n + 1 PROVE -shift <= Time(buf'[k])
    <3>1. CASE k < i
      BY <1>1, <2>1, <3>1
    <3>2. CASE k = i
      BY <1>1, <1>3, <2>2, <3>2
    <3>3. CASE k > i
      <4>1. k - 1 \in 1 .. n /\ ~(k < i) /\ k # i
        BY <1>1, <3>3
      <4>2. buf'[k] = buf[k - 1]
        BY <1>1, <4>1
      <4> QED BY <2>1, <4>1, <4>2
    <3> QED BY <1>1, <3>1, <3>2, <3>3
  <2>4. ASSUME NEW t \in Streams PROVE cur'[t] # NoTs /\ -shift <= cur'[t] * Tick[t]
    BY <1>2, <1>3, <2>1, <2>2, InterleaverAssumption DEF IInv, TypeOK
  <2> QED BY <2>3, <2>4
<1>6. ShiftKnown'
  BY <1>1, <1>2, <1>5 DEF ShiftKnown, Time
<1> QED BY <1>4, <1>6

(* The other steps only take packets away. *)
LEMMA ShiftOther ==
  ASSUME IInv, ShiftKnown, NonNegative, Truncate \/ Flush \/ Trailer \/ Finish \/ Ended \/ UNCHANGED muxVars
  PROVE  ShiftKnown' /\ NonNegative'
<1>1. /\ UNCHANGED <<cur, out, forced, shift, off>>
      /\ pc' \notin {"trailer", "done"} => pc \notin {"trailer", "done"}
  BY DEF Truncate, Flush, Trailer, Finish, Ended, Return, Busy, Eof, muxVars, queueVars, writeVars
<1>2. \A k \in 1 .. Len(buf') : \E i \in 1 .. Len(buf) : buf'[k] = buf[i]
  <2>1. CASE Truncate
    <3>1. PICK m \in 1 .. Len(buf) : buf' = SubSeq(buf, m + 1, Len(buf))
      BY <2>1 DEF Truncate
    <3>2. /\ Len(buf) \in Nat /\ Len(buf') = Len(buf) - m
          /\ \A k \in 1 .. Len(buf) - m : buf'[k] = buf[m + k]
      BY <3>1, ListShrinks DEF IInv
    <3>3. \A k \in 1 .. Len(buf) - m : m + k \in 1 .. Len(buf)
      BY <3>2
    <3> QED BY <3>2, <3>3
  <2>2. CASE ~Truncate
    BY <2>2 DEF Flush, Trailer, Finish, Ended, muxVars, queueVars
  <2> QED BY <2>1, <2>2
<1>3. NonNegative'
  BY <1>1 DEF NonNegative
<1>4. ShiftKnown'
  BY <1>1, <1>2 DEF ShiftKnown, Time
<1> QED BY <1>3, <1>4

(* No time stamp is written negative when the caller asks for that, whatever *)
(* the time bases, as long as every packet waited for the other streams.     *)
THEOREM TimesNonNegative == ObeyAtZero => (Spec => []NonNegative)
<1> SUFFICES ASSUME ObeyAtZero PROVE Spec => []NonNegative
  OBVIOUS
<1>1. Init => ShiftInv
  <2> SUFFICES ASSUME Init PROVE ShiftInv
    OBVIOUS
  <2>1. shift = NoTs /\ Len(out) = 0 /\ \A s \in Streams : off[s] = 0
    BY DEF Init
  <2>2. ShiftKnown /\ NonNegative
    BY <2>1 DEF ShiftKnown, NonNegative
  <2> QED BY <2>2, InitInv DEF ShiftInv
<1>2. ShiftInv /\ IInv' /\ [Next]_muxVars => ShiftInv'
  <2> SUFFICES ASSUME ShiftInv, IInv', [Next]_muxVars PROVE ShiftInv'
    OBVIOUS
  <2> USE DEF ShiftInv
  <2>1. CASE Offer
    BY <2>1, OffersObey, ShiftSubmit
  <2>2. CASE WriteOne
    BY <2>2, ShiftWrite
  <2>3. CASE ~(Offer \/ WriteOne)
    BY <2>3, ShiftOther DEF Next, Work
  <2> QED BY <2>1, <2>2, <2>3
<1>3. ShiftInv => NonNegative
  BY DEF ShiftInv
<1>4. Spec => []IInv
  BY Invariance
<1> QED BY <1>1, <1>2, <1>3, <1>4, PTL DEF Spec

-----------------------------------------------------------------------------
(* One queue per stream. *)

(* How the packets of a stream are picked out of a list: one by one. *)
Mine(b, s) == {p \in {b[k] : k \in 1 .. Len(b)} : p.st = s}
IsPart(f, b, s) ==
  /\ f \in [0 .. Len(b) -> Seq(Mine(b, s))]
  /\ OfStream(b, s) = f[Len(b)] /\ f[0] = <<>>
  /\ \A i \in 1 .. Len(b) :
       f[i] = IF b[i].st = s THEN Append(f[i - 1], b[i]) ELSE f[i - 1]

LEMMA PartRule ==
  ASSUME NEW b \in Seq(Packets), NEW s \in Streams
  PROVE  \E f : IsPart(f, b, s)
<1> DEFINE n == Len(b)
           g == [i \in 1 .. n |-> [x \in Seq(Mine(b, s)) |-> IF b[i].st = s THEN Append(x, b[i]) ELSE x]]
           F(f) == [i \in 0 .. n |-> IF i = 0 THEN <<>>
                                    ELSE IF b[i].st = s THEN Append(f[i - 1], b[i]) ELSE f[i - 1]]
<1>1. n \in Nat /\ <<>> \in Seq(Mine(b, s))
  BY LenProperties
<1>2. g \in [1 .. n -> [Seq(Mine(b, s)) -> Seq(Mine(b, s))]]
  <2>1. ASSUME NEW i \in 1 .. n, NEW x \in Seq(Mine(b, s))
        PROVE  (IF b[i].st = s THEN Append(x, b[i]) ELSE x) \in Seq(Mine(b, s))
    <3>1. b[i].st = s => b[i] \in Mine(b, s)
      BY DEF Mine
    <3> QED BY <3>1, Pushed
  <2> QED BY <2>1
<1>3. PICK f \in [0 .. n -> Seq(Mine(b, s))] : f[0] = <<>> /\ \A i \in 1 .. n : f[i] = g[i][f[i - 1]]
  <2> DEFINE A == Seq(Mine(b, s))
             z == <<>>
  <2>1. n \in Nat /\ z \in A /\ g \in Rules(A, n)
    BY <1>1, <1>2 DEF Rules
  <2> HIDE DEF g, n, A, z
  <2>2. \E f \in [0 .. n -> A] : f[0] = z /\ \A i \in 1 .. n : f[i] = g[i][f[i - 1]]
    BY <2>1, Recursion, SMTT(30)
  <2> QED BY <2>2 DEF A, z
<1>4. ASSUME NEW i \in 1 .. n
      PROVE  f[i] = IF b[i].st = s THEN Append(f[i - 1], b[i]) ELSE f[i - 1]
  <2> HIDE DEF g
  <2>1. i - 1 \in 0 .. n
    BY <1>1
  <2>2. f[i - 1] \in Seq(Mine(b, s))
    BY <1>3, <2>1
  <2>3. f[i] = g[i][f[i - 1]]
    BY <1>3
  <2>4. g[i] = [x \in Seq(Mine(b, s)) |-> IF b[i].st = s THEN Append(x, b[i]) ELSE x]
    BY DEF g
  <2> QED BY <2>2, <2>3, <2>4
<1> HIDE DEF g
<1>5. f = F(f)
  <2>1. f = [i \in 0 .. n |-> f[i]]
    OBVIOUS
  <2>2. ASSUME NEW i \in 0 .. n
        PROVE  f[i] = IF i = 0 THEN <<>>
                      ELSE IF b[i].st = s THEN Append(f[i - 1], b[i]) ELSE f[i - 1]
    <3>1. i = 0 \/ (i # 0 /\ i \in 1 .. n)
      BY <1>1
    <3> QED BY <1>3, <1>4, <3>1
  <2> QED BY <2>1, <2>2
<1> DEFINE h == CHOOSE e : e = F(e)
           P == {i \in Nat : i <= n => h[i] = f[i]}
<1>6. h = F(h)
  BY <1>5
<1>7. OfStream(b, s) = h[n]
  BY DEF OfStream
<1> HIDE DEF h
<1>8. 0 \in P /\ \A i \in Nat : i \in P => i + 1 \in P
  <2>1. h[0] = <<>>
    BY <1>1, <1>6
  <2>2. ASSUME NEW i \in Nat, i \in P, i + 1 <= n PROVE h[i + 1] = f[i + 1]
    <3>1. i + 1 \in 1 .. n /\ i + 1 \in 0 .. n /\ i + 1 # 0 /\ (i + 1) - 1 = i /\ i <= n
      BY <1>1, <2>2
    <3>2. h[i + 1] = IF b[i + 1].st = s THEN Append(h[i], b[i + 1]) ELSE h[i]
      BY <1>6, <3>1
    <3> QED BY <1>4, <2>2, <3>1, <3>2
  <2> QED BY <1>1, <1>3, <2>1, <2>2
<1>9. h[n] = f[n]
  <2> HIDE DEF P
  <2>1. n \in P
    BY <1>1, <1>8, Induct
  <2> QED BY <1>1, <2>1 DEF P
<1> QED BY <1>3, <1>4, <1>7, <1>9 DEF IsPart

(* A packet put into the list behind all others of its stream.               *)
LEMMA QueueInserted ==
  ASSUME NEW b \in Seq(Packets), NEW c \in Seq(Packets), NEW p \in Packets,
         NEW i \in 1 .. Len(b) + 1, Len(c) = Len(b) + 1,
         \A k \in 1 .. Len(b) + 1 : c[k] = IF k < i THEN b[k] ELSE IF k = i THEN p ELSE b[k - 1],
         \A k \in i .. Len(b) : b[k].st # p.st,
         NEW s \in Streams
  PROVE  OfStream(c, s) = IF s = p.st THEN Append(OfStream(b, s), p) ELSE OfStream(b, s)
<1> DEFINE n == Len(b)
           With(x) == IF s = p.st THEN Append(x, p) ELSE x
<1>1. n \in Nat
  BY LenProperties
<1>2. PICK f : IsPart(f, b, s)
  BY PartRule
<1>3. PICK h : IsPart(h, c, s)
  BY PartRule
<1> USE DEF IsPart
<1> DEFINE P == {j \in Nat : j < i => h[j] = f[j]}
           Q == {j \in Nat : i + j <= n + 1 => h[i + j] = With(f[(i + j) - 1])}
<1>4. 0 \in P /\ \A j \in Nat : j \in P => j + 1 \in P
  <2>1. ASSUME NEW j \in Nat, h[j] = f[j], j + 1 < i PROVE h[j + 1] = f[j + 1]
    <3>1. j + 1 \in 1 .. n + 1 /\ j + 1 \in 1 .. n /\ (j + 1) - 1 = j
      BY <1>1, <2>1
    <3>2. c[j + 1] = b[j + 1]
      BY <2>1, <3>1
    <3> QED BY <1>2, <1>3, <2>1, <3>1, <3>2
  <2> QED BY <1>2, <1>3, <2>1
<1>5. \A j \in 0 .. i - 1 : h[j] = f[j]
  <2> HIDE DEF P
  <2>1. Nat \subseteq P
    BY <1>4, Induct
  <2> QED BY <2>1 DEF P
<1>6. 0 \in Q
  <2>1. i \in 1 .. n + 1 /\ c[i] = p /\ i - 1 \in 0 .. i - 1 /\ i + 0 = i
    BY <1>1
  <2>2. h[i] = IF p.st = s THEN Append(h[i - 1], p) ELSE h[i - 1]
    BY <1>3, <2>1
  <2> QED BY <1>5, <2>1, <2>2
<1>7. ASSUME NEW j \in Nat, j \in Q, i + (j + 1) <= n + 1
      PROVE  h[i + (j + 1)] = With(f[(i + (j + 1)) - 1])
  <2> DEFINE m == i + j
  <2>1. m \in 1 .. n /\ m + 1 \in 1 .. n + 1 /\ ~(m + 1 < i) /\ m + 1 # i /\ m \in i .. n
        /\ i + (j + 1) = m + 1 /\ (m + 1) - 1 = m /\ m <= n + 1
    BY <1>1, <1>7
  <2>2. c[m + 1] = b[m] /\ b[m].st # p.st
    BY <2>1
  <2>3. h[m] = With(f[m - 1])
    BY <1>7, <2>1
  <2> HIDE DEF m
  <2>4. /\ f[m] = IF b[m].st = s THEN Append(f[m - 1], b[m]) ELSE f[m - 1]
        /\ h[m + 1] = IF b[m].st = s THEN Append(h[m], b[m]) ELSE h[m]
    BY <1>2, <1>3, <2>1, <2>2, ZenonT(40)
  <2>5. h[m + 1] = With(f[m])
    BY <2>2, <2>3, <2>4
  <2> QED BY <2>1, <2>5
<1>8. n + 1 - i \in Q
  <2> HIDE DEF Q
  <2>1. \A j \in Nat : j \in Q => j + 1 \in Q
    BY <1>7 DEF Q
  <2>2. n + 1 - i \in Nat
    BY <1>1
  <2> QED BY <1>6, <2>1, <2>2, Induct
<1>9. h[n + 1] = With(f[n])
  <2>1. i + (n + 1 - i) = n + 1 /\ (n + 1) - 1 = n
    BY <1>1
  <2> QED BY <1>8, <2>1
<1> QED BY <1>2, <1>3, <1>9

(* The head of the list taken off. *)
LEMMA QueueTail ==
  ASSUME NEW b \in Seq(Packets), NEW c \in Seq(Packets), Len(b) \in Nat \ {0},
         Len(c) = Len(b) - 1, \A k \in 1 .. Len(b) - 1 : c[k] = b[1 + k],
         NEW s \in Streams
  PROVE  /\ b[1].st # s => OfStream(c, s) = OfStream(b, s)
         /\ b[1].st = s => /\ OfStream(b, s) # <<>> /\ Head(OfStream(b, s)) = b[1]
                           /\ OfStream(c, s) = Tail(OfStream(b, s))
<1> DEFINE n == Len(b)
           With(x) == IF b[1].st = s THEN <<b[1]>> \o x ELSE x
<1>1. PICK f : IsPart(f, b, s)
  BY PartRule
<1>2. PICK h : IsPart(h, c, s)
  BY PartRule
<1> USE DEF IsPart
<1>3. Mine(c, s) \subseteq Packets
  <2>1. \A k \in 1 .. Len(c) : c[k] \in Packets
    BY ElementOfSeq
  <2> QED BY <2>1 DEF Mine
<1>4. ASSUME NEW k \in 0 .. n - 1 PROVE h[k] \in Seq(Packets)
  <2>1. h[k] \in Seq(Mine(c, s))
    BY <1>2
  <2> QED BY <1>3, <2>1, SeqMonotonic
<1>5. b[1] \in Packets /\ \A k \in 1 .. n : b[k] \in Packets
  BY ElementOfSeq
<1> DEFINE P == {j \in Nat : j <= n - 1 => f[j + 1] = With(h[j])}
<1>6. 0 \in P
  <2>1. 1 \in 1 .. n /\ 1 - 1 = 0 /\ 0 + 1 = 1 /\ <<>> \in Seq(Packets)
    BY EmptySeq
  <2>2. f[1] = IF b[1].st = s THEN Append(<<>>, b[1]) ELSE <<>>
    BY <1>1, <2>1
  <2>3. Append(<<>>, b[1]) = <<b[1]>> \o <<>>
    BY <1>5, <2>1, Prefixed
  <2> QED BY <1>2, <2>1, <2>2, <2>3
<1>7. ASSUME NEW j \in Nat, j \in P, j + 1 <= n - 1 PROVE f[(j + 1) + 1] = With(h[j + 1])
  <2> DEFINE m == j + 1
  <2>1. m \in 1 .. n - 1 /\ m + 1 \in 1 .. n /\ 1 + m = m + 1 /\ m - 1 = j /\ (m + 1) - 1 = m
        /\ j \in 0 .. n - 1 /\ j <= n - 1
    BY <1>7
  <2>2. f[m] = With(h[j])
    BY <1>7, <2>1
  <2> HIDE DEF m
  <2>3. c[m] = b[m + 1] /\ b[m + 1] \in Packets
    BY <1>5, <2>1
  <2>4. /\ h[m] = IF b[m + 1].st = s THEN Append(h[j], b[m + 1]) ELSE h[j]
        /\ f[m + 1] = IF b[m + 1].st = s THEN Append(f[m], b[m + 1]) ELSE f[m]
    BY <1>1, <1>2, <2>1, <2>3
  <2>5. Append(<<b[1]>> \o h[j], b[m + 1]) = <<b[1]>> \o Append(h[j], b[m + 1])
    <3> DEFINE x == b[1]
               y == h[j]
               z == b[m + 1]
    <3>1. x \in Packets /\ y \in Seq(Packets) /\ z \in Packets
      BY <1>4, <1>5, <2>1, <2>3
    <3> HIDE DEF x, y, z
    <3>2. Append(<<x>> \o y, z) = <<x>> \o Append(y, z)
      BY <3>1, PrefixedAppend
    <3> QED BY <3>2 DEF x, y, z
  <2>6. f[m + 1] = With(h[m])
    BY <2>2, <2>4, <2>5
  <2> QED BY <2>6 DEF m
<1>8. n - 1 \in P
  <2>1. \A j \in Nat : j \in P => j + 1 \in P
    BY <1>7
  <2>2. n - 1 \in Nat
    OBVIOUS
  <2> HIDE DEF P
  <2> QED BY <1>6, <2>1, <2>2, Induct
<1>9. f[n] = With(h[n - 1])
  BY <1>8
<1>10. h[n - 1] \in Seq(Packets)
  BY <1>4
<1> DEFINE w == <<b[1]>> \o h[n - 1]
<1>11. w # <<>> /\ Head(w) = b[1] /\ Tail(w) = h[n - 1]
  BY <1>5, <1>10, Prefixed
<1> QED BY <1>1, <1>2, <1>9, <1>11

(* A stream's queue holds packets of the list, and has one iff the list has. *)
LEMMA QueueHolds ==
  ASSUME NEW b \in Seq(Packets), NEW s \in Streams
  PROVE  /\ OfStream(b, s) \in Seq(Packets)
         /\ OfStream(b, s) # <<>> <=> \E k \in 1 .. Len(b) : b[k].st = s
         /\ OfStream(b, s) # <<>> => \E k \in 1 .. Len(b) : Head(OfStream(b, s)) = b[k]
<1> DEFINE n == Len(b)
<1>1. n \in Nat
  BY LenProperties
<1>2. PICK f : IsPart(f, b, s)
  BY PartRule
<1> USE DEF IsPart
<1>3. Mine(b, s) \subseteq Packets
  <2>1. \A k \in 1 .. n : b[k] \in Packets
    BY ElementOfSeq
  <2> QED BY <2>1 DEF Mine
<1>4. \A q \in Mine(b, s) : \E k \in 1 .. n : q = b[k] /\ b[k].st = s
  BY DEF Mine
<1>5. \A k \in 1 .. n : b[k].st = s => b[k] \in Mine(b, s)
  BY DEF Mine
<1>6. f[n] \in Seq(Mine(b, s)) /\ f[n] \in Seq(Packets)
  <2>1. f[n] \in Seq(Mine(b, s))
    BY <1>1, <1>2
  <2> QED BY <1>3, <2>1, SeqMonotonic
<1>7. f[n] # <<>> => Head(f[n]) \in Mine(b, s)
  BY <1>6, Shifted
<1> DEFINE P == {j \in Nat : j <= n => \A k \in 1 .. j : b[k].st = s => f[j] # <<>>}
<1>8. 0 \in P /\ \A j \in Nat : j \in P => j + 1 \in P
  <2>0. 0 \in P
    OBVIOUS
  <2>1. ASSUME NEW j \in Nat, j \in P, j + 1 <= n, NEW k \in 1 .. j + 1, b[k].st = s
        PROVE  f[j + 1] # <<>>
    <3>1. j + 1 \in 1 .. n /\ (j + 1) - 1 = j /\ j <= n /\ j \in 0 .. n
      BY <1>1, <2>1
    <3>2. f[j + 1] = IF b[j + 1].st = s THEN Append(f[j], b[j + 1]) ELSE f[j]
      BY <1>2, <3>1
    <3>3. CASE b[j + 1].st = s
      <4>1. b[j + 1] \in Mine(b, s) /\ f[j] \in Seq(Mine(b, s))
        BY <1>2, <1>5, <3>1, <3>3
      <4>2. Len(Append(f[j], b[j + 1])) = Len(f[j]) + 1 /\ Len(f[j]) \in Nat
        BY <4>1, Pushed
      <4>3. Len(Append(f[j], b[j + 1])) # Len(<<>>)
        BY <4>2, EmptySeq
      <4>4. f[j + 1] = Append(f[j], b[j + 1])
        BY <3>2, <3>3
      <4> QED BY <4>3, <4>4
    <3>4. CASE b[j + 1].st # s
      <4>1. k \in 1 .. j
        BY <2>1, <3>4
      <4> QED BY <2>1, <3>1, <3>2, <3>4, <4>1
    <3> QED BY <3>3, <3>4
  <2>2. ASSUME NEW j \in Nat, j \in P PROVE j + 1 \in P
    <3>1. j + 1 <= n => \A k \in 1 .. j + 1 : b[k].st = s => f[j + 1] # <<>>
      BY <2>1, <2>2
    <3> QED BY <3>1
  <2> QED BY <2>0, <2>2
<1>9. n \in P
  <2> HIDE DEF P
  <2> QED BY <1>1, <1>8, Induct
<1>10. (\E k \in 1 .. n : b[k].st = s) => f[n] # <<>>
  BY <1>1, <1>9
<1> QED BY <1>2, <1>4, <1>6, <1>7, <1>10

(* The next state of the queues.                                             *)
LEMMA QueuesNext ==
  /\ \A s \in Streams : Queue(s)' = OfStream(buf', s)
  /\ buf' = buf => \A s \in Streams : Queue(s)' = Queue(s)
BY DEF Queue

(* A packet that is accepted goes to the end of its stream's queue. *)
LEMMA MergePut ==
  ASSUME IInv, NEW s \in Streams, NEW d \in Int,
         cur[s] = 0 => Follows(s, d), Submit(s, d)
  PROVE  Merge!Put(s)
<1> DEFINE p == [st |-> s, dts |-> d, no |-> taken[s] + 1]
           q == [t \in Streams |-> Queue(t)]
<1>1. p \in Packets /\ p.st = s /\ p.dts = d /\ d \in Int
  BY InterleaverAssumption DEF IInv, TypeOK, Packets
<1>2. PICK i \in 1 .. Len(buf) + 1 : IsPlace(i, p) /\ buf' = InsertAt(buf, i, p)
  BY DEF Submit, AddPacket
<1>3. \A k \in 1 .. Len(buf) : buf[k].st = p.st => buf[k].dts <= p.dts
  BY <1>1, Increasing DEF Submit
<1> HIDE DEF p
<1>4. last[s] < i
  BY <1>1, <1>2, <1>3, Place
<1>5. \A k \in i .. Len(buf) : buf[k].st # p.st
  <2>1. last[s] \in Nat /\ Len(buf) \in Nat
    BY LenProperties DEF IInv, TypeOK
  <2>2. \A k \in i .. Len(buf) : k \in last[s] + 1 .. Len(buf)
    BY <1>4, <2>1
  <2> QED BY <1>1, <2>2 DEF IInv, LastIsLast
<1>6. /\ buf \in Seq(Packets) /\ buf' \in Seq(Packets) /\ Len(buf') = Len(buf) + 1
      /\ \A k \in 1 .. Len(buf) + 1 :
           buf'[k] = IF k < i THEN buf[k] ELSE IF k = i THEN p ELSE buf[k - 1]
  <2>1. buf \in Seq(Packets)
    BY DEF IInv, TypeOK
  <2>2. buf' = InsertAt(buf, i, p)
    BY <1>2
  <2>3. p \in Packets /\ i \in 1 .. Len(buf) + 1
    BY <1>1
  <2> QED BY <2>1, <2>2, <2>3, InsertedPacket
<1>7. \A t \in Streams :
        Queue(t)' = IF t = s THEN Append(Queue(t), p) ELSE Queue(t)
  <2>1. ASSUME NEW t \in Streams
        PROVE  OfStream(buf', t) = IF t = p.st THEN Append(OfStream(buf, t), p) ELSE OfStream(buf, t)
    <3> DEFINE b == buf
               c == buf'
    <3>1. /\ b \in Seq(Packets) /\ c \in Seq(Packets) /\ Len(c) = Len(b) + 1
          /\ i \in 1 .. Len(b) + 1
          /\ \A k \in 1 .. Len(b) + 1 :
               c[k] = IF k < i THEN b[k] ELSE IF k = i THEN p ELSE b[k - 1]
          /\ \A k \in i .. Len(b) : b[k].st # p.st
      BY <1>5, <1>6
    <3> HIDE DEF b, c
    <3>2. OfStream(c, t) = IF t = p.st THEN Append(OfStream(b, t), p) ELSE OfStream(b, t)
      BY <1>1, <3>1, QueueInserted
    <3> QED BY <3>2 DEF b, c
  <2> QED BY <1>1, <2>1, QueuesNext DEF Queue
<1>8. Queue(s) \in Seq(Packets)
  BY <1>6, QueueHolds DEF Queue
<1>9. /\ Len(Append(Queue(s), p)) > Len(Queue(s))
      /\ Append(Queue(s), p)[Len(Queue(s)) + 1] = p
  BY <1>1, <1>8, AppendProperties, LenProperties
<1>10. q' = [q EXCEPT ![s] = Append(@, p)]
  BY <1>7
<1>11. q[s] = Queue(s) /\ q'[s] = Append(Queue(s), p)
  BY <1>7
<1>12. UNCHANGED <<out, forced>> /\ pc = "idle" /\ pc' = "drain"
  BY DEF Submit, writeVars
<1>13. [k \in 1 .. Len(out) |-> out[k].pkt]' = [k \in 1 .. Len(out) |-> out[k].pkt]
  BY <1>12
<1>14. pc \notin {"trailer", "done"} /\ pc' \notin {"trailer", "done"}
  BY <1>12
<1>15. q' = [q EXCEPT ![s] = Append(@, q'[s][Len(q[s]) + 1])]
  <2> HIDE DEF q
  <2> QED BY <1>9, <1>10, <1>11
<1>16. Len(q'[s]) > Len(q[s])
  <2> HIDE DEF q
  <2> QED BY <1>9, <1>11
<1> QED BY <1>12, <1>13, <1>14, <1>15, <1>16 DEF Merge!Put

(* The list is in order: what is too late is all of it. *)
LEMMA MergeDrop ==
  ASSUME IInv, Truncate
  PROVE  Merge!Drop
<1>1. PICK m \in 1 .. Len(buf) : Late(m) /\ buf' = SubSeq(buf, m + 1, Len(buf))
  BY DEF Truncate
<1>2. Len(buf) \in Nat /\ \A k \in 1 .. Len(buf) : buf[k] \in Packets
  <2>1. buf \in Seq(Packets)
    BY DEF IInv, TypeOK
  <2> QED BY <2>1, LenProperties, ElementOfSeq
<1>3. m = Len(buf)
  <2> SUFFICES ASSUME m < Len(buf) PROVE FALSE
    BY <1>2
  <2>1. TooLate(buf[m]) /\ ~TooLate(buf[m + 1])
    BY <1>1, <1>2 DEF Late
  <2>2. m + 1 \in 1 .. Len(buf) /\ m < m + 1
    BY <1>2
  <2>3. ~After(buf[m], buf[m + 1])
    BY <2>2 DEF IInv, Sorted
  <2>4. buf[m] \in Packets /\ buf[m + 1] \in Packets
    BY <1>2, <2>2
  <2>5. Time(buf[m]) <= Time(buf[m + 1]) /\ Time(buf[m]) \in Int /\ Time(buf[m + 1]) \in Int
    BY <2>3, <2>4, Precedes, TimeType
  <2>6. EndNow \in Int \cup {NoTs}
    BY EndType DEF IInv
  <2> QED BY <2>1, <2>5, <2>6 DEF TooLate
<1>4. buf' \in Seq(Packets) /\ Len(buf') = 0
  BY <1>1, <1>2, <1>3, ListShrinks DEF IInv
<1>5. \A s \in Streams : Queue(s)' = <<>>
  <2>1. ASSUME NEW s \in Streams PROVE OfStream(buf', s) = <<>>
    <3> DEFINE c == buf'
    <3>1. c \in Seq(Packets) /\ 1 .. Len(c) = {}
      BY <1>4
    <3> HIDE DEF c
    <3>2. OfStream(c, s) = <<>>
      BY <3>1, QueueHolds
    <3> QED BY <3>2 DEF c
  <2> QED BY <2>1, QueuesNext
<1>6. [s \in Streams |-> Queue(s)]' = [s \in Streams |-> <<>>]
  BY <1>5
<1>7. UNCHANGED <<out, forced>> /\ (pc \in {"trailer", "done"} <=> pc' \in {"trailer", "done"})
  BY DEF Truncate, writeVars, Busy, Eof, Return
<1>8. [i \in 1 .. Len(out) |-> out[i].pkt]' = [i \in 1 .. Len(out) |-> out[i].pkt]
  BY <1>7
<1>9. (pc \in {"trailer", "done"})' = (pc \in {"trailer", "done"})
  BY <1>7
<1> QED BY <1>6, <1>7, <1>8, <1>9 DEF Merge!Drop

(* The queues that have a head, as the list and its pointers know them. *)
LEMMA QueueHeads ==
  ASSUME IInv, NEW s \in Streams
  PROVE  /\ Queue(s) # <<>> <=> last[s] # 0
         /\ Queue(s) # <<>> => \E k \in 1 .. Len(buf) : Head(Queue(s)) = buf[k]
<1>1. buf \in Seq(Packets) /\ Len(buf) \in Nat /\ last[s] \in Nat
  BY LenProperties DEF IInv, TypeOK
<1>2. /\ last[s] <= Len(buf)
      /\ last[s] # 0 => buf[last[s]].st = s
      /\ \A i \in last[s] + 1 .. Len(buf) : buf[i].st # s
  BY DEF IInv, LastIsLast
<1>3. last[s] # 0 <=> \E k \in 1 .. Len(buf) : buf[k].st = s
  <2>1. last[s] # 0 => last[s] \in 1 .. Len(buf)
    BY <1>1, <1>2
  <2>2. ASSUME NEW k \in 1 .. Len(buf), buf[k].st = s, last[s] = 0 PROVE FALSE
    <3>1. k \in last[s] + 1 .. Len(buf)
      BY <1>1, <2>2
    <3> QED BY <1>2, <2>2, <3>1
  <2> QED BY <1>2, <2>1, <2>2
<1>4. /\ Queue(s) # <<>> <=> \E k \in 1 .. Len(buf) : buf[k].st = s
      /\ Queue(s) # <<>> => \E k \in 1 .. Len(buf) : Head(Queue(s)) = buf[k]
  BY <1>1, QueueHolds DEF Queue
<1> QED BY <1>3, <1>4

(* What is written is the least of the heads, and in haste only when forced. *)
LEMMA MergeTake ==
  ASSUME IInv, WriteOne
  PROVE  \E s \in Streams : Merge!Take(s)
<1> DEFINE p == buf[1]
           q == [t \in Streams |-> Queue(t)]
           w == [i \in 1 .. Len(out) |-> out[i].pkt]
<1>1. buf # <<>> /\ buf' = Tail(buf) /\ Busy
  BY DEF WriteOne, Ready
<1>2. /\ Len(buf) \in Nat \ {0} /\ p \in Packets /\ buf \in Seq(Packets)
      /\ buf' \in Seq(Packets) /\ Len(buf') = Len(buf) - 1
      /\ \A k \in 1 .. Len(buf) - 1 : buf'[k] = buf[1 + k]
  BY <1>1, ListPops DEF IInv, TypeOK
<1>3. PICK s \in Streams : s = p.st
  BY <1>2, TimeType
<1>4. \A t \in Streams :
        /\ s # t => Queue(t)' = Queue(t)
        /\ s = t => Queue(t) # <<>> /\ Head(Queue(t)) = p /\ Queue(t)' = Tail(Queue(t))
  <2>1. ASSUME NEW t \in Streams
        PROVE  /\ buf[1].st # t => OfStream(buf', t) = OfStream(buf, t)
               /\ buf[1].st = t => /\ OfStream(buf, t) # <<>> /\ Head(OfStream(buf, t)) = buf[1]
                                   /\ OfStream(buf', t) = Tail(OfStream(buf, t))
    <3> DEFINE b == buf
               c == buf'
    <3>1. /\ b \in Seq(Packets) /\ c \in Seq(Packets) /\ Len(b) \in Nat \ {0}
          /\ Len(c) = Len(b) - 1 /\ \A k \in 1 .. Len(b) - 1 : c[k] = b[1 + k]
      BY <1>2
    <3> HIDE DEF b, c
    <3>2. /\ b[1].st # t => OfStream(c, t) = OfStream(b, t)
          /\ b[1].st = t => /\ OfStream(b, t) # <<>> /\ Head(OfStream(b, t)) = b[1]
                            /\ OfStream(c, t) = Tail(OfStream(b, t))
      BY <3>1, QueueTail
    <3> QED BY <3>2 DEF b, c
  <2> QED BY <1>3, <2>1, QueuesNext DEF Queue
<1>5. \A t \in Streams : Queue(t) # <<>> => NotAfter(p, Head(Queue(t)))
  <2> SUFFICES ASSUME NEW t \in Streams, Queue(t) # <<>> PROVE ~After(p, Head(Queue(t)))
    BY DEF NotAfter
  <2>1. PICK k \in 1 .. Len(buf) : Head(Queue(t)) = buf[k]
    BY QueueHeads
  <2>2. CASE k = 1
    <3>1. ~After(p, p)
      BY <1>2, Precedes
    <3> QED BY <2>1, <2>2, <3>1
  <2>3. CASE k # 1
    <3>1. 1 \in 1 .. Len(buf) /\ 1 < k
      BY <1>2, <2>3
    <3> QED BY <2>1, <3>1 DEF IInv, Sorted
  <2> QED BY <2>2, <2>3
<1>6. q' = [q EXCEPT ![s] = Tail(@)]
  BY <1>4
<1>7. /\ forced' = (forced \/ (pc # "trailer" /\ ~Full))
      /\ pc # "done" /\ (pc \in {"trailer", "done"} <=> pc' \in {"trailer", "done"})
  BY <1>1 DEF WriteOne, WritePacket, Busy, Eof, Return, NextIteration
<1>8. Full <=> {t \in Streams : q[t] # <<>>} = Streams
  BY QueueHeads DEF Full
<1>9. forced' = (forced \/ (~(pc \in {"trailer", "done"}) /\ {t \in Streams : q[t] # <<>>} # Streams))
  BY <1>7, <1>8
<1>10. w' \in {w, Append(w, p)}
  <2>1. out' = out \/ \E x \in Int : out' = Append(out, [pkt |-> p, ts |-> x])
    <3>1. OffFor(p) \in Int /\ p.dts \in Int
      BY <1>2, OffType, TimeType DEF IInv
    <3>2. p.dts + OffFor(p) \in Int
      BY <3>1
    <3> QED BY <3>2 DEF WriteOne, WritePacket, WrittenWith
  <2>2. CASE out' = out
    BY <2>2
  <2>3. CASE \E x \in Int : out' = Append(out, [pkt |-> p, ts |-> x])
    <3>1. PICK x \in Int : out' = Append(out, [pkt |-> p, ts |-> x])
      BY <2>3
    <3> DEFINE R == [pkt : Packets, ts : Int]
               e == [pkt |-> p, ts |-> x]
               n == Len(out)
               o == out'
    <3>2. out \in Seq(R) /\ e \in R /\ e.pkt = p
      BY <1>2 DEF IInv, TypeOK
    <3>3. o = Append(out, e)
      BY <3>1
    <3> HIDE DEF R, e, o
    <3>4. /\ Len(o) = n + 1 /\ n \in Nat
          /\ \A i \in 1 .. n + 1 : o[i] = IF i <= n THEN out[i] ELSE e
      BY <3>2, <3>3, Pushed
    <3>5. \A i \in 1 .. n : out[i] \in R /\ out[i].pkt \in Packets
      <4>1. \A i \in 1 .. n : out[i] \in R
        BY <3>2, ElementOfSeq
      <4> QED BY <4>1 DEF R
    <3>6. w \in Seq(Packets) /\ Len(w) = n
      BY <3>4, <3>5
    <3>7. /\ Append(w, p) \in Seq(Packets) /\ Len(Append(w, p)) = n + 1
          /\ \A i \in 1 .. n + 1 : Append(w, p)[i] = IF i <= n THEN w[i] ELSE p
      <4> HIDE DEF w
      <4> QED BY <1>2, <3>6, Pushed
    <3>8. w' = [i \in 1 .. n + 1 |-> o[i].pkt]
      BY <3>4 DEF o
    <3>9. ASSUME NEW i \in 1 .. n + 1 PROVE o[i].pkt = Append(w, p)[i]
      BY <3>2, <3>4, <3>7
    <3>10. Append(w, p) = [i \in 1 .. n + 1 |-> Append(w, p)[i]]
      BY <3>7
    <3> QED BY <3>8, <3>9, <3>10
  <2> QED BY <2>1, <2>2, <2>3
<1>11. (pc \in {"trailer", "done"})' = (pc \in {"trailer", "done"})
  BY <1>7
<1>12. q[s] = Queue(s) /\ Head(q[s]) = p /\ s \in {t \in Streams : q[t] # <<>>}
  BY <1>3, <1>4
<1>13. \A t \in {u \in Streams : q[u] # <<>>} : NotAfter(Head(q[s]), Head(q[t]))
  BY <1>5, <1>12
<1> HIDE DEF p
<1>14. Merge!Take(s)
  BY <1>6, <1>9, <1>10, <1>11, <1>12, <1>13 DEF Merge!Take, Merge!Heads
<1> QED BY <1>14

LEMMA MergeInit == Init => Merge!Init
<1> SUFFICES ASSUME Init PROVE Merge!Init
  OBVIOUS
<1>1. buf \in Seq(Packets) /\ Len(buf) = 0 /\ 1 .. Len(buf) = {}
  BY DEF Init
<1>2. \A s \in Streams : Queue(s) = <<>>
  BY <1>1, QueueHolds DEF Queue
<1>3. [i \in 1 .. Len(out) |-> out[i].pkt] = <<>>
  BY DEF Init
<1> QED BY <1>2, <1>3 DEF Init, Merge!Init

(* Every step of the muxer is one of the merge's, or none. *)
LEMMA MergeStep ==
  ASSUME IInv, ObeyAtZero, [Next]_muxVars
  PROVE  [Merge!Next]_<<[s \in Streams |-> Queue(s)], [i \in 1 .. Len(out) |-> out[i].pkt],
                        forced, pc \in {"trailer", "done"}>>
<1>1. CASE Offer
  BY <1>1, OffersObey, MergePut DEF Merge!Next
<1>2. CASE Truncate
  BY <1>2, MergeDrop DEF Merge!Next
<1>3. CASE WriteOne
  BY <1>3, MergeTake DEF Merge!Next
<1>4. CASE UNCHANGED <<buf, out, forced>> /\ (Flush \/ Finish \/ Ended \/ UNCHANGED muxVars \/ Trailer)
  <2>1. \A s \in Streams : Queue(s)' = Queue(s)
    BY <1>4, QueuesNext
  <2>2. UNCHANGED <<[s \in Streams |-> Queue(s)], [i \in 1 .. Len(out) |-> out[i].pkt], forced>>
    BY <1>4, <2>1
  <2>3. CASE Trailer
    <3>1. (pc \in {"trailer", "done"})' = TRUE
      BY <2>3 DEF Trailer
    <3>2. Merge!Close
      BY <2>2, <3>1 DEF Merge!Close
    <3> QED BY <3>2 DEF Merge!Next
  <2>4. CASE ~Trailer
    <3>1. (pc \in {"trailer", "done"})' = (pc \in {"trailer", "done"})
      BY <1>4, <2>4 DEF Flush, Finish, Ended, muxVars, Busy, Eof, Return
    <3> QED BY <2>2, <3>1
  <2> QED BY <2>3, <2>4
<1>5. Flush \/ Finish \/ Ended \/ UNCHANGED muxVars \/ Trailer => UNCHANGED <<buf, out, forced>>
  BY DEF Flush, Finish, Ended, Trailer, muxVars, queueVars, writeVars
<1> QED BY <1>1, <1>2, <1>3, <1>4, <1>5 DEF Next, Work

(* The one list of mux.c, with its scan from the stream's last node, is a    *)
(* merge of one first-in first-out queue per stream: no packet overtakes     *)
(* another of its stream, and the one written has the least of the heads.    *)
THEOREM ListIsMerge == ObeyAtZero => (Spec => ImplementsMerge)
<1> SUFFICES ASSUME ObeyAtZero PROVE Spec => ImplementsMerge
  OBVIOUS
<1>1. Spec => []IInv
  BY Invariance
<1>2. Init => Merge!Init
  BY MergeInit
<1>3. IInv /\ [Next]_muxVars =>
        [Merge!Next]_<<[s \in Streams |-> Queue(s)], [i \in 1 .. Len(out) |-> out[i].pkt],
                       forced, pc \in {"trailer", "done"}>>
  BY MergeStep
<1> QED BY <1>1, <1>2, <1>3, PTL DEF Spec, ImplementsMerge, Merge!Spec

-----------------------------------------------------------------------------
(* ffmuxfile.  What av_rescale_q does to a time: it is off by half a tick at *)
(* most, and times that are whole ticks apart stay so.                       *)

LEMMA Rounded ==
  ASSUME NEW n \in Int, NEW d \in Nat \ {0}
  PROVE  /\ RoundDiv(n, d) \in Int
         /\ IF n >= 0
              THEN 2 * (d * RoundDiv(n, d)) <= 2 * n + d /\ 2 * n - d < 2 * (d * RoundDiv(n, d))
              ELSE 2 * (d * RoundDiv(n, d)) < 2 * n + d /\ 2 * n - d <= 2 * (d * RoundDiv(n, d))
<1> DEFINE e == 2 * d
<1>1. e \in Nat \ {0}
  OBVIOUS
<1>2. CASE n >= 0
  <2> DEFINE m == 2 * n + d
             q == m \div e
  <2>1. q \in Int /\ e * q <= m /\ m < e * q + e
    BY <1>1
  <2>2. RoundDiv(n, d) = q
    BY <1>2 DEF RoundDiv
  <2>3. e * q = 2 * (d * q)
    BY <2>1
  <2> HIDE DEF q
  <2> QED BY <1>2, <2>1, <2>2, <2>3
<1>3. CASE ~(n >= 0)
  <2> DEFINE m == d - 2 * n
             q == m \div e
  <2>1. q \in Int /\ e * q <= m /\ m < e * q + e
    BY <1>1
  <2>2. RoundDiv(n, d) = -q
    BY <1>3 DEF RoundDiv
  <2>3. e * q = 2 * (d * q) /\ d * (-q) = -(d * q) /\ d * q \in Int
    BY <2>1
  <2> HIDE DEF q
  <2> QED BY <1>3, <2>1, <2>2, <2>3
<1> QED BY <1>2, <1>3

LEMMA Rescaled ==
  ASSUME NEW t \in Int, NEW from \in Nat \ {0}, NEW to \in Nat \ {0}
  PROVE  /\ Rescale(t, from, to) \in Int /\ t * from \in Int
         /\ Rescale(t, from, to) * to \in Int
         /\ 2 * (Rescale(t, from, to) * to) <= 2 * (t * from) + to
         /\ 2 * (t * from) - to <= 2 * (Rescale(t, from, to) * to)
<1> DEFINE n == t * from
           r == RoundDiv(n, to)
<1>1. n \in Int
  OBVIOUS
<1>2. Rescale(t, from, to) = r
  BY InterleaverAssumption DEF Rescale
<1> HIDE DEF n
<1>3. r \in Int /\ 2 * (to * r) <= 2 * n + to /\ 2 * n - to <= 2 * (to * r)
  <2>1. /\ r \in Int
        /\ IF n >= 0
             THEN 2 * (to * r) <= 2 * n + to /\ 2 * n - to < 2 * (to * r)
             ELSE 2 * (to * r) < 2 * n + to /\ 2 * n - to <= 2 * (to * r)
    BY <1>1, Rounded
  <2> HIDE DEF r
  <2>2. to * r \in Int
    BY <2>1
  <2> QED BY <1>1, <2>1, <2>2
<1>4. to * r = r * to /\ r * to \in Int
  BY <1>3
<1> QED BY <1>1, <1>2, <1>3, <1>4 DEF n

LEMMA RescaledApart ==
  ASSUME NEW t \in Int, NEW u \in Int, NEW from \in Nat \ {0}, NEW to \in Nat \ {0},
         NEW c \in Nat, (u - t) * from >= c * to
  PROVE  Rescale(u, from, to) >= Rescale(t, from, to) + c
<1> DEFINE n == t * from
           m == u * from
           r == RoundDiv(n, to)
           q == RoundDiv(m, to)
           k == c * to
<1>1. n \in Int /\ m \in Int /\ k \in Int /\ (u - t) * from = m - n /\ k >= 0
  OBVIOUS
<1>2. m - n >= k
  BY <1>1
<1>3. Rescale(t, from, to) = r /\ Rescale(u, from, to) = q
  BY InterleaverAssumption DEF Rescale
<1>4. r \in Int /\ q \in Int
  <2> HIDE DEF n, m
  <2> QED BY <1>1, Rounded
<1>5. 2 * (to * q) - 2 * (to * r) > 2 * k - 2 * to
  <2> HIDE DEF n, m, k
  <2>1. IF n >= 0
          THEN 2 * (to * r) <= 2 * n + to /\ 2 * n - to < 2 * (to * r)
          ELSE 2 * (to * r) < 2 * n + to /\ 2 * n - to <= 2 * (to * r)
    BY <1>1, Rounded
  <2>2. IF m >= 0
          THEN 2 * (to * q) <= 2 * m + to /\ 2 * m - to < 2 * (to * q)
          ELSE 2 * (to * q) < 2 * m + to /\ 2 * m - to <= 2 * (to * q)
    BY <1>1, Rounded
  <2> HIDE DEF r, q
  <2>3. to * q \in Int /\ to * r \in Int
    BY <1>4
  <2> QED BY <1>1, <1>2, <2>1, <2>2, <2>3
<1> HIDE DEF r, q, n, m
<1>6. ~(q <= r + c - 1)
  <2> SUFFICES ASSUME q <= r + c - 1 PROVE FALSE
    OBVIOUS
  <2>1. q * to <= (r + c - 1) * to
    BY <1>4, Scale
  <2>2. (r + c - 1) * to = to * r + k - to /\ q * to = to * q /\ to * r \in Int /\ to * q \in Int
    BY <1>4
  <2> HIDE DEF k
  <2> QED BY <1>1, <1>5, <2>1, <2>2
<1> QED BY <1>3, <1>4, <1>6

(* The loops around av_read_frame.                                           *)
LEMMA OwnPlaces ==
  ASSUME NEW S, NEW file \in Seq(S)
  PROVE  /\ OwnIn(file) \subseteq 1 .. Len(file) /\ Len(file) \in Nat
         /\ OwnIn(file) = {i \in 1 .. Len(file) : file[i].own}
         /\ HasOwn(file) =>
              /\ FirstOwn(file) \in OwnIn(file)
              /\ \A k \in OwnIn(file) : FirstOwn(file) <= k
<1>1. DOMAIN file = 1 .. Len(file) /\ Len(file) \in Nat
  BY LenProperties
<1>2. OwnIn(file) = {i \in 1 .. Len(file) : file[i].own}
  BY <1>1 DEF OwnIn
<1>3. ASSUME HasOwn(file)
      PROVE  FirstOwn(file) \in OwnIn(file) /\ \A k \in OwnIn(file) : FirstOwn(file) <= k
  <2>1. OwnIn(file) \subseteq Nat /\ OwnIn(file) # {}
    BY <1>2, <1>3 DEF HasOwn
  <2>2. \E i \in OwnIn(file) : \A k \in OwnIn(file) : i <= k
    BY <2>1, LeastNumber
  <2> QED BY <2>2 DEF FirstOwn
<1> QED BY <1>1, <1>2, <1>3

(* The packets that come after the one held: the next that is own, and those *)
(* before it freed; or none.                                                 *)
LEMMA ReadOn ==
  ASSUME NEW S, NEW file \in Seq(S), NEW n \in 0 .. Len(file), NEW rest, Left(rest, file, n)
  PROVE  IF HasOwn(rest)
           THEN LET m == n + FirstOwn(rest) IN
                /\ m \in OwnIn(file) /\ n < m /\ m \in Nat
                /\ NextOwn(rest) = file[m]
                /\ Left(Rest(rest), file, m)
                /\ OwnUpTo(file, m) = OwnUpTo(file, n) \union {m}
           ELSE OwnUpTo(file, n) = OwnIn(file) /\ Rest(rest) = <<>>
<1>1. Len(file) \in Nat /\ OwnIn(file) = {i \in 1 .. Len(file) : file[i].own}
  BY OwnPlaces
<1>2. ~HasOwn(<<>>) /\ OwnIn(<<>>) = {}
  <2>1. DOMAIN <<>> = {}
    OBVIOUS
  <2> QED BY <2>1 DEF HasOwn, OwnIn
<1>3. CASE rest = <<>> /\ OwnUpTo(file, n) = OwnIn(file)
  BY <1>2, <1>3 DEF Rest
<1>4. CASE rest = SubSeq(file, n + 1, Len(file))
  <2>1. /\ rest \in Seq(S) /\ Len(rest) = Len(file) - n
        /\ \A i \in 1 .. Len(file) - n : rest[i] = file[n + i]
    BY <1>4, Cut
  <2>2. OwnIn(rest) = {i \in 1 .. Len(file) - n : file[n + i].own}
    <3>1. OwnIn(rest) = {i \in 1 .. Len(rest) : rest[i].own}
      BY <2>1, OwnPlaces
    <3> QED BY <2>1, <3>1
  <2>3. CASE ~HasOwn(rest)
    <3>1. ASSUME NEW i \in OwnIn(file) PROVE i <= n
      <4> SUFFICES ASSUME ~(i <= n) PROVE FALSE
        BY <1>1
      <4>1. i - n \in 1 .. Len(file) - n /\ n + (i - n) = i
        BY <1>1
      <4>2. i - n \in OwnIn(rest)
        BY <1>1, <2>2, <4>1
      <4> QED BY <2>3, <4>2 DEF HasOwn
    <3>2. OwnUpTo(file, n) = OwnIn(file)
      BY <3>1 DEF OwnUpTo
    <3> QED BY <2>3, <3>2 DEF Rest
  <2>4. CASE HasOwn(rest)
    <3> DEFINE f == FirstOwn(rest)
               m == n + f
    <3>1. f \in OwnIn(rest) /\ \A k \in OwnIn(rest) : f <= k
      BY <2>1, <2>4, OwnPlaces
    <3> HIDE DEF f
    <3>2. f \in 1 .. Len(file) - n /\ m \in 1 .. Len(file) /\ n < m /\ m \in Nat /\ file[m].own
      BY <1>1, <2>2, <3>1
    <3>3. m \in OwnIn(file)
      BY <1>1, <3>2
    <3>4. NextOwn(rest) = file[m]
      BY <2>1, <3>2 DEF NextOwn, f
    <3>5. Rest(rest) = SubSeq(file, m + 1, Len(file))
      <4> DEFINE r == SubSeq(rest, f + 1, Len(rest))
                 q == SubSeq(file, m + 1, Len(file))
      <4>1. /\ r \in Seq(S) /\ Len(r) = (Len(file) - n) - f
            /\ \A i \in 1 .. (Len(file) - n) - f : r[i] = rest[f + i]
        <5>1. f \in 0 .. Len(rest)
          BY <1>1, <2>1, <3>2
        <5> QED BY <2>1, <5>1, Cut, SMTT(30)
      <4>2. /\ q \in Seq(S) /\ Len(q) = Len(file) - m
            /\ \A i \in 1 .. Len(file) - m : q[i] = file[m + i]
        <5>1. m \in 0 .. Len(file)
          BY <1>1, <3>2
        <5> QED BY <5>1, Cut
      <4> HIDE DEF r, q
      <4>3. (Len(file) - n) - f = Len(file) - m
        BY <1>1, <3>2
      <4>4. ASSUME NEW i \in 1 .. Len(file) - m PROVE r[i] = q[i]
        <5>1. f + i \in 1 .. Len(file) - n /\ n + (f + i) = m + i
          BY <1>1, <3>2
        <5> QED BY <2>1, <4>1, <4>2, <4>3, <5>1
      <4>5. r = q
        BY <4>1, <4>2, <4>3, <4>4, SeqEqual
      <4> QED BY <2>4, <4>5 DEF Rest, r, q, f
    <3>6. OwnUpTo(file, m) = OwnUpTo(file, n) \union {m}
      <4>1. ASSUME NEW i \in OwnIn(file), n < i, i < m PROVE FALSE
        <5>1. i - n \in 1 .. Len(file) - n /\ n + (i - n) = i /\ i - n < f
          BY <1>1, <3>2, <4>1
        <5>2. i - n \in OwnIn(rest)
          BY <1>1, <2>2, <5>1
        <5> QED BY <3>1, <3>2, <5>1, <5>2
      <4>2. \A i \in OwnIn(file) : i \in Nat /\ (i <= m <=> i <= n \/ i = m)
        BY <1>1, <3>2, <4>1
      <4> QED BY <3>3, <4>2 DEF OwnUpTo
    <3> QED BY <2>4, <3>2, <3>3, <3>4, <3>5, <3>6 DEF Left, f
  <2> QED BY <2>3, <2>4
<1> QED BY <1>3, <1>4 DEF Left

(* How many are own, up to a place.                                          *)
LEMMA OwnCount ==
  ASSUME NEW S, NEW file \in Seq(S), NEW n \in Nat
  PROVE  /\ IsFiniteSet(OwnUpTo(file, n)) /\ Cardinality(OwnUpTo(file, n)) \in Nat
         /\ \A m \in OwnIn(file) :
              (n < m /\ OwnUpTo(file, m) = OwnUpTo(file, n) \union {m}) =>
                Cardinality(OwnUpTo(file, m)) = Cardinality(OwnUpTo(file, n)) + 1
<1> DEFINE U == OwnUpTo(file, n)
<1>1. Len(file) \in Nat /\ OwnIn(file) \subseteq 1 .. Len(file)
  BY OwnPlaces
<1>2. IsFiniteSet(1 .. Len(file)) /\ U \subseteq 1 .. Len(file) /\ \A m \in U : m <= n
  BY <1>1, FS_Interval DEF OwnUpTo
<1> HIDE DEF U
<1>3. IsFiniteSet(U) /\ Cardinality(U) \in Nat
  BY <1>2, FS_Subset, FS_CardinalityType
<1>4. ASSUME NEW m \in OwnIn(file), n < m PROVE Cardinality(U \union {m}) = Cardinality(U) + 1
  <2>1. m \notin U
    BY <1>1, <1>2, <1>4
  <2> QED BY <1>3, <2>1, FS_AddElement
<1> QED BY <1>3, <1>4 DEF U

(* The first of a file is the first to be counted.                           *)
LEMMA FirstCount ==
  ASSUME NEW S, NEW file \in Seq(S), HasOwn(file)
  PROVE  /\ OwnUpTo(file, FirstOwn(file)) = {FirstOwn(file)}
         /\ Cardinality(OwnUpTo(file, FirstOwn(file))) = 1
         /\ OwnUpTo(file, 0) = {}
<1>1. /\ OwnIn(file) \subseteq 1 .. Len(file) /\ Len(file) \in Nat
      /\ FirstOwn(file) \in OwnIn(file) /\ \A k \in OwnIn(file) : FirstOwn(file) <= k
  BY OwnPlaces
<1>2. OwnUpTo(file, FirstOwn(file)) = {FirstOwn(file)}
  BY <1>1 DEF OwnUpTo
<1>3. OwnUpTo(file, 0) = {}
  BY <1>1 DEF OwnUpTo
<1> QED BY <1>2, <1>3, FS_Singleton

-----------------------------------------------------------------------------
(* The times of the frames.                                                  *)

LEMMA Clocks ==
  /\ Streams = {0, 1} /\ Audio \in Streams /\ Video \in Streams /\ Audio = 0 /\ Video = 1
  /\ Tick[Audio] \in Nat \ {0} /\ Tick[Video] \in Nat \ {0}
  /\ VideoIn \in Nat \ {0} /\ AudioIn \in Nat \ {0} /\ NoTs \notin Int
  /\ FrameUnits \in Nat \ {0} /\ FrameSize \in Nat \ {0}
  /\ FrameUnits >= VideoIn + 2 * Tick[Video] /\ FrameSize * Tick[Audio] >= AudioIn + 2 * Tick[Audio]
  /\ MaxDelta > 0 => MaxDelta >= Tick[Audio] + Tick[Video]
BY InterleaverAssumption, MuxFileAssumption DEF Audio, Video

LEMMA Files ==
  ASSUME NEW f \in Inputs
  PROVE  /\ f.h264 \in BOOLEAN /\ f.video \in Seq(VideoPackets) /\ f.audio \in Seq([own : BOOLEAN])
         /\ IF f.h264 THEN IsRaw(f.video) ELSE Plays(f.video)
BY MuxFileAssumption

(* Frames of a file: none is due before the one before it.                   *)
LEMMA Frames ==
  ASSUME NEW f \in Inputs, ~f.h264, NEW i \in OwnIn(f.video)
  PROVE  /\ i \in Nat /\ f.video[i].pts \in Int /\ f.video[i].dts \in Int
         /\ f.video[i].dts <= f.video[i].pts
         /\ \A k \in OwnIn(f.video) : k < i =>
              (f.video[i].dts - f.video[k].dts) * VideoIn >= 2 * Tick[Video]
<1>1. f.video \in Seq(VideoPackets) /\ Plays(f.video)
  BY Files
<1>2. /\ DOMAIN f.video = 1 .. Len(f.video) /\ Len(f.video) \in Nat
      /\ OwnIn(f.video) = {k \in 1 .. Len(f.video) : f.video[k].own}
  BY <1>1, OwnPlaces, LenProperties
<1>3. \A k \in OwnIn(f.video) : k < i => k \in 1 .. i - 1 /\ f.video[k].own
  BY <1>2
<1> QED BY <1>1, <1>2, <1>3 DEF Plays, Video

LEMMA RescaledZero ==
  ASSUME NEW from \in Nat \ {0}, NEW to \in Nat \ {0}
  PROVE  Rescale(0, from, to) = 0
<1> DEFINE r == Rescale(0, from, to)
<1>1. r \in Int /\ r * to \in Int /\ 2 * (r * to) <= to /\ -to <= 2 * (r * to)
  BY Rescaled
<1> HIDE DEF r
<1>2. r <= 0
  <2> SUFFICES ASSUME 1 <= r PROVE FALSE
    BY <1>1
  <2>1. 1 * to <= r * to
    BY <1>1, Scale
  <2> QED BY <1>1, <2>1
<1>3. 0 <= r
  <2> SUFFICES ASSUME r <= -1 PROVE FALSE
    BY <1>1
  <2>1. r * to <= (-1) * to
    BY <1>1, Scale
  <2> QED BY <1>1, <2>1
<1> QED BY <1>1, <1>2, <1>3 DEF r

(* Frames that are timed by counting are as far apart as those of a file.    *)
LEMMA CountedApart ==
  ASSUME NEW k \in Int, NEW units \in Nat \ {0}, NEW to \in Nat \ {0}, NEW tick \in Nat \ {0},
         units >= to + 2 * tick
  PROVE  (Rescale(k + 1, units, to) - Rescale(k, units, to)) * to >= 2 * tick
<1> DEFINE r == Rescale(k, units, to)
           q == Rescale(k + 1, units, to)
           n == k * units
           m == (k + 1) * units
<1>1. n \in Int /\ m \in Int /\ m = n + units
  OBVIOUS
<1>2. r \in Int /\ q \in Int /\ r * to \in Int /\ q * to \in Int
  <2>1. k + 1 \in Int
    OBVIOUS
  <2>2. r \in Int /\ q \in Int
    BY <2>1, Rescaled
  <2> HIDE DEF r, q
  <2> QED BY <2>2
<1>3. 2 * (r * to) <= 2 * n + to /\ 2 * m - to <= 2 * (q * to)
  BY Rescaled
<1> HIDE DEF r, q, n, m
<1>4. (q - r) * to = q * to - r * to
  BY <1>2
<1> QED BY <1>1, <1>2, <1>3, <1>4 DEF r, q

(* The next video packet is later than the one before it.                    *)
LEMMA NextVideoLater ==
  ASSUME input \in Inputs, h264 = input.h264, HasOwn(input.video), VideoPlace, VideoClock,
         NEW m \in OwnIn(input.video), v.src < m,
         NEW w, w.dts = IF h264 THEN Rescale(v.count, FrameUnits, VideoIn)
                        ELSE input.video[m].dts - v.offset
  PROVE  w.dts \in Int /\ VideoDts \in Int /\ VideoDts + 1 <= Rescale(w.dts, VideoIn, Tick[Video])
<1> DEFINE file == input.video
<1>1. file \in Seq(VideoPackets) /\ h264 \in BOOLEAN
  BY Files
<1>2. v.src \in OwnIn(file) /\ v.src \in Nat /\ v.count \in Nat /\ v.dts \in Int \cup {NoTs}
  BY DEF VideoPlace
<1>3. CASE h264
  <2> DEFINE t == Rescale(v.count - 1, FrameUnits, VideoIn)
             u == Rescale(v.count, FrameUnits, VideoIn)
  <2>1. t \in Int /\ u \in Int
    <3>1. v.count - 1 \in Int /\ v.count \in Int
      BY <1>2
    <3> QED BY <3>1, Rescaled, Clocks
  <2>2. (u - t) * VideoIn >= 2 * Tick[Video]
    <3>1. v.count - 1 \in Int /\ (v.count - 1) + 1 = v.count
      BY <1>2
    <3>2. (Rescale((v.count - 1) + 1, FrameUnits, VideoIn) - t) * VideoIn >= 2 * Tick[Video]
      BY <3>1, CountedApart, Clocks
    <3> QED BY <3>1, <3>2
  <2>3. w.dts = u
    BY <1>3
  <2>4. Rescale(u, VideoIn, Tick[Video]) >= Rescale(t, VideoIn, Tick[Video]) + 2
    <3> HIDE DEF t, u
    <3> QED BY <2>1, <2>2, RescaledApart, Clocks
  <2>5. Rescale(u, VideoIn, Tick[Video]) \in Int /\ Rescale(t, VideoIn, Tick[Video]) \in Int
    <3> HIDE DEF t, u
    <3> QED BY <2>1, Rescaled, Clocks
  <2>6. v.dts = t \/ (v.src = FirstOwn(file) /\ v.dts = NoTs)
    BY <1>3 DEF VideoClock
  <2>7. CASE v.dts = t
    <3>1. VideoDts = Rescale(t, VideoIn, Tick[Video])
      BY <2>1, <2>7, Clocks DEF VideoDts
    <3> HIDE DEF t, u
    <3> QED BY <2>1, <2>3, <2>4, <2>5, <3>1
  <2>8. CASE v.src = FirstOwn(file) /\ v.dts = NoTs
    <3>1. v.count = 1
      BY <1>1, <1>3, <2>8, FirstCount DEF VideoClock
    <3>2. t = 0 /\ Rescale(t, VideoIn, Tick[Video]) = 0
      BY <3>1, RescaledZero, Clocks
    <3>3. VideoDts = 1
      BY <2>8 DEF VideoDts
    <3> HIDE DEF t, u
    <3> QED BY <2>1, <2>3, <2>4, <2>5, <3>2, <3>3
  <2> QED BY <2>6, <2>7, <2>8
<1>4. CASE ~h264
  <2>1. FirstOwn(file) \in OwnIn(file)
    BY <1>1, OwnPlaces
  <2>2. /\ v.offset = file[FirstOwn(file)].pts /\ v.dts = file[v.src].dts - v.offset
        /\ v.offset \in Int
    BY <1>4, <2>1, Frames DEF VideoClock
  <2>3. /\ file[m].dts \in Int /\ file[v.src].dts \in Int
        /\ (file[m].dts - file[v.src].dts) * VideoIn >= 2 * Tick[Video]
    BY <1>2, <1>4, Frames
  <2> DEFINE t == file[v.src].dts - v.offset
             u == file[m].dts - v.offset
  <2>4. t \in Int /\ u \in Int /\ u - t = file[m].dts - file[v.src].dts
    BY <2>2, <2>3
  <2>5. w.dts = u /\ v.dts = t
    BY <1>4, <2>2
  <2> HIDE DEF t, u
  <2>6. Rescale(u, VideoIn, Tick[Video]) >= Rescale(t, VideoIn, Tick[Video]) + 2
    <3>1. (u - t) * VideoIn >= 2 * Tick[Video]
      BY <2>3, <2>4
    <3> QED BY <2>4, <3>1, RescaledApart, Clocks
  <2>7. Rescale(u, VideoIn, Tick[Video]) \in Int /\ Rescale(t, VideoIn, Tick[Video]) \in Int
    BY <2>4, Rescaled, Clocks
  <2>8. VideoDts = Rescale(t, VideoIn, Tick[Video])
    BY <2>4, <2>5, Clocks DEF VideoDts
  <2> QED BY <2>4, <2>5, <2>6, <2>7, <2>8
<1> QED BY <1>3, <1>4

-----------------------------------------------------------------------------
(* The video packet that is held, step by step.                              *)

LEMMA VideoStays ==
  ASSUME VideoHeld, UNCHANGED <<v, vfile, readV, h264, input>>,
         cur'[Video] = cur[Video], PendingV' = PendingV
  PROVE  VideoHeld'
<1>1. VideoPlace'
  BY DEF VideoHeld, VideoPlace, OwnUpTo
<1>2. VideoDue'
  BY DEF VideoHeld, VideoDue, VideoDts
<1>3. HasOwn(input'.video) => VideoClock'
  BY DEF VideoHeld, VideoClock, OwnUpTo
<1> QED BY <1>1, <1>2, <1>3 DEF VideoHeld

LEMMA VideoCreated ==
  ASSUME MuxPhases, Create
  PROVE  VideoHeld'
<1> DEFINE file == input.video
<1>1. /\ v = NewVideo /\ vfile = file /\ input \in Inputs /\ h264 = input.h264
      /\ cur[Video] = NoTs /\ mpc = "new"
  BY Clocks DEF MuxPhases, Create
<1>2. /\ v' = InitVideo /\ vfile' = Rest(vfile) /\ readV' = TRUE /\ mpc' = "created"
      /\ UNCHANGED <<h264, input, cur>>
  BY DEF Create, muxVars, queueVars
<1>3. file \in Seq(VideoPackets) /\ h264 \in BOOLEAN
  BY <1>1, Files
<1>4. PendingV' = TRUE
  BY <1>2 DEF PendingV
<1>5. CASE ~HasOwn(file)
  <2>1. /\ v' = [src |-> 0, pts |-> 0, dts |-> 0, next |-> MaxPts, last |-> 0, offset |-> 0, count |-> 0]
        /\ vfile' = <<>>
    BY <1>1, <1>2, <1>5 DEF InitVideo, NewVideo, Rest
  <2>2. VideoPlace'
    BY <1>2, <1>5, <2>1 DEF VideoPlace, MaxPts
  <2>3. VideoDue'
    BY <1>1, <1>2, <1>4, <1>5, <2>1 DEF VideoDue
  <2> QED BY <1>2, <1>5, <2>2, <2>3 DEF VideoHeld
<1>6. CASE HasOwn(file)
  <2> DEFINE m == FirstOwn(file)
             p == file[m]
  <2>1. m \in OwnIn(file) /\ m \in 1 .. Len(file) /\ m \in Nat /\ Len(file) \in Nat
    BY <1>3, <1>6, OwnPlaces
  <2>2. NextOwn(vfile) = p /\ vfile' = SubSeq(file, m + 1, Len(file))
    BY <1>1, <1>2, <1>6 DEF NextOwn, Rest
  <2>3. v' = [src |-> m, pts |-> 0, dts |-> IF h264 THEN p.dts ELSE p.dts - p.pts,
              next |-> 0, last |-> 0, offset |-> IF h264 THEN 0 ELSE p.pts,
              count |-> IF h264 THEN 1 ELSE 0]
    BY <1>1, <1>2, <1>6, <2>2 DEF InitVideo, NewVideo
  <2>4. ASSUME h264
       PROVE  /\ VideoClock'
              /\ v' \in [src : Nat, pts : Int, dts : Int \cup {NoTs}, next : Int, last : Int,
                            offset : Int, count : Nat]
    <3>1. p.dts \in {NoTs, 0}
      <4>1. IsRaw(file) /\ m \in DOMAIN file /\ file[m].own
        BY <1>1, <2>1, <2>4, Files DEF OwnIn
      <4> QED BY <4>1 DEF IsRaw
    <3>2. v' = [src |-> m, pts |-> 0, dts |-> p.dts, next |-> 0, last |-> 0, offset |-> 0, count |-> 1]
      BY <2>3, <2>4
    <3>3. Cardinality(OwnUpTo(file, m)) = 1
      BY <1>3, <1>6, FirstCount
    <3>4. Rescale(0, FrameUnits, VideoIn) = 0
      BY RescaledZero, Clocks
    <3>5. v'.count = 1 /\ v'.src = m /\ v'.pts = 0 /\ v'.dts = p.dts /\ v'.count - 1 = 0
      BY <3>2
    <3>6. VideoClock'
      BY <1>2, <2>4, <3>1, <3>3, <3>4, <3>5 DEF VideoClock
    <3>7. v' \in [src : Nat, pts : Int, dts : Int \cup {NoTs}, next : Int, last : Int,
                  offset : Int, count : Nat]
      <4> HIDE DEF m, p
      <4> QED BY <2>1, <3>1, <3>2
    <3> QED BY <3>6, <3>7
  <2>5. ASSUME ~h264
       PROVE  /\ VideoClock'
              /\ v' \in [src : Nat, pts : Int, dts : Int \cup {NoTs}, next : Int, last : Int,
                            offset : Int, count : Nat]
    <3>1. p.pts \in Int /\ p.dts \in Int
      BY <1>1, <2>1, <2>5, Frames
    <3>2. v' = [src |-> m, pts |-> 0, dts |-> p.dts - p.pts, next |-> 0, last |-> 0,
                offset |-> p.pts, count |-> 0]
      BY <2>3, <2>5
    <3>3. p.pts - p.pts = 0
      BY <3>1
    <3>4. v'.offset = p.pts /\ v'.src = m /\ v'.pts = 0 /\ v'.dts = p.dts - p.pts
      BY <3>2
    <3>5. VideoClock'
      BY <1>2, <2>5, <3>3, <3>4 DEF VideoClock
    <3>6. v' \in [src : Nat, pts : Int, dts : Int \cup {NoTs}, next : Int, last : Int,
                  offset : Int, count : Nat]
      <4> HIDE DEF m, p
      <4> QED BY <2>1, <3>1, <3>2
    <3> QED BY <3>5, <3>6
  <2>6. v'.src = m /\ v'.next = v'.pts /\ v'.last = 0
    BY <2>3
  <2>7. VideoPlace'
    <3> HIDE DEF m, p
    <3> QED BY <1>2, <1>6, <2>1, <2>2, <2>4, <2>5, <2>6 DEF VideoPlace, Left
  <2>8. VideoDue'
    BY <1>1, <1>2, <1>4, <2>6 DEF VideoDue
  <2> QED BY <2>4, <2>5, <2>7, <2>8 DEF VideoHeld
<1> QED BY <1>5, <1>6

LEMMA VideoReadOn ==
  ASSUME MuxPhases, VideoHeld, ReadVideo
  PROVE  VideoHeld'
<1> DEFINE file == input.video
           n == v.src
<1>1. /\ input \in Inputs /\ h264 = input.h264 /\ mpc = "videoSent" /\ readV
      /\ file \in Seq(VideoPackets) /\ h264 \in BOOLEAN
  BY Files DEF MuxPhases, ReadVideo
<1>2. /\ readV' = HasOwn(vfile) /\ v' = (IF HasOwn(vfile) THEN NextVideo ELSE v)
      /\ vfile' = Rest(vfile) /\ mpc' = "loop" /\ UNCHANGED <<h264, input, cur>>
  BY DEF ReadVideo, muxVars, queueVars
<1>3. ~PendingV /\ cur[Video] = VideoDts /\ PendingV' = HasOwn(vfile)
  BY <1>1, <1>2 DEF PendingV, VideoHeld, VideoDue, HasOwn
<1>4. v \in [src : Nat, pts : Int, dts : Int \cup {NoTs}, next : Int, last : Int,
             offset : Int, count : Nat]
  BY DEF VideoHeld, VideoPlace
<1>5. CASE ~HasOwn(file)
  <2>1. vfile = <<>> /\ n = 0 /\ ~HasOwn(vfile) /\ OwnIn(file) = {}
    BY <1>5 DEF VideoHeld, VideoPlace, HasOwn, OwnIn
  <2>2. v' = v /\ vfile' = <<>> /\ OwnUpTo(file, n) = OwnIn(file)
    BY <1>2, <2>1 DEF Rest, OwnUpTo
  <2>3. VideoPlace'
    BY <1>2, <1>4, <1>5, <2>1, <2>2 DEF VideoPlace, VideoHeld
  <2>4. VideoDue'
    BY <1>2, <1>3, <2>1, <2>2 DEF VideoDue, VideoDts
  <2> QED BY <1>2, <1>5, <2>3, <2>4 DEF VideoHeld
<1>6. CASE HasOwn(file)
  <2>1. /\ n \in OwnIn(file) /\ n \in 1 .. Len(file) /\ Len(file) \in Nat /\ Left(vfile, file, n)
        /\ FirstOwn(file) \in OwnIn(file) /\ FirstOwn(file) <= n /\ FirstOwn(file) \in Nat
    <3>1. n \in OwnIn(file) /\ Left(vfile, file, n)
      BY <1>6 DEF VideoHeld, VideoPlace
    <3> QED BY <1>1, <1>6, <3>1, OwnPlaces
  <2>2. CASE ~HasOwn(vfile)
    <3>1. OwnUpTo(file, n) = OwnIn(file) /\ Rest(vfile) = <<>>
      BY <1>1, <2>1, <2>2, ReadOn
    <3>2. v' = v /\ vfile' = <<>> /\ Left(<<>>, file, n)
      BY <1>2, <2>2, <3>1 DEF Left
    <3>3. VideoPlace'
      BY <1>2, <1>4, <1>6, <2>1, <3>1, <3>2 DEF VideoPlace, VideoHeld
    <3>4. VideoDue' /\ VideoClock'
      BY <1>2, <1>3, <1>6, <2>2, <3>2 DEF VideoDue, VideoDts, VideoClock, VideoHeld, OwnUpTo
    <3> QED BY <3>3, <3>4 DEF VideoHeld
  <2>3. CASE HasOwn(vfile)
    <3> DEFINE m == n + FirstOwn(vfile)
               p == file[m]
    <3>1. /\ m \in OwnIn(file) /\ n < m /\ m \in Nat /\ NextOwn(vfile) = p
          /\ Left(Rest(vfile), file, m) /\ OwnUpTo(file, m) = OwnUpTo(file, n) \union {m}
      BY <1>1, <2>1, <2>3, ReadOn
    <3> HIDE DEF m, p
    <3>2. Cardinality(OwnUpTo(file, m)) = Cardinality(OwnUpTo(file, n)) + 1
      <4>1. n \in Nat
        BY <2>1
      <4> QED BY <1>1, <3>1, <4>1, OwnCount
    <3>3. v' = NextVideo
      BY <1>2, <2>3
    <3>4. ASSUME h264
         PROVE  /\ v'.src = m /\ v'.next = v'.pts /\ VideoClock'
                /\ v' \in [src : Nat, pts : Int, dts : Int \cup {NoTs}, next : Int, last : Int,
                            offset : Int, count : Nat]
                /\ v'.dts = IF h264 THEN Rescale(v.count, FrameUnits, VideoIn) ELSE file[m].dts - v.offset
      <4> DEFINE t == Rescale(v.count, FrameUnits, VideoIn)
      <4>1. t \in Int
        BY <1>4, Rescaled, Clocks
      <4>2. v' = [v EXCEPT !.src = m, !.next = t, !.pts = t, !.dts = t, !.count = @ + 1]
        BY <3>3, <3>4 DEF NextVideo, m
      <4> HIDE DEF t
      <4>3. /\ v'.src = m /\ v'.next = t /\ v'.pts = t /\ v'.dts = t /\ v'.count = v.count + 1
            /\ v' \in [src : Nat, pts : Int, dts : Int \cup {NoTs}, next : Int, last : Int,
                       offset : Int, count : Nat]
        <5>1. v.count + 1 \in Nat
          BY <1>4
        <5>2. v' = [v EXCEPT !.src = m, !.next = t, !.pts = t, !.dts = t, !.count = v.count + 1]
          BY <4>2
        <5> QED BY <1>4, <3>1, <4>1, <5>1, <5>2
      <4>4. v.count = Cardinality(OwnUpTo(file, n)) /\ v'.count - 1 = v.count
        BY <1>4, <1>6, <3>4, <4>3 DEF VideoHeld, VideoClock
      <4>5. VideoClock'
        BY <1>2, <3>2, <3>4, <4>3, <4>4 DEF VideoClock, t
      <4> QED BY <3>4, <4>3, <4>5 DEF t
    <3>5. ASSUME ~h264
         PROVE  /\ v'.src = m /\ v'.next = v'.pts /\ VideoClock'
                /\ v' \in [src : Nat, pts : Int, dts : Int \cup {NoTs}, next : Int, last : Int,
                            offset : Int, count : Nat]
                /\ v'.dts = IF h264 THEN Rescale(v.count, FrameUnits, VideoIn) ELSE file[m].dts - v.offset
      <4>1. /\ p.pts \in Int /\ p.dts \in Int /\ v.offset \in Int
            /\ v.offset = file[FirstOwn(file)].pts
        BY <1>1, <1>4, <1>6, <3>1, <3>5, Frames DEF VideoHeld, VideoClock, p
      <4> DEFINE t == p.pts - v.offset
                 u == p.dts - v.offset
      <4>2. t - (p.pts - p.dts) = u /\ t \in Int /\ u \in Int
        BY <4>1
      <4>3. v' = [v EXCEPT !.src = m, !.next = t, !.pts = t, !.dts = t - (p.pts - p.dts), !.count = @]
        BY <3>1, <3>3, <3>5 DEF NextVideo, m
      <4> HIDE DEF t, u
      <4>4. /\ v'.src = m /\ v'.next = t /\ v'.pts = t /\ v'.dts = u /\ v'.offset = v.offset
            /\ v' \in [src : Nat, pts : Int, dts : Int \cup {NoTs}, next : Int, last : Int,
                       offset : Int, count : Nat]
        BY <1>4, <3>1, <4>2, <4>3
      <4>5. VideoClock'
        BY <1>2, <3>5, <4>1, <4>4 DEF VideoClock, t, u, p
      <4> QED BY <3>5, <4>4, <4>5 DEF u, p
    <3>6. VideoPlace'
      BY <1>2, <1>6, <2>3, <3>1, <3>4, <3>5 DEF VideoPlace
    <3>7. VideoDts \in Int /\ VideoDts' \in Int /\ VideoDts < VideoDts'
      <4> DEFINE w == v'
      <4>1. w.dts = IF h264 THEN Rescale(v.count, FrameUnits, VideoIn) ELSE file[m].dts - v.offset
        BY <3>4, <3>5
      <4>2. w.dts \in Int /\ VideoDts \in Int /\ VideoDts + 1 <= Rescale(w.dts, VideoIn, Tick[Video])
        BY <1>1, <1>6, <3>1, <4>1, NextVideoLater DEF VideoHeld
      <4>3. VideoDts' = Rescale(w.dts, VideoIn, Tick[Video])
        BY <4>2, Clocks DEF VideoDts
      <4>4. Rescale(w.dts, VideoIn, Tick[Video]) \in Int
        BY <4>2, Rescaled, Clocks
      <4> HIDE DEF w
      <4> QED BY <4>2, <4>3, <4>4
    <3>8. v'.src = m /\ m # FirstOwn(file)
      BY <2>1, <3>1, <3>4, <3>5
    <3>9. VideoDue'
      BY <1>2, <1>3, <2>3, <1>6, <3>7, <3>8 DEF VideoDue
    <3> QED BY <3>4, <3>5, <3>6, <3>9 DEF VideoHeld
  <2> QED BY <2>2, <2>3
<1> QED BY <1>5, <1>6

(* What is given to the muxer: a dts after the last one, a pts not before it. *)
LEMMA VideoGiven ==
  ASSUME MuxPhases, VideoHeld, PendingV,
         NEW pts, pts = Bump(Rescale(v.pts, VideoIn, Tick[Video]), v.last),
         NEW dts, dts = Rescale(v.dts, VideoIn, Tick[Video])
  PROVE  /\ v.src \in Nat /\ pts \in Int /\ dts \in Int \union {NoTs}
         /\ VideoDts \in Int /\ VideoDts <= pts
         /\ (IF dts = NoTs THEN pts ELSE dts) = VideoDts
         /\ cur[Video] = NoTs \/ (cur[Video] \in Int /\ cur[Video] < VideoDts)
<1> DEFINE file == input.video
           due == Rescale(v.pts, VideoIn, Tick[Video])
<1>1. /\ input \in Inputs /\ h264 = input.h264 /\ file \in Seq(VideoPackets) /\ h264 \in BOOLEAN
  BY Files DEF MuxPhases
<1>2. v \in [src : Nat, pts : Int, dts : Int \cup {NoTs}, next : Int, last : Int,
             offset : Int, count : Nat]
  BY DEF VideoHeld, VideoPlace
<1>3. /\ v.src \in Nat /\ v.pts \in Int /\ v.dts \in Int \cup {NoTs} /\ v.last \in Int
      /\ v.count \in Nat /\ v.offset \in Int
  BY <1>2
<1>4. due \in Int
  BY <1>3, Rescaled, Clocks
<1>5. pts = (IF due <= v.last THEN v.last + 1 ELSE due) /\ pts \in Int /\ due <= pts
  <2> HIDE DEF due
  <2>1. pts = (IF due <= v.last THEN v.last + 1 ELSE due)
    BY DEF Bump, due
  <2> QED BY <1>3, <1>4, <2>1
<1>6. CASE v.dts = NoTs
  <2>1. dts = NoTs /\ VideoDts = 1
    BY <1>6 DEF Rescale, VideoDts
  <2>2. HasOwn(file)
    BY <1>6, Clocks DEF VideoHeld, VideoPlace
  <2>3. FirstOwn(file) \in OwnIn(file)
    BY <1>1, <2>2, OwnPlaces
  <2>4. h264
    <3> SUFFICES ASSUME ~h264 PROVE FALSE
      OBVIOUS
    <3>1. file[v.src].dts \in Int
      BY <1>1, <2>2, Frames DEF VideoHeld, VideoPlace
    <3>2. v.dts = file[v.src].dts - v.offset
      BY <2>2 DEF VideoHeld, VideoClock
    <3>3. v.dts \in Int
      BY <1>3, <3>1, <3>2
    <3> QED BY <1>6, <3>3, Clocks
  <2>5. /\ v.count = Cardinality(OwnUpTo(file, v.src)) /\ v.pts = Rescale(v.count - 1, FrameUnits, VideoIn)
        /\ v.dts = v.pts \/ v.src = FirstOwn(file)
    BY <2>2, <2>4 DEF VideoHeld, VideoClock
  <2>6. v.src = FirstOwn(file)
    BY <1>3, <1>6, <2>5, Clocks
  <2>7. v.count = 1
    BY <1>1, <2>2, <2>5, <2>6, FirstCount
  <2>8. v.pts = 0 /\ due = 0
    <3>1. v.pts = 0
      BY <2>5, <2>7, RescaledZero, Clocks
    <3> QED BY <3>1, RescaledZero, Clocks
  <2>9. v.last = 0 /\ cur[Video] = NoTs
    BY <2>6 DEF VideoHeld, VideoDue
  <2> HIDE DEF due
  <2>10. pts = 1
    BY <1>5, <2>8, <2>9
  <2> QED BY <1>3, <2>1, <2>9, <2>10
<1>7. CASE v.dts # NoTs
  <2>1. v.dts \in Int /\ VideoDts = dts /\ dts \in Int /\ dts # NoTs
    <3>1. v.dts \in Int /\ VideoDts = dts
      BY <1>3, <1>7 DEF VideoDts
    <3> QED BY <3>1, Rescaled, Clocks
  <2>2. v.dts <= v.pts
    <3>1. CASE ~HasOwn(file)
      BY <3>1 DEF VideoHeld, VideoPlace
    <3>2. CASE HasOwn(file) /\ h264
      BY <1>3, <1>7, <3>2 DEF VideoHeld, VideoClock
    <3>3. CASE HasOwn(file) /\ ~h264
      <4>1. file[v.src].dts \in Int /\ file[v.src].pts \in Int /\ file[v.src].dts <= file[v.src].pts
        BY <1>1, <3>3, Frames DEF VideoHeld, VideoPlace
      <4>2. v.pts = file[v.src].pts - v.offset /\ v.dts = file[v.src].dts - v.offset
        BY <3>3 DEF VideoHeld, VideoClock
      <4> QED BY <1>3, <4>1, <4>2
    <3> QED BY <3>1, <3>2, <3>3
  <2>3. dts + 0 <= due
    <3>1. (v.pts - v.dts) * VideoIn >= 0 * Tick[Video]
      <4>1. v.pts - v.dts \in Nat
        BY <1>3, <2>1, <2>2
      <4> HIDE DEF due
      <4> QED BY <4>1, Clocks
    <3> QED BY <1>3, <2>1, <3>1, RescaledApart, Clocks
  <2>4. cur[Video] = NoTs \/ (cur[Video] \in Int /\ cur[Video] < VideoDts)
    BY DEF VideoHeld, VideoDue
  <2> HIDE DEF due
  <2> QED BY <1>3, <1>4, <1>5, <2>1, <2>3, <2>4
<1> QED BY <1>6, <1>7

LEMMA VideoWritten ==
  ASSUME VideoHeld, UNCHANGED <<vfile, readV, h264, input>>, NEW pts \in Int,
         v' = [v EXCEPT !.last = pts], cur'[Video] = VideoDts, PendingV' = FALSE
  PROVE  VideoHeld'
<1>1. v \in [src : Nat, pts : Int, dts : Int \cup {NoTs}, next : Int, last : Int,
             offset : Int, count : Nat]
  BY DEF VideoHeld, VideoPlace
<1>2. /\ v' \in [src : Nat, pts : Int, dts : Int \cup {NoTs}, next : Int, last : Int,
                 offset : Int, count : Nat]
      /\ v'.src = v.src /\ v'.pts = v.pts /\ v'.dts = v.dts /\ v'.next = v.next
      /\ v'.offset = v.offset /\ v'.count = v.count
  BY <1>1
<1>3. VideoPlace'
  BY <1>2 DEF VideoHeld, VideoPlace, OwnUpTo
<1>4. VideoDue'
  BY <1>2 DEF VideoDue, VideoDts
<1>5. HasOwn(input'.video) => VideoClock'
  BY <1>2 DEF VideoHeld, VideoClock, OwnUpTo
<1> QED BY <1>3, <1>4, <1>5 DEF VideoHeld

(* The same for the audio packet.                                            *)
LEMMA AudioStays ==
  ASSUME AudioHeld, UNCHANGED <<a, afile, readA, input>>,
         cur'[Audio] = cur[Audio], PendingA' = PendingA
  PROVE  AudioHeld'
BY DEF AudioHeld, OwnUpTo

LEMMA AudioCreated ==
  ASSUME MuxPhases, Create
  PROVE  AudioHeld'
<1> DEFINE file == input.audio
<1>1. /\ a = NewAudio /\ afile = file /\ input \in Inputs /\ cur[Audio] = NoTs /\ mpc = "new"
  BY Clocks DEF MuxPhases, Create
<1>2. /\ a' = InitAudio /\ afile' = Rest(afile) /\ readA' = TRUE /\ mpc' = "created"
      /\ UNCHANGED <<input, cur>>
  BY DEF Create, muxVars, queueVars
<1>3. file \in Seq([own : BOOLEAN])
  BY <1>1, Files
<1>4. PendingA' = TRUE
  BY <1>2 DEF PendingA
<1>5. CASE ~HasOwn(file)
  <2>1. a' = [src |-> 0, pts |-> 0, next |-> MaxPts, last |-> 0, count |-> 0] /\ afile' = <<>>
    BY <1>1, <1>2, <1>5 DEF InitAudio, NewAudio, Rest
  <2> QED BY <1>1, <1>2, <1>4, <1>5, <2>1 DEF AudioHeld, MaxPts
<1>6. CASE HasOwn(file)
  <2> DEFINE m == FirstOwn(file)
  <2>1. m \in OwnIn(file) /\ m \in Nat
    BY <1>3, <1>6, OwnPlaces
  <2>2. Cardinality(OwnUpTo(file, m)) = 1
    BY <1>3, <1>6, FirstCount
  <2>3. a' = [src |-> m, pts |-> 0, next |-> 0, last |-> 0, count |-> FrameSize]
    BY <1>1, <1>2, <1>6 DEF InitAudio, NewAudio
  <2>4. /\ a' \in [src : Nat, pts : Int, next : Int, last : Int, count : Nat]
        /\ a'.src = m /\ a'.pts = 0 /\ a'.next = 0 /\ a'.last = 0 /\ a'.count = FrameSize
    <3> HIDE DEF m
    <3> QED BY <2>1, <2>3, Clocks
  <2>5. Left(afile', file, m)
    BY <1>1, <1>2, <1>6 DEF Left, Rest
  <2>6. Rescale(a'.count - FrameSize, Tick[Audio], AudioIn) = 0
    <3>1. a'.count - FrameSize = 0
      BY <2>4, Clocks
    <3> QED BY <3>1, RescaledZero, Clocks
  <2>7. a'.count = Cardinality(OwnUpTo(file, m)) * FrameSize
    BY <2>2, <2>4, Clocks
  <2> HIDE DEF m
  <2> QED BY <1>1, <1>2, <1>4, <1>6, <2>1, <2>4, <2>5, <2>6, <2>7 DEF AudioHeld
<1> QED BY <1>5, <1>6

LEMMA AudioReadOn ==
  ASSUME MuxPhases, AudioHeld, ReadAudio
  PROVE  AudioHeld'
<1> DEFINE file == input.audio
           n == a.src
<1>1. input \in Inputs /\ mpc = "audioSent" /\ readA /\ file \in Seq([own : BOOLEAN])
  BY Files DEF MuxPhases, ReadAudio
<1>2. /\ readA' = HasOwn(afile) /\ a' = (IF HasOwn(afile) THEN NextAudio ELSE a)
      /\ afile' = Rest(afile) /\ mpc' = "loop" /\ UNCHANGED <<input, cur>>
  BY DEF ReadAudio, muxVars, queueVars
<1>3. cur[Audio] = a.last /\ cur[Audio] # NoTs /\ PendingA' = HasOwn(afile)
  BY <1>1, <1>2 DEF PendingA, AudioHeld, HasOwn
<1>4. a \in [src : Nat, pts : Int, next : Int, last : Int, count : Nat]
  BY DEF AudioHeld
<1>5. CASE ~HasOwn(file)
  <2>1. afile = <<>> /\ n = 0 /\ ~HasOwn(afile) /\ OwnIn(file) = {}
    BY <1>5 DEF AudioHeld, HasOwn, OwnIn
  <2>2. a' = a /\ afile' = <<>> /\ OwnUpTo(file, n) = OwnIn(file)
    BY <1>2, <2>1 DEF Rest, OwnUpTo
  <2> QED BY <1>2, <1>3, <1>4, <1>5, <2>1, <2>2 DEF AudioHeld
<1>6. CASE HasOwn(file)
  <2>1. n \in OwnIn(file) /\ n \in 1 .. Len(file) /\ Len(file) \in Nat /\ Left(afile, file, n)
    <3>1. n \in OwnIn(file) /\ Left(afile, file, n)
      BY <1>6 DEF AudioHeld
    <3> QED BY <1>1, <1>6, <3>1, OwnPlaces
  <2>2. CASE ~HasOwn(afile)
    <3>1. OwnUpTo(file, n) = OwnIn(file) /\ Rest(afile) = <<>>
      BY <1>1, <2>1, <2>2, ReadOn
    <3>2. a' = a /\ afile' = <<>> /\ Left(<<>>, file, n)
      BY <1>2, <2>2, <3>1 DEF Left
    <3> QED BY <1>2, <1>3, <1>4, <1>6, <2>1, <3>1, <3>2 DEF AudioHeld
  <2>3. CASE HasOwn(afile)
    <3> DEFINE m == n + FirstOwn(afile)
    <3>1. /\ m \in OwnIn(file) /\ n < m /\ m \in Nat
          /\ Left(Rest(afile), file, m) /\ OwnUpTo(file, m) = OwnUpTo(file, n) \union {m}
      BY <1>1, <2>1, <2>3, ReadOn
    <3> DEFINE t == Rescale(a.count, Tick[Audio], AudioIn)
    <3>2. a' = [a EXCEPT !.src = m, !.next = t, !.pts = t, !.count = @ + FrameSize]
      BY <1>2, <2>3 DEF NextAudio
    <3> HIDE DEF m
    <3>3. Cardinality(OwnUpTo(file, m)) = Cardinality(OwnUpTo(file, n)) + 1
      <4>1. n \in Nat
        BY <2>1
      <4> QED BY <1>1, <3>1, <4>1, OwnCount
    <3>4. t \in Int
      <4>1. a.count \in Int
        BY <1>4
      <4> QED BY <4>1, Rescaled, Clocks
    <3> HIDE DEF t
    <3>5. /\ a' \in [src : Nat, pts : Int, next : Int, last : Int, count : Nat]
          /\ a'.src = m /\ a'.next = t /\ a'.pts = t /\ a'.last = a.last
          /\ a'.count = a.count + FrameSize
      <4>1. a.count + FrameSize \in Nat
        BY <1>4, Clocks
      <4>2. a' = [a EXCEPT !.src = m, !.next = t, !.pts = t, !.count = a.count + FrameSize]
        BY <3>2
      <4> QED BY <1>4, <3>1, <3>4, <4>1, <4>2
    <3>6. a'.count - FrameSize = a.count
      BY <1>4, <3>5, Clocks
    <3>7. a'.count = Cardinality(OwnUpTo(file, m)) * FrameSize
      <4>1. a.count = Cardinality(OwnUpTo(file, n)) * FrameSize
        BY <1>6 DEF AudioHeld
      <4>2. Cardinality(OwnUpTo(file, n)) \in Nat
        <5>1. n \in Nat
          BY <2>1
        <5> QED BY <1>1, <5>1, OwnCount
      <4> DEFINE c == Cardinality(OwnUpTo(file, n))
      <4> HIDE DEF c
      <4>3. (c + 1) * FrameSize = c * FrameSize + FrameSize
        BY <4>2, Clocks DEF c
      <4> QED BY <3>3, <3>5, <4>1, <4>3 DEF c
    <3> QED BY <1>2, <1>3, <1>6, <2>3, <3>1, <3>5, <3>6, <3>7 DEF AudioHeld, t
  <2> QED BY <2>2, <2>3
<1> QED BY <1>5, <1>6

LEMMA AudioGiven ==
  ASSUME AudioHeld, NEW pts, pts = Bump(Rescale(a.pts, AudioIn, Tick[Audio]), a.last)
  PROVE  /\ a.src \in Nat /\ pts \in Int
         /\ cur[Audio] = NoTs \/ (cur[Audio] \in Int /\ cur[Audio] < pts)
<1> DEFINE due == Rescale(a.pts, AudioIn, Tick[Audio])
<1>1. a.src \in Nat /\ a.pts \in Int /\ a.last \in Int
  BY DEF AudioHeld
<1>2. due \in Int
  BY <1>1, Rescaled, Clocks
<1> HIDE DEF due
<1>3. pts = IF due <= a.last THEN a.last + 1 ELSE due
  BY DEF Bump, due
<1>4. cur[Audio] = NoTs \/ cur[Audio] = a.last
  BY DEF AudioHeld
<1> QED BY <1>1, <1>2, <1>3, <1>4

LEMMA AudioWritten ==
  ASSUME AudioHeld, UNCHANGED <<afile, readA, input>>, NEW pts \in Int,
         a' = [a EXCEPT !.last = pts], cur'[Audio] = pts, PendingA' = FALSE
  PROVE  AudioHeld'
<1>1. a \in [src : Nat, pts : Int, next : Int, last : Int, count : Nat]
  BY DEF AudioHeld
<1>2. /\ a' \in [src : Nat, pts : Int, next : Int, last : Int, count : Nat]
      /\ a'.src = a.src /\ a'.pts = a.pts /\ a'.next = a.next /\ a'.last = pts
      /\ a'.count = a.count
  BY <1>1
<1>3. cur'[Audio] # NoTs
  BY Clocks
<1> QED BY <1>2, <1>3 DEF AudioHeld, OwnUpTo

-----------------------------------------------------------------------------
(* What has been sent, as more is.                                           *)
LEMMA SentOn ==
  ASSUME sent \in Seq([st : Streams, src : Nat, pts : Int, ok : {TRUE}]),
         NEW s \in Streams, NEW src \in Nat, NEW pts \in Int,
         sent' = Append(sent, [st |-> s, src |-> src, pts |-> pts, ok |-> TRUE])
  PROVE  /\ sent' \in Seq([st : Streams, src : Nat, pts : Int, ok : {TRUE}])
         /\ Len(sent') = Len(sent) + 1 /\ Len(sent) \in Nat
         /\ \A i \in 1 .. Len(sent) : sent'[i] = sent[i]
         /\ sent'[Len(sent) + 1] = [st |-> s, src |-> src, pts |-> pts, ok |-> TRUE]
         /\ \A t \in Streams : SentOf(t) \subseteq 1 .. Len(sent)
         /\ \A t \in Streams :
              SentOf(t)' = SentOf(t) \union (IF t = s /\ src > 0 THEN {Len(sent) + 1} ELSE {})
<1> DEFINE p == [st |-> s, src |-> src, pts |-> pts, ok |-> TRUE]
           n == Len(sent)
<1>1. p \in [st : Streams, src : Nat, pts : Int, ok : {TRUE}] /\ p.st = s /\ p.src = src
  OBVIOUS
<1> HIDE DEF p
<1>2. /\ sent' \in Seq([st : Streams, src : Nat, pts : Int, ok : {TRUE}])
      /\ Len(sent') = n + 1 /\ n \in Nat
      /\ \A i \in 1 .. n : sent'[i] = sent[i]
      /\ sent'[n + 1] = p
  BY <1>1, AppendProperties, LenProperties DEF p
<1>3. DOMAIN sent = 1 .. n /\ DOMAIN sent' = 1 .. n + 1
  BY <1>2, LenProperties
<1>4. \A t \in Streams : SentOf(t) \subseteq 1 .. n
  BY <1>3 DEF SentOf
<1>5. ASSUME NEW t \in Streams
      PROVE  SentOf(t)' = SentOf(t) \union (IF t = s /\ src > 0 THEN {n + 1} ELSE {})
  <2>1. SentOf(t)' = {i \in 1 .. n + 1 : sent'[i].st = t /\ sent'[i].src > 0}
    BY <1>3 DEF SentOf
  <2>2. SentOf(t) = {i \in 1 .. n : sent[i].st = t /\ sent[i].src > 0}
    BY <1>3 DEF SentOf
  <2>3. ASSUME NEW i \in 1 .. n + 1
        PROVE  i \in SentOf(t)' <=> i \in SentOf(t) \/ (i = n + 1 /\ t = s /\ src > 0)
    <3>1. CASE i \in 1 .. n
      BY <1>2, <2>1, <2>2, <3>1
    <3>2. CASE i = n + 1
      BY <1>1, <1>2, <2>1, <2>2, <3>2
    <3> QED BY <1>2, <3>1, <3>2
  <2>4. SentOf(t)' \subseteq 1 .. n + 1 /\ SentOf(t) \subseteq 1 .. n + 1 /\ n + 1 \in 1 .. n + 1
    BY <1>2, <2>1, <2>2
  <2> QED BY <2>3, <2>4
<1> QED BY <1>2, <1>4, <1>5 DEF p

(* A packet that is given is the last in place, as it is in time.            *)
LEMMA SentGiven ==
  ASSUME sent \in Seq([st : Streams, src : Nat, pts : Int, ok : {TRUE}]),
         NEW s \in Streams, NEW src \in Nat, NEW pts \in Int,
         sent' = Append(sent, [st |-> s, src |-> src, pts |-> pts, ok |-> TRUE]),
         NEW S, NEW file \in Seq(S), SentSoFar(s, file, src, TRUE),
         src = 0 \/ src \in OwnIn(file)
  PROVE  /\ {sent'[i].src : i \in SentOf(s)'} = OwnUpTo(file, src)
         /\ \A i, j \in SentOf(s)' : i < j => sent'[i].src < sent'[j].src
<1> DEFINE n == Len(sent)
<1>1. /\ n \in Nat /\ SentOf(s) \subseteq 1 .. n
      /\ \A i \in 1 .. n : sent'[i] = sent[i]
      /\ sent'[n + 1] = [st |-> s, src |-> src, pts |-> pts, ok |-> TRUE]
      /\ SentOf(s)' = SentOf(s) \union (IF s = s /\ src > 0 THEN {n + 1} ELSE {})
  BY SentOn
<1>2. OwnIn(file) \subseteq 1 .. Len(file) /\ Len(file) \in Nat
  BY OwnPlaces
<1>3. /\ {sent[i].src : i \in SentOf(s)} = OwnUpTo(file, src) \ {src}
      /\ \A i, j \in SentOf(s) : i < j => sent[i].src < sent[j].src
  BY DEF SentSoFar
<1>4. sent'[n + 1].src = src
  BY <1>1
<1>5. src > 0 => src \in OwnUpTo(file, src)
  BY DEF OwnUpTo
<1>6. src = 0 => OwnUpTo(file, src) = {}
  BY <1>2 DEF OwnUpTo
<1>7. \A i \in SentOf(s) : sent'[i].src = sent[i].src
  BY <1>1
<1>8. {sent'[i].src : i \in SentOf(s)'} = OwnUpTo(file, src)
  <2>1. CASE src = 0
    BY <1>1, <1>3, <1>6, <1>7, <2>1
  <2>2. CASE src > 0
    <3>1. SentOf(s)' = SentOf(s) \union {n + 1}
      BY <1>1, <2>2
    <3>2. {sent'[i].src : i \in SentOf(s)'} = {sent'[i].src : i \in SentOf(s)} \union {src}
      BY <1>4, <3>1
    <3>3. {sent'[i].src : i \in SentOf(s)} = {sent[i].src : i \in SentOf(s)}
      BY <1>7
    <3>4. src \in OwnUpTo(file, src)
      BY <1>5, <2>2
    <3>5. {sent'[i].src : i \in SentOf(s)'} = (OwnUpTo(file, src) \ {src}) \union {src}
      BY <1>3, <3>2, <3>3
    <3>6. (OwnUpTo(file, src) \ {src}) \union {src} = OwnUpTo(file, src)
      BY <3>4
    <3> QED BY <3>5, <3>6
  <2>3. src = 0 \/ src > 0
    OBVIOUS
  <2> QED BY <2>1, <2>2, <2>3
<1>9. ASSUME NEW i \in SentOf(s)', NEW j \in SentOf(s)', i < j PROVE sent'[i].src < sent'[j].src
  <2>1. i \in SentOf(s)
    BY <1>1, <1>9
  <2>2. CASE j \in SentOf(s)
    BY <1>3, <1>7, <1>9, <2>1, <2>2
  <2>3. CASE j = n + 1
    <3>1. sent[i].src \in OwnUpTo(file, src) \ {src}
      BY <1>3, <2>1
    <3>2. sent[i].src \in Nat /\ sent[i].src < src
      BY <1>2, <3>1 DEF OwnUpTo
    <3> QED BY <1>4, <1>7, <2>1, <2>3, <3>2
  <2> QED BY <1>1, <2>2, <2>3
<1> QED BY <1>8, <1>9

(* Of the other stream nothing is added.                                     *)
LEMMA SentElsewhere ==
  ASSUME sent \in Seq([st : Streams, src : Nat, pts : Int, ok : {TRUE}]),
         NEW s \in Streams, NEW src \in Nat, NEW pts \in Int,
         sent' = Append(sent, [st |-> s, src |-> src, pts |-> pts, ok |-> TRUE]),
         NEW t \in Streams, t # s
  PROVE  /\ SentOf(t)' = SentOf(t)
         /\ {sent'[i].src : i \in SentOf(t)'} = {sent[i].src : i \in SentOf(t)}
         /\ (\A i, j \in SentOf(t) : i < j => sent[i].src < sent[j].src)
              => \A i, j \in SentOf(t)' : i < j => sent'[i].src < sent'[j].src
<1>1. /\ SentOf(t)' = SentOf(t) /\ SentOf(t) \subseteq 1 .. Len(sent)
      /\ \A i \in 1 .. Len(sent) : sent'[i] = sent[i]
  BY SentOn
<1> QED BY <1>1

(* The next packet is held while nothing is sent.                            *)
LEMMA SentReadOn ==
  ASSUME NEW s, NEW S, NEW file \in Seq(S), NEW n \in Nat, NEW m \in OwnIn(file), n < m,
         OwnUpTo(file, m) = OwnUpTo(file, n) \union {m}, SentSoFar(s, file, n, FALSE)
  PROVE  SentSoFar(s, file, m, TRUE)
<1>1. m \in Nat /\ \A i \in OwnUpTo(file, n) : i <= n
  BY OwnPlaces DEF OwnUpTo
<1>2. m \notin OwnUpTo(file, n)
  BY <1>1
<1>3. OwnUpTo(file, m) \ {m} = OwnUpTo(file, n) \ {}
  BY <1>2
<1> QED BY <1>3 DEF SentSoFar

-----------------------------------------------------------------------------
(* Each step of the program.                                                 *)

(* What a stream gives is accepted: its dts is after what it gave before.    *)
LEMMA Gives ==
  ASSUME MuxInv, pc = "idle", NEW s \in Streams, NEW src \in Nat, NEW pts \in Int,
         NEW dts \in Int \union {NoTs}, NEW d \in Int, d = (IF dts = NoTs THEN pts ELSE dts),
         d <= pts, cur[s] = NoTs \/ (cur[s] \in Int /\ cur[s] < d), Give(s, src, pts, dts)
  PROVE  /\ IInv' /\ MuxCounts' /\ Submit(s, d)
         /\ cur' = [cur EXCEPT ![s] = d] /\ pc' = "drain" /\ out' = out /\ lost' = lost
         /\ sent' = Append(sent, [st |-> s, src |-> src, pts |-> pts, ok |-> TRUE])
<1>1. IInv /\ TypeOK /\ MuxCounts /\ sent \in Seq([st : Streams, src : Nat, pts : Int, ok : {TRUE}])
  BY DEF MuxInv, IInv
<1>2. Follows(s, d) \/ cur[s] = NoTs
  BY DEF Follows
<1>3. Accepts(s, d) /\ pts >= d /\ (cur[s] = 0 => Follows(s, d))
  BY <1>2, Clocks DEF Accepts, Checked
<1>4. /\ Submit(s, d)
      /\ sent' = Append(sent, [st |-> s, src |-> src, pts |-> pts, ok |-> TRUE])
  <2>1. /\ IF Accepts(s, d) /\ pts >= d THEN Submit(s, d) ELSE UNCHANGED muxVars
        /\ sent' = Append(sent, [st |-> s, src |-> src, pts |-> pts, ok |-> Accepts(s, d) /\ pts >= d])
    BY DEF Give
  <2>2. (Accepts(s, d) /\ pts >= d) = TRUE
    BY <1>3
  <2> QED BY <1>3, <2>1, <2>2
<1>5. IInv'
  BY <1>1, <1>3, <1>4, SubmitStep
<1>6. Len(buf') = Len(buf) + 1 /\ Len(buf) \in Nat
  BY <1>1, <1>4, ListGrows
<1>7. cur' = [cur EXCEPT ![s] = d] /\ pc' = "drain" /\ out' = out /\ lost' = lost
  BY <1>4 DEF Submit, writeVars
<1>8. Len(sent') = Len(sent) + 1 /\ Len(sent) \in Nat
  BY <1>1, <1>4, SentOn
<1>9. Len(out) \in Nat
  BY <1>1, LenProperties DEF TypeOK
<1>10. MuxCounts'
  BY <1>1, <1>6, <1>7, <1>8, <1>9 DEF MuxCounts
<1> QED BY <1>4, <1>5, <1>7, <1>10

(* What the muxer does with a packet, in numbers.                            *)
LEMMA WorkCounts ==
  ASSUME IInv, MuxCounts, Work, sent' = sent
  PROVE  /\ IInv' /\ MuxCounts' /\ cur' = cur /\ Busy
         /\ pc' \in {pc, Return}
<1>1. TypeOK /\ Len(buf) \in Nat /\ Len(out) \in Nat
  BY LenProperties DEF IInv, TypeOK
<1>2. CASE Truncate
  <2>1. IInv'
    BY <1>2, TruncateStep
  <2>2. PICK n \in 1 .. Len(buf) : lost' = lost \union {buf[i] : i \in 1 .. n}
    BY <1>2 DEF Truncate
  <2>3. 1 \in 1 .. n
    BY <1>1
  <2>4. lost' # {}
    BY <2>2, <2>3
  <2> QED BY <1>2, <2>1, <2>4 DEF Truncate, MuxCounts
<1>3. CASE WriteOne
  <2>1. IInv'
    BY <1>3, WriteOneStep
  <2>2. PICK fails \in BOOLEAN : WritePacket(buf[1], fails)
    BY <1>3 DEF WriteOne
  <2>3. Busy /\ cur' = cur /\ buf # <<>> /\ buf' = Tail(buf)
    BY <1>3 DEF WriteOne, Ready
  <2>4. Len(buf') = Len(buf) - 1
    BY <1>1, <2>3 DEF TypeOK
  <2>5. CASE fails
    <3>1. lost' # {} /\ pc' = Return
      BY <2>2, <2>5 DEF WritePacket
    <3> QED BY <2>1, <2>3, <3>1 DEF MuxCounts
  <2>6. CASE ~fails
    <3>1. lost' = lost /\ out' = WrittenWith(buf[1]) /\ pc' = pc
      BY <2>2, <2>6 DEF WritePacket, NextIteration
    <3>2. Len(out') = Len(out) + 1
      BY <3>1 DEF WrittenWith, IInv, TypeOK
    <3>3. lost' = {} => Len(out') + Len(buf') = Len(sent')
      BY <1>1, <2>4, <3>1, <3>2 DEF MuxCounts
    <3>4. pc' # "done"
      BY <2>3, <3>1 DEF Busy, Eof
    <3> QED BY <2>1, <2>3, <3>1, <3>3, <3>4 DEF MuxCounts
  <2> QED BY <2>5, <2>6
<1>4. CASE Finish
  <2>1. Busy /\ ~Ready /\ pc' = Return /\ UNCHANGED <<queueVars, writeVars>>
    BY <1>4 DEF Finish
  <2>2. pc' = "done" => Eof
    BY <2>1 DEF Return, Eof
  <2>3. pc' = "done" => buf = <<>>
    BY <2>1, <2>2 DEF Ready
  <2>4. IInv'
    BY <1>4, OtherSteps DEF Finish, Return, Busy, Eof
  <2> QED BY <2>1, <2>3, <2>4 DEF MuxCounts, queueVars, writeVars
<1> QED BY <1>2, <1>3, <1>4 DEF Work

(* Nothing is held or given.                                                 *)
LEMMA HeldStill ==
  ASSUME MuxInv, mpc # "new", UNCHANGED <<h264, streamVars, sent, input>>, cur' = cur,
         mpc \in {"videoSent", "audioSent"} => mpc' = mpc,
         mpc' \in {"videoSent", "audioSent"} => mpc' = mpc
  PROVE  /\ sent' \in Seq([st : Streams, src : Nat, pts : Int, ok : {TRUE}])
         /\ VideoHeld' /\ SentSoFar(Video, input.video, v.src, PendingV)'
         /\ AudioHeld' /\ SentSoFar(Audio, input.audio, a.src, PendingA)'
<1>1. UNCHANGED <<vfile, afile, v, a, readV, readA, h264, sent, input>>
  BY DEF streamVars
<1>2. PendingV' = PendingV /\ PendingA' = PendingA
  BY <1>1 DEF PendingV, PendingA
<1>3. VideoHeld' /\ AudioHeld'
  BY <1>1, <1>2, VideoStays, AudioStays DEF MuxInv
<1>4. sent' \in Seq([st : Streams, src : Nat, pts : Int, ok : {TRUE}])
  BY <1>1 DEF MuxInv
<1>5. SentSoFar(Video, input.video, v.src, PendingV)'
  BY <1>1, <1>2 DEF MuxInv, SentSoFar, SentOf, OwnUpTo
<1>6. SentSoFar(Audio, input.audio, a.src, PendingA)'
  BY <1>1, <1>2 DEF MuxInv, SentSoFar, SentOf, OwnUpTo
<1> QED BY <1>3, <1>4, <1>5, <1>6

LEMMA MuxInitInv == MuxInit => MuxInv
<1> SUFFICES ASSUME MuxInit PROVE MuxInv
  OBVIOUS
<1>1. IInv /\ mpc = "new"
  BY InitInv DEF MuxInit
<1>2. MuxPhases
  BY DEF MuxInit, Init, MuxPhases
<1>3. MuxCounts
  BY DEF MuxInit, Init, MuxCounts
<1>4. sent \in Seq([st : Streams, src : Nat, pts : Int, ok : {TRUE}])
  BY DEF MuxInit
<1> QED BY <1>1, <1>2, <1>3, <1>4 DEF MuxInv

LEMMA CreateStep == ASSUME MuxInv, Create PROVE MuxInv'
<1>1. MuxPhases /\ IInv /\ mpc = "new" /\ mpc' = "created" /\ readV' = TRUE /\ readA' = TRUE
      /\ UNCHANGED <<h264, sent, input, muxVars>>
  BY DEF MuxInv, Create
<1>2. pc = "idle" /\ sent = <<>> /\ cur = [s \in Streams |-> NoTs] /\ input \in Inputs
  BY <1>1 DEF MuxPhases
<1>3. IInv'
  BY <1>1, OtherSteps
<1>4. MuxPhases'
  BY <1>1, <1>2 DEF MuxPhases, muxVars, queueVars, writeVars
<1>5. MuxCounts' /\ sent' \in Seq([st : Streams, src : Nat, pts : Int, ok : {TRUE}])
  BY <1>1 DEF MuxInv, MuxCounts, muxVars, queueVars, writeVars
<1>6. VideoHeld' /\ AudioHeld'
  BY <1>1, VideoCreated, AudioCreated
<1>7. /\ input.video \in Seq(VideoPackets) /\ input.audio \in Seq([own : BOOLEAN])
      /\ vfile = input.video /\ afile = input.audio /\ v = NewVideo /\ a = NewAudio
  BY <1>1, <1>2, Files DEF MuxPhases
<1>8. SentOf(Video)' = {} /\ SentOf(Audio)' = {}
  BY <1>1, <1>2 DEF SentOf
<1>9. SentSoFar(Video, input.video, v.src, PendingV)'
  <2>1. v'.src = IF HasOwn(input.video) THEN FirstOwn(input.video) ELSE 0
    BY <1>7 DEF Create, InitVideo, NewVideo
  <2>2. OwnUpTo(input.video, v'.src) \ {v'.src} = {}
    <3>1. CASE HasOwn(input.video)
      <4>1. OwnUpTo(input.video, v'.src) = {v'.src}
        BY <1>7, <2>1, <3>1, FirstCount
      <4> QED BY <4>1
    <3>2. CASE ~HasOwn(input.video)
      BY <3>2 DEF HasOwn, OwnUpTo
    <3> QED BY <3>1, <3>2
  <2>3. PendingV' = TRUE
    BY <1>1 DEF PendingV
  <2> QED BY <1>1, <1>8, <2>2, <2>3 DEF SentSoFar, OwnUpTo
<1>10. SentSoFar(Audio, input.audio, a.src, PendingA)'
  <2>1. a'.src = IF HasOwn(input.audio) THEN FirstOwn(input.audio) ELSE 0
    BY <1>7 DEF Create, InitAudio, NewAudio
  <2>2. OwnUpTo(input.audio, a'.src) \ {a'.src} = {}
    <3>1. CASE HasOwn(input.audio)
      <4>1. OwnUpTo(input.audio, a'.src) = {a'.src}
        BY <1>7, <2>1, <3>1, FirstCount
      <4> QED BY <4>1
    <3>2. CASE ~HasOwn(input.audio)
      BY <3>2 DEF HasOwn, OwnUpTo
    <3> QED BY <3>1, <3>2
  <2>3. PendingA' = TRUE
    BY <1>1 DEF PendingA
  <2> QED BY <1>1, <1>8, <2>2, <2>3 DEF SentSoFar, OwnUpTo
<1> QED BY <1>3, <1>4, <1>5, <1>6, <1>9, <1>10 DEF MuxInv

(* The steps that give nothing and read nothing.                             *)
LEMMA QuietStep ==
  ASSUME MuxInv, \/ WriteHeader \/ WriteTrailer \/ MuxerReturns \/ Destory \/ Over
                 \/ UNCHANGED <<fileVars, muxVars>>
  PROVE  MuxInv'
<1>1. IInv /\ MuxPhases /\ MuxCounts /\ sent \in Seq([st : Streams, src : Nat, pts : Int, ok : {TRUE}])
  BY DEF MuxInv
<1>2. /\ UNCHANGED <<h264, streamVars, sent, input, queueVars, writeVars>>
      /\ \/ UNCHANGED muxVars
         \/ mpc = "loop" /\ pc = "idle" /\ pc' = "trailer"
  BY DEF WriteHeader, WriteTrailer, MuxerReturns, Destory, Over, fileVars, muxVars, Trailer
<1>3. IInv'
  BY <1>1, <1>2, OtherSteps
<1>4. UNCHANGED <<v, a, vfile, afile, readV, readA, cur, out, buf, lost>>
  BY <1>2 DEF streamVars, queueVars, writeVars
<1>5. MuxCounts'
  BY <1>1, <1>2, <1>4 DEF MuxCounts, muxVars
<1>6. MuxPhases'
  <2>1. CASE WriteHeader
    BY <1>1, <1>4, <2>1 DEF MuxPhases, WriteHeader, DestoryInto, muxVars
  <2>2. CASE WriteTrailer
    BY <1>1, <1>4, <2>2 DEF MuxPhases, WriteTrailer, Trailer
  <2>3. CASE MuxerReturns
    BY <1>1, <1>4, <2>3 DEF MuxPhases, MuxerReturns, muxVars
  <2>4. CASE Destory
    BY <1>1, <1>4, <2>4 DEF MuxPhases, Destory, DestoryInto, muxVars
  <2>5. CASE Over \/ UNCHANGED <<fileVars, muxVars>>
    BY <1>1, <1>4, <2>5 DEF MuxPhases, Over, fileVars, muxVars
  <2> QED BY <2>1, <2>2, <2>3, <2>4, <2>5
<1>7. CASE mpc = "new"
  <2>1. mpc' = "new"
    BY <1>7 DEF WriteHeader, WriteTrailer, MuxerReturns, Destory, Over, fileVars
  <2> QED BY <1>1, <1>2, <1>3, <1>5, <1>6, <2>1 DEF MuxInv
<1>8. CASE mpc # "new"
  <2>1. /\ mpc \in {"videoSent", "audioSent"} => mpc' = mpc
        /\ mpc' \in {"videoSent", "audioSent"} => mpc' = mpc
    BY DEF WriteHeader, WriteTrailer, MuxerReturns, Destory, Over, fileVars, DestoryInto
  <2>2. /\ sent' \in Seq([st : Streams, src : Nat, pts : Int, ok : {TRUE}])
        /\ VideoHeld' /\ SentSoFar(Video, input.video, v.src, PendingV)'
        /\ AudioHeld' /\ SentSoFar(Audio, input.audio, a.src, PendingA)'
    BY <1>2, <1>4, <1>8, <2>1, HeldStill
  <2> QED BY <1>3, <1>5, <1>6, <2>2 DEF MuxInv
<1> QED BY <1>7, <1>8

LEMMA WorkStep == ASSUME MuxInv, MuxWork PROVE MuxInv'
<1>1. IInv /\ MuxPhases /\ MuxCounts /\ Work /\ UNCHANGED fileVars
  BY DEF MuxInv, MuxWork
<1>2. IInv' /\ MuxCounts' /\ cur' = cur /\ Busy /\ pc' \in {pc, Return}
  BY <1>1, WorkCounts DEF fileVars
<1>3. UNCHANGED <<h264, streamVars, mpc, sent, input, failed>>
  BY <1>1 DEF fileVars
<1>4. mpc \notin {"new", "created", "loop"}
  BY <1>1, <1>2 DEF MuxPhases, Busy, Eof
<1>5. MuxPhases'
  BY <1>1, <1>2, <1>3, <1>4 DEF MuxPhases, Busy, Eof, Return, streamVars
<1>6. /\ sent' \in Seq([st : Streams, src : Nat, pts : Int, ok : {TRUE}])
      /\ VideoHeld' /\ SentSoFar(Video, input.video, v.src, PendingV)'
      /\ AudioHeld' /\ SentSoFar(Audio, input.audio, a.src, PendingA)'
  BY <1>2, <1>3, <1>4, HeldStill
<1> QED BY <1>2, <1>5, <1>6 DEF MuxInv

LEMMA ReadVideoStep == ASSUME MuxInv, ReadVideo PROVE MuxInv'
<1>1. /\ IInv /\ MuxPhases /\ MuxCounts /\ mpc = "videoSent" /\ pc = "idle" /\ mpc' = "loop" /\ readV
      /\ readV' = HasOwn(vfile) /\ v' = (IF HasOwn(vfile) THEN NextVideo ELSE v)
      /\ UNCHANGED <<h264, afile, a, readA, handle, sent, input, failed, muxVars>>
  BY DEF MuxInv, ReadVideo, MuxPhases
<1>2. /\ VideoHeld /\ SentSoFar(Video, input.video, v.src, PendingV)
      /\ AudioHeld /\ SentSoFar(Audio, input.audio, a.src, PendingA)
      /\ sent \in Seq([st : Streams, src : Nat, pts : Int, ok : {TRUE}])
  BY <1>1 DEF MuxInv
<1>3. IInv' /\ cur' = cur
  BY <1>1, OtherSteps DEF muxVars, queueVars
<1>4. MuxCounts'
  BY <1>1 DEF MuxCounts, muxVars, queueVars, writeVars
<1>5. MuxPhases'
  BY <1>1 DEF MuxPhases, muxVars
<1>6. VideoHeld'
  BY <1>1, <1>2, VideoReadOn
<1>7. AudioHeld' /\ PendingA' = PendingA
  BY <1>1, <1>2, <1>3, AudioStays DEF PendingA
<1>8. SentSoFar(Audio, input.audio, a.src, PendingA)'
  BY <1>1, <1>2, <1>7 DEF SentSoFar, SentOf, OwnUpTo
<1>9. SentSoFar(Video, input.video, v'.src, PendingV')
  <2> DEFINE file == input.video
             n == v.src
  <2>1. PendingV = FALSE /\ PendingV' = HasOwn(vfile) /\ SentSoFar(Video, file, n, FALSE)
    BY <1>1, <1>2 DEF PendingV, HasOwn
  <2>2. CASE ~HasOwn(vfile)
    <3>1. v' = v /\ PendingV' = FALSE
      BY <1>1, <2>1, <2>2 DEF HasOwn
    <3> QED BY <2>1, <3>1 DEF SentSoFar
  <2>3. CASE HasOwn(vfile)
    <3>1. HasOwn(file) /\ n \in OwnIn(file) /\ Left(vfile, file, n) /\ file \in Seq(VideoPackets)
      <4>1. ~HasOwn(<<>>)
        BY DEF HasOwn, OwnIn
      <4> QED BY <1>1, <1>2, <2>3, <4>1, Files DEF VideoHeld, VideoPlace, MuxPhases
    <3>2. n \in 0 .. Len(file) /\ n \in Nat
      BY <3>1, OwnPlaces
    <3> DEFINE m == n + FirstOwn(vfile)
    <3>3. m \in OwnIn(file) /\ n < m /\ OwnUpTo(file, m) = OwnUpTo(file, n) \union {m}
      BY <2>3, <3>1, <3>2, ReadOn
    <3>4. v'.src = m
      <4>1. v' = NextVideo /\ v \in [src : Nat, pts : Int, dts : Int \cup {NoTs}, next : Int,
                                      last : Int, offset : Int, count : Nat]
        BY <1>1, <1>2, <2>3 DEF VideoHeld, VideoPlace
      <4> QED BY <4>1 DEF NextVideo
    <3> HIDE DEF m
    <3>5. SentSoFar(Video, file, m, TRUE)
      BY <2>1, <3>1, <3>2, <3>3, SentReadOn
    <3>6. PendingV' = TRUE
      BY <2>1, <2>3
    <3> QED BY <3>4, <3>5, <3>6
  <2> QED BY <2>2, <2>3
<1>10. SentSoFar(Video, input.video, v.src, PendingV)'
  BY <1>1, <1>9 DEF SentSoFar, SentOf, OwnUpTo
<1> QED BY <1>1, <1>2, <1>3, <1>4, <1>5, <1>6, <1>7, <1>8, <1>10 DEF MuxInv

LEMMA ReadAudioStep == ASSUME MuxInv, ReadAudio PROVE MuxInv'
<1>1. /\ IInv /\ MuxPhases /\ MuxCounts /\ mpc = "audioSent" /\ pc = "idle" /\ mpc' = "loop" /\ readA
      /\ readA' = HasOwn(afile) /\ a' = (IF HasOwn(afile) THEN NextAudio ELSE a)
      /\ UNCHANGED <<h264, vfile, v, readV, handle, sent, input, failed, muxVars>>
  BY DEF MuxInv, ReadAudio, MuxPhases
<1>2. /\ VideoHeld /\ SentSoFar(Video, input.video, v.src, PendingV)
      /\ AudioHeld /\ SentSoFar(Audio, input.audio, a.src, PendingA)
      /\ sent \in Seq([st : Streams, src : Nat, pts : Int, ok : {TRUE}])
  BY <1>1 DEF MuxInv
<1>3. IInv' /\ cur' = cur
  BY <1>1, OtherSteps DEF muxVars, queueVars
<1>4. MuxCounts'
  BY <1>1 DEF MuxCounts, muxVars, queueVars, writeVars
<1>5. MuxPhases'
  BY <1>1 DEF MuxPhases, muxVars
<1>6. AudioHeld'
  BY <1>1, <1>2, AudioReadOn
<1>7. VideoHeld' /\ PendingV' = PendingV
  BY <1>1, <1>2, <1>3, VideoStays DEF PendingV
<1>8. SentSoFar(Video, input.video, v.src, PendingV)'
  BY <1>1, <1>2, <1>7 DEF SentSoFar, SentOf, OwnUpTo
<1>9. SentSoFar(Audio, input.audio, a'.src, PendingA')
  <2> DEFINE file == input.audio
             n == a.src
  <2>1. PendingA = FALSE /\ PendingA' = HasOwn(afile) /\ SentSoFar(Audio, file, n, FALSE)
    BY <1>1, <1>2 DEF PendingA, HasOwn
  <2>2. CASE ~HasOwn(afile)
    <3>1. a' = a /\ PendingA' = FALSE
      BY <1>1, <2>1, <2>2 DEF HasOwn
    <3> QED BY <2>1, <3>1 DEF SentSoFar
  <2>3. CASE HasOwn(afile)
    <3>1. HasOwn(file) /\ n \in OwnIn(file) /\ Left(afile, file, n) /\ file \in Seq([own : BOOLEAN])
      <4>1. ~HasOwn(<<>>)
        BY DEF HasOwn, OwnIn
      <4> QED BY <1>1, <1>2, <2>3, <4>1, Files DEF AudioHeld, MuxPhases
    <3>2. n \in 0 .. Len(file) /\ n \in Nat
      BY <3>1, OwnPlaces
    <3> DEFINE m == n + FirstOwn(afile)
    <3>3. m \in OwnIn(file) /\ n < m /\ OwnUpTo(file, m) = OwnUpTo(file, n) \union {m}
      BY <2>3, <3>1, <3>2, ReadOn
    <3>4. a'.src = m
      <4>1. a' = NextAudio /\ a \in [src : Nat, pts : Int, next : Int, last : Int, count : Nat]
        BY <1>1, <1>2, <2>3 DEF AudioHeld
      <4> QED BY <4>1 DEF NextAudio
    <3> HIDE DEF m
    <3>5. SentSoFar(Audio, file, m, TRUE)
      BY <2>1, <3>1, <3>2, <3>3, SentReadOn
    <3>6. PendingA' = TRUE
      BY <2>1, <2>3
    <3> QED BY <3>4, <3>5, <3>6
  <2> QED BY <2>2, <2>3
<1>10. SentSoFar(Audio, input.audio, a.src, PendingA)'
  BY <1>1, <1>9 DEF SentSoFar, SentOf, OwnUpTo
<1> QED BY <1>1, <1>2, <1>3, <1>4, <1>5, <1>6, <1>7, <1>8, <1>10 DEF MuxInv

LEMMA WriteVideoStep ==
  ASSUME MuxInv, WriteVideo,
         NEW pts, pts = Bump(Rescale(v.pts, VideoIn, Tick[Video]), v.last)
  PROVE  /\ MuxInv' /\ pts \in Int /\ VideoDts \in Int /\ Submit(Video, VideoDts)
         /\ out' = out /\ PendingV /\ readV /\ v.src \in Nat
         /\ v' = [v EXCEPT !.last = pts] /\ cur' = [cur EXCEPT ![Video] = VideoDts]
         /\ sent' = Append(sent, [st |-> Video, src |-> v.src, pts |-> pts, ok |-> TRUE])
<1> DEFINE dts == Rescale(v.dts, VideoIn, Tick[Video])
<1>1. /\ IInv /\ MuxPhases /\ MuxCounts /\ mpc = "loop" /\ pc = "idle" /\ readV
      /\ mpc' = "videoSent" /\ v' = [v EXCEPT !.last = pts]
      /\ UNCHANGED <<h264, vfile, afile, a, readV, readA, handle, input, failed>>
      /\ Give(Video, v.src, pts, dts)
  BY DEF MuxInv, WriteVideo, VideoIsNext
<1>2. /\ VideoHeld /\ SentSoFar(Video, input.video, v.src, PendingV)
      /\ AudioHeld /\ SentSoFar(Audio, input.audio, a.src, PendingA)
      /\ sent \in Seq([st : Streams, src : Nat, pts : Int, ok : {TRUE}])
  BY <1>1 DEF MuxInv
<1>3. PendingV = TRUE /\ PendingV' = FALSE /\ PendingA' = PendingA
  <2>1. readV \in BOOLEAN
    BY <1>1, <1>2 DEF VideoHeld, VideoPlace, VideoDue
  <2> QED BY <1>1, <2>1 DEF PendingV, PendingA
<1>4. /\ v.src \in Nat /\ pts \in Int /\ dts \in Int \union {NoTs}
      /\ VideoDts \in Int /\ VideoDts <= pts
      /\ (IF dts = NoTs THEN pts ELSE dts) = VideoDts
      /\ cur[Video] = NoTs \/ (cur[Video] \in Int /\ cur[Video] < VideoDts)
  BY <1>1, <1>2, <1>3, VideoGiven
<1> HIDE DEF dts
<1>5. /\ IInv' /\ MuxCounts' /\ Submit(Video, VideoDts)
      /\ cur' = [cur EXCEPT ![Video] = VideoDts] /\ pc' = "drain" /\ out' = out /\ lost' = lost
      /\ sent' = Append(sent, [st |-> Video, src |-> v.src, pts |-> pts, ok |-> TRUE])
  <2>1. Video \in Streams /\ VideoDts = IF dts = NoTs THEN pts ELSE dts
    BY <1>4, Clocks
  <2> QED BY <1>1, <1>4, <2>1, Gives
<1>6. cur'[Video] = VideoDts /\ cur'[Audio] = cur[Audio]
  <2>1. cur \in [Streams -> Int \cup {NoTs}]
    BY <1>1 DEF IInv, TypeOK
  <2> QED BY <1>5, <2>1, Clocks
<1>7. MuxPhases'
  BY <1>1, <1>5 DEF MuxPhases
<1>8. VideoHeld'
  BY <1>1, <1>2, <1>3, <1>4, <1>6, VideoWritten
<1>9. AudioHeld'
  BY <1>1, <1>2, <1>3, <1>6, AudioStays
<1>10. sent' \in Seq([st : Streams, src : Nat, pts : Int, ok : {TRUE}])
  BY <1>2, <1>4, <1>5, SentOn, Clocks
<1>11. SentSoFar(Video, input.video, v.src, PendingV)'
  <2> DEFINE src == v.src
  <2>1. src = 0 \/ src \in OwnIn(input.video)
    BY <1>2 DEF VideoHeld, VideoPlace
  <2>2. input.video \in Seq(VideoPackets)
    BY <1>1, Files DEF MuxPhases
  <2>3. SentSoFar(Video, input.video, src, TRUE)
    BY <1>2, <1>3
  <2>4. v'.src = src
    <3>1. v \in [src : Nat, pts : Int, dts : Int \cup {NoTs}, next : Int,
                                      last : Int, offset : Int, count : Nat]
      BY <1>2 DEF VideoHeld, VideoPlace
    <3> QED BY <1>1, <3>1
  <2> HIDE DEF src
  <2>5. src \in Nat /\ sent' = Append(sent, [st |-> Video, src |-> src, pts |-> pts, ok |-> TRUE])
    BY <1>4, <1>5 DEF src
  <2>6. /\ {sent'[i].src : i \in SentOf(Video)'} = OwnUpTo(input.video, src)
        /\ \A i, j \in SentOf(Video)' : i < j => sent'[i].src < sent'[j].src
    BY <1>2, <1>4, <2>1, <2>2, <2>3, <2>5, SentGiven, Clocks
  <2>7. OwnUpTo(input.video, src) \ (IF PendingV' THEN {src} ELSE {}) = OwnUpTo(input.video, src)
    BY <1>3
  <2> QED BY <1>1, <2>4, <2>6, <2>7 DEF SentSoFar, OwnUpTo
<1>12. SentSoFar(Audio, input.audio, a.src, PendingA)'
  <2> DEFINE src == v.src
  <2> HIDE DEF src
  <2>1. src \in Nat /\ sent' = Append(sent, [st |-> Video, src |-> src, pts |-> pts, ok |-> TRUE])
    BY <1>4, <1>5 DEF src
  <2>2. /\ SentOf(Audio)' = SentOf(Audio)
        /\ {sent'[i].src : i \in SentOf(Audio)'} = {sent[i].src : i \in SentOf(Audio)}
        /\ (\A i, j \in SentOf(Audio) : i < j => sent[i].src < sent[j].src)
              => \A i, j \in SentOf(Audio)' : i < j => sent'[i].src < sent'[j].src
    <3>1. Audio \in Streams /\ Video \in Streams /\ Audio # Video
      BY Clocks
    <3> QED BY <1>2, <1>4, <2>1, <3>1, SentElsewhere, Zenon
  <2> QED BY <1>1, <1>2, <1>3, <2>2 DEF SentSoFar, OwnUpTo
<1> QED BY <1>1, <1>3, <1>4, <1>5, <1>7, <1>8, <1>9, <1>10, <1>11, <1>12 DEF MuxInv

LEMMA WriteAudioStep ==
  ASSUME MuxInv, WriteAudio,
         NEW pts, pts = Bump(Rescale(a.pts, AudioIn, Tick[Audio]), a.last)
  PROVE  /\ MuxInv' /\ pts \in Int /\ Submit(Audio, pts)
         /\ out' = out /\ PendingA /\ readA /\ a.src \in Nat
         /\ a' = [a EXCEPT !.last = pts] /\ cur' = [cur EXCEPT ![Audio] = pts]
         /\ sent' = Append(sent, [st |-> Audio, src |-> a.src, pts |-> pts, ok |-> TRUE])
<1>1. /\ IInv /\ MuxPhases /\ MuxCounts /\ mpc = "loop" /\ pc = "idle" /\ readA
      /\ mpc' = "audioSent" /\ a' = [a EXCEPT !.last = pts]
      /\ UNCHANGED <<h264, vfile, afile, v, readV, readA, handle, input, failed>>
      /\ Give(Audio, a.src, pts, pts)
  BY DEF MuxInv, WriteAudio
<1>2. /\ VideoHeld /\ SentSoFar(Video, input.video, v.src, PendingV)
      /\ AudioHeld /\ SentSoFar(Audio, input.audio, a.src, PendingA)
      /\ sent \in Seq([st : Streams, src : Nat, pts : Int, ok : {TRUE}])
  BY <1>1 DEF MuxInv
<1>3. PendingA = TRUE /\ PendingA' = FALSE /\ PendingV' = PendingV
  BY <1>1 DEF PendingV, PendingA
<1>4. /\ a.src \in Nat /\ pts \in Int
      /\ cur[Audio] = NoTs \/ (cur[Audio] \in Int /\ cur[Audio] < pts)
  BY <1>2, AudioGiven
<1> DEFINE src == a.src
<1> HIDE DEF src
<1>5. src \in Nat /\ src = a.src
  BY <1>4 DEF src
<1>6. /\ IInv' /\ MuxCounts' /\ Submit(Audio, pts)
      /\ cur' = [cur EXCEPT ![Audio] = pts] /\ pc' = "drain" /\ out' = out /\ lost' = lost
      /\ sent' = Append(sent, [st |-> Audio, src |-> src, pts |-> pts, ok |-> TRUE])
  <2>1. Audio \in Streams /\ Give(Audio, src, pts, pts) /\ pts \in Int \union {NoTs} /\ pts <= pts
    BY <1>1, <1>4, Clocks DEF src
  <2>2. pts = IF pts = NoTs THEN pts ELSE pts
    OBVIOUS
  <2> QED BY <1>1, <1>4, <1>5, <2>1, <2>2, Gives
<1>7. cur'[Audio] = pts /\ cur'[Video] = cur[Video]
  <2>1. cur \in [Streams -> Int \cup {NoTs}]
    BY <1>1 DEF IInv, TypeOK
  <2> QED BY <1>6, <2>1, Clocks
<1>8. MuxPhases'
  BY <1>1, <1>6 DEF MuxPhases
<1>9. AudioHeld'
  BY <1>1, <1>2, <1>3, <1>4, <1>7, AudioWritten
<1>10. VideoHeld'
  BY <1>1, <1>2, <1>3, <1>7, VideoStays
<1>11. sent' \in Seq([st : Streams, src : Nat, pts : Int, ok : {TRUE}])
  BY <1>2, <1>4, <1>5, <1>6, SentOn, Clocks
<1>12. SentSoFar(Audio, input.audio, a.src, PendingA)'
  <2>1. src = 0 \/ src \in OwnIn(input.audio)
    BY <1>2, <1>5 DEF AudioHeld
  <2>2. input.audio \in Seq([own : BOOLEAN])
    BY <1>1, Files DEF MuxPhases
  <2>3. SentSoFar(Audio, input.audio, src, TRUE)
    BY <1>2, <1>3, <1>5
  <2>4. a'.src = src
    <3>1. a \in [src : Nat, pts : Int, next : Int, last : Int, count : Nat]
      BY <1>2 DEF AudioHeld
    <3> QED BY <1>1, <1>5, <3>1
  <2>5. /\ {sent'[i].src : i \in SentOf(Audio)'} = OwnUpTo(input.audio, src)
        /\ \A i, j \in SentOf(Audio)' : i < j => sent'[i].src < sent'[j].src
    BY <1>2, <1>4, <1>5, <1>6, <2>1, <2>2, <2>3, SentGiven, Clocks
  <2>6. OwnUpTo(input.audio, src) \ (IF PendingA' THEN {src} ELSE {}) = OwnUpTo(input.audio, src)
    BY <1>3
  <2> QED BY <1>1, <2>4, <2>5, <2>6 DEF SentSoFar, OwnUpTo
<1>13. SentSoFar(Video, input.video, v.src, PendingV)'
  <2>1. /\ SentOf(Video)' = SentOf(Video)
        /\ {sent'[i].src : i \in SentOf(Video)'} = {sent[i].src : i \in SentOf(Video)}
        /\ (\A i, j \in SentOf(Video) : i < j => sent[i].src < sent[j].src)
              => \A i, j \in SentOf(Video)' : i < j => sent'[i].src < sent'[j].src
    <3>1. Audio \in Streams /\ Video \in Streams /\ Video # Audio
      BY Clocks
    <3> QED BY <1>2, <1>4, <1>5, <1>6, <3>1, SentElsewhere, Zenon
  <2> QED BY <1>1, <1>2, <1>3, <2>1 DEF SentSoFar, OwnUpTo
<1> QED BY <1>1, <1>3, <1>4, <1>5, <1>6, <1>8, <1>9, <1>10, <1>11, <1>12, <1>13 DEF MuxInv

LEMMA MuxStep == ASSUME MuxInv, [MuxNext]_<<fileVars, muxVars>> PROVE MuxInv'
<1>1. CASE Create
  BY <1>1, CreateStep
<1>2. CASE WriteVideo
  <2>1. PICK pts : pts = Bump(Rescale(v.pts, VideoIn, Tick[Video]), v.last)
    OBVIOUS
  <2> QED BY <1>2, <2>1, WriteVideoStep
<1>3. CASE ReadVideo
  BY <1>3, ReadVideoStep
<1>4. CASE WriteAudio
  <2>1. PICK pts : pts = Bump(Rescale(a.pts, AudioIn, Tick[Audio]), a.last)
    OBVIOUS
  <2> QED BY <1>4, <2>1, WriteAudioStep
<1>5. CASE ReadAudio
  BY <1>5, ReadAudioStep
<1>6. CASE MuxWork
  BY <1>6, WorkStep
<1>7. CASE WriteHeader \/ WriteTrailer \/ MuxerReturns \/ Destory \/ Over \/ UNCHANGED <<fileVars, muxVars>>
  BY <1>7, QuietStep
<1> QED BY <1>1, <1>2, <1>3, <1>4, <1>5, <1>6, <1>7 DEF MuxNext, Step

(* The muxing program keeps its books, whatever the inputs, with B-frames or *)
(* without, and whatever fails.                                              *)
THEOREM MuxInvariance == MuxSpec => []MuxInv
BY MuxInitInv, MuxStep, PTL DEF MuxSpec

(* No packet of either input is lost, repeated, reordered or turned away.    *)
THEOREM EveryFrameKept == MuxSpec => []FramesKept
<1>1. ASSUME MuxInv PROVE FramesKept
  <2>1. /\ IInv /\ MuxPhases /\ MuxCounts
        /\ sent \in Seq([st : Streams, src : Nat, pts : Int, ok : {TRUE}])
        /\ mpc # "new" => /\ VideoHeld /\ SentSoFar(Video, input.video, v.src, PendingV)
                          /\ AudioHeld /\ SentSoFar(Audio, input.audio, a.src, PendingA)
    BY <1>1 DEF MuxInv
  <2>2. \A i \in DOMAIN sent : sent[i].ok
    <3>1. \A i \in DOMAIN sent : sent[i] \in [st : Streams, src : Nat, pts : Int, ok : {TRUE}]
      BY <2>1, LenProperties, ElementOfSeq
    <3> QED BY <3>1
  <2>3. ASSUME NEW s \in Streams, NEW i \in SentOf(s), NEW j \in SentOf(s), i < j
        PROVE  sent[i].src < sent[j].src
    <3>1. CASE mpc = "new"
      BY <2>1, <2>3, <3>1 DEF MuxPhases, SentOf
    <3>2. CASE mpc # "new"
      <4>1. s \in {Video, Audio}
        BY Clocks
      <4> QED BY <2>1, <2>3, <3>2, <4>1 DEF SentSoFar
    <3> QED BY <3>1, <3>2
  <2>4. ASSUME mpc = "muxed", ~failed, lost = {}
        PROVE  /\ {sent[i].src : i \in SentOf(Video)} = OwnIn(input.video)
               /\ {sent[i].src : i \in SentOf(Audio)} = OwnIn(input.audio)
               /\ Len(out) = Len(sent)
    <3>1. pc = "done" /\ ~readV /\ ~readA /\ buf = <<>>
      BY <2>1, <2>4 DEF MuxPhases, MuxCounts
    <3>2. OwnUpTo(input.video, v.src) = OwnIn(input.video) /\ OwnUpTo(input.audio, a.src) = OwnIn(input.audio)
      BY <2>1, <2>4, <3>1 DEF VideoHeld, VideoPlace, AudioHeld
    <3>3. {sent[i].src : i \in SentOf(Video)} = OwnIn(input.video)
      <4>1. ~PendingV
        BY <3>1 DEF PendingV
      <4> QED BY <2>1, <2>4, <3>2, <4>1 DEF SentSoFar
    <3>4. {sent[i].src : i \in SentOf(Audio)} = OwnIn(input.audio)
      <4>1. ~PendingA
        BY <3>1 DEF PendingA
      <4> QED BY <2>1, <2>4, <3>2, <4>1 DEF SentSoFar
    <3>5. Len(out) = Len(sent)
      <4>1. Len(out) \in Nat /\ Len(buf) = 0
        BY <2>1, <3>1, LenProperties DEF IInv, TypeOK
      <4> QED BY <2>1, <2>4, <4>1 DEF MuxCounts
    <3> QED BY <3>3, <3>4, <3>5
  <2> QED BY <2>2, <2>3, <2>4 DEF FramesKept
<1> QED BY <1>1, MuxInvariance, PTL

-----------------------------------------------------------------------------
(* The times of what was sent.                                               *)
LEMMA NearSum ==
  ASSUME NEW x \in Int, NEW y \in Int, NEW z \in Int, NEW d \in Int, NEW e \in Int, NEW f \in Int,
         Near(x, y, d), Near(y, z, e), d + e <= f
  PROVE  Near(x, z, f)
BY DEF Near

LEMMA RescaledNear ==
  ASSUME NEW t \in Int, NEW from \in Nat \ {0}, NEW to \in Nat \ {0}
  PROVE  /\ Rescale(t, from, to) \in Int
         /\ 2 * (Rescale(t, from, to) * to) \in Int /\ 2 * (t * from) \in Int
         /\ Near(2 * (Rescale(t, from, to) * to), 2 * (t * from), to)
<1> DEFINE r == Rescale(t, from, to) * to
           n == t * from
<1>1. Rescale(t, from, to) \in Int /\ n \in Int /\ r \in Int /\ 2 * r <= 2 * n + to /\ 2 * n - to <= 2 * r
  BY Rescaled
<1> HIDE DEF r, n
<1>2. Near(2 * r, 2 * n, to)
  BY <1>1 DEF Near
<1> QED BY <1>1, <1>2 DEF r, n

(* Audio frames are as far apart as their samples say. *)
LEMMA SteppedApart ==
  ASSUME NEW k \in Int, NEW step \in Nat, NEW units \in Nat \ {0}, NEW to \in Nat \ {0},
         NEW tick \in Nat \ {0}, step * units >= to + 2 * tick
  PROVE  (Rescale(k + step, units, to) - Rescale(k, units, to)) * to >= 2 * tick
<1> DEFINE r == Rescale(k, units, to)
           q == Rescale(k + step, units, to)
           n == k * units
           m == (k + step) * units
           w == step * units
<1>1. n \in Int /\ m \in Int /\ w \in Int /\ m = n + w
  OBVIOUS
<1>2. r \in Int /\ q \in Int /\ r * to \in Int /\ q * to \in Int
  <2>1. k + step \in Int
    OBVIOUS
  <2>2. r \in Int /\ q \in Int
    BY <2>1, Rescaled
  <2> HIDE DEF r, q
  <2> QED BY <2>2
<1>3. 2 * (r * to) <= 2 * n + to /\ 2 * m - to <= 2 * (q * to)
  <2>1. k + step \in Int
    OBVIOUS
  <2> QED BY <2>1, Rescaled
<1>4. w >= to + 2 * tick
  OBVIOUS
<1> HIDE DEF r, q, n, m, w
<1>5. (q - r) * to = q * to - r * to
  BY <1>2
<1> QED BY <1>1, <1>2, <1>3, <1>4, <1>5 DEF r, q

(* A packet that is sent, bumped or not, is within a tick of its due.        *)
LEMMA SentInTime ==
  ASSUME NEW z \in Int, NEW t \in Int, NEW from \in Nat \ {0}, NEW to \in Nat \ {0},
         NEW units \in Int, Near(2 * (t * from), 2 * units, from),
         Unbumped(z, t, from, to, TRUE),
         NEW pts, pts = Bump(Rescale(t, from, to), z)
  PROVE  /\ pts \in Int /\ Unbumped(pts, t, from, to, FALSE)
         /\ Rescale(t, from, to) <= pts
         /\ Near(2 * (pts * to), 2 * units, from + 2 * to)
         /\ 2 * (pts - 1) * to <= 2 * (t * from)
<1> DEFINE due == Rescale(t, from, to)
           n == t * from
           r == due * to
<1>1. due \in Int /\ n \in Int /\ r \in Int /\ Near(2 * r, 2 * n, to)
  <2>1. due \in Int /\ Near(2 * (due * to), 2 * n, to)
    BY RescaledNear
  <2> HIDE DEF due
  <2> QED BY <2>1
<1>2. t = 0 => due = 0 /\ n = 0
  BY RescaledZero
<1>3. pts = IF due <= z THEN z + 1 ELSE due
  BY DEF Bump
<1>4. z < due \/ (z = 0 /\ t = 0)
  BY DEF Unbumped
<1>5. Near(2 * n, 2 * units, from)
  OBVIOUS
<1>6. pts = due \/ (pts = 1 /\ due = 0 /\ n = 0)
  <2> HIDE DEF due, n
  <2> QED BY <1>1, <1>2, <1>3, <1>4
<1>7. Unbumped(pts, t, from, to, FALSE) <=> pts <= due + 1
  BY DEF Unbumped
<1>8. CASE pts = due
  <2>1. (pts - 1) * to = r - to /\ 2 * (pts - 1) * to = 2 * ((pts - 1) * to)
    <3>1. pts \in Int /\ r = pts * to
      BY <1>1, <1>8
    <3> HIDE DEF due, n, r
    <3> QED BY <3>1
  <2>2. pts * to = r
    BY <1>8
  <2> HIDE DEF due, n, r
  <2>3. Near(2 * r, 2 * units, from + 2 * to)
    BY <1>1, <1>5 DEF Near
  <2>4. 2 * (r - to) <= 2 * n
    BY <1>1 DEF Near
  <2>5. pts <= due + 1 /\ due <= pts /\ pts \in Int
    BY <1>1, <1>8
  <2> QED BY <1>7, <2>1, <2>2, <2>3, <2>4, <2>5 DEF due, n
<1>9. CASE pts = 1 /\ due = 0 /\ n = 0
  <2>1. pts * to = to /\ (pts - 1) * to = 0 /\ 2 * (pts - 1) * to = 0
    BY <1>9
  <2> HIDE DEF due, n, r
  <2>2. Near(2 * to, 2 * units, from + 2 * to)
    BY <1>5, <1>9 DEF Near
  <2>3. pts <= due + 1 /\ due <= pts /\ pts \in Int
    BY <1>9
  <2>4. 2 * (pts - 1) * to <= 2 * n
    BY <1>9, <2>1
  <2> QED BY <1>7, <1>9, <2>1, <2>2, <2>3, <2>4 DEF due, n
<1> QED BY <1>6, <1>8, <1>9

LEMMA VideoTimesOn ==
  ASSUME VideoTimesKept, sent \in Seq([st : Streams, src : Nat, pts : Int, ok : {TRUE}]),
         UNCHANGED <<h264, input>>, NEW s \in Streams, NEW src \in Nat, NEW pts \in Int,
         sent' = Append(sent, [st |-> s, src |-> src, pts |-> pts, ok |-> TRUE]),
         (s = Video /\ src > 0) =>
           Near(2 * (pts * Tick[Video]), 2 * VideoWanted(src), VideoIn + 2 * Tick[Video])
  PROVE  VideoTimesKept'
<1>1. \A n : VideoWanted(n)' = VideoWanted(n)
  BY DEF VideoWanted, OwnUpTo
<1>2. /\ \A i \in 1 .. Len(sent) : sent'[i] = sent[i]
      /\ sent'[Len(sent) + 1] = [st |-> s, src |-> src, pts |-> pts, ok |-> TRUE]
      /\ SentOf(Video) \subseteq 1 .. Len(sent)
      /\ SentOf(Video)' = SentOf(Video) \union (IF Video = s /\ src > 0 THEN {Len(sent) + 1} ELSE {})
  BY SentOn, Clocks, ZenonT(40)
<1>3. ASSUME NEW i \in SentOf(Video)'
      PROVE  Near(2 * (sent'[i].pts * Tick[Video]), 2 * VideoWanted(sent'[i].src),
                  VideoIn + 2 * Tick[Video])
  <2>1. CASE i \in SentOf(Video)
    BY <1>2, <2>1 DEF VideoTimesKept
  <2>2. CASE i \notin SentOf(Video)
    <3>1. s = Video /\ src > 0 /\ i = Len(sent) + 1
      BY <1>2, <2>2
    <3>2. sent'[i].pts = pts /\ sent'[i].src = src
      BY <1>2, <3>1
    <3> QED BY <3>1, <3>2
  <2> QED BY <2>1, <2>2
<1> QED BY <1>1, <1>3 DEF VideoTimesKept, Near

LEMMA AudioTimesOn ==
  ASSUME AudioTimesKept, sent \in Seq([st : Streams, src : Nat, pts : Int, ok : {TRUE}]),
         UNCHANGED input, NEW s \in Streams, NEW src \in Nat, NEW pts \in Int,
         sent' = Append(sent, [st |-> s, src |-> src, pts |-> pts, ok |-> TRUE]),
         (s = Audio /\ src > 0) =>
           Near(2 * (pts * Tick[Audio]), 2 * AudioWanted(src), AudioIn + 2 * Tick[Audio])
  PROVE  AudioTimesKept'
<1>1. \A n : AudioWanted(n)' = AudioWanted(n)
  BY DEF AudioWanted, OwnUpTo
<1>2. /\ \A i \in 1 .. Len(sent) : sent'[i] = sent[i]
      /\ sent'[Len(sent) + 1] = [st |-> s, src |-> src, pts |-> pts, ok |-> TRUE]
      /\ SentOf(Audio) \subseteq 1 .. Len(sent)
      /\ SentOf(Audio)' = SentOf(Audio) \union (IF Audio = s /\ src > 0 THEN {Len(sent) + 1} ELSE {})
  BY SentOn, Clocks, ZenonT(40)
<1>3. ASSUME NEW i \in SentOf(Audio)'
      PROVE  Near(2 * (sent'[i].pts * Tick[Audio]), 2 * AudioWanted(sent'[i].src),
                  AudioIn + 2 * Tick[Audio])
  <2>1. CASE i \in SentOf(Audio)
    BY <1>2, <2>1 DEF AudioTimesKept
  <2>2. CASE i \notin SentOf(Audio)
    <3>1. s = Audio /\ src > 0 /\ i = Len(sent) + 1
      BY <1>2, <2>2
    <3>2. sent'[i].pts = pts /\ sent'[i].src = src
      BY <1>2, <3>1
    <3> QED BY <3>1, <3>2
  <2> QED BY <2>1, <2>2
<1> QED BY <1>1, <1>3 DEF AudioTimesKept, Near

LEMMA TimesStay ==
  ASSUME TimesKept, UNCHANGED <<h264, input, sent>>
  PROVE  TimesKept'
<1>1. \A n : VideoWanted(n)' = VideoWanted(n) /\ AudioWanted(n)' = AudioWanted(n)
  BY DEF VideoWanted, AudioWanted, OwnUpTo
<1>2. \A s : SentOf(s)' = SentOf(s)
  BY DEF SentOf
<1>3. VideoTimesKept'
  BY <1>1, <1>2 DEF TimesKept, VideoTimesKept, Near
<1>4. AudioTimesKept'
  BY <1>1, <1>2 DEF TimesKept, AudioTimesKept, Near
<1> QED BY <1>3, <1>4 DEF TimesKept

(* What is held is due when it should be, to half a tick of the input. *)
LEMMA VideoDueInTime ==
  ASSUME MuxPhases, VideoHeld, HasOwn(input.video)
  PROVE  /\ v.pts \in Int /\ v.src \in Nat /\ v.src > 0
         /\ VideoWanted(v.src) \in Int /\ Near(2 * (v.pts * VideoIn), 2 * VideoWanted(v.src), VideoIn)
<1> DEFINE file == input.video
           n == v.src
<1>1. /\ input \in Inputs /\ h264 = input.h264 /\ file \in Seq(VideoPackets) /\ h264 \in BOOLEAN
  BY Files DEF MuxPhases
<1>2. n \in OwnIn(file) /\ n \in Nat /\ n > 0 /\ FirstOwn(file) \in OwnIn(file)
  <2>1. n \in OwnIn(file)
    BY DEF VideoHeld, VideoPlace
  <2> QED BY <1>1, <2>1, OwnPlaces
<1>3. v.pts \in Int /\ v.count \in Nat
  BY DEF VideoHeld, VideoPlace
<1>4. CASE h264
  <2>1. v.count = Cardinality(OwnUpTo(file, n)) /\ v.pts = Rescale(v.count - 1, FrameUnits, VideoIn)
    BY <1>4 DEF VideoHeld, VideoClock
  <2>2. VideoWanted(n) = (v.count - 1) * FrameUnits
    BY <1>4, <2>1 DEF VideoWanted
  <2>3. v.count - 1 \in Int /\ (v.count - 1) * FrameUnits \in Int
    BY <1>3, Clocks
  <2>4. Near(2 * (v.pts * VideoIn), 2 * VideoWanted(n), VideoIn)
    BY <2>1, <2>2, <2>3, RescaledNear, Clocks
  <2> QED BY <1>2, <1>3, <2>2, <2>3, <2>4
<1>5. CASE ~h264
  <2>1. v.offset = file[FirstOwn(file)].pts /\ v.pts = file[n].pts - v.offset
    BY <1>5 DEF VideoHeld, VideoClock
  <2>2. VideoWanted(n) = v.pts * VideoIn
    BY <1>5, <2>1 DEF VideoWanted
  <2>3. v.pts * VideoIn \in Int
    BY <1>3, Clocks
  <2> DEFINE w == v.pts * VideoIn
  <2>4. Near(2 * w, 2 * w, VideoIn)
    <3> HIDE DEF w
    <3> QED BY <2>3, Clocks DEF Near, w
  <2> QED BY <1>2, <1>3, <2>2, <2>3, <2>4
<1> QED BY <1>1, <1>4, <1>5

LEMMA AudioDueInTime ==
  ASSUME MuxPhases, AudioHeld, HasOwn(input.audio)
  PROVE  /\ a.pts \in Int /\ a.src \in Nat /\ a.src > 0
         /\ AudioWanted(a.src) \in Int /\ Near(2 * (a.pts * AudioIn), 2 * AudioWanted(a.src), AudioIn)
<1> DEFINE file == input.audio
           n == a.src
           c == Cardinality(OwnUpTo(file, n))
<1>1. input \in Inputs /\ file \in Seq([own : BOOLEAN])
  BY Files DEF MuxPhases
<1>2. n \in OwnIn(file) /\ n \in Nat /\ n > 0
  <2>1. n \in OwnIn(file)
    BY DEF AudioHeld
  <2> QED BY <1>1, <2>1, OwnPlaces
<1>3. a.pts \in Int /\ a.count = c * FrameSize /\ a.pts = Rescale(a.count - FrameSize, Tick[Audio], AudioIn)
  BY DEF AudioHeld
<1>4. c \in Nat
  BY <1>1, <1>2, OwnCount
<1>5. AudioWanted(n) = (c - 1) * FrameSize * Tick[Audio]
  BY DEF AudioWanted
<1> HIDE DEF c
<1>6. /\ a.count - FrameSize = (c - 1) * FrameSize /\ (c - 1) * FrameSize \in Int
      /\ (c - 1) * FrameSize * Tick[Audio] \in Int
  BY <1>3, <1>4, Clocks
<1> DEFINE k == (c - 1) * FrameSize
<1>7. k \in Int /\ a.pts = Rescale(k, Tick[Audio], AudioIn) /\ AudioWanted(n) = k * Tick[Audio]
  BY <1>3, <1>5, <1>6
<1> HIDE DEF k
<1>8. Near(2 * (a.pts * AudioIn), 2 * AudioWanted(n), AudioIn)
  BY <1>7, RescaledNear, Clocks
<1>9. AudioWanted(n) \in Int
  BY <1>7, Clocks
<1> QED BY <1>2, <1>3, <1>8, <1>9

(* The next packet of a stream is due two ticks or more after the last one.  *)
LEMMA VideoNextDue ==
  ASSUME NoBFrames, MuxPhases, VideoHeld, VideoHeld', ReadVideo, HasOwn(vfile)
  PROVE  /\ HasOwn(input.video) /\ v'.last = v.last
         /\ Rescale(v'.pts, VideoIn, Tick[Video]) >= Rescale(v.pts, VideoIn, Tick[Video]) + 2
         /\ v.pts <= v'.pts
<1> DEFINE file == input.video
           n == v.src
           m == n + FirstOwn(vfile)
<1>1. /\ input \in Inputs /\ h264 = input.h264 /\ file \in Seq(VideoPackets) /\ h264 \in BOOLEAN
      /\ v' = NextVideo /\ input' = input /\ h264' = h264
  BY Files DEF MuxPhases, ReadVideo
<1>2. ~HasOwn(<<>>)
  BY DEF HasOwn, OwnIn
<1>3. HasOwn(file) /\ n \in OwnIn(file) /\ Left(vfile, file, n)
  BY <1>2 DEF VideoHeld, VideoPlace
<1>4. n \in 0 .. Len(file) /\ n \in Nat
  BY <1>1, <1>3, OwnPlaces
<1>5. m \in OwnIn(file) /\ n < m /\ OwnUpTo(file, m) = OwnUpTo(file, n) \union {m}
  BY <1>1, <1>3, <1>4, ReadOn
<1>6. Cardinality(OwnUpTo(file, m)) = Cardinality(OwnUpTo(file, n)) + 1
  BY <1>1, <1>4, <1>5, OwnCount
<1>7. v'.src = m /\ v'.last = v.last
  <2>1. v \in [src : Nat, pts : Int, dts : Int \cup {NoTs}, next : Int, last : Int,
               offset : Int, count : Nat]
    BY DEF VideoHeld, VideoPlace
  <2> QED BY <1>1, <2>1 DEF NextVideo
<1>8. v.pts \in Int /\ v'.pts \in Int /\ v.count \in Nat /\ v'.count \in Nat /\ v.offset \in Int
  BY DEF VideoHeld, VideoPlace
<1>9. VideoClock /\ VideoClock'
  BY <1>1, <1>3 DEF VideoHeld
<1> HIDE DEF m
<1>10. (v'.pts - v.pts) * VideoIn >= 2 * Tick[Video]
  <2>1. CASE h264
    <3>1. v.count = Cardinality(OwnUpTo(file, n)) /\ v.pts = Rescale(v.count - 1, FrameUnits, VideoIn)
      BY <1>9, <2>1 DEF VideoClock
    <3>2. v'.count = Cardinality(OwnUpTo(file, m)) /\ v'.pts = Rescale(v'.count - 1, FrameUnits, VideoIn)
      BY <1>1, <1>7, <1>9, <2>1 DEF VideoClock, OwnUpTo
    <3> DEFINE k == v.count - 1
    <3>3. k \in Int /\ v'.count - 1 = k + 1
      BY <1>6, <1>8, <3>1, <3>2
    <3> HIDE DEF k
    <3>4. (Rescale(k + 1, FrameUnits, VideoIn) - Rescale(k, FrameUnits, VideoIn)) * VideoIn >= 2 * Tick[Video]
      BY <3>3, CountedApart, Clocks
    <3> QED BY <3>1, <3>2, <3>3, <3>4 DEF k
  <2>2. CASE ~h264
    <3>1. v.offset = file[FirstOwn(file)].pts /\ v.pts = file[n].pts - v.offset
      BY <1>9, <2>2 DEF VideoClock
    <3>2. v'.offset = file[FirstOwn(file)].pts /\ v'.pts = file[m].pts - v'.offset
      BY <1>1, <1>7, <1>9, <2>2 DEF VideoClock
    <3>3. /\ file[n].pts \in Int /\ file[m].pts \in Int
          /\ file[n].pts = file[n].dts /\ file[m].pts = file[m].dts
      <4>1. ~input.h264
        BY <1>1, <2>2
      <4> QED BY <1>1, <1>3, <1>5, <4>1, Frames DEF NoBFrames
    <3>4. (file[m].dts - file[n].dts) * VideoIn >= 2 * Tick[Video]
      <4>1. ~input.h264
        BY <1>1, <2>2
      <4> QED BY <1>1, <1>3, <1>5, <4>1, Frames
    <3>5. v'.pts - v.pts = file[m].dts - file[n].dts
      <4> DEFINE x == file[m].pts
                 y == file[n].pts
                 o == v.offset
      <4>1. x \in Int /\ y \in Int /\ o \in Int /\ v'.pts = x - o /\ v.pts = y - o
        BY <1>8, <3>1, <3>2, <3>3
      <4> HIDE DEF x, y, o
      <4>2. v'.pts - v.pts = x - y
        BY <4>1
      <4> QED BY <3>3, <4>2 DEF x, y
    <3> QED BY <3>4, <3>5
  <2> QED BY <1>1, <2>1, <2>2
<1>11. Rescale(v'.pts, VideoIn, Tick[Video]) >= Rescale(v.pts, VideoIn, Tick[Video]) + 2
  <2> DEFINE t == v.pts
             u == v'.pts
  <2> HIDE DEF t, u
  <2>1. t \in Int /\ u \in Int /\ (u - t) * VideoIn >= 2 * Tick[Video]
    BY <1>8, <1>10 DEF t, u
  <2>2. Rescale(u, VideoIn, Tick[Video]) >= Rescale(t, VideoIn, Tick[Video]) + 2
    BY <2>1, RescaledApart, Clocks
  <2> QED BY <2>2 DEF t, u
<1>12. v.pts <= v'.pts
  <2> SUFFICES ASSUME v'.pts - v.pts <= -1 PROVE FALSE
    BY <1>8
  <2>1. (v'.pts - v.pts) * VideoIn <= (-1) * VideoIn
    <3>1. v'.pts - v.pts \in Int /\ VideoIn \in Nat
      BY <1>8, Clocks
    <3> DEFINE w == v'.pts - v.pts
    <3> HIDE DEF w
    <3> QED BY <3>1, Scale DEF w
  <2>2. (v'.pts - v.pts) * VideoIn \in Int /\ (-1) * VideoIn < 0 /\ 2 * Tick[Video] >= 0
    BY <1>8, Clocks
  <2> QED BY <1>10, <2>1, <2>2, Clocks
<1> QED BY <1>3, <1>7, <1>11, <1>12

LEMMA AudioNextDue ==
  ASSUME MuxPhases, AudioHeld, AudioHeld', ReadAudio, HasOwn(afile)
  PROVE  /\ HasOwn(input.audio) /\ a'.last = a.last
         /\ Rescale(a'.pts, AudioIn, Tick[Audio]) >= Rescale(a.pts, AudioIn, Tick[Audio]) + 2
         /\ a.pts <= a'.pts
<1>1. a' = NextAudio /\ input' = input
  BY DEF ReadAudio
<1>2. ~HasOwn(<<>>)
  BY DEF HasOwn, OwnIn
<1>3. HasOwn(input.audio)
  BY <1>2 DEF AudioHeld
<1>4. /\ a \in [src : Nat, pts : Int, next : Int, last : Int, count : Nat]
      /\ a' \in [src : Nat, pts : Int, next : Int, last : Int, count : Nat]
  BY DEF AudioHeld
<1>5. a.pts \in Int /\ a'.pts \in Int /\ a.count \in Nat
  BY <1>4
<1>6. a'.last = a.last /\ a'.pts = Rescale(a.count, Tick[Audio], AudioIn)
  BY <1>1, <1>4 DEF NextAudio
<1>7. a.pts = Rescale(a.count - FrameSize, Tick[Audio], AudioIn)
  BY <1>3 DEF AudioHeld
<1> DEFINE k == a.count - FrameSize
<1>8. k \in Int /\ a.count = k + FrameSize
  BY <1>5, Clocks
<1> HIDE DEF k
<1>9. (Rescale(k + FrameSize, Tick[Audio], AudioIn) - Rescale(k, Tick[Audio], AudioIn)) * AudioIn
        >= 2 * Tick[Audio]
  BY <1>8, SteppedApart, Clocks
<1> DEFINE t == a.pts
           u == a'.pts
<1>10. t \in Int /\ u \in Int /\ (u - t) * AudioIn >= 2 * Tick[Audio]
  BY <1>5, <1>6, <1>7, <1>8, <1>9 DEF k
<1> HIDE DEF t, u
<1>11. Rescale(u, AudioIn, Tick[Audio]) >= Rescale(t, AudioIn, Tick[Audio]) + 2
  BY <1>10, RescaledApart, Clocks
<1>12. t <= u
  <2> SUFFICES ASSUME u - t <= -1 PROVE FALSE
    BY <1>10
  <2>1. (u - t) * AudioIn <= (-1) * AudioIn
    <3> DEFINE w == u - t
    <3>1. w \in Int /\ w <= -1 /\ AudioIn \in Nat
      BY <1>10, Clocks
    <3> HIDE DEF w
    <3>2. w * AudioIn <= (-1) * AudioIn
      BY <3>1, Scale
    <3> QED BY <3>2 DEF w
  <2>2. (-1) * AudioIn < 0 /\ 2 * Tick[Audio] >= 0 /\ (u - t) * AudioIn \in Int
    BY <1>10, Clocks
  <2> QED BY <1>10, <2>1, <2>2, Clocks
<1> QED BY <1>3, <1>6, <1>11, <1>12 DEF t, u

LEMMA TimelyStay ==
  ASSUME mpc # "new" \/ mpc' = "new", UNCHANGED input
  PROVE  /\ VideoTimely /\ v' = v /\ PendingV' = PendingV => VideoTimely'
         /\ AudioTimely /\ a' = a /\ PendingA' = PendingA => AudioTimely'
BY DEF VideoTimely, AudioTimely, Unbumped

LEMMA TimesCreate == ASSUME TimesInv, Create PROVE TimesInv'
<1>1. /\ MuxInv /\ MuxPhases /\ mpc = "new" /\ mpc' = "created" /\ v' = InitVideo /\ a' = InitAudio
      /\ readV' = TRUE /\ readA' = TRUE /\ UNCHANGED <<h264, sent, input>>
  BY DEF TimesInv, MuxInv, Create
<1>2. v = NewVideo /\ a = NewAudio /\ vfile = input.video /\ afile = input.audio
  BY <1>1 DEF MuxPhases
<1>3. MuxInv' /\ TimesKept'
  BY <1>1, CreateStep, TimesStay DEF TimesInv
<1>4. VideoTimely'
  <2>1. HasOwn(input.video) => v'.last = 0 /\ v'.pts = 0
    BY <1>1, <1>2 DEF InitVideo, NewVideo
  <2> QED BY <1>1, <2>1 DEF VideoTimely, Unbumped, PendingV
<1>5. AudioTimely'
  <2>1. HasOwn(input.audio) => a'.last = 0 /\ a'.pts = 0
    BY <1>1, <1>2 DEF InitAudio, NewAudio
  <2> QED BY <1>1, <2>1 DEF AudioTimely, Unbumped, PendingA
<1> QED BY <1>3, <1>4, <1>5 DEF TimesInv

LEMMA TimesWriteVideo ==
  ASSUME TimesInv, WriteVideo,
         NEW pts, pts = Bump(Rescale(v.pts, VideoIn, Tick[Video]), v.last)
  PROVE  /\ TimesInv'
         /\ HasOwn(input.video) =>
              /\ Rescale(v.pts, VideoIn, Tick[Video]) <= pts
              /\ 2 * (pts - 1) * Tick[Video] <= 2 * (v.pts * VideoIn)
<1>1. /\ MuxInv /\ MuxPhases /\ VideoHeld /\ mpc = "loop" /\ mpc' = "videoSent"
      /\ sent \in Seq([st : Streams, src : Nat, pts : Int, ok : {TRUE}])
      /\ UNCHANGED <<h264, a, readA, input>>
  BY DEF TimesInv, MuxInv, WriteVideo
<1>2. /\ MuxInv' /\ pts \in Int /\ PendingV /\ v.src \in Nat /\ v' = [v EXCEPT !.last = pts]
      /\ sent' = Append(sent, [st |-> Video, src |-> v.src, pts |-> pts, ok |-> TRUE])
  BY <1>1, WriteVideoStep
<1>3. PendingV' = FALSE /\ PendingA' = PendingA /\ PendingV = TRUE
  BY <1>1, <1>2 DEF PendingV, PendingA
<1>4. ASSUME HasOwn(input.video)
      PROVE  /\ Unbumped(pts, v.pts, VideoIn, Tick[Video], FALSE)
             /\ Near(2 * (pts * Tick[Video]), 2 * VideoWanted(v.src), VideoIn + 2 * Tick[Video])
             /\ Rescale(v.pts, VideoIn, Tick[Video]) <= pts
             /\ 2 * (pts - 1) * Tick[Video] <= 2 * (v.pts * VideoIn)
  <2>1. Unbumped(v.last, v.pts, VideoIn, Tick[Video], TRUE)
    BY <1>1, <1>3, <1>4 DEF TimesInv, VideoTimely
  <2>2. /\ v.pts \in Int /\ VideoWanted(v.src) \in Int
        /\ Near(2 * (v.pts * VideoIn), 2 * VideoWanted(v.src), VideoIn)
    BY <1>1, <1>4, VideoDueInTime
  <2>3. v.last \in Int
    BY <1>1 DEF VideoHeld, VideoPlace
  <2> DEFINE t == v.pts
             z == v.last
             w == VideoWanted(v.src)
  <2>4. /\ t \in Int /\ z \in Int /\ w \in Int /\ Near(2 * (t * VideoIn), 2 * w, VideoIn)
        /\ Unbumped(z, t, VideoIn, Tick[Video], TRUE) /\ pts = Bump(Rescale(t, VideoIn, Tick[Video]), z)
    BY <2>1, <2>2, <2>3
  <2> HIDE DEF t, z, w
  <2>5. /\ Unbumped(pts, t, VideoIn, Tick[Video], FALSE)
        /\ Rescale(t, VideoIn, Tick[Video]) <= pts
        /\ Near(2 * (pts * Tick[Video]), 2 * w, VideoIn + 2 * Tick[Video])
        /\ 2 * (pts - 1) * Tick[Video] <= 2 * (t * VideoIn)
    BY <2>4, SentInTime, Clocks
  <2> QED BY <2>5 DEF t, w
<1>5. v.src > 0 => HasOwn(input.video)
  BY <1>1 DEF VideoHeld, VideoPlace
<1> DEFINE src == v.src
<1> HIDE DEF src
<1>6. /\ src \in Nat /\ sent' = Append(sent, [st |-> Video, src |-> src, pts |-> pts, ok |-> TRUE])
      /\ src > 0 => Near(2 * (pts * Tick[Video]), 2 * VideoWanted(src), VideoIn + 2 * Tick[Video])
  BY <1>2, <1>4, <1>5 DEF src
<1>7. VideoTimesKept'
  BY <1>1, <1>2, <1>6, VideoTimesOn, Clocks DEF TimesInv, TimesKept
<1>8. AudioTimesKept'
  BY <1>1, <1>2, <1>6, AudioTimesOn, Clocks DEF TimesInv, TimesKept
<1>9. VideoTimely'
  <2>1. v'.last = pts /\ v'.pts = v.pts
    <3>1. v \in [src : Nat, pts : Int, dts : Int \cup {NoTs}, next : Int, last : Int,
                 offset : Int, count : Nat]
      BY <1>1 DEF VideoHeld, VideoPlace
    <3> QED BY <1>2, <3>1
  <2> QED BY <1>1, <1>3, <1>4, <2>1 DEF VideoTimely, Unbumped
<1>10. AudioTimely'
  BY <1>1, <1>3, TimelyStay DEF TimesInv
<1> QED BY <1>2, <1>4, <1>7, <1>8, <1>9, <1>10 DEF TimesInv, TimesKept

LEMMA TimesWriteAudio ==
  ASSUME TimesInv, WriteAudio,
         NEW pts, pts = Bump(Rescale(a.pts, AudioIn, Tick[Audio]), a.last)
  PROVE  /\ TimesInv'
         /\ HasOwn(input.audio) =>
              /\ Rescale(a.pts, AudioIn, Tick[Audio]) <= pts
              /\ 2 * (pts - 1) * Tick[Audio] <= 2 * (a.pts * AudioIn)
<1>1. /\ MuxInv /\ MuxPhases /\ AudioHeld /\ mpc = "loop" /\ mpc' = "audioSent"
      /\ sent \in Seq([st : Streams, src : Nat, pts : Int, ok : {TRUE}])
      /\ UNCHANGED <<h264, v, readV, input>>
  BY DEF TimesInv, MuxInv, WriteAudio
<1>2. /\ MuxInv' /\ pts \in Int /\ PendingA /\ a.src \in Nat /\ a' = [a EXCEPT !.last = pts]
      /\ sent' = Append(sent, [st |-> Audio, src |-> a.src, pts |-> pts, ok |-> TRUE])
  BY <1>1, WriteAudioStep
<1>3. PendingA' = FALSE /\ PendingV' = PendingV /\ PendingA = TRUE
  BY <1>1, <1>2 DEF PendingV, PendingA
<1>4. ASSUME HasOwn(input.audio)
      PROVE  /\ Unbumped(pts, a.pts, AudioIn, Tick[Audio], FALSE)
             /\ Near(2 * (pts * Tick[Audio]), 2 * AudioWanted(a.src), AudioIn + 2 * Tick[Audio])
             /\ Rescale(a.pts, AudioIn, Tick[Audio]) <= pts
             /\ 2 * (pts - 1) * Tick[Audio] <= 2 * (a.pts * AudioIn)
  <2>1. Unbumped(a.last, a.pts, AudioIn, Tick[Audio], TRUE)
    BY <1>1, <1>3, <1>4 DEF TimesInv, AudioTimely
  <2>2. /\ a.pts \in Int /\ AudioWanted(a.src) \in Int
        /\ Near(2 * (a.pts * AudioIn), 2 * AudioWanted(a.src), AudioIn)
    BY <1>1, <1>4, AudioDueInTime
  <2>3. a.last \in Int
    BY <1>1 DEF AudioHeld
  <2> DEFINE t == a.pts
             z == a.last
             w == AudioWanted(a.src)
  <2>4. /\ t \in Int /\ z \in Int /\ w \in Int /\ Near(2 * (t * AudioIn), 2 * w, AudioIn)
        /\ Unbumped(z, t, AudioIn, Tick[Audio], TRUE) /\ pts = Bump(Rescale(t, AudioIn, Tick[Audio]), z)
    BY <2>1, <2>2, <2>3
  <2> HIDE DEF t, z, w
  <2>5. /\ Unbumped(pts, t, AudioIn, Tick[Audio], FALSE)
        /\ Rescale(t, AudioIn, Tick[Audio]) <= pts
        /\ Near(2 * (pts * Tick[Audio]), 2 * w, AudioIn + 2 * Tick[Audio])
        /\ 2 * (pts - 1) * Tick[Audio] <= 2 * (t * AudioIn)
    BY <2>4, SentInTime, Clocks
  <2> QED BY <2>5 DEF t, w
<1>5. a.src > 0 => HasOwn(input.audio)
  BY <1>1 DEF AudioHeld
<1> DEFINE src == a.src
<1> HIDE DEF src
<1>6. /\ src \in Nat /\ sent' = Append(sent, [st |-> Audio, src |-> src, pts |-> pts, ok |-> TRUE])
      /\ src > 0 => Near(2 * (pts * Tick[Audio]), 2 * AudioWanted(src), AudioIn + 2 * Tick[Audio])
  BY <1>2, <1>4, <1>5 DEF src
<1>7. VideoTimesKept'
  BY <1>1, <1>2, <1>6, VideoTimesOn, Clocks, SMTT(30) DEF TimesInv, TimesKept
<1>8. AudioTimesKept'
  BY <1>1, <1>2, <1>6, AudioTimesOn, Clocks DEF TimesInv, TimesKept
<1>9. AudioTimely'
  <2>1. a'.last = pts /\ a'.pts = a.pts
    <3>1. a \in [src : Nat, pts : Int, next : Int, last : Int, count : Nat]
      BY <1>1 DEF AudioHeld
    <3> QED BY <1>2, <3>1
  <2> QED BY <1>1, <1>3, <1>4, <2>1 DEF AudioTimely, Unbumped
<1>10. VideoTimely'
  BY <1>1, <1>3, TimelyStay DEF TimesInv
<1> QED BY <1>2, <1>4, <1>7, <1>8, <1>9, <1>10 DEF TimesInv, TimesKept

LEMMA TimesReadVideo == ASSUME NoBFrames, TimesInv, ReadVideo PROVE TimesInv'
<1>1. /\ MuxInv /\ MuxPhases /\ VideoHeld /\ mpc = "videoSent" /\ mpc' = "loop" /\ readV
      /\ readV' = HasOwn(vfile) /\ v' = (IF HasOwn(vfile) THEN NextVideo ELSE v)
      /\ UNCHANGED <<h264, a, readA, sent, input>>
  BY DEF TimesInv, MuxInv, MuxPhases, ReadVideo
<1>2. MuxInv' /\ VideoHeld'
  BY <1>1, ReadVideoStep DEF MuxInv
<1>3. TimesKept'
  BY <1>1, TimesStay DEF TimesInv
<1>4. PendingV = FALSE /\ PendingV' = HasOwn(vfile) /\ PendingA' = PendingA
  BY <1>1 DEF PendingV, PendingA, HasOwn
<1>5. AudioTimely'
  BY <1>1, <1>4, TimelyStay DEF TimesInv
<1>6. VideoTimely'
  <2>1. CASE HasOwn(vfile)
    <3> DEFINE due == Rescale(v.pts, VideoIn, Tick[Video])
               new == Rescale(v'.pts, VideoIn, Tick[Video])
    <3>1. HasOwn(input.video) /\ v'.last = v.last /\ new >= due + 2
      BY <1>1, <1>2, <2>1, VideoNextDue
    <3>2. v.last <= due + 1
      BY <1>1, <1>4, <3>1 DEF TimesInv, VideoTimely, Unbumped
    <3>3. v.last \in Int /\ due \in Int /\ new \in Int
      <4>1. v.last \in Int /\ v.pts \in Int /\ v'.pts \in Int
        BY <1>1, <1>2 DEF VideoHeld, VideoPlace
      <4> QED BY <4>1, Rescaled, Clocks
    <3> HIDE DEF due, new
    <3>4. v'.last < new
      BY <3>1, <3>2, <3>3
    <3>5. PendingV' = TRUE
      BY <1>4, <2>1
    <3> QED BY <3>4, <3>5 DEF VideoTimely, Unbumped, new
  <2>2. CASE ~HasOwn(vfile)
    <3>1. v' = v /\ PendingV' = PendingV
      BY <1>1, <1>4, <2>2 DEF HasOwn
    <3> QED BY <1>1, <3>1, TimelyStay DEF TimesInv
  <2> QED BY <2>1, <2>2
<1> QED BY <1>2, <1>3, <1>5, <1>6 DEF TimesInv

LEMMA TimesReadAudio == ASSUME TimesInv, ReadAudio PROVE TimesInv'
<1>1. /\ MuxInv /\ MuxPhases /\ AudioHeld /\ mpc = "audioSent" /\ mpc' = "loop" /\ readA
      /\ readA' = HasOwn(afile) /\ a' = (IF HasOwn(afile) THEN NextAudio ELSE a)
      /\ UNCHANGED <<h264, v, readV, sent, input>>
  BY DEF TimesInv, MuxInv, MuxPhases, ReadAudio
<1>2. MuxInv' /\ AudioHeld'
  BY <1>1, ReadAudioStep DEF MuxInv
<1>3. TimesKept'
  BY <1>1, TimesStay DEF TimesInv
<1>4. PendingA = FALSE /\ PendingA' = HasOwn(afile) /\ PendingV' = PendingV
  BY <1>1 DEF PendingV, PendingA, HasOwn
<1>5. VideoTimely'
  BY <1>1, <1>4, TimelyStay DEF TimesInv
<1>6. AudioTimely'
  <2>1. CASE HasOwn(afile)
    <3> DEFINE due == Rescale(a.pts, AudioIn, Tick[Audio])
               new == Rescale(a'.pts, AudioIn, Tick[Audio])
    <3>1. HasOwn(input.audio) /\ a'.last = a.last /\ new >= due + 2
      BY <1>1, <1>2, <2>1, AudioNextDue
    <3>2. a.last <= due + 1
      BY <1>1, <1>4, <3>1 DEF TimesInv, AudioTimely, Unbumped
    <3>3. a.last \in Int /\ due \in Int /\ new \in Int
      <4>1. a.last \in Int /\ a.pts \in Int /\ a'.pts \in Int
        BY <1>1, <1>2 DEF AudioHeld
      <4> QED BY <4>1, Rescaled, Clocks
    <3> HIDE DEF due, new
    <3>4. a'.last < new
      BY <3>1, <3>2, <3>3
    <3>5. PendingA' = TRUE
      BY <1>4, <2>1
    <3> QED BY <3>4, <3>5 DEF AudioTimely, Unbumped, new
  <2>2. CASE ~HasOwn(afile)
    <3>1. a' = a /\ PendingA' = PendingA
      BY <1>1, <1>4, <2>2 DEF HasOwn
    <3> QED BY <1>1, <3>1, TimelyStay DEF TimesInv
  <2> QED BY <2>1, <2>2
<1> QED BY <1>2, <1>3, <1>5, <1>6 DEF TimesInv

(* All other steps leave the times alone. *)
LEMMA TimesOther ==
  ASSUME TimesInv, \/ WriteHeader \/ WriteTrailer \/ MuxerReturns \/ Destory \/ Over \/ MuxWork
                   \/ UNCHANGED <<fileVars, muxVars>>
  PROVE  TimesInv'
<1>1. MuxInv'
  BY QuietStep, WorkStep DEF TimesInv
<1>2. /\ UNCHANGED <<h264, v, a, readV, readA, sent, input>>
      /\ mpc \in {"videoSent", "audioSent"} => mpc' = mpc
      /\ mpc' \in {"videoSent", "audioSent"} => mpc' = mpc
      /\ mpc # "new" \/ mpc' = "new"
  BY DEF WriteHeader, WriteTrailer, MuxerReturns, Destory, Over, MuxWork, fileVars, streamVars,
         DestoryInto
<1>3. PendingV' = PendingV /\ PendingA' = PendingA
  BY <1>2 DEF PendingV, PendingA
<1>4. TimesKept'
  BY <1>2, TimesStay DEF TimesInv
<1>5. VideoTimely' /\ AudioTimely'
  BY <1>2, <1>3, TimelyStay DEF TimesInv
<1> QED BY <1>1, <1>4, <1>5 DEF TimesInv

LEMMA TimesInitInv == MuxInit => TimesInv
<1> SUFFICES ASSUME MuxInit PROVE TimesInv
  OBVIOUS
<1>1. MuxInv /\ mpc = "new" /\ sent = <<>>
  BY MuxInitInv DEF MuxInit
<1>2. \A s : SentOf(s) = {}
  BY <1>1 DEF SentOf
<1> QED BY <1>1, <1>2 DEF TimesInv, TimesKept, VideoTimesKept, AudioTimesKept, VideoTimely, AudioTimely

LEMMA TimesStep ==
  ASSUME NoBFrames, TimesInv, [MuxNext]_<<fileVars, muxVars>>
  PROVE  TimesInv'
<1>1. CASE Create
  BY <1>1, TimesCreate
<1>2. CASE WriteVideo
  <2>1. PICK pts : pts = Bump(Rescale(v.pts, VideoIn, Tick[Video]), v.last)
    OBVIOUS
  <2> QED BY <1>2, <2>1, TimesWriteVideo
<1>3. CASE ReadVideo
  BY <1>3, TimesReadVideo
<1>4. CASE WriteAudio
  <2>1. PICK pts : pts = Bump(Rescale(a.pts, AudioIn, Tick[Audio]), a.last)
    OBVIOUS
  <2> QED BY <1>4, <2>1, TimesWriteAudio
<1>5. CASE ReadAudio
  BY <1>5, TimesReadAudio
<1>6. CASE WriteHeader \/ WriteTrailer \/ MuxerReturns \/ Destory \/ Over \/ MuxWork
           \/ UNCHANGED <<fileVars, muxVars>>
  BY <1>6, TimesOther
<1> QED BY <1>1, <1>2, <1>3, <1>4, <1>5, <1>6 DEF MuxNext, Step

(* Without B-frames the times of neither stream drift, however long the      *)
(* inputs and whatever the time bases.                                       *)
THEOREM TimesDoNotDrift == NoBFrames => (MuxSpec => []TimesKept)
<1>1. TimesInv => TimesKept
  BY DEF TimesInv
<1> SUFFICES ASSUME NoBFrames PROVE MuxSpec => []TimesKept
  OBVIOUS
<1>2. TimesInv /\ [MuxNext]_<<fileVars, muxVars>> => TimesInv'
  BY TimesStep
<1> QED BY <1>1, <1>2, TimesInitInv, PTL DEF MuxSpec

-----------------------------------------------------------------------------
(* The order of the file, even where packets are forced out.                 *)

(* The dts of the video packet that is held, against its time. *)
LEMMA VideoDtsDue ==
  ASSUME NoBFrames, MuxPhases, VideoHeld, HasOwn(input.video)
  PROVE  /\ VideoDts \in Int /\ v.pts \in Int /\ v.next = v.pts
         /\ Rescale(v.pts, VideoIn, Tick[Video]) <= VideoDts
         /\ 2 * (VideoDts - 1) * Tick[Video] <= 2 * (v.pts * VideoIn)
<1> DEFINE file == input.video
           due == Rescale(v.pts, VideoIn, Tick[Video])
           n == v.pts * VideoIn
<1>1. /\ input \in Inputs /\ h264 = input.h264 /\ file \in Seq(VideoPackets) /\ h264 \in BOOLEAN
  BY Files DEF MuxPhases
<1>2. /\ v.src \in OwnIn(file) /\ v.next = v.pts /\ VideoClock
  BY DEF VideoHeld, VideoPlace
<1>3. v.pts \in Int /\ v.dts \in Int \cup {NoTs} /\ v.offset \in Int /\ v.count \in Nat
  BY DEF VideoHeld, VideoPlace
<1>4. due \in Int /\ n \in Int /\ due * Tick[Video] \in Int
      /\ 2 * (due * Tick[Video]) <= 2 * n + Tick[Video]
  BY <1>3, Rescaled, Clocks
<1>5. v.dts = v.pts \/ (v.dts = NoTs /\ v.pts = 0)
  <2>1. CASE h264
    <3>1. /\ v.count = Cardinality(OwnUpTo(file, v.src)) /\ v.pts = Rescale(v.count - 1, FrameUnits, VideoIn)
          /\ v.dts = v.pts \/ (v.src = FirstOwn(file) /\ v.dts = NoTs)
      BY <1>2, <2>1 DEF VideoClock
    <3>2. CASE v.src = FirstOwn(file) /\ v.dts = NoTs
      <4>1. v.count = 1
        BY <1>1, <3>1, <3>2, FirstCount
      <4>2. v.count - 1 = 0
        BY <4>1
      <4>3. v.pts = 0
        BY <3>1, <4>2, RescaledZero, Clocks
      <4> QED BY <3>2, <4>3
    <3> QED BY <3>1, <3>2
  <2>2. CASE ~h264
    <3>1. ~input.h264
      BY <1>1, <2>2
    <3>2. file[v.src].pts = file[v.src].dts
      BY <1>1, <1>2, <3>1 DEF NoBFrames
    <3> QED BY <1>2, <2>2, <3>2 DEF VideoClock
  <2> QED BY <1>1, <2>1, <2>2
<1>6. CASE v.dts = v.pts
  <2>1. VideoDts = due
    BY <1>3, <1>6, Clocks DEF VideoDts
  <2>2. (due - 1) * Tick[Video] = due * Tick[Video] - Tick[Video]
        /\ 2 * (due - 1) * Tick[Video] = 2 * ((due - 1) * Tick[Video])
    <3>1. due \in Int /\ Tick[Video] \in Int
      BY <1>4, Clocks
    <3> HIDE DEF due
    <3> QED BY <3>1
  <2>3. 2 * (due - 1) * Tick[Video] <= 2 * n
    <3> DEFINE r == due * Tick[Video]
               q == 2 * (due - 1) * Tick[Video]
    <3>1. r \in Int /\ Tick[Video] \in Nat /\ n \in Int /\ 2 * r <= 2 * n + Tick[Video] /\ q = 2 * (r - Tick[Video])
      BY <1>4, <2>2, Clocks
    <3> HIDE DEF r, q, n
    <3> QED BY <3>1 DEF q
  <2> HIDE DEF due, n
  <2> QED BY <1>2, <1>3, <1>4, <2>1, <2>3 DEF due, n
<1>7. CASE v.dts = NoTs /\ v.pts = 0
  <2>1. VideoDts = 1 /\ due = 0 /\ n = 0 /\ 2 * (1 - 1) * Tick[Video] = 0
    BY <1>7, RescaledZero, Clocks DEF VideoDts
  <2> HIDE DEF due, n
  <2>2. due <= VideoDts /\ VideoDts \in Int /\ 2 * (VideoDts - 1) * Tick[Video] <= 2 * n
    BY <2>1
  <2> QED BY <1>2, <1>3, <2>2 DEF due, n
<1> QED BY <1>5, <1>6, <1>7

(* A time that lies a tick or more before the packet lies before its stamp.  *)
LEMMA BeforeDue ==
  ASSUME NEW t \in Int, NEW p \in Int, NEW d \in Int, NEW from \in Nat \ {0}, NEW to \in Nat \ {0},
         Rescale(p, from, to) <= d, t + to <= p * from
  PROVE  t <= d * to
<1> DEFINE due == Rescale(p, from, to)
           n == p * from
           r == due * to
<1>1. due \in Int /\ n \in Int /\ r \in Int /\ 2 * n - to <= 2 * r
  BY Rescaled
<1>2. r <= d * to /\ d * to \in Int
  <2> HIDE DEF n
  <2> QED BY <1>1, Scale
<1>3. t + to <= n
  OBVIOUS
<1> HIDE DEF due, n, r
<1> QED BY <1>1, <1>2, <1>3

(* Two streams: one of them, or the other.                                   *)
LEMMA NextKnown ==
  ASSUME MuxInv, BothOwn, mpc # "new"
  PROVE  /\ v.next = v.pts /\ a.next = a.pts /\ v.next \in Int /\ a.next \in Int
         /\ v.next * VideoIn \in Int /\ a.next * AudioIn \in Int
         /\ cur \in [Streams -> Int \cup {NoTs}]
         /\ \A s \in Streams : /\ s = Audio \/ s = Video
                               /\ cur[s] # NoTs => /\ cur[s] \in Int /\ cur[s] * Tick[s] \in Int
                                                   /\ (cur[s] - 1) * Tick[s] = cur[s] * Tick[s] - Tick[s]
<1>1. VideoHeld /\ AudioHeld /\ IInv
  BY DEF MuxInv
<1>2. v.next = v.pts /\ a.next = a.pts /\ v.next \in Int /\ a.next \in Int
  BY <1>1 DEF BothOwn, VideoHeld, VideoPlace, AudioHeld
<1>3. v.next * VideoIn \in Int /\ a.next * AudioIn \in Int
  BY <1>2, Clocks
<1>4. cur \in [Streams -> Int \cup {NoTs}]
  BY <1>1 DEF IInv, TypeOK
<1>5. ASSUME NEW s \in Streams
      PROVE  /\ s = Audio \/ s = Video
             /\ cur[s] # NoTs => /\ cur[s] \in Int /\ cur[s] * Tick[s] \in Int
                                 /\ (cur[s] - 1) * Tick[s] = cur[s] * Tick[s] - Tick[s]
  <2>1. s = Audio \/ s = Video
    BY Clocks
  <2>2. Tick[s] \in Nat
    BY <2>1, Clocks
  <2>3. cur[s] # NoTs => cur[s] \in Int
    BY <1>4
  <2> DEFINE c == cur[s]
             k == Tick[s]
  <2>4. c # NoTs => c \in Int /\ k \in Int
    BY <2>2, <2>3
  <2> HIDE DEF c, k
  <2>5. c # NoTs => c \in Int /\ c * k \in Int /\ (c - 1) * k = c * k - k
    BY <2>4
  <2> QED BY <2>1, <2>5 DEF c, k
<1> QED BY <1>2, <1>3, <1>4, <1>5

LEMMA OrderStay ==
  ASSUME OrderInv, TimesInv', UNCHANGED <<out, cur, v, a, input, readV, readA>>,
         mpc # "new" \/ mpc' = "new",
         \A k \in 1 .. Len(buf') : \E i \in 1 .. Len(buf) : buf'[k] = buf[i]
  PROVE  OrderInv'
<1>1. FileOrdered' /\ (BothOwn' <=> BothOwn)
  BY DEF OrderInv, FileOrdered, BothOwn, Time
<1>2. ASSUME BothOwn, mpc' # "new" PROVE Level' /\ Floor'
  <2>1. Level /\ Floor
    BY <1>2 DEF OrderInv
  <2>2. Level'
    BY <2>1 DEF Level, NotAheadOf
  <2>3. Floor'
    BY <2>1 DEF Floor, NotBefore, Time
  <2> QED BY <2>2, <2>3
<1> QED BY <1>1, <1>2 DEF OrderInv

(* A packet that is written follows the last one; none that may still come   *)
(* precedes it: either both streams have sent later ones, or the one that    *)
(* has not is due later, because the delay that forces a packet out is       *)
(* longer than two ticks.                                                    *)
LEMMA OrderWritten ==
  ASSUME OrderInv, TimesInv', MuxWork, Busy, Ready, buf # <<>>, buf' = Tail(buf),
         out' = WrittenWith(buf[1]), cur' = cur
  PROVE  OrderInv'
<1> DEFINE p == buf[1]
           x == [pkt |-> p, ts |-> p.dts + OffFor(p)]
           n == Len(out)
           t == Time(buf[1])
<1>1. /\ TimesInv /\ MuxInv /\ IInv /\ TypeOK /\ MuxPhases
      /\ UNCHANGED <<v, a, input, readV, readA, mpc, h264>>
  BY DEF OrderInv, TimesInv, MuxInv, IInv, MuxWork, fileVars, streamVars
<1>2. /\ Len(buf) \in Nat \ {0} /\ p \in Packets /\ Len(buf') = Len(buf) - 1
      /\ \A k \in 1 .. Len(buf) - 1 : buf'[k] = buf[1 + k]
  BY <1>1, ListPops
<1>3. \A k \in 1 .. Len(buf) : t \in Int /\ Time(buf[k]) \in Int /\ t <= Time(buf[k])
  BY <1>1, HeadLeast
<1>4. t \in Int /\ Time(p) = t
  BY <1>2, <1>3
<1>5. n \in Nat /\ Len(out') = n + 1 /\ out'[n + 1].pkt = p /\ \A i \in 1 .. n : out'[i] = out[i]
  <2>1. p.dts + OffFor(p) \in Int
    BY <1>1, <1>2, OffType
  <2>2. x \in [pkt : Packets, ts : Int] /\ x.pkt = p
    BY <1>2, <2>1
  <2>3. out' = Append(out, x) /\ out \in Seq([pkt : Packets, ts : Int])
    BY <1>1 DEF WrittenWith, TypeOK
  <2> HIDE DEF x
  <2>4. /\ Len(out') = n + 1 /\ n \in Nat
        /\ \A i \in 1 .. n + 1 : out'[i] = IF i <= n THEN out[i] ELSE x
    BY <2>2, <2>3, Pushed
  <2> QED BY <2>2, <2>4
<1>6. mpc # "new"
  BY <1>1 DEF MuxPhases, Busy, Eof
<1>7. ASSUME BothOwn PROVE FileOrdered' /\ Level' /\ Floor'
  <2>1. FileOrdered /\ Level /\ Floor
    BY <1>6, <1>7 DEF OrderInv
  <2>2. \A i \in 1 .. n : Time(out[i].pkt) \in Int
    <3>1. \A i \in 1 .. n : out[i] \in [pkt : Packets, ts : Int]
      BY <1>1, ElementOfSeq DEF TypeOK
    <3> QED BY <3>1, TimeType
  <2>3. \A i \in 1 .. n : Time(out[i].pkt) <= t
    <3> SUFFICES ASSUME NEW i \in 1 .. n PROVE Time(out[i].pkt) <= t
      OBVIOUS
    <3>1. n \in 1 .. n /\ out # <<>> /\ 1 \in 1 .. Len(buf)
      BY <1>2, <1>5
    <3>2. Time(out[n].pkt) <= t
      BY <2>1, <3>1 DEF Floor
    <3>3. Time(out[i].pkt) <= Time(out[n].pkt)
      BY <1>5, <1>7, <2>1, <2>2, <3>1 DEF FileOrdered
    <3> QED BY <1>4, <2>2, <3>1, <3>2, <3>3
  <2>4. FileOrdered'
    <3>1. ASSUME NEW i \in 1 .. n + 1, NEW j \in 1 .. n + 1, i < j
          PROVE  Time(out'[i].pkt) <= Time(out'[j].pkt)
      <4>1. i \in 1 .. n
        BY <1>5, <3>1
      <4>2. CASE j \in 1 .. n
        BY <1>5, <1>7, <2>1, <3>1, <4>1, <4>2 DEF FileOrdered
      <4>3. CASE j = n + 1
        BY <1>4, <1>5, <2>3, <4>1, <4>3
      <4> QED BY <1>5, <4>2, <4>3
    <3> QED BY <1>5, <3>1 DEF FileOrdered, Time
  <2>5. Level'
    BY <1>1, <2>1 DEF Level, NotAheadOf
  <2>6. /\ v.next * VideoIn \in Int /\ a.next * AudioIn \in Int
        /\ cur \in [Streams -> Int \cup {NoTs}]
        /\ \A s \in Streams : /\ s = Audio \/ s = Video
                              /\ cur[s] # NoTs => /\ cur[s] \in Int /\ cur[s] * Tick[s] \in Int
                                                  /\ (cur[s] - 1) * Tick[s] = cur[s] * Tick[s] - Tick[s]
    BY <1>1, <1>6, <1>7, NextKnown
  <2>7. /\ readV => NotBefore(t, Video, v.next, VideoIn)
        /\ readA => NotBefore(t, Audio, a.next, AudioIn)
    <3>1. CASE pc = "trailer"
      BY <1>1, <3>1 DEF MuxPhases
    <3>2. CASE Full
      <4>1. \A s \in Streams : cur[s] # NoTs /\ t <= cur[s] * Tick[s]
        BY <1>1, <3>2, HeadBeforeAll
      <4> QED BY <4>1, Clocks DEF NotBefore
    <3>3. CASE pc # "trailer" /\ ~Full
      <4>1. Overdue
        BY <1>1, <3>3 DEF Ready, Busy, Eof, MuxPhases
      <4>2. PICK s \in Streams : last[s] # 0 /\ Time(buf[last[s]]) - t > MaxDelta
        BY <4>1 DEF Overdue, Span
      <4>3. MaxDelta \in Nat /\ MaxDelta >= Tick[Audio] + Tick[Video]
        BY <4>1, Clocks, InterleaverAssumption DEF Overdue
      <4> DEFINE q == buf[last[s]]
      <4>4. last[s] \in 1 .. Len(buf) /\ q.st = s
        BY <1>1, <1>2, <4>2 DEF IInv, TypeOK, LastIsLast
      <4>5. /\ q \in Packets /\ q.dts \in Int /\ cur[s] # NoTs /\ q.dts <= cur[s] /\ cur[s] \in Int
        BY <1>1, <2>6, <4>4, Waits, TimeType DEF IInv, NotAhead
      <4>6. Time(q) <= cur[s] * Tick[s] /\ Time(q) \in Int
        BY <4>4, <4>5, SameStream, TimeType
      <4> DEFINE c == cur[s] * Tick[s]
      <4>7. c \in Int /\ (cur[s] - 1) * Tick[s] = c - Tick[s] /\ cur[s] # NoTs
        BY <2>6, <4>5
      <4> HIDE DEF q, c
      <4>8. t + MaxDelta < c
        <5>1. Time(q) - t > MaxDelta /\ Time(q) <= c
          BY <4>2, <4>6 DEF q, c
        <5> QED BY <1>4, <4>3, <4>6, <4>7, <5>1
      <4>9. t <= c
        BY <1>4, <4>3, <4>7, <4>8
      <4>10. Tick[Audio] \in Nat /\ Tick[Video] \in Nat
        BY Clocks
      <4>11. CASE s = Video
        <5>1. ASSUME readA PROVE t + Tick[Audio] <= a.next * AudioIn
          <6>1. c - Tick[Video] <= a.next * AudioIn
            BY <2>1, <4>7, <4>11, <5>1 DEF Level, NotAheadOf
          <6> QED BY <1>4, <2>6, <4>3, <4>7, <4>8, <4>10, <6>1
        <5> QED BY <4>7, <4>9, <4>11, <5>1 DEF NotBefore, c
      <4>12. CASE s = Audio
        <5>1. ASSUME readV PROVE t + Tick[Video] <= v.next * VideoIn
          <6>1. c - Tick[Audio] <= v.next * VideoIn
            BY <2>1, <4>7, <4>12, <5>1 DEF Level, NotAheadOf
          <6> QED BY <1>4, <2>6, <4>3, <4>7, <4>8, <4>10, <6>1
        <5> QED BY <4>7, <4>9, <4>12, <5>1 DEF NotBefore, c
      <4> QED BY <2>6, <4>11, <4>12
    <3> QED BY <3>1, <3>2, <3>3
  <2>8. Floor'
    <3>1. Time(out'[Len(out')].pkt) = t
      BY <1>4, <1>5
    <3>2. \A k \in 1 .. Len(buf') : t <= Time(buf'[k])
      <4>1. \A k \in 1 .. Len(buf') : 1 + k \in 1 .. Len(buf) /\ buf'[k] = buf[1 + k]
        BY <1>2
      <4> QED BY <1>3, <4>1
    <3> QED BY <1>1, <2>7, <3>1, <3>2 DEF Floor, NotBefore, Time
  <2> QED BY <2>4, <2>5, <2>8
<1>8. ~BothOwn => FileOrdered'
  BY <1>1 DEF FileOrdered, BothOwn
<1> QED BY <1>1, <1>7, <1>8 DEF OrderInv, BothOwn

LEMMA OrderWork == ASSUME OrderInv, TimesInv', MuxWork PROVE OrderInv'
<1>1. /\ TypeOK /\ IInv /\ MuxPhases /\ UNCHANGED <<v, a, input, readV, readA, mpc>> /\ Work
      /\ Len(buf) \in Nat
  BY LenProperties DEF OrderInv, TimesInv, MuxInv, IInv, TypeOK, MuxWork, fileVars, streamVars
<1>2. mpc # "new" \/ mpc' = "new"
  BY <1>1
<1>3. CASE Truncate
  <2>1. PICK m \in 1 .. Len(buf) : buf' = SubSeq(buf, m + 1, Len(buf))
    BY <1>3 DEF Truncate
  <2>2. /\ Len(buf') = Len(buf) - m
        /\ \A k \in 1 .. Len(buf) - m : buf'[k] = buf[m + k]
    BY <1>1, <2>1, ListShrinks
  <2>3. \A k \in 1 .. Len(buf') : m + k \in 1 .. Len(buf) /\ buf'[k] = buf[m + k]
    BY <1>1, <2>2
  <2>4. \A k \in 1 .. Len(buf') : \E i \in 1 .. Len(buf) : buf'[k] = buf[i]
    BY <2>3
  <2>5. UNCHANGED <<out, cur>>
    BY <1>3 DEF Truncate, writeVars
  <2> QED BY <1>1, <1>2, <2>4, <2>5, OrderStay
<1>4. CASE WriteOne
  <2>1. PICK fails \in BOOLEAN : WritePacket(buf[1], fails)
    BY <1>4 DEF WriteOne
  <2>2. Busy /\ Ready /\ buf # <<>> /\ buf' = Tail(buf) /\ cur' = cur
    BY <1>4 DEF WriteOne, Ready
  <2>3. out' = out \/ out' = WrittenWith(buf[1])
    BY <2>1 DEF WritePacket
  <2>4. CASE out' = WrittenWith(buf[1])
    BY <2>2, <2>4, OrderWritten
  <2>5. CASE out' = out
    <3>1. /\ Len(buf') = Len(buf) - 1
          /\ \A k \in 1 .. Len(buf) - 1 : buf'[k] = buf[1 + k]
      BY <1>1, <2>2, ListPops
    <3>2. \A k \in 1 .. Len(buf') : 1 + k \in 1 .. Len(buf) /\ buf'[k] = buf[1 + k]
      BY <1>1, <3>1
    <3>3. \A k \in 1 .. Len(buf') : \E i \in 1 .. Len(buf) : buf'[k] = buf[i]
      BY <3>2
    <3> QED BY <1>1, <1>2, <2>2, <2>5, <3>3, OrderStay
  <2> QED BY <2>3, <2>4, <2>5
<1>5. CASE Finish
  <2>1. UNCHANGED <<out, cur, buf>>
    BY <1>5 DEF Finish, queueVars, writeVars
  <2>2. \A k \in 1 .. Len(buf') : \E i \in 1 .. Len(buf) : buf'[k] = buf[i]
    BY <2>1
  <2> QED BY <1>1, <1>2, <2>1, <2>2, OrderStay
<1> QED BY <1>1, <1>3, <1>4, <1>5 DEF Work

LEMMA OrderQuiet ==
  ASSUME OrderInv, TimesInv', \/ WriteHeader \/ WriteTrailer \/ MuxerReturns \/ Destory \/ Over
                              \/ UNCHANGED <<fileVars, muxVars>>
  PROVE  OrderInv'
<1>1. UNCHANGED <<v, a, input, readV, readA, cur, out, buf>> /\ (mpc # "new" \/ mpc' = "new")
  BY DEF WriteHeader, WriteTrailer, MuxerReturns, Destory, Over, fileVars, streamVars, muxVars,
         Trailer, queueVars, writeVars
<1>2. \A k \in 1 .. Len(buf') : \E i \in 1 .. Len(buf) : buf'[k] = buf[i]
  BY <1>1
<1> QED BY <1>1, <1>2, OrderStay

LEMMA OrderCreate == ASSUME OrderInv, TimesInv', Create PROVE OrderInv'
<1>1. mpc = "new" /\ UNCHANGED <<out, cur, input>>
  BY DEF Create, muxVars, queueVars, writeVars
<1>2. out' = <<>> /\ cur'[Audio] = NoTs /\ cur'[Video] = NoTs
  BY <1>1, Clocks DEF OrderInv, TimesInv, MuxInv, MuxPhases
<1>3. FileOrdered'
  BY <1>2 DEF FileOrdered
<1>4. Level' /\ Floor'
  BY <1>2 DEF Level, NotAheadOf, Floor
<1> QED BY <1>3, <1>4 DEF OrderInv

(* Reading on moves the time of the stream on.                               *)
LEMMA OrderReadVideo == ASSUME NoBFrames, OrderInv, TimesInv', ReadVideo PROVE OrderInv'
<1>1. /\ TimesInv /\ MuxInv /\ MuxInv' /\ MuxPhases /\ VideoHeld /\ mpc = "videoSent" /\ mpc' = "loop"
      /\ readV /\ readV' = HasOwn(vfile) /\ v' = (IF HasOwn(vfile) THEN NextVideo ELSE v)
      /\ UNCHANGED <<a, readA, input, out, buf, cur>>
  BY DEF OrderInv, TimesInv, MuxInv, MuxPhases, ReadVideo, muxVars, queueVars, writeVars
<1>2. FileOrdered' /\ (BothOwn' <=> BothOwn)
  BY <1>1 DEF OrderInv, FileOrdered, BothOwn, Time
<1>3. ASSUME BothOwn PROVE Level' /\ Floor'
  <2>1. Level /\ Floor
    BY <1>1, <1>3 DEF OrderInv
  <2>2. readV' => v.next * VideoIn <= v'.next * VideoIn /\ v.next * VideoIn \in Int /\ v'.next * VideoIn \in Int
    <3> SUFFICES ASSUME readV'
                 PROVE  /\ v.next * VideoIn <= v'.next * VideoIn
                        /\ v.next * VideoIn \in Int /\ v'.next * VideoIn \in Int
      OBVIOUS
    <3>1. VideoHeld'
      BY <1>1 DEF MuxInv
    <3>2. v.pts <= v'.pts
      BY <1>1, <3>1, VideoNextDue
    <3>3. v.next = v.pts /\ v.next \in Int
      BY <1>1, <1>3, NextKnown
    <3>4. v'.next = v'.pts /\ v'.next \in Int
      BY <1>1, <1>3, <3>1 DEF VideoHeld, VideoPlace, BothOwn
    <3> DEFINE x == v.next
               y == v'.next
    <3>5. x \in Int /\ y \in Int /\ x <= y /\ VideoIn \in Nat
      BY <3>2, <3>3, <3>4, Clocks
    <3> HIDE DEF x, y
    <3>6. x * VideoIn \in Int /\ y * VideoIn \in Int /\ x * VideoIn <= y * VideoIn
      BY <3>5, Scale
    <3> QED BY <3>6 DEF x, y
  <2>3. Level'
    <3>1. readA' => NotAheadOf(Video, a.next, AudioIn)'
      BY <1>1, <2>1 DEF Level, NotAheadOf
    <3>2. readV' => NotAheadOf(Audio, v.next, VideoIn)'
      <4>1. ASSUME readV', cur[Audio] # NoTs
            PROVE  (cur[Audio] - 1) * Tick[Audio] <= v'.next * VideoIn
        <5>1. (cur[Audio] - 1) * Tick[Audio] <= v.next * VideoIn
          BY <1>1, <2>1, <4>1 DEF Level, NotAheadOf
        <5>2. (cur[Audio] - 1) * Tick[Audio] \in Int
          BY <1>1, <1>3, <4>1, NextKnown, Clocks
        <5> DEFINE x == (cur[Audio] - 1) * Tick[Audio]
        <5> HIDE DEF x
        <5>3. x <= v'.next * VideoIn
          BY <2>2, <4>1, <5>1, <5>2 DEF x
        <5> QED BY <5>3 DEF x
      <4> QED BY <1>1, <4>1 DEF NotAheadOf
    <3> QED BY <3>1, <3>2 DEF Level
  <2>4. Floor'
    <3>1. CASE out = <<>>
      BY <1>1, <3>1 DEF Floor
    <3>2. CASE out # <<>>
      <4> DEFINE t == Time(out[Len(out)].pkt)
      <4>1. t \in Int
        <5>1. out \in Seq([pkt : Packets, ts : Int]) /\ Len(out) \in 1 .. Len(out)
          BY <1>1, <3>2, EmptySeq, LenProperties DEF MuxInv, IInv, TypeOK
        <5>2. out[Len(out)] \in [pkt : Packets, ts : Int]
          BY <5>1, ElementOfSeq
        <5>3. out[Len(out)].pkt \in Packets
          BY <5>2
        <5> QED BY <5>3, TimeType
      <4>2. /\ \A i \in 1 .. Len(buf) : t <= Time(buf[i])
            /\ NotBefore(t, Video, v.next, VideoIn)
            /\ readA => NotBefore(t, Audio, a.next, AudioIn)
        BY <1>1, <2>1, <3>2 DEF Floor
      <4> HIDE DEF t
      <4>3. ASSUME readV', t + Tick[Video] <= v.next * VideoIn
            PROVE  t + Tick[Video] <= v'.next * VideoIn
        BY <2>2, <4>1, <4>3, Clocks
      <4>4. /\ readV' => \/ cur'[Video] # NoTs /\ t <= cur'[Video] * Tick[Video]
                         \/ t + Tick[Video] <= v'.next * VideoIn
            /\ readA' => \/ cur'[Audio] # NoTs /\ t <= cur'[Audio] * Tick[Audio]
                         \/ t + Tick[Audio] <= a'.next * AudioIn
        BY <1>1, <4>2, <4>3 DEF NotBefore
      <4>5. t = Time(out'[Len(out')].pkt) /\ \A i \in 1 .. Len(buf') : t <= Time(buf'[i])
        BY <1>1, <4>2 DEF t
      <4> QED BY <4>4, <4>5 DEF Floor, NotBefore, Time
    <3> QED BY <3>1, <3>2
  <2> QED BY <2>3, <2>4
<1> QED BY <1>2, <1>3 DEF OrderInv, BothOwn

LEMMA OrderReadAudio == ASSUME OrderInv, TimesInv', ReadAudio PROVE OrderInv'
<1>1. /\ TimesInv /\ MuxInv /\ MuxInv' /\ MuxPhases /\ AudioHeld /\ mpc = "audioSent" /\ mpc' = "loop"
      /\ readA /\ readA' = HasOwn(afile) /\ a' = (IF HasOwn(afile) THEN NextAudio ELSE a)
      /\ UNCHANGED <<v, readV, input, out, buf, cur>>
  BY DEF OrderInv, TimesInv, MuxInv, MuxPhases, ReadAudio, muxVars, queueVars, writeVars
<1>2. FileOrdered' /\ (BothOwn' <=> BothOwn)
  BY <1>1 DEF OrderInv, FileOrdered, BothOwn, Time
<1>3. ASSUME BothOwn PROVE Level' /\ Floor'
  <2>1. Level /\ Floor
    BY <1>1, <1>3 DEF OrderInv
  <2>2. readA' => a.next * AudioIn <= a'.next * AudioIn /\ a.next * AudioIn \in Int /\ a'.next * AudioIn \in Int
    <3> SUFFICES ASSUME readA'
                 PROVE  /\ a.next * AudioIn <= a'.next * AudioIn
                        /\ a.next * AudioIn \in Int /\ a'.next * AudioIn \in Int
      OBVIOUS
    <3>1. AudioHeld'
      BY <1>1 DEF MuxInv
    <3>2. a.pts <= a'.pts
      BY <1>1, <3>1, AudioNextDue
    <3>3. a.next = a.pts /\ a.next \in Int
      BY <1>1, <1>3, NextKnown
    <3>4. a'.next = a'.pts /\ a'.next \in Int
      BY <1>1, <1>3, <3>1 DEF AudioHeld, BothOwn
    <3> DEFINE x == a.next
               y == a'.next
    <3>5. x \in Int /\ y \in Int /\ x <= y /\ AudioIn \in Nat
      BY <3>2, <3>3, <3>4, Clocks
    <3> HIDE DEF x, y
    <3>6. x * AudioIn \in Int /\ y * AudioIn \in Int /\ x * AudioIn <= y * AudioIn
      BY <3>5, Scale
    <3> QED BY <3>6 DEF x, y
  <2>3. Level'
    <3>1. readV' => NotAheadOf(Audio, v.next, VideoIn)'
      BY <1>1, <2>1 DEF Level, NotAheadOf
    <3>2. readA' => NotAheadOf(Video, a.next, AudioIn)'
      <4>1. ASSUME readA', cur[Video] # NoTs
            PROVE  (cur[Video] - 1) * Tick[Video] <= a'.next * AudioIn
        <5>1. (cur[Video] - 1) * Tick[Video] <= a.next * AudioIn
          BY <1>1, <2>1, <4>1 DEF Level, NotAheadOf
        <5>2. (cur[Video] - 1) * Tick[Video] \in Int
          BY <1>1, <1>3, <4>1, NextKnown, Clocks
        <5> DEFINE x == (cur[Video] - 1) * Tick[Video]
        <5> HIDE DEF x
        <5>3. x <= a'.next * AudioIn
          BY <2>2, <4>1, <5>1, <5>2 DEF x
        <5> QED BY <5>3 DEF x
      <4> QED BY <1>1, <4>1 DEF NotAheadOf
    <3> QED BY <3>1, <3>2 DEF Level
  <2>4. Floor'
    <3>1. CASE out = <<>>
      BY <1>1, <3>1 DEF Floor
    <3>2. CASE out # <<>>
      <4> DEFINE t == Time(out[Len(out)].pkt)
      <4>1. t \in Int
        <5>1. out \in Seq([pkt : Packets, ts : Int]) /\ Len(out) \in 1 .. Len(out)
          BY <1>1, <3>2, EmptySeq, LenProperties DEF MuxInv, IInv, TypeOK
        <5>2. out[Len(out)] \in [pkt : Packets, ts : Int]
          BY <5>1, ElementOfSeq
        <5>3. out[Len(out)].pkt \in Packets
          BY <5>2
        <5> QED BY <5>3, TimeType
      <4>2. /\ \A i \in 1 .. Len(buf) : t <= Time(buf[i])
            /\ NotBefore(t, Audio, a.next, AudioIn)
            /\ readV => NotBefore(t, Video, v.next, VideoIn)
        BY <1>1, <2>1, <3>2 DEF Floor
      <4> HIDE DEF t
      <4>3. ASSUME readA', t + Tick[Audio] <= a.next * AudioIn
            PROVE  t + Tick[Audio] <= a'.next * AudioIn
        BY <2>2, <4>1, <4>3, Clocks
      <4>4. /\ readA' => \/ cur'[Audio] # NoTs /\ t <= cur'[Audio] * Tick[Audio]
                         \/ t + Tick[Audio] <= a'.next * AudioIn
            /\ readV' => \/ cur'[Video] # NoTs /\ t <= cur'[Video] * Tick[Video]
                         \/ t + Tick[Video] <= v'.next * VideoIn
        BY <1>1, <4>2, <4>3 DEF NotBefore
      <4>5. t = Time(out'[Len(out')].pkt) /\ \A i \in 1 .. Len(buf') : t <= Time(buf'[i])
        BY <1>1, <4>2 DEF t
      <4> QED BY <4>4, <4>5 DEF Floor, NotBefore, Time
    <3> QED BY <3>1, <3>2
  <2> QED BY <2>3, <2>4
<1> QED BY <1>2, <1>3 DEF OrderInv, BothOwn

(* A packet that is given follows the last one that was written.             *)
LEMMA OrderGiven ==
  ASSUME IInv, NEW s \in Streams, NEW d \in Int, Submit(s, d), NEW t \in Int,
         \A i \in 1 .. Len(buf) : t <= Time(buf[i]), t <= d * Tick[s]
  PROVE  \A i \in 1 .. Len(buf') : t <= Time(buf'[i])
<1> DEFINE p == [st |-> s, dts |-> d, no |-> taken[s] + 1]
<1>1. PICK i \in 1 .. Len(buf) + 1 :
        /\ Len(buf) \in Nat /\ Len(buf') = Len(buf) + 1
        /\ \A k \in 1 .. Len(buf) + 1 :
             buf'[k] = IF k < i THEN buf[k] ELSE IF k = i THEN p ELSE buf[k - 1]
  BY ListGrows DEF IInv
<1>2. Time(p) = d * Tick[s]
  BY DEF Time
<1> HIDE DEF p
<1>3. ASSUME NEW k \in 1 .. Len(buf) + 1 PROVE t <= Time(buf'[k])
  <2>1. CASE k < i
    BY <1>1, <2>1
  <2>2. CASE k = i
    BY <1>1, <1>2, <2>2
  <2>3. CASE k > i
    <3>1. k - 1 \in 1 .. Len(buf) /\ buf'[k] = buf[k - 1]
      BY <1>1, <2>3
    <3> QED BY <3>1
  <2> QED BY <1>1, <2>1, <2>2, <2>3
<1> QED BY <1>1, <1>3

LEMMA OutTime ==
  ASSUME TypeOK, out # <<>>
  PROVE  Time(out[Len(out)].pkt) \in Int
<1>1. out \in Seq([pkt : Packets, ts : Int]) /\ Len(out) \in 1 .. Len(out)
  BY EmptySeq, LenProperties DEF TypeOK
<1>2. out[Len(out)] \in [pkt : Packets, ts : Int]
  BY <1>1, ElementOfSeq
<1>3. out[Len(out)].pkt \in Packets
  BY <1>2
<1> QED BY <1>3, TimeType

LEMMA OrderWriteVideo == ASSUME NoBFrames, OrderInv, TimesInv', WriteVideo PROVE OrderInv'
<1>1. PICK pts : pts = Bump(Rescale(v.pts, VideoIn, Tick[Video]), v.last)
  OBVIOUS
<1>2. /\ TimesInv /\ MuxInv /\ IInv /\ TypeOK /\ MuxPhases /\ VideoHeld /\ mpc = "loop" /\ VideoIsNext
      /\ UNCHANGED <<a, readV, readA, input>>
  BY DEF OrderInv, TimesInv, MuxInv, IInv, WriteVideo
<1>3. /\ pts \in Int /\ VideoDts \in Int /\ Submit(Video, VideoDts) /\ out' = out /\ readV
      /\ v' = [v EXCEPT !.last = pts] /\ cur' = [cur EXCEPT ![Video] = VideoDts]
  BY <1>1, <1>2, WriteVideoStep DEF PendingV
<1>4. FileOrdered' /\ (BothOwn' <=> BothOwn)
  BY <1>2, <1>3 DEF OrderInv, FileOrdered, BothOwn, Time
<1>5. ASSUME BothOwn PROVE Level' /\ Floor'
  <2> DEFINE d == VideoDts
             k == Tick[Video]
             x == v.next * VideoIn
             y == a.next * AudioIn
  <2>1. Level /\ Floor
    BY <1>2, <1>5 DEF OrderInv
  <2>2. /\ x \in Int /\ y \in Int /\ cur \in [Streams -> Int \cup {NoTs}] /\ v.next = v.pts
        /\ cur[Video] # NoTs => cur[Video] \in Int
    BY <1>2, <1>5, NextKnown, Clocks
  <2>3. v'.next = v.next
    <3>1. v \in [src : Nat, pts : Int, dts : Int \cup {NoTs}, next : Int, last : Int,
                 offset : Int, count : Nat]
      BY <1>2 DEF VideoHeld, VideoPlace
    <3> QED BY <1>3, <3>1
  <2>4. cur'[Video] = d /\ cur'[Audio] = cur[Audio]
    BY <1>3, <2>2, Clocks
  <2>5. /\ d \in Int /\ k \in Nat /\ Rescale(v.pts, VideoIn, Tick[Video]) <= d
        /\ 2 * (d - 1) * k <= 2 * x
    BY <1>2, <1>5, <2>2, VideoDtsDue, Clocks DEF BothOwn
  <2>6. (d - 1) * k <= x /\ (d - 1) * k \in Int /\ d * k \in Int
    <3> HIDE DEF d, k, x
    <3>1. (d - 1) * k \in Int /\ d * k \in Int /\ 2 * (d - 1) * k = 2 * ((d - 1) * k)
      BY <2>5
    <3> DEFINE z == (d - 1) * k
    <3>2. z \in Int /\ 2 * z <= 2 * x
      BY <2>5, <3>1
    <3> HIDE DEF z
    <3>3. z <= x
      BY <2>2, <3>2 DEF x
    <3> QED BY <3>1, <3>3 DEF z
  <2>7. readA => x <= y
    BY <1>2 DEF VideoIsNext
  <2>8. Level'
    <3>1. readA => (d - 1) * k <= y
      <4> DEFINE z == (d - 1) * k
      <4>1. z \in Int /\ z <= x /\ x \in Int /\ y \in Int
        BY <2>2, <2>6
      <4> HIDE DEF z, x, y
      <4> QED BY <2>7, <4>1 DEF z
    <3>2. readA' => NotAheadOf(Video, a.next, AudioIn)'
      BY <1>2, <2>4, <3>1 DEF NotAheadOf
    <3>3. readV' => NotAheadOf(Audio, v.next, VideoIn)'
      BY <1>2, <2>1, <2>3, <2>4 DEF NotAheadOf, Level
    <3> QED BY <3>2, <3>3 DEF Level
  <2>9. Floor'
    <3>1. CASE out = <<>>
      BY <1>3, <3>1 DEF Floor
    <3>2. CASE out # <<>>
      <4> DEFINE t == Time(out[Len(out)].pkt)
      <4>1. t \in Int
        BY <1>2, <3>2, OutTime
      <4>2. /\ \A i \in 1 .. Len(buf) : t <= Time(buf[i])
            /\ NotBefore(t, Video, v.next, VideoIn)
            /\ readA => NotBefore(t, Audio, a.next, AudioIn)
        BY <1>3, <2>1, <3>2 DEF Floor
      <4> HIDE DEF t
      <4>3. t <= d * k
        <5>1. CASE cur[Video] # NoTs /\ t <= cur[Video] * Tick[Video]
          <6>1. cur[Video] \in Int /\ cur[Video] <= d
            BY <1>2, <1>3, <2>2, <5>1, VideoGiven DEF PendingV
          <6> DEFINE c == cur[Video]
          <6>2. c \in Int /\ c <= d /\ k \in Nat /\ t <= c * k /\ d \in Int
            BY <2>5, <5>1, <6>1
          <6> HIDE DEF c, d, k
          <6>3. c * k <= d * k /\ c * k \in Int /\ d * k \in Int
            BY <6>2, Scale
          <6> QED BY <4>1, <6>2, <6>3
        <5>2. CASE t + Tick[Video] <= v.next * VideoIn
          <6> DEFINE q == v.pts
          <6>1. q \in Int
            BY <1>2 DEF VideoHeld, VideoPlace
          <6>2. Rescale(q, VideoIn, Tick[Video]) <= d /\ t + Tick[Video] <= q * VideoIn /\ d \in Int
            BY <2>2, <2>5, <5>2
          <6> HIDE DEF q, d
          <6>3. t <= d * Tick[Video]
            BY <4>1, <6>1, <6>2, BeforeDue, Clocks
          <6> QED BY <6>3
        <5> QED BY <4>2, <5>1, <5>2 DEF NotBefore
      <4>4. \A i \in 1 .. Len(buf') : t <= Time(buf'[i])
        <5>1. Submit(Video, d) /\ d \in Int /\ t <= d * Tick[Video] /\ Video \in Streams
          BY <1>3, <4>3, Clocks
        <5> HIDE DEF d
        <5> QED BY <1>2, <4>1, <4>2, <5>1, OrderGiven
      <4>5. /\ readV' => \/ cur'[Video] # NoTs /\ t <= cur'[Video] * Tick[Video]
                         \/ t + Tick[Video] <= v'.next * VideoIn
            /\ readA' => \/ cur'[Audio] # NoTs /\ t <= cur'[Audio] * Tick[Audio]
                         \/ t + Tick[Audio] <= a'.next * AudioIn
        <5>1. cur'[Video] # NoTs /\ t <= cur'[Video] * Tick[Video]
          BY <2>4, <2>5, <4>3, Clocks
        <5> QED BY <1>2, <2>4, <4>2, <5>1 DEF NotBefore
      <4>6. t = Time(out'[Len(out')].pkt)
        BY <1>3 DEF t
      <4> QED BY <4>4, <4>5, <4>6 DEF Floor, NotBefore, Time
    <3> QED BY <3>1, <3>2
  <2> QED BY <2>8, <2>9
<1> QED BY <1>4, <1>5 DEF OrderInv, BothOwn

LEMMA OrderWriteAudio == ASSUME OrderInv, TimesInv', WriteAudio PROVE OrderInv'
<1>1. PICK pts : pts = Bump(Rescale(a.pts, AudioIn, Tick[Audio]), a.last)
  OBVIOUS
<1>2. /\ TimesInv /\ MuxInv /\ IInv /\ TypeOK /\ MuxPhases /\ AudioHeld /\ mpc = "loop" /\ ~VideoIsNext
      /\ UNCHANGED <<v, readV, readA, input>>
  BY DEF OrderInv, TimesInv, MuxInv, IInv, WriteAudio
<1>3. /\ pts \in Int /\ Submit(Audio, pts) /\ out' = out /\ readA
      /\ a' = [a EXCEPT !.last = pts] /\ cur' = [cur EXCEPT ![Audio] = pts]
  BY <1>1, <1>2, WriteAudioStep
<1>4. FileOrdered' /\ (BothOwn' <=> BothOwn)
  BY <1>2, <1>3 DEF OrderInv, FileOrdered, BothOwn, Time
<1>5. ASSUME BothOwn PROVE Level' /\ Floor'
  <2> DEFINE k == Tick[Audio]
             x == v.next * VideoIn
             y == a.next * AudioIn
  <2>1. Level /\ Floor
    BY <1>2, <1>5 DEF OrderInv
  <2>2. /\ x \in Int /\ y \in Int /\ cur \in [Streams -> Int \cup {NoTs}] /\ a.next = a.pts
        /\ cur[Audio] # NoTs => cur[Audio] \in Int
    BY <1>2, <1>5, NextKnown, Clocks
  <2>3. a'.next = a.next
    <3>1. a \in [src : Nat, pts : Int, next : Int, last : Int, count : Nat]
      BY <1>2 DEF AudioHeld
    <3> QED BY <1>3, <3>1
  <2>4. cur'[Audio] = pts /\ cur'[Video] = cur[Video]
    BY <1>3, <2>2, Clocks
  <2>5. /\ k \in Nat /\ Rescale(a.pts, AudioIn, Tick[Audio]) <= pts
        /\ 2 * (pts - 1) * k <= 2 * y
    <3>1. HasOwn(input.audio)
      BY <1>5 DEF BothOwn
    <3>2. /\ Rescale(a.pts, AudioIn, Tick[Audio]) <= pts
          /\ 2 * (pts - 1) * Tick[Audio] <= 2 * (a.pts * AudioIn)
      BY <1>1, <1>2, <3>1, TimesWriteAudio
    <3> QED BY <2>2, <3>2, Clocks
  <2>6. (pts - 1) * k <= y /\ (pts - 1) * k \in Int /\ pts * k \in Int
    <3> HIDE DEF k, y
    <3>1. (pts - 1) * k \in Int /\ pts * k \in Int /\ 2 * (pts - 1) * k = 2 * ((pts - 1) * k)
      BY <1>3, <2>5
    <3> DEFINE z == (pts - 1) * k
    <3>2. z \in Int /\ 2 * z <= 2 * y
      BY <2>5, <3>1
    <3> HIDE DEF z
    <3>3. z <= y
      BY <2>2, <3>2 DEF y
    <3> QED BY <3>1, <3>3 DEF z
  <2>7. readV => ~(x <= y)
    BY <1>2, <1>3 DEF VideoIsNext
  <2>8. Level'
    <3>1. readV => (pts - 1) * k <= x
      <4> DEFINE z == (pts - 1) * k
      <4>1. z \in Int /\ z <= y /\ x \in Int /\ y \in Int
        BY <2>2, <2>6
      <4> HIDE DEF z, x, y
      <4> QED BY <2>7, <4>1 DEF z
    <3>2. readV' => NotAheadOf(Audio, v.next, VideoIn)'
      BY <1>2, <2>4, <3>1 DEF NotAheadOf
    <3>3. readA' => NotAheadOf(Video, a.next, AudioIn)'
      BY <1>2, <2>1, <2>3, <2>4 DEF NotAheadOf, Level
    <3> QED BY <3>2, <3>3 DEF Level
  <2>9. Floor'
    <3>1. CASE out = <<>>
      BY <1>3, <3>1 DEF Floor
    <3>2. CASE out # <<>>
      <4> DEFINE t == Time(out[Len(out)].pkt)
      <4>1. t \in Int
        BY <1>2, <3>2, OutTime
      <4>2. /\ \A i \in 1 .. Len(buf) : t <= Time(buf[i])
            /\ NotBefore(t, Audio, a.next, AudioIn)
            /\ readV => NotBefore(t, Video, v.next, VideoIn)
        BY <1>3, <2>1, <3>2 DEF Floor
      <4> HIDE DEF t
      <4>3. t <= pts * k
        <5>1. CASE cur[Audio] # NoTs /\ t <= cur[Audio] * Tick[Audio]
          <6>1. cur[Audio] \in Int /\ cur[Audio] <= pts
            BY <1>1, <1>2, <1>3, <2>2, <5>1, AudioGiven
          <6> DEFINE c == cur[Audio]
          <6>2. c \in Int /\ c <= pts /\ k \in Nat /\ t <= c * k
            BY <2>5, <5>1, <6>1
          <6> HIDE DEF c, k
          <6>3. c * k <= pts * k /\ c * k \in Int /\ pts * k \in Int
            BY <1>3, <6>2, Scale
          <6> QED BY <4>1, <6>2, <6>3
        <5>2. CASE t + Tick[Audio] <= a.next * AudioIn
          <6> DEFINE q == a.pts
          <6>1. q \in Int
            BY <1>2 DEF AudioHeld
          <6>2. Rescale(q, AudioIn, Tick[Audio]) <= pts /\ t + Tick[Audio] <= q * AudioIn
            BY <2>2, <2>5, <5>2
          <6> HIDE DEF q
          <6>3. t <= pts * Tick[Audio]
            BY <1>3, <4>1, <6>1, <6>2, BeforeDue, Clocks
          <6> QED BY <6>3
        <5> QED BY <4>2, <5>1, <5>2 DEF NotBefore
      <4>4. \A i \in 1 .. Len(buf') : t <= Time(buf'[i])
        <5>1. Submit(Audio, pts) /\ t <= pts * Tick[Audio] /\ Audio \in Streams
          BY <1>3, <4>3, Clocks
        <5> QED BY <1>2, <1>3, <4>1, <4>2, <5>1, OrderGiven
      <4>5. /\ readV' => \/ cur'[Video] # NoTs /\ t <= cur'[Video] * Tick[Video]
                         \/ t + Tick[Video] <= v'.next * VideoIn
            /\ readA' => \/ cur'[Audio] # NoTs /\ t <= cur'[Audio] * Tick[Audio]
                         \/ t + Tick[Audio] <= a'.next * AudioIn
        <5>1. cur'[Audio] # NoTs /\ t <= cur'[Audio] * Tick[Audio]
          BY <1>3, <2>4, <4>3, Clocks
        <5> QED BY <1>2, <2>4, <4>2, <5>1 DEF NotBefore
      <4>6. t = Time(out'[Len(out')].pkt)
        BY <1>3 DEF t
      <4> QED BY <4>4, <4>5, <4>6 DEF Floor, NotBefore, Time
    <3> QED BY <3>1, <3>2
  <2> QED BY <2>8, <2>9
<1> QED BY <1>4, <1>5 DEF OrderInv, BothOwn

LEMMA OrderStep ==
  ASSUME NoBFrames, OrderInv, [MuxNext]_<<fileVars, muxVars>>
  PROVE  OrderInv'
<1>1. TimesInv'
  BY TimesStep DEF OrderInv
<1>2. CASE Create
  BY <1>1, <1>2, OrderCreate
<1>3. CASE WriteVideo
  BY <1>1, <1>3, OrderWriteVideo
<1>4. CASE ReadVideo
  BY <1>1, <1>4, OrderReadVideo
<1>5. CASE WriteAudio
  BY <1>1, <1>5, OrderWriteAudio
<1>6. CASE ReadAudio
  BY <1>1, <1>6, OrderReadAudio
<1>7. CASE MuxWork
  BY <1>1, <1>7, OrderWork
<1>8. CASE WriteHeader \/ WriteTrailer \/ MuxerReturns \/ Destory \/ Over \/ UNCHANGED <<fileVars, muxVars>>
  BY <1>1, <1>8, OrderQuiet
<1> QED BY <1>2, <1>3, <1>4, <1>5, <1>6, <1>7, <1>8 DEF MuxNext, Step

(* The file is in order of time, where the interleaving forces packets out   *)
(* too, because the program muxes the stream that is behind.                 *)
THEOREM FileInOrder == NoBFrames => (MuxSpec => []FileOrdered)
<1> SUFFICES ASSUME NoBFrames PROVE MuxSpec => []FileOrdered
  OBVIOUS
<1>1. MuxInit => OrderInv
  <2> SUFFICES ASSUME MuxInit PROVE OrderInv
    OBVIOUS
  <2>1. TimesInv /\ mpc = "new" /\ out = <<>>
    BY TimesInitInv DEF MuxInit, Init
  <2> QED BY <2>1 DEF OrderInv, FileOrdered
<1>2. OrderInv /\ [MuxNext]_<<fileVars, muxVars>> => OrderInv'
  BY OrderStep
<1>3. OrderInv => FileOrdered
  BY DEF OrderInv
<1> QED BY <1>1, <1>2, <1>3, PTL DEF MuxSpec
=============================================================================
