---------------------------- MODULE ProgramProofs -----------------------------
(***************************************************************************)
(* The programs of this repository, for files of any length: ffvencode     *)
(* over an x264 of any delay and any number of failures, whose packets are *)
(* accounted for by concatenations and what x264 still holds by counting;  *)
(* and ffdemux, with the ADTS headers of mpeg4-aac.c, which say what they  *)
(* are made from and are put before the right packets.                     *)
(***************************************************************************)
EXTENDS VideoEncode, Demux, FiniteSetTheorems, SequenceTheorems, TLAPS

-----------------------------------------------------------------------------
(* ffvencode. *)

Bytes == Nat \union {Junk}

(* The packet that is kept, if any, as a sequence. *)
Kept(k) == IF k = NoPacket THEN <<>> ELSE <<k>>

LEMMA Constants ==
  /\ Nat \subseteq Bytes /\ NoPacket \notin Nat /\ Junk \in Bytes
  /\ Ok # Again /\ Ok # EndOfFile /\ Ok # Failed /\ EndOfFile # Failed
BY DEF Bytes, NoPacket, Junk, Ok, Again, EndOfFile, Failed

LEMMA Wider ==
  ASSUME NEW s \in Seq(Nat)
  PROVE  s \in Seq(Bytes)
<1>1. Len(s) \in Nat /\ \A k \in 1 .. Len(s) : s[k] \in Nat
  BY LenProperties, ElementOfSeq
<1>2. s = [k \in 1 .. Len(s) |-> s[k]]
  BY LenProperties
<1> QED BY <1>1, <1>2, Constants, IsASeq

(* One more frame in the sequence is one more in its range. *)
LEMMA RangeOfAppend ==
  ASSUME NEW s \in Seq(Nat), NEW f \in Nat
  PROVE  /\ X264!Range(Append(s, f)) = X264!Range(s) \union {f}
         /\ Append(s, f) \in Seq(Nat) /\ Len(Append(s, f)) = Len(s) + 1
<1>1. /\ Append(s, f) \in Seq(Nat) /\ Len(Append(s, f)) = Len(s) + 1
      /\ \A k \in 1 .. Len(s) : Append(s, f)[k] = s[k]
      /\ Append(s, f)[Len(s) + 1] = f
  BY AppendProperties
<1>2. /\ Len(s) \in Nat /\ DOMAIN s = 1 .. Len(s)
      /\ DOMAIN Append(s, f) = 1 .. Len(s) + 1
  BY <1>1, LenProperties
<1>3. 1 .. Len(s) + 1 = (1 .. Len(s)) \union {Len(s) + 1}
  BY <1>2
<1> QED BY <1>1, <1>2, <1>3 DEF X264!Range

(* What x264 has given out is no more than what it was given. *)
LEMMA NoMoreThanTaken ==
  ASSUME EncodeTypeOK, EmittedOnce
  PROVE  /\ Len(emitted) \in Nat /\ Len(emitted) <= received
         /\ IsFiniteSet(X264!Range(emitted))
<1>1. Len(emitted) \in Nat /\ received \in Nat
  BY LenProperties DEF EncodeTypeOK
<1>2. /\ IsFiniteSet(0 .. received - 1)
      /\ Cardinality(0 .. received - 1) = IF 0 > received - 1 THEN 0 ELSE (received - 1) - 0 + 1
  <2>1. 0 \in Int /\ received - 1 \in Int
    BY <1>1
  <2> QED BY <2>1, FS_Interval
<1>3. Cardinality(0 .. received - 1) = received
  BY <1>1, <1>2
<1> QED BY <1>1, <1>2, <1>3, FS_Subset DEF EmittedOnce

-----------------------------------------------------------------------------
(* x264. *)

LEMMA Takes ==
  ASSUME EncodeTypeOK, EmittedOnce, X264!Take
  PROVE  /\ received' = received + 1 /\ UNCHANGED <<emitted, stopped>>
         /\ received' \in Nat /\ EmittedOnce'
<1>1. received' = received + 1 /\ UNCHANGED <<emitted, stopped>>
  BY DEF X264!Take
<1>2. 0 .. received - 1 \subseteq 0 .. received' - 1
  BY <1>1 DEF EncodeTypeOK
<1> QED BY <1>1, <1>2 DEF EncodeTypeOK, EmittedOnce

LEMMA Emits ==
  ASSUME EncodeTypeOK, EmittedOnce, X264!Emit
  PROVE  \E f \in Nat : /\ emitted' = Append(emitted, f) /\ UNCHANGED <<received, stopped>>
                        /\ emitted' \in Seq(Nat) /\ emitted'[Len(emitted')] = f
                        /\ f \notin X264!Range(emitted) /\ EmittedOnce'
<1>1. PICK f \in 0 .. received - 1 : X264!MayFollow(f) /\ emitted' = Append(emitted, f)
  BY DEF X264!Emit
<1>2. UNCHANGED <<received, stopped>>
  BY DEF X264!Emit
<1>3. f \in Nat /\ f \notin X264!Range(emitted)
  BY <1>1 DEF X264!MayFollow, EncodeTypeOK
<1>4. /\ X264!Range(emitted') = X264!Range(emitted) \union {f}
      /\ emitted' \in Seq(Nat) /\ Len(emitted') = Len(emitted) + 1
  BY <1>1, <1>3, RangeOfAppend DEF EncodeTypeOK
<1>5. emitted'[Len(emitted')] = f
  BY <1>1, <1>3, <1>4, AppendProperties DEF EncodeTypeOK
<1>6. Cardinality(X264!Range(emitted')) = Cardinality(X264!Range(emitted)) + 1
  BY <1>3, <1>4, NoMoreThanTaken, FS_AddElement
<1>7. EmittedOnce'
  BY <1>1, <1>2, <1>4, <1>6 DEF EmittedOnce
<1> QED BY <1>1, <1>2, <1>3, <1>4, <1>5, <1>7

-----------------------------------------------------------------------------
(* Types, and what x264 has emitted. *)

LEMMA InitTypes == EncodeInit => EncodeTypeOK /\ EmittedOnce
<1> SUFFICES ASSUME EncodeInit PROVE EncodeTypeOK /\ EmittedOnce
  OBVIOUS
<1>1. EncodeTypeOK
  <2>1. num \in Nat
    BY EncodeAssumption DEF EncodeInit
  <2>2. <<>> \in Seq(Nat) /\ <<>> \in Seq(Nat \union {Junk})
    OBVIOUS
  <2> QED BY <2>1, <2>2 DEF EncodeInit, X264!Init, EncodeTypeOK, NoPacket
<1>2. X264!Range(emitted) = {}
  BY DEF EncodeInit, X264!Init, X264!Range
<1>3. EmittedOnce
  BY <1>2, FS_EmptySet DEF EmittedOnce, EncodeInit, X264!Init
<1> QED BY <1>1, <1>3

LEMMA NextTypes ==
  ASSUME EncodeTypeOK, EmittedOnce, EncodeNext
  PROVE  EncodeTypeOK' /\ EmittedOnce'
<1>1. CASE ReadPicture
  BY <1>1 DEF ReadPicture, EncodeTypeOK, EmittedOnce, x264
<1>2. CASE SendFrame
  BY <1>2 DEF SendFrame, Encodes, EncodeTypeOK, EmittedOnce, x264, Flushing
<1>3. CASE Receive
  <2>1. kept \in Nat /\ data' \in Seq(Nat)
    BY <1>3, AppendProperties DEF Receive, EncodeTypeOK
  <2> QED BY <1>3, <2>1 DEF Receive, EncodeTypeOK, EmittedOnce, x264
<1>4. CASE ReceiveEncodes \/ ReceiveAgain
  BY <1>4 DEF ReceiveEncodes, ReceiveAgain, Encodes, EncodeTypeOK, EmittedOnce, x264
<1>5. CASE WriteFile
  <2>1. file \in Seq(Bytes) /\ data \in Seq(Bytes)
    BY Wider DEF EncodeTypeOK, Bytes
  <2>2. file \o data \in Seq(Bytes) /\ Append(file, Junk) \in Seq(Bytes)
    BY <2>1, Constants, ConcatProperties, AppendProperties
  <2>3. file' \in Seq(Bytes)
    BY <1>5, <2>2 DEF WriteFile
  <2> QED BY <1>5, <2>3 DEF WriteFile, NextPicture, EncodeTypeOK, EmittedOnce, x264, Bytes
<1>6. CASE TakePicture
  <2>1. EmittedOnce' /\ received' \in Nat /\ stopped' \in BOOLEAN /\ emitted' = emitted
    BY <1>6, Takes DEF TakePicture, X264!Stop, EncodeTypeOK, EmittedOnce
  <2> QED BY <1>6, <2>1 DEF TakePicture, EncodeTypeOK
<1>7. CASE EmitFrame
  <2>1. PICK f \in Nat : /\ UNCHANGED <<received, stopped>>
                         /\ emitted' \in Seq(Nat) /\ emitted'[Len(emitted')] = f
                         /\ EmittedOnce'
    BY <1>7, Emits DEF EmitFrame
  <2> QED BY <1>7, <2>1 DEF EmitFrame, Returns, EncodeTypeOK, Ok, Failed, EndOfFile
<1>8. CASE EmitNothing \/ EncodeFails
  BY <1>8 DEF EmitNothing, EncodeFails, Returns, EncodeTypeOK, EmittedOnce, x264, Ok, Failed, EndOfFile
<1>9. CASE Terminated
  BY <1>9 DEF Terminated, vars, x264, EncodeTypeOK, EmittedOnce
<1> QED BY <1>1, <1>2, <1>3, <1>4, <1>5, <1>6, <1>7, <1>8, <1>9 DEF EncodeNext, EncodeStep

-----------------------------------------------------------------------------
(* How far the program is. *)

LEMMA InitInStep == EncodeInit => InStep
<1> SUFFICES ASSUME EncodeInit PROVE InStep
  OBVIOUS
<1>1. num \in Nat /\ i = 0 /\ received = 0 /\ fails = 0 /\ Past = 0
  BY EncodeAssumption DEF EncodeInit, X264!Init, Past, InCall
<1>2. 0 \in 0 - 0 .. 0
  OBVIOUS
<1> QED BY <1>1, <1>2 DEF EncodeInit, X264!Init, InStep, Flushing

LEMMA JunkAtEnd ==
  ASSUME NEW s \in Seq(Bytes)
  PROVE  Append(s, Junk) # <<>> /\ Append(s, Junk)[Len(Append(s, Junk))] = Junk
<1>1. Junk \in Bytes
  BY DEF Bytes
<1> QED BY <1>1, AppendProperties

LEMMA NextInStep ==
  ASSUME EncodeTypeOK, EmittedOnce, InStep, EncodeNext
  PROVE  InStep'
<1>0. i \in Nat /\ num \in Nat /\ received \in Nat /\ fails \in Nat
  BY DEF EncodeTypeOK
<1> USE DEF InStep, Past, InCall, Flushing
<1>1. CASE ReadPicture
  BY <1>0, <1>1 DEF ReadPicture, x264
<1>2. CASE SendFrame
  <2>1. ~draining /\ kept = NoPacket /\ Refusal = Ok
    BY <1>2 DEF SendFrame, Refusal
  <2> QED BY <1>0, <1>2, <2>1 DEF SendFrame, Encodes, x264
<1>3. CASE Receive
  BY <1>0, <1>3 DEF Receive, x264
<1>4. CASE ReceiveEncodes \/ ReceiveAgain
  BY <1>0, <1>4 DEF ReceiveEncodes, ReceiveAgain, Encodes, x264
<1>5. CASE WriteFile
  <2>1. UNCHANGED <<x264, draining, kept, caller, num, fails>> /\ i' = i + 1 /\ at' = IF i = num THEN "done" ELSE "read"
    BY <1>5 DEF WriteFile, NextPicture
  <2>2. at = "failed" => FlushFailed'
    <3>1. file \in Seq(Bytes)
      BY DEF EncodeTypeOK, Bytes
    <3>2. Append(file, Junk) # <<>> /\ Append(file, Junk)[Len(Append(file, Junk))] = Junk
      BY <3>1, JunkAtEnd
    <3> QED BY <1>5, <3>2 DEF WriteFile, FlushFailed
  <2>3. at \in {"encoded", "failed"}
    BY <1>5 DEF WriteFile
  <2> QED BY <1>0, <2>1, <2>2, <2>3 DEF x264
<1>6. CASE TakePicture
  <2>1. CASE draining
    BY <1>0, <1>6, <2>1 DEF TakePicture, X264!Stop
  <2>2. CASE ~draining
    <3>1. received' = received + 1
      BY <1>6, <2>2, Takes DEF TakePicture
    <3> QED BY <1>0, <1>6, <2>2, <3>1 DEF TakePicture
  <2> QED BY <2>1, <2>2
<1>7. CASE EmitFrame
  <2>1. received' = received
    BY <1>7, Emits DEF EmitFrame
  <2>2. \/ at' = "receive" /\ fails' = fails
        \/ at' = "failed" /\ fails' = fails + 1 /\ kept' = kept
    BY <1>7 DEF EmitFrame, Returns, Ok, Failed, EndOfFile
  <2> QED BY <1>0, <1>7, <2>1, <2>2 DEF EmitFrame
<1>8. CASE EmitNothing
  <2>1. HoldsMore \/ (draining => Len(emitted) = received)
    BY <1>0, NoMoreThanTaken DEF HoldsMore, X264!Held
  <2>2. CASE HoldsMore
    BY <1>0, <1>8, <2>2 DEF EmitNothing, HoldsMore, x264
  <2>3. CASE ~HoldsMore
    <3>1. at' = IF caller = "send" THEN "receive" ELSE "encoded"
      BY <1>8, <2>3 DEF EmitNothing, Returns, Ok, Failed, EndOfFile
    <3> QED BY <1>0, <1>8, <2>1, <2>3, <3>1 DEF EmitNothing, x264
  <2> QED BY <2>2, <2>3
<1>9. CASE EncodeFails
  BY <1>0, <1>9 DEF EncodeFails, Returns, Ok, Failed, EndOfFile, x264
<1>10. CASE Terminated
  BY <1>10 DEF Terminated, vars, x264, FlushFailed
<1> QED BY <1>1, <1>2, <1>3, <1>4, <1>5, <1>6, <1>7, <1>8, <1>9, <1>10 DEF EncodeNext, EncodeStep

-----------------------------------------------------------------------------
(* Accounts of any two sequences. *)

LEMMA Finite ==
  ASSUME NEW line \in Seq(Bytes)
  PROVE  IsFiniteSet(JunkIn(line))
<1>1. IsFiniteSet(1 .. Len(line))
  BY FS_Interval, LenProperties
<1> QED BY <1>1, FS_Subset DEF JunkIn

(* A packet that is emitted and kept has its place at the end of both. *)
LEMMA PacketPlaced ==
  ASSUME NEW line \in Seq(Bytes), NEW em \in Seq(Nat), NEW f \in Nat,
         Accounts(line, em), \A l \in 1 .. Len(em) : em[l] # f
  PROVE  /\ Accounts(Append(line, f), Append(em, f))
         /\ JunkIn(Append(line, f)) = JunkIn(line)
<1> DEFINE n == Len(line)
           m == Len(em)
           line2 == Append(line, f)
           em2 == Append(em, f)
<1>1. /\ n \in Nat /\ Len(line2) = n + 1 /\ line2[n + 1] = f
      /\ \A y \in 1 .. n : line2[y] = line[y]
  BY Constants, AppendProperties, LenProperties
<1>2. /\ m \in Nat /\ Len(em2) = m + 1 /\ em2[m + 1] = f
      /\ \A l \in 1 .. m : em2[l] = em[l]
  BY AppendProperties, LenProperties
<1>3. f # Junk
  BY DEF Junk
<1>4. \A y \in 1 .. n : line[y] # f
  BY <1>3 DEF Accounts, InPlace
<1> HIDE DEF line2, em2
<1>5. ASSUME NEW y \in 1 .. n + 1, NEW l \in 1 .. m + 1, line2[y] = em2[l]
      PROVE  (y \in 1 .. n /\ l \in 1 .. m /\ line[y] = em[l]) \/ (y = n + 1 /\ l = m + 1)
  <2>1. (y \in 1 .. n \/ y = n + 1) /\ (l \in 1 .. m \/ l = m + 1)
    BY <1>1, <1>2
  <2> QED BY <1>1, <1>2, <1>4, <1>5, <2>1
<1>6. ASSUME NEW x \in 1 .. n, NEW k \in 1 .. m, InPlace(line, em, x, k)
      PROVE  x \in 1 .. n + 1 /\ k \in 1 .. m + 1 /\ InPlace(line2, em2, x, k)
  <2>1. line2[x] \in {em2[k], Junk}
    BY <1>1, <1>2, <1>6 DEF InPlace
  <2>2. ASSUME NEW y \in 1 .. n + 1, NEW l \in 1 .. m + 1, line2[y] = em2[l]
        PROVE  y < x <=> l < k
    <3>1. CASE y \in 1 .. n /\ l \in 1 .. m /\ line[y] = em[l]
      BY <1>6, <3>1 DEF InPlace
    <3>2. CASE y = n + 1 /\ l = m + 1
      BY <1>1, <1>2, <3>2
    <3> QED BY <1>5, <2>2, <3>1, <3>2
  <2> QED BY <1>1, <1>2, <2>1, <2>2 DEF InPlace
<1>7. InPlace(line2, em2, n + 1, m + 1)
  <2>1. ASSUME NEW y \in 1 .. n + 1, NEW l \in 1 .. m + 1, line2[y] = em2[l]
        PROVE  y < n + 1 <=> l < m + 1
    <3>1. CASE y \in 1 .. n /\ l \in 1 .. m
      BY <1>1, <1>2, <3>1
    <3>2. CASE y = n + 1 /\ l = m + 1
      BY <1>1, <1>2, <3>2
    <3> QED BY <1>5, <2>1, <3>1, <3>2
  <2> QED BY <1>1, <1>2, <2>1 DEF InPlace
<1>8. n + 1 \in 1 .. n + 1 /\ m + 1 \in 1 .. m + 1
  BY <1>1, <1>2
<1>9. Accounts(line2, em2)
  <2>1. ASSUME NEW k \in 1 .. m + 1 PROVE \E x \in 1 .. n + 1 : InPlace(line2, em2, x, k)
    <3>1. CASE k \in 1 .. m
      BY <1>6, <3>1 DEF Accounts
    <3>2. CASE k = m + 1
      BY <1>7, <1>8, <3>2
    <3> QED BY <1>2, <3>1, <3>2
  <2>2. ASSUME NEW x \in 1 .. n + 1, line2[x] # Junk
        PROVE  \E k \in 1 .. m + 1 : InPlace(line2, em2, x, k)
    <3>1. CASE x \in 1 .. n
      <4>1. line[x] # Junk
        BY <1>1, <2>2, <3>1
      <4> QED BY <1>6, <3>1, <4>1 DEF Accounts
    <3>2. CASE x = n + 1
      BY <1>7, <1>8, <3>2
    <3> QED BY <1>1, <3>1, <3>2
  <2> QED BY <1>1, <1>2, <2>1, <2>2 DEF Accounts
<1>10. JunkIn(line2) = JunkIn(line)
  <2>1. 1 .. n + 1 = (1 .. n) \union {n + 1}
    BY <1>1
  <2> QED BY <1>1, <1>3, <2>1 DEF JunkIn
<1> QED BY <1>9, <1>10 DEF line2, em2

LEMMA ButTheLast ==
  ASSUME NEW n \in Nat, NEW y \in 1 .. n + 1, y # n + 1
  PROVE  y \in 1 .. n
OBVIOUS

(* Stale bytes in the place of what a call had collected. *)
LEMMA JunkPlaced ==
  ASSUME NEW done \in Seq(Bytes), NEW rest \in Seq(Nat), NEW em \in Seq(Nat),
         Accounts(done \o rest, em)
  PROVE  /\ Accounts(Append(done, Junk), em)
         /\ Cardinality(JunkIn(Append(done, Junk))) = Cardinality(JunkIn(done \o rest)) + 1
<1> DEFINE n == Len(done)
           r == Len(rest)
           line == done \o rest
           line2 == Append(done, Junk)
<1>1. /\ n \in Nat /\ Len(line2) = n + 1 /\ line2[n + 1] = Junk
      /\ \A y \in 1 .. n : line2[y] = done[y]
  BY Constants, AppendProperties, LenProperties
<1>2. /\ r \in Nat /\ Len(line) = n + r /\ line \in Seq(Bytes)
      /\ \A y \in 1 .. n : line[y] = done[y]
      /\ \A y \in n + 1 .. n + r : line[y] = rest[y - n] /\ y - n \in 1 .. r
  <2>1. rest \in Seq(Bytes)
    BY Wider
  <2>2. n \in Nat /\ r \in Nat /\ Len(line) = n + r
    BY <2>1, ConcatProperties, LenProperties
  <2>3. \A y \in 1 .. n + r : line[y] = IF y <= n THEN done[y] ELSE rest[y - n]
    BY <2>1, <2>2, ConcatProperties
  <2> QED BY <2>1, <2>2, <2>3, ConcatProperties
<1>3. (\A l \in 1 .. Len(em) : em[l] \in Nat) /\ (\A y \in 1 .. r : rest[y] \in Nat) /\ Junk \notin Nat
  BY ElementOfSeq DEF Junk
<1>4. Accounts(line, em)
  OBVIOUS
<1> HIDE DEF line, line2
<1>5. ASSUME NEW x \in 1 .. n, NEW k \in 1 .. Len(em), InPlace(line, em, x, k)
      PROVE  InPlace(line2, em, x, k)
  <2>1. ASSUME NEW y \in 1 .. n + 1, NEW l \in 1 .. Len(em), line2[y] = em[l]
        PROVE  y < x <=> l < k
    <3>1. line2[y] # Junk /\ line2[n + 1] = Junk
      BY <1>1, <1>3, <2>1
    <3>2. y # n + 1 /\ n \in Nat
      BY <1>1, <3>1
    <3>3. y \in 1 .. n
      BY <3>2, ButTheLast
    <3>4. y \in 1 .. Len(line) /\ line[y] = em[l]
      BY <1>1, <1>2, <2>1, <3>3
    <3> QED BY <1>5, <3>4 DEF InPlace
  <2>2. line2[x] = line[x]
    BY <1>1, <1>2
  <2> QED BY <1>1, <1>5, <2>1, <2>2 DEF InPlace
<1>6. ASSUME NEW x \in n + 1 .. n + r, NEW k \in 1 .. Len(em), InPlace(line, em, x, k)
      PROVE  InPlace(line2, em, n + 1, k)
  <2>1. ASSUME NEW y \in 1 .. n + 1, NEW l \in 1 .. Len(em), line2[y] = em[l]
        PROVE  y < n + 1 <=> l < k
    <3>1. line2[y] # Junk /\ line2[n + 1] = Junk
      BY <1>1, <1>3, <2>1
    <3>2. y # n + 1 /\ n \in Nat
      BY <1>1, <3>1
    <3>3. y \in 1 .. n
      BY <3>2, ButTheLast
    <3>4. y \in 1 .. Len(line) /\ line[y] = em[l]
      BY <1>1, <1>2, <2>1, <3>3
    <3>5. y < x <=> l < k
      BY <1>6, <3>4 DEF InPlace
    <3> QED BY <1>1, <1>2, <3>3, <3>5
  <2> QED BY <1>1, <2>1 DEF InPlace
<1>7. Accounts(line2, em)
  <2>1. ASSUME NEW k \in 1 .. Len(em) PROVE \E x \in 1 .. n + 1 : InPlace(line2, em, x, k)
    <3>1. PICK x \in 1 .. n + r : InPlace(line, em, x, k)
      BY <1>2, <1>4 DEF Accounts
    <3>2. CASE x \in 1 .. n
      <4>1. x \in 1 .. n + 1
        BY <1>1, <3>2
      <4> QED BY <1>5, <3>1, <3>2, <4>1
    <3>3. CASE x \in n + 1 .. n + r
      <4>1. n + 1 \in 1 .. n + 1
        BY <1>1
      <4> QED BY <1>6, <3>1, <3>3, <4>1
    <3> QED BY <1>1, <1>2, <3>2, <3>3
  <2>2. ASSUME NEW x \in 1 .. n + 1, line2[x] # Junk
        PROVE  \E k \in 1 .. Len(em) : InPlace(line2, em, x, k)
    <3>1. x \in 1 .. n
      BY <1>1, <2>2
    <3>2. x \in 1 .. Len(line) /\ line[x] # Junk
      BY <1>1, <1>2, <2>2, <3>1
    <3> QED BY <1>4, <1>5, <3>1, <3>2 DEF Accounts
  <2> QED BY <1>1, <2>1, <2>2 DEF Accounts
<1>8. JunkIn(line2) = JunkIn(line) \union {n + 1} /\ n + 1 \notin JunkIn(line)
  <2>1. 1 .. n + 1 = (1 .. n) \union {n + 1} /\ n + 1 \notin 1 .. n
    BY <1>1
  <2>2. 1 .. n + r = (1 .. n) \union (n + 1 .. n + r)
    BY <1>1, <1>2
  <2>3. \A y \in n + 1 .. n + r : line[y] # Junk
    BY <1>2, <1>3
  <2>4. JunkIn(line) = {y \in 1 .. n : done[y] = Junk}
    BY <1>2, <2>2, <2>3 DEF JunkIn
  <2>5. JunkIn(line2) = {y \in 1 .. n : done[y] = Junk} \union {n + 1}
    BY <1>1, <2>1 DEF JunkIn
  <2> QED BY <2>1, <2>4, <2>5
<1>9. Cardinality(JunkIn(line2)) = Cardinality(JunkIn(line)) + 1
  <2>1. IsFiniteSet(JunkIn(line))
    BY <1>2, Finite
  <2>2. Cardinality(JunkIn(line) \union {n + 1}) = Cardinality(JunkIn(line)) + 1
    BY <1>8, <2>1, FS_AddElement
  <2> QED BY <1>8, <2>2
<1> QED BY <1>7, <1>9 DEF line, line2

-----------------------------------------------------------------------------
(* The file. *)

LEMMA KeptIs ==
  ASSUME NEW k \in Nat \union {NoPacket}
  PROVE  Kept(k) \in Seq(Nat) /\ <<>> \o Kept(k) = Kept(k)
<1>1. Kept(k) \in Seq(Nat)
  BY DEF Kept
<1> QED BY <1>1, ConcatEmptySeq

(* The file and what is on its way, without the empty sequences in it. *)
Rest(where, packets, k) ==
  IF where \in {"done", "read"} THEN Kept(k) ELSE packets \o Kept(k)

LEMMA LineIs ==
  ASSUME EncodeTypeOK
  PROVE  Line = IF at = "failed" THEN Append(file, Junk) ELSE file \o Rest(at, data, kept)
<1>1. <<>> \o Kept(kept) = Kept(kept)
  BY KeptIs DEF EncodeTypeOK
<1>2. file \o <<Junk>> = Append(file, Junk)
  BY Constants, AppendIsConcat DEF EncodeTypeOK, Bytes
<1> QED BY <1>1, <1>2 DEF Line, OnTheWay, Kept, Rest

LEMMA LineNext ==
  ASSUME EncodeTypeOK'
  PROVE  Line' = IF at' = "failed" THEN Append(file', Junk) ELSE file' \o Rest(at', data', kept')
<1>1. <<>> \o Kept(kept') = Kept(kept')
  BY KeptIs DEF EncodeTypeOK
<1>2. file' \o <<Junk>> = Append(file', Junk)
  BY Constants, AppendIsConcat DEF EncodeTypeOK, Bytes
<1> QED BY <1>1, <1>2 DEF Line, OnTheWay, Kept, Rest

LineOK == Accounts(Line, emitted) /\ Cardinality(JunkIn(Line)) = fails

LEMMA InitLine == EncodeInit => LineOK
<1> SUFFICES ASSUME EncodeInit PROVE LineOK
  OBVIOUS
<1>1. Line = <<>> /\ emitted = <<>>
  <2>1. <<>> \o <<>> = <<>>
    BY ConcatEmptySeq, EmptySeq
  <2> QED BY <2>1 DEF EncodeInit, X264!Init, Line, OnTheWay
<1>2. Len(Line) = 0 /\ Len(emitted) = 0 /\ JunkIn(Line) = {}
  BY <1>1 DEF JunkIn
<1> QED BY <1>2, FS_EmptySet DEF LineOK, Accounts, EncodeInit

LEMMA NextLine ==
  ASSUME EncodeTypeOK, EmittedOnce, EncodeTypeOK', InStep, LineOK, EncodeNext
  PROVE  LineOK'
<1>0. /\ data \in Seq(Bytes) /\ file \in Seq(Bytes) /\ Kept(kept) \in Seq(Bytes)
      /\ data \in Seq(Nat) /\ emitted \in Seq(Nat) /\ Kept(NoPacket) = <<>>
      /\ data \o <<>> = data /\ file \o <<>> = file
  BY Wider, KeptIs, ConcatEmptySeq DEF EncodeTypeOK, Bytes, Kept
<1>1. ASSUME Line' = Line, UNCHANGED <<emitted, fails>> PROVE LineOK'
  BY <1>1 DEF LineOK
<1>2. ASSUME NEW rest \in Seq(Nat), Accounts(file \o rest, emitted'), emitted' \in Seq(Nat),
             JunkIn(file \o rest) = JunkIn(Line),
             at' = "failed", file' = file, fails' = fails + 1
      PROVE  LineOK'
  <2>1. Line' = Append(file, Junk)
    BY <1>2, LineNext
  <2> QED BY <1>0, <1>2, <2>1, JunkPlaced DEF LineOK
<1>3. CASE \/ SendFrame \/ ReceiveEncodes \/ ReceiveAgain \/ TakePicture \/ EmitNothing
  <2>1. /\ UNCHANGED <<data, file, emitted, kept, fails>>
        /\ at \notin {"done", "read", "failed"} /\ at' \notin {"done", "read", "failed"}
    BY <1>3 DEF SendFrame, ReceiveEncodes, ReceiveAgain, TakePicture, EmitNothing, Encodes, Refusal,
                InStep, Returns, Ok, Failed, EndOfFile, x264, X264!Take, X264!Stop
  <2> QED BY <1>1, <2>1, LineIs, LineNext DEF Rest
<1>4. CASE ReadPicture
  <2>1. /\ UNCHANGED <<file, emitted, kept>> /\ data' = <<>> /\ at = "read" /\ kept = NoPacket
        /\ \/ at' = "send" /\ fails' = fails
           \/ at' = "failed" /\ fails' = fails + 1
    BY <1>4 DEF ReadPicture, x264, InStep
  <2>2. Rest(at, data, kept) = <<>> /\ Line = file \o <<>> /\ <<>> \in Seq(Nat)
    BY <1>0, <2>1, LineIs DEF Rest
  <2>3. CASE at' = "send" /\ fails' = fails
    <3>1. data' \o Kept(kept') = <<>>
      BY <1>0, <2>1, ConcatEmptySeq
    <3> QED BY <1>1, <2>1, <2>2, <2>3, <3>1, LineNext DEF Rest
  <2>4. CASE at' = "failed" /\ fails' = fails + 1
    BY <1>0, <1>2, <2>1, <2>2, <2>4 DEF LineOK
  <2> QED BY <2>1, <2>3, <2>4
<1>5. CASE Receive
  <2>1. /\ UNCHANGED <<file, emitted, at, fails>> /\ data' = Append(data, kept) /\ kept' = NoPacket
        /\ at = "receive" /\ kept \in Nat /\ Kept(kept) = <<kept>>
    BY <1>5 DEF Receive, x264, EncodeTypeOK, Kept
  <2>2. data' = data \o Kept(kept)
    BY <2>1, AppendIsConcat DEF EncodeTypeOK
  <2>3. data' \o <<>> = data'
    BY <1>0, <2>2, ConcatProperties, ConcatEmptySeq
  <2> QED BY <1>0, <1>1, <2>1, <2>2, <2>3, LineIs, LineNext DEF Rest
<1>6. CASE WriteFile
  <2>1. /\ UNCHANGED <<emitted, kept, fails>> /\ kept = NoPacket /\ at' \in {"done", "read"}
        /\ \/ at = "encoded" /\ file' = file \o data
           \/ at = "failed" /\ file' = Append(file, Junk)
    BY <1>6 DEF WriteFile, NextPicture, InStep, x264
  <2>2. file' = Line
    <3>1. Kept(kept) = <<>> /\ (at = "encoded" => Rest(at, data, kept) = data)
      BY <1>0, <2>1 DEF Rest
    <3>2. CASE at = "encoded"
      BY <2>1, <3>1, <3>2, LineIs
    <3>3. CASE at = "failed"
      BY <2>1, <3>3, LineIs
    <3> QED BY <2>1, <3>2, <3>3
  <2>3. file' \o <<>> = file'
    BY ConcatEmptySeq DEF EncodeTypeOK
  <2> QED BY <1>0, <1>1, <2>1, <2>2, <2>3, LineNext DEF Rest
<1>7. CASE EmitFrame
  <2>1. PICK f \in Nat : /\ emitted' = Append(emitted, f) /\ emitted'[Len(emitted')] = f
                         /\ emitted' \in Seq(Nat) /\ f \notin X264!Range(emitted)
    BY <1>7, Emits DEF EmitFrame
  <2>2. /\ UNCHANGED <<data, file>> /\ kept = NoPacket /\ at = "frame"
        /\ \/ at' = "receive" /\ kept' = f /\ fails' = fails
           \/ at' = "failed" /\ kept' = kept /\ fails' = fails + 1
    BY <1>7, <2>1 DEF EmitFrame, InStep, Returns, Ok, Failed, EndOfFile
  <2>3. Kept(f) = <<f>> /\ f \in Bytes /\ <<f>> \in Seq(Bytes)
    BY Constants DEF Kept
  <2>4. Line = file \o data
    BY <1>0, <2>2, LineIs DEF Rest
  <2>5. Line \in Seq(Bytes) /\ Append(Line, f) = file \o Append(data, f) /\ data \o <<f>> = Append(data, f)
    <3>1. /\ file \o data \in Seq(Bytes)
          /\ (file \o data) \o <<f>> = file \o (data \o <<f>>)
      BY <1>0, <2>3, ConcatProperties, ConcatAssociative
    <3>2. (file \o data) \o <<f>> = Append(file \o data, f) /\ data \o <<f>> = Append(data, f)
      BY <1>0, <2>3, <3>1, AppendIsConcat
    <3> QED BY <2>4, <3>1, <3>2
  <2>6. \A l \in 1 .. Len(emitted) : emitted[l] # f
    BY <1>0, <2>1, LenProperties DEF X264!Range
  <2>7. Accounts(Append(Line, f), emitted') /\ JunkIn(Append(Line, f)) = JunkIn(Line)
    BY <1>0, <2>1, <2>5, <2>6, PacketPlaced DEF LineOK
  <2>8. CASE at' = "receive" /\ kept' = f /\ fails' = fails
    <3>1. Line' = Append(Line, f)
      BY <2>2, <2>3, <2>5, <2>8, LineNext DEF Rest
    <3> QED BY <2>7, <2>8, <3>1 DEF LineOK
  <2>9. CASE at' = "failed" /\ kept' = kept /\ fails' = fails + 1
    <3>1. Append(data, f) \in Seq(Nat)
      BY <1>0, AppendProperties
    <3> QED BY <1>2, <2>1, <2>2, <2>5, <2>7, <2>9, <3>1
  <2> QED BY <2>2, <2>8, <2>9
<1>8. CASE EncodeFails
  <2>1. /\ UNCHANGED <<data, file, emitted, kept>> /\ kept = NoPacket /\ at = "x264"
        /\ at' = "failed" /\ fails' = fails + 1
    BY <1>8 DEF EncodeFails, InStep, Returns, Ok, Failed, EndOfFile, x264
  <2>2. Line = file \o data
    BY <1>0, <2>1, LineIs DEF Rest
  <2> QED BY <1>0, <1>2, <2>1, <2>2 DEF LineOK
<1>9. CASE Terminated
  BY <1>1, <1>9 DEF Terminated, vars, x264, Line, OnTheWay
<1> QED BY <1>3, <1>4, <1>5, <1>6, <1>7, <1>8, <1>9 DEF EncodeNext, EncodeStep

-----------------------------------------------------------------------------
(* ffvencode keeps the types, what x264 has emitted, its place and the file: *)
(* inductive, for every file and delay and any number of failures.           *)
THEOREM Invariance == EncodeSpec => []EncodeIInv
<1> DEFINE I == EncodeTypeOK /\ EmittedOnce /\ InStep /\ LineOK
<1>1. EncodeInit => I
  BY InitTypes, InitInStep, InitLine
<1>2. I /\ [EncodeNext]_vars => I'
  <2> SUFFICES ASSUME I, [EncodeNext]_vars PROVE I'
    OBVIOUS
  <2>1. CASE EncodeNext
    <3>1. EncodeTypeOK' /\ EmittedOnce'
      BY <2>1, NextTypes
    <3> QED BY <2>1, <3>1, NextInStep, NextLine
  <2>2. CASE UNCHANGED vars
    BY <2>2 DEF vars, x264, EncodeTypeOK, EmittedOnce, InStep, Past, InCall, Flushing, FlushFailed,
                LineOK, Line, OnTheWay
  <2> QED BY <2>1, <2>2
<1>3. I => EncodeIInv
  <2> SUFFICES ASSUME I PROVE FileExact
    BY DEF EncodeIInv
  <2>1. at = "done" => received \in num - fails .. num
    BY DEF InStep, Past
  <2> QED BY <2>1 DEF InStep, LineOK, FileExact
<1> QED BY <1>1, <1>2, <1>3, PTL DEF EncodeSpec

(* The file of ffvencode is what x264 has emitted, in that order and nothing *)
(* twice: nothing is lost in buffer_pkt, in the buffer of main or in x264    *)
(* but what a call that failed had collected, for which stale bytes stand.   *)
THEOREM FileComplete == EncodeSpec => []FileExact
<1>1. EncodeIInv => FileExact
  BY DEF EncodeIInv
<1> QED BY <1>1, Invariance, PTL

-----------------------------------------------------------------------------
(* The headers of mpeg4-aac.c. *)

(* The length of a frame survives mpeg4_aac_adts_save, up to the thirteen    *)
(* bits that the field has: the refusal of 4096 bytes is not needed.         *)
THEOREM LengthCarried ==
  ASSUME NEW c \in Configs, NEW len \in Nat, len < 8192
  PROVE  FrameLength(AdtsHeader(c, len)) = len
<1> DEFINE h == AdtsHeader(c, len)
<1>1. /\ h[4] = (c.chan % 4) * 64 + ((len \div 2048) % 4)
      /\ h[5] = (len \div 8) % 256
      /\ h[6] = (len % 8) * 32 + 31
  BY DEF AdtsHeader, HighBits
<1> HIDE DEF h
<1>2. c.chan \in 0 .. 7
  BY DEF Configs
<1>3. h[4] % 4 = (len \div 2048) % 4
  BY <1>1, <1>2
<1>4. (h[6] \div 32) % 8 = len % 8
  BY <1>1
<1>5. len = ((len \div 2048) % 4) * 2048 + ((len \div 8) % 256) * 8 + (len % 8)
  OBVIOUS
<1>6. FrameLength(h) = len
  BY <1>1, <1>3, <1>4, <1>5 DEF FrameLength
<1> QED BY <1>6 DEF h

(* What mpeg4_aac_adts_load finds in a header of mpeg4_aac_adts_save: the    *)
(* frequency and the channels it was made from.                              *)
LEMMA ConfigCarried ==
  ASSUME NEW c \in Configs, NEW len \in Nat
  PROVE  /\ AdtsLoad(AdtsHeader(c, len)).freq = c.freq
         /\ AdtsLoad(AdtsHeader(c, len)).chan = c.chan
         /\ c.profile <= 4 => AdtsLoad(AdtsHeader(c, len)).profile = c.profile
<1> DEFINE h == AdtsHeader(c, len)
           p == c.profile
           f == c.freq
           n == c.chan
<1>1. p \in 1 .. 30 /\ f \in 0 .. 12 /\ n \in 0 .. 7
  BY DEF Configs
<1>2. /\ h[3] = ((p - 1) * 64 + f * 4 + ((n \div 4) % 2)) % 256
      /\ h[4] = (n % 4) * 64 + ((len \div 2048) % 4)
  BY DEF AdtsHeader, HighBits
<1> HIDE DEF h, p, f, n
<1>3. (h[3] \div 4) % 16 = f
  BY <1>1, <1>2
<1>4. h[3] % 2 = (n \div 4) % 2
  BY <1>1, <1>2
<1>5. (h[4] \div 64) % 4 = n % 4
  BY <1>1, <1>2
<1>6. (h[3] % 2) * 4 + ((h[4] \div 64) % 4) = n
  BY <1>1, <1>4, <1>5
<1>7. p <= 4 => ((h[3] \div 64) % 4) + 1 = p
  BY <1>1, <1>2
<1>8. AdtsLoad(h) = [profile |-> ((h[3] \div 64) % 4) + 1, freq |-> f, chan |-> n]
  BY <1>3, <1>6 DEF AdtsLoad
<1>9. AdtsLoad(h).freq = f /\ AdtsLoad(h).chan = n /\ (p <= 4 => AdtsLoad(h).profile = p)
  BY <1>7, <1>8
<1> QED BY <1>9 DEF h, p, f, n

(* mpeg4_aac_adts_load gives back what mpeg4_aac_adts_save was given, for    *)
(* the four object types that the two bits of the field can tell.            *)
THEOREM AdtsRoundTrip ==
  ASSUME NEW c \in [profile : 1 .. 4, freq : 0 .. 12, chan : 0 .. 7], NEW len \in Nat
  PROVE  AdtsLoad(AdtsHeader(c, len)) = c
<1>1. c \in Configs /\ c.profile <= 4
  BY DEF Configs
<1>2. AdtsLoad(AdtsHeader(c, len)) =
        [profile |-> AdtsLoad(AdtsHeader(c, len)).profile,
         freq |-> AdtsLoad(AdtsHeader(c, len)).freq,
         chan |-> AdtsLoad(AdtsHeader(c, len)).chan]
  BY DEF AdtsLoad
<1>3. AdtsLoad(AdtsHeader(c, len)) = [profile |-> c.profile, freq |-> c.freq, chan |-> c.chan]
  BY <1>1, <1>2, ConfigCarried
<1> QED BY <1>3

(* The same for the two bytes of an AudioSpecificConfig, whose fields are    *)
(* wide enough for every configuration that the asserts let pass.            *)
THEOREM AscRoundTrip ==
  ASSUME NEW c \in Configs
  PROVE  AscLoad(AscHeader(c)) = c
<1> DEFINE h == AscHeader(c)
           p == c.profile
           f == c.freq
           n == c.chan
<1>1. p \in 1 .. 30 /\ f \in 0 .. 12 /\ n \in 0 .. 7
  BY DEF Configs
<1>2. h[1] = p * 8 + ((f \div 2) % 8) /\ h[2] = (f % 2) * 128 + (n % 16) * 8
  BY DEF AscHeader
<1>3. c = [profile |-> p, freq |-> f, chan |-> n]
  BY DEF Configs
<1> HIDE DEF h, p, f, n
<1>4. (h[1] \div 8) % 32 = p
  BY <1>1, <1>2
<1>5. h[1] % 8 = f \div 2
  BY <1>1, <1>2
<1>6. (h[2] \div 128) % 2 = f % 2
  BY <1>1, <1>2
<1>7. (h[1] % 8) * 2 + ((h[2] \div 128) % 2) = f
  BY <1>1, <1>5, <1>6
<1>8. (h[2] \div 8) % 16 = n
  BY <1>1, <1>2
<1>9. AscLoad(h) = c
  BY <1>3, <1>4, <1>7, <1>8 DEF AscLoad
<1> QED BY <1>9 DEF h

(* FrequencyFrom finds the rate it is given, or -1. *)
LEMMA FrequencyFound ==
  ASSUME NEW rate, FrequencyFrom(rate) \in 0 .. 12
  PROVE  Frequencies[FrequencyFrom(rate) + 1] = rate
<1>1. \E k \in 0 .. 12 : Frequencies[k + 1] = rate
  BY DEF FrequencyFrom
<1> QED BY <1>1 DEF FrequencyFrom

LEMMA HeaderType ==
  ASSUME NEW c \in Configs, NEW len \in Nat
  PROVE  AdtsHeader(c, len) \in Seq(0 .. 255) /\ Len(AdtsHeader(c, len)) = HeaderBytes
<1>1. c.profile \in 1 .. 30 /\ c.freq \in 0 .. 12 /\ c.chan \in 0 .. 7
  BY DEF Configs
<1>2. /\ ((c.profile - 1) * 64 + c.freq * 4 + ((c.chan \div 4) % 2)) % 256 \in 0 .. 255
      /\ (c.chan % 4) * 64 + ((len \div 2048) % 4) \in 0 .. 255
      /\ (len \div 8) % 256 \in 0 .. 255
      /\ (len % 8) * 32 + 31 \in 0 .. 255
      /\ 252 + ((len \div 1024) % 4) \in 0 .. 255
  BY <1>1
<1> QED BY <1>2 DEF AdtsHeader, HighBits, HeaderBytes

-----------------------------------------------------------------------------
(* ffdemux. *)

FileOK ==
  /\ Codec \in [profile : Int, rate : Nat, channels : Nat, frameSize : Nat]
  /\ media.packets \in Seq([kind : {"video", "audio", "other"}, size : Nat])
DemuxInv == FileOK /\ DemuxTypeOK /\ HeaderMatches

LEMMA DemuxStarts == DemuxAssumption /\ DemuxInit => DemuxInv
<1> SUFFICES ASSUME DemuxAssumption, DemuxInit PROVE DemuxInv
  OBVIOUS
<1>1. FileOK
  BY DEF DemuxAssumption, DemuxInit, FileOK, Codec
<1>2. header \in Seq(0 .. 255) /\ Len(header) = HeaderBytes
  <2>1. PICK b \in {0, 255} : header = <<b, b, b, b, b, b, b>>
    BY DEF DemuxInit, Garbage
  <2>2. b \in 0 .. 255
    OBVIOUS
  <2> QED BY <2>1, <2>2 DEF HeaderBytes
<1>3. Len(audio) = 0 /\ HeaderMatches
  BY DEF DemuxInit, HeaderMatches
<1>4. pos \in 0 .. Len(media.packets)
  BY <1>1 DEF DemuxInit, FileOK
<1> QED BY <1>1, <1>2, <1>3, <1>4 DEF DemuxInit, DemuxInv, DemuxTypeOK

(* The one step that matters: a header is made for this packet, or the one   *)
(* that was there stays and HeaderMatches asks nothing of it.                *)
LEMMA ReadAudioInv ==
  ASSUME DemuxInv, ReadAudio
  PROVE  DemuxInv'
<1> DEFINE entry == [head |-> header', size |-> Packet.size, no |-> pos + 1]
<1>1. Packet.size \in Nat /\ Length \in Nat /\ pos' \in 0 .. Len(media.packets)
  <2>1. pos \in Nat /\ pos < Len(media.packets) /\ pos' = pos + 1
    BY DEF DemuxInv, DemuxTypeOK, ReadAudio, Reads
  <2>2. media.packets \in Seq([kind : {"video", "audio", "other"}, size : Nat])
    BY DEF DemuxInv, FileOK
  <2>3. pos + 1 \in 1 .. Len(media.packets)
    BY <2>1, <2>2
  <2>4. Packet \in [kind : {"video", "audio", "other"}, size : Nat]
    <3> DEFINE R == [kind : {"video", "audio", "other"}, size : Nat]
               s == media.packets
    <3>1. s \in Seq(R) /\ pos + 1 \in 1 .. Len(s)
      BY <2>2, <2>3
    <3> HIDE DEF R, s
    <3>2. s[pos + 1] \in R
      BY <3>1
    <3> QED BY <3>2 DEF R, s, Packet
  <2> QED BY <2>1, <2>4 DEF Length, HeaderBytes
<1>2. header' \in Seq(0 .. 255) /\ Len(header') = HeaderBytes
  <2>1. CASE CanSave(Length)
    BY <1>1, <2>1, HeaderType DEF ReadAudio
  <2>2. CASE ~CanSave(Length)
    BY <2>2 DEF ReadAudio, DemuxInv, DemuxTypeOK
  <2> QED BY <2>1, <2>2
<1>3. audio' = Append(audio, entry) /\ UNCHANGED <<media, video, handle, pc>>
  BY DEF ReadAudio
<1>4. entry \in [head : Seq(0 .. 255), size : Nat, no : Nat]
  BY <1>1, <1>2 DEF DemuxInv, DemuxTypeOK
<1>5. DemuxTypeOK'
  BY <1>1, <1>2, <1>3, <1>4 DEF DemuxInv, DemuxTypeOK
<1>6. /\ Len(audio') = Len(audio) + 1
      /\ audio'[Len(audio) + 1] = entry
      /\ \A k \in 1 .. Len(audio) : audio'[k] = audio[k]
  BY <1>3 DEF DemuxInv, DemuxTypeOK
<1>7. Codec' = Codec /\ Rate' = Rate
  BY <1>3 DEF Codec, Rate, Halving
<1>8. ASSUME CanSave(Length)
      PROVE  /\ FrameLength(header') = Length
             /\ AdtsLoad(header').chan = Codec.channels % 256
             /\ Frequencies[AdtsLoad(header').freq + 1] = Rate
  <2>1. Config \in Configs /\ header' = AdtsHeader(Config, Length)
    BY <1>8 DEF ReadAudio
  <2>2. FrameLength(header') = Length
    <3>1. Length < 8192
      BY <1>1, <1>8 DEF CanSave
    <3> QED BY <1>1, <2>1, <3>1, LengthCarried
  <2>3. AdtsLoad(header').freq = Config.freq /\ AdtsLoad(header').chan = Config.chan
    BY <1>1, <2>1, ConfigCarried
  <2>4. Config.chan = Codec.channels % 256 /\ Config.freq = FrequencyFrom(Rate) % 256
    BY DEF Config
  <2>5. FrequencyFrom(Rate) \in 0 .. 12 \cup {-1} /\ Config.freq \in 0 .. 12
    BY <2>1 DEF FrequencyFrom, Configs
  <2>6. FrequencyFrom(Rate) = Config.freq /\ FrequencyFrom(Rate) \in 0 .. 12
    BY <2>4, <2>5
  <2> QED BY <2>2, <2>3, <2>4, <2>6, FrequencyFound
<1>9. HeaderMatches'
  <2> SUFFICES ASSUME NEW k \in 1 .. Len(audio'), CanSave(audio'[k].size + HeaderBytes)
               PROVE  /\ FrameLength(audio'[k].head) = audio'[k].size + HeaderBytes
                      /\ AdtsLoad(audio'[k].head).chan = Codec.channels % 256
                      /\ Frequencies[AdtsLoad(audio'[k].head).freq + 1] = Rate
    BY <1>7 DEF HeaderMatches
  <2>1. CASE k = Len(audio) + 1
    BY <1>6, <1>8, <2>1 DEF Length
  <2>2. CASE k \in 1 .. Len(audio)
    BY <1>6, <2>2 DEF DemuxInv, HeaderMatches
  <2>3. Len(audio) \in Nat /\ k \in 1 .. Len(audio) + 1
    BY <1>6 DEF DemuxInv, DemuxTypeOK
  <2> QED BY <2>1, <2>2, <2>3
<1>10. FileOK'
  BY <1>3, <1>7 DEF DemuxInv, FileOK
<1> QED BY <1>5, <1>9, <1>10 DEF DemuxInv

LEMMA DemuxStep == DemuxInv /\ [DemuxNext]_demuxVars => DemuxInv'
<1> SUFFICES ASSUME DemuxInv, [DemuxNext]_demuxVars PROVE DemuxInv'
  OBVIOUS
<1> USE DEF DemuxInv
<1>1. ASSUME UNCHANGED <<media, audio>>, DemuxTypeOK' PROVE DemuxInv'
  BY <1>1 DEF HeaderMatches, FileOK, Codec, Rate, Halving
<1>2. CASE Create
  BY <1>1, <1>2 DEF Create, DemuxTypeOK
<1>3. CASE ReadAudio
  BY <1>3, ReadAudioInv
<1>4. CASE ReadUnsupported
  BY <1>1, <1>4 DEF ReadUnsupported, DemuxTypeOK
<1>5. CASE ReadVideo
  <2>1. pos' \in 0 .. Len(media.packets) /\ pos + 1 \in Nat
    BY <1>5 DEF FileOK, ReadVideo, Reads, DemuxTypeOK
  <2>2. video' \in Seq([no : Nat])
    BY <1>5, <2>1 DEF ReadVideo, DemuxTypeOK
  <2> QED BY <1>1, <1>5, <2>1, <2>2 DEF ReadVideo, DemuxTypeOK
<1>6. CASE ReadOther
  <2>1. pos' \in 0 .. Len(media.packets)
    BY <1>6 DEF FileOK, ReadOther, Reads, DemuxTypeOK
  <2> QED BY <1>1, <1>6, <2>1 DEF ReadOther, DemuxTypeOK
<1>7. CASE DemuxReturns
  BY <1>1, <1>7 DEF DemuxReturns, DemuxTypeOK
<1>8. CASE Destory
  BY <1>1, <1>8 DEF Destory, DemuxTypeOK
<1>9. CASE Over \/ UNCHANGED demuxVars
  BY <1>1, <1>9 DEF Over, demuxVars, DemuxTypeOK
<1> QED BY <1>2, <1>3, <1>4, <1>5, <1>6, <1>7, <1>8, <1>9 DEF DemuxNext

(* Every audio packet that a header can be made for has its own, in every    *)
(* file the program makes: its length, and the rate and channels of the      *)
(* stream as they are.                                                       *)
THEOREM HeadersMatch == DemuxAssumption => (DemuxSpec => []HeaderMatches)
<1> SUFFICES ASSUME DemuxAssumption PROVE DemuxSpec => []HeaderMatches
  OBVIOUS
<1>1. DemuxInit => DemuxInv
  BY DemuxStarts
<1>2. DemuxInv => HeaderMatches
  BY DEF DemuxInv
<1> QED BY <1>1, <1>2, DemuxStep, PTL DEF DemuxSpec

(* What ffdemux keeps has its types.                                         *)
THEOREM DemuxTypes == DemuxAssumption => (DemuxSpec => []DemuxTypeOK)
<1> SUFFICES ASSUME DemuxAssumption PROVE DemuxSpec => []DemuxTypeOK
  OBVIOUS
<1>1. DemuxInit => DemuxInv
  BY DemuxStarts
<1>2. DemuxInv => DemuxTypeOK
  BY DEF DemuxInv
<1> QED BY <1>1, <1>2, DemuxStep, PTL DEF DemuxSpec

(* mpeg4_aac_test of mpeg4-aac.c passes.                                     *)
THEOREM TestPasses == AdtsTest
<1> DEFINE aac == [profile |-> 2, freq |-> 7, chan |-> 1]
<1>1. AscLoad(<<19, 136>>) = aac /\ AscHeader(aac) = <<19, 136>>
  BY DEF AscLoad, AscHeader
<1>2. AdtsHeader(aac, 1 + HeaderBytes) = <<255, 241, 92, 64, 1, 31, 252>>
  BY DEF AdtsHeader, HighBits, HeaderBytes
<1>3. AdtsLoad(<<255, 241, 92, 64, 1, 31, 252>>) = aac
  BY DEF AdtsLoad
<1>4. FrequencyFrom(22050) = 7
  <2>1. Frequencies[7 + 1] = 22050 /\ 7 \in 0 .. 12
    BY DEF Frequencies
  <2>2. FrequencyFrom(22050) \in 0 .. 12
    BY <2>1 DEF FrequencyFrom
  <2>3. Frequencies[FrequencyFrom(22050) + 1] = 22050
    BY <2>2, FrequencyFound
  <2>4. \A k \in 0 .. 12 : Frequencies[k + 1] = 22050 => k = 7
    BY DEF Frequencies
  <2> QED BY <2>2, <2>3, <2>4
<1> QED BY <1>1, <1>2, <1>3, <1>4 DEF AdtsTest
=============================================================================
