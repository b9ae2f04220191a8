------------------------------ MODULE ListFacts ------------------------------
(***************************************************************************)
(* What the operations on lists do to their length and to their elements,  *)
(* stated once for the proofs about the frame lists and the job lists,     *)
(* which then only reason with indices; and the induction that the proofs  *)
(* about operators defined by recursion need.                              *)
(***************************************************************************)
EXTENDS Naturals, Sequences, SequencesExt, SequenceTheorems, WellFoundedInduction, TLAPS

(* The two parts of a sequence cut after its first n elements. *)
LEMMA Cut ==
  ASSUME NEW S, NEW s \in Seq(S), NEW n \in 0 .. Len(s)
  PROVE  /\ SubSeq(s, 1, n) \in Seq(S)
         /\ Len(SubSeq(s, 1, n)) = n
         /\ \A i \in 1 .. n : SubSeq(s, 1, n)[i] = s[i]
         /\ SubSeq(s, n + 1, Len(s)) \in Seq(S)
         /\ Len(SubSeq(s, n + 1, Len(s))) = Len(s) - n
         /\ \A i \in 1 .. Len(s) - n : SubSeq(s, n + 1, Len(s))[i] = s[n + i]
<1>1. Len(s) \in Nat /\ \A i \in 1 .. Len(s) : s[i] \in S
  BY LenProperties, ElementOfSeq
<1>2. \A i \in 1 .. n : s[i] \in S
  BY <1>1
<1>3. \A i \in n + 1 .. Len(s) : s[i] \in S
  BY <1>1
<1>4. /\ SubSeq(s, 1, n) \in Seq(S)
      /\ Len(SubSeq(s, 1, n)) = n
      /\ \A i \in 1 .. n : SubSeq(s, 1, n)[i] = s[i]
  BY <1>1, <1>2, SubSeqProperties
<1>5. /\ SubSeq(s, n + 1, Len(s)) \in Seq(S)
      /\ Len(SubSeq(s, n + 1, Len(s))) = Len(s) - n
      /\ \A i \in 1 .. Len(s) - n : SubSeq(s, n + 1, Len(s))[i] = s[n + i]
  BY <1>1, <1>3, SubSeqProperties
<1> QED BY <1>4, <1>5

(* x264_frame_shift: the first element. *)
LEMMA Shifted ==
  ASSUME NEW S, NEW s \in Seq(S), s # <<>>
  PROVE  /\ Len(s) \in Nat \ {0} /\ Head(s) = s[1] /\ s[1] \in S
         /\ Tail(s) \in Seq(S) /\ Len(Tail(s)) = Len(s) - 1
         /\ \A i \in 1 .. Len(s) - 1 : Tail(s)[i] = s[i + 1]
BY HeadTailProperties, EmptySeq, LenProperties, ElementOfSeq

(* x264_sync_frame_list_pop: the last element. *)
LEMMA Popped ==
  ASSUME NEW S, NEW s \in Seq(S), s # <<>>
  PROVE  /\ Len(s) \in Nat \ {0} /\ Last(s) = s[Len(s)] /\ s[Len(s)] \in S
         /\ Front(s) \in Seq(S) /\ Len(Front(s)) = Len(s) - 1
         /\ \A i \in 1 .. Len(s) - 1 : Front(s)[i] = s[i]
<1>1. Len(s) \in Nat \ {0} /\ s[Len(s)] \in S
  BY EmptySeq, LenProperties, ElementOfSeq
<1>2. Len(s) - 1 \in 0 .. Len(s)
  BY <1>1
<1>3. /\ SubSeq(s, 1, Len(s) - 1) \in Seq(S)
      /\ Len(SubSeq(s, 1, Len(s) - 1)) = Len(s) - 1
      /\ \A i \in 1 .. Len(s) - 1 : SubSeq(s, 1, Len(s) - 1)[i] = s[i]
  BY <1>2, Cut
<1> QED BY <1>1, <1>3 DEF Front, Last

(* x264_sync_frame_list_push. *)
LEMMA Pushed ==
  ASSUME NEW S, NEW s \in Seq(S), NEW e \in S
  PROVE  /\ Append(s, e) \in Seq(S) /\ Len(Append(s, e)) = Len(s) + 1 /\ Len(s) \in Nat
         /\ \A i \in 1 .. Len(s) + 1 : Append(s, e)[i] = IF i <= Len(s) THEN s[i] ELSE e
<1>1. Len(s) \in Nat
  BY LenProperties
<1>2. /\ Append(s, e) \in Seq(S) /\ Len(Append(s, e)) = Len(s) + 1
      /\ \A i \in 1 .. Len(s) : Append(s, e)[i] = s[i]
      /\ Append(s, e)[Len(s) + 1] = e
  BY AppendProperties
<1> QED BY <1>1, <1>2

(* x264_frame_shift from the middle of a list: the i-th element. *)
LEMMA Removed ==
  ASSUME NEW S, NEW s \in Seq(S), NEW i \in 1 .. Len(s)
  PROVE  /\ Len(s) \in Nat \ {0} /\ s[i] \in S
         /\ RemoveAt(s, i) \in Seq(S) /\ Len(RemoveAt(s, i)) = Len(s) - 1
         /\ \A k \in 1 .. Len(s) - 1 : RemoveAt(s, i)[k] = IF k < i THEN s[k] ELSE s[k + 1]
<1> DEFINE a == SubSeq(s, 1, i - 1)
           b == SubSeq(s, i + 1, Len(s))
<1>1. Len(s) \in Nat \ {0} /\ s[i] \in S
  BY LenProperties, ElementOfSeq
<1>2. a \in Seq(S) /\ Len(a) = i - 1 /\ \A k \in 1 .. i - 1 : a[k] = s[k]
  <2>1. i - 1 \in 0 .. Len(s)
    BY <1>1
  <2> QED BY <2>1, Cut
<1>3. b \in Seq(S) /\ Len(b) = Len(s) - i /\ \A k \in 1 .. Len(s) - i : b[k] = s[i + k]
  <2>1. i \in 0 .. Len(s)
    BY <1>1
  <2> QED BY <2>1, Cut
<1>4. RemoveAt(s, i) = a \o b
  BY DEF RemoveAt
<1> HIDE DEF a, b
<1>5. /\ a \o b \in Seq(S) /\ Len(a \o b) = Len(a) + Len(b)
      /\ \A k \in 1 .. Len(a) + Len(b) : (a \o b)[k] = IF k <= Len(a) THEN a[k] ELSE b[k - Len(a)]
  BY <1>2, <1>3, ConcatProperties
<1>6. Len(a \o b) = Len(s) - 1
  <2>1. Len(a) + Len(b) = Len(s) - 1
    BY <1>1, <1>2, <1>3
  <2> QED BY <1>5, <2>1
<1>7. ASSUME NEW k \in 1 .. Len(s) - 1
      PROVE  (a \o b)[k] = IF k < i THEN s[k] ELSE s[k + 1]
  <2>1. CASE k < i
    <3>1. k \in 1 .. i - 1 /\ k <= Len(a) /\ k \in 1 .. Len(a) + Len(b)
      BY <1>1, <1>2, <1>3, <2>1
    <3> QED BY <1>2, <1>5, <2>1, <3>1
  <2>2. CASE ~(k < i)
    <3> DEFINE m == k - (i - 1)
    <3>1. /\ m \in 1 .. Len(s) - i /\ i + m = k + 1 /\ m = k - Len(a)
          /\ ~(k <= Len(a)) /\ k \in 1 .. Len(a) + Len(b)
      BY <1>1, <1>2, <1>3, <2>2
    <3>2. (a \o b)[k] = b[m]
      BY <1>5, <3>1
    <3>3. b[m] = s[i + m]
      BY <1>3, <3>1
    <3> QED BY <2>2, <3>1, <3>2, <3>3
  <2> QED BY <2>1, <2>2
<1> QED BY <1>1, <1>4, <1>5, <1>6, <1>7

(* ff_interleave_add_packet: a new node in front of the i-th. *)
LEMMA Inserted ==
  ASSUME NEW S, NEW s \in Seq(S), NEW i \in 1 .. Len(s) + 1, NEW e \in S
  PROVE  /\ Len(s) \in Nat
         /\ InsertAt(s, i, e) \in Seq(S) /\ Len(InsertAt(s, i, e)) = Len(s) + 1
         /\ \A k \in 1 .. Len(s) + 1 :
              InsertAt(s, i, e)[k] = IF k < i THEN s[k] ELSE IF k = i THEN e ELSE s[k - 1]
<1> DEFINE a == SubSeq(s, 1, i - 1)
           b == SubSeq(s, i, Len(s))
           c == Append(a, e)
<1>1. Len(s) \in Nat
  BY LenProperties
<1>2. i - 1 \in 0 .. Len(s) /\ (i - 1) + 1 = i
  BY <1>1
<1>3. a \in Seq(S) /\ Len(a) = i - 1 /\ \A k \in 1 .. i - 1 : a[k] = s[k]
  BY <1>2, Cut
<1>4. b \in Seq(S) /\ Len(b) = Len(s) - (i - 1) /\ \A k \in 1 .. Len(s) - (i - 1) : b[k] = s[(i - 1) + k]
  <2>1. /\ SubSeq(s, (i - 1) + 1, Len(s)) \in Seq(S)
        /\ Len(SubSeq(s, (i - 1) + 1, Len(s))) = Len(s) - (i - 1)
        /\ \A k \in 1 .. Len(s) - (i - 1) : SubSeq(s, (i - 1) + 1, Len(s))[k] = s[(i - 1) + k]
    BY <1>2, Cut
  <2> QED BY <1>2, <2>1
<1>5. c = a \o <<e>>
  BY <1>3, AppendIsConcat
<1>6. InsertAt(s, i, e) = c \o b
  BY <1>5 DEF InsertAt
<1> HIDE DEF a, b
<1>7. /\ c \in Seq(S) /\ Len(c) = i
      /\ \A k \in 1 .. i : c[k] = IF k < i THEN s[k] ELSE e
  <2>1. /\ c \in Seq(S) /\ Len(c) = Len(a) + 1
        /\ \A k \in 1 .. Len(a) + 1 : c[k] = IF k <= Len(a) THEN a[k] ELSE e
    BY <1>3, Pushed
  <2>2. Len(c) = i
    BY <1>2, <1>3, <2>1
  <2>3. ASSUME NEW k \in 1 .. i PROVE c[k] = IF k < i THEN s[k] ELSE e
    <3>1. k \in 1 .. Len(a) + 1 /\ (k <= Len(a) <=> k < i)
      BY <1>2, <1>3
    <3> QED BY <1>3, <2>1, <3>1
  <2> QED BY <2>1, <2>2, <2>3
<1> HIDE DEF c
<1>8. /\ c \o b \in Seq(S) /\ Len(c \o b) = Len(c) + Len(b)
      /\ \A k \in 1 .. Len(c) + Len(b) : (c \o b)[k] = IF k <= Len(c) THEN c[k] ELSE b[k - Len(c)]
  BY <1>4, <1>7, ConcatProperties
<1>9. Len(c) + Len(b) = Len(s) + 1
  BY <1>1, <1>4, <1>7
<1>10. ASSUME NEW k \in 1 .. Len(s) + 1
       PROVE  (c \o b)[k] = IF k < i THEN s[k] ELSE IF k = i THEN e ELSE s[k - 1]
  <2>1. CASE k <= i
    BY <1>7, <1>8, <1>9, <2>1
  <2>2. CASE ~(k <= i)
    <3> DEFINE m == k - i
    <3>1. m \in 1 .. Len(s) - (i - 1) /\ (i - 1) + m = k - 1 /\ ~(k < i) /\ k # i
      BY <1>1, <2>2
    <3>2. (c \o b)[k] = b[m]
      BY <1>7, <1>8, <1>9, <2>2
    <3>3. b[m] = s[k - 1]
      BY <1>4, <3>1
    <3> QED BY <3>1, <3>2, <3>3
  <2> QED BY <2>1, <2>2
<1> QED BY <1>1, <1>6, <1>8, <1>9, <1>10

(* A list with an element put in front. *)
LEMMA Prefixed ==
  ASSUME NEW S, NEW x \in S, NEW y \in Seq(S)
  PROVE  /\ <<x>> \o y \in Seq(S) /\ <<x>> \o y # <<>>
         /\ Head(<<x>> \o y) = x /\ Tail(<<x>> \o y) = y
         /\ Append(<<>>, x) = <<x>> \o <<>>
         /\ \A z \in S : Append(<<x>> \o y, z) = <<x>> \o Append(y, z)
<1> DEFINE l == <<x>>
           w == l \o y
<1>1. l \in Seq(S) /\ Len(l) = 1 /\ l[1] = x /\ Len(y) \in Nat
  BY LenProperties
<1>2. Append(<<>>, x) = l
  OBVIOUS
<1>3. \A z \in S : <<z>> \in Seq(S)
  OBVIOUS
<1> HIDE DEF l
<1>4. /\ w \in Seq(S) /\ Len(w) = 1 + Len(y)
      /\ \A i \in 1 .. 1 + Len(y) : w[i] = IF i <= 1 THEN x ELSE y[i - 1]
  <2>1. /\ w \in Seq(S) /\ Len(w) = Len(l) + Len(y)
        /\ \A i \in 1 .. Len(l) + Len(y) : w[i] = IF i <= Len(l) THEN l[i] ELSE y[i - Len(l)]
    BY <1>1, ConcatProperties
  <2> QED BY <1>1, <2>1
<1>5. ASSUME NEW z \in S PROVE Append(w, z) = l \o Append(y, z)
  <2>1. Append(w, z) = w \o <<z>> /\ Append(y, z) = y \o <<z>>
    BY <1>4, AppendIsConcat
  <2>2. w \o <<z>> = l \o (y \o <<z>>)
    <3> DEFINE e == <<z>>
    <3>1. e \in Seq(S)
      BY <1>3
    <3> HIDE DEF e
    <3>2. (l \o y) \o e = l \o (y \o e)
      BY <1>1, <3>1, ConcatAssociative
    <3> QED BY <3>2 DEF e, w
  <2> QED BY <2>1, <2>2
<1>6. l \o <<>> = l
  BY <1>1, ConcatEmptySeq
<1> HIDE DEF w
<1>7. w # <<>>
  BY <1>1, <1>4, EmptySeq
<1>8. /\ Head(w) = w[1] /\ Tail(w) \in Seq(S) /\ Len(Tail(w)) = Len(w) - 1
      /\ \A i \in 1 .. Len(w) - 1 : Tail(w)[i] = w[i + 1]
  BY <1>4, <1>7, Shifted
<1>9. Head(w) = x
  BY <1>1, <1>4, <1>8
<1>10. Tail(w) = y
  <2> DEFINE u == Tail(w)
  <2>1. u \in Seq(S) /\ Len(u) = Len(y)
    BY <1>1, <1>4, <1>8
  <2>2. ASSUME NEW i \in 1 .. Len(u) PROVE u[i] = y[i]
    <3>1. i \in 1 .. Len(w) - 1 /\ i + 1 \in 1 .. 1 + Len(y) /\ ~(i + 1 <= 1) /\ (i + 1) - 1 = i
      BY <1>1, <1>4, <2>1
    <3> QED BY <1>4, <1>8, <3>1
  <2> HIDE DEF u
  <2>3. u = y
    BY <2>1, <2>2, SeqEqual
  <2> QED BY <2>3 DEF u
<1> QED BY <1>2, <1>4, <1>5, <1>6, <1>7, <1>9, <1>10 DEF l, w

(* The same, with one appended as well. *)
LEMMA PrefixedAppend ==
  ASSUME NEW S, NEW x \in S, NEW y \in Seq(S), NEW z \in S
  PROVE  Append(<<x>> \o y, z) = <<x>> \o Append(y, z)
<1>1. \A e \in S : Append(<<x>> \o y, e) = <<x>> \o Append(y, e)
  BY Prefixed
<1> QED BY <1>1

-----------------------------------------------------------------------------
(* A set of numbers has a least one. *)
LEMMA LeastNumber ==
  ASSUME NEW P, P \subseteq Nat, P # {}
  PROVE  \E n \in P : \A m \in P : n <= m
<1> DEFINE R == {ss \in Nat \X Nat : ss[1] < ss[2]}
<1>1. IsWellFoundedOn(R, Nat)
  BY NatLessThanWellFounded, Zenon DEF OpToRel
<1>2. \A n, m \in Nat : m < n => <<m, n>> \in R
  OBVIOUS
<1> HIDE DEF R
<1>3. PICK n \in P : \A m \in P : ~(<<m, n>> \in R)
  BY <1>1, WFMin
<1>4. \A m \in P : ~(m < n) /\ m \in Nat /\ n \in Nat
  BY <1>2, <1>3
<1> QED BY <1>4

(* Induction, stated of a set. *)
LEMMA Induct ==
  ASSUME NEW P, 0 \in P, \A n \in Nat : n \in P => n + 1 \in P
  PROVE  Nat \subseteq P
<1> SUFFICES ASSUME Nat \ P # {} PROVE FALSE
  OBVIOUS
<1>1. PICK n \in Nat \ P : \A m \in Nat \ P : n <= m
  <2>1. Nat \ P \subseteq Nat
    OBVIOUS
  <2> QED BY <2>1, LeastNumber
<1>2. n - 1 \in Nat /\ n - 1 \in P /\ (n - 1) + 1 = n
  BY <1>1
<1> QED BY <1>1, <1>2

(* A function defined by recursion up to n exists. *)
Rules(A, n) == [1 .. n -> [A -> A]]
LEMMA Recursion ==
  ASSUME NEW A, NEW a \in A, NEW n \in Nat, NEW g \in Rules(A, n)
  PROVE  \E f \in [0 .. n -> A] : f[0] = a /\ \A i \in 1 .. n : f[i] = g[i][f[i - 1]]
<1> USE DEF Rules
<1> DEFINE Good(k) == \E f \in [0 .. k -> A] : f[0] = a /\ \A i \in 1 .. k : f[i] = g[i][f[i - 1]]
           P == {k \in Nat : k <= n => Good(k)}
<1>1. Good(0)
  <2> DEFINE c == [i \in 0 .. 0 |-> a]
  <2>1. c \in [0 .. 0 -> A] /\ c[0] = a /\ 1 .. 0 = {}
    OBVIOUS
  <2> HIDE DEF c
  <2> QED BY <2>1
<1>2. ASSUME NEW k \in Nat, k \in P, k + 1 <= n PROVE Good(k + 1)
  <2>1. PICK f \in [0 .. k -> A] : f[0] = a /\ \A i \in 1 .. k : f[i] = g[i][f[i - 1]]
    BY <1>2
  <2> DEFINE h == [i \in 0 .. k + 1 |-> IF i <= k THEN f[i] ELSE g[k + 1][f[k]]]
  <2>2. k + 1 \in 1 .. n /\ f[k] \in A
    BY <1>2
  <2>3. h \in [0 .. k + 1 -> A]
    BY <2>2
  <2>4. h[0] = a
    BY <2>1
  <2>5. ASSUME NEW i \in 1 .. k + 1 PROVE h[i] = g[i][h[i - 1]]
    <3>1. CASE i <= k
      <4>1. i \in 1 .. k /\ i \in 0 .. k + 1 /\ i - 1 \in 0 .. k + 1 /\ i - 1 <= k
        BY <3>1
      <4> QED BY <2>1, <3>1, <4>1
    <3>2. CASE ~(i <= k)
      <4>1. i = k + 1 /\ i \in 0 .. k + 1 /\ i - 1 = k /\ k \in 0 .. k + 1
        BY <3>2
      <4> QED BY <3>2, <4>1
    <3> QED BY <3>1, <3>2
  <2> HIDE DEF h
  <2> QED BY <2>3, <2>4, <2>5
<1> HIDE DEF Good
<1>3. 0 \in P /\ \A k \in Nat : k \in P => k + 1 \in P
  BY <1>1, <1>2
<1>4. n \in P
  <2> HIDE DEF P
  <2> QED BY <1>3, Induct
<1> QED BY <1>4 DEF Good
=============================================================================
