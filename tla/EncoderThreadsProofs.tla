------------------------ MODULE EncoderThreadsProofs ------------------------
(***************************************************************************)
(* The safety of x264's threads: of the thread pool, for every number of   *)
(* workers and of arguments, and of the frames that the frame threads      *)
(* share, for every number of threads, references and rows.  IInv and      *)
(* RowsIInv are inductive.  The two models have no variable in common.     *)
(***************************************************************************)
EXTENDS ThreadPool, FrameRows, ListFacts, SequenceTheorems, FiniteSetTheorems, TLAPS

(***************************************************************************)
(* The thread pool.                                                        *)
(***************************************************************************)
LEMMA SizeType == Size \in Nat \ {0}
BY PoolAssumption, FS_CardinalityType, FS_EmptySet DEF Size

(* The workers that hold a job, and the arguments that have one: as many     *)
(* more or less as one takes or leaves.                                      *)
LEMMA BusySet ==
  ASSUME TypeOK
  PROVE  IsFiniteSet(Busy) /\ Cardinality(Busy) \in Nat
<1>1. Busy \subseteq Workers
  BY DEF Busy
<1> QED BY <1>1, PoolAssumption, FS_Subset, FS_CardinalityType

LEMMA PendingSet ==
  ASSUME TypeOK
  PROVE  /\ IsFiniteSet(Pending) /\ Cardinality(Pending) \in Nat
         /\ IsFiniteSet(active) /\ Cardinality(active) \in Nat
<1>1. IsFiniteSet(active)
  BY PoolAssumption, FS_Subset DEF TypeOK
<1>2. IsFiniteSet(active \cup {waiting})
  BY <1>1, FS_AddElement
<1>3. Pending = active \/ Pending = active \cup {waiting}
  BY DEF Pending
<1> QED BY <1>1, <1>2, <1>3, FS_CardinalityType

(* There is a free job for whoever runs an argument that has none. *)
LEMMA FreeJob ==
  ASSUME IInv, user = "idle", NEW a \in Args, a \notin active
  PROVE  uninit # <<>>
<1>1. active \subseteq Args \ {a} /\ IsFiniteSet(Args \ {a})
  BY PoolAssumption, FS_RemoveElement DEF IInv, TypeOK
<1>2. Cardinality(active) <= Cardinality(Args \ {a})
  BY <1>1, FS_Subset
<1>3. Cardinality(Args \ {a}) = Cardinality(Args) - 1 /\ Cardinality(Args) \in Nat
  BY PoolAssumption, FS_RemoveElement, FS_CardinalityType
<1>4. Cardinality(active) < Size /\ Cardinality(active) \in Nat
  <2>1. Cardinality(active) \in Nat
    BY PendingSet DEF IInv
  <2> QED BY <1>2, <1>3, <2>1, SizeType, PoolAssumption DEF Size
<1>5. Pending = active
  BY DEF Pending
<1>6. /\ Len(uninit) + Len(run) + Len(done) + Cardinality(Busy) + (IF hand # 0 THEN 1 ELSE 0) = Size
      /\ Len(run) + Len(done) + Cardinality(Busy) + (IF user = "queue" THEN 1 ELSE 0) = Cardinality(active)
      /\ hand = 0
  BY <1>5 DEF IInv, Counts, Positions
<1>7. Len(run) \in Nat /\ Len(done) \in Nat /\ Len(uninit) \in Nat /\ Cardinality(Busy) \in Nat
  BY BusySet, LenProperties DEF IInv, TypeOK
<1>8. Len(uninit) > 0
  BY <1>4, <1>6, <1>7, SizeType
<1> QED BY <1>8, EmptySeq

(* There is room for whoever holds a job. *)
LEMMA Room ==
  ASSUME IInv, user # "gone", Busy # {} \/ hand # 0
  PROVE  Len(uninit) < Size /\ Len(run) < Size /\ Len(done) < Size
<1>1. Len(uninit) + Len(run) + Len(done) + Cardinality(Busy) + (IF hand # 0 THEN 1 ELSE 0) = Size
  BY DEF IInv, Counts
<1>2. Len(run) \in Nat /\ Len(done) \in Nat /\ Len(uninit) \in Nat /\ Cardinality(Busy) \in Nat
  BY BusySet, LenProperties DEF IInv, TypeOK
<1>3. Busy # {} => Cardinality(Busy) > 0
  BY <1>2, BusySet, FS_EmptySet DEF IInv
<1> QED BY <1>1, <1>2, <1>3, SizeType

LEMMA InitInv == Init => IInv
<1> SUFFICES ASSUME Init PROVE IInv
  OBVIOUS
<1> USE SizeType DEF Init
<1>1. uninit \in Seq(Jobs) /\ Len(uninit) = Size /\ \A i \in 1 .. Size : uninit[i] = i
  <2>1. uninit = [i \in 1 .. Size |-> i]
    OBVIOUS
  <2>2. uninit \in Seq(Jobs)
    BY <2>1, IsASeq DEF Jobs
  <2>3. Len(uninit) = Size
    BY <2>1, <2>2, LenProperties
  <2> QED BY <2>1, <2>2, <2>3
<1>2. Len(run) = 0 /\ Len(done) = 0 /\ run \in Seq(Jobs) /\ done \in Seq(Jobs)
  BY EmptySeq
<1>3. TypeOK
  BY <1>1, <1>2 DEF TypeOK
<1>4. NeverBlocked /\ InOrder /\ OwnResult /\ NoLostJob
  BY <1>2 DEF NeverBlocked, InOrder, OwnResult, NoLostJob, Matches
<1>5. JobsConserved
  BY <1>1, <1>2 DEF JobsConserved, Somewhere, Once, In, Distinct, Apart, Holding, Jobs
<1>6. Positions
  BY DEF Positions, Holding
<1>7. Counts
  <2>1. Busy = {} /\ Pending = {}
    BY DEF Busy, Holding, Pending
  <2> QED BY <1>1, <1>2, <2>1, FS_EmptySet DEF Counts
<1>8. Arguments
  BY <1>2 DEF Arguments, Live, In, Jobs
<1>9. Results /\ Turns
  BY <1>2 DEF Results, Turns
<1> QED BY <1>3, <1>4, <1>5, <1>6, <1>7, <1>8, <1>9 DEF IInv

(* The actions that move no job. *)
LEMMA LoopStep ==
  ASSUME IInv, NEW w \in Workers, Loop(w)
  PROVE  IInv'
<1> USE DEF Loop, userVars
<1>1. TypeOK'
  BY DEF IInv, TypeOK
<1>2. NeverBlocked' /\ InOrder' /\ OwnResult' /\ NoLostJob'
  BY DEF IInv, TypeOK, NeverBlocked, InOrder, OwnResult, NoLostJob, Matches
<1>3. JobsConserved'
  BY DEF IInv, JobsConserved, Somewhere, Once, In, Distinct, Apart, Holding
<1>4. Positions'
  BY DEF IInv, TypeOK, Positions, Holding
<1>5. Counts'
  BY DEF IInv, Counts, Busy, Holding, Pending
<1>6. Arguments'
  BY DEF IInv, Arguments, Live, In, Pending
<1>7. Results' /\ Turns'
  BY DEF IInv, TypeOK, Results, Turns
<1> QED BY <1>1, <1>2, <1>3, <1>4, <1>5, <1>6, <1>7 DEF IInv

LEMMA TakeNoneStep ==
  ASSUME IInv, NEW w \in Workers, TakeNone(w)
  PROVE  IInv'
<1> USE DEF TakeNone, userVars
<1>1. TypeOK'
  BY DEF IInv, TypeOK
<1>2. NeverBlocked' /\ InOrder' /\ OwnResult' /\ NoLostJob'
  BY DEF IInv, TypeOK, NeverBlocked, InOrder, OwnResult, NoLostJob, Matches
<1>3. JobsConserved'
  BY DEF IInv, JobsConserved, Somewhere, Once, In, Distinct, Apart, Holding
<1>4. Positions'
  BY DEF IInv, TypeOK, Positions, Holding
<1>5. Counts'
  BY DEF IInv, Counts, Busy, Holding, Pending
<1>6. Arguments'
  BY DEF IInv, Arguments, Live, In, Pending
<1>7. Results' /\ Turns'
  BY DEF IInv, TypeOK, Results, Turns
<1> QED BY <1>1, <1>2, <1>3, <1>4, <1>5, <1>6, <1>7 DEF IInv

(* The result is that of the argument's latest run: no argument is run again *)
(* while a job carries it.                                                   *)
LEMMA ExecuteStep ==
  ASSUME IInv, NEW w \in Workers, Execute(w)
  PROVE  IInv'
<1> USE DEF Execute, userVars
<1>1. held[w] \in Jobs /\ arg[held[w]] \in Args
  <2>1. held[w] \in Jobs
    BY DEF IInv, TypeOK, Positions, Holding
  <2>2. Pending \subseteq Args
    BY DEF IInv, TypeOK, Positions, Pending
  <2> QED BY <2>1, <2>2 DEF IInv, Arguments, Live
<1>2. TypeOK'
  BY <1>1 DEF IInv, TypeOK
<1>3. NeverBlocked' /\ InOrder' /\ OwnResult' /\ NoLostJob'
  BY DEF IInv, TypeOK, NeverBlocked, InOrder, OwnResult, NoLostJob, Matches
<1>4. JobsConserved'
  BY DEF IInv, JobsConserved, Somewhere, Once, In, Distinct, Apart, Holding
<1>5. Positions'
  BY DEF IInv, TypeOK, Positions, Holding
<1>6. Counts'
  BY DEF IInv, Counts, Busy, Holding, Pending
<1>7. Arguments' /\ Turns'
  BY SMTT(30) DEF IInv, TypeOK, Arguments, Live, In, Pending, Turns
<1>8. Results'
  <2>1. user # "gone"
    BY DEF IInv, Positions
  <2>2. \A i \in 1 .. Len(done) : done[i] # held[w]
    BY <1>1, <2>1 DEF IInv, JobsConserved, Once, In, Holding, Jobs
  <2>3. \A v \in Workers : pc[v] = "push" => held[v] # held[w]
    BY <1>1, <2>1 DEF IInv, JobsConserved, Once, Holding, Jobs, Positions
  <2> QED BY <1>1, <2>2, <2>3 DEF IInv, TypeOK, Results
<1> QED BY <1>2, <1>3, <1>4, <1>5, <1>6, <1>7, <1>8 DEF IInv

LEMMA WaitStep ==
  ASSUME IInv, NEW a \in Args, Wait(a)
  PROVE  IInv'
<1> USE DEF Wait, workerVars
<1>1. TypeOK'
  BY DEF IInv, TypeOK
<1>2. NeverBlocked' /\ InOrder' /\ OwnResult' /\ NoLostJob'
  BY DEF IInv, TypeOK, NeverBlocked, InOrder, OwnResult, NoLostJob, Matches
<1>3. JobsConserved'
  BY DEF IInv, JobsConserved, Somewhere, Once, In, Distinct, Apart, Holding
<1>4. Positions'
  BY DEF IInv, TypeOK, Positions, Holding
<1>5. Pending' = Pending
  BY DEF Pending
<1>6. Counts'
  BY <1>5 DEF IInv, Counts, Busy, Holding
<1>7. Arguments' /\ Results' /\ Turns'
  BY <1>5 DEF IInv, TypeOK, Arguments, Live, In, Results, Turns
<1> QED BY <1>1, <1>2, <1>3, <1>4, <1>6, <1>7 DEF IInv

LEMMA ScanNoneStep ==
  ASSUME IInv, ScanNone
  PROVE  IInv'
<1> USE DEF ScanNone, workerVars, userVars
<1>1. TypeOK'
  BY DEF IInv, TypeOK
<1>2. NeverBlocked' /\ InOrder' /\ OwnResult' /\ NoLostJob'
  BY DEF IInv, TypeOK, NeverBlocked, InOrder, OwnResult, NoLostJob, Matches
<1>3. JobsConserved'
  BY DEF IInv, JobsConserved, Somewhere, Once, In, Distinct, Apart, Holding
<1>4. Positions'
  BY DEF IInv, TypeOK, Positions, Holding
<1>5. Counts' /\ Arguments'
  BY DEF IInv, Counts, Busy, Holding, Arguments, Live, In, Pending
<1>6. Results' /\ Turns'
  BY DEF IInv, TypeOK, Results, Turns
<1> QED BY <1>1, <1>2, <1>3, <1>4, <1>5, <1>6 DEF IInv

LEMMA DeleteStep ==
  ASSUME IInv, Delete
  PROVE  IInv'
<1> USE DEF Delete, userVars, WakeWorkers
<1>1. TypeOK'
  BY DEF IInv, TypeOK
<1>2. NeverBlocked' /\ InOrder' /\ OwnResult' /\ NoLostJob'
  BY DEF IInv, TypeOK, NeverBlocked, InOrder, OwnResult, NoLostJob, Matches
<1>3. JobsConserved'
  BY SMTT(30) DEF IInv, JobsConserved, Somewhere, Once, In, Distinct, Apart, Holding
<1>4. Positions'
  BY DEF IInv, TypeOK, Positions, Holding
<1>5. Counts' /\ Arguments'
  BY DEF IInv, Counts, Busy, Holding, Arguments, Live, In, Pending
<1>6. Results' /\ Turns'
  BY DEF IInv, TypeOK, Results, Turns
<1> QED BY <1>1, <1>2, <1>3, <1>4, <1>5, <1>6 DEF IInv

LEMMA JoinedStep ==
  ASSUME IInv, Joined
  PROVE  IInv'
<1> USE DEF Joined, workerVars, userVars
<1>1. Len(uninit') = 0 /\ Len(run') = 0 /\ Len(done') = 0
  BY EmptySeq
<1>2. TypeOK'
  BY EmptySeq DEF IInv, TypeOK
<1>3. NeverBlocked' /\ InOrder' /\ OwnResult' /\ NoLostJob'
  BY <1>1 DEF IInv, TypeOK, NeverBlocked, InOrder, OwnResult, NoLostJob, Matches
<1>4. JobsConserved' /\ Counts'
  BY DEF JobsConserved, Counts
<1>5. Positions'
  BY DEF IInv, TypeOK, Positions, Holding
<1>6. Arguments'
  <2>1. \A w \in Workers : held[w] = 0
    BY DEF IInv, TypeOK, Positions, Holding
  <2> QED BY <1>1, <2>1 DEF Arguments, Live, In, Jobs
<1>7. Results' /\ Turns'
  BY <1>1 DEF IInv, TypeOK, Results, Turns
<1> QED BY <1>2, <1>3, <1>4, <1>5, <1>6, <1>7 DEF IInv

LEMMA StutterStep ==
  ASSUME IInv, UNCHANGED poolVars
  PROVE  IInv'
BY DEF IInv, poolVars, workerVars, userVars, TypeOK, NeverBlocked, InOrder, OwnResult,
       NoLostJob, Matches, JobsConserved, Somewhere, Once, In, Distinct, Apart, Holding,
       Positions, Counts, Busy, Pending, Arguments, Live, Results, Turns

(* The actions that move a job. *)
LEMMA TakeStep ==
  ASSUME IInv, NEW w \in Workers, Take(w)
  PROVE  IInv'
<1> USE DEF Take, userVars
<1>1. run \in Seq(Jobs) /\ held[w] = 0 /\ user # "gone"
  BY DEF IInv, TypeOK, Positions, Holding
<1>2. /\ Len(run) \in Nat \ {0} /\ run[1] \in Jobs /\ Head(run) = run[1]
      /\ run' \in Seq(Jobs) /\ Len(run') = Len(run) - 1
      /\ \A i \in 1 .. Len(run) - 1 : run'[i] = run[i + 1]
  BY <1>1, Shifted
<1>3. held' = [held EXCEPT ![w] = run[1]]
  BY <1>2
<1>4. TypeOK'
  BY <1>2, <1>3 DEF IInv, TypeOK
<1>5. NeverBlocked' /\ OwnResult' /\ NoLostJob'
  BY <1>2 DEF IInv, TypeOK, NeverBlocked, OwnResult, NoLostJob, Matches
<1>6. InOrder'
  <2> SUFFICES ASSUME NEW i \in 1 .. Len(run')
               PROVE  serial[arg[run'[i]]] = started + 1 + i
    BY DEF InOrder
  <2>1. i \in 1 .. Len(run) - 1 /\ i + 1 \in 1 .. Len(run)
    BY <1>2
  <2>2. serial[arg[run[i + 1]]] = started + (i + 1)
    BY <2>1 DEF IInv, InOrder
  <2> QED BY <1>2, <2>1, <2>2 DEF IInv, TypeOK
<1>7. JobsConserved'
  <2>1. Somewhere /\ Once
    BY <1>1 DEF IInv, JobsConserved
  <2>2. Somewhere'
    <3>1. ASSUME NEW j \in Jobs, In(j, run), j # run[1]
          PROVE  In(j, run')
      <4>1. PICK i \in 1 .. Len(run) : run[i] = j
        BY <3>1 DEF In
      <4>2. i - 1 \in 1 .. Len(run) - 1 /\ (i - 1) + 1 = i
        BY <1>2, <3>1, <4>1
      <4> QED BY <1>2, <4>1, <4>2 DEF In
    <3>2. ASSUME NEW j \in Jobs, NEW v \in Workers, held[v] = j
          PROVE  held'[v] = j
      BY <1>1, <1>3, <3>2 DEF Jobs, IInv, TypeOK
    <3>3. held'[w] = run[1]
      BY <1>3 DEF IInv, TypeOK
    <3>4. \A j \in Jobs : In(j, uninit') = In(j, uninit) /\ In(j, done') = In(j, done) /\ hand' = hand
      OBVIOUS
    <3> HIDE DEF Take
    <3> QED BY <2>1, <3>1, <3>2, <3>3, <3>4 DEF Somewhere
  <2>3. \A i \in 1 .. Len(run') : \E k \in 2 .. Len(run) : run'[i] = run[k] /\ k = i + 1
    BY <1>2
  <2>4. Distinct(run') /\ Apart(uninit, run') /\ Apart(run', done) /\ ~In(hand, run')
    BY <1>2, <2>1, <2>3 DEF Once, Distinct, Apart, In
  <2>5. /\ ~In(run[1], uninit) /\ ~In(run[1], done) /\ ~In(run[1], run') /\ run[1] # hand
    BY <1>2, <2>1, <2>3 DEF Once, Distinct, Apart, In
  <2>6. \A v \in Workers : held[v] # run[1]
    BY <1>2, <2>1 DEF Once, In, Holding, Jobs
  <2>7. \A v \in Workers : v # w /\ Holding(v) => ~In(held[v], run')
    BY <1>2, <2>1, <2>3 DEF Once, In
  <2>8. \A v \in Workers : held'[v] = IF v = w THEN run[1] ELSE held[v]
    BY <1>3 DEF IInv, TypeOK
  <2>9. Once'
    BY <2>1, <2>4, <2>5, <2>6, <2>7, <2>8 DEF Once, Holding, In
  <2> QED BY <2>2, <2>9 DEF JobsConserved
<1>8. Positions'
  BY <1>2, <1>3 DEF IInv, TypeOK, Positions, Holding, Jobs
<1>9. Counts'
  <2>1. Busy' = Busy \cup {w} /\ w \notin Busy
    BY <1>1, <1>2, <1>3 DEF IInv, TypeOK, Busy, Holding, Jobs
  <2>2. Cardinality(Busy') = Cardinality(Busy) + 1 /\ Cardinality(Busy) \in Nat
    BY <2>1, BusySet, FS_AddElement DEF IInv
  <2>3. Pending' = Pending
    BY DEF Pending
  <2>4. Len(done) \in Nat /\ Len(uninit) \in Nat
    BY LenProperties DEF IInv, TypeOK
  <2> HIDE DEF Take
  <2>5. hand' = hand /\ user' = user /\ uninit' = uninit /\ done' = done
    BY DEF Take
  <2> DEFINE h == IF hand # 0 THEN 1 ELSE 0
             q == IF user = "queue" THEN 1 ELSE 0
  <2>6. /\ Len(uninit) + Len(run) + Len(done) + Cardinality(Busy) + h = Size
        /\ Len(run) + Len(done) + Cardinality(Busy) + q = Cardinality(Pending)
        /\ h \in Nat /\ q \in Nat
    BY <1>1 DEF IInv, Counts
  <2> HIDE DEF h, q
  <2>7. Len(uninit) + (Len(run) - 1) + Len(done) + (Cardinality(Busy) + 1) + h = Size
    BY <1>2, <2>2, <2>4, <2>6, SizeType
  <2>8. (Len(run) - 1) + Len(done) + (Cardinality(Busy) + 1) + q = Cardinality(Pending)
    BY <1>2, <2>2, <2>4, <2>6
  <2> QED BY <1>2, <2>2, <2>3, <2>5, <2>7, <2>8 DEF Counts, h, q
<1>10. \A j \in Jobs : Live(j)' => Live(j)
  <2>1. \A j \in Jobs : In(j, run') => In(j, run)
    BY <1>2 DEF In
  <2>2. In(run[1], run)
    BY <1>2 DEF In
  <2> QED BY <1>3, <2>1, <2>2 DEF IInv, TypeOK, Live, In
<1>11. Arguments'
  BY <1>10 DEF IInv, Arguments, Pending
<1>12. Results'
  BY <1>3 DEF IInv, TypeOK, Results
<1>13. Turns'
  <2>1. turn = started + Len(run) + (IF user = "queue" THEN 1 ELSE 0)
    BY <1>1 DEF IInv, Turns
  <2> QED BY <1>2, <2>1 DEF IInv, TypeOK, Turns
<1> QED BY <1>4, <1>5, <1>6, <1>7, <1>8, <1>9, <1>11, <1>12, <1>13 DEF IInv

LEMMA PushDoneStep ==
  ASSUME IInv, NEW w \in Workers, PushDone(w)
  PROVE  IInv'
<1> USE DEF PushDone, userVars
<1>1. /\ held[w] \in Jobs /\ Holding(w) /\ w \in Busy /\ done \in Seq(Jobs)
      /\ user # "gone" /\ held[w] # 0
  BY DEF IInv, TypeOK, Positions, Holding, Busy, Jobs
<1>2. Len(done) # Size
  <2>1. Len(done) < Size /\ Len(done) \in Nat
    BY <1>1, Room, LenProperties
  <2> QED BY <2>1, SizeType
<1>3. /\ done' = Append(done, held[w]) /\ user' = WakeUser
      /\ held' = [held EXCEPT ![w] = 0] /\ pc' = [pc EXCEPT ![w] = "loop"]
      /\ UNCHANGED <<uninit, run, arg, ret, exit, started, hand, waiting, active, serial, turn, got>>
  BY <1>2
<1> HIDE DEF PushDone
<1>4. /\ done' \in Seq(Jobs) /\ Len(done') = Len(done) + 1 /\ Len(done) \in Nat
      /\ \A i \in 1 .. Len(done) + 1 : done'[i] = IF i <= Len(done) THEN done[i] ELSE held[w]
  BY <1>1, <1>3, Pushed
<1>5. \A j \in Jobs : In(j, done') <=> In(j, done) \/ j = held[w]
  BY <1>4 DEF In
<1>6. user' # "gone" /\ (user' = "queue" <=> user = "queue") /\ (user' = "give" <=> user = "give")
  BY <1>1, <1>3 DEF WakeUser
<1>7. \A v \in Workers : held'[v] = IF v = w THEN 0 ELSE held[v]
  BY <1>3 DEF IInv, TypeOK
<1>8. TypeOK'
  BY <1>3, <1>4 DEF IInv, TypeOK, WakeUser
<1>9. NeverBlocked' /\ InOrder' /\ OwnResult' /\ NoLostJob'
  BY <1>3, <1>6 DEF IInv, TypeOK, NeverBlocked, InOrder, OwnResult, NoLostJob, WakeUser
<1>10. JobsConserved'
  <2>1. Somewhere /\ Once
    BY <1>1 DEF IInv, JobsConserved
  <2>2. Somewhere'
    <3>1. ASSUME NEW j \in Jobs, NEW v \in Workers, held[v] = j, ~In(j, done')
          PROVE  held'[v] = j
      BY <1>5, <1>7, <3>1
    <3> QED BY <1>3, <1>5, <2>1, <3>1 DEF Somewhere
  <2>3. ~In(held[w], uninit) /\ ~In(held[w], run) /\ ~In(held[w], done) /\ held[w] # hand
    BY <1>1, <2>1 DEF Once
  <2>4. Distinct(done')
    BY <1>4, <2>1, <2>3 DEF Once, Distinct, In
  <2>5. Apart(uninit, done') /\ Apart(run, done')
    BY <1>4, <2>1, <2>3 DEF Once, Apart, In
  <2>6. ~In(hand, done')
    BY <1>4, <2>1, <2>3 DEF Once, In
  <2>7. ASSUME NEW v \in Workers, held'[v] # 0
        PROVE  /\ v # w /\ held'[v] = held[v] /\ held[v] \in Jobs /\ Holding(v)
               /\ ~In(held[v], done')
    <3>1. v # w /\ held'[v] = held[v] /\ held[v] \in Jobs /\ Holding(v)
      BY <1>7, <2>7 DEF IInv, TypeOK, Holding
    <3>2. held[v] # held[w] /\ ~In(held[v], done)
      BY <1>1, <2>1, <3>1 DEF Once
    <3> QED BY <1>5, <3>1, <3>2
  <2>8. Once'
    BY <1>3, <2>1, <2>4, <2>5, <2>6, <2>7 DEF Once, Holding
  <2> QED BY <2>2, <2>8 DEF JobsConserved
<1>11. Positions'
  BY <1>3, <1>6, <1>7 DEF IInv, TypeOK, Positions, Holding, WakeUser
<1>12. Pending' = Pending
  BY <1>3 DEF Pending, WakeUser
<1>13. Counts'
  <2>1. Busy' = Busy \ {w}
    BY <1>7 DEF Busy, Holding
  <2>2. Cardinality(Busy') = Cardinality(Busy) - 1 /\ Cardinality(Busy) \in Nat
    BY <1>1, <2>1, BusySet, FS_RemoveElement DEF IInv
  <2>3. Len(run) \in Nat /\ Len(uninit) \in Nat
    BY LenProperties DEF IInv, TypeOK
  <2> DEFINE h == IF hand # 0 THEN 1 ELSE 0
             q == IF user = "queue" THEN 1 ELSE 0
  <2>4. /\ Len(uninit) + Len(run) + Len(done) + Cardinality(Busy) + h = Size
        /\ Len(run) + Len(done) + Cardinality(Busy) + q = Cardinality(Pending)
        /\ h \in Nat /\ q \in Nat
    BY <1>1 DEF IInv, Counts
  <2> HIDE DEF h, q
  <2>5. Len(uninit) + Len(run) + (Len(done) + 1) + (Cardinality(Busy) - 1) + h = Size
    BY <1>4, <2>2, <2>3, <2>4, SizeType
  <2>6. Len(run) + (Len(done) + 1) + (Cardinality(Busy) - 1) + q = Cardinality(Pending)
    BY <1>4, <2>2, <2>3, <2>4
  <2> QED BY <1>3, <1>4, <1>6, <1>12, <2>2, <2>5, <2>6 DEF Counts, h, q
<1>14. \A j \in Jobs : Live(j)' => Live(j)
  BY <1>1, <1>3, <1>5, <1>6, <1>7 DEF Live, Jobs
<1>15. Arguments'
  BY <1>3, <1>12, <1>14 DEF IInv, Arguments
<1>16. Results'
  <2>1. ret[held[w]] = serial[arg[held[w]]]
    BY DEF IInv, Results, PushDone
  <2> QED BY <1>3, <1>4, <1>7, <2>1 DEF IInv, TypeOK, Results
<1>17. Turns'
  <2>1. Turns
    BY DEF IInv
  <2> QED BY <1>1, <1>3, <1>6, <2>1 DEF Turns
<1> QED BY <1>8, <1>9, <1>10, <1>11, <1>13, <1>15, <1>16, <1>17 DEF IInv

LEMMA QueueStep ==
  ASSUME IInv, Queue
  PROVE  IInv'
<1>1. hand \in Jobs /\ hand # 0 /\ run \in Seq(Jobs) /\ user = "queue"
  BY DEF IInv, TypeOK, Positions, Queue
<1>2. Len(run) # Size
  <2>1. Len(run) < Size /\ Len(run) \in Nat
    BY <1>1, Room, LenProperties
  <2> QED BY <2>1, SizeType
<1>3. /\ run' = Append(run, hand) /\ hand' = 0 /\ pc' = WakeWorkers /\ user' = "idle"
      /\ UNCHANGED <<uninit, done, arg, ret, exit, held, started, waiting, active, serial, turn, got>>
  BY <1>2 DEF Queue
<1>4. /\ run' \in Seq(Jobs) /\ Len(run') = Len(run) + 1 /\ Len(run) \in Nat
      /\ \A i \in 1 .. Len(run) + 1 : run'[i] = IF i <= Len(run) THEN run[i] ELSE hand
  BY <1>1, <1>3, Pushed
<1>5. \A j \in Jobs : In(j, run') <=> In(j, run) \/ j = hand
  BY <1>4 DEF In
<1>6. \A v \in Workers : /\ pc'[v] # "sleep" /\ (pc'[v] = "blocked" => pc[v] = "blocked")
                          /\ pc'[v] = "push" => pc[v] = "push"
  BY <1>3 DEF IInv, TypeOK, WakeWorkers
<1>7. TypeOK'
  BY <1>3, <1>4 DEF IInv, TypeOK, WakeWorkers
<1>8. NeverBlocked' /\ OwnResult' /\ NoLostJob'
  BY <1>3, <1>6 DEF IInv, TypeOK, NeverBlocked, OwnResult, NoLostJob, WakeWorkers
<1>9. InOrder'
  <2>1. serial[arg[hand]] = turn /\ turn = started + Len(run) + 1
    BY <1>1 DEF IInv, Turns
  <2>2. started \in Nat /\ InOrder
    BY DEF IInv, TypeOK
  <2> SUFFICES ASSUME NEW i \in 1 .. Len(run')
               PROVE  serial[arg[run'[i]]] = started + i
    BY <1>3 DEF InOrder
  <2>3. CASE i <= Len(run)
    BY <1>4, <2>2, <2>3 DEF InOrder
  <2>4. CASE i = Len(run) + 1
    <3>1. started + Len(run) + 1 = started + i
      BY <1>4, <2>2, <2>4
    <3>2. run'[i] = hand
      BY <1>4, <2>4
    <3> QED BY <2>1, <3>1, <3>2
  <2> QED BY <1>4, <2>3, <2>4
<1>10. JobsConserved'
  <2>1. Somewhere /\ Once
    BY <1>1 DEF IInv, JobsConserved
  <2>2. Somewhere'
    BY <1>3, <1>5, <2>1 DEF Somewhere
  <2>3. ~In(hand, uninit) /\ ~In(hand, run) /\ ~In(hand, done)
    BY <2>1 DEF Once
  <2>4. Distinct(run')
    BY <1>4, <2>1, <2>3 DEF Once, Distinct, In
  <2>5. Apart(uninit, run') /\ Apart(run', done)
    BY <1>4, <2>1, <2>3 DEF Once, Apart, In
  <2>6. ~In(0, uninit) /\ ~In(0, run') /\ ~In(0, done)
    <3>1. 0 \notin Jobs
      BY DEF Jobs
    <3> QED BY <1>4, <3>1, ElementOfSeq DEF In, IInv, TypeOK
  <2>7. ASSUME NEW v \in Workers, held[v] # 0
        PROVE  ~In(held[v], run') /\ held[v] # 0
    <3>1. held[v] \in Jobs /\ held[v] # hand /\ ~In(held[v], run)
      BY <2>1, <2>7 DEF IInv, TypeOK, Once, Holding
    <3> QED BY <1>5, <2>7, <3>1
  <2>8. Once'
    BY <1>3, <2>1, <2>4, <2>5, <2>6, <2>7 DEF Once, Holding
  <2> QED BY <2>2, <2>8 DEF JobsConserved
<1>11. Positions'
  <2>1. Positions
    BY DEF IInv
  <2>2. \A v \in Workers : pc'[v] \in {"exec", "push"} <=> pc[v] \in {"exec", "push"}
    BY <1>3 DEF IInv, TypeOK, WakeWorkers
  <2> QED BY <1>1, <1>3, <2>1, <2>2 DEF Positions, Holding
<1>12. Pending' = Pending
  BY <1>1, <1>3 DEF Pending
<1>13. Counts'
  <2>1. Busy' = Busy
    BY <1>3 DEF Busy, Holding
  <2>2. Len(done) \in Nat /\ Len(uninit) \in Nat /\ Cardinality(Busy) \in Nat
    BY BusySet, LenProperties DEF IInv, TypeOK
  <2>3. /\ Len(uninit) + Len(run) + Len(done) + Cardinality(Busy) + 1 = Size
        /\ Len(run) + Len(done) + Cardinality(Busy) + 1 = Cardinality(Pending)
    BY <1>1 DEF IInv, Counts
  <2>4. /\ Len(uninit) + (Len(run) + 1) + Len(done) + Cardinality(Busy) + 0 = Size
        /\ (Len(run) + 1) + Len(done) + Cardinality(Busy) + 0 = Cardinality(Pending)
    BY <1>4, <2>2, <2>3, SizeType
  <2> QED BY <1>3, <1>4, <1>12, <2>1, <2>4 DEF Counts
<1>14. \A j \in Jobs : Live(j)' => Live(j)
  BY <1>1, <1>3, <1>5 DEF Live
<1>15. Arguments'
  BY <1>3, <1>12, <1>14 DEF IInv, Arguments
<1>16. Results'
  <2>1. Results
    BY DEF IInv
  <2>2. \A v \in Workers : pc'[v] = "push" => pc[v] = "push"
    BY <1>6
  <2> QED BY <1>3, <2>1, <2>2 DEF Results
<1>17. Turns'
  <2>1. turn = started + Len(run) + 1
    BY <1>1 DEF IInv, Turns
  <2> QED BY <1>3, <1>4, <2>1 DEF IInv, TypeOK, Turns
<1> QED BY <1>7, <1>8, <1>9, <1>10, <1>11, <1>13, <1>15, <1>16, <1>17 DEF IInv

LEMMA GiveStep ==
  ASSUME IInv, Give
  PROVE  IInv'
<1>1. hand \in Jobs /\ hand # 0 /\ uninit \in Seq(Jobs) /\ user = "give"
  BY DEF IInv, TypeOK, Positions, Give
<1>2. Len(uninit) # Size
  <2>1. Len(uninit) < Size /\ Len(uninit) \in Nat
    BY <1>1, Room, LenProperties
  <2> QED BY <2>1, SizeType
<1>3. /\ uninit' = Append(uninit, hand) /\ hand' = 0 /\ user' = "idle"
      /\ UNCHANGED <<run, done, arg, ret, exit, pc, held, started, waiting, active, serial, turn, got>>
  BY <1>2 DEF Give, workerVars
<1>4. /\ uninit' \in Seq(Jobs) /\ Len(uninit') = Len(uninit) + 1 /\ Len(uninit) \in Nat
      /\ \A i \in 1 .. Len(uninit) + 1 : uninit'[i] = IF i <= Len(uninit) THEN uninit[i] ELSE hand
  BY <1>1, <1>3, Pushed
<1>5. \A j \in Jobs : In(j, uninit') <=> In(j, uninit) \/ j = hand
  BY <1>4 DEF In
<1>6. TypeOK'
  BY <1>3, <1>4 DEF IInv, TypeOK
<1>7. NeverBlocked' /\ InOrder' /\ OwnResult' /\ NoLostJob'
  BY <1>3 DEF IInv, NeverBlocked, InOrder, OwnResult, NoLostJob
<1>8. JobsConserved'
  <2>1. Somewhere /\ Once
    BY <1>1 DEF IInv, JobsConserved
  <2>2. Somewhere'
    BY <1>3, <1>5, <2>1 DEF Somewhere
  <2>3. ~In(hand, uninit) /\ ~In(hand, run) /\ ~In(hand, done)
    BY <2>1 DEF Once
  <2>4. Distinct(uninit')
    BY <1>4, <2>1, <2>3 DEF Once, Distinct, In
  <2>5. Apart(uninit', run) /\ Apart(uninit', done)
    BY <1>4, <2>1, <2>3 DEF Once, Apart, In
  <2>6. ~In(0, uninit') /\ ~In(0, run) /\ ~In(0, done)
    <3>1. 0 \notin Jobs
      BY DEF Jobs
    <3> QED BY <1>4, <3>1, ElementOfSeq DEF In, IInv, TypeOK
  <2>7. ASSUME NEW v \in Workers, held[v] # 0
        PROVE  ~In(held[v], uninit') /\ held[v] # 0
    <3>1. held[v] \in Jobs /\ held[v] # hand /\ ~In(held[v], uninit)
      BY <2>1, <2>7 DEF IInv, TypeOK, Once, Holding
    <3> QED BY <1>5, <2>7, <3>1
  <2>8. Once'
    BY <1>3, <2>1, <2>4, <2>5, <2>6, <2>7 DEF Once, Holding
  <2> QED BY <2>2, <2>8 DEF JobsConserved
<1>9. Positions'
  BY <1>1, <1>3 DEF IInv, Positions, Holding
<1>10. Pending' = Pending
  BY <1>1, <1>3 DEF Pending
<1>11. Counts'
  <2>1. Busy' = Busy
    BY <1>3 DEF Busy, Holding
  <2>2. Len(done) \in Nat /\ Len(run) \in Nat /\ Cardinality(Busy) \in Nat
    BY BusySet, LenProperties DEF IInv, TypeOK
  <2>3. /\ Len(uninit) + Len(run) + Len(done) + Cardinality(Busy) + 1 = Size
        /\ Len(run) + Len(done) + Cardinality(Busy) + 0 = Cardinality(Pending)
    BY <1>1 DEF IInv, Counts
  <2>4. (Len(uninit) + 1) + Len(run) + Len(done) + Cardinality(Busy) + 0 = Size
    BY <1>4, <2>2, <2>3, SizeType
  <2> QED BY <1>3, <1>4, <1>10, <2>1, <2>3, <2>4 DEF Counts
<1>12. \A j \in Jobs : Live(j)' => Live(j)
  BY <1>3 DEF Live
<1>13. Arguments'
  BY <1>3, <1>10, <1>12 DEF IInv, Arguments
<1>14. Results'
  BY <1>3 DEF IInv, Results
<1>15. Turns'
  BY <1>1, <1>3 DEF IInv, Turns
<1> QED BY <1>6, <1>7, <1>8, <1>9, <1>11, <1>13, <1>14, <1>15 DEF IInv

LEMMA RunStep ==
  ASSUME IInv, NEW a \in Args, Run(a)
  PROVE  IInv'
<1>1. /\ user = "idle" /\ ~exit /\ a \notin active /\ hand = 0
      /\ uninit \in Seq(Jobs) /\ uninit # <<>>
  <2>1. uninit # <<>>
    BY FreeJob DEF Run
  <2> QED BY <2>1 DEF IInv, TypeOK, Positions, Run
<1>2. /\ hand' = Last(uninit) /\ uninit' = Front(uninit)
      /\ arg' = [arg EXCEPT ![hand'] = a] /\ active' = active \cup {a}
      /\ turn' = turn + 1 /\ serial' = [serial EXCEPT ![a] = turn + 1] /\ user' = "queue"
      /\ UNCHANGED <<waiting, got, run, done, ret, exit, pc, held, started>>
  BY <1>1 DEF Run, workerVars
<1>3. /\ Len(uninit) \in Nat \ {0} /\ hand' = uninit[Len(uninit)] /\ hand' \in Jobs /\ hand' # 0
      /\ uninit' \in Seq(Jobs) /\ Len(uninit') = Len(uninit) - 1
      /\ \A i \in 1 .. Len(uninit) - 1 : uninit'[i] = uninit[i]
  <2>1. /\ Len(uninit) \in Nat \ {0} /\ Last(uninit) = uninit[Len(uninit)]
        /\ uninit[Len(uninit)] \in Jobs
        /\ Front(uninit) \in Seq(Jobs) /\ Len(Front(uninit)) = Len(uninit) - 1
        /\ \A i \in 1 .. Len(uninit) - 1 : Front(uninit)[i] = uninit[i]
    BY <1>1, Popped
  <2>2. \A j \in Jobs : j # 0
    BY DEF Jobs
  <2> QED BY <1>2, <2>1, <2>2
<1>4. Somewhere /\ Once
  BY <1>1 DEF IInv, JobsConserved
<1>5. /\ ~In(hand', uninit') /\ ~In(hand', run) /\ ~In(hand', done)
      /\ \A v \in Workers : held[v] # hand'
  <2>1. In(hand', uninit)
    BY <1>3 DEF In
  <2>2. ~In(hand', run) /\ ~In(hand', done)
    BY <1>3, <1>4 DEF Once, Apart, In
  <2>3. ~In(hand', uninit')
    BY <1>3, <1>4 DEF Once, Distinct, In
  <2>4. \A v \in Workers : held[v] # hand'
    BY <1>3, <1>4, <2>1 DEF Once, Holding
  <2> QED BY <2>2, <2>3, <2>4

(* The job was free, and no job carries the argument. *)
<1>6. \A j \in Jobs : Live(j) => arg[j] # a /\ j # hand' /\ arg'[j] = arg[j]
                                  /\ serial'[arg[j]] = serial[arg[j]]
  <2> TAKE j \in Jobs
  <2>1. Pending = active
    BY <1>1 DEF Pending
  <2>2. Live(j) => arg[j] \in active
    BY <2>1 DEF IInv, Arguments
  <2>3. Live(j) => j # hand'
    BY <1>1, <1>5 DEF Live
  <2> QED BY <1>1, <1>2, <2>2, <2>3 DEF IInv, TypeOK
<1>7. arg'[hand'] = a /\ serial'[a] = turn + 1
  BY <1>2, <1>3 DEF IInv, TypeOK
<1>8. TypeOK'
  BY <1>2, <1>3 DEF IInv, TypeOK
<1>9. NeverBlocked' /\ OwnResult' /\ NoLostJob'
  BY <1>2 DEF IInv, NeverBlocked, OwnResult, NoLostJob
<1>10. InOrder'
  <2> SUFFICES ASSUME NEW i \in 1 .. Len(run)
               PROVE  serial'[arg'[run[i]]] = started + i
    BY <1>2 DEF InOrder
  <2>1. run[i] \in Jobs /\ Live(run[i])
    BY ElementOfSeq DEF IInv, TypeOK, Live, In
  <2> QED BY <1>6, <2>1 DEF IInv, InOrder
<1>11. JobsConserved'
  <2>1. Somewhere'
    <3>1. ASSUME NEW j \in Jobs, In(j, uninit), j # hand'
          PROVE  In(j, uninit')
      BY <1>3, <3>1 DEF In
    <3> QED BY <1>1, <1>2, <1>4, <3>1 DEF Somewhere, Jobs
  <2>2. \A j : In(j, uninit') => In(j, uninit)
    BY <1>3 DEF In
  <2>3. Distinct(uninit') /\ Apart(uninit', run) /\ Apart(uninit', done)
    BY <1>3, <1>4 DEF Once, Distinct, Apart
  <2>4. Once'
    BY <1>2, <1>4, <1>5, <2>2, <2>3 DEF Once, Holding
  <2> QED BY <2>1, <2>4 DEF JobsConserved
<1>12. Positions'
  BY <1>1, <1>2, <1>3 DEF IInv, Positions, Holding
<1>13. Counts'
  <2>1. Busy' = Busy
    BY <1>2 DEF Busy, Holding
  <2>2. Pending = active /\ Pending' = active \cup {a}
    BY <1>1, <1>2 DEF Pending
  <2>3. Cardinality(Pending') = Cardinality(Pending) + 1 /\ Cardinality(Pending) \in Nat
    BY <1>1, <2>2, PendingSet, FS_AddElement DEF IInv
  <2>4. Len(done) \in Nat /\ Len(run) \in Nat /\ Cardinality(Busy) \in Nat
    BY BusySet, LenProperties DEF IInv, TypeOK
  <2>5. /\ Len(uninit) + Len(run) + Len(done) + Cardinality(Busy) + 0 = Size
        /\ Len(run) + Len(done) + Cardinality(Busy) + 0 = Cardinality(Pending)
    BY <1>1 DEF IInv, Counts
  <2>6. /\ (Len(uninit) - 1) + Len(run) + Len(done) + Cardinality(Busy) + 1 = Size
        /\ Len(run) + Len(done) + Cardinality(Busy) + 1 = Cardinality(Pending) + 1
    BY <1>3, <2>3, <2>4, <2>5, SizeType
  <2> QED BY <1>2, <1>3, <2>1, <2>3, <2>6 DEF Counts
<1>14. Arguments'
  <2>1. \A j \in Jobs : Live(j)' => Live(j) \/ j = hand'
    BY <1>2 DEF Live
  <2>2. Pending' = Pending \cup {a}
    BY <1>1, <1>2 DEF Pending
  <2> QED BY <1>3, <1>6, <1>7, <2>1, <2>2 DEF IInv, Arguments
<1>15. Results'
  <2>1. \A i \in 1 .. Len(done) : done[i] \in Jobs /\ Live(done[i])
    BY ElementOfSeq DEF IInv, TypeOK, Live, In
  <2>2. \A v \in Workers : pc[v] = "push" => held[v] \in Jobs /\ Live(held[v])
    BY DEF IInv, TypeOK, Positions, Holding, Live
  <2>3. Results
    BY DEF IInv
  <2> QED BY <1>2, <1>6, <2>1, <2>2, <2>3 DEF Results
<1>16. Turns'
  <2>1. turn = started + Len(run) + 0 /\ turn \in Nat /\ started \in Nat /\ Len(run) \in Nat
    BY <1>1, LenProperties DEF IInv, Turns, TypeOK
  <2> QED BY <1>2, <1>7, <2>1 DEF Turns
<1> QED BY <1>8, <1>9, <1>10, <1>11, <1>12, <1>13, <1>14, <1>15, <1>16 DEF IInv

LEMMA ScanStep ==
  ASSUME IInv, Scan
  PROVE  IInv'
<1>1. user = "scan" /\ hand = 0 /\ done \in Seq(Jobs) /\ waiting \in Args /\ waiting \notin active
  BY DEF IInv, TypeOK, Positions, Scan
<1>2. PICK i \in 1 .. Len(done) :
        /\ arg[done[i]] = waiting
        /\ hand' = done[i] /\ done' = RemoveAt(done, i) /\ got' = ret[done[i]]
  BY DEF Scan, Matches
<1>3. /\ user' = "give"
      /\ UNCHANGED <<uninit, run, arg, ret, exit, pc, held, started, waiting, active, serial, turn>>
  BY DEF Scan, workerVars
<1>4. /\ Len(done) \in Nat \ {0} /\ hand' \in Jobs
      /\ done' \in Seq(Jobs) /\ Len(done') = Len(done) - 1
      /\ \A k \in 1 .. Len(done) - 1 : done'[k] = IF k < i THEN done[k] ELSE done[k + 1]
  <2>1. /\ Len(done) \in Nat \ {0} /\ done[i] \in Jobs
        /\ RemoveAt(done, i) \in Seq(Jobs) /\ Len(RemoveAt(done, i)) = Len(done) - 1
        /\ \A k \in 1 .. Len(done) - 1 :
              RemoveAt(done, i)[k] = IF k < i THEN done[k] ELSE done[k + 1]
    BY <1>1, Removed
  <2> QED BY <1>2, <2>1
<1>5. Somewhere /\ Once
  BY <1>1 DEF IInv, JobsConserved
<1>6. \A k \in 1 .. Len(done') : \E m \in 1 .. Len(done) \ {i} :
        done'[k] = done[m] /\ m = IF k < i THEN k ELSE k + 1
  BY <1>4
<1>7. \A k \in 1 .. Len(done) : k # i => done[k] # hand'
  BY <1>2, <1>5 DEF Once, Distinct
<1>8. /\ ~In(hand', uninit) /\ ~In(hand', run) /\ ~In(hand', done') /\ hand' # 0
      /\ \A v \in Workers : held[v] # hand'
  <2>1. In(hand', done) /\ hand' # 0
    BY <1>2, <1>4 DEF In, Jobs
  <2>2. ~In(hand', uninit) /\ ~In(hand', run)
    BY <1>2, <1>5 DEF Once, Apart, In
  <2>3. ~In(hand', done')
    BY <1>6, <1>7 DEF In
  <2>4. \A v \in Workers : held[v] # hand'
    BY <1>5, <2>1 DEF Once, Holding
  <2> QED BY <2>1, <2>2, <2>3, <2>4
<1>9. \A j : In(j, done') => In(j, done)
  BY <1>6 DEF In
<1>10. ret[hand'] = serial[waiting]
  BY <1>2 DEF IInv, Results
<1>11. TypeOK'
  BY <1>2, <1>3, <1>4 DEF IInv, TypeOK
<1>12. NeverBlocked' /\ InOrder' /\ OwnResult' /\ NoLostJob'
  BY <1>2, <1>3, <1>10 DEF IInv, NeverBlocked, InOrder, OwnResult, NoLostJob
<1>13. JobsConserved'
  <2>1. ASSUME NEW j \in Jobs, In(j, done), j # hand'
        PROVE  In(j, done')
    <3>1. PICK m \in 1 .. Len(done) : done[m] = j
      BY <2>1 DEF In
    <3>2. CASE m < i
      BY <1>4, <3>1, <3>2 DEF In
    <3>3. CASE m > i
      <4>1. m - 1 \in 1 .. Len(done) - 1 /\ ~(m - 1 < i) /\ (m - 1) + 1 = m
        BY <1>4, <3>1, <3>3
      <4> QED BY <1>4, <3>1, <4>1 DEF In
    <3>4. m # i
      BY <1>2, <2>1, <3>1
    <3> QED BY <1>4, <3>1, <3>2, <3>3, <3>4
  <2>2. Somewhere'
    BY <1>1, <1>3, <1>5, <2>1 DEF Somewhere, Jobs
  <2>3. Distinct(done')
    <3> SUFFICES ASSUME NEW k \in 1 .. Len(done'), NEW l \in 1 .. Len(done'), done'[k] = done'[l]
                 PROVE  k = l
      BY DEF Distinct
    <3>1. PICK m \in 1 .. Len(done) : done'[k] = done[m] /\ m = IF k < i THEN k ELSE k + 1
      BY <1>6
    <3>2. PICK n \in 1 .. Len(done) : done'[l] = done[n] /\ n = IF l < i THEN l ELSE l + 1
      BY <1>6
    <3>3. m = n
      BY <1>5, <3>1, <3>2 DEF Once, Distinct
    <3> QED BY <1>4, <3>1, <3>2, <3>3
  <2>4. Apart(uninit, done') /\ Apart(run, done')
    BY <1>5, <1>6 DEF Once, Apart
  <2>5. Once'
    BY <1>3, <1>5, <1>8, <1>9, <2>3, <2>4 DEF Once, Holding
  <2> QED BY <2>2, <2>5 DEF JobsConserved
<1>14. Positions'
  BY <1>1, <1>3, <1>8 DEF IInv, Positions, Holding
<1>15. Pending' = active /\ Pending = active \cup {waiting}
  BY <1>1, <1>3 DEF Pending
<1>16. Counts'
  <2>1. Busy' = Busy
    BY <1>3 DEF Busy, Holding
  <2>2. Cardinality(Pending) = Cardinality(active) + 1 /\ Cardinality(active) \in Nat
    BY <1>1, <1>15, PendingSet, FS_AddElement DEF IInv
  <2>3. Len(uninit) \in Nat /\ Len(run) \in Nat /\ Cardinality(Busy) \in Nat
    BY BusySet, LenProperties DEF IInv, TypeOK
  <2>4. /\ Len(uninit) + Len(run) + Len(done) + Cardinality(Busy) + 0 = Size
        /\ Len(run) + Len(done) + Cardinality(Busy) + 0 = Cardinality(Pending)
    BY <1>1 DEF IInv, Counts
  <2>5. Len(done) \in Nat
    BY <1>4
  <2>6. Len(uninit) + Len(run) + (Len(done) - 1) + Cardinality(Busy) + 1 = Size
    BY <2>3, <2>4, <2>5
  <2>7. Len(run) + (Len(done) - 1) + Cardinality(Busy) + 0 = Cardinality(active)
    BY <2>2, <2>3, <2>4, <2>5
  <2> QED BY <1>3, <1>4, <1>8, <1>15, <2>1, <2>6, <2>7 DEF Counts
<1>17. Arguments'
  <2>1. \A j \in Jobs : Live(j)' => Live(j) /\ j # hand'
    BY <1>3, <1>8, <1>9 DEF Live
  <2>2. Live(hand')
    BY <1>2 DEF Live, In
  <2>3. \A j \in Jobs : Live(j)' => arg[j] # waiting
    BY <1>2, <1>4, <2>1, <2>2 DEF IInv, Arguments
  <2> QED BY <1>3, <1>15, <2>1, <2>3 DEF IInv, Arguments
<1>18. Results'
  <2>1. Results
    BY DEF IInv
  <2> QED BY <1>3, <1>6, <2>1 DEF Results
<1>19. Turns'
  BY <1>1, <1>3 DEF IInv, Turns
<1> QED BY <1>11, <1>12, <1>13, <1>14, <1>16, <1>17, <1>18, <1>19 DEF IInv

-----------------------------------------------------------------------------
(* Every step of the pool preserves the invariant. *)
THEOREM Invariance == Spec => []IInv
<1>1. IInv /\ [Next]_poolVars => IInv'
  <2> SUFFICES ASSUME IInv, [Next]_poolVars PROVE IInv'
    OBVIOUS
  <2>1. CASE \E w \in Workers : Work(w)
    BY <2>1, LoopStep, TakeStep, TakeNoneStep, ExecuteStep, PushDoneStep DEF Work
  <2>2. CASE InCall
    BY <2>2, QueueStep, ScanStep, ScanNoneStep, GiveStep, JoinedStep DEF InCall
  <2>3. CASE Call
    BY <2>3, RunStep, WaitStep, DeleteStep DEF Call
  <2>4. CASE Gone
    BY <2>4, StutterStep DEF Gone
  <2>5. CASE UNCHANGED poolVars
    BY <2>5, StutterStep
  <2> QED BY <2>1, <2>2, <2>3, <2>4, <2>5 DEF Next
<1> QED BY <1>1, InitInv, PTL DEF Spec

(* No list is full before a push nor empty before a pop: the calls that can  *)
(* wait for room, or for a free job, never do.                               *)
THEOREM NobodyWaitsForRoom == Spec => []NeverBlocked
<1>1. IInv => NeverBlocked
  BY DEF IInv
<1> QED BY <1>1, Invariance, PTL

(* Jobs are started in the order in which they were given to the pool.       *)
THEOREM StartedInOrder == Spec => []InOrder
<1>1. IInv => InOrder
  BY DEF IInv
<1> QED BY <1>1, Invariance, PTL

(* A wait returns what the latest run of its own argument returned.          *)
THEOREM WaitReturnsOwnResult == Spec => []OwnResult
<1>1. IInv => OwnResult
  BY DEF IInv
<1> QED BY <1>1, Invariance, PTL

(* Nobody sleeps on what has already happened.                               *)
THEOREM NoWakeUpIsLost == Spec => []NoLostJob
<1>1. IInv => NoLostJob
  BY DEF IInv
<1> QED BY <1>1, Invariance, PTL

(* No job is lost and none is in two places, up to the end of the pool.      *)
THEOREM EveryJobInOnePlace == Spec => []JobsConserved
<1>1. IInv => JobsConserved
  BY DEF IInv
<1> QED BY <1>1, Invariance, PTL

(***************************************************************************)
(* The frames of the frame threads.                                        *)
(***************************************************************************)
(* Lists of frames, as sets.                                               *)
LEMMA Listed ==
  ASSUME NEW S, NEW s \in Seq(S)
  PROVE  /\ Len(s) \in Nat /\ DOMAIN s = 1 .. Len(s)
         /\ ToSet(s) = {s[i] : i \in 1 .. Len(s)} /\ ToSet(s) \subseteq S
         /\ (IsInjective(s) <=> \A i, j \in 1 .. Len(s) : s[i] = s[j] => i = j)
<1>1. Len(s) \in Nat /\ DOMAIN s = 1 .. Len(s) /\ \A i \in 1 .. Len(s) : s[i] \in S
  BY LenProperties, ElementOfSeq
<1> QED BY <1>1 DEF ToSet, IsInjective

LEMMA ListedAppend ==
  ASSUME NEW S, NEW s \in Seq(S), NEW e \in S
  PROVE  /\ ToSet(Append(s, e)) = ToSet(s) \union {e}
         /\ IsInjective(s) /\ e \notin ToSet(s) => IsInjective(Append(s, e))
<1> DEFINE n == Len(s)
           a == Append(s, e)
<1>1. /\ a \in Seq(S) /\ Len(a) = n + 1 /\ n \in Nat
      /\ \A i \in 1 .. n + 1 : a[i] = IF i <= n THEN s[i] ELSE e
  BY Pushed
<1>2. /\ ToSet(s) = {s[i] : i \in 1 .. n} /\ ToSet(a) = {a[i] : i \in 1 .. n + 1}
      /\ (IsInjective(s) <=> \A i, j \in 1 .. n : s[i] = s[j] => i = j)
      /\ (IsInjective(a) <=> \A i, j \in 1 .. n + 1 : a[i] = a[j] => i = j)
  <2> HIDE DEF a
  <2>1. ToSet(a) = {a[i] : i \in 1 .. Len(a)} /\ (IsInjective(a) <=> \A i, j \in 1 .. Len(a) : a[i] = a[j] => i = j)
    BY <1>1, Listed
  <2> QED BY <1>1, <2>1, Listed, SMTT(30)
<1>3. 1 .. n + 1 = (1 .. n) \union {n + 1} /\ a[n + 1] = e /\ \A i \in 1 .. n : a[i] = s[i] /\ i # n + 1
  BY <1>1
<1> HIDE DEF a, n
<1>4. ToSet(a) = ToSet(s) \union {e}
  <2>1. \A x : x \in ToSet(a) <=> \E i \in 1 .. n + 1 : x = a[i]
    BY <1>2
  <2>2. \A x : x \in ToSet(s) <=> \E i \in 1 .. n : x = s[i]
    BY <1>2
  <2>3. \A x : (\E i \in 1 .. n + 1 : x = a[i]) <=> x = e \/ \E i \in 1 .. n : x = s[i]
    BY <1>3
  <2> QED BY <2>1, <2>2, <2>3
<1>5. ASSUME IsInjective(s), e \notin ToSet(s) PROVE IsInjective(a)
  BY <1>2, <1>3, <1>5
<1> QED BY <1>4, <1>5 DEF a

LEMMA ListedFront ==
  ASSUME NEW S, NEW s \in Seq(S), s # <<>>, IsInjective(s)
  PROVE  /\ Front(s) \in Seq(S) /\ Last(s) \in ToSet(s)
         /\ ToSet(Front(s)) = ToSet(s) \ {Last(s)} /\ IsInjective(Front(s))
<1> DEFINE n == Len(s)
           a == Front(s)
<1>1. /\ n \in Nat \ {0} /\ Last(s) = s[n] /\ a \in Seq(S) /\ Len(a) = n - 1
      /\ \A i \in 1 .. n - 1 : a[i] = s[i]
  BY Popped
<1>2. /\ ToSet(s) = {s[i] : i \in 1 .. n} /\ ToSet(a) = {a[i] : i \in 1 .. n - 1}
      /\ \A i, j \in 1 .. n : s[i] = s[j] => i = j
      /\ (IsInjective(a) <=> \A i, j \in 1 .. n - 1 : a[i] = a[j] => i = j)
  <2> HIDE DEF a
  <2>1. ToSet(a) = {a[i] : i \in 1 .. Len(a)} /\ (IsInjective(a) <=> \A i, j \in 1 .. Len(a) : a[i] = a[j] => i = j)
    BY <1>1, Listed
  <2> QED BY <1>1, <2>1, Listed
<1>3. 1 .. n = (1 .. n - 1) \union {n} /\ \A i \in 1 .. n - 1 : i # n /\ i \in 1 .. n
  BY <1>1
<1> HIDE DEF a, n
<1>4. \A i \in 1 .. n - 1 : s[i] # s[n]
  BY <1>2, <1>3
<1>5. ToSet(a) = ToSet(s) \ {s[n]}
  BY <1>1, <1>2, <1>3, <1>4
<1>6. IsInjective(a) /\ s[n] \in ToSet(s)
  BY <1>1, <1>2, <1>3
<1> QED BY <1>1, <1>5, <1>6 DEF a

LEMMA ListedReverse ==
  ASSUME NEW S, NEW s \in Seq(S)
  PROVE  /\ Reverse(s) \in Seq(S) /\ Len(Reverse(s)) = Len(s) /\ ToSet(Reverse(s)) = ToSet(s)
         /\ IsInjective(s) => IsInjective(Reverse(s))
<1> DEFINE n == Len(s)
           a == Reverse(s)
<1>1. /\ n \in Nat /\ ToSet(s) = {s[i] : i \in 1 .. n} /\ \A i \in 1 .. n : s[i] \in S
      /\ (IsInjective(s) <=> \A i, j \in 1 .. n : s[i] = s[j] => i = j)
  BY Listed, ElementOfSeq
<1>2. a = [i \in 1 .. n |-> s[(n - i) + 1]]
  BY DEF Reverse
<1>3. \A i \in 1 .. n : (n - i) + 1 \in 1 .. n /\ n - ((n - i) + 1) + 1 = i
  BY <1>1
<1> HIDE DEF a, n
<1>4. a \in [1 .. n -> S] /\ \A i \in 1 .. n : a[i] = s[(n - i) + 1]
  BY <1>1, <1>2, <1>3
<1>5. a \in Seq(S) /\ Len(a) = n
  BY <1>1, <1>4, LenProperties, SeqDef
<1>6. /\ ToSet(a) = {a[i] : i \in 1 .. n}
      /\ (IsInjective(a) <=> \A i, j \in 1 .. n : a[i] = a[j] => i = j)
  BY <1>5, Listed
<1>7. ToSet(a) = ToSet(s)
  <2>1. \A i \in 1 .. n : \E j \in 1 .. n : a[i] = s[j]
    BY <1>3, <1>4
  <2>2. \A i \in 1 .. n : \E j \in 1 .. n : s[i] = a[j]
    <3> TAKE i \in 1 .. n
    <3>1. a[(n - i) + 1] = s[i]
      BY <1>3, <1>4
    <3> QED BY <1>3, <3>1
  <2>3. ToSet(s) = {s[i] : i \in 1 .. n} /\ ToSet(a) = {a[i] : i \in 1 .. n}
    BY <1>1, <1>6
  <2>4. ToSet(a) \subseteq ToSet(s)
    BY <2>1, <2>3
  <2>5. ToSet(s) \subseteq ToSet(a)
    BY <2>2, <2>3
  <2> QED BY <2>4, <2>5
<1>8. ASSUME IsInjective(s) PROVE IsInjective(a)
  <2>1. ASSUME NEW i \in 1 .. n, NEW j \in 1 .. n, a[i] = a[j] PROVE i = j
    <3>1. (n - i) + 1 = (n - j) + 1
      BY <1>1, <1>3, <1>4, <1>8, <2>1
    <3> QED BY <1>1, <3>1
  <2> QED BY <1>6, <2>1
<1> QED BY <1>5, <1>7, <1>8 DEF a, n

-----------------------------------------------------------------------------
(* The pool while a call changes it. *)

FrameStates ==
  [fdec : Frames, refs : Seq(Frames), mmco : SUBSET Frames, open : Frames \union {NoFrame},
   count : [Frames -> Int], unused : Seq(Frames), made : Nat]
One(f, S) == IF f \in S THEN 1 ELSE 0
SameButPool(r, s) == r.fdec = s.fdec /\ r.refs = s.refs /\ r.mmco = s.mmco /\ r.open = s.open

Tidy(s) ==
  /\ s.made <= Threads + MaxCalls
  /\ ToSet(s.unused) = {f \in 1 .. s.made : s.count[f] = 0} /\ IsInjective(s.unused)
  /\ \A f \in Frames : s.count[f] >= 0 /\ (s.count[f] > 0 => f <= s.made)

(* x264_frame_push_unused: one holder less, and the pool stays in order.      *)
LEMMA DropIs ==
  ASSUME NEW s \in FrameStates, NEW f \in Frames
  PROVE  /\ Drop(s, f) \in FrameStates /\ SameButPool(Drop(s, f), s) /\ Drop(s, f).made = s.made
         /\ \A g \in Frames : Drop(s, f).count[g] = s.count[g] - One(g, {f})
         /\ Drop(s, f).unused = IF s.count[f] = 1 THEN Append(s.unused, f) ELSE s.unused
<1> DEFINE c == [s.count EXCEPT ![f] = s.count[f] - 1]
           u == IF s.count[f] = 1 THEN Append(s.unused, f) ELSE s.unused
<1>1. s.unused \in Seq(Frames) /\ s.count \in [Frames -> Int]
  BY DEF FrameStates
<1>2. /\ Drop(s, f).count = c /\ Drop(s, f).unused = u
      /\ SameButPool(Drop(s, f), s) /\ Drop(s, f).made = s.made
  BY DEF Drop, FrameStates, SameButPool
<1>3. c \in [Frames -> Int] /\ \A g \in Frames : c[g] = s.count[g] - One(g, {f})
  BY <1>1 DEF One
<1>4. u \in Seq(Frames)
  BY <1>1, Pushed
<1>5. Drop(s, f) = [s EXCEPT !.count = c, !.unused = u]
  BY DEF Drop
<1> HIDE DEF c, u
<1>6. Drop(s, f) \in FrameStates
  BY <1>3, <1>4, <1>5 DEF FrameStates
<1> QED BY <1>2, <1>3, <1>6 DEF u

LEMMA DropTidy ==
  ASSUME NEW s \in FrameStates, NEW f \in Frames, Tidy(s), s.count[f] > 0
  PROVE  Tidy(Drop(s, f))
<1> DEFINE r == Drop(s, f)
<1>1. /\ r \in FrameStates /\ r.made = s.made
      /\ \A g \in Frames : r.count[g] = s.count[g] - One(g, {f})
      /\ r.unused = IF s.count[f] = 1 THEN Append(s.unused, f) ELSE s.unused
  BY DropIs
<1>2. /\ s.unused \in Seq(Frames) /\ \A g \in Frames : s.count[g] \in Int
      /\ s.made \in Nat /\ Threads + MaxCalls \in Nat /\ Frames = 1 .. Threads + MaxCalls
      /\ s.made <= Threads + MaxCalls
      /\ ToSet(s.unused) = {g \in 1 .. s.made : s.count[g] = 0} /\ IsInjective(s.unused)
      /\ \A g \in Frames : s.count[g] >= 0 /\ (s.count[g] > 0 => g <= s.made)
  BY RowsAssumption DEF FrameStates, Frames, Tidy
<1> SUFFICES Tidy(r)
  OBVIOUS
<1> HIDE DEF r
<1>3. \A g \in Frames : /\ g # f => r.count[g] = s.count[g]
                        /\ r.count[f] = s.count[f] - 1
  BY <1>1, <1>2 DEF One
<1>4. f \in 1 .. s.made /\ f \notin ToSet(s.unused) /\ 1 .. s.made \subseteq Frames
  BY <1>2
<1>7. \A g \in Frames : r.count[g] >= 0 /\ (r.count[g] > 0 => g <= r.made)
  <2> TAKE g \in Frames
  <2>1. s.count[g] \in Int /\ s.count[g] >= 0 /\ (s.count[g] > 0 => g <= s.made)
        /\ (g # f => r.count[g] = s.count[g]) /\ r.count[f] = s.count[f] - 1
    BY <1>2, <1>3
  <2> QED BY <1>1, <2>1
<1>5. CASE s.count[f] = 1
  <2>1. r.unused = Append(s.unused, f) /\ r.count[f] = 0
    BY <1>1, <1>3, <1>5
  <2>2. ToSet(r.unused) = ToSet(s.unused) \union {f} /\ IsInjective(r.unused)
    BY <1>2, <1>4, <2>1, ListedAppend
  <2>3. {g \in 1 .. r.made : r.count[g] = 0} = {g \in 1 .. s.made : s.count[g] = 0} \union {f}
    <3>1. \A g \in 1 .. s.made : r.count[g] = 0 <=> s.count[g] = 0 \/ g = f
      BY <1>3, <1>4, <2>1
    <3> QED BY <1>1, <1>4, <3>1
  <2> QED BY <1>1, <1>2, <1>7, <2>2, <2>3 DEF Tidy
<1>6. CASE s.count[f] # 1
  <2>1. r.unused = s.unused /\ r.count[f] > 0
    BY <1>1, <1>2, <1>3, <1>6
  <2>2. {g \in 1 .. r.made : r.count[g] = 0} = {g \in 1 .. s.made : s.count[g] = 0}
    <3>1. \A g \in 1 .. s.made : r.count[g] = 0 <=> s.count[g] = 0
      <4> TAKE g \in 1 .. s.made
      <4>1. g \in Frames /\ (g # f => r.count[g] = s.count[g]) /\ r.count[f] # 0 /\ s.count[f] # 0
        BY <1>2, <1>3, <1>4, <2>1
      <4> QED BY <4>1
    <3> QED BY <1>1, <3>1
  <2> QED BY <1>1, <1>2, <1>7, <2>1, <2>2 DEF Tidy
<1> QED BY <1>5, <1>6

(* i_reference_count++ for some frames. *)
LEMMA HoldIs ==
  ASSUME NEW s \in FrameStates, NEW F \in SUBSET Frames
  PROVE  /\ Hold(s, F) \in FrameStates /\ SameButPool(Hold(s, F), s)
         /\ Hold(s, F).made = s.made /\ Hold(s, F).unused = s.unused
         /\ \A g \in Frames : Hold(s, F).count[g] = s.count[g] + One(g, F)
         /\ Tidy(s) /\ (\A g \in F : s.count[g] > 0) => Tidy(Hold(s, F))
<1>1. s.count \in [Frames -> Int] /\ s.made \in Nat
  BY DEF FrameStates
<1> DEFINE c == [f \in Frames |-> IF f \in F THEN s.count[f] + 1 ELSE s.count[f]]
<1>2. /\ Hold(s, F).count = c /\ Hold(s, F).unused = s.unused
      /\ SameButPool(Hold(s, F), s) /\ Hold(s, F).made = s.made
  BY DEF Hold, FrameStates, SameButPool
<1>6. Hold(s, F) = [s EXCEPT !.count = c]
  BY DEF Hold
<1>3. c \in [Frames -> Int] /\ \A g \in Frames : c[g] = s.count[g] + One(g, F)
  BY <1>1 DEF One
<1> HIDE DEF c
<1>4. Hold(s, F) \in FrameStates
  BY <1>3, <1>6 DEF FrameStates
<1>5. ASSUME Tidy(s), \A g \in F : s.count[g] > 0
      PROVE  Tidy(Hold(s, F))
  <2> DEFINE r == Hold(s, F)
  <2>1. r.unused = s.unused /\ r.made = s.made /\ \A g \in Frames : r.count[g] = s.count[g] + One(g, F)
    BY <1>2, <1>3
  <2> HIDE DEF r
  <2>2. s.made <= Threads + MaxCalls /\ 1 .. s.made \subseteq Frames
    BY <1>1, <1>5, RowsAssumption DEF Tidy, Frames
  <2>3. \A g \in Frames : s.count[g] \in Int /\ (r.count[g] = 0 <=> s.count[g] = 0) /\ r.count[g] >= 0
                          /\ (r.count[g] > 0 <=> s.count[g] > 0)
    BY <1>1, <1>5, <2>1 DEF One, Tidy
  <2>4. {g \in 1 .. r.made : r.count[g] = 0} = {g \in 1 .. s.made : s.count[g] = 0}
    BY <2>1, <2>2, <2>3
  <2> QED BY <1>5, <2>1, <2>2, <2>3, <2>4 DEF Tidy, r
<1> QED BY <1>2, <1>3, <1>4, <1>5

(* x264_frame_pop_unused: the frame taken is one that nobody held. *)
LEMMA TakeFdecIs ==
  ASSUME NEW s \in FrameStates, Tidy(s), s.unused = <<>> => s.made < Threads + MaxCalls
  PROVE  LET r == TakeFdec(s) IN
         /\ r \in FrameStates /\ Tidy(r)
         /\ r.refs = s.refs /\ r.mmco = s.mmco /\ r.open = s.open
         /\ s.count[r.fdec] = 0
         /\ \A g \in Frames : r.count[g] = s.count[g] + One(g, {r.fdec})
         /\ r.made = IF s.unused = <<>> THEN s.made + 1 ELSE s.made
<1> DEFINE new == s.unused = <<>>
           f   == IF new THEN s.made + 1 ELSE Last(s.unused)
           c   == [s.count EXCEPT ![f] = 1]
           u   == IF new THEN s.unused ELSE Front(s.unused)
           m   == IF new THEN f ELSE s.made
           r   == TakeFdec(s)
<1>1. /\ s.unused \in Seq(Frames) /\ s.count \in [Frames -> Int] /\ \A g \in Frames : s.count[g] \in Int
      /\ s.made \in Nat /\ Threads + MaxCalls \in Nat /\ Frames = 1 .. Threads + MaxCalls
      /\ s.made <= Threads + MaxCalls /\ (new => s.made < Threads + MaxCalls)
      /\ ToSet(s.unused) = {g \in 1 .. s.made : s.count[g] = 0} /\ IsInjective(s.unused)
      /\ \A g \in Frames : s.count[g] >= 0 /\ (s.count[g] > 0 => g <= s.made)
  BY RowsAssumption DEF FrameStates, Frames, Tidy
<1>2. f \in Frames /\ s.count[f] = 0 /\ u \in Seq(Frames) /\ IsInjective(u)
      /\ ToSet(u) = ToSet(s.unused) \ {f} /\ f <= m /\ m \in Nat /\ s.made <= m /\ m <= Threads + MaxCalls
      /\ \A g \in 1 .. m : g \in 1 .. s.made \/ g = f
  <2>1. CASE new
    <3>1. f = s.made + 1 /\ f \in Frames /\ u = s.unused /\ m = f /\ ToSet(u) = {}
      <4>1. ToSet(s.unused) = {}
        BY <2>1 DEF ToSet
      <4> QED BY <1>1, <2>1, <4>1
    <3>2. s.count[f] = 0
      <4>1. ~(s.count[f] > 0) /\ s.count[f] >= 0 /\ s.count[f] \in Int
        BY <1>1, <3>1
      <4> QED BY <4>1
    <3>3. IsInjective(u) /\ ToSet(u) = ToSet(s.unused) \ {f} /\ u \in Seq(Frames)
      BY <1>1, <3>1
    <3> QED BY <1>1, <3>1, <3>2, <3>3
  <2>2. CASE ~new
    <3>1. u \in Seq(Frames) /\ f \in ToSet(s.unused) /\ ToSet(u) = ToSet(s.unused) \ {f} /\ IsInjective(u)
      BY <1>1, <2>2, ListedFront
    <3>2. f \in 1 .. s.made /\ s.count[f] = 0 /\ m = s.made
      BY <1>1, <2>2, <3>1
    <3> QED BY <1>1, <3>1, <3>2
  <2> QED BY <2>1, <2>2
<1>3. r = [s EXCEPT !.fdec = f, !.count = c, !.made = m, !.unused = u]
  BY DEF TakeFdec
<1> SUFFICES /\ r \in FrameStates /\ Tidy(r)
             /\ r.refs = s.refs /\ r.mmco = s.mmco /\ r.open = s.open
             /\ s.count[r.fdec] = 0
             /\ \A g \in Frames : r.count[g] = s.count[g] + One(g, {r.fdec})
             /\ r.made = IF new THEN s.made + 1 ELSE s.made
  OBVIOUS
<1>8. m = IF new THEN s.made + 1 ELSE s.made
  OBVIOUS
<1>4. c \in [Frames -> Int] /\ \A g \in Frames : c[g] = s.count[g] + One(g, {f})
  BY <1>1, <1>2 DEF One
<1> HIDE DEF c, u, m, f, r, new
<1>5. /\ r \in FrameStates /\ r.refs = s.refs /\ r.mmco = s.mmco /\ r.open = s.open
      /\ r.fdec = f /\ r.count = c /\ r.unused = u /\ r.made = m
  BY <1>2, <1>3, <1>4 DEF FrameStates
<1>6. Tidy(r)
  <2>1. \A g \in Frames : /\ c[g] = s.count[g] + One(g, {f}) /\ s.count[g] \in Int
                          /\ (g = f => c[g] = 1) /\ (g # f => c[g] = s.count[g])
    BY <1>1, <1>2, <1>4 DEF One
  <2>2. {g \in 1 .. m : c[g] = 0} = {g \in 1 .. s.made : s.count[g] = 0} \ {f}
    <3>1. \A g \in 1 .. m : g \in Frames /\ (g \in 1 .. s.made \/ g = f)
      BY <1>1, <1>2
    <3>2. \A g \in 1 .. s.made : g \in 1 .. m
      BY <1>1, <1>2
    <3> QED BY <2>1, <3>1, <3>2
  <2>3. \A g \in Frames : c[g] >= 0 /\ (c[g] > 0 => g <= m)
    <3> TAKE g \in Frames
    <3>1. CASE g = f
      BY <1>2, <2>1, <3>1
    <3>2. CASE g # f
      <4>1. g \in Int /\ c[g] = s.count[g] /\ s.count[g] >= 0 /\ (s.count[g] > 0 => g <= s.made)
        BY <1>1, <2>1, <3>2
      <4> QED BY <1>1, <1>2, <4>1
    <3> QED BY <3>1, <3>2
  <2> QED BY <1>1, <1>2, <1>5, <2>2, <2>3 DEF Tidy
<1> QED BY <1>2, <1>4, <1>5, <1>6, <1>8

(* What Without does, one reference at a time. *)
Leave(x, f, gone) == IF f \in gone THEN Drop(x, f) ELSE [x EXCEPT !.refs = Append(@, f)]
LeftOut(f, s, gone) ==
  /\ f \in [0 .. Len(s.refs) -> FrameStates]
  /\ Without(s, gone) = f[Len(s.refs)] /\ f[0] = [s EXCEPT !.refs = <<>>]
  /\ \A i \in 1 .. Len(s.refs) : f[i] = Leave(f[i - 1], s.refs[i], gone)

LEMMA WithoutRule ==
  ASSUME NEW s \in FrameStates, NEW gone
  PROVE  \E f : LeftOut(f, s, gone)
<1> DEFINE n == Len(s.refs)
           z == [s EXCEPT !.refs = <<>>]
           g == [i \in 1 .. n |-> [x \in FrameStates |-> Leave(x, s.refs[i], gone)]]
           F(f) == [i \in 0 .. n |-> IF i = 0 THEN z
                                    ELSE IF s.refs[i] \in gone THEN Drop(f[i - 1], s.refs[i])
                                    ELSE [f[i - 1] EXCEPT !.refs = Append(@, s.refs[i])]]
<1>1. n \in Nat /\ z \in FrameStates /\ \A i \in 1 .. n : s.refs[i] \in Frames
  <2>1. s.refs \in Seq(Frames) /\ <<>> \in Seq(Frames)
    BY DEF FrameStates
  <2>2. z \in FrameStates
    BY <2>1 DEF FrameStates
  <2> QED BY <2>1, <2>2, LenProperties, ElementOfSeq
<1>2. g \in [1 .. n -> [FrameStates -> FrameStates]]
  <2>1. ASSUME NEW i \in 1 .. n, NEW x \in FrameStates
        PROVE  Leave(x, s.refs[i], gone) \in FrameStates
    <3> DEFINE e == s.refs[i]
               l == Append(x.refs, e)
    <3>1. e \in Frames /\ x.refs \in Seq(Frames)
      BY <1>1 DEF FrameStates
    <3>2. l \in Seq(Frames)
      BY <3>1, Pushed
    <3>3. Leave(x, e, gone) = IF e \in gone THEN Drop(x, e) ELSE [x EXCEPT !.refs = l]
      BY DEF Leave
    <3> HIDE DEF e, l
    <3>4. [x EXCEPT !.refs = l] \in FrameStates
      BY <3>2 DEF FrameStates
    <3>5. Leave(x, e, gone) \in FrameStates
      BY <3>1, <3>3, <3>4, DropIs
    <3> QED BY <3>5 DEF e
  <2> QED BY <2>1
<1>3. PICK f \in [0 .. n -> FrameStates] : f[0] = z /\ \A i \in 1 .. n : f[i] = g[i][f[i - 1]]
  <2> DEFINE A == FrameStates
  <2>1. n \in Nat /\ z \in A /\ g \in Rules(A, n)
    BY <1>1, <1>2 DEF Rules
  <2> HIDE DEF g, n, A, z
  <2>2. \E f \in [0 .. n -> A] : f[0] = z /\ \A i \in 1 .. n : f[i] = g[i][f[i - 1]]
    BY <2>1, Recursion
  <2> QED BY <2>2 DEF A
<1>4. ASSUME NEW i \in 1 .. n
      PROVE  f[i] = Leave(f[i - 1], s.refs[i], gone)
  <2> HIDE DEF g
  <2>1. f[i - 1] \in FrameStates
    BY <1>1, <1>3
  <2>2. f[i] = g[i][f[i - 1]]
    BY <1>3
  <2>3. g[i] = [x \in FrameStates |-> Leave(x, s.refs[i], gone)]
    BY DEF g
  <2> QED BY <2>1, <2>2, <2>3
<1> HIDE DEF g
<1>5. f = F(f)
  <2>1. f = [i \in 0 .. n |-> f[i]]
    OBVIOUS
  <2>2. ASSUME NEW i \in 0 .. n
        PROVE  f[i] = IF i = 0 THEN z
                      ELSE IF s.refs[i] \in gone THEN Drop(f[i - 1], s.refs[i])
                      ELSE [f[i - 1] EXCEPT !.refs = Append(@, s.refs[i])]
    <3>1. i = 0 \/ (i # 0 /\ i \in 1 .. n)
      BY <1>1
    <3> HIDE DEF n, z
    <3> QED BY <1>3, <1>4, <3>1 DEF Leave
  <2> HIDE DEF z
  <2> QED BY <2>1, <2>2
<1> DEFINE h == CHOOSE e : e = F(e)
           P == {i \in Nat : i <= n => h[i] = f[i]}
<1>6. h = F(h)
  BY <1>5
<1>7. Without(s, gone) = h[n]
  BY DEF Without
<1> HIDE DEF h, z
<1>8. 0 \in P /\ \A i \in Nat : i \in P => i + 1 \in P
  <2>1. h[0] = z
    BY <1>1, <1>6
  <2>2. ASSUME NEW i \in Nat, i \in P, i + 1 <= n PROVE h[i + 1] = f[i + 1]
    <3>1. i + 1 \in 1 .. n /\ i + 1 \in 0 .. n /\ i + 1 # 0 /\ (i + 1) - 1 = i /\ i <= n
      BY <1>1, <2>2
    <3>2. h[i + 1] = IF s.refs[i + 1] \in gone THEN Drop(h[i], s.refs[i + 1])
                     ELSE [h[i] EXCEPT !.refs = Append(@, s.refs[i + 1])]
      BY <1>6, <3>1
    <3> HIDE DEF n
    <3> QED BY <1>4, <2>2, <3>1, <3>2 DEF Leave
  <2> QED BY <1>1, <1>3, <2>1, <2>2
<1>9. h[n] = f[n]
  <2> HIDE DEF P
  <2>1. n \in P
    BY <1>1, <1>8, Induct
  <2> QED BY <1>1, <2>1 DEF P
<1> QED BY <1>3, <1>4, <1>7, <1>9 DEF LeftOut, z

(* What is left, and that the counts follow. *)
LEMMA WithoutIs ==
  ASSUME NEW s \in FrameStates, NEW gone, Tidy(s), IsInjective(s.refs),
         \A g \in ToSet(s.refs) \cap gone : s.count[g] > 0
  PROVE  LET r == Without(s, gone) IN
         /\ r \in FrameStates /\ Tidy(r)
         /\ r.fdec = s.fdec /\ r.mmco = s.mmco /\ r.open = s.open /\ r.made = s.made
         /\ IsInjective(r.refs) /\ ToSet(r.refs) = ToSet(s.refs) \ gone
         /\ Len(r.refs) <= Len(s.refs)
         /\ ToSet(s.refs) \cap gone # {} => Len(r.refs) < Len(s.refs)
         /\ \A g \in Frames : r.count[g] = s.count[g] - One(g, ToSet(s.refs) \cap gone)
<1> DEFINE n == Len(s.refs)
           First(i) == {s.refs[k] : k \in 1 .. i}
           Result(x, i) ==
             /\ x \in FrameStates /\ Tidy(x)
             /\ x.fdec = s.fdec /\ x.mmco = s.mmco /\ x.open = s.open /\ x.made = s.made
             /\ IsInjective(x.refs) /\ ToSet(x.refs) = First(i) \ gone
             /\ Len(x.refs) <= i /\ (First(i) \cap gone # {} => Len(x.refs) < i)
             /\ \A g \in Frames : x.count[g] = s.count[g] - One(g, First(i) \cap gone)
<1>1. PICK f : LeftOut(f, s, gone)
  BY WithoutRule
<1>2. /\ s.refs \in Seq(Frames) /\ n \in Nat /\ \A i \in 1 .. n : s.refs[i] \in Frames
      /\ ToSet(s.refs) = First(n) /\ \A i, j \in 1 .. n : s.refs[i] = s.refs[j] => i = j
  <2>1. s.refs \in Seq(Frames)
    BY DEF FrameStates
  <2> QED BY <2>1, Listed, ElementOfSeq
<1>3. Result(f[0], 0)
  <2> DEFINE x == f[0]
  <2>1. x = [s EXCEPT !.refs = <<>>] /\ <<>> \in Seq(Frames)
    BY <1>1 DEF LeftOut
  <2>2. x.refs = <<>> /\ x.fdec = s.fdec /\ x.mmco = s.mmco /\ x.open = s.open /\ x.made = s.made
        /\ x.count = s.count /\ x.unused = s.unused /\ x \in FrameStates
    BY <2>1 DEF FrameStates
  <2> HIDE DEF x
  <2>3. Tidy(x)
    BY <2>2 DEF Tidy
  <2>4. First(0) = {} /\ IsInjective(x.refs) /\ ToSet(x.refs) = {} /\ Len(x.refs) = 0
    <3>1. Len(x.refs) = 0 /\ x.refs \in Seq(Frames)
      BY <2>1, <2>2
    <3>2. 1 .. 0 = {}
      OBVIOUS
    <3> QED BY <3>1, <3>2, Listed
  <2>5. \A g \in Frames : x.count[g] = s.count[g] - One(g, First(0) \cap gone)
    BY <2>2, <2>4 DEF One, FrameStates
  <2>6. Len(x.refs) <= 0 /\ (First(0) \cap gone # {} => Len(x.refs) < 0) /\ ToSet(x.refs) = First(0) \ gone
    <3>1. First(0) = {} /\ ToSet(x.refs) = {} /\ Len(x.refs) = 0
      BY <2>4
    <3> HIDE DEF First
    <3> QED BY <3>1
  <2> HIDE DEF First
  <2>7. Result(x, 0)
    BY <2>2, <2>3, <2>4, <2>5, <2>6
  <2> QED BY <2>7 DEF x
<1>4. ASSUME NEW i \in Nat, i + 1 <= n, Result(f[i], i) PROVE Result(f[i + 1], i + 1)
  <2> DEFINE x == f[i]
             y == f[i + 1]
             e == s.refs[i + 1]
  <2>1. i + 1 \in 1 .. n /\ (i + 1) - 1 = i /\ 1 .. i + 1 = (1 .. i) \union {i + 1}
        /\ \A k \in 1 .. i : k \in 1 .. n /\ k # i + 1
    BY <1>2, <1>4
  <2>2. y = Leave(x, e, gone) /\ e \in Frames
    BY <1>1, <1>2, <2>1 DEF LeftOut
  <2>3. First(i + 1) = First(i) \union {e} /\ e \notin First(i) /\ e \in First(n)
    BY <1>2, <2>1
  <2>4. /\ x \in FrameStates /\ Tidy(x)
        /\ x.fdec = s.fdec /\ x.mmco = s.mmco /\ x.open = s.open /\ x.made = s.made
        /\ IsInjective(x.refs) /\ ToSet(x.refs) = First(i) \ gone
        /\ Len(x.refs) <= i /\ (First(i) \cap gone # {} => Len(x.refs) < i)
        /\ \A g \in Frames : x.count[g] = s.count[g] - One(g, First(i) \cap gone)
        /\ x.refs \in Seq(Frames) /\ Len(x.refs) \in Nat /\ \A g \in Frames : s.count[g] \in Int
    <3>1. Result(x, i)
      BY <1>4
    <3> HIDE DEF x
    <3> QED BY <3>1, LenProperties DEF FrameStates
  <2>10. s.refs \in Seq(Frames) /\ First(n) = ToSet(s.refs)
    BY <1>2
  <2> SUFFICES Result(y, i + 1)
    OBVIOUS
  <2> HIDE DEF x, y, e, First
  <2>5. CASE e \in gone
    <3>1. y = Drop(x, e) /\ x.count[e] > 0
      BY <2>2, <2>3, <2>4, <2>5, <2>10 DEF Leave, One
    <3>2. y \in FrameStates /\ Tidy(y) /\ SameButPool(y, x) /\ y.made = x.made
          /\ \A g \in Frames : y.count[g] = x.count[g] - One(g, {e})
      <4>1. x \in FrameStates /\ e \in Frames /\ Tidy(x) /\ x.count[e] > 0
        BY <2>2, <2>4, <3>1
      <4>2. Tidy(Drop(x, e))
        BY <4>1, DropTidy
      <4>3. /\ Drop(x, e) \in FrameStates /\ SameButPool(Drop(x, e), x) /\ Drop(x, e).made = x.made
            /\ \A g \in Frames : Drop(x, e).count[g] = x.count[g] - One(g, {e})
        BY <4>1, DropIs
      <4> QED BY <3>1, <4>2, <4>3
    <3>3. \A g \in Frames : y.count[g] = s.count[g] - One(g, First(i + 1) \cap gone)
      BY <2>3, <2>4, <2>5, <3>2 DEF One
    <3>4. First(i + 1) \ gone = First(i) \ gone
      BY <2>3, <2>5
    <3>5. y.refs = x.refs /\ y.fdec = s.fdec /\ y.mmco = s.mmco /\ y.open = s.open /\ y.made = s.made
      BY <2>4, <3>2 DEF SameButPool
    <3>6. Len(y.refs) < i + 1
      BY <1>4, <2>4, <3>5
    <3>7. IsInjective(y.refs) /\ ToSet(y.refs) = First(i + 1) \ gone
      BY <2>4, <3>4, <3>5
    <3>8. Len(y.refs) <= i + 1
      BY <1>4, <2>4, <3>5
    <3> QED BY <3>2, <3>3, <3>5, <3>6, <3>7, <3>8
  <2>6. CASE e \notin gone
    <3> DEFINE l == Append(x.refs, e)
    <3>1. y = [x EXCEPT !.refs = l]
      BY <2>2, <2>6 DEF Leave
    <3>2. l \in Seq(Frames) /\ Len(l) = Len(x.refs) + 1
      BY <2>2, <2>4, Pushed
    <3>3. ToSet(l) = ToSet(x.refs) \union {e} /\ IsInjective(l)
      BY <2>2, <2>3, <2>4, ListedAppend
    <3> HIDE DEF l
    <3>4. y \in FrameStates /\ y.refs = l /\ y.fdec = s.fdec /\ y.mmco = s.mmco /\ y.open = s.open
          /\ y.made = x.made /\ y.count = x.count /\ y.unused = x.unused
      BY <2>4, <3>1, <3>2 DEF FrameStates
    <3>5. Tidy(y)
      BY <2>4, <3>4 DEF Tidy
    <3>6. First(i + 1) \cap gone = First(i) \cap gone /\ First(i + 1) \ gone = (First(i) \ gone) \union {e}
      BY <2>3, <2>6
    <3>7. IsInjective(y.refs) /\ ToSet(y.refs) = First(i + 1) \ gone
      BY <2>4, <3>3, <3>4, <3>6
    <3>8. Len(y.refs) <= i + 1 /\ (First(i + 1) \cap gone # {} => Len(y.refs) < i + 1)
      BY <1>4, <2>4, <3>2, <3>4, <3>6
    <3>9. \A g \in Frames : y.count[g] = s.count[g] - One(g, First(i + 1) \cap gone)
      BY <2>4, <3>4, <3>6
    <3>10. y.made = s.made
      BY <2>4, <3>4
    <3> QED BY <3>4, <3>5, <3>7, <3>8, <3>9, <3>10
  <2> QED BY <2>5, <2>6
<1>5. Result(f[n], n)
  <2> DEFINE P == {i \in Nat : i <= n => Result(f[i], i)}
  <2> HIDE DEF Result, n
  <2>1. 0 \in P /\ \A i \in Nat : i \in P => i + 1 \in P
    <3>1. 0 \in P
      BY <1>3
    <3>2. ASSUME NEW i \in Nat, i \in P PROVE i + 1 \in P
      <4>1. i + 1 <= n => i <= n
        BY <1>2
      <4>2. i + 1 <= n => Result(f[i + 1], i + 1)
        BY <1>4, <3>2, <4>1
      <4> QED BY <4>2
    <3> QED BY <3>1, <3>2
  <2> HIDE DEF P
  <2>2. n \in P
    BY <1>2, <2>1, Induct
  <2> QED BY <1>2, <2>2 DEF P
<1>6. Without(s, gone) = f[n]
  BY <1>1 DEF LeftOut
<1> HIDE DEF First
<1> QED BY <1>2, <1>5, <1>6

-----------------------------------------------------------------------------
(* Who holds a frame, of the contexts x: the context c, and the others.      *)

HoldersIn(x, f) == {t \in Contexts : x[t].fdec = f} \X {"fdec"}
                   \union {t \in Contexts : f \in ToSet(x[t].refs)} \X {"refs"}
Others(x, c, f) ==
  Cardinality({t \in Contexts \ {c} : x[t].fdec = f} \X {"fdec"}
              \union {t \in Contexts \ {c} : f \in ToSet(x[t].refs)} \X {"refs"})

LEMMA HoldersSplit ==
  ASSUME NEW x, NEW c \in Contexts, NEW f
  PROVE  /\ IsFiniteSet(HoldersIn(x, f)) /\ Others(x, c, f) \in Nat
         /\ Cardinality(HoldersIn(x, f)) =
              Others(x, c, f) + One(f, {x[c].fdec}) + One(f, ToSet(x[c].refs))
<1> DEFINE H == HoldersIn(x, f)
           R == {t \in Contexts \ {c} : x[t].fdec = f} \X {"fdec"}
                \union {t \in Contexts \ {c} : f \in ToSet(x[t].refs)} \X {"refs"}
           a == <<c, "fdec">>
           b == <<c, "refs">>
           Q == IF f = x[c].fdec THEN R \union {a} ELSE R
<1>1. IsFiniteSet(Contexts \X {"fdec", "refs"})
  <2>1. IsFiniteSet(Contexts)
    BY RowsAssumption, FS_Interval DEF Contexts
  <2>2. IsFiniteSet({"fdec", "refs"})
    <3>1. IsFiniteSet({"fdec"})
      BY FS_Singleton
    <3>2. IsFiniteSet({"fdec"} \union {"refs"})
      BY <3>1, FS_AddElement
    <3>3. {"fdec"} \union {"refs"} = {"fdec", "refs"}
      OBVIOUS
    <3> QED BY <3>2, <3>3
  <2> QED BY <2>1, <2>2, FS_Product
<1>2. R \subseteq Contexts \X {"fdec", "refs"}
  OBVIOUS
<1>3. IsFiniteSet(R) /\ Cardinality(R) \in Nat
  BY <1>1, <1>2, FS_Subset, FS_CardinalityType
<1>4. a \notin R /\ b \notin Q
  OBVIOUS
<1>5. H = IF f \in ToSet(x[c].refs) THEN Q \union {b} ELSE Q
  BY DEF HoldersIn
<1>6. Others(x, c, f) = Cardinality(R)
  BY DEF Others
<1>7. a \notin R /\ Q = IF f = x[c].fdec THEN R \union {a} ELSE R
  BY <1>4
<1> HIDE DEF H, R, a, b, Q
<1>8. IsFiniteSet(Q) /\ Cardinality(Q) = Cardinality(R) + One(f, {x[c].fdec})
  <2>1. CASE f = x[c].fdec
    <3>1. IsFiniteSet(R \union {a}) /\ Cardinality(R \union {a}) = Cardinality(R) + 1
      BY <1>3, <1>7, FS_AddElement
    <3> QED BY <1>7, <2>1, <3>1 DEF One
  <2>2. CASE f # x[c].fdec
    BY <1>3, <1>7, <2>2 DEF One
  <2> QED BY <2>1, <2>2
<1>9. IsFiniteSet(H) /\ Cardinality(H) = Cardinality(Q) + One(f, ToSet(x[c].refs))
  <2>1. Cardinality(Q) \in Nat
    BY <1>8, FS_CardinalityType
  <2>2. CASE f \in ToSet(x[c].refs)
    <3>1. IsFiniteSet(Q \union {b}) /\ Cardinality(Q \union {b}) = Cardinality(Q) + 1
      BY <1>4, <1>8, FS_AddElement
    <3> QED BY <1>5, <2>2, <3>1 DEF One
  <2>3. CASE f \notin ToSet(x[c].refs)
    BY <1>5, <1>8, <2>1, <2>3 DEF One
  <2> QED BY <2>2, <2>3
<1> QED BY <1>3, <1>6, <1>8, <1>9 DEF H

LEMMA OthersSame ==
  ASSUME NEW x, NEW y, NEW c \in Contexts, NEW f,
         \A t \in Contexts \ {c} : y[t].fdec = x[t].fdec /\ y[t].refs = x[t].refs
  PROVE  Others(y, c, f) = Others(x, c, f)
<1>1. /\ {t \in Contexts \ {c} : y[t].fdec = f} = {t \in Contexts \ {c} : x[t].fdec = f}
      /\ {t \in Contexts \ {c} : f \in ToSet(y[t].refs)} = {t \in Contexts \ {c} : f \in ToSet(x[t].refs)}
  OBVIOUS
<1> QED BY <1>1 DEF Others

(* A frame that another context holds. *)
LEMMA OthersHold ==
  ASSUME NEW x, NEW c \in Contexts, NEW t \in Contexts \ {c}, NEW f
  PROVE  f = x[t].fdec \/ f \in ToSet(x[t].refs) => Others(x, c, f) > 0
<1> DEFINE R == {u \in Contexts \ {c} : x[u].fdec = f} \X {"fdec"}
                \union {u \in Contexts \ {c} : f \in ToSet(x[u].refs)} \X {"refs"}
<1>1. Others(x, c, f) = Cardinality(R) /\ Others(x, c, f) \in Nat
  <2>1. Others(x, c, f) \in Nat
    BY HoldersSplit
  <2> QED BY <2>1 DEF Others
<1>2. IsFiniteSet(R)
  <2>1. R \subseteq HoldersIn(x, f)
    BY DEF HoldersIn
  <2> QED BY <2>1, HoldersSplit, FS_Subset
<1>3. ASSUME f = x[t].fdec \/ f \in ToSet(x[t].refs) PROVE R # {}
  <2>1. <<t, "fdec">> \in R \/ <<t, "refs">> \in R
    BY <1>3
  <2> QED BY <2>1
<1> HIDE DEF R
<1> QED BY <1>1, <1>2, <1>3, FS_EmptySet

(* The frames and lists of the context c: every frame of the pool is counted *)
(* once for each that holds it.                                              *)
Counted(q, c) ==
  /\ q \in FrameStates /\ Tidy(q) /\ IsInjective(q.refs) /\ q.fdec \notin ToSet(q.refs)
  /\ \A g \in Frames : q.count[g] = Others(ctx, c, g) + One(g, {q.fdec}) + One(g, ToSet(q.refs))

LEMMA OneIs ==
  ASSUME NEW g, NEW S
  PROVE  One(g, S) \in {0, 1} /\ (One(g, S) = 1 <=> g \in S) /\ (One(g, S) = 0 <=> g \notin S)
BY DEF One

(* The current context before it is synchronised. *)
LEMMA Pool ==
  ASSUME RowsIInv, caller # "closed", NEW c \in Contexts, NEW t \in Contexts \ {c}
  PROVE  LET s == [fdec |-> ctx[c].fdec, refs |-> ctx[c].refs, mmco |-> ctx[t].mmco,
                   open |-> ctx[t].open, count |-> count, unused |-> unused, made |-> made]
         IN Counted(s, c)
<1> DEFINE s == [fdec |-> ctx[c].fdec, refs |-> ctx[c].refs, mmco |-> ctx[t].mmco,
                 open |-> ctx[t].open, count |-> count, unused |-> unused, made |-> made]
<1>1. /\ ctx[c].fdec \in Frames /\ ctx[c].refs \in Seq(Frames)
      /\ ctx[t].mmco \in SUBSET Frames /\ ctx[t].open \in Frames \union {NoFrame}
      /\ count \in [Frames -> Nat] /\ unused \in Seq(Frames) /\ made \in Nat
      /\ coded \in 0 .. calls /\ calls \in 0 .. MaxCalls
  BY DEF RowsIInv, RowsTypeOK
<1>2. s \in FrameStates
  <2>1. count \in [Frames -> Int]
    BY <1>1
  <2> QED BY <1>1, <2>1 DEF FrameStates
<1>3. Tidy(s)
  <2>1. made <= Threads + MaxCalls
    BY <1>1, RowsAssumption DEF RowsIInv, MadeInv
  <2>2. \A f \in Frames : count[f] >= 0
    BY <1>1
  <2> QED BY <2>1, <2>2 DEF Tidy, RowsIInv, PoolInv
<1>4. IsInjective(s.refs) /\ s.fdec \notin ToSet(s.refs)
  BY DEF RowsIInv, RefsInv
<1>5. ASSUME NEW g \in Frames
      PROVE  s.count[g] = Others(ctx, c, g) + One(g, {s.fdec}) + One(g, ToSet(s.refs))
  <2>1. Holders(g) = HoldersIn(ctx, g)
    BY DEF Holders, HoldersIn
  <2>2. count[g] = Cardinality(Holders(g))
    BY DEF RowsIInv, PoolInv
  <2> QED BY <2>1, <2>2, HoldersSplit
<1> QED BY <1>2, <1>3, <1>4, <1>5 DEF Counted

(* thread_sync_context. *)
LEMMA SyncIs ==
  ASSUME RowsIInv, caller # "closed", NEW c \in Contexts, NEW t \in Contexts \ {c}
  PROVE  LET r == Sync(ctx[c], ctx[t]) IN
         /\ Counted(r, c) /\ r.made = made
         /\ r.fdec = ctx[t].fdec /\ r.refs = ctx[t].refs
<1> DEFINE old == [fdec |-> ctx[c].fdec, refs |-> ctx[c].refs, mmco |-> ctx[t].mmco,
                   open |-> ctx[t].open, count |-> count, unused |-> unused, made |-> made]
           src == ctx[t].refs
           fd  == ctx[t].fdec
           h   == Hold(old, ToSet(src))
           w   == Without(h, ToSet(old.refs))
           v   == Hold(w, {fd})
           d   == Drop(v, old.fdec)
           r   == Sync(ctx[c], ctx[t])
           O(g) == Others(ctx, c, g)
<1>1. Counted(old, c) /\ old.made = made
  BY Pool
<1>2. r = [d EXCEPT !.fdec = fd, !.refs = src]
  BY DEF Sync
<1>3. /\ fd \in Frames /\ src \in Seq(Frames) /\ IsInjective(src) /\ fd \notin ToSet(src)
      /\ ToSet(src) \subseteq Frames
  <2>1. /\ fd \in Frames /\ src \in Seq(Frames) /\ IsInjective(src) /\ fd \notin ToSet(src)
    BY DEF RowsIInv, RowsTypeOK, RefsInv
  <2> QED BY <2>1, Listed
<1>4. \A g : O(g) \in Nat
  BY HoldersSplit
<1>5. \A g : g = fd \/ g \in ToSet(src) => O(g) > 0
  BY OthersHold
<1> SUFFICES Counted(r, c) /\ r.made = made /\ r.fdec = fd /\ r.refs = src
  OBVIOUS
<1>6. /\ old \in FrameStates /\ Tidy(old) /\ IsInjective(old.refs) /\ old.fdec \in Frames
      /\ old.refs \in Seq(Frames) /\ ToSet(old.refs) \subseteq Frames
      /\ \A g \in Frames : old.count[g] = O(g) + One(g, {old.fdec}) + One(g, ToSet(old.refs))
      /\ old.fdec \notin ToSet(old.refs)
  <2>1. old.refs \in Seq(Frames) /\ old.fdec \in Frames
    BY <1>1 DEF Counted, FrameStates
  <2> QED BY <1>1, <2>1, Listed DEF Counted
<1> HIDE DEF old, O, src, fd
<1>7. /\ h \in FrameStates /\ Tidy(h) /\ h.refs = old.refs /\ h.fdec = old.fdec /\ h.made = old.made
      /\ \A g \in Frames : h.count[g] = O(g) + One(g, {old.fdec}) + One(g, ToSet(old.refs)) + One(g, ToSet(src))
  <2>1. \A g \in ToSet(src) : old.count[g] > 0
    BY <1>3, <1>4, <1>5, <1>6, OneIs
  <2>2. /\ h \in FrameStates /\ SameButPool(h, old) /\ h.made = old.made /\ Tidy(h)
        /\ \A g \in Frames : h.count[g] = old.count[g] + One(g, ToSet(src))
    BY <1>3, <1>6, <2>1, HoldIs
  <2> QED BY <1>4, <1>6, <2>2, OneIs DEF SameButPool
<1> HIDE DEF h
<1>8. /\ w \in FrameStates /\ Tidy(w) /\ w.fdec = old.fdec /\ w.made = old.made
      /\ \A g \in Frames : w.count[g] = O(g) + One(g, {old.fdec}) + One(g, ToSet(src))
  <2>1. \A g \in ToSet(h.refs) \cap ToSet(old.refs) : h.count[g] > 0
    BY <1>4, <1>6, <1>7, OneIs
  <2>2. ToSet(h.refs) \cap ToSet(old.refs) = ToSet(old.refs)
    BY <1>7
  <2>3. IsInjective(h.refs)
    BY <1>6, <1>7
  <2>4. /\ w \in FrameStates /\ Tidy(w) /\ w.fdec = h.fdec /\ w.made = h.made
        /\ \A g \in Frames : w.count[g] = h.count[g] - One(g, ToSet(h.refs) \cap ToSet(old.refs))
    BY <1>7, <2>1, <2>3, WithoutIs
  <2>5. \A g \in Frames : w.count[g] = h.count[g] - One(g, ToSet(old.refs))
    BY <2>2, <2>4
  <2>6. \A g \in Frames : w.count[g] = O(g) + One(g, {old.fdec}) + One(g, ToSet(src))
    BY <1>4, <1>7, <2>5, OneIs
  <2> QED BY <1>7, <2>4, <2>6
<1> HIDE DEF w
<1>9. /\ v \in FrameStates /\ Tidy(v) /\ v.made = old.made
      /\ \A g \in Frames : v.count[g] = O(g) + One(g, {old.fdec}) + One(g, ToSet(src)) + One(g, {fd})
  <2>1. \A g \in {fd} : w.count[g] > 0
    BY <1>3, <1>4, <1>5, <1>8, OneIs
  <2>2. /\ v \in FrameStates /\ v.made = w.made /\ Tidy(v)
        /\ \A g \in Frames : v.count[g] = w.count[g] + One(g, {fd})
    BY <1>3, <1>8, <2>1, HoldIs
  <2> QED BY <1>4, <1>8, <2>2, OneIs
<1> HIDE DEF v
<1>10. /\ d \in FrameStates /\ Tidy(d) /\ d.made = old.made
       /\ \A g \in Frames : d.count[g] = O(g) + One(g, {fd}) + One(g, ToSet(src))
  <2>1. v.count[old.fdec] > 0
    BY <1>4, <1>6, <1>9, OneIs
  <2>2. Tidy(d)
    BY <1>6, <1>9, <2>1, DropTidy
  <2>3. /\ d \in FrameStates /\ d.made = v.made
        /\ \A g \in Frames : d.count[g] = v.count[g] - One(g, {old.fdec})
    BY <1>6, <1>9, DropIs
  <2>4. \A g \in Frames : d.count[g] = O(g) + One(g, {fd}) + One(g, ToSet(src))
    BY <1>4, <1>9, <2>3, OneIs
  <2> QED BY <1>9, <2>2, <2>3, <2>4
<1> HIDE DEF d, r
<1>11. /\ r \in FrameStates /\ r.fdec = fd /\ r.refs = src /\ r.made = d.made /\ r.count = d.count
       /\ r.unused = d.unused
  BY <1>2, <1>3, <1>10 DEF FrameStates
<1>12. Tidy(r)
  BY <1>10, <1>11 DEF Tidy
<1>13. \A g \in Frames : r.count[g] = Others(ctx, c, g) + One(g, {r.fdec}) + One(g, ToSet(r.refs))
  BY <1>10, <1>11 DEF O
<1> QED BY <1>1, <1>3, <1>10, <1>11, <1>12, <1>13 DEF Counted

(* reference_update: the frame that was coded becomes a reference or nothing, *)
(* and the context takes another.                                             *)
LEMMA CodedQueued ==
  ASSUME RowsTypeOK, NEW s, NEW c \in Contexts, Counted(s, c), Len(s.refs) <= NumRef
  PROVE  \E q \in FrameStates :
           /\ Update(s) = TakeFdec(q) /\ Tidy(q) /\ q.made = s.made
           /\ IsInjective(q.refs) /\ Len(q.refs) <= NumRef
           /\ ToSet(q.refs) \subseteq ToSet(s.refs) \union {s.fdec}
           /\ \A g \in Frames : q.count[g] = Others(ctx, c, g) + One(g, ToSet(q.refs))
<1> DEFINE O(g) == Others(ctx, c, g)
           Done(q) ==
             /\ q \in FrameStates
             /\ Update(s) = TakeFdec(q) /\ Tidy(q) /\ q.made = s.made
             /\ IsInjective(q.refs) /\ Len(q.refs) <= NumRef
             /\ ToSet(q.refs) \subseteq ToSet(s.refs) \union {s.fdec}
             /\ \A g \in Frames : q.count[g] = O(g) + One(g, ToSet(q.refs))
<1>1. \A g : O(g) \in Nat
  BY HoldersSplit
<1>2. /\ s \in FrameStates /\ Tidy(s) /\ IsInjective(s.refs) /\ s.fdec \in Frames
      /\ s.refs \in Seq(Frames) /\ ToSet(s.refs) \subseteq Frames /\ s.fdec \notin ToSet(s.refs)
      /\ \A g \in Frames : s.count[g] = O(g) + One(g, {s.fdec}) + One(g, ToSet(s.refs))
      /\ NumRef \in Nat \ {0} /\ Len(s.refs) \in Nat
  <2>1. s.refs \in Seq(Frames) /\ s.fdec \in Frames
    BY DEF Counted, FrameStates
  <2> QED BY <2>1, Listed, RowsAssumption DEF Counted
<1>3. SUFFICES \E q : Done(q)
  OBVIOUS
<1>4. CASE ~kept[s.fdec]
  <2> DEFINE q == Drop(s, s.fdec)
  <2>1. Update(s) = TakeFdec(q)
    BY <1>4 DEF Update
  <2> HIDE DEF O
  <2>2. s.count[s.fdec] > 0
    BY <1>1, <1>2, OneIs
  <2>3. Tidy(q)
    BY <1>2, <2>2, DropTidy
  <2>4. /\ q \in FrameStates /\ q.refs = s.refs /\ q.made = s.made
        /\ \A g \in Frames : q.count[g] = s.count[g] - One(g, {s.fdec})
    BY <1>2, DropIs DEF SameButPool
  <2> HIDE DEF q
  <2>5. \A g \in Frames : q.count[g] = O(g) + One(g, ToSet(q.refs))
    BY <1>1, <1>2, <2>4, OneIs
  <2>6. ToSet(q.refs) \subseteq ToSet(s.refs) \union {s.fdec}
    BY <2>4
  <2> QED BY <1>2, <2>1, <2>3, <2>4, <2>5, <2>6
<1>5. CASE kept[s.fdec]
  <2> DEFINE a == Without(s, s.mmco)
             l == Append(a.refs, s.fdec)
             b == [a EXCEPT !.refs = l]
             q == IF Len(b.refs) > NumRef THEN Without(b, {Head(b.refs)}) ELSE b
  <2>1. Update(s) = TakeFdec(q)
    BY <1>5 DEF Update
  <2> HIDE DEF O
  <2>2. /\ a \in FrameStates /\ Tidy(a) /\ a.fdec = s.fdec /\ a.made = s.made
        /\ IsInjective(a.refs) /\ ToSet(a.refs) = ToSet(s.refs) \ s.mmco
        /\ Len(a.refs) <= Len(s.refs) /\ a.refs \in Seq(Frames) /\ Len(a.refs) \in Nat
        /\ \A g \in Frames : a.count[g] = O(g) + One(g, {s.fdec}) + One(g, ToSet(a.refs))
    <3>1. \A g \in ToSet(s.refs) \cap s.mmco : s.count[g] > 0
      BY <1>1, <1>2, OneIs
    <3>2. /\ a \in FrameStates /\ Tidy(a) /\ a.fdec = s.fdec /\ a.made = s.made
          /\ IsInjective(a.refs) /\ ToSet(a.refs) = ToSet(s.refs) \ s.mmco
          /\ Len(a.refs) <= Len(s.refs)
          /\ \A g \in Frames : a.count[g] = s.count[g] - One(g, ToSet(s.refs) \cap s.mmco)
      BY <1>2, <3>1, WithoutIs
    <3> HIDE DEF a
    <3>3. \A g \in Frames : One(g, ToSet(s.refs)) - One(g, ToSet(s.refs) \cap s.mmco) = One(g, ToSet(a.refs))
      BY <3>2 DEF One
    <3>4. \A g \in Frames : a.count[g] = O(g) + One(g, {s.fdec}) + One(g, ToSet(a.refs))
      BY <1>1, <1>2, <3>2, <3>3, OneIs
    <3>5. a.refs \in Seq(Frames)
      BY <3>2 DEF FrameStates
    <3> QED BY <3>2, <3>4, <3>5, LenProperties
  <2> HIDE DEF a
  <2>3. /\ b \in FrameStates /\ Tidy(b) /\ b.made = s.made /\ IsInjective(b.refs) /\ b.refs \in Seq(Frames)
        /\ ToSet(b.refs) = ToSet(a.refs) \union {s.fdec} /\ Len(b.refs) = Len(a.refs) + 1
        /\ \A g \in Frames : b.count[g] = O(g) + One(g, ToSet(b.refs))
    <3>1. l \in Seq(Frames) /\ Len(l) = Len(a.refs) + 1
      BY <1>2, <2>2, Pushed
    <3>2. ToSet(l) = ToSet(a.refs) \union {s.fdec} /\ IsInjective(l)
      BY <1>2, <2>2, ListedAppend
    <3> HIDE DEF l
    <3>3. b \in FrameStates /\ b.refs = l /\ b.made = a.made /\ b.count = a.count /\ b.unused = a.unused
      BY <2>2, <3>1 DEF FrameStates
    <3> HIDE DEF b
    <3>4. Tidy(b)
      BY <2>2, <3>3 DEF Tidy
    <3>5. \A g \in Frames : One(g, ToSet(b.refs)) = One(g, {s.fdec}) + One(g, ToSet(a.refs))
      BY <1>2, <2>2, <3>2, <3>3 DEF One
    <3>6. \A g \in Frames : b.count[g] = O(g) + One(g, ToSet(b.refs))
      BY <1>1, <2>2, <3>3, <3>5, OneIs
    <3> QED BY <2>2, <3>1, <3>2, <3>3, <3>4, <3>6
  <2> HIDE DEF b
  <2>4. CASE Len(b.refs) > NumRef
    <3> DEFINE e == Head(b.refs)
    <3>1. q = Without(b, {e})
      BY <2>4
    <3>2. e \in ToSet(b.refs)
      <4>1. Len(b.refs) \in Nat \ {0}
        BY <1>2, <2>2, <2>3
      <4>2. b.refs # <<>>
        BY <4>1
      <4>3. e = b.refs[1]
        BY <2>3, <4>2, Shifted
      <4> QED BY <2>3, <4>1, <4>3, Listed
    <3> HIDE DEF e, q
    <3>3. ToSet(b.refs) \cap {e} = {e} /\ ToSet(b.refs) \subseteq Frames
      BY <2>3, <3>2, Listed
    <3>4. \A g \in ToSet(b.refs) \cap {e} : b.count[g] > 0
      BY <1>1, <2>3, <3>2, <3>3, OneIs
    <3>5. /\ q \in FrameStates /\ Tidy(q) /\ q.made = b.made
          /\ IsInjective(q.refs) /\ ToSet(q.refs) = ToSet(b.refs) \ {e} /\ Len(q.refs) < Len(b.refs)
          /\ \A g \in Frames : q.count[g] = b.count[g] - One(g, ToSet(b.refs) \cap {e})
      <4>1. /\ b \in FrameStates /\ Tidy(b) /\ IsInjective(b.refs)
            /\ \A g \in ToSet(b.refs) \cap {e} : b.count[g] > 0
        BY <2>3, <3>4
      <4>2. LET r == Without(b, {e}) IN
            /\ r \in FrameStates /\ Tidy(r)
            /\ r.fdec = b.fdec /\ r.mmco = b.mmco /\ r.open = b.open /\ r.made = b.made
            /\ IsInjective(r.refs) /\ ToSet(r.refs) = ToSet(b.refs) \ {e}
            /\ Len(r.refs) <= Len(b.refs)
            /\ ToSet(b.refs) \cap {e} # {} => Len(r.refs) < Len(b.refs)
            /\ \A g \in Frames : r.count[g] = b.count[g] - One(g, ToSet(b.refs) \cap {e})
        BY <4>1, WithoutIs
      <4>3. ToSet(b.refs) \cap {e} # {}
        BY <3>3
      <4> QED BY <3>1, <4>2, <4>3
    <3>6. \A g \in Frames : One(g, ToSet(b.refs)) - One(g, ToSet(b.refs) \cap {e}) = One(g, ToSet(q.refs))
      BY <3>2, <3>5 DEF One
    <3>7. \A g \in Frames : q.count[g] = O(g) + One(g, ToSet(q.refs))
      BY <1>1, <2>3, <3>5, <3>6, OneIs, SMTT(30)
    <3>8. Len(q.refs) <= NumRef
      <4>1. q.refs \in Seq(Frames)
        BY <3>5 DEF FrameStates
      <4> QED BY <1>2, <2>2, <2>3, <3>5, <4>1, LenProperties
    <3>9. ToSet(q.refs) \subseteq ToSet(s.refs) \union {s.fdec}
      BY <2>2, <2>3, <3>5
    <3> QED BY <2>1, <2>3, <3>5, <3>7, <3>8, <3>9
  <2>5. CASE ~(Len(b.refs) > NumRef)
    <3>1. q = b
      BY <2>5
    <3>2. Len(b.refs) <= NumRef
      BY <1>2, <2>2, <2>3, <2>5
    <3>3. ToSet(b.refs) \subseteq ToSet(s.refs) \union {s.fdec}
      BY <2>2, <2>3
    <3> QED BY <2>1, <2>3, <3>1, <3>2, <3>3
  <2> QED BY <2>4, <2>5
<1> QED BY <1>4, <1>5

-----------------------------------------------------------------------------
(* The ages of the contexts. *)

LEMMA RowAges ==
  ASSUME phase \in Contexts
  PROVE  /\ Threads \in Nat \ {0, 1} /\ Current \in Contexts /\ Current # phase
         /\ Current = IF phase = Threads - 1 THEN 0 ELSE phase + 1
         /\ \A t \in Contexts : Age(t) \in 0 .. Threads - 1
         /\ Age(phase) = 0 /\ Age(Current) = Threads - 1
         /\ \A t \in Contexts : (Age(t) = 0 => t = phase) /\ (Age(t) = Threads - 1 => t = Current)
         /\ \E t \in Contexts : Age(t) = Threads - 2
<1>1. Threads \in Nat \ {0, 1} /\ phase \in 0 .. Threads - 1
  BY RowsAssumption DEF Contexts
<1>2. Current = IF phase = Threads - 1 THEN 0 ELSE phase + 1
  <2>1. CASE phase = Threads - 1
    <3>1. phase + 1 = Threads
      BY <1>1, <2>1
    <3>2. Threads % Threads = 0
      BY <1>1
    <3> QED BY <2>1, <3>1, <3>2 DEF Current
  <2>2. CASE phase # Threads - 1
    <3>1. phase + 1 \in 0 .. Threads - 1
      BY <1>1, <2>2
    <3>2. (phase + 1) % Threads = phase + 1
      BY <1>1, <3>1
    <3> QED BY <2>2, <3>2 DEF Current
  <2> QED BY <2>1, <2>2
<1>3. \E t \in Contexts : Age(t) = Threads - 2
  <2> DEFINE n == IF phase >= Threads - 2 THEN phase - (Threads - 2) ELSE phase + 2
  <2>1. n \in Contexts /\ Age(n) = Threads - 2
    BY <1>1 DEF Age, Contexts
  <2> QED BY <2>1
<1> QED BY <1>1, <1>2, <1>3 DEF Age, Contexts

LEMMA RowAged ==
  ASSUME phase \in Contexts, phase' = Current
  PROVE  /\ phase' \in Contexts
         /\ \A t \in Contexts : Age(t)' = IF t = Current THEN 0 ELSE Age(t) + 1
<1>1. /\ Threads \in Nat \ {0, 1} /\ phase \in 0 .. Threads - 1 /\ Contexts = 0 .. Threads - 1
      /\ Current \in Contexts
      /\ phase' = IF phase = Threads - 1 THEN 0 ELSE phase + 1
  BY RowAges DEF Contexts
<1>2. ASSUME NEW t \in Contexts PROVE Age(t)' = IF t = Current THEN 0 ELSE Age(t) + 1
  <2>1. Age(t)' = IF t <= phase' THEN phase' - t ELSE phase' + Threads - t
    BY DEF Age
  <2>2. Age(t) = IF t <= phase THEN phase - t ELSE phase + Threads - t
    BY DEF Age
  <2>3. t \in 0 .. Threads - 1
    BY <1>1
  <2>4. Current = IF phase = Threads - 1 THEN 0 ELSE phase + 1
    BY RowAges
  <2> HIDE DEF Age
  <2>5. CASE phase = Threads - 1
    BY <1>1, <2>1, <2>2, <2>3, <2>4, <2>5
  <2>6. CASE phase # Threads - 1
    BY <1>1, <2>1, <2>2, <2>3, <2>4, <2>6
  <2> QED BY <2>5, <2>6
<1> QED BY <1>1, <1>2

(* What the other contexts hold: their frames, and what the next-oldest      *)
(* refers to, no more.                                                       *)
LEMMA OthersHeld ==
  ASSUME RowsTypeOK, RefsInv
  PROVE  \E u \in Contexts : \A g :
           Others(ctx, Current, g) > 0 =>
             g \in {ctx[v].fdec : v \in Contexts \ {Current}} \union ToSet(ctx[u].refs)
<1> DEFINE c == Current
           F == {ctx[v].fdec : v \in Contexts \ {c}}
<1>1. phase \in Contexts
  BY DEF RowsTypeOK
<1>2. PICK u \in Contexts : Age(u) = Threads - 2
  BY <1>1, RowAges
<1>3. /\ c \in Contexts /\ \A t \in Contexts : Age(t) \in 0 .. Threads - 1
      /\ \A t \in Contexts : Age(t) = Threads - 1 => t = c
      /\ Age(c) = Threads - 1 /\ Threads \in Nat \ {0, 1}
  BY <1>1, RowAges
<1>4. ASSUME NEW g, Others(ctx, c, g) > 0
      PROVE  g \in F \union ToSet(ctx[u].refs)
  <2> DEFINE R == {t \in Contexts \ {c} : ctx[t].fdec = g} \X {"fdec"}
                  \union {t \in Contexts \ {c} : g \in ToSet(ctx[t].refs)} \X {"refs"}
  <2>1. R # {}
    <3>1. Others(ctx, c, g) = Cardinality(R)
      BY DEF Others
    <3>2. Cardinality({}) = 0
      BY FS_EmptySet
    <3> QED BY <1>4, <3>1, <3>2
  <2>2. PICK t \in Contexts \ {c} : ctx[t].fdec = g \/ g \in ToSet(ctx[t].refs)
    BY <2>1
  <2>3. Age(t) <= Age(u)
    <3>1. Age(t) \in 0 .. Threads - 1 /\ Age(t) # Threads - 1
      BY <1>3, <2>2
    <3> QED BY <1>2, <1>3, <3>1
  <2>4. ToSet(ctx[t].refs) \subseteq ToSet(ctx[u].refs) \union CodedSince(t, u)
    BY <2>2, <2>3 DEF RefsInv
  <2>5. CodedSince(t, u) \subseteq F
    <3>1. ASSUME NEW w \in Contexts, Age(w) <= Age(u) PROVE w # c
      BY <1>2, <1>3, <3>1
    <3> QED BY <3>1 DEF CodedSince
  <2> QED BY <2>2, <2>4, <2>5
<1> QED BY <1>4

(* The frames of a pool that has no unused one are as few as the contexts    *)
(* and the references of one context: there is room for one more.            *)
LEMMA MadeRoom ==
  ASSUME RowsTypeOK, RefsInv, NEW q \in FrameStates, Tidy(q), q.unused = <<>>,
         ToSet(q.refs) \subseteq ToSet(ctx[phase].refs) \union {ctx[phase].fdec},
         \A g \in Frames : q.count[g] = Others(ctx, Current, g) + One(g, ToSet(q.refs))
  PROVE  q.made + 1 <= Threads + NumRef
<1> DEFINE c == Current
           S == Contexts \ {c}
           F == {ctx[v].fdec : v \in S}
           m == q.made
<1>1. /\ phase \in Contexts /\ c \in Contexts /\ c # phase
      /\ Threads \in Nat \ {0, 1} /\ NumRef \in Nat \ {0}
      /\ m \in Nat /\ m <= Threads + MaxCalls /\ MaxCalls \in Nat
  BY RowAges, RowsAssumption DEF RowsTypeOK, Tidy, FrameStates
<1>2. PICK u \in Contexts : \A g : Others(ctx, c, g) > 0 => g \in F \union ToSet(ctx[u].refs)
  BY OthersHeld
<1> DEFINE l == ctx[u].refs
           L == ToSet(l)
<1>3. /\ l \in Seq(Frames) /\ Len(l) \in Nat /\ Len(l) <= NumRef /\ DOMAIN l = 1 .. Len(l)
      /\ L = {l[i] : i \in 1 .. Len(l)}
  <2>1. l \in Seq(Frames) /\ Len(l) <= NumRef
    BY DEF RowsTypeOK, RefsInv
  <2> QED BY <2>1, Listed
<1>4. 1 .. m \subseteq F \union L
  <2>1. ASSUME NEW g \in 1 .. m PROVE g \in F \union L
    <3>1. ToSet(q.unused) = {}
      BY DEF ToSet
    <3>2. g \in Frames
      BY <1>1 DEF Frames
    <3>3. q.count[g] # 0
      BY <3>1 DEF Tidy
    <3>4. Others(ctx, c, g) \in Nat
      BY <1>1, HoldersSplit
    <3>5. Others(ctx, c, g) > 0 \/ g \in ToSet(q.refs)
      BY <3>2, <3>3, <3>4 DEF One
    <3>6. ASSUME g \in ToSet(q.refs) PROVE Others(ctx, c, g) > 0
      <4>1. g = ctx[phase].fdec \/ g \in ToSet(ctx[phase].refs)
        BY <3>6
      <4> QED BY <1>1, <4>1, OthersHold
    <3> QED BY <1>2, <3>5, <3>6
  <2> QED BY <2>1
<1>5. IsFiniteSet(S) /\ Cardinality(S) = Threads - 1
  <2>1. IsFiniteSet(Contexts) /\ Cardinality(Contexts) = Threads
    <3>1. 0 \in Int /\ Threads - 1 \in Int /\ ~(0 > Threads - 1) /\ (Threads - 1) - 0 + 1 = Threads
      BY <1>1
    <3>2. IsFiniteSet(0 .. Threads - 1) /\ Cardinality(0 .. Threads - 1) = Threads
      BY <3>1, FS_Interval
    <3> QED BY <3>2 DEF Contexts
  <2> QED BY <1>1, <2>1, FS_RemoveElement
<1>6. IsFiniteSet(F) /\ Cardinality(F) <= Threads - 1
  <2> DEFINE f == [v \in S |-> ctx[v].fdec]
  <2>1. f \in Surjection(S, F)
    BY DEF Surjection
  <2> HIDE DEF f, S, F
  <2> QED BY <1>5, <2>1, FS_Surjection
<1>7. IsFiniteSet(L) /\ Cardinality(L) <= NumRef
  <2>1. l \in Surjection(1 .. Len(l), L)
    <3>1. l \in [1 .. Len(l) -> L]
      BY <1>3
    <3> HIDE DEF l, L
    <3> QED BY <1>3, <3>1 DEF Surjection
  <2>2. IsFiniteSet(1 .. Len(l)) /\ Cardinality(1 .. Len(l)) = Len(l)
    BY <1>3, FS_Interval
  <2> HIDE DEF l, L
  <2>3. IsFiniteSet(L) /\ Cardinality(L) <= Cardinality(1 .. Len(l))
    BY <2>1, <2>2, FS_Surjection
  <2>4. Cardinality(L) \in Nat
    BY <2>3, FS_CardinalityType
  <2> QED BY <1>1, <1>3, <2>2, <2>3, <2>4
<1> HIDE DEF S, F, l, L, m, c
<1>8. IsFiniteSet(F \union L) /\ Cardinality(F \union L) <= Threads - 1 + NumRef
  <2>1. /\ IsFiniteSet(F \union L)
        /\ Cardinality(F \union L) = Cardinality(F) + Cardinality(L) - Cardinality(F \cap L)
    BY <1>6, <1>7, FS_Union
  <2>2. IsFiniteSet(F \cap L)
    BY <1>6, FS_Subset
  <2>3. Cardinality(F) \in Nat /\ Cardinality(L) \in Nat /\ Cardinality(F \cap L) \in Nat
    BY <1>6, <1>7, <2>2, FS_CardinalityType
  <2> QED BY <1>1, <1>6, <1>7, <2>1, <2>3
<1>9. Cardinality(1 .. m) <= Cardinality(F \union L)
  BY <1>4, <1>8, FS_Subset
<1>10. Cardinality(1 .. m) = m
  BY <1>1, FS_Interval
<1>11. Cardinality(F \union L) \in Nat
  BY <1>8, FS_CardinalityType
<1> QED BY <1>1, <1>8, <1>9, <1>10, <1>11 DEF m

(* The new frame of a context, whose list becomes that of q. *)
LEMMA UpdateIs ==
  ASSUME RowsTypeOK, RefsInv, MadeInv, calls < MaxCalls,
         NEW s, Counted(s, Current), s.made = made,
         s.fdec = ctx[phase].fdec, s.refs = ctx[phase].refs
  PROVE  LET r == Update(s) IN
         /\ Counted(r, Current) /\ Others(ctx, Current, r.fdec) = 0
         /\ r.made <= Threads + coded + 1 /\ r.made <= Threads + NumRef
         /\ Len(r.refs) <= NumRef
         /\ ToSet(r.refs) \subseteq ToSet(ctx[phase].refs) \union {ctx[phase].fdec}
<1> DEFINE c == Current
           O(g) == Others(ctx, c, g)
           r == Update(s)
<1>1. /\ phase \in Contexts /\ c \in Contexts /\ made \in Nat /\ coded \in Nat /\ made <= Threads + coded
      /\ made <= Threads + NumRef /\ coded < MaxCalls /\ Threads \in Nat /\ NumRef \in Nat /\ MaxCalls \in Nat
  BY RowAges, RowsAssumption DEF RowsTypeOK, MadeInv
<1>2. Len(s.refs) <= NumRef
  BY <1>1 DEF RefsInv
<1>3. PICK q \in FrameStates :
        /\ Update(s) = TakeFdec(q) /\ Tidy(q) /\ q.made = s.made
        /\ IsInjective(q.refs) /\ Len(q.refs) <= NumRef
        /\ ToSet(q.refs) \subseteq ToSet(s.refs) \union {s.fdec}
        /\ \A g \in Frames : q.count[g] = O(g) + One(g, ToSet(q.refs))
  BY <1>1, <1>2, CodedQueued
<1>4. q.unused = <<>> => q.made < Threads + MaxCalls
  BY <1>1, <1>3
<1>5. /\ r \in FrameStates /\ Tidy(r) /\ r.refs = q.refs /\ q.count[r.fdec] = 0
      /\ \A g \in Frames : r.count[g] = q.count[g] + One(g, {r.fdec})
      /\ r.made = IF q.unused = <<>> THEN q.made + 1 ELSE q.made
  BY <1>3, <1>4, TakeFdecIs, ZenonT(40)
<1>6. q.unused = <<>> => q.made + 1 <= Threads + NumRef
  BY <1>3, MadeRoom
<1> HIDE DEF r, c
<1>7. \A g : O(g) \in Nat
  BY <1>1, HoldersSplit
<1>8. r.fdec \in Frames
  BY <1>5 DEF FrameStates
<1> HIDE DEF O
<1>9. r.fdec \notin ToSet(r.refs) /\ O(r.fdec) = 0
  BY <1>3, <1>5, <1>7, <1>8, OneIs
<1>10. \A g \in Frames : r.count[g] = O(g) + One(g, {r.fdec}) + One(g, ToSet(r.refs))
  BY <1>3, <1>5, <1>7, OneIs
<1>11. Counted(r, c)
  BY <1>3, <1>5, <1>9, <1>10 DEF Counted, O
<1>12. r.made <= Threads + coded + 1 /\ r.made <= Threads + NumRef
  BY <1>1, <1>3, <1>5, <1>6
<1> QED BY <1>3, <1>5, <1>9, <1>11, <1>12 DEF r, c, O

(* reference_reset and reference_hierarchy_reset. *)
LEMMA LeavesOut ==
  ASSUME NEW s, NEW c \in Contexts, Counted(s, c), NEW gone
  PROVE  LET r == Without(s, gone) IN
         /\ Counted(r, c) /\ r.fdec = s.fdec /\ r.made = s.made /\ Len(r.refs) <= Len(s.refs)
         /\ ToSet(r.refs) \subseteq ToSet(s.refs)
<1> DEFINE O(g) == Others(ctx, c, g)
           r == Without(s, gone)
<1>1. \A g : O(g) \in Nat
  BY HoldersSplit
<1>2. /\ s \in FrameStates /\ Tidy(s) /\ IsInjective(s.refs) /\ s.fdec \notin ToSet(s.refs)
      /\ ToSet(s.refs) \subseteq Frames
      /\ \A g \in Frames : s.count[g] = O(g) + One(g, {s.fdec}) + One(g, ToSet(s.refs))
  <2>1. s.refs \in Seq(Frames)
    BY DEF Counted, FrameStates
  <2> QED BY <2>1, Listed DEF Counted
<1> HIDE DEF O
<1>3. \A g \in ToSet(s.refs) \cap gone : s.count[g] > 0
  BY <1>1, <1>2, OneIs
<1>4. /\ r \in FrameStates /\ Tidy(r) /\ r.fdec = s.fdec /\ r.made = s.made
      /\ IsInjective(r.refs) /\ ToSet(r.refs) = ToSet(s.refs) \ gone /\ Len(r.refs) <= Len(s.refs)
      /\ \A g \in Frames : r.count[g] = s.count[g] - One(g, ToSet(s.refs) \cap gone)
  BY <1>2, <1>3, WithoutIs
<1> HIDE DEF r
<1>5. \A g \in Frames : One(g, ToSet(s.refs)) - One(g, ToSet(s.refs) \cap gone) = One(g, ToSet(r.refs))
  BY <1>4 DEF One
<1>6. \A g \in Frames : r.count[g] = O(g) + One(g, {r.fdec}) + One(g, ToSet(r.refs))
  BY <1>1, <1>2, <1>4, <1>5, OneIs
<1>7. Counted(r, c)
  BY <1>2, <1>4, <1>6 DEF Counted, O
<1> QED BY <1>4, <1>7 DEF r

LEMMA ResetIs ==
  ASSUME NEW s, NEW c \in Contexts, Counted(s, c), NEW ty
  PROVE  LET r == Reset(s, ty) IN
         /\ Counted(r, c) /\ r.fdec = s.fdec /\ r.made = s.made /\ Len(r.refs) <= Len(s.refs)
         /\ ToSet(r.refs) \subseteq ToSet(s.refs)
<1>1. CASE ty = "IDR"
  <2> DEFINE z == [s EXCEPT !.refs = Reverse(s.refs)]
  <2>1. Reset(s, ty) = Without(z, ToSet(s.refs))
    BY <1>1 DEF Reset
  <2>2. s \in FrameStates /\ s.refs \in Seq(Frames)
    BY DEF Counted, FrameStates
  <2>3. /\ Reverse(s.refs) \in Seq(Frames) /\ Len(Reverse(s.refs)) = Len(s.refs)
        /\ ToSet(Reverse(s.refs)) = ToSet(s.refs) /\ (IsInjective(s.refs) => IsInjective(Reverse(s.refs)))
    BY <2>2, ListedReverse
  <2>4. /\ z \in FrameStates /\ z.refs = Reverse(s.refs) /\ z.fdec = s.fdec /\ z.made = s.made
        /\ z.count = s.count /\ z.unused = s.unused
    BY <2>2, <2>3 DEF FrameStates
  <2> HIDE DEF z
  <2>5. Tidy(z)
    BY <2>4 DEF Tidy, Counted
  <2>6. Counted(z, c)
    BY <2>3, <2>4, <2>5 DEF Counted
  <2> QED BY <2>1, <2>3, <2>4, <2>6, LeavesOut
<1>2. CASE ty # "IDR"
  <2> DEFINE gone == {f \in ToSet(s.refs) :
                       /\ ty # "B"
                       /\ \/ Pyramid = "strict" /\ bref[f]
                          \/ ty # "BREF" /\ s.open # NoFrame /\ f # s.open}
  <2>1. Reset(s, ty) = Without(s, gone)
    BY <1>2 DEF Reset
  <2> HIDE DEF gone
  <2> QED BY <2>1, LeavesOut
<1> QED BY <1>1, <1>2

-----------------------------------------------------------------------------
(* x264_encoder_encode. *)

Entries == [fdec : Frames, refs : Seq(Frames), mmco : SUBSET Frames, open : Frames \union {NoFrame}]

(* What a call leaves in the current context, whatever else it does. *)
LEMMA CallBecomes ==
  ASSUME RowsTypeOK, RefsInv, NEW s, Counted(s, Current), phase' = Current, Becomes(s),
         ToSet(s.refs) \subseteq ToSet(ctx[phase].refs) \union {ctx[phase].fdec},
         Len(s.refs) <= NumRef, s.made <= Threads + coded', s.made <= Threads + NumRef
  PROVE  /\ RefsInv' /\ PoolInv' /\ MadeInv' /\ phase' \in Contexts
         /\ ctx' \in [Contexts -> Entries] /\ count' \in [Frames -> Nat]
         /\ unused' \in Seq(Frames) /\ made' \in Nat
         /\ ctx'[Current].fdec = s.fdec /\ ctx'[Current].refs = s.refs
         /\ \A t \in Contexts \ {Current} : ctx'[t] = ctx[t]
<1> DEFINE c == Current
           e == [fdec |-> s.fdec, refs |-> s.refs, mmco |-> s.mmco, open |-> s.open]
<1>1. /\ phase \in Contexts /\ c \in Contexts /\ c # phase /\ phase' \in Contexts
      /\ ctx \in [Contexts -> Entries]
      /\ \A t \in Contexts : Age(t) \in Nat /\ Age(t) <= Threads - 1
      /\ Age(phase) = 0 /\ \A t \in Contexts : Age(t) = 0 => t = phase
      /\ \A t \in Contexts : Age(t)' = IF t = c THEN 0 ELSE Age(t) + 1
  <2>1. phase \in Contexts /\ ctx \in [Contexts -> Entries]
    BY DEF RowsTypeOK, Entries
  <2>2. /\ c \in Contexts /\ c # phase /\ Age(phase) = 0 /\ \A t \in Contexts : Age(t) = 0 => t = phase
    BY <2>1, RowAges
  <2>3. phase' \in Contexts /\ \A t \in Contexts : Age(t)' = IF t = c THEN 0 ELSE Age(t) + 1
    BY <2>1, RowAged
  <2>4. \A t \in Contexts : Age(t) \in Nat /\ Age(t) <= Threads - 1
    <3>1. \A t \in Contexts : Age(t) \in 0 .. Threads - 1
      BY <2>1, RowAges
    <3>2. Threads \in Nat
      BY RowsAssumption
    <3> HIDE DEF c
    <3> QED BY <3>1, <3>2
  <2> QED BY <2>1, <2>2, <2>3, <2>4
<1>2. /\ s \in FrameStates /\ Tidy(s) /\ IsInjective(s.refs) /\ s.fdec \notin ToSet(s.refs)
      /\ s.count \in [Frames -> Int] /\ s.unused \in Seq(Frames) /\ s.made \in Nat
  BY DEF Counted, FrameStates
<1>3. /\ ctx' = [ctx EXCEPT ![c] = e] /\ count' = s.count /\ unused' = s.unused /\ made' = s.made
  BY DEF Becomes
<1>4. e \in Entries /\ e.fdec = s.fdec /\ e.refs = s.refs
  BY <1>2 DEF FrameStates, Entries
<1> HIDE DEF c, e
<1>5. /\ ctx' \in [Contexts -> Entries] /\ ctx'[c] = e /\ \A t \in Contexts \ {c} : ctx'[t] = ctx[t]
  BY <1>1, <1>3, <1>4
<1>6. count' \in [Frames -> Nat]
  <2>1. \A g \in Frames : s.count[g] \in Nat
    BY <1>2 DEF Tidy
  <2> QED BY <1>2, <1>3, <2>1
<1>7. PoolInv'
  <2>1. ASSUME NEW g \in Frames PROVE count'[g] = Cardinality(Holders(g)')
    <3>1. Holders(g)' = HoldersIn(ctx', g)
      BY DEF Holders, HoldersIn
    <3>2. Cardinality(HoldersIn(ctx', g)) =
            Others(ctx', c, g) + One(g, {ctx'[c].fdec}) + One(g, ToSet(ctx'[c].refs))
      BY <1>1, HoldersSplit
    <3>3. Others(ctx', c, g) = Others(ctx, c, g)
      BY <1>1, <1>5, OthersSame
    <3>4. s.count[g] = Others(ctx, c, g) + One(g, {s.fdec}) + One(g, ToSet(s.refs))
      BY DEF Counted, c
    <3> QED BY <1>3, <1>4, <1>5, <3>1, <3>2, <3>3, <3>4
  <2> QED BY <1>2, <1>3, <2>1 DEF PoolInv, Tidy
<1>8. MadeInv'
  BY <1>3 DEF MadeInv
<1>9. RefsInv'
  <2>1. ASSUME NEW t \in Contexts
        PROVE  /\ IsInjective(ctx'[t].refs) /\ Len(ctx'[t].refs) <= NumRef
               /\ ctx'[t].fdec \notin ToSet(ctx'[t].refs)
    <3>1. CASE t = c
      BY <1>2, <1>4, <1>5, <3>1
    <3>2. CASE t # c
      BY <1>5, <3>2 DEF RefsInv
    <3> QED BY <3>1, <3>2
  <2>2. ASSUME NEW t \in Contexts, NEW u \in Contexts, (Age(t) <= Age(u))'
        PROVE  ToSet(ctx'[t].refs) \subseteq ToSet(ctx'[u].refs) \union CodedSince(t, u)'
    <3>1. CodedSince(t, u)' = {ctx'[v].fdec : v \in {w \in Contexts : Age(t)' < Age(w)' /\ Age(w)' <= Age(u)'}}
      BY DEF CodedSince
    <3>2. CASE t = c /\ u = c
      BY <3>2
    <3>3. CASE t = c /\ u # c
      <4>1. ToSet(ctx[phase].refs) \subseteq ToSet(ctx[u].refs) \union CodedSince(phase, u)
        BY <1>1 DEF RefsInv
      <4>2. CodedSince(phase, u) = {ctx[v].fdec : v \in {w \in Contexts : Age(phase) < Age(w) /\ Age(w) <= Age(u)}}
        BY DEF CodedSince
      <4>3. Age(c) = Threads - 1 /\ Age(u) # Threads - 1
        BY <1>1, <3>3, RowAges DEF c
      <4>4. ASSUME NEW w \in Contexts, w # c, Age(w) <= Age(u)
            PROVE  ctx[w].fdec \in CodedSince(t, u)'
        <5>1. Age(t)' = 0 /\ Age(w)' = Age(w) + 1 /\ Age(u)' = Age(u) + 1 /\ ctx'[w] = ctx[w]
          BY <1>1, <1>5, <3>3, <4>4
        <5>2. Age(t)' < Age(w)' /\ Age(w)' <= Age(u)'
          <6>1. Age(w) \in Nat /\ Age(u) \in Nat
            BY <1>1
          <6> QED BY <4>4, <5>1, <6>1
        <5> QED BY <3>1, <5>1, <5>2
      <4>5. CodedSince(phase, u) \subseteq CodedSince(t, u)'
        <5>1. ASSUME NEW w \in Contexts, Age(w) <= Age(u) PROVE w # c
          <6>1. Age(u) \in Nat /\ Age(u) <= Threads - 1 /\ Threads \in Int
            BY <1>1, RowsAssumption
          <6> QED BY <4>3, <5>1, <6>1
        <5> QED BY <4>2, <4>4, <5>1
      <4>6. ctx[phase].fdec \in CodedSince(t, u)'
        BY <1>1, <4>4
      <4>7. ToSet(ctx'[t].refs) \subseteq ToSet(ctx[phase].refs) \union {ctx[phase].fdec}
        BY <1>4, <1>5, <3>3
      <4> QED BY <1>5, <3>3, <4>1, <4>5, <4>6, <4>7
    <3>4. CASE t # c /\ u # c
      <4>1. Age(t)' = Age(t) + 1 /\ Age(u)' = Age(u) + 1 /\ Age(t) \in Nat /\ Age(u) \in Nat
        BY <1>1, <3>4
      <4>2. Age(t) <= Age(u)
        BY <2>2, <4>1
      <4>3. ToSet(ctx[t].refs) \subseteq ToSet(ctx[u].refs) \union CodedSince(t, u)
        BY <4>2 DEF RefsInv
      <4>4. CodedSince(t, u) = {ctx[v].fdec : v \in {w \in Contexts : Age(t) < Age(w) /\ Age(w) <= Age(u)}}
        BY DEF CodedSince
      <4>5. ASSUME NEW w \in Contexts, Age(t) < Age(w), Age(w) <= Age(u)
            PROVE  ctx[w].fdec \in CodedSince(t, u)'
        <5>1. w # c
          <6>1. Age(c) = Threads - 1 /\ Age(u) # Threads - 1
            BY <1>1, <3>4, RowAges DEF c
          <6>2. Age(u) \in Nat /\ Age(u) <= Threads - 1 /\ Threads \in Int
            BY <1>1, RowsAssumption
          <6> QED BY <4>5, <6>1, <6>2
        <5>2. Age(w)' = Age(w) + 1 /\ Age(w) \in Nat /\ ctx'[w] = ctx[w]
          BY <1>1, <1>5, <5>1
        <5>3. Age(t)' < Age(w)' /\ Age(w)' <= Age(u)'
          BY <4>1, <4>5, <5>2
        <5> QED BY <3>1, <5>2, <5>3
      <4>6. CodedSince(t, u) \subseteq CodedSince(t, u)'
        BY <4>4, <4>5
      <4> QED BY <1>5, <3>4, <4>3, <4>6
    <3>5. CASE t # c /\ u = c
      <4>1. Age(t)' = Age(t) + 1 /\ Age(u)' = 0 /\ Age(t) \in Nat
        BY <1>1, <3>5
      <4> QED BY <2>2, <4>1
    <3> QED BY <3>2, <3>3, <3>4, <3>5
  <2> QED BY <2>1, <2>2 DEF RefsInv
<1> QED BY <1>1, <1>2, <1>3, <1>4, <1>5, <1>6, <1>7, <1>8, <1>9 DEF c

(* The steps, one by one. *)
LEMMA OnlySyncsStep ==
  ASSUME RowsIInv, CallOnlySyncs
  PROVE  RowsIInv'
<1> DEFINE c == Current
           s == Sync(ctx[c], ctx[phase])
<1>1. /\ RowsTypeOK /\ RefsInv /\ MadeInv /\ JobInv /\ LinesInv /\ caller = "idle"
      /\ phase \in Contexts /\ calls \in 0 .. MaxCalls /\ coded \in 0 .. calls
  BY DEF RowsIInv, CallOnlySyncs, EncodeCall, RowsTypeOK
<1>2. c \in Contexts /\ c # phase /\ phase' = c /\ calls < MaxCalls /\ calls' = calls + 1 /\ Becomes(s)
      /\ UNCHANGED <<kept, bref, picture, lines, job, coded, fails>>
      /\ \/ coded = 0 /\ caller' = "idle" /\ UNCHANGED empty
         \/ caller' = "wait" /\ empty' = TRUE
  BY <1>1, RowAges DEF CallOnlySyncs, EncodeCall
<1>3. Counted(s, c) /\ s.made = made /\ s.fdec = ctx[phase].fdec /\ s.refs = ctx[phase].refs
  BY <1>1, <1>2, SyncIs
<1> HIDE DEF s
<1>4. /\ RefsInv' /\ PoolInv' /\ MadeInv' /\ phase' \in Contexts
      /\ ctx' \in [Contexts -> Entries] /\ count' \in [Frames -> Nat]
      /\ unused' \in Seq(Frames) /\ made' \in Nat
      /\ \A t \in Contexts \ {c} : ctx'[t] = ctx[t]
  <2>1. Len(s.refs) <= NumRef /\ s.made <= Threads + coded' /\ s.made <= Threads + NumRef
    BY <1>1, <1>2, <1>3 DEF RefsInv, MadeInv
  <2>2. ToSet(s.refs) \subseteq ToSet(ctx[phase].refs) \union {ctx[phase].fdec}
    BY <1>3
  <2> QED BY <1>1, <1>2, <1>3, <2>1, <2>2, CallBecomes
<1>5. job[c].state = "none"
  BY <1>1 DEF JobInv, Oldest
<1> HIDE DEF c
<1>6. RowsTypeOK'
  <2>1. calls' \in 0 .. MaxCalls /\ coded' \in 0 .. calls' /\ MaxCalls \in Nat
    BY <1>1, <1>2, RowsAssumption
  <2>2. empty' \in BOOLEAN /\ caller' \in {"idle", "wait", "closing", "closed"}
    BY <1>1, <1>2 DEF RowsTypeOK
  <2> QED BY <1>1, <1>2, <1>4, <2>1, <2>2 DEF RowsTypeOK, Entries
<1>7. JobInv'
  <2>1. \A t \in Contexts : job'[t].state # "none" => t # c /\ ctx'[t] = ctx[t]
    BY <1>2, <1>4, <1>5
  <2>2. caller' = "idle" => job'[Oldest'].state = "none"
    <3>1. Oldest' \in Contexts
      <4>1. \A p \in Contexts : (p + 1) % Threads \in Contexts
        BY RowsAssumption DEF Contexts
      <4>2. Oldest' = (phase' + 1) % Threads
        BY DEF Oldest, Current
      <4> QED BY <1>4, <4>1, <4>2
    <3> QED BY <1>1, <1>2, <3>1 DEF JobInv
  <2> QED BY <1>1, <1>2, <2>1, <2>2 DEF JobInv
<1>8. LinesInv'
  BY <1>1, <1>2 DEF LinesInv
<1>9. caller' # "closed"
  BY <1>2
<1> QED BY <1>4, <1>6, <1>7, <1>8, <1>9 DEF RowsIInv

LEMMA StartsStep ==
  ASSUME RowsIInv, CallStarts
  PROVE  RowsIInv'
<1> DEFINE c == Current
           u == Update(Sync(ctx[c], ctx[phase]))
<1>1. /\ RowsTypeOK /\ RefsInv /\ MadeInv /\ JobInv /\ LinesInv /\ caller = "idle"
      /\ phase \in Contexts /\ calls \in 0 .. MaxCalls /\ coded \in 0 .. calls
      /\ kept \in [Frames -> BOOLEAN] /\ bref \in [Frames -> BOOLEAN] /\ picture \in [Frames -> Nat]
      /\ lines \in [Frames -> Int]
  BY DEF RowsIInv, CallStarts, EncodeCall, RowsTypeOK
<1>2. c \in Contexts /\ c # phase /\ phase' = c /\ calls < MaxCalls /\ calls' = calls + 1
      /\ caller' = "wait" /\ coded' = coded + 1 /\ UNCHANGED <<empty, fails>>
  BY <1>1, RowAges DEF CallStarts, EncodeCall
<1>3. PICK ty \in Types, key \in BOOLEAN :
        LET s == Reset(u, ty)
        IN /\ ty = "IDR" \/ u.refs # <<>>
           /\ \E m \in MayMark(s, ty) :
                Becomes([s EXCEPT !.mmco = m, !.open = OpenAt(s, ty, key)])
           /\ lines' = NoLines(s.fdec)
           /\ kept' = [kept EXCEPT ![s.fdec] = ty # "B"]
           /\ bref' = [bref EXCEPT ![s.fdec] = ty = "BREF"]
           /\ picture' = [picture EXCEPT ![s.fdec] = coded']
           /\ LET fref == IF ty \in {"IDR", "I"} THEN {} ELSE ToSet(s.refs)
              IN job' = [job EXCEPT ![c] =
                   [state |-> "run", row |-> 0, fdec |-> s.fdec, fref |-> fref,
                    needs |-> {<<f, picture'[f]>> : f \in fref \union {s.fdec}}]]
  BY DEF CallStarts
<1> DEFINE s    == Reset(u, ty)
           fd   == s.fdec
           fref == IF ty \in {"IDR", "I"} THEN {} ELSE ToSet(s.refs)
           new  == [state |-> "run", row |-> 0, fdec |-> fd, fref |-> fref,
                    needs |-> {<<f, picture'[f]>> : f \in fref \union {fd}}]
<1>4. PICK m \in MayMark(s, ty) : Becomes([s EXCEPT !.mmco = m, !.open = OpenAt(s, ty, key)])
  BY <1>3
<1>5. /\ lines' = [lines EXCEPT ![fd] = -1]
      /\ kept' = [kept EXCEPT ![fd] = ty # "B"] /\ bref' = [bref EXCEPT ![fd] = ty = "BREF"]
      /\ picture' = [picture EXCEPT ![fd] = coded'] /\ job' = [job EXCEPT ![c] = new]
  BY <1>3 DEF NoLines
<1>6. /\ Counted(u, c) /\ Others(ctx, c, u.fdec) = 0
      /\ u.made <= Threads + coded' /\ u.made <= Threads + NumRef /\ Len(u.refs) <= NumRef
      /\ ToSet(u.refs) \subseteq ToSet(ctx[phase].refs) \union {ctx[phase].fdec}
  <2> DEFINE z == Sync(ctx[c], ctx[phase])
  <2>1. Counted(z, c) /\ z.made = made /\ z.fdec = ctx[phase].fdec /\ z.refs = ctx[phase].refs
    BY <1>1, <1>2, SyncIs
  <2> HIDE DEF z
  <2>2. /\ Counted(Update(z), c) /\ Others(ctx, c, Update(z).fdec) = 0
        /\ Update(z).made <= Threads + coded + 1 /\ Update(z).made <= Threads + NumRef
        /\ Len(Update(z).refs) <= NumRef
        /\ ToSet(Update(z).refs) \subseteq ToSet(ctx[phase].refs) \union {ctx[phase].fdec}
    BY <1>1, <1>2, <2>1, UpdateIs
  <2>3. Threads + coded + 1 = Threads + coded'
    BY <1>1, <1>2, RowsAssumption
  <2> QED BY <2>2, <2>3 DEF z
<1> HIDE DEF u
<1>7. /\ Counted(s, c) /\ fd = u.fdec /\ s.made = u.made /\ Len(s.refs) <= Len(u.refs)
      /\ ToSet(s.refs) \subseteq ToSet(u.refs)
  BY <1>2, <1>6, ResetIs
<1> HIDE DEF s
<1>8. /\ s \in FrameStates /\ fd \in Frames /\ s.refs \in Seq(Frames) /\ ToSet(s.refs) \subseteq Frames
      /\ fd \notin ToSet(s.refs) /\ s.open \in Frames \union {NoFrame}
  <2>1. s \in FrameStates /\ fd \in Frames /\ s.refs \in Seq(Frames)
        /\ fd \notin ToSet(s.refs) /\ s.open \in Frames \union {NoFrame}
    BY <1>7 DEF Counted, FrameStates
  <2> QED BY <2>1, Listed
<1> DEFINE o == OpenAt(s, ty, key)
           r == [s EXCEPT !.mmco = m, !.open = o]
<1>9. m \in SUBSET Frames /\ o \in Frames \union {NoFrame}
  <2>1. m \in SUBSET Frames
    BY <1>8 DEF MayMark
  <2>2. o \in Frames \union {NoFrame}
    BY <1>8 DEF OpenAt, NoFrame, Types
  <2> QED BY <2>1, <2>2
<1> HIDE DEF o
<1>10. /\ r \in FrameStates /\ r.fdec = fd /\ r.refs = s.refs /\ r.made = s.made
       /\ r.count = s.count /\ r.unused = s.unused
  BY <1>8, <1>9 DEF FrameStates
<1>11. Becomes(r)
  BY <1>4 DEF o
<1> HIDE DEF r
<1>12. Counted(r, c)
  <2>1. Tidy(r)
    BY <1>7, <1>10 DEF Counted, Tidy
  <2> QED BY <1>7, <1>10, <2>1 DEF Counted
<1>13. /\ RefsInv' /\ PoolInv' /\ MadeInv' /\ phase' \in Contexts
       /\ ctx' \in [Contexts -> Entries] /\ count' \in [Frames -> Nat]
       /\ unused' \in Seq(Frames) /\ made' \in Nat
       /\ ctx'[c].fdec = fd /\ ctx'[c].refs = s.refs
       /\ \A t \in Contexts \ {c} : ctx'[t] = ctx[t]
  <2>1. Len(r.refs) <= NumRef
    <3>1. Len(u.refs) \in Nat /\ Len(s.refs) \in Nat /\ NumRef \in Nat
      <4>1. u.refs \in Seq(Frames)
        BY <1>6 DEF Counted, FrameStates
      <4> QED BY <1>8, <4>1, LenProperties, RowsAssumption
    <3> QED BY <1>6, <1>7, <1>10, <3>1
  <2>2. r.made <= Threads + coded' /\ r.made <= Threads + NumRef
    BY <1>6, <1>7, <1>10
  <2>3. ToSet(r.refs) \subseteq ToSet(ctx[phase].refs) \union {ctx[phase].fdec}
    BY <1>6, <1>7, <1>10
  <2> QED BY <1>1, <1>2, <1>10, <1>11, <1>12, <2>1, <2>2, <2>3, CallBecomes
<1>14. /\ job[c].state = "none"
       /\ \A t \in Contexts \ {c} : ctx[t].fdec # fd /\ fd \notin ToSet(ctx[t].refs)
  <2>1. job[c].state = "none"
    BY <1>1 DEF JobInv, Oldest
  <2>2. \A t \in Contexts \ {c} : fd = ctx[t].fdec \/ fd \in ToSet(ctx[t].refs) => Others(ctx, c, fd) > 0
    BY <1>2, OthersHold
  <2>3. ~(Others(ctx, c, fd) > 0)
    BY <1>6, <1>7
  <2> QED BY <2>1, <2>2, <2>3
<1> HIDE DEF fd, fref, c
<1>15. /\ job \in [Contexts -> [state : {"none", "run", "done", "failed"}, row : 0 .. Rows,
                          fdec : Frames \union {NoFrame}, fref : SUBSET Frames,
                          needs : SUBSET (Frames \X Nat)]]
       /\ coded' \in Nat /\ fref \in SUBSET Frames /\ fref \subseteq ToSet(s.refs) /\ Rows \in Nat \ {0}
       /\ picture' \in [Frames -> Nat]
  <2>1. coded' \in Nat
    BY <1>1, <1>2
  <2> QED BY <1>1, <1>5, <1>8, <2>1, RowsAssumption DEF RowsTypeOK, fref
<1>16. /\ new.state = "run" /\ new.row = 0 /\ new.fdec = fd /\ new.fref = fref
       /\ new.needs = {<<f, picture'[f]>> : f \in fref \union {fd}}
       /\ new \in [state : {"none", "run", "done", "failed"}, row : 0 .. Rows,
                   fdec : Frames \union {NoFrame}, fref : SUBSET Frames,
                   needs : SUBSET (Frames \X Nat)]
  <2> DEFINE n == {<<f, picture'[f]>> : f \in fref \union {fd}}
  <2>1. n \in SUBSET (Frames \X Nat)
    BY <1>8, <1>15
  <2> HIDE DEF n
  <2>2. 0 \in 0 .. Rows
    BY <1>15
  <2>3. [state |-> "run", row |-> 0, fdec |-> fd, fref |-> fref, needs |-> n]
          \in [state : {"none", "run", "done", "failed"}, row : 0 .. Rows,
               fdec : Frames \union {NoFrame}, fref : SUBSET Frames,
               needs : SUBSET (Frames \X Nat)]
    BY <1>8, <1>15, <2>1, <2>2
  <2> QED BY <2>3 DEF n
<1> HIDE DEF new
<1>17. /\ job'[c] = new /\ \A t \in Contexts \ {c} : job'[t] = job[t]
       /\ \A f \in Frames : /\ f # fd => lines'[f] = lines[f] /\ picture'[f] = picture[f]
                            /\ lines'[fd] = -1
  BY <1>1, <1>2, <1>5, <1>8, <1>15
<1>18. RowsTypeOK'
  <2>1. calls' \in 0 .. MaxCalls /\ coded' \in 0 .. calls'
    BY <1>1, <1>2, RowsAssumption
  <2>2. /\ kept' \in [Frames -> BOOLEAN] /\ bref' \in [Frames -> BOOLEAN] /\ lines' \in [Frames -> Int]
    <3>1. (ty # "B") \in BOOLEAN /\ (ty = "BREF") \in BOOLEAN
      OBVIOUS
    <3>2. kept' \in [Frames -> BOOLEAN] /\ bref' \in [Frames -> BOOLEAN]
      BY <1>1, <1>5, <3>1, Zenon
    <3>3. lines' \in [Frames -> Int]
      <4>1. -1 \in Int /\ lines \in [Frames -> Int] /\ lines' = [lines EXCEPT ![fd] = -1]
        BY <1>1, <1>5
      <4> QED BY <4>1
    <3> QED BY <3>2, <3>3
  <2>3. job' \in [Contexts -> [state : {"none", "run", "done", "failed"}, row : 0 .. Rows,
                          fdec : Frames \union {NoFrame}, fref : SUBSET Frames,
                          needs : SUBSET (Frames \X Nat)]]
    BY <1>5, <1>15, <1>16
  <2>4. empty' \in BOOLEAN /\ caller' \in {"idle", "wait", "closing", "closed"} /\ fails' \in 0 .. MaxFails
    BY <1>1, <1>2 DEF RowsTypeOK
  <2> QED BY <1>13, <1>15, <2>1, <2>2, <2>3, <2>4 DEF RowsTypeOK, Entries
<1>19. ASSUME NEW t \in Contexts \ {c}, job[t].state # "none"
       PROVE  /\ job[t].fdec = ctx[t].fdec /\ job[t].fdec # fd /\ job[t].fdec \in Frames
              /\ \A f \in job[t].fref : f # fd /\ f \in Frames
              /\ \A n \in job[t].needs : /\ n[1] \in job[t].fref \union {job[t].fdec}
                                         /\ picture[n[1]] = n[2]
                                         /\ n[1] # fd /\ n[1] \in Frames
  <2>1. /\ job[t].fdec = ctx[t].fdec /\ job[t].fref \subseteq ToSet(ctx[t].refs)
        /\ \A n \in job[t].needs : n[1] \in job[t].fref \union {job[t].fdec} /\ picture[n[1]] = n[2]
    BY <1>1, <1>19 DEF JobInv
  <2>2. ctx[t].fdec \in Frames /\ job[t].fref \subseteq Frames
    BY <1>1, <1>15 DEF RowsTypeOK
  <2> QED BY <1>14, <2>1, <2>2
<1>20. JobInv'
  <2>1. ASSUME NEW t \in Contexts, job'[t].state # "none"
        PROVE  /\ job'[t].fdec = ctx'[t].fdec /\ job'[t].fref \subseteq ToSet(ctx'[t].refs)
               /\ \A n \in job'[t].needs : n[1] \in job'[t].fref \union {job'[t].fdec} /\ picture'[n[1]] = n[2]
               /\ \A w \in Contexts : job'[w].state # "none" /\ job'[w].fdec = job'[t].fdec => w = t
               /\ job'[t].state # "done" => job'[t].row < Rows
    <3>1. CASE t = c
      <4>1. \A w \in Contexts : job'[w].state # "none" /\ job'[w].fdec = job'[t].fdec => w = t
        BY <1>16, <1>17, <1>19, <3>1
      <4>2. job'[t].row < Rows
        BY <1>15, <1>16, <1>17, <3>1
      <4>3. \A n \in job'[t].needs : n[1] \in job'[t].fref \union {job'[t].fdec} /\ picture'[n[1]] = n[2]
        BY <1>16, <1>17, <3>1
      <4> QED BY <1>13, <1>15, <1>16, <1>17, <3>1, <4>1, <4>2, <4>3
    <3>2. CASE t # c
      <4>1. job'[t] = job[t] /\ ctx'[t] = ctx[t] /\ job[t].state # "none"
        BY <1>13, <1>17, <2>1, <3>2
      <4>2. \A n \in job'[t].needs : n[1] \in job'[t].fref \union {job'[t].fdec} /\ picture'[n[1]] = n[2]
        BY <1>17, <1>19, <3>2, <4>1
      <4>3. \A w \in Contexts : job'[w].state # "none" /\ job'[w].fdec = job'[t].fdec => w = t
        <5>1. ASSUME NEW w \in Contexts, job'[w].state # "none", job'[w].fdec = job'[t].fdec PROVE w = t
          <6>1. CASE w = c
            BY <1>16, <1>17, <1>19, <3>2, <4>1, <5>1, <6>1
          <6>2. CASE w # c
            BY <1>1, <1>17, <4>1, <5>1, <6>2 DEF JobInv
          <6> QED BY <6>1, <6>2
        <5> QED BY <5>1
      <4> QED BY <1>1, <4>1, <4>2, <4>3 DEF JobInv
    <3> QED BY <3>1, <3>2
  <2>2. coded' # 0 /\ caller' # "idle"
    BY <1>1, <1>2
  <2> QED BY <2>1, <2>2 DEF JobInv
<1>21. LinesInv'
  <2>1. \A f \in Frames : lines'[f] <= LinesBefore(Rows)
    <3> TAKE f \in Frames
    <3>1. LinesBefore(Rows) \in Nat
      BY <1>15 DEF LinesBefore
    <3>2. CASE f = fd
      BY <1>17, <3>1, <3>2
    <3>3. CASE f # fd
      BY <1>1, <1>17, <3>3 DEF LinesInv
    <3> QED BY <3>2, <3>3
  <2>2. ASSUME NEW t \in Contexts, job'[t].state # "none"
        PROVE  /\ \/ lines'[job'[t].fdec] = -1
                  \/ job'[t].row > 0 /\ lines'[job'[t].fdec] <= LinesBefore(job'[t].row)
               /\ \A f \in job'[t].fref : job'[t].row > 0 => lines'[f] >= Needed(job'[t].row - 1)
    <3>1. CASE t = c
      BY <1>8, <1>16, <1>17, <3>1
    <3>2. CASE t # c
      <4>1. job'[t] = job[t] /\ job[t].state # "none"
        BY <1>17, <2>2, <3>2
      <4>2. lines'[job[t].fdec] = lines[job[t].fdec] /\ \A f \in job[t].fref : lines'[f] = lines[f]
        BY <1>17, <1>19, <3>2, <4>1
      <4> QED BY <1>1, <4>1, <4>2 DEF LinesInv
    <3> QED BY <3>1, <3>2
  <2> QED BY <2>1, <2>2 DEF LinesInv
<1> QED BY <1>2, <1>13, <1>18, <1>20, <1>21 DEF RowsIInv

(* The caller's other steps, and the threads', leave the frames and lists.   *)
LEMMA PoolKept ==
  ASSUME RowsIInv, UNCHANGED frameVars, coded' = coded
  PROVE  /\ RefsInv' /\ MadeInv' /\ Oldest' = Oldest
         /\ (caller = "closed" <=> caller' = "closed") =>
               IF caller' = "closed" THEN PoolExact' ELSE PoolInv'
<1>1. /\ phase' = phase /\ ctx' = ctx /\ count' = count /\ unused' = unused /\ made' = made
  BY DEF frameVars
<1>2. \A t, u \in Contexts : Age(t)' = Age(t) /\ CodedSince(t, u)' = CodedSince(t, u)
  BY <1>1 DEF Age, CodedSince
<1>3. \A f \in Frames : Holders(f)' = Holders(f)
  BY <1>1 DEF Holders
<1>4. RefsInv'
  BY <1>1, <1>2 DEF RowsIInv, RefsInv
<1>5. MadeInv' /\ Oldest' = Oldest
  BY <1>1 DEF RowsIInv, MadeInv, Oldest, Current
<1>6. ASSUME caller = "closed", caller' = "closed" PROVE PoolExact'
  BY <1>1, <1>3, <1>6 DEF RowsIInv, PoolExact
<1>7. ASSUME caller # "closed", caller' # "closed" PROVE PoolInv'
  BY <1>1, <1>3, <1>7 DEF RowsIInv, PoolInv
<1> QED BY <1>4, <1>5, <1>6, <1>7

LEMMA EndsStep ==
  ASSUME RowsIInv, CallEnds
  PROVE  RowsIInv'
<1>1. /\ caller = "wait" /\ caller' = "idle" /\ job' = [job EXCEPT ![Oldest] = NoJob]
      /\ UNCHANGED <<frameVars, lines, calls, coded, fails>>
      /\ RowsTypeOK /\ JobInv /\ LinesInv
  BY DEF CallEnds, RowsIInv
<1>2. UNCHANGED <<phase, ctx, count, unused, made, kept, bref, picture, empty>>
  BY <1>1 DEF frameVars
<1>3. /\ RefsInv' /\ MadeInv' /\ Oldest' = Oldest /\ PoolInv'
  BY <1>1, PoolKept
<1>4. Oldest \in Contexts
  BY <1>1, RowAges DEF RowsTypeOK, Oldest
<1>5. /\ job'[Oldest] = NoJob /\ \A t \in Contexts \ {Oldest} : job'[t] = job[t]
  BY <1>1, <1>4 DEF RowsTypeOK
<1>6. RowsTypeOK'
  <2>1. NoJob \in [state : {"none", "run", "done", "failed"}, row : 0 .. Rows,
                   fdec : Frames \union {NoFrame}, fref : SUBSET Frames,
                   needs : SUBSET (Frames \X Nat)]
    BY RowsAssumption DEF NoJob
  <2>2. job' \in [Contexts -> [state : {"none", "run", "done", "failed"}, row : 0 .. Rows,
                          fdec : Frames \union {NoFrame}, fref : SUBSET Frames,
                          needs : SUBSET (Frames \X Nat)]]
    BY <1>1, <2>1 DEF RowsTypeOK
  <2> QED BY <1>1, <1>2, <2>2 DEF RowsTypeOK
<1>7. \A t \in Contexts : job'[t].state # "none" => t # Oldest /\ job'[t] = job[t]
  BY <1>5 DEF NoJob
<1>8. JobInv'
  <2>1. job'[Oldest'].state = "none"
    BY <1>3, <1>5 DEF NoJob
  <2>2. coded = 0 => \A t \in Contexts : job'[t].state = "none"
    BY <1>1, <1>5 DEF JobInv, NoJob
  <2> QED BY <1>1, <1>2, <1>7, <2>1, <2>2 DEF JobInv
<1>9. LinesInv'
  BY <1>1, <1>7 DEF LinesInv
<1> QED BY <1>1, <1>3, <1>6, <1>8, <1>9 DEF RowsIInv

LEMMA RowStep ==
  ASSUME RowsIInv, NEW t \in Contexts, EncodeRow(t)
  PROVE  RowsIInv'
<1> DEFINE j == job[t]
           y == j.row + 1
           fd == j.fdec
<1>1. /\ j.state = "run" /\ \A f \in j.fref : lines[f] >= Needed(j.row)
      /\ job' = [job EXCEPT ![t].row = y, ![t].state = IF y = Rows THEN "done" ELSE "run"]
      /\ lines' = IF kept[fd] THEN [lines EXCEPT ![fd] = LinesBefore(y)] ELSE lines
      /\ UNCHANGED <<frameVars, caller, calls, coded, fails>>
      /\ RowsTypeOK /\ JobInv /\ LinesInv
  BY DEF EncodeRow, RowsIInv
<1>2. UNCHANGED <<phase, ctx, count, unused, made, kept, bref, picture, empty>>
  BY <1>1 DEF frameVars
<1>3. /\ RefsInv' /\ MadeInv' /\ Oldest' = Oldest
      /\ IF caller' = "closed" THEN PoolExact' ELSE PoolInv'
  BY <1>1, PoolKept
<1>4. /\ \A v \in Contexts : /\ job[v].row \in 0 .. Rows
                             /\ job[v].fref \subseteq Frames
      /\ lines \in [Frames -> Int] /\ Rows \in Nat \ {0} /\ MvRange \in Nat
  BY <1>1, RowsAssumption DEF RowsTypeOK
<1>5. /\ fd = ctx[t].fdec /\ fd \in Frames /\ j.row < Rows /\ fd \notin j.fref
  <2>1. fd = ctx[t].fdec /\ j.row < Rows /\ j.fref \subseteq ToSet(ctx[t].refs)
    BY <1>1 DEF JobInv
  <2>2. ctx[t].fdec \in Frames /\ ctx[t].fdec \notin ToSet(ctx[t].refs)
    BY <1>1 DEF RowsTypeOK, RefsInv, RowsIInv
  <2> QED BY <2>1, <2>2
<1>6. /\ y \in 1 .. Rows /\ j.row \in Nat /\ y - 1 = j.row
  BY <1>4, <1>5
<1>7. /\ job'[t].row = y /\ job'[t].state = (IF y = Rows THEN "done" ELSE "run")
      /\ job'[t].fdec = fd /\ job'[t].fref = j.fref /\ job'[t].needs = j.needs
      /\ \A v \in Contexts \ {t} : job'[v] = job[v]
  BY <1>1 DEF RowsTypeOK
<1> HIDE DEF j, y, fd
<1>8. LinesBefore(y) \in Int /\ LinesBefore(y) <= LinesBefore(Rows)
      /\ (j.row > 0 => LinesBefore(j.row) <= LinesBefore(y) /\ LinesBefore(j.row) \in Int)
      /\ LinesBefore(Rows) \in Int
  BY <1>4, <1>5, <1>6 DEF LinesBefore
<1>9. \A f \in Frames : /\ f # fd => lines'[f] = lines[f]
                        /\ \/ lines'[fd] = lines[fd]
                           \/ lines'[fd] = LinesBefore(y)
  BY <1>1, <1>4, <1>5
<1>10. \/ lines[fd] = -1
       \/ j.row > 0 /\ lines[fd] <= LinesBefore(j.row)
  BY <1>1 DEF LinesInv, j, fd
<1>11. RowsTypeOK'
  <2>1. job' \in [Contexts -> [state : {"none", "run", "done", "failed"}, row : 0 .. Rows,
                          fdec : Frames \union {NoFrame}, fref : SUBSET Frames,
                          needs : SUBSET (Frames \X Nat)]]
    <3> DEFINE n == IF y = Rows THEN "done" ELSE "run"
    <3>1. y \in 0 .. Rows
      BY <1>4, <1>6
    <3>2. job' = [job EXCEPT ![t] = [job[t] EXCEPT !.row = y, !.state = n]]
      BY <1>1 DEF y, j
    <3>3. n \in {"none", "run", "done", "failed"}
      OBVIOUS
    <3> HIDE DEF n
    <3> DEFINE e == [job[t] EXCEPT !.row = y, !.state = n]
    <3>4. e \in [state : {"none", "run", "done", "failed"}, row : 0 .. Rows,
                fdec : Frames \union {NoFrame}, fref : SUBSET Frames,
                needs : SUBSET (Frames \X Nat)]
      <4>1. job[t] \in [state : {"none", "run", "done", "failed"}, row : 0 .. Rows,
                fdec : Frames \union {NoFrame}, fref : SUBSET Frames,
                needs : SUBSET (Frames \X Nat)]
        BY <1>1 DEF RowsTypeOK
      <4> QED BY <3>1, <3>3, <4>1
    <3>5. job' = [job EXCEPT ![t] = e]
      BY <3>2
    <3> HIDE DEF e
    <3> QED BY <1>1, <3>4, <3>5 DEF RowsTypeOK
  <2>2. lines' \in [Frames -> Int]
    BY <1>1, <1>4, <1>8
  <2> QED BY <1>1, <1>2, <2>1, <2>2 DEF RowsTypeOK
<1>12. \A v \in Contexts : /\ job'[v].fdec = job[v].fdec /\ job'[v].fref = job[v].fref
                           /\ job'[v].needs = job[v].needs
                           /\ (job'[v].state = "none" <=> job[v].state = "none")
  <2> TAKE v \in Contexts
  <2>1. CASE v = t
    BY <1>1, <1>7, <2>1 DEF j, fd
  <2>2. CASE v # t
    BY <1>7, <2>2
  <2> QED BY <2>1, <2>2
<1>13. JobInv'
  <2>1. \A v \in Contexts : job'[v].state \notin {"none", "done"} => job'[v].row < Rows
    <3> TAKE v \in Contexts
    <3>1. CASE v = t
      BY <1>4, <1>6, <1>7, <3>1
    <3>2. CASE v # t
      BY <1>1, <1>7, <3>2 DEF JobInv
    <3> QED BY <3>1, <3>2
  <2>2. ASSUME NEW v \in Contexts, job'[v].state # "none"
        PROVE  /\ job'[v].fdec = ctx'[v].fdec /\ job'[v].fref \subseteq ToSet(ctx'[v].refs)
               /\ \A n \in job'[v].needs : n[1] \in job'[v].fref \union {job'[v].fdec} /\ picture'[n[1]] = n[2]
               /\ \A w \in Contexts : job'[w].state # "none" /\ job'[w].fdec = job'[v].fdec => w = v
    <3>1. job[v].state # "none"
      BY <1>12, <2>2
    <3>2. /\ job[v].fdec = ctx[v].fdec /\ job[v].fref \subseteq ToSet(ctx[v].refs)
          /\ \A n \in job[v].needs : n[1] \in job[v].fref \union {job[v].fdec} /\ picture[n[1]] = n[2]
          /\ \A w \in Contexts : job[w].state # "none" /\ job[w].fdec = job[v].fdec => w = v
      BY <1>1, <3>1 DEF JobInv
    <3> QED BY <1>2, <1>12, <3>2
  <2>3. caller' = "idle" => job'[Oldest'].state = "none"
    <3>1. Oldest \in Contexts
      BY <1>1, RowAges DEF RowsTypeOK, Oldest
    <3> QED BY <1>1, <1>3, <1>12, <3>1 DEF JobInv
  <2>4. coded' = 0 => \A v \in Contexts : job'[v].state = "none"
    BY <1>1, <1>12 DEF JobInv
  <2> QED BY <2>1, <2>2, <2>3, <2>4 DEF JobInv
<1>14. LinesInv'
  <2>1. \A f \in Frames : lines'[f] <= LinesBefore(Rows)
    <3> TAKE f \in Frames
    <3>1. lines[f] <= LinesBefore(Rows)
      BY <1>1 DEF LinesInv
    <3> QED BY <1>8, <1>9, <3>1
  <2>2. ASSUME NEW f \in Frames, NEW k \in Nat, lines[f] >= Needed(k) PROVE lines'[f] >= Needed(k)
    <3>1. Needed(k) \in Nat
      BY <1>4 DEF Needed
    <3>2. CASE f # fd
      BY <1>9, <2>2, <3>2
    <3>3. CASE f = fd
      <4>1. lines[fd] # -1 /\ lines[fd] \in Int
        BY <1>4, <2>2, <3>1, <3>3
      <4>2. lines[fd] <= LinesBefore(y)
        BY <1>8, <1>10, <4>1
      <4> QED BY <1>8, <1>9, <2>2, <3>1, <3>3, <4>1, <4>2
    <3> QED BY <3>2, <3>3
  <2>3. ASSUME NEW v \in Contexts, job'[v].state # "none"
        PROVE  /\ \/ lines'[job'[v].fdec] = -1
                  \/ job'[v].row > 0 /\ lines'[job'[v].fdec] <= LinesBefore(job'[v].row)
               /\ \A f \in job'[v].fref : job'[v].row > 0 => lines'[f] >= Needed(job'[v].row - 1)
    <3>1. CASE v = t
      <4>1. \A f \in j.fref : lines'[f] >= Needed(j.row)
        BY <1>1, <1>4, <1>6, <2>2 DEF j
      <4>2. \/ lines'[fd] = -1
            \/ lines'[fd] <= LinesBefore(y)
        <5>1. lines[fd] \in Int
          BY <1>4, <1>5
        <5> QED BY <1>5, <1>8, <1>9, <1>10, <5>1
      <4> QED BY <1>6, <1>7, <3>1, <4>1, <4>2
    <3>2. CASE v # t
      <4>1. job'[v] = job[v] /\ job[v].state # "none" /\ job[t].state # "none"
        BY <1>1, <1>7, <2>3, <3>2 DEF j
      <4>2. job[v].fdec # fd /\ job[v].fdec \in Frames
        <5>1. job[v].fdec # fd /\ job[v].fdec = ctx[v].fdec
          BY <1>1, <3>2, <4>1 DEF JobInv, fd, j
        <5> QED BY <1>1, <5>1 DEF RowsTypeOK
      <4>3. \/ lines'[job[v].fdec] = -1
            \/ job[v].row > 0 /\ lines'[job[v].fdec] <= LinesBefore(job[v].row)
        BY <1>1, <1>9, <4>1, <4>2 DEF LinesInv
      <4>4. \A f \in job[v].fref : job[v].row > 0 => lines'[f] >= Needed(job[v].row - 1)
        <5>1. job[v].row > 0 => job[v].row - 1 \in Nat
          BY <1>4
        <5> QED BY <1>1, <1>4, <2>2, <4>1, <5>1 DEF LinesInv
      <4> QED BY <4>1, <4>3, <4>4
    <3> QED BY <3>1, <3>2
  <2> QED BY <2>1, <2>3 DEF LinesInv
<1> QED BY <1>3, <1>11, <1>13, <1>14 DEF RowsIInv

LEMMA FailStep ==
  ASSUME RowsIInv, NEW t \in Contexts, Fail(t)
  PROVE  RowsIInv'
<1>1. /\ job[t].state = "run" /\ fails < MaxFails
      /\ job' = [job EXCEPT ![t].state = "failed"] /\ fails' = fails + 1
      /\ UNCHANGED <<frameVars, lines, caller, calls, coded>>
      /\ RowsTypeOK /\ JobInv /\ LinesInv
  BY DEF Fail, RowsIInv
<1>2. UNCHANGED <<phase, ctx, count, unused, made, kept, bref, picture, empty>>
  BY <1>1 DEF frameVars
<1>3. /\ RefsInv' /\ MadeInv' /\ Oldest' = Oldest
      /\ IF caller' = "closed" THEN PoolExact' ELSE PoolInv'
  BY <1>1, PoolKept
<1>4. \A v \in Contexts : /\ job'[v].fdec = job[v].fdec /\ job'[v].fref = job[v].fref
                          /\ job'[v].needs = job[v].needs /\ job'[v].row = job[v].row
                          /\ (job'[v].state = "none" <=> job[v].state = "none")
                          /\ (job'[v].state = "done" <=> job[v].state = "done")
  BY <1>1 DEF RowsTypeOK
<1>5. RowsTypeOK'
  <2>1. fails' \in 0 .. MaxFails
    <3>1. fails \in 0 .. MaxFails /\ MaxFails \in Nat /\ fails < MaxFails /\ fails' = fails + 1
      BY <1>1, RowsAssumption DEF RowsTypeOK
    <3> QED BY <3>1
  <2>2. job' \in [Contexts -> [state : {"none", "run", "done", "failed"}, row : 0 .. Rows,
                          fdec : Frames \union {NoFrame}, fref : SUBSET Frames,
                          needs : SUBSET (Frames \X Nat)]]
    BY <1>1, ZenonT(40) DEF RowsTypeOK
  <2> QED BY <1>1, <1>2, <2>1, <2>2 DEF RowsTypeOK
<1>6. JobInv'
  <2>1. ASSUME NEW v \in Contexts, job'[v].state # "none"
        PROVE  /\ job'[v].fdec = ctx'[v].fdec /\ job'[v].fref \subseteq ToSet(ctx'[v].refs)
               /\ \A n \in job'[v].needs : n[1] \in job'[v].fref \union {job'[v].fdec} /\ picture'[n[1]] = n[2]
               /\ \A w \in Contexts : job'[w].state # "none" /\ job'[w].fdec = job'[v].fdec => w = v
               /\ job'[v].state # "done" => job'[v].row < Rows
    <3>1. job[v].state # "none"
      BY <1>4, <2>1
    <3> QED BY <1>1, <1>2, <1>4, <3>1 DEF JobInv
  <2>2. caller' = "idle" => job'[Oldest'].state = "none"
    <3>1. Oldest \in Contexts
      BY <1>1, RowAges DEF RowsTypeOK, Oldest
    <3> QED BY <1>1, <1>3, <1>4, <3>1 DEF JobInv
  <2>3. coded' = 0 => \A v \in Contexts : job'[v].state = "none"
    BY <1>1, <1>4 DEF JobInv
  <2> QED BY <2>1, <2>2, <2>3 DEF JobInv
<1>7. LinesInv'
  BY <1>1, <1>4 DEF LinesInv
<1> QED BY <1>3, <1>5, <1>6, <1>7 DEF RowsIInv

(* The unused frames are different ones of those made. *)
LEMMA RoomForUnused ==
  ASSUME RowsTypeOK, MadeInv, PoolInv
  PROVE  Len(unused) < Threads + NumRef + 4
<1>1. /\ unused \in Seq(Frames) /\ made \in Nat /\ made <= Threads + NumRef
      /\ Threads \in Nat /\ NumRef \in Nat
  BY RowsAssumption DEF RowsTypeOK, MadeInv
<1>2. /\ Len(unused) \in Nat /\ DOMAIN unused = 1 .. Len(unused)
      /\ \A i \in 1 .. Len(unused) : unused[i] \in 1 .. made
      /\ IsInjective(unused)
  <2>1. Len(unused) \in Nat /\ DOMAIN unused = 1 .. Len(unused) /\ ToSet(unused) = {unused[i] : i \in 1 .. Len(unused)}
    BY <1>1, Listed
  <2>2. ToSet(unused) \subseteq 1 .. made /\ IsInjective(unused)
    BY DEF PoolInv
  <2> QED BY <2>1, <2>2
<1>3. unused \in Injection(1 .. Len(unused), 1 .. made)
  <2>1. unused \in [1 .. Len(unused) -> 1 .. made]
    <3>1. unused = [i \in 1 .. Len(unused) |-> unused[i]]
      BY <1>1, LenProperties
    <3> QED BY <1>2, <3>1
  <2> QED BY <1>2, <2>1 DEF Injection
<1>4. /\ IsFiniteSet(1 .. made) /\ Cardinality(1 .. made) = made
      /\ Cardinality(1 .. Len(unused)) = Len(unused)
  <2>1. 1 \in Int /\ made \in Int /\ Len(unused) \in Int
        /\ (IF 1 > made THEN 0 ELSE made - 1 + 1) = made
        /\ (IF 1 > Len(unused) THEN 0 ELSE Len(unused) - 1 + 1) = Len(unused)
    BY <1>1, <1>2
  <2> QED BY <2>1, FS_Interval
<1>5. Cardinality(1 .. Len(unused)) <= Cardinality(1 .. made)
  BY <1>3, <1>4, FS_Injection
<1> QED BY <1>1, <1>2, <1>4, <1>5

LEMMA CloseFreesStep ==
  ASSUME RowsIInv, CloseFrees
  PROVE  RowsIInv'
<1>1. /\ caller = "closing" /\ caller' = "closed"
      /\ count' = [f \in Frames |-> count[f] - Cardinality(Holders(f))]
      /\ UNCHANGED <<phase, ctx, unused, made, kept, bref, picture, empty,
                     lines, job, calls, coded, fails>>
      /\ RowsTypeOK /\ RefsInv /\ MadeInv /\ JobInv /\ LinesInv /\ PoolInv
  BY DEF CloseFrees, RowsIInv
<1>2. \A f \in Frames : count[f] \in Nat /\ count[f] = Cardinality(Holders(f))
  BY <1>1 DEF RowsTypeOK, PoolInv
<1>3. count' \in [Frames -> Nat] /\ \A f \in Frames : count'[f] = 0
  <2>1. \A f \in Frames : count[f] - Cardinality(Holders(f)) = 0
    BY <1>2
  <2> QED BY <1>1, <2>1
<1>4. \A t, u \in Contexts : Age(t)' = Age(t) /\ CodedSince(t, u)' = CodedSince(t, u)
  BY <1>1 DEF Age, CodedSince
<1>5. RowsTypeOK'
  BY <1>1, <1>3 DEF RowsTypeOK
<1>6. RefsInv'
  BY <1>1, <1>4 DEF RefsInv
<1>7. MadeInv' /\ LinesInv'
  BY <1>1 DEF MadeInv, LinesInv
<1>8. JobInv'
  BY <1>1 DEF JobInv
<1>9. PoolExact'
  BY <1>1, <1>3, RoomForUnused DEF PoolExact, PoolInv
<1> QED BY <1>1, <1>5, <1>6, <1>7, <1>8, <1>9 DEF RowsIInv

LEMMA RowsStutter ==
  ASSUME RowsIInv, Close \/ Terminated \/ UNCHANGED vars
  PROVE  RowsIInv'
<1>1. /\ UNCHANGED <<frameVars, lines, job, calls, coded, fails>>
      /\ caller' = caller \/ (caller = "idle" /\ caller' = "closing")
  BY DEF Close, Terminated, vars
<1>2. UNCHANGED <<phase, ctx, count, unused, made, kept, bref, picture, empty>>
  BY <1>1 DEF frameVars
<1>3. /\ RefsInv' /\ MadeInv' /\ Oldest' = Oldest
      /\ IF caller' = "closed" THEN PoolExact' ELSE PoolInv'
  BY <1>1, PoolKept
<1>4. RowsTypeOK'
  BY <1>1, <1>2 DEF RowsIInv, RowsTypeOK
<1>5. JobInv'
  BY <1>1, <1>2, <1>3 DEF RowsIInv, JobInv
<1>6. LinesInv'
  BY <1>1 DEF RowsIInv, LinesInv
<1> QED BY <1>3, <1>4, <1>5, <1>6 DEF RowsIInv

LEMMA RowsStart == RowsInit => RowsIInv
<1> SUFFICES ASSUME RowsInit PROVE RowsIInv
  OBVIOUS
<1> DEFINE e(t) == [fdec |-> t + 1, refs |-> <<>>, mmco |-> {}, open |-> NoFrame]
<1>1. /\ phase = 0 /\ ctx = [t \in Contexts |-> e(t)]
      /\ count = [f \in Frames |-> IF f <= Threads THEN 1 ELSE 0]
      /\ unused = <<>> /\ made = Threads
      /\ kept = [f \in Frames |-> FALSE] /\ bref = [f \in Frames |-> FALSE]
      /\ lines = [f \in Frames |-> -1] /\ picture = [f \in Frames |-> 0]
      /\ job = [t \in Contexts |-> NoJob]
      /\ empty = FALSE /\ caller = "idle" /\ calls = 0 /\ coded = 0 /\ fails = 0
  BY DEF RowsInit
<1>2. /\ Threads \in Nat \ {0, 1} /\ NumRef \in Nat \ {0} /\ Rows \in Nat \ {0}
      /\ MaxCalls \in Nat /\ MaxFails \in Nat
      /\ Contexts = 0 .. Threads - 1 /\ Frames = 1 .. Threads + MaxCalls /\ NoFrame = 0
      /\ \A t \in Contexts : t + 1 \in Frames
  BY RowsAssumption DEF Contexts, Frames, NoFrame
<1>3. /\ <<>> \in Seq(Frames) /\ ToSet(<<>>) = {} /\ IsInjective(<<>>) /\ Len(<<>>) = 0
  <2>1. <<>> \in Seq(Frames) /\ Len(<<>>) = 0
    OBVIOUS
  <2>2. 1 .. 0 = {}
    OBVIOUS
  <2> DEFINE s == <<>>
  <2>3. s \in Seq(Frames) /\ Len(s) = 0
    BY <2>1
  <2> HIDE DEF s
  <2>4. DOMAIN s = {}
    BY <2>2, <2>3, Listed
  <2>5. ToSet(s) = {} /\ IsInjective(s)
    BY <2>4 DEF ToSet, IsInjective
  <2> QED BY <2>1, <2>5 DEF s
<1>4. \A t \in Contexts : ctx[t].fdec = t + 1 /\ ctx[t].refs = <<>>
  BY <1>1
<1>5. RowsTypeOK
  <2>1. \A t \in Contexts : e(t) \in [fdec : Frames, refs : Seq(Frames), mmco : SUBSET Frames,
                                      open : Frames \union {NoFrame}]
    BY <1>2, <1>3
  <2> HIDE DEF e
  <2>2. ctx \in [Contexts -> [fdec : Frames, refs : Seq(Frames), mmco : SUBSET Frames,
                          open : Frames \union {NoFrame}]]
    BY <1>1, <2>1
  <2>3. NoJob \in [state : {"none", "run", "done", "failed"}, row : 0 .. Rows,
                   fdec : Frames \union {NoFrame}, fref : SUBSET Frames,
                   needs : SUBSET (Frames \X Nat)]
    BY <1>2 DEF NoJob
  <2>4. job \in [Contexts -> [state : {"none", "run", "done", "failed"}, row : 0 .. Rows,
                   fdec : Frames \union {NoFrame}, fref : SUBSET Frames,
                   needs : SUBSET (Frames \X Nat)]]
    BY <1>1, <2>3
  <2>5. /\ kept \in [Frames -> BOOLEAN] /\ bref \in [Frames -> BOOLEAN]
        /\ lines \in [Frames -> Int] /\ picture \in [Frames -> Nat] /\ count \in [Frames -> Nat]
    BY <1>1
  <2>6. /\ phase \in Contexts /\ made \in Nat /\ unused \in Seq(Frames)
        /\ calls \in 0 .. MaxCalls /\ coded \in 0 .. calls /\ fails \in 0 .. MaxFails
        /\ empty \in BOOLEAN /\ caller \in {"idle", "wait", "closing", "closed"}
    <3>1. /\ 0 \in 0 .. Threads - 1 /\ 0 \in 0 .. MaxCalls /\ 0 \in 0 .. 0 /\ 0 \in 0 .. MaxFails
      BY <1>2
    <3>2. phase \in Contexts /\ made \in Nat /\ unused \in Seq(Frames)
      BY <1>1, <1>2, <1>3, <3>1
    <3>3. calls \in 0 .. MaxCalls /\ coded \in 0 .. calls /\ fails \in 0 .. MaxFails
      BY <1>1, <3>1
    <3>4. empty \in BOOLEAN /\ caller \in {"idle", "wait", "closing", "closed"}
      BY <1>1
    <3> QED BY <3>2, <3>3, <3>4
  <2> QED BY <2>2, <2>4, <2>5, <2>6 DEF RowsTypeOK
<1>6. RefsInv
  BY <1>2, <1>3, <1>4 DEF RefsInv
<1>7. MadeInv
  BY <1>1, <1>2 DEF MadeInv
<1>8. JobInv /\ LinesInv
  <2>1. \A t \in Contexts : job[t].state = "none"
    BY <1>1 DEF NoJob
  <2>2. Oldest \in Contexts
    BY <1>5, RowAges DEF RowsTypeOK, Oldest
  <2>3. LinesBefore(Rows) \in Nat
    BY <1>2 DEF LinesBefore
  <2>4. JobInv
    BY <2>1, <2>2 DEF JobInv
  <2>5. \A f \in Frames : lines[f] <= LinesBefore(Rows)
    BY <1>1, <2>3
  <2> QED BY <2>1, <2>4, <2>5 DEF LinesInv
<1>9. PoolInv
  <2>1. \A f \in Frames : count[f] = IF f <= Threads THEN 1 ELSE 0
    BY <1>1
  <2>2. {f \in 1 .. made : count[f] = 0} = {}
    BY <1>1, <1>2, <2>1
  <2>3. \A f \in Frames : count[f] > 0 => f <= made
    BY <1>1, <1>2, <2>1
  <2>4. ASSUME NEW f \in Frames PROVE count[f] = Cardinality(Holders(f))
    <3>1. {t \in Contexts : f \in ToSet(ctx[t].refs)} = {}
      BY <1>3, <1>4
    <3>2. CASE f <= Threads
      <4>1. {t \in Contexts : ctx[t].fdec = f} = {f - 1}
        BY <1>2, <1>4, <3>2
      <4>2. Holders(f) = {<<f - 1, "fdec">>}
        BY <3>1, <4>1 DEF Holders
      <4> QED BY <2>1, <3>2, <4>2, FS_Singleton
    <3>3. CASE ~(f <= Threads)
      <4>1. {t \in Contexts : ctx[t].fdec = f} = {}
        BY <1>2, <1>4, <3>3
      <4>2. Holders(f) = {}
        BY <3>1, <4>1 DEF Holders
      <4> QED BY <2>1, <3>3, <4>2, FS_EmptySet
    <3> QED BY <3>2, <3>3
  <2> QED BY <1>1, <1>3, <2>2, <2>3, <2>4 DEF PoolInv
<1> QED BY <1>1, <1>5, <1>6, <1>7, <1>8, <1>9 DEF RowsIInv

(* Whatever the calls and the threads do, the frames of the contexts, their  *)
(* counts and the lines announced fit together: the inductive invariant.     *)
THEOREM RowsInvariance == RowsSpec => []RowsIInv
<1>1. RowsIInv /\ [RowsNext]_vars => RowsIInv'
  <2> SUFFICES ASSUME RowsIInv, [RowsNext]_vars PROVE RowsIInv'
    OBVIOUS
  <2>1. CASE CallOnlySyncs
    BY <2>1, OnlySyncsStep
  <2>2. CASE CallStarts
    BY <2>2, StartsStep
  <2>3. CASE CallEnds
    BY <2>3, EndsStep
  <2>4. CASE CloseFrees
    BY <2>4, CloseFreesStep
  <2>5. ASSUME NEW t \in Contexts, EncodeRow(t) PROVE RowsIInv'
    BY <2>5, RowStep
  <2>6. ASSUME NEW t \in Contexts, Fail(t) PROVE RowsIInv'
    BY <2>6, FailStep
  <2>7. CASE Close \/ Terminated \/ UNCHANGED vars
    BY <2>7, RowsStutter
  <2> QED BY <2>1, <2>2, <2>3, <2>4, <2>5, <2>6, <2>7 DEF RowsNext
<1> QED BY <1>1, RowsStart, PTL DEF RowsSpec

(* A frame is counted once for each context and list that holds it, is       *)
(* unused when nobody does and then once, and the list of unused frames has  *)
(* room for all of them: x264_frame_push_unused, x264_frame_pop_unused.      *)
THEOREM PoolIsExact == RowsSpec => []PoolExact
<1>1. RowsIInv => PoolExact
  <2>1. ASSUME RowsIInv, caller = "closed" PROVE PoolExact
    BY <2>1 DEF RowsIInv
  <2>2. ASSUME RowsIInv, caller # "closed" PROVE PoolExact
    <3>1. RowsTypeOK /\ MadeInv /\ PoolInv
      BY <2>2 DEF RowsIInv
    <3>2. Len(unused) < Threads + NumRef + 4
      BY <3>1, RoomForUnused
    <3> QED BY <2>2, <3>1, <3>2 DEF PoolInv, PoolExact
  <2> QED BY <2>1, <2>2
<1> QED BY <1>1, RowsInvariance, PTL

(* What a frame thread refers to stays the picture it was told while the     *)
(* frames are reused, and has the rows that the thread has read: the waits   *)
(* of x264_macroblock_analyse are enough, whichever threads fail.            *)
THEOREM ReferencesAreGood == RowsSpec => []ReferencesGood
<1>1. RowsIInv => ReferencesGood
  <2> SUFFICES ASSUME RowsIInv PROVE ReferencesGood
    OBVIOUS
  <2>1. RowsTypeOK /\ JobInv /\ LinesInv
    BY DEF RowsIInv
  <2>2. /\ \A t \in Contexts : job[t].row \in 0 .. Rows /\ job[t].fref \subseteq Frames
        /\ Rows \in Nat \ {0} /\ MvRange \in Nat /\ lines \in [Frames -> Int]
    BY <2>1, RowsAssumption DEF RowsTypeOK
  <2>3. ASSUME NEW t \in Contexts, job[t].state = "run", NEW f \in job[t].fref, job[t].row > 0
        PROVE  LinesBefore(RowsDone(f)) >= Needed(job[t].row - 1)
    <3> DEFINE k  == Needed(job[t].row - 1)
               at == {u \in Contexts : job[u].state \in {"run", "failed"} /\ job[u].fdec = f}
    <3>1. lines[f] >= k
      BY <2>1, <2>3 DEF LinesInv
    <3>2. k \in Nat /\ lines[f] \in Int /\ f \in Frames
      BY <2>2, <2>3 DEF Needed
    <3>3. RowsDone(f) = IF at = {} THEN Rows ELSE Min({job[u].row : u \in at})
      BY DEF RowsDone
    <3> HIDE DEF k
    <3>4. CASE at = {}
      <4>1. lines[f] <= LinesBefore(Rows) /\ LinesBefore(Rows) \in Int
        BY <2>1, <2>2, <3>2 DEF LinesInv, LinesBefore
      <4> QED BY <3>1, <3>2, <3>3, <3>4, <4>1 DEF k
    <3>5. CASE at # {}
      <4>1. PICK u \in Contexts : job[u].state \in {"run", "failed"} /\ job[u].fdec = f
        BY <3>5
      <4>2. at = {u}
        BY <2>1, <4>1 DEF JobInv
      <4>3. {job[v].row : v \in at} = {job[u].row}
        BY <4>2
      <4>4. Min({job[u].row}) = job[u].row
        <5>1. job[u].row \in Int
          BY <2>2, <4>1
        <5> QED BY <5>1 DEF Min
      <4>5. RowsDone(f) = job[u].row
        BY <3>3, <3>5, <4>3, <4>4
      <4>6. lines[f] = -1 \/ lines[f] <= LinesBefore(job[u].row)
        BY <2>1, <4>1 DEF LinesInv
      <4>7. LinesBefore(job[u].row) \in Int
        BY <2>2, <4>1 DEF LinesBefore
      <4>8. LinesBefore(job[u].row) >= k
        BY <3>1, <3>2, <4>6, <4>7
      <4> QED BY <4>5, <4>8 DEF k
    <3> QED BY <3>4, <3>5
  <2>4. ASSUME NEW t \in Contexts, job[t].state = "run"
        PROVE  \A n \in job[t].needs : picture[n[1]] = n[2]
    BY <2>1, <2>4 DEF JobInv
  <2> QED BY <2>3, <2>4 DEF ReferencesGood
<1> QED BY <1>1, RowsInvariance, PTL
=============================================================================
