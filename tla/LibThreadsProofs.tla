--------------------------- MODULE LibThreadsProofs ---------------------------
(***************************************************************************)
(* Two of FFmpeg's libraries with threads of their own.                    *)
(*                                                                         *)
(* Slice threads, for every number of threads, of jobs and of calls: IInv  *)
(* is inductive.                                                           *)
(*                                                                         *)
(* The async protocol, for rings and streams of every size, every pattern  *)
(* of reads and seeks and every failure: RingIInv is inductive.  What the  *)
(* ring holds is a piece of the stream, and both sides agree on where it   *)
(* begins.                                                                 *)
(***************************************************************************)
EXTENDS SliceThread, AsyncRing, ListFacts, FiniteSetTheorems, TLAPS

LEMMA ThreadSets ==
  /\ Caller \notin Workers /\ Threads = Workers \cup {Caller}
  /\ \A w \in Workers : w \in Nat \ {0}
BY SliceAssumption DEF Threads, Workers, Caller

(* The team has nb_active_threads members, caller or not. *)
LEMMA TeamSize ==
  ASSUME nbThreads = NbThreads, nbJobs \in Nat \ {0}, withMain \in BOOLEAN, withMain => HasMain
  PROVE  /\ NbActive \in Nat \ {0} /\ NbActive <= nbJobs /\ NbActive <= NbThreads
         /\ Team \subseteq Threads
         /\ IsFiniteSet(Team) /\ Cardinality(Team) = NbActive
<1>1. NbActive \in Nat \ {0} /\ NbActive <= nbJobs /\ NbActive <= NbThreads
  BY SliceAssumption DEF NbActive, Minimum
<1>2. Team \subseteq Threads
  BY <1>1, SliceAssumption DEF Team, Helpers, Threads, Workers, Caller
<1>3. CASE withMain
  <2>1. Helpers = NbActive /\ Team = 1 .. NbActive
    BY <1>3 DEF Helpers, Team
  <2>2. IsFiniteSet(1 .. NbActive) /\ Cardinality(1 .. NbActive) = NbActive
    BY <1>1, FS_Interval
  <2> QED BY <1>1, <1>2, <2>1, <2>2
<1>4. CASE ~withMain
  <2> DEFINE H == NbActive - 1
  <2>1. H \in Nat /\ Team = (1 .. H) \cup {Caller}
    BY <1>1, <1>4 DEF Helpers, Team
  <2>2. IsFiniteSet(1 .. H) /\ Cardinality(1 .. H) = H
    BY <2>1, FS_Interval
  <2>3. Caller \notin 1 .. H
    BY <2>1 DEF Caller
  <2>4. IsFiniteSet(Team) /\ Cardinality(Team) = H + 1
    BY <2>1, <2>2, <2>3, FS_AddElement
  <2> QED BY <1>1, <1>2, <2>1, <2>4
<1> QED BY <1>3, <1>4

(* Between two changes of the call, its team stays. *)
LEMMA SameTeam ==
  ASSUME UNCHANGED callVars
  PROVE  Team' = Team /\ NbActive' = NbActive /\ Helpers' = Helpers
BY DEF callVars, Team, NbActive, Helpers

LEMMA InitIInv == Init => IInv
<1> SUFFICES ASSUME Init PROVE IInv
  OBVIOUS
<1>1. TypeOK
  <2>1. pc \in [Threads -> {"off", "idle", "create"}]
    BY DEF Init
  <2>2. pc[Caller] \in {"idle", "create"} /\ \A w \in Workers : pc[w] = "off"
    BY ThreadSets DEF Init
  <2>3. cur \in [Threads -> Jobs] /\ first \in [Threads -> Nat]
    BY SliceAssumption DEF Init, Jobs
  <2>4. nbThreads \in 0 .. NbThreads /\ nbJobs \in 0 .. MaxJobs
    BY SliceAssumption DEF Init
  <2> QED BY <2>1, <2>2, <2>3, <2>4 DEF Init, TypeOK
<1>2. Places
  BY ThreadSets DEF Init, Places, Place, InCall, Working
<1>3. CallerPlace
  BY ThreadSets, SliceAssumption DEF Init, CallerPlace, Workers, InCall, Working, Between
<1>4. Counts /\ JobCounts
  BY ThreadSets DEF Init, Counts, JobCounts, InCall, Working, Between
<1> QED BY <1>1, <1>2, <1>3, <1>4 DEF IInv

LEMMA CreateStep == ASSUME IInv, Create PROVE IInv'
<1> USE ThreadSets, SameTeam DEF IInv, Create, Goto
<1>1. TypeOK'
  BY DEF TypeOK, counters, callVars, jobVars
<1>2. Places'
  <2> SUFFICES ASSUME NEW x \in Workers PROVE Place(x)'
    BY DEF Places
  <2> QED BY DEF Places, Place, CallerPlace, InCall, Working, TypeOK, counters
<1>3. CallerPlace'
  BY DEF Places, Place, CallerPlace, TypeOK, InCall, Working, Between, counters, callVars
<1>4. Counts' /\ JobCounts'
  BY DEF InCall, Working, Between, TypeOK, Places, Place, CallerPlace, Counts, JobCounts, Drawn, Held, callVars, jobVars, counters
<1> QED BY <1>1, <1>2, <1>3, <1>4

LEMMA CreateNextStep == ASSUME IInv, CreateNext PROVE IInv'
<1> USE ThreadSets, SameTeam DEF IInv, CreateNext, Goto
<1>1. TypeOK'
  BY DEF TypeOK, counters, callVars, jobVars
<1>2. Places'
  <2> SUFFICES ASSUME NEW x \in Workers PROVE Place(x)'
    BY DEF Places
  <2> QED BY SliceAssumption DEF Places, Place, CallerPlace, InCall, Working, TypeOK, counters, Workers
<1>3. CallerPlace'
  BY DEF Places, Place, CallerPlace, TypeOK, InCall, Working, Between, counters, callVars, Workers
<1>4. Counts' /\ JobCounts'
  BY DEF InCall, Working, Between, TypeOK, Places, Place, CallerPlace, Counts, JobCounts, Drawn, Held, callVars, jobVars, counters
<1> QED BY <1>1, <1>2, <1>3, <1>4

LEMMA CreateFailsStep == ASSUME IInv, CreateFails PROVE IInv'
<1> USE ThreadSets, SameTeam DEF IInv, CreateFails, NbLeft, Goto
<1>1. TypeOK'
  <2>1. nbThreads = NbThreads /\ turn \in Workers
    BY DEF CallerPlace, TypeOK
  <2>2. nbThreads' \in 0 .. NbThreads
    BY <2>1, SliceAssumption DEF Workers
  <2> QED BY <2>2 DEF TypeOK, counters, jobVars
<1>2. Places'
  <2> SUFFICES ASSUME NEW x \in Workers PROVE Place(x)'
    BY DEF Places
  <2> QED BY DEF Places, Place, CallerPlace, InCall, Working, TypeOK, counters
<1>3. CallerPlace'
  BY DEF Places, Place, CallerPlace, TypeOK, InCall, Working, Between, counters, callVars
<1>4. Counts' /\ JobCounts'
  BY DEF InCall, Working, Between, TypeOK, Places, Place, CallerPlace, Counts, JobCounts, Drawn, Held, callVars, jobVars, counters
<1> QED BY <1>1, <1>2, <1>3, <1>4

LEMMA WakeStep == ASSUME IInv, Wake PROVE IInv'
<1> USE ThreadSets, SameTeam DEF IInv, Wake, CanLock, Goto
<1>1. TypeOK'
  <2>1. asleep' \in [Workers -> BOOLEAN]
    BY DEF TypeOK
  <2> QED BY <2>1 DEF TypeOK, counters, callVars, jobVars
<1>2. Places'
  <2> SUFFICES ASSUME NEW x \in Workers PROVE Place(x)'
    BY DEF Places
  <2> QED BY DEF Places, Place, CallerPlace, InCall, Working, TypeOK, counters, Counts, Team
<1>3. CallerPlace'
  BY DEF Places, Place, CallerPlace, TypeOK, InCall, Working, Between, counters, callVars
<1>4. Counts' /\ JobCounts'
  BY DEF InCall, Working, Between, TypeOK, Places, Place, CallerPlace, Counts, JobCounts, Drawn, Held, callVars, jobVars, counters
<1> QED BY <1>1, <1>2, <1>3, <1>4

LEMMA JoinStep == ASSUME IInv, Join PROVE IInv'
<1> USE ThreadSets, SameTeam DEF IInv, Join, Goto
<1>1. TypeOK'
  BY DEF TypeOK, counters, callVars, jobVars
<1>2. Places'
  <2> SUFFICES ASSUME NEW x \in Workers PROVE Place(x)'
    BY DEF Places
  <2> QED BY DEF Places, Place, CallerPlace, InCall, Working, TypeOK, counters
<1>3. CallerPlace'
  BY DEF Places, Place, CallerPlace, TypeOK, InCall, Working, Between, counters, callVars, Counts
<1>4. Counts' /\ JobCounts'
  BY DEF InCall, Working, Between, TypeOK, Places, Place, CallerPlace, Counts, JobCounts, Drawn, Held, callVars, jobVars, counters
<1> QED BY <1>1, <1>2, <1>3, <1>4

LEMMA MainFuncStep == ASSUME IInv, MainFunc PROVE IInv'
<1> USE ThreadSets, SameTeam DEF IInv, MainFunc, Goto
<1>1. TypeOK'
  BY DEF TypeOK, counters, callVars, jobVars
<1>2. Places'
  <2> SUFFICES ASSUME NEW x \in Workers PROVE Place(x)'
    BY DEF Places
  <2> QED BY DEF Places, Place, CallerPlace, InCall, Working, TypeOK, counters
<1>3. CallerPlace'
  BY DEF Places, Place, CallerPlace, TypeOK, InCall, Working, Between, counters, callVars
<1>4. Counts' /\ JobCounts'
  BY DEF InCall, Working, Between, TypeOK, Places, Place, CallerPlace, Counts, JobCounts, Drawn, Held, callVars, jobVars, counters
<1> QED BY <1>1, <1>2, <1>3, <1>4

LEMMA SignalDoneStep == ASSUME IInv, NEW w \in Workers, SignalDone(w) PROVE IInv'
<1> USE ThreadSets, SameTeam DEF IInv, SignalDone, Goto
<1>1. TypeOK'
  BY DEF TypeOK, counters, callVars, jobVars
<1>2. Places'
  <2> SUFFICES ASSUME NEW x \in Workers PROVE Place(x)'
    BY DEF Places
  <2> QED BY DEF Places, Place, CallerPlace, InCall, Working, TypeOK, counters
<1>3. CallerPlace'
  BY DEF Places, Place, CallerPlace, TypeOK, InCall, Working, Between, counters, callVars
<1>4. Counts' /\ JobCounts'
  BY DEF InCall, Working, Between, TypeOK, Places, Place, CallerPlace, Counts, JobCounts, Drawn, Held, callVars, jobVars, counters
<1> QED BY <1>1, <1>2, <1>3, <1>4

LEMMA AwaitStep == ASSUME IInv, Await PROVE IInv'
<1> USE ThreadSets, SameTeam DEF IInv, Await, DoneAfter, Goto
<1>1. TypeOK'
  BY DEF TypeOK, counters, callVars, jobVars
<1>2. Places'
  <2> SUFFICES ASSUME NEW x \in Workers PROVE Place(x)'
    BY DEF Places
  <2> QED BY DEF Places, Place, CallerPlace, InCall, Working, TypeOK, counters
<1>3. CallerPlace'
  BY DEF Places, Place, CallerPlace, TypeOK, InCall, Working, Between, counters, callVars
<1>4. Counts' /\ JobCounts'
  BY DEF InCall, Working, Between, TypeOK, Places, Place, CallerPlace, Counts, JobCounts, Drawn, Held, callVars, jobVars, counters
<1> QED BY <1>1, <1>2, <1>3, <1>4

LEMMA SleepStep == ASSUME IInv, NEW w \in Workers, Sleep(w) PROVE IInv'
<1> USE ThreadSets, SameTeam DEF IInv, Sleep, Goto
<1>1. TypeOK'
  BY DEF TypeOK, counters, callVars, jobVars
<1>2. Places'
  <2> SUFFICES ASSUME NEW x \in Workers PROVE Place(x)'
    BY DEF Places
  <2> QED BY DEF Places, Place, CallerPlace, InCall, Working, TypeOK, counters
<1>3. CallerPlace'
  BY DEF Places, Place, CallerPlace, TypeOK, InCall, Working, Between, counters, callVars
<1>4. Counts' /\ JobCounts'
  BY DEF InCall, Working, Between, TypeOK, Places, Place, CallerPlace, Counts, JobCounts, Drawn, Held, callVars, jobVars, counters
<1> QED BY <1>1, <1>2, <1>3, <1>4

LEMMA WokenStep == ASSUME IInv, NEW w \in Workers, Woken(w) PROVE IInv'
<1> USE ThreadSets, SameTeam DEF IInv, Woken, Goto
<1>1. TypeOK'
  BY DEF TypeOK, counters, callVars, jobVars
<1>2. Places'
  <2> SUFFICES ASSUME NEW x \in Workers PROVE Place(x)'
    BY DEF Places
  <2> QED BY DEF Places, Place, CallerPlace, InCall, Working, TypeOK, counters
<1>3. CallerPlace'
  BY DEF Places, Place, CallerPlace, TypeOK, InCall, Working, Between, counters, callVars
<1>4. Counts' /\ JobCounts'
  BY DEF InCall, Working, Between, TypeOK, Places, Place, CallerPlace, Counts, JobCounts, Drawn, Held, callVars, jobVars, counters
<1> QED BY <1>1, <1>2, <1>3, <1>4

LEMMA FreeStep == ASSUME IInv, Free PROVE IInv'
<1> USE ThreadSets, SameTeam DEF IInv, Free, Goto
<1>1. TypeOK'
  BY DEF TypeOK, counters, callVars, jobVars
<1>2. Places'
  <2> SUFFICES ASSUME NEW x \in Workers PROVE Place(x)'
    BY DEF Places
  <2> QED BY DEF Places, Place, CallerPlace, InCall, Working, TypeOK, counters
<1>3. CallerPlace'
  BY DEF Places, Place, CallerPlace, TypeOK, InCall, Working, Between, counters, callVars
<1>4. Counts' /\ JobCounts'
  BY DEF InCall, Working, Between, TypeOK, Places, Place, CallerPlace, Counts, JobCounts, Drawn, Held, callVars, jobVars, counters
<1> QED BY <1>1, <1>2, <1>3, <1>4

LEMMA StopStep == ASSUME IInv, Stop PROVE IInv'
<1> USE ThreadSets, SameTeam DEF IInv, Stop, CanLock, Goto
<1>1. TypeOK'
  <2>1. asleep' \in [Workers -> BOOLEAN]
    BY DEF TypeOK
  <2> QED BY <2>1 DEF TypeOK, counters, callVars, jobVars
<1>2. Places'
  <2> SUFFICES ASSUME NEW x \in Workers PROVE Place(x)'
    BY DEF Places
  <2> QED BY DEF Places, Place, CallerPlace, InCall, Working, TypeOK, counters
<1>3. CallerPlace'
  BY DEF Places, Place, CallerPlace, TypeOK, InCall, Working, Between, counters, callVars
<1>4. Counts' /\ JobCounts'
  BY DEF InCall, Working, Between, TypeOK, Places, Place, CallerPlace, Counts, JobCounts, Drawn, Held, callVars, jobVars, counters
<1> QED BY <1>1, <1>2, <1>3, <1>4

LEMMA JoinWorkersStep == ASSUME IInv, JoinWorkers PROVE IInv'
<1> USE ThreadSets, SameTeam DEF IInv, JoinWorkers, Goto
<1>1. TypeOK'
  BY DEF TypeOK, counters, callVars, jobVars
<1>2. Places'
  <2> SUFFICES ASSUME NEW x \in Workers PROVE Place(x)'
    BY DEF Places
  <2> QED BY DEF Places, Place, CallerPlace, InCall, Working, TypeOK, counters
<1>3. CallerPlace'
  BY DEF Places, Place, CallerPlace, TypeOK, InCall, Working, Between, counters, callVars
<1>4. Counts' /\ JobCounts'
  BY DEF InCall, Working, Between, TypeOK, Places, Place, CallerPlace, Counts, JobCounts, Drawn, Held, callVars, jobVars, counters
<1> QED BY <1>1, <1>2, <1>3, <1>4

(* Who works is of the team, which is full when out is Team. *)
LEMMA TeamCounts ==
  ASSUME IInv, InCall \/ Between
  PROVE  /\ NbActive \in Nat \ {0} /\ NbActive <= nbJobs /\ NbActive <= NbThreads
         /\ Team \subseteq Threads /\ IsFiniteSet(Team) /\ Cardinality(Team) = NbActive
         /\ IsFiniteSet(took) /\ IsFiniteSet(out)
         /\ took \subseteq Team /\ out \subseteq took
         /\ firstJob = Cardinality(took) /\ firstJob \in Nat /\ firstJob <= NbActive
<1>1. nbThreads = NbThreads /\ nbJobs \in Nat \ {0} /\ withMain \in BOOLEAN /\ (withMain => HasMain)
  BY DEF IInv, CallerPlace, TypeOK, InCall, Between, Working
<1>2. /\ NbActive \in Nat \ {0} /\ NbActive <= nbJobs /\ NbActive <= NbThreads
      /\ Team \subseteq Threads /\ IsFiniteSet(Team) /\ Cardinality(Team) = NbActive
  BY <1>1, TeamSize
<1>3. took \subseteq Team /\ out \subseteq took /\ firstJob = Cardinality(took) /\ firstJob \in Nat
  BY DEF IInv, Counts, TypeOK
<1>4. IsFiniteSet(took) /\ Cardinality(took) <= Cardinality(Team)
  BY <1>2, <1>3, FS_Subset
<1>5. IsFiniteSet(out)
  BY <1>3, <1>4, FS_Subset
<1> QED BY <1>2, <1>3, <1>4, <1>5

LEMMA AtWork ==
  ASSUME IInv, NEW t \in Threads, pc[t] \in Working
  PROVE  InCall /\ t \in Team \ out /\ (t \in took <=> pc[t] # "take")
<1>1. CASE t = Caller
  BY <1>1 DEF IInv, CallerPlace, InCall, Working, Team
<1>2. CASE t \in Workers
  BY <1>2 DEF IInv, Places, Place
<1> QED BY <1>1, <1>2, ThreadSets

LEMMA ExecuteStep ==
  ASSUME IInv, NEW n \in 1 .. MaxJobs, NEW main \in BOOLEAN, Execute(n, main)
  PROVE  IInv'
<1> USE ThreadSets DEF IInv, Execute, Goto
<1>1. nbThreads = NbThreads /\ ~finished /\ currentJob' \in Nat
  BY SliceAssumption DEF CallerPlace, Minimum
<1>2. NbActive' = currentJob' /\ NbActive' <= nbJobs'
  BY <1>1, SliceAssumption DEF NbActive, Minimum
<1>3. TypeOK'
  BY <1>1, SliceAssumption, SMTT(30) DEF TypeOK, Jobs
<1>4. Places'
  <2> SUFFICES ASSUME NEW x \in Workers PROVE Place(x)'
    BY DEF Places
  <2> QED BY <1>1 DEF Places, Place, InCall, Working, TypeOK
<1>5. CallerPlace'
  BY <1>1 DEF Places, Place, CallerPlace, TypeOK, InCall, Working, Between
<1>6. Counts'
  <2>1. took' = {} /\ out' = {} /\ firstJob' = 0 /\ Cardinality({}) = 0
    BY FS_EmptySet
  <2> QED BY <1>1, <1>2, <2>1 DEF Counts, TypeOK
<1>7. JobCounts'
  <2>1. \A t \in Threads : pc'[t] # "job"
    BY DEF Places, Place, TypeOK, InCall, Working
  <2>2. \A j \in Jobs : ~Drawn(j)'
    BY <1>1, <1>2 DEF Drawn, Jobs
  <2> QED BY <2>1, <2>2 DEF JobCounts, Jobs
<1> QED BY <1>3, <1>4, <1>5, <1>6, <1>7

(* A first job goes to a thread that has none, of which there are no more    *)
(* than first jobs.                                                          *)
LEMMA TakeStep == ASSUME IInv, NEW t \in Threads, Take(t) PROVE IInv'
<1> USE ThreadSets DEF IInv, Take, Goto
<1>1. InCall /\ t \in Team \ (took \cup out)
  BY AtWork DEF Working
<1>2. Cardinality(took \cup {t}) = firstJob + 1 /\ firstJob < NbActive /\ firstJob \in Nat
  <2>1. Cardinality(took \cup {t}) = firstJob + 1
    BY <1>1, TeamCounts, FS_AddElement
  <2>2. Cardinality(took \cup {t}) <= NbActive
    BY <1>1, TeamCounts, FS_Subset
  <2> QED BY <1>1, <2>1, <2>2, TeamCounts
<1>3. NbActive <= nbJobs /\ NbActive \in Nat \ {0} /\ nbJobs <= MaxJobs /\ firstJob \in Jobs
  <2>1. NbActive <= nbJobs /\ NbActive \in Nat \ {0}
    BY <1>1, TeamCounts
  <2>2. nbJobs \in 0 .. MaxJobs
    BY DEF TypeOK
  <2> HIDE DEF IInv, Take
  <2> QED BY <1>2, <2>1, <2>2, SliceAssumption DEF Jobs
<1>4. Team' = Team /\ NbActive' = NbActive /\ Helpers' = Helpers
  BY SameTeam
<1>5. TypeOK'
  BY <1>2, <1>3 DEF NextFirst, TypeOK, callVars, jobVars
<1>6. InCall' /\ ~Between'
  BY <1>1 DEF InCall, Between, Working, TypeOK
<1>7. Places'
  <2> SUFFICES ASSUME NEW x \in Workers PROVE Place(x)'
    BY DEF Places
  <2> QED BY <1>1, <1>4, <1>6 DEF Places, Place, CallerPlace, InCall, Working, TypeOK
<1>8. CallerPlace'
  BY <1>1, <1>4, <1>6 DEF Places, Place, CallerPlace, TypeOK, InCall, Working, Between, callVars
<1>9. Counts'
  BY <1>1, <1>2, <1>4, <1>6 DEF NextFirst, Counts, callVars
<1>10. JobCounts'
  <2>1. \A s \in Threads \ {t} : pc'[s] = pc[s] /\ cur'[s] = cur[s] /\ first'[s] = first[s]
    BY DEF TypeOK
  <2>2. pc'[t] = "job" /\ cur'[t] = firstJob /\ first'[t] = firstJob
    BY DEF TypeOK
  <2>3. NbActive <= currentJob /\ currentJob \in Nat /\ currentJob' = currentJob
    BY <1>1 DEF Counts, TypeOK
  <2>4. \A j \in Jobs : Drawn(j)' <=> Drawn(j) \/ j = firstJob
    BY <1>2, <1>3, <1>4, <2>3 DEF NextFirst, Drawn, Jobs
  <2>5. ~Drawn(firstJob)
    BY <1>2, <1>3, <2>3 DEF Drawn
  <2>6. \A j \in Jobs : Held(j)' <=> Held(j) \/ j = firstJob
    BY <2>1, <2>2 DEF Held
  <2>7. UNCHANGED <<runs, rets, args, nbJobs>>
    BY DEF callVars, jobVars
  <2>8. \A j \in Jobs : runs'[j] = IF j < nbJobs' /\ Drawn(j)' /\ ~Held(j)' THEN 1 ELSE 0
    BY <1>1, <1>3, <2>4, <2>5, <2>6, <2>7 DEF JobCounts
  <2>9. \A s \in Threads : pc'[s] = "job" => cur'[s] < nbJobs' /\ Drawn(cur[s])'
    <3> SUFFICES ASSUME NEW s \in Threads, pc'[s] = "job" PROVE cur'[s] < nbJobs' /\ Drawn(cur[s])'
      OBVIOUS
    <3>1. CASE s = t
      BY <1>2, <1>3, <2>2, <2>7, <3>1 DEF NextFirst, Drawn, TypeOK
    <3>2. CASE s # t
      <4>1. cur[s] < nbJobs /\ Drawn(cur[s]) /\ cur'[s] = cur[s] /\ cur[s] \in Jobs
        BY <1>1, <2>1, <3>2 DEF JobCounts, TypeOK
      <4> QED BY <1>2, <1>4, <2>3, <2>7, <4>1 DEF NextFirst, Drawn, Jobs
    <3> QED BY <3>1, <3>2
  <2>10. \A r, s \in Threads : pc'[r] = "job" /\ pc'[s] = "job" /\ cur'[r] = cur'[s] => r = s
    BY <1>1, <2>1, <2>2, <2>5 DEF JobCounts
  <2>11. \A s \in took' : first'[s] < firstJob'
    BY <1>1, <1>2, <2>1, <2>2, TeamCounts DEF NextFirst, JobCounts, TypeOK
  <2>12. \A r, s \in took' : first'[r] = first'[s] => r = s
    BY <1>1, <1>2, <2>1, <2>2, TeamCounts DEF JobCounts, TypeOK
  <2> QED BY <1>1, <2>7, <2>8, <2>9, <2>10, <2>11, <2>12 DEF JobCounts
<1> QED BY <1>5, <1>7, <1>8, <1>9, <1>10

LEMMA RunJobStep == ASSUME IInv, NEW t \in Threads, RunJob(t) PROVE IInv'
<1> USE ThreadSets, SameTeam DEF IInv, RunJob, Goto
<1>1. InCall /\ t \in Team \ out /\ t \in took
  BY AtWork DEF Working
<1>2. cur[t] \in Jobs /\ cur[t] < nbJobs /\ Drawn(cur[t]) /\ args \in Nat
  BY <1>1 DEF JobCounts, TypeOK
<1>3. TypeOK'
  BY <1>2 DEF TypeOK, counters, callVars
<1>4. InCall' /\ ~Between'
  BY <1>1 DEF InCall, Between, Working, TypeOK
<1>5. Places'
  <2> SUFFICES ASSUME NEW x \in Workers PROVE Place(x)'
    BY DEF Places
  <2> QED BY <1>1, <1>4 DEF Places, Place, CallerPlace, InCall, Working, TypeOK, counters
<1>6. CallerPlace'
  BY <1>1, <1>4 DEF Places, Place, CallerPlace, TypeOK, InCall, Working, Between, callVars, counters
<1>7. Counts'
  BY <1>1, <1>4 DEF Counts, callVars, counters
<1>8. JobCounts'
  <2>1. UNCHANGED <<cur, first, firstJob, currentJob, took, args, nbJobs>> /\ NbActive' = NbActive
    BY DEF counters, callVars
  <2>2. pc'[t] = "draw" /\ \A s \in Threads \ {t} : pc'[s] = pc[s]
    BY DEF TypeOK
  <2>3. \A j \in Jobs : Drawn(j)' <=> Drawn(j)
    BY <2>1 DEF Drawn
  <2>4. \A j \in Jobs : Held(j)' <=> Held(j) /\ j # cur[t]
    BY <1>1, <2>1, <2>2 DEF Held, JobCounts
  <2>5. runs[cur[t]] = 0
    BY <1>1, <1>2 DEF JobCounts, Held
  <2>6. \A j \in Jobs : runs'[j] = IF j < nbJobs' /\ Drawn(j)' /\ ~Held(j)' THEN 1 ELSE 0
    BY <1>1, <1>2, <2>1, <2>3, <2>4, <2>5 DEF JobCounts, TypeOK
  <2>7. \A j \in Jobs : runs'[j] = 1 => rets'[j] = args'
    BY <1>1, <1>2, <2>1 DEF JobCounts, TypeOK
  <2>8. \A s \in Threads : pc'[s] = "job" => cur'[s] < nbJobs' /\ Drawn(cur[s])'
    BY <1>1, <2>1, <2>2 DEF JobCounts, Drawn
  <2> QED BY <1>1, <2>1, <2>2, <2>6, <2>7, <2>8 DEF JobCounts
<1> QED BY <1>3, <1>5, <1>6, <1>7, <1>8

(* Another job is drawn. *)
LEMMA DrawJobStep == ASSUME IInv, NEW t \in Threads, Draw(t), IsJob(currentJob) PROVE IInv'
<1> USE ThreadSets, SameTeam DEF IInv, Draw, Goto
<1>1. InCall /\ t \in Team \ out /\ t \in took
  BY AtWork DEF Working
<1>2. /\ currentJob < nbJobs /\ currentJob \in Jobs /\ currentJob' = currentJob + 1 /\ out = {}
      /\ NbActive <= currentJob /\ firstJob <= NbActive /\ NbActive \in Nat
      /\ firstJob \in Nat /\ currentJob \in Nat
  <2>1. currentJob < nbJobs /\ currentJob' = currentJob + 1 /\ currentJob \in Nat
    BY DEF IsJob, TypeOK
  <2>2. nbJobs \in 0 .. MaxJobs /\ MaxJobs \in Nat
    BY SliceAssumption DEF TypeOK
  <2>3. currentJob \in Jobs
    BY <2>1, <2>2 DEF Jobs
  <2>4. out = {} /\ NbActive <= currentJob
    BY <1>1, <2>1 DEF Counts
  <2> QED BY <1>1, <2>1, <2>3, <2>4, TeamCounts
<1>3. /\ pc'[t] = "job" /\ cur'[t] = currentJob
      /\ \A s \in Threads \ {t} : pc'[s] = pc[s] /\ cur'[s] = cur[s]
  BY <1>2 DEF TypeOK, IsJob
<1>4. UNCHANGED <<first, firstJob, took, out, args, nbJobs, runs, rets>> /\ NbActive' = NbActive
  BY <1>2 DEF IsJob, callVars, jobVars
<1>5. TypeOK'
  BY <1>2, <1>4 DEF TypeOK, IsJob, callVars
<1>6. InCall' /\ ~Between'
  BY <1>1, <1>3 DEF InCall, Between, Working, TypeOK
<1>7. Places'
  <2> SUFFICES ASSUME NEW x \in Workers PROVE Place(x)'
    BY DEF Places
  <2> QED BY <1>1, <1>3, <1>4, <1>6 DEF Places, Place, CallerPlace, InCall, Working, TypeOK
<1>8. CallerPlace'
  BY <1>1, <1>3, <1>4, <1>6 DEF Places, Place, CallerPlace, TypeOK, InCall, Working, Between, callVars
<1>9. Counts'
  <2>1. nbJobs \in Nat /\ Cardinality({}) = 0
    BY SliceAssumption, FS_EmptySet DEF TypeOK
  <2> QED BY <1>1, <1>2, <1>4, <1>6, <2>1 DEF Counts, callVars
<1>10. JobCounts'
  <2>1. \A j \in Jobs : Drawn(j)' <=> Drawn(j) \/ j = currentJob
    BY <1>2, <1>4 DEF Drawn, Jobs
  <2>2. ~Drawn(currentJob)
    BY <1>2 DEF Drawn
  <2>3. \A j \in Jobs : Held(j)' <=> Held(j) \/ j = currentJob
    BY <1>3 DEF Held
  <2>4. \A j \in Jobs : runs'[j] = IF j < nbJobs' /\ Drawn(j)' /\ ~Held(j)' THEN 1 ELSE 0
    BY <1>1, <1>4, <2>1, <2>2, <2>3 DEF JobCounts
  <2>5. \A s \in Threads : pc'[s] = "job" => cur'[s] < nbJobs' /\ Drawn(cur[s])'
    <3> SUFFICES ASSUME NEW s \in Threads, pc'[s] = "job" PROVE cur'[s] < nbJobs' /\ Drawn(cur[s])'
      OBVIOUS
    <3>1. CASE s = t
      BY <1>2, <1>3, <1>4, <3>1 DEF Drawn
    <3>2. CASE s # t
      <4>1. cur[s] < nbJobs /\ Drawn(cur[s]) /\ cur'[s] = cur[s] /\ cur[s] \in Jobs
        BY <1>1, <1>3, <3>2 DEF JobCounts, TypeOK
      <4> QED BY <1>2, <1>4, <4>1 DEF Drawn, Jobs
    <3> QED BY <3>1, <3>2
  <2>6. \A r, s \in Threads : pc'[r] = "job" /\ pc'[s] = "job" /\ cur'[r] = cur'[s] => r = s
    BY <1>1, <1>3, <2>2 DEF JobCounts
  <2> QED BY <1>1, <1>4, <2>4, <2>5, <2>6 DEF JobCounts
<1> QED BY <1>5, <1>7, <1>8, <1>9, <1>10

(* A number that is no job: the thread is done with the call, and the call   *)
(* with everybody when the number is the last.                               *)
LEMMA DrawEndStep == ASSUME IInv, NEW t \in Threads, Draw(t), ~IsJob(currentJob) PROVE IInv'
<1> USE ThreadSets, SameTeam DEF IInv, Draw, Goto
<1>1. InCall /\ t \in Team \ out /\ t \in took
  BY AtWork DEF Working
<1>2. /\ currentJob \in Nat /\ nbJobs \in Nat /\ currentJob = nbJobs + Cardinality(out)
      /\ NbActive <= currentJob /\ firstJob <= NbActive /\ NbActive \in Nat \ {0} /\ firstJob \in Nat
      /\ Cardinality(out) \in Nat
  BY <1>1, TeamCounts, FS_CardinalityType DEF IsJob, Counts, TypeOK
<1>3. out' = out \cup {t} /\ Cardinality(out') = Cardinality(out) + 1
  BY <1>1, TeamCounts, FS_AddElement
<1>4. out' \subseteq took /\ (out' = Team <=> IsLast(currentJob))
  <2>1. out' \subseteq Team /\ out' \subseteq took
    BY <1>1, <1>3, TeamCounts
  <2>2. Cardinality(out') = Cardinality(Team) <=> out' = Team
    BY <1>1, <2>1, TeamCounts, FS_Subset
  <2> QED BY <1>1, <1>2, <1>3, <2>1, <2>2, TeamCounts DEF IsLast
<1>5. /\ pc'[t] = AfterLastDraw(t) /\ \A s \in Threads \ {t} : pc'[s] = pc[s]
      /\ UNCHANGED cur
  BY DEF TypeOK
<1>6. UNCHANGED <<first, firstJob, took, args, nbJobs, runs, rets>> /\ NbActive' = NbActive /\ Team' = Team
  BY DEF callVars, jobVars
<1>7. TypeOK'
  BY <1>1, <1>3 DEF TypeOK, AfterLastDraw, callVars, jobVars
<1>8. pc'[Caller] = "idle" => out' = Team
  BY <1>1, <1>4, <1>5 DEF InCall, Working, AfterLastDraw
<1>9. (pc'[Caller] # "idle" => InCall') /\ (~finished /\ ~done) /\ pc[Caller] # "idle"
  BY <1>1, <1>5 DEF InCall, Working, AfterLastDraw, CallerPlace
<1>10. Places'
  <2> SUFFICES ASSUME NEW x \in Workers PROVE Place(x)'
    BY DEF Places
  <2>1. CASE x = t
    BY <1>1, <1>3, <1>4, <1>5, <1>6, <1>9, <2>1 DEF Places, Place, Working, AfterLastDraw, InCall
  <2>2. CASE x # t
    BY <1>1, <1>3, <1>4, <1>5, <1>6, <1>8, <1>9, <2>2 DEF Places, Place, Working, InCall, AfterLastDraw
  <2> QED BY <2>1, <2>2
<1>11. CallerPlace'
  BY <1>1, <1>3, <1>4, <1>5, <1>8, <1>9 DEF Places, Place, CallerPlace, InCall, Working, Between, AfterLastDraw, callVars
<1>12. Counts'
  BY <1>1, <1>2, <1>3, <1>4, <1>6, TeamCounts DEF Counts
<1>13. JobCounts'
  <2>1. \A j \in Jobs : j < nbJobs => (Drawn(j)' <=> Drawn(j))
    BY <1>2, <1>6 DEF Drawn, Jobs
  <2>2. \A s \in Threads : pc'[s] = "job" <=> pc[s] = "job"
    BY <1>5 DEF AfterLastDraw
  <2>3. \A j \in Jobs : Held(j)' <=> Held(j)
    BY <1>5, <2>2 DEF Held
  <2>4. \A j \in Jobs : runs'[j] = IF j < nbJobs' /\ Drawn(j)' /\ ~Held(j)' THEN 1 ELSE 0
    BY <1>1, <1>6, <2>1, <2>3 DEF JobCounts
  <2>5. \A s \in Threads : pc'[s] = "job" => cur'[s] < nbJobs' /\ Drawn(cur[s])'
    <3> SUFFICES ASSUME NEW s \in Threads, pc'[s] = "job" PROVE cur[s] < nbJobs /\ Drawn(cur[s])'
      BY <1>5, <1>6
    <3>1. cur[s] < nbJobs /\ Drawn(cur[s]) /\ cur'[s] = cur[s] /\ cur[s] \in Jobs
      BY <1>1, <1>5, <2>2 DEF JobCounts, TypeOK
    <3> QED BY <1>2, <1>6, <3>1 DEF Drawn, Jobs
  <2> QED BY <1>1, <1>5, <1>6, <2>2, <2>4, <2>5 DEF JobCounts
<1> QED BY <1>7, <1>10, <1>11, <1>12, <1>13

LEMMA StutterStep == ASSUME IInv, UNCHANGED vars PROVE IInv'
<1> USE DEF IInv, vars, counters, callVars, jobVars
<1>1. TypeOK'
  BY DEF TypeOK
<1>2. Places' /\ CallerPlace'
  BY DEF Places, Place, CallerPlace, InCall, Between, Team, Helpers, NbActive
<1>3. Counts' /\ JobCounts'
  BY DEF Counts, JobCounts, Drawn, Held, InCall, Between, Team, Helpers, NbActive
<1> QED BY <1>1, <1>2, <1>3

LEMMA NextStep == ASSUME IInv, [Next]_vars PROVE IInv'
<1>1. CASE Calls
  BY <1>1, FreeStep, ExecuteStep DEF Calls
<1>2. ASSUME NEW t \in Threads, InRunJobs(t) PROVE IInv'
  <2>1. CASE Take(t)
    BY <2>1, TakeStep
  <2>2. CASE RunJob(t)
    BY <2>2, RunJobStep
  <2>3. CASE Draw(t)
    BY <2>3, DrawJobStep, DrawEndStep
  <2> QED BY <1>2, <2>1, <2>2, <2>3 DEF InRunJobs
<1>3. CASE CallerStep
  <2>1. Caller \in Threads
    BY ThreadSets
  <2> QED BY <1>2, <1>3, <2>1, CreateStep, CreateNextStep, CreateFailsStep, WakeStep, JoinStep,
             MainFuncStep, AwaitStep, StopStep, JoinWorkersStep DEF CallerStep
<1>4. ASSUME NEW w \in Workers, WorkerStep(w) PROVE IInv'
  <2>1. w \in Threads
    BY ThreadSets
  <2> QED BY <1>2, <1>4, <2>1, SignalDoneStep, SleepStep, WokenStep DEF WorkerStep
<1>5. CASE Freed \/ UNCHANGED vars
  BY <1>5, StutterStep DEF Freed
<1> QED BY <1>1, <1>3, <1>4, <1>5 DEF Next

(* The inductive invariant holds of every run of the slice threads. *)
THEOREM Invariance == Spec => []IInv
<1>1. Init => IInv
  BY InitIInv
<1>2. IInv /\ [Next]_vars => IInv'
  BY NextStep
<1> QED BY <1>1, <1>2, PTL DEF Spec

(* The variables have their types: in particular cur, the job a thread runs, *)
(* is always a job there is (worker_func indexes rets and args by it).       *)
THEOREM TypeCorrect == Spec => []TypeOK
<1>1. IInv => TypeOK
  BY DEF IInv
<1> QED BY <1>1, Invariance, PTL

(* avpriv_slicethread_execute comes back when every job has run once, for    *)
(* this call, and not before.                                                *)
THEOREM EveryJobRunsOnce == Spec => []EachJobOnce
<1>1. ASSUME IInv PROVE EachJobOnce
  <2> SUFFICES ASSUME Between, NEW j \in Jobs
               PROVE  IF j < nbJobs THEN runs[j] = 1 /\ rets[j] = args ELSE runs[j] = 0
    BY DEF EachJobOnce
  <2>1. out = Team /\ took = Team /\ firstJob = NbActive /\ NbActive \in Nat \ {0}
    BY <1>1, TeamCounts DEF IInv, CallerPlace
  <2>2. Team # {} /\ Cardinality(out) \in Nat
    BY <2>1, TeamCounts, <1>1, FS_EmptySet, FS_CardinalityType
  <2>3. nbJobs \in Nat /\ currentJob \in Nat /\ nbJobs <= currentJob
    BY <1>1, <2>1, <2>2, SliceAssumption DEF IInv, Counts, TypeOK
  <2>4. ~Held(j)
    BY <1>1, ThreadSets DEF IInv, Places, Place, Held, Between, InCall, Working
  <2>5. j < nbJobs => Drawn(j)
    BY <2>1, <2>3 DEF Drawn, Jobs
  <2> QED BY <1>1, <2>4, <2>5 DEF IInv, JobCounts
<1> QED BY <1>1, Invariance, PTL

(* The thread numbers that run at one time differ and index the scratch data *)
(* that was made for nb_active_threads.                                      *)
THEOREM ThreadNumbersAreOwn == Spec => []OwnThreadNumber
<1>1. ASSUME IInv PROVE OwnThreadNumber
  <2>1. \A s \in Threads : pc[s] = "job" => InCall /\ s \in took
    BY <1>1, AtWork DEF Working
  <2> QED BY <1>1, <2>1, TeamCounts DEF IInv, JobCounts, OwnThreadNumber, TypeOK
<1> QED BY <1>1, Invariance, PTL

(* Nobody is left in a call that came back, so the next one may set the      *)
(* fields that all share.                                                    *)
THEOREM QuietBetweenCalls == Spec => []Quiet
<1>1. IInv => Quiet
  BY ThreadSets DEF IInv, TypeOK, Places, Place, CallerPlace, Quiet, InCall, Working
<1> QED BY <1>1, Invariance, PTL

-----------------------------------------------------------------------------
(* The async protocol *)

LEMMA RingConstants ==
  /\ Size \in Nat \ {0} /\ NdxMod \in Nat \ {0} /\ NdxMod > Size
  /\ Ahead \in Nat \ {0} /\ Back \in Nat /\ Back <= Size
  /\ Total \in Nat /\ Chunk \in Nat \ {0} /\ MaxRead \in Nat /\ Targets \subseteq Nat
BY AsyncAssumption DEF Size

(* What a remainder is when at most one turn is too many or missing: all     *)
(* that the ring needs, although its sizes are not known.                    *)
LEMMA OneTurn ==
  ASSUME NEW m \in Nat \ {0}, NEW a \in -m .. 2 * m - 1
  PROVE  a % m = IF a < 0 THEN a + m ELSE IF a < m THEN a ELSE a - m
OBVIOUS

(* A place in the ring. *)
LEMMA AtIs ==
  ASSUME NEW a \in 0 .. 2 * Size - 1
  PROVE  At(a) = (IF a < Size THEN a ELSE a - Size) /\ At(a) \in 0 .. Size - 1
<1>1. a \in -Size .. 2 * Size - 1
  BY RingConstants
<1>2. At(a) = IF a < 0 THEN a + Size ELSE IF a < Size THEN a ELSE a - Size
  BY <1>1, RingConstants, OneTurn DEF At
<1> QED BY <1>2, RingConstants

(* Going on from a place. *)
LEMMA AtAfter ==
  ASSUME NEW p \in 0 .. Size - 1, NEW k \in Nat, NEW j \in Nat, k + j <= Size
  PROVE  At(At(p + k) + j) = At(p + k + j)
<1> DEFINE a == p + k
           b == p + k + j
           q == At(p + k) + j
<1>1. a \in 0 .. 2 * Size - 1 /\ b \in 0 .. 2 * Size - 1 /\ b = a + j
  BY RingConstants
<1>2. q = At(a) + j
  OBVIOUS
<1> HIDE DEF a, b, q
<1>3. At(a) = (IF a < Size THEN a ELSE a - Size) /\ At(a) \in 0 .. Size - 1
  BY <1>1, AtIs
<1>4. At(b) = IF b < Size THEN b ELSE b - Size
  BY <1>1, AtIs
<1>5. q \in 0 .. 2 * Size - 1
  BY <1>2, <1>3, RingConstants
<1>6. At(q) = IF q < Size THEN q ELSE q - Size
  BY <1>5, AtIs
<1>7. At(q) = At(b)
  BY <1>1, <1>2, <1>3, <1>4, <1>6, RingConstants
<1> QED BY <1>7 DEF a, b, q

(* An index that moves on, and the distance of two of them. *)
LEMMA IndexAfter ==
  ASSUME NEW x \in 0 .. NdxMod - 1, NEW n \in 0 .. Size
  PROVE  /\ (x + n) % NdxMod = IF x + n < NdxMod THEN x + n ELSE x + n - NdxMod
         /\ (x + n) % NdxMod \in 0 .. NdxMod - 1
<1>1. PICK a \in -NdxMod .. 2 * NdxMod - 1 : a = x + n /\ a >= 0
  BY RingConstants
<1>2. a % NdxMod = IF a < 0 THEN a + NdxMod ELSE IF a < NdxMod THEN a ELSE a - NdxMod
  BY OneTurn, RingConstants
<1>3. a % NdxMod = (IF a < NdxMod THEN a ELSE a - NdxMod) /\ a % NdxMod \in 0 .. NdxMod - 1
  BY <1>1, <1>2, RingConstants
<1>4. a = x + n
  BY <1>1
<1> QED BY <1>3, <1>4, RingConstants

LEMMA Distance ==
  ASSUME NEW w \in 0 .. NdxMod - 1, NEW x \in 0 .. NdxMod - 1
  PROVE  (w - x) % NdxMod = IF w < x THEN w - x + NdxMod ELSE w - x
<1>1. w - x \in -NdxMod .. 2 * NdxMod - 1 /\ w - x < NdxMod /\ (w - x < 0 <=> w < x)
  BY RingConstants
<1>2. (w - x) % NdxMod = IF w - x < 0 THEN w - x + NdxMod
                         ELSE IF w - x < NdxMod THEN w - x ELSE w - x - NdxMod
  BY <1>1, OneTurn, RingConstants
<1> QED BY <1>1, <1>2

(* How much is in the ring, whatever the indices have wrapped. *)
LEMMA Sizes ==
  ASSUME RingTypeOK
  PROVE  /\ FifoSize \in 0 .. NdxMod - 1
         /\ FifoSize = IF fifo.wndx < fifo.rndx THEN fifo.wndx - fifo.rndx + NdxMod
                                                ELSE fifo.wndx - fifo.rndx
<1>1. fifo.wndx \in 0 .. NdxMod - 1 /\ fifo.rndx \in 0 .. NdxMod - 1
  BY DEF RingTypeOK
<1>2. (fifo.wndx - fifo.rndx) % NdxMod = IF fifo.wndx < fifo.rndx THEN fifo.wndx - fifo.rndx + NdxMod
                                                                 ELSE fifo.wndx - fifo.rndx
  BY <1>1, Distance
<1> QED BY <1>1, <1>2, RingConstants DEF FifoSize

LEMMA StoredType ==
  ASSUME RingIInv
  PROVE  /\ FifoSize \in 0 .. Size /\ Stored \in 0 .. Size /\ FifoSize <= Stored
         /\ readPos \in Nat /\ logical \in Nat /\ Start \in Int /\ inner.pos \in Nat
         /\ task.done \in Nat /\ fifo.rptr \in 0 .. Size - 1
<1>1. /\ FifoSize \in 0 .. NdxMod - 1 /\ task.done \in Nat /\ readPos \in Nat /\ logical \in Nat
      /\ inner.pos \in Nat /\ fifo.rptr \in 0 .. Size - 1 /\ seek.ret \in Int
  BY Sizes, SMTT(30) DEF RingIInv, RingTypeOK, IoError
<1>2. Stored \in Nat /\ FifoSize <= Stored /\ Stored <= Size
  BY <1>1 DEF Stored, RingIInv, Bounds
<1> QED BY <1>1, <1>2, RingConstants DEF Start

LEMMA RingStarts ==
  ASSUME RingInit
  PROVE  RingIInv
<1>1. RingTypeOK
  <2>1. [i \in 0 .. Size - 1 |-> NoBytes] \in [0 .. Size - 1 -> Int]
    BY DEF NoBytes
  <2>2. fifo \in [bytes: [0 .. Size - 1 -> Int], rptr: 0 .. Size - 1, wptr: 0 .. Size - 1,
                  rndx: 0 .. NdxMod - 1, wndx: 0 .. NdxMod - 1]
    BY <2>1, RingConstants DEF RingInit, EmptyFifo
  <2>3. /\ seek \in [request: BOOLEAN, pos: Nat, completed: BOOLEAN, ret: Nat \cup {IoError}]
        /\ io \in [innerError: Errors, error: Errors, eof: BOOLEAN, abort: BOOLEAN]
        /\ inner \in [pos: Nat, fails: Nat] /\ readPos \in 0 .. Back
    BY RingConstants DEF RingInit, Errors
  <2>4. task \in [at: {"check", "write", "publish", "finish", "exited"}, left: Nat, done: Nat,
                  wptr: 0 .. Size - 1]
    BY RingConstants DEF RingInit
  <2> QED BY <2>2, <2>3, <2>4 DEF RingInit, RingTypeOK
<1>2. FifoSize = 0
  <2>1. fifo.wndx = 0 /\ fifo.rndx = 0
    BY DEF RingInit, EmptyFifo
  <2> QED BY <1>1, <2>1, Sizes
<1>3. Stored = 0 /\ Start = 0 /\ ~Writing /\ ~Jumped /\ readPos = 0
  BY <1>2 DEF RingInit, Stored, Start, Jumped, Writing
<1>4. At(0) = 0
  BY AtIs, RingConstants
<1>5. Bounds
  BY <1>2, <1>3, <1>4, RingConstants DEF Bounds, RingInit, EmptyFifo
<1>6. Seeks
  BY <1>3 DEF Seeks, RingInit
<1>7. Contents
  BY <1>3 DEF Contents, RingInit
<1>8. Ends
  BY DEF Ends, RingInit
<1>9. ReadExact
  BY DEF ReadExact, RingInit, Nothing, Eof
<1> QED BY <1>1, <1>5, <1>6, <1>7, <1>8, <1>9 DEF RingIInv

-----------------------------------------------------------------------------
(* The caller.  What he does without touching the ring changes nothing of    *)
(* it, if it still begins where it did.                                      *)
LEMMA Untouched ==
  ASSUME RingIInv, UNCHANGED <<fifo, readPos, inner, task>>,
         io'.abort \/ (io' = io /\ Start' = Start)
  PROVE  Bounds' /\ Contents' /\ Ends'
<1>1. FifoSize' = FifoSize /\ Writing' = Writing /\ Stored' = Stored
  BY DEF FifoSize, Writing, Stored
<1>2. Bounds'
  BY <1>1 DEF RingIInv, Bounds
<1>3. Contents'
  BY <1>1 DEF RingIInv, Contents
<1>4. Ends'
  BY DEF RingIInv, Ends
<1> QED BY <1>2, <1>3, <1>4

(* When nothing he asked the thread for is answered, the ring begins         *)
(* readPos behind him.                                                       *)
LEMMA NotJumped ==
  ASSUME user.at # "await" PROVE Start = logical - readPos
BY DEF Start, Jumped

(* A call that begins, and one that returns no bytes. *)
LEMMA NothingRead ==
  ASSUME NEW result, \/ got' = [ret |-> result, from |-> logical, bytes |-> <<>>]
                     \/ got' = [Nothing EXCEPT !.ret = result],
         result = Eof => (got'.from = logical /\ logical >= Total)
  PROVE  ReadExact'
BY DEF ReadExact, Nothing

LEMMA ReadStep == ASSUME RingIInv, Read PROVE RingIInv'
<1>1. RingTypeOK'
  BY RingConstants DEF Read, RingIInv, RingTypeOK, CallIs
<1>2. user.at = "idle" /\ user'.at = "read"
  BY DEF Read, CallIs
<1>3. Start' = Start /\ ~Jumped'
  BY <1>2 DEF Read, Start, Jumped
<1>4. Bounds' /\ Contents' /\ Ends'
  BY <1>3, Untouched DEF Read
<1>5. Seeks'
  BY <1>2, <1>3 DEF Read, RingIInv, Seeks
<1>6. ReadExact'
  BY DEF Read, ReadExact, Nothing, Eof
<1> QED BY <1>1, <1>4, <1>5, <1>6 DEF RingIInv

LEMMA CloseStep == ASSUME RingIInv, Close PROVE RingIInv'
<1>1. RingTypeOK'
  BY RingConstants DEF Close, RingIInv, RingTypeOK, CallIs, WakeTask
<1>2. user.at = "idle" /\ user'.at = "join" /\ io'.abort
  BY DEF Close, CallIs, RingIInv, RingTypeOK
<1>3. ~Jumped'
  BY <1>2 DEF Jumped
<1>4. Bounds' /\ Contents' /\ Ends'
  BY <1>2, Untouched DEF Close
<1>5. Seeks'
  BY <1>2, <1>3 DEF Seeks
<1>6. ReadExact'
  BY DEF Close, ReadExact, RingIInv
<1> QED BY <1>1, <1>4, <1>5, <1>6 DEF RingIInv

LEMMA JoinedStep == ASSUME RingIInv, Joined PROVE RingIInv'
<1>1. RingTypeOK'
  BY DEF Joined, RingIInv, RingTypeOK, CallIs
<1>2. user.at = "join" /\ user'.at = "closed"
  BY DEF Joined, CallIs
<1>3. Start' = Start /\ ~Jumped'
  BY <1>2 DEF Joined, Start, Jumped
<1>4. Bounds' /\ Contents' /\ Ends'
  BY <1>3, Untouched DEF Joined
<1>5. Seeks'
  BY <1>2, <1>3 DEF Joined, RingIInv, Seeks
<1>6. ReadExact'
  BY DEF Joined, ReadExact, RingIInv
<1> QED BY <1>1, <1>4, <1>5, <1>6 DEF RingIInv

LEMMA ReadStoppedStep == ASSUME RingIInv, ReadStopped PROVE RingIInv'
<1>1. user.at \in {"read", "skip"} /\ user' = [at |-> "idle", toRead |-> 0, target |-> 0]
  BY DEF ReadStopped, InRead, ReadReturns, SeekReturns, Idle, CallIs
<1>2. RingTypeOK'
  BY <1>1 DEF ReadStopped, RingIInv, RingTypeOK, WakeTask
<1>3. io'.abort /\ ~Jumped'
  BY <1>1 DEF ReadStopped, Jumped, RingIInv, RingTypeOK
<1>4. Bounds' /\ Contents' /\ Ends'
  BY <1>3, Untouched DEF ReadStopped
<1>5. Seeks'
  BY <1>1, <1>3 DEF Seeks
<1>6. ReadExact'
  <2>1. logical \in Nat /\ logical # Eof /\ Exit # Eof
    BY DEF RingIInv, RingTypeOK, Eof, Exit
  <2>2. got' = [ret |-> Exit, from |-> logical, bytes |-> <<>>] \/ got' = [Nothing EXCEPT !.ret = logical]
    BY DEF ReadStopped, ReadReturns, SeekReturns
  <2> QED BY <2>1, <2>2, NothingRead
<1> QED BY <1>2, <1>4, <1>5, <1>6 DEF RingIInv

(* That the stream has ended is only said at its end: the thread has met it, *)
(* has nothing in hand and nothing is left in the ring.                      *)
LEMMA ReadEndsStep == ASSUME RingIInv, ReadEnds PROVE RingIInv'
<1>1. user.at \in {"read", "skip"} /\ user' = [at |-> "idle", toRead |-> 0, target |-> 0]
  BY DEF ReadEnds, InRead, ReadReturns, SeekReturns, Idle, CallIs
<1>2. RingTypeOK'
  BY <1>1 DEF ReadEnds, RingIInv, RingTypeOK, WakeTask
<1>3. Start' = Start /\ ~Jumped' /\ Start = logical - readPos
  BY <1>1 DEF ReadEnds, Start, Jumped
<1>4. Bounds' /\ Contents' /\ Ends'
  BY <1>3, Untouched DEF ReadEnds
<1>5. Seeks'
  BY <1>1, <1>3 DEF ReadEnds, RingIInv, Seeks
<1>6. ASSUME io.error \in {0, Eof} PROVE logical >= Total
  <2>1. ~io.abort /\ io.eof /\ RingSize <= 0
    BY DEF ReadEnds, Continues
  <2>2. inner.pos = Total /\ ~Writing
    BY <1>6, <2>1 DEF RingIInv, Ends, Writing
  <2>3. inner.pos = Start + FifoSize
    BY <2>1, <2>2, StoredType DEF RingIInv, Contents, Stored
  <2> QED BY <1>3, <2>1, <2>2, <2>3, StoredType, RingConstants DEF RingSize
<1>7. ReadExact'
  <2>1. CASE user.at = "skip"
    <3>1. logical # Eof
      BY DEF RingIInv, RingTypeOK, Eof
    <3>2. got' = [Nothing EXCEPT !.ret = logical]
      BY <2>1 DEF ReadEnds, SeekReturns
    <3> QED BY <3>1, <3>2, NothingRead
  <2>2. CASE user.at = "read"
    <3> DEFINE result == IF io.error # 0 THEN io.error ELSE Eof
    <3>1. got' = [ret |-> result, from |-> logical, bytes |-> <<>>]
      BY <2>2 DEF ReadEnds, ReadReturns
    <3>2. result = Eof => io.error \in {0, Eof}
      OBVIOUS
    <3>3. got'.from = logical
      BY <3>1
    <3> HIDE DEF result
    <3> QED BY <1>6, <3>1, <3>2, <3>3, NothingRead
  <2> QED BY <1>1, <2>1, <2>2
<1> QED BY <1>2, <1>4, <1>5, <1>7 DEF RingIInv

LEMMA ReadWaitsStep == ASSUME RingIInv, ReadWaits PROVE RingIInv'
<1>1. RingTypeOK'
  BY ZenonT(40) DEF ReadWaits, RingIInv, RingTypeOK, WakeTask
<1>2. Start' = Start /\ Jumped' = Jumped
  BY DEF ReadWaits, Start, Jumped
<1>3. Bounds' /\ Contents' /\ Ends'
  BY <1>2, Untouched DEF ReadWaits
<1>4. Seeks'
  BY <1>2 DEF ReadWaits, RingIInv, Seeks
<1>5. ReadExact'
  BY DEF ReadWaits, ReadExact, RingIInv
<1> QED BY <1>1, <1>3, <1>4, <1>5 DEF RingIInv

LEMMA SeekStep == ASSUME RingIInv, NEW p \in Targets, Seek(p) PROVE RingIInv'
<1>1. p \in Nat /\ logical \in Nat /\ readPos \in Nat
  BY RingConstants DEF RingIInv, RingTypeOK
<1>2. /\ user.at = "idle"
      /\ \/ user' = [at |-> "current", toRead |-> 0, target |-> 0]
         \/ p > logical /\ user' = [at |-> "skip", toRead |-> p - logical, target |-> 0]
         \/ p < logical /\ InRing(p) /\ user' = [at |-> "back", toRead |-> 0, target |-> p]
         \/ user' = [at |-> "cannot", toRead |-> 0, target |-> 0]
         \/ user' = [at |-> "slow", toRead |-> 0, target |-> p]
  BY DEF Seek, CallIs
<1>3. user' \in [at: {"current", "skip", "back", "cannot", "slow"}, toRead: Nat, target: Nat]
  BY <1>1, <1>2
<1>4. RingTypeOK'
  BY <1>3, SMTT(30) DEF Seek, RingIInv, RingTypeOK
<1>5. Start' = Start /\ ~Jumped'
  BY <1>2, <1>3 DEF Seek, Start, Jumped
<1>6. Bounds' /\ Contents' /\ Ends'
  BY <1>5, Untouched DEF Seek
<1>7. user'.at = "back" => logical - readPos <= user'.target /\ user'.target < logical
  BY <1>1, <1>2 DEF InRing
<1>8. Seeks'
  BY <1>2, <1>3, <1>5, <1>7 DEF Seek, RingIInv, Seeks
<1>9. ReadExact'
  BY DEF Seek, ReadExact, Nothing, Eof
<1> QED BY <1>4, <1>6, <1>8, <1>9 DEF RingIInv

LEMMA SeekAnswersStep == ASSUME RingIInv, SeekAnswers PROVE RingIInv'
<1>1. user.at \in {"current", "cannot"} /\ user' = [at |-> "idle", toRead |-> 0, target |-> 0]
  BY DEF SeekAnswers, SeekReturns, Idle, CallIs
<1>2. RingTypeOK'
  BY <1>1 DEF SeekAnswers, RingIInv, RingTypeOK
<1>3. Start' = Start /\ ~Jumped'
  BY <1>1 DEF SeekAnswers, Start, Jumped
<1>4. Bounds' /\ Contents' /\ Ends'
  BY <1>3, Untouched DEF SeekAnswers
<1>5. Seeks'
  BY <1>1, <1>3 DEF SeekAnswers, RingIInv, Seeks
<1>6. ReadExact'
  <2> DEFINE result == IF user.at = "current" THEN logical ELSE Invalid
  <2>1. result # Eof
    BY DEF RingIInv, RingTypeOK, Eof, Invalid
  <2>2. got' = [Nothing EXCEPT !.ret = result]
    BY DEF SeekAnswers, SeekReturns
  <2> HIDE DEF result
  <2> QED BY <2>1, <2>2, NothingRead
<1> QED BY <1>2, <1>4, <1>5, <1>6 DEF RingIInv

(* Both move back by the same amount. *)
LEMMA SeekBackStep == ASSUME RingIInv, SeekBack PROVE RingIInv'
<1>1. user.at = "back" /\ user' = [at |-> "idle", toRead |-> 0, target |-> 0]
  BY DEF SeekBack, SeekReturns, Idle, CallIs
<1>2. /\ user.target \in Nat /\ logical \in Nat /\ readPos \in 0 .. Back /\ FifoSize \in Nat
      /\ logical - readPos <= user.target /\ user.target < logical
      /\ readPos' = readPos + user.target - logical /\ logical' = user.target
  <2>1. user.target \in Nat /\ logical \in Nat /\ readPos \in 0 .. Back
    BY DEF RingIInv, RingTypeOK
  <2>2. FifoSize \in Nat
    BY StoredType
  <2>3. logical - readPos <= user.target /\ user.target < logical
    BY <1>1 DEF RingIInv, Seeks
  <2>4. readPos' = readPos + user.target - logical /\ logical' = user.target
    BY DEF SeekBack
  <2> QED BY <2>1, <2>2, <2>3, <2>4
<1>3. readPos' \in 0 .. Back /\ readPos' <= readPos
  BY <1>2, RingConstants
<1>4. RingTypeOK'
  BY <1>1, <1>2, <1>3 DEF SeekBack, RingIInv, RingTypeOK
<1>5. Start' = Start /\ ~Jumped'
  BY <1>1, <1>2 DEF Start, Jumped
<1>6. FifoSize' = FifoSize /\ Writing' = Writing /\ Stored' = Stored
  BY DEF SeekBack, FifoSize, Writing, Stored
<1>7. Bounds'
  BY <1>2, <1>3, <1>6 DEF SeekBack, RingIInv, Bounds
<1>8. Contents' /\ Ends'
  BY <1>5, <1>6 DEF SeekBack, RingIInv, Contents, Ends
<1>9. Seeks'
  BY <1>1, <1>5 DEF SeekBack, RingIInv, Seeks
<1>10. ReadExact'
  <2>1. got' = [Nothing EXCEPT !.ret = user.target] /\ user.target # Eof
    BY <1>2 DEF SeekBack, SeekReturns, Eof
  <2> QED BY <2>1, NothingRead
<1> QED BY <1>4, <1>7, <1>8, <1>9, <1>10 DEF RingIInv

LEMMA RequestSeekStep == ASSUME RingIInv, RequestSeek PROVE RingIInv'
<1>1. /\ user.at = "slow" /\ user.target \in Nat
      /\ seek' = [request |-> TRUE, pos |-> user.target, completed |-> FALSE, ret |-> 0]
  BY DEF RequestSeek, RingIInv, RingTypeOK
<1>2. \/ user' = [at |-> "await", toRead |-> 0, target |-> 0] /\ io' = io /\ got' = got
      \/ /\ user' = [at |-> "idle", toRead |-> 0, target |-> 0] /\ io' = [io EXCEPT !.abort = TRUE]
         /\ got' = [Nothing EXCEPT !.ret = Exit]
  BY DEF RequestSeek, SeekReturns, Idle, CallIs
<1>3. RingTypeOK'
  <2>1. user' \in [at: {"await", "idle"}, toRead: Nat, target: Nat]
    BY <1>2
  <2>2. seek' \in [request: BOOLEAN, pos: Nat, completed: BOOLEAN, ret: Nat \cup {IoError}]
    BY <1>1
  <2>3. io' \in [innerError: Errors, error: Errors, eof: BOOLEAN, abort: BOOLEAN]
    BY <1>2 DEF RingIInv, RingTypeOK
  <2>4. mainWaits' \in BOOLEAN /\ taskWaits' \in BOOLEAN
    BY DEF RequestSeek, RingIInv, RingTypeOK, WakeTask
  <2> QED BY <2>1, <2>2, <2>3, <2>4 DEF RequestSeek, RingIInv, RingTypeOK
<1>4. Start' = Start /\ ~Jumped'
  BY <1>1 DEF RequestSeek, Start, Jumped
<1>5. io' = io \/ (io'.abort /\ user'.at = "idle")
  BY <1>2 DEF RingIInv, RingTypeOK
<1>6. Bounds' /\ Contents' /\ Ends'
  BY <1>4, <1>5, Untouched DEF RequestSeek
<1>7. Seeks'
  <2>1. seek'.request = TRUE /\ seek'.completed = FALSE /\ user'.at \in {"await", "idle"}
    BY <1>1, <1>2
  <2>2. ~io'.abort => user'.at = "await"
    <3>1. CASE user'.at = "await"
      BY <3>1
    <3>2. CASE user'.at = "idle"
      <4>1. io' = [io EXCEPT !.abort = TRUE]
        BY <1>2, <3>2
      <4> QED BY <4>1 DEF RingIInv, RingTypeOK
    <3> QED BY <2>1, <3>1, <3>2
  <2> QED BY <1>4, <2>1, <2>2 DEF Seeks
<1>8. ReadExact'
  <2>1. CASE got' = got
    BY <2>1 DEF ReadExact, RingIInv
  <2>2. CASE got' = [Nothing EXCEPT !.ret = Exit]
    <3>1. Exit # Eof
      BY DEF Exit, Eof
    <3> QED BY <2>2, <3>1, NothingRead
  <2> QED BY <1>2, <2>1, <2>2
<1> QED BY <1>3, <1>6, <1>7, <1>8 DEF RingIInv

(* The caller catches up with the ring when he sees that the seek was done.  *)
LEMMA AwaitSeekStep == ASSUME RingIInv, AwaitSeek PROVE RingIInv'
<1>1. /\ user.at = "await" /\ seek.ret \in Nat \cup {IoError} /\ IoError < 0 /\ IoError \in Int
      /\ logical \in Nat /\ readPos \in 0 .. Back /\ seek' = seek /\ readPos' = readPos
  BY DEF AwaitSeek, RingIInv, RingTypeOK, IoError
<1>2. CASE io' = [io EXCEPT !.abort = TRUE] /\ SeekReturns(Exit) /\ UNCHANGED <<logical, mainWaits, taskWaits>>
  <2>1. user' = [at |-> "idle", toRead |-> 0, target |-> 0] /\ got' = [Nothing EXCEPT !.ret = Exit]
    BY <1>2 DEF SeekReturns, Idle, CallIs
  <2>2. RingTypeOK'
    BY <1>2, <2>1 DEF AwaitSeek, RingIInv, RingTypeOK
  <2>3. io'.abort /\ ~Jumped'
    BY <1>2, <2>1 DEF Jumped, RingIInv, RingTypeOK
  <2>4. Bounds' /\ Contents' /\ Ends'
    BY <2>3, Untouched DEF AwaitSeek
  <2>5. Seeks'
    BY <2>1, <2>3 DEF Seeks
  <2>6. ReadExact'
    <3>1. Exit # Eof
      BY DEF Exit, Eof
    <3> QED BY <2>1, <3>1, NothingRead
  <2> QED BY <2>2, <2>4, <2>5, <2>6 DEF RingIInv
<1>3. CASE /\ seek.completed
           /\ logical' = IF seek.ret >= 0 THEN seek.ret ELSE logical
           /\ SeekReturns(seek.ret) /\ UNCHANGED <<io, mainWaits, taskWaits>>
  <2>1. user' = [at |-> "idle", toRead |-> 0, target |-> 0] /\ got' = [Nothing EXCEPT !.ret = seek.ret]
    BY <1>3 DEF SeekReturns, Idle, CallIs
  <2>2. logical' \in Nat
    BY <1>1, <1>3
  <2>3. RingTypeOK'
    BY <1>3, <2>1, <2>2 DEF AwaitSeek, RingIInv, RingTypeOK
  <2>4. ~Jumped' /\ Start' = logical' - readPos
    BY <1>1, <2>1 DEF Jumped, Start
  <2>5. Start' = Start
    <3>1. CASE seek.ret >= 0
      <4>1. Jumped /\ Start = seek.ret /\ readPos = 0
        BY <1>1, <1>3, <3>1 DEF Jumped, Start, RingIInv, Seeks
      <4> QED BY <1>1, <1>3, <2>4, <3>1, <4>1
    <3>2. CASE ~(seek.ret >= 0)
      BY <1>3, <2>4, <3>2 DEF Jumped, Start
    <3> QED BY <3>1, <3>2
  <2>6. Bounds' /\ Contents' /\ Ends'
    BY <1>3, <2>5, Untouched DEF AwaitSeek
  <2>7. Seeks'
    BY <1>1, <1>3, <2>1, <2>4 DEF RingIInv, Seeks
  <2>8. ReadExact'
    <3>1. seek.ret # Eof
      BY <1>1 DEF IoError, Eof
    <3> QED BY <2>1, <3>1, NothingRead
  <2> QED BY <2>3, <2>6, <2>7, <2>8 DEF RingIInv
<1>4. CASE mainWaits' = TRUE /\ WakeTask /\ UNCHANGED <<io, logical, user, got>>
  <2>1. RingTypeOK'
    BY <1>4 DEF AwaitSeek, RingIInv, RingTypeOK, WakeTask
  <2>2. Start' = Start /\ Jumped' = Jumped
    BY <1>1, <1>4 DEF Start, Jumped
  <2>3. Bounds' /\ Contents' /\ Ends'
    BY <1>4, <2>2, Untouched DEF AwaitSeek
  <2>4. Seeks'
    BY <1>1, <1>4, <2>2 DEF RingIInv, Seeks
  <2>5. ReadExact'
    BY <1>4 DEF RingIInv, ReadExact
  <2> QED BY <2>1, <2>3, <2>4, <2>5 DEF RingIInv
<1> QED BY <1>2, <1>3, <1>4 DEF AwaitSeek

(* What is taken off the ring moves where it begins. *)
Drains(d) == fifo' = [fifo EXCEPT !.rptr = At(@ + d), !.rndx = (@ + d) % NdxMod]

LEMMA Drained ==
  ASSUME RingIInv, NEW d \in Nat, d <= FifoSize, Drains(d)
  PROVE  /\ fifo' \in [bytes: [0 .. Size - 1 -> Int], rptr: 0 .. Size - 1, wptr: 0 .. Size - 1,
                       rndx: 0 .. NdxMod - 1, wndx: 0 .. NdxMod - 1]
         /\ FifoSize' = FifoSize - d
         /\ fifo'.rptr = At(fifo.rptr + d) /\ fifo'.wptr = fifo.wptr /\ fifo'.bytes = fifo.bytes
<1>1. /\ fifo.rptr \in 0 .. Size - 1 /\ fifo.wndx \in 0 .. NdxMod - 1
      /\ fifo.rndx \in 0 .. NdxMod - 1
      /\ fifo \in [bytes: [0 .. Size - 1 -> Int], rptr: 0 .. Size - 1, wptr: 0 .. Size - 1,
                   rndx: 0 .. NdxMod - 1, wndx: 0 .. NdxMod - 1]
  BY DEF RingIInv, RingTypeOK
<1>2. d \in 0 .. Size /\ FifoSize \in 0 .. Size
  BY StoredType, RingConstants
<1>3. At(fifo.rptr + d) \in 0 .. Size - 1
  <2>1. fifo.rptr + d \in 0 .. 2 * Size - 1
    BY <1>1, <1>2, RingConstants, SMTT(30)
  <2> QED BY <2>1, AtIs
<1>4. /\ (fifo.rndx + d) % NdxMod = IF fifo.rndx + d < NdxMod THEN fifo.rndx + d ELSE fifo.rndx + d - NdxMod
      /\ (fifo.rndx + d) % NdxMod \in 0 .. NdxMod - 1
  BY <1>1, <1>2, IndexAfter
<1>5. /\ fifo'.rptr = At(fifo.rptr + d) /\ fifo'.wptr = fifo.wptr /\ fifo'.bytes = fifo.bytes
      /\ fifo'.wndx = fifo.wndx /\ fifo'.rndx = (fifo.rndx + d) % NdxMod
  BY <1>1 DEF Drains
<1>6. fifo'.rndx \in 0 .. NdxMod - 1
  BY <1>4, <1>5
<1>7. fifo' \in [bytes: [0 .. Size - 1 -> Int], rptr: 0 .. Size - 1, wptr: 0 .. Size - 1,
                rndx: 0 .. NdxMod - 1, wndx: 0 .. NdxMod - 1]
  BY <1>1, <1>3, <1>5, <1>6 DEF Drains
<1>8. FifoSize' = FifoSize - d
  <2>1. PICK x \in 0 .. NdxMod - 1, y \in 0 .. NdxMod - 1, w \in 0 .. NdxMod - 1 :
           x = fifo.rndx /\ y = fifo'.rndx /\ w = fifo.wndx
    BY <1>1, <1>6
  <2>2. FifoSize' = (w - y) % NdxMod /\ FifoSize = (w - x) % NdxMod
    BY <1>5, <2>1 DEF FifoSize
  <2>3. /\ (w - y) % NdxMod = IF w < y THEN w - y + NdxMod ELSE w - y
        /\ (w - x) % NdxMod = IF w < x THEN w - x + NdxMod ELSE w - x
    BY Distance
  <2>4. y = IF x + d < NdxMod THEN x + d ELSE x + d - NdxMod
    BY <1>4, <1>5, <2>1
  <2> DEFINE new == FifoSize'
             old == FifoSize
  <2>5. /\ new = IF w < y THEN w - y + NdxMod ELSE w - y
        /\ old = IF w < x THEN w - x + NdxMod ELSE w - x
        /\ old \in 0 .. Size /\ d <= old
    BY <1>2, <2>2, <2>3
  <2> HIDE DEF new, old
  <2>6. new = old - d
    BY <2>4, <2>5, RingConstants
  <2> QED BY <2>6 DEF new, old
<1> QED BY <1>5, <1>7, <1>8

(* The bytes that are copied are those at the position of the caller.        *)
LEMMA Copied ==
  ASSUME RingIInv, ~io.abort, user.at # "await", NEW n \in Nat, n <= RingSize, NEW i \in 1 .. n
  PROVE  fifo.bytes[At(fifo.rptr + readPos + i - 1)] = logical + i - 1
<1>1. /\ FifoSize \in 0 .. Size /\ Stored \in 0 .. Size /\ FifoSize <= Stored
      /\ readPos \in Nat /\ logical \in Nat /\ fifo.rptr \in 0 .. Size - 1
  BY StoredType
<1>2. Start = logical - readPos
  BY NotJumped
<1> DEFINE k == readPos + i - 1
<1>3. k \in 0 .. Stored - 1
  BY <1>1 DEF RingSize
<1>4. fifo.bytes[At(fifo.rptr + k)] = Start + k
  BY <1>3 DEF RingIInv, Contents
<1>5. fifo.rptr + k = fifo.rptr + readPos + i - 1 /\ Start + k = logical + i - 1
  BY <1>1, <1>2
<1> QED BY <1>4, <1>5

LEMMA ReadCopiesStep == ASSUME RingIInv, ReadCopies PROVE RingIInv'
<1> DEFINE n == Min2(user.toRead, RingSize)
           drain == readPos + n - Back
           d == IF drain <= 0 THEN 0 ELSE drain
<1>1. /\ user.at \in {"read", "skip"} /\ ~io.abort /\ RingSize > 0
      /\ RingRead(n) /\ logical' = logical + n
      /\ UNCHANGED <<inner, seek, io, sized, task>> /\ taskWaits' = FALSE
  BY DEF ReadCopies, InRead, Continues, WakeTask
<1>2. \/ /\ user.at = "read" /\ mainWaits' = mainWaits
         /\ user' = [at |-> "idle", toRead |-> 0, target |-> 0]
         /\ got' = [ret |-> n, from |-> logical, bytes |-> Bytes(n)]
      \/ /\ user.at = "skip" /\ mainWaits' = mainWaits
         /\ user' = [at |-> "idle", toRead |-> 0, target |-> 0]
         /\ got' = [Nothing EXCEPT !.ret = logical']
      \/ /\ user.at = "skip" /\ mainWaits' = TRUE
         /\ user' = [user EXCEPT !.toRead = @ - n] /\ got' = got
  BY <1>1 DEF ReadCopies, ReadReturns, SeekReturns, Idle, CallIs
<1>3. /\ FifoSize \in 0 .. Size /\ Stored \in 0 .. Size /\ FifoSize <= Stored
      /\ logical \in Nat /\ fifo.rptr \in 0 .. Size - 1 /\ readPos \in 0 .. Back
      /\ Start = logical - readPos /\ Start \in Int
  BY <1>1, StoredType, NotJumped DEF RingIInv, RingTypeOK
<1>4. user.toRead \in Nat /\ RingSize = FifoSize - readPos
  BY DEF RingIInv, RingTypeOK, RingSize
<1>5. n \in Nat /\ n <= user.toRead /\ n <= RingSize /\ readPos + n <= FifoSize
  BY <1>1, <1>3, <1>4 DEF Min2
<1>6. \/ drain <= 0 /\ readPos' = readPos + n /\ fifo' = fifo
      \/ drain > 0 /\ readPos' = Back /\ Drains(drain)
  BY <1>1, <1>3, <1>5, RingConstants DEF RingRead, Drains
<1> HIDE DEF n
<1>7. /\ d \in Nat /\ d <= FifoSize /\ readPos' = readPos + n - d /\ readPos' \in 0 .. Back
  BY <1>3, <1>5, <1>6, RingConstants
<1>8. /\ fifo' \in [bytes: [0 .. Size - 1 -> Int], rptr: 0 .. Size - 1, wptr: 0 .. Size - 1,
                    rndx: 0 .. NdxMod - 1, wndx: 0 .. NdxMod - 1]
      /\ FifoSize' = FifoSize - d
      /\ fifo'.rptr = At(fifo.rptr + d) /\ fifo'.wptr = fifo.wptr /\ fifo'.bytes = fifo.bytes
  <2>1. CASE drain <= 0
    <3>1. d = 0 /\ fifo' = fifo
      BY <1>3, <1>5, <1>6, <2>1, RingConstants
    <3>2. At(fifo.rptr) = fifo.rptr
      BY <1>3, RingConstants, AtIs
    <3>3. fifo.rptr + d = fifo.rptr /\ FifoSize - d = FifoSize
      BY <1>3, <3>1
    <3>4. FifoSize' = FifoSize
      BY <3>1 DEF FifoSize
    <3> QED BY <3>1, <3>2, <3>3, <3>4 DEF RingIInv, RingTypeOK
  <2>2. CASE drain > 0
    <3>1. d = drain /\ Drains(d)
      BY <1>3, <1>5, <1>6, <2>2, RingConstants
    <3> HIDE DEF d
    <3> QED BY <1>7, <3>1, Drained
  <2>3. drain <= 0 \/ drain > 0
    BY <1>6
  <2> HIDE DEF d, drain
  <2> QED BY <2>1, <2>2, <2>3
<1> HIDE DEF d
<1>9. RingTypeOK'
  <2>1. user' \in [at: {"idle", "skip"}, toRead: Nat, target: Nat] /\ mainWaits' \in BOOLEAN
    <3>1. user.toRead - n \in Nat /\ user.target \in Nat /\ mainWaits \in BOOLEAN
      BY <1>4, <1>5, SMTT(30) DEF RingIInv, RingTypeOK
    <3>2. user \in [at: {"idle", "read", "skip", "current", "cannot", "back", "slow", "await",
                         "join", "closed"}, toRead: Nat, target: Nat]
      BY DEF RingIInv, RingTypeOK
    <3>3. ASSUME user.at = "skip" /\ user' = [user EXCEPT !.toRead = @ - n]
          PROVE  user' \in [at: {"idle", "skip"}, toRead: Nat, target: Nat]
      BY <3>1, <3>2, <3>3
    <3>4. ASSUME user' = [at |-> "idle", toRead |-> 0, target |-> 0]
          PROVE  user' \in [at: {"idle", "skip"}, toRead: Nat, target: Nat]
      BY <3>4
    <3>5. mainWaits' \in BOOLEAN
      BY <1>2, <3>1
    <3> QED BY <1>2, <3>3, <3>4, <3>5
  <2>2. logical' \in Nat
    BY <1>1, <1>3, <1>5
  <2> QED BY <1>1, <1>7, <1>8, <2>1, <2>2 DEF RingIInv, RingTypeOK
<1>10. user'.at \in {"idle", "skip"} /\ ~Jumped' /\ Start' = Start + d
  <2>1. user'.at \in {"idle", "skip"}
    <3>1. /\ user.at = "skip" => [user EXCEPT !.toRead = @ - n].at = "skip"
          /\ [at |-> "idle", toRead |-> 0, target |-> 0].at = "idle"
      BY DEF RingIInv, RingTypeOK
    <3>2. \/ user' = [at |-> "idle", toRead |-> 0, target |-> 0]
          \/ user.at = "skip" /\ user' = [user EXCEPT !.toRead = @ - n]
      BY <1>2
    <3> QED BY <3>1, <3>2
  <2>2. ~Jumped' /\ Start' = logical' - readPos'
    BY <2>1 DEF Jumped, Start
  <2> QED BY <1>1, <1>3, <1>5, <1>7, <2>1, <2>2
<1>11. Writing' = Writing /\ Stored' = Stored - d /\ task' = task /\ task.done \in Nat
  <2>1. task' = task /\ Writing' = Writing /\ task.done \in Nat
    BY <1>1, StoredType DEF Writing
  <2>2. FifoSize' = FifoSize - d
    BY <1>8
  <2>3. Stored' = FifoSize' + (IF Writing THEN task.done ELSE 0)
    BY <2>1 DEF Stored
  <2>4. Stored' = Stored - d
    BY <1>3, <1>7, <2>1, <2>2, <2>3 DEF Stored
  <2> QED BY <2>1, <2>4
<1>12. ASSUME NEW k \in Nat, d + k <= Size PROVE At(fifo'.rptr + k) = At(fifo.rptr + d + k)
  <2>1. At(At(fifo.rptr + d) + k) = At(fifo.rptr + d + k)
    BY <1>3, <1>7, <1>12, AtAfter
  <2> QED BY <1>8, <2>1
<1>13. Bounds'
  <2>1. readPos' <= FifoSize' /\ Stored' <= Size
    BY <1>3, <1>5, <1>7, <1>8, <1>11, RingConstants
  <2>2. fifo'.wptr = At(fifo'.rptr + FifoSize')
    <3>1. At(fifo'.rptr + (FifoSize - d)) = At(fifo.rptr + d + (FifoSize - d))
      BY <1>3, <1>7, <1>12, RingConstants
    <3>2. fifo.rptr + d + (FifoSize - d) = fifo.rptr + FifoSize
      BY <1>3, <1>7, RingConstants
    <3> QED BY <1>8, <3>1, <3>2 DEF RingIInv, Bounds
  <2>3. ASSUME Writing' PROVE task'.wptr = At(fifo'.rptr + Stored')
    <3>1. At(fifo'.rptr + (Stored - d)) = At(fifo.rptr + d + (Stored - d))
      BY <1>3, <1>7, <1>12, RingConstants
    <3>2. fifo.rptr + d + (Stored - d) = fifo.rptr + Stored
      BY <1>3, <1>7, RingConstants
    <3> QED BY <1>11, <2>3, <3>1, <3>2 DEF RingIInv, Bounds
  <2>4. task'.at = "write" => task'.left > 0 /\ Stored' + task'.left <= Size
    <3>1. task.at = "write" => task.left > 0 /\ Stored + task.left <= Size /\ task.left \in Nat
      BY DEF RingIInv, RingTypeOK, Bounds
    <3> QED BY <1>3, <1>7, <1>11, <3>1, RingConstants
  <2> QED BY <2>1, <2>2, <2>3, <2>4 DEF Bounds
<1>14. Contents'
  <2>1. inner'.pos = Start' + Stored'
    <3>1. inner.pos = Start + Stored
      BY <1>1 DEF RingIInv, Contents
    <3> QED BY <1>1, <1>3, <1>7, <1>10, <1>11, <3>1
  <2>2. ASSUME NEW k \in 0 .. Stored' - 1 PROVE fifo'.bytes[At(fifo'.rptr + k)] = Start' + k
    <3>1. k \in Nat /\ d + k \in 0 .. Stored - 1 /\ d + k <= Size
      BY <1>3, <1>7, <1>11, RingConstants
    <3>2. fifo.bytes[At(fifo.rptr + (d + k))] = Start + (d + k)
      BY <1>1, <3>1 DEF RingIInv, Contents
    <3>3. fifo.rptr + (d + k) = fifo.rptr + d + k /\ Start + (d + k) = Start + d + k
      BY <1>3, <1>7, <3>1
    <3>4. At(fifo'.rptr + k) = At(fifo.rptr + d + k)
      BY <1>12, <3>1
    <3> QED BY <1>8, <1>10, <3>2, <3>3, <3>4
  <2> QED BY <2>1, <2>2 DEF Contents
<1>15. Ends'
  BY <1>1 DEF RingIInv, Ends
<1>16. Seeks'
  BY <1>1, <1>10 DEF RingIInv, Seeks
<1>17. ReadExact'
  <2>1. CASE got' = [ret |-> n, from |-> logical, bytes |-> Bytes(n)]
    <3>1. got'.bytes = Bytes(n) /\ got'.from = logical /\ got'.ret = n
      BY <2>1
    <3>2. Len(Bytes(n)) = n /\ \A i \in 1 .. n : Bytes(n)[i] = fifo.bytes[At(fifo.rptr + readPos + i - 1)]
      BY <1>5 DEF Bytes
    <3>3. \A i \in 1 .. n : Bytes(n)[i] = logical + i - 1
      <4> SUFFICES ASSUME NEW i \in 1 .. n PROVE Bytes(n)[i] = logical + i - 1
        OBVIOUS
      <4>1. fifo.bytes[At(fifo.rptr + readPos + i - 1)] = logical + i - 1
        BY <1>1, <1>5, Copied
      <4> QED BY <3>2, <4>1
    <3> QED BY <1>5, <3>1, <3>2, <3>3 DEF ReadExact, Eof
  <2>2. CASE got' = [Nothing EXCEPT !.ret = logical']
    <3>1. logical' # Eof
      BY <1>1, <1>3, <1>5 DEF Eof
    <3> QED BY <2>2, <3>1, NothingRead
  <2>3. CASE got' = got
    BY <2>3 DEF RingIInv, ReadExact
  <2> QED BY <1>2, <2>1, <2>2, <2>3
<1> QED BY <1>9, <1>13, <1>14, <1>15, <1>16, <1>17 DEF RingIInv

-----------------------------------------------------------------------------
(* The thread.  A call under way goes on, with the result it has so far.     *)
LEMMA TaskExitsStep == ASSUME RingIInv, TaskExits PROVE RingIInv'
<1>1. task.at = "check" /\ task'.at = "exited" /\ io'.abort
  BY DEF TaskExits, Runs, RingIInv, RingTypeOK
<1>2. RingTypeOK'
  <2>1. io' \in [innerError: Errors, error: Errors, eof: BOOLEAN, abort: BOOLEAN]
    BY DEF TaskExits, RingIInv, RingTypeOK, Errors
  <2>2. task' \in [at: {"check", "write", "publish", "finish", "exited"}, left: Nat, done: Nat,
                  wptr: 0 .. Size - 1] /\ mainWaits' \in BOOLEAN
    BY DEF TaskExits, WakeMain, RingIInv, RingTypeOK
  <2> QED BY <2>1, <2>2 DEF TaskExits, RingIInv, RingTypeOK
<1>3. FifoSize' = FifoSize /\ ~Writing /\ ~Writing' /\ Stored' = Stored /\ Jumped' = Jumped
  BY <1>1 DEF TaskExits, FifoSize, Writing, Stored, Jumped
<1>4. Bounds'
  BY <1>1, <1>3 DEF TaskExits, RingIInv, Bounds
<1>5. Seeks'
  BY <1>1, <1>3 DEF TaskExits, RingIInv, Seeks
<1>6. Contents' /\ Ends'
  BY <1>1 DEF Contents, Ends
<1>7. ReadExact'
  BY DEF TaskExits, RingIInv, ReadExact
<1> QED BY <1>2, <1>4, <1>5, <1>6, <1>7 DEF RingIInv

LEMMA TaskSeeksStep == ASSUME RingIInv, TaskSeeks PROVE RingIInv'
<1>1. /\ task.at = "check" /\ task' = task /\ ~io.abort /\ seek.request /\ user' = user /\ logical' = logical
      /\ user.at = "await" /\ ~seek.completed /\ ~Jumped /\ ~Writing /\ ~Writing'
      /\ mainWaits' = FALSE /\ UNCHANGED <<sized, got, taskWaits>> /\ seek.pos \in Nat
  <2>1. /\ task.at = "check" /\ task' = task /\ ~io.abort /\ seek.request /\ user' = user /\ logical' = logical
        /\ mainWaits' = FALSE /\ UNCHANGED <<sized, got, taskWaits>>
    BY DEF TaskSeeks, Runs, Continues, WakeMain
  <2>2. user.at = "await" /\ ~seek.completed /\ seek.pos \in Nat
    BY <2>1 DEF RingIInv, RingTypeOK, Seeks
  <2> QED BY <2>1, <2>2 DEF Jumped, Writing
<1>2. CASE /\ inner' = [inner EXCEPT !.pos = seek.pos]
           /\ io' = Restarted
           /\ fifo' = EmptyFifo(fifo.bytes) /\ readPos' = 0
           /\ Answered(seek.pos)
  <2>1. /\ inner' \in [pos: Nat, fails: Nat] /\ inner'.pos = seek.pos
        /\ io' \in [innerError: Errors, error: Errors, eof: BOOLEAN, abort: BOOLEAN]
        /\ io'.eof = FALSE /\ io'.error = 0
    BY <1>1, <1>2 DEF Restarted, RingIInv, RingTypeOK, Errors
  <2>2. /\ seek' \in [request: BOOLEAN, pos: Nat, completed: BOOLEAN, ret: Nat \cup {IoError}]
        /\ seek'.request = FALSE /\ seek'.completed = TRUE /\ seek'.ret = seek.pos
    BY <1>1, <1>2 DEF Answered, RingIInv, RingTypeOK
  <2>3. /\ fifo' \in [bytes: [0 .. Size - 1 -> Int], rptr: 0 .. Size - 1, wptr: 0 .. Size - 1,
                      rndx: 0 .. NdxMod - 1, wndx: 0 .. NdxMod - 1]
        /\ fifo'.rptr = 0 /\ fifo'.wptr = 0 /\ fifo'.rndx = 0 /\ fifo'.wndx = 0
    <3>1. fifo.bytes \in [0 .. Size - 1 -> Int]
      BY DEF RingIInv, RingTypeOK
    <3> QED BY <1>2, <3>1, RingConstants DEF EmptyFifo
  <2>4. FifoSize' = 0
    <3>1. PICK w \in 0 .. NdxMod - 1, x \in 0 .. NdxMod - 1 : w = 0 /\ x = 0
      BY RingConstants
    <3>2. (w - x) % NdxMod = 0
      BY <3>1, Distance
    <3> QED BY <2>3, <3>1, <3>2, RingConstants DEF FifoSize
  <2>5. Stored' = 0 /\ Jumped' /\ Start' = seek.pos /\ At(0) = 0
    <3>1. Stored' = FifoSize'
      BY <1>1, <2>4 DEF Stored
    <3>2. Jumped'
      BY <1>1, <2>2 DEF Jumped
    <3>3. Start' = seek.pos
      BY <2>2, <3>2 DEF Start
    <3> QED BY <2>4, <3>1, <3>2, <3>3, AtIs, RingConstants
  <2>6. RingTypeOK'
    <3>1. readPos' \in 0 .. Back
      BY <1>2, RingConstants
    <3> QED BY <1>1, <2>1, <2>2, <2>3, <3>1 DEF RingIInv, RingTypeOK
  <2>7. Bounds'
    BY <1>1, <1>2, <2>3, <2>4, <2>5, RingConstants DEF Bounds
  <2>8. Seeks'
    BY <1>1, <1>2, <2>2 DEF Seeks
  <2>9. Contents'
    BY <1>1, <2>1, <2>5 DEF Contents
  <2>10. Ends'
    BY <1>1, <2>1 DEF Ends
  <2>11. ReadExact'
    BY <1>1 DEF RingIInv, ReadExact
  <2> QED BY <2>6, <2>7, <2>8, <2>9, <2>10, <2>11 DEF RingIInv
<1>3. CASE /\ CanFail /\ inner' = [inner EXCEPT !.fails = @ + 1]
           /\ Answered(IoError) /\ UNCHANGED <<io, fifo, readPos>>
  <2>1. inner' \in [pos: Nat, fails: Nat] /\ inner'.pos = inner.pos
    <3>1. inner \in [pos: Nat, fails: Nat]
      BY DEF RingIInv, RingTypeOK
    <3> QED BY <1>3, <3>1
  <2>2. /\ seek' \in [request: BOOLEAN, pos: Nat, completed: BOOLEAN, ret: Nat \cup {IoError}]
        /\ seek'.request = FALSE /\ seek'.completed = TRUE /\ seek'.ret = IoError
    BY <1>1, <1>3 DEF Answered, RingIInv, RingTypeOK
  <2>3. FifoSize' = FifoSize /\ Writing' = Writing /\ Stored' = Stored /\ ~Jumped' /\ Start' = Start
    <3>1. ~Jumped'
      BY <2>2 DEF Jumped, IoError
    <3>2. Start' = Start
      BY <1>1, <1>3, <3>1 DEF Start
    <3> QED BY <1>1, <1>3, <3>1, <3>2 DEF FifoSize, Writing, Stored
  <2>4. RingTypeOK'
    BY <1>1, <1>3, <2>1, <2>2 DEF RingIInv, RingTypeOK
  <2>5. Bounds'
    BY <1>1, <1>3, <2>3 DEF RingIInv, Bounds
  <2>6. Seeks'
    BY <1>1, <2>2, <2>3 DEF Seeks
  <2>7. Contents'
    BY <1>3, <2>1, <2>3 DEF RingIInv, Contents
  <2>8. Ends'
    BY <1>1, <1>3, <2>1 DEF RingIInv, Ends
  <2>9. ReadExact'
    BY <1>1 DEF RingIInv, ReadExact
  <2> QED BY <2>4, <2>5, <2>6, <2>7, <2>8, <2>9 DEF RingIInv
<1> QED BY <1>2, <1>3 DEF TaskSeeks

LEMMA TaskRestsStep == ASSUME RingIInv, TaskRests PROVE RingIInv'
<1>1. RingTypeOK'
  BY ZenonT(40) DEF TaskRests, RingIInv, RingTypeOK, WakeMain
<1>2. Start' = Start /\ Jumped' = Jumped
  BY DEF TaskRests, Start, Jumped
<1>3. Bounds' /\ Contents' /\ Ends'
  BY <1>2, Untouched DEF TaskRests
<1>4. Seeks'
  BY <1>2 DEF TaskRests, RingIInv, Seeks
<1>5. ReadExact'
  BY DEF TaskRests, RingIInv, ReadExact
<1> QED BY <1>1, <1>3, <1>4, <1>5 DEF RingIInv

(* Where the ring begins does not change while the thread writes. *)
LEMMA NotMoved ==
  ASSUME RingIInv, UNCHANGED <<readPos, seek, logical, user>>
  PROVE  Start' = Start /\ Jumped' = Jumped /\ (io'.abort = io.abort \/ io'.abort => Seeks')
<1>1. Start' = Start /\ Jumped' = Jumped
  BY DEF Start, Jumped
<1> QED BY <1>1 DEF RingIInv, Seeks

LEMMA StartWriteStep == ASSUME RingIInv, StartWrite PROVE RingIInv'
<1>1. /\ task.at = "check" /\ ~io.abort /\ ~io.eof /\ RingSpace > 0
      /\ task' = [at |-> "write", left |-> Min2(Chunk, RingSpace), done |-> 0, wptr |-> fifo.wptr]
      /\ UNCHANGED <<fifo, readPos, inner, seek, io, logical, sized, user, got, mainWaits, taskWaits>>
  BY DEF StartWrite, Runs, Continues
<1>2. FifoSize \in 0 .. Size /\ RingSpace = Size - FifoSize /\ fifo.wptr \in 0 .. Size - 1
  BY StoredType DEF RingSpace, RingIInv, RingTypeOK
<1>3. /\ Min2(Chunk, RingSpace) \in Nat /\ Min2(Chunk, RingSpace) > 0
      /\ Min2(Chunk, RingSpace) <= RingSpace
  BY <1>1, <1>2, RingConstants DEF Min2
<1>4. RingTypeOK'
  <2>1. task' \in [at: {"check", "write", "publish", "finish", "exited"}, left: Nat, done: Nat,
                  wptr: 0 .. Size - 1]
    BY <1>1, <1>2, <1>3
  <2> QED BY <1>1, <2>1 DEF RingIInv, RingTypeOK
<1>5. FifoSize' = FifoSize /\ Stored' = Stored /\ Stored = FifoSize
  BY <1>1, <1>2 DEF FifoSize, Stored, Writing
<1>6. Bounds'
  <2>1. task'.wptr = At(fifo'.rptr + Stored')
    BY <1>1, <1>5 DEF RingIInv, Bounds
  <2>2. task'.left > 0 /\ Stored' + task'.left <= Size
    BY <1>1, <1>2, <1>3, <1>5, RingConstants
  <2> QED BY <1>1, <1>5, <2>1, <2>2 DEF RingIInv, Bounds
<1>7. Start' = Start /\ Seeks'
  BY <1>1, NotMoved
<1>8. Contents'
  BY <1>1, <1>5, <1>7 DEF RingIInv, Contents
<1>9. Ends'
  BY <1>1 DEF RingIInv, Ends
<1>10. ReadExact'
  BY <1>1 DEF RingIInv, ReadExact
<1> QED BY <1>4, <1>6, <1>7, <1>8, <1>9, <1>10 DEF RingIInv

(* What is written follows what is stored and covers none of it, although    *)
(* the ring may go round its end.                                            *)
LEMMA WriteChunkStep == ASSUME RingIInv, WriteChunk PROVE RingIInv'
<1>1. PICK n \in 1 .. Min2(task.left, Size - task.wptr) :
         /\ fifo' = [fifo EXCEPT !.bytes = Written(task.wptr, n)]
         /\ inner' = [inner EXCEPT !.pos = @ + n]
         /\ task' = [task EXCEPT !.at = IF n = task.left THEN "publish" ELSE "write",
                                 !.left = @ - n, !.done = @ + n, !.wptr = At(@ + n)]
  BY Zenon DEF WriteChunk
<1>2. /\ task.at = "write" /\ io' = [io EXCEPT !.innerError = 0]
      /\ UNCHANGED <<readPos, seek, logical, sized, user, got, mainWaits, taskWaits>>
  BY DEF WriteChunk, Runs
<1>3. /\ task.left \in Nat /\ task.wptr \in 0 .. Size - 1 /\ task.done \in Nat /\ inner.pos \in Nat
      /\ fifo.rptr \in 0 .. Size - 1 /\ Stored \in 0 .. Size /\ Start \in Int
      /\ task.wptr = At(fifo.rptr + Stored) /\ Stored + task.left <= Size
  BY <1>2, StoredType DEF RingIInv, RingTypeOK, Bounds, Writing
<1>4. n \in Nat \ {0} /\ n <= task.left /\ task.wptr + n <= Size /\ Stored + n <= Size
  BY <1>3, RingConstants DEF Min2
<1>5. At(task.wptr + n) = At(fifo.rptr + (Stored + n)) /\ At(task.wptr + n) \in 0 .. Size - 1
  <2>1. At(At(fifo.rptr + Stored) + n) = At(fifo.rptr + Stored + n)
    BY <1>3, <1>4, AtAfter
  <2>2. fifo.rptr + Stored + n = fifo.rptr + (Stored + n)
    BY <1>3, <1>4
  <2>3. task.wptr + n \in 0 .. 2 * Size - 1
    BY <1>3, <1>4, RingConstants
  <2> QED BY <1>3, <2>1, <2>2, <2>3, AtIs
<1>6. /\ fifo' \in [bytes: [0 .. Size - 1 -> Int], rptr: 0 .. Size - 1, wptr: 0 .. Size - 1,
                    rndx: 0 .. NdxMod - 1, wndx: 0 .. NdxMod - 1]
      /\ fifo'.bytes = Written(task.wptr, n)
      /\ fifo'.rptr = fifo.rptr /\ fifo'.wptr = fifo.wptr /\ fifo'.rndx = fifo.rndx /\ fifo'.wndx = fifo.wndx
  <2>1. Written(task.wptr, n) \in [0 .. Size - 1 -> Int]
    <3>1. fifo.bytes \in [0 .. Size - 1 -> Int]
      BY DEF RingIInv, RingTypeOK
    <3>2. PICK p \in Int, o \in Int : p = task.wptr /\ o = inner.pos
      BY <1>3
    <3>3. \A i \in 0 .. Size - 1 : o + i - p \in Int /\ fifo.bytes[i] \in Int
      <4>1. \A i \in 0 .. Size - 1 : o + i - p \in Int
        BY RingConstants
      <4>2. \A i \in 0 .. Size - 1 : fifo.bytes[i] \in Int
        BY <3>1
      <4> QED BY <4>1, <4>2
    <3>4. [i \in 0 .. Size - 1 |-> IF i \in p .. p + n - 1 THEN o + i - p ELSE fifo.bytes[i]]
            \in [0 .. Size - 1 -> Int]
      BY <3>3
    <3> QED BY <3>2, <3>4 DEF Written
  <2> QED BY <1>1, <2>1 DEF RingIInv, RingTypeOK
<1>7. /\ task' \in [at: {"check", "write", "publish", "finish", "exited"}, left: Nat, done: Nat,
                    wptr: 0 .. Size - 1]
      /\ task'.at = (IF n = task.left THEN "publish" ELSE "write")
      /\ task'.left = task.left - n /\ task'.done = task.done + n /\ task'.wptr = At(task.wptr + n)
  <2>1. task \in [at: {"check", "write", "publish", "finish", "exited"}, left: Nat, done: Nat,
                  wptr: 0 .. Size - 1]
    BY DEF RingIInv, RingTypeOK
  <2>2. task.left - n \in Nat /\ task.done + n \in Nat
    BY <1>3, <1>4
  <2> QED BY <1>1, <1>5, <2>1, <2>2
<1>8. RingTypeOK'
  <2>1. io' \in [innerError: Errors, error: Errors, eof: BOOLEAN, abort: BOOLEAN]
    BY <1>2 DEF RingIInv, RingTypeOK, Errors
  <2>2. inner' \in [pos: Nat, fails: Nat]
    <3>1. inner.pos + n \in Nat
      BY <1>3, <1>4
    <3> QED BY <1>1, <3>1 DEF RingIInv, RingTypeOK
  <2> QED BY <1>2, <1>6, <1>7, <2>1, <2>2 DEF RingIInv, RingTypeOK
<1>9. FifoSize' = FifoSize /\ Stored' = Stored + n /\ Writing'
  <2>1. FifoSize' = FifoSize
    BY <1>6 DEF FifoSize
  <2>2. Writing /\ Writing'
    BY <1>2, <1>7 DEF Writing
  <2>3. Stored' = FifoSize + (task.done + n)
    BY <1>7, <2>1, <2>2 DEF Stored
  <2>4. Stored = FifoSize + task.done
    BY <2>2 DEF Stored
  <2> QED BY <1>3, <1>4, <2>1, <2>2, <2>3, <2>4, StoredType
<1>10. Bounds'
  <2>1. task'.wptr = At(fifo'.rptr + Stored')
    BY <1>5, <1>6, <1>7, <1>9
  <2>2. task'.at = "write" => task'.left > 0 /\ Stored' + task'.left <= Size
    BY <1>3, <1>4, <1>7, <1>9
  <2>3. fifo'.wptr = At(fifo'.rptr + FifoSize') /\ readPos' <= FifoSize'
    BY <1>2, <1>6, <1>9 DEF RingIInv, Bounds
  <2> QED BY <1>4, <1>9, <2>1, <2>2, <2>3 DEF Bounds
<1>11. Start' = Start /\ Seeks' /\ io'.abort = io.abort /\ io'.eof = io.eof /\ io'.error = io.error
  <2>1. io'.abort = io.abort /\ io'.eof = io.eof /\ io'.error = io.error
    BY <1>2 DEF RingIInv, RingTypeOK
  <2> QED BY <1>2, <2>1, NotMoved
<1>12. ASSUME NEW k \in 0 .. Size - 1
       PROVE  fifo'.bytes[k] = IF k \in task.wptr .. task.wptr + n - 1 THEN inner.pos + k - task.wptr
                                                                       ELSE fifo.bytes[k]
  BY <1>6 DEF Written
<1>13. ASSUME ~io'.abort, NEW k \in 0 .. Stored' - 1
       PROVE  fifo'.bytes[At(fifo'.rptr + k)] = Start' + k
  <2> DEFINE p == fifo.rptr
             a == p + k
             b == p + Stored
             q == At(a)
             e == At(b)
  <2>1. /\ a = p + k /\ a \in 0 .. 2 * Size - 1 /\ b = p + Stored /\ b \in 0 .. 2 * Size - 1
        /\ k \in 0 .. Stored + n - 1 /\ p \in 0 .. Size - 1
    BY <1>3, <1>4, <1>9, RingConstants
  <2> HIDE DEF a, b
  <2>2. q = (IF a < Size THEN a ELSE a - Size) /\ q \in 0 .. Size - 1
    BY <2>1, AtIs
  <2>3. e = IF b < Size THEN b ELSE b - Size
    BY <2>1, AtIs
  <2>4. task.wptr = e /\ fifo'.rptr = p
    BY <1>3, <1>6 DEF b
  <2>5. inner.pos = Start + Stored
    BY <1>11, <1>13 DEF RingIInv, Contents
  <2>6. k < Stored => fifo.bytes[q] = Start + k
    BY <1>11, <1>13, <1>3, <2>1 DEF RingIInv, Contents, a
  <2>7. fifo'.bytes[q] = IF q \in e .. e + n - 1 THEN inner.pos + q - e ELSE fifo.bytes[q]
    BY <1>12, <2>2, <2>4
  <2> HIDE DEF p, q, e
  <2>8. CASE k < Stored
    <3>1. q \notin e .. e + n - 1
      BY <1>3, <1>4, <2>1, <2>2, <2>3, <2>4, <2>8, RingConstants
    <3> QED BY <1>11, <2>4, <2>6, <2>7, <2>8, <3>1 DEF q, p, a
  <2>9. CASE k >= Stored
    <3>1. q = e + (k - Stored)
      BY <1>3, <1>4, <2>1, <2>2, <2>3, <2>4, <2>9, RingConstants
    <3>2. q \in e .. e + n - 1 /\ inner.pos + q - e = Start + k
      BY <1>3, <1>4, <2>1, <2>4, <2>5, <2>9, <3>1
    <3>3. fifo'.bytes[q] = Start + k
      BY <2>7, <3>2
    <3> QED BY <1>11, <2>4, <3>3 DEF q, p, a
  <2> QED BY <1>3, <2>1, <2>8, <2>9
<1>14. Contents'
  <2>1. ~io'.abort => inner'.pos = Start' + Stored'
    <3>1. inner'.pos = inner.pos + n
      BY <1>1 DEF RingIInv, RingTypeOK
    <3>2. ~io.abort => inner.pos = Start + Stored
      BY DEF RingIInv, Contents
    <3> QED BY <1>3, <1>4, <1>9, <1>11, <3>1, <3>2
  <2> QED BY <1>13, <2>1 DEF Contents
<1>15. Ends'
  <2>1. task'.done # 0 /\ task'.at \in {"publish", "write"}
    BY <1>3, <1>4, <1>7
  <2>2. ~io.abort => ~io.eof /\ io.error = 0
    BY <1>2 DEF RingIInv, Ends
  <2> QED BY <1>11, <2>1, <2>2 DEF Ends
<1>16. ReadExact'
  BY <1>2 DEF RingIInv, ReadExact
<1> QED BY <1>8, <1>10, <1>11, <1>14, <1>15, <1>16 DEF RingIInv

LEMMA WriteStopsStep == ASSUME RingIInv, WriteStops PROVE RingIInv'
<1>1. PICK e \in {0, Eof, Exit, IoError} :
         /\ e \in {0, Eof} => inner.pos = Total
         /\ inner' = IF e = IoError THEN [inner EXCEPT !.fails = @ + 1] ELSE inner
         /\ io' = [io EXCEPT !.innerError = e, !.abort = @ \/ e = Exit]
  BY Zenon DEF WriteStops
<1>2. /\ task.at = "write" /\ task' = [task EXCEPT !.at = "publish"]
      /\ UNCHANGED <<fifo, readPos, seek, logical, sized, user, got, mainWaits, taskWaits>>
  BY DEF WriteStops, Runs
<1>3. /\ inner' \in [pos: Nat, fails: Nat] /\ inner'.pos = inner.pos
  BY <1>1, SMTT(30) DEF RingIInv, RingTypeOK
<1>4. /\ io' \in [innerError: Errors, error: Errors, eof: BOOLEAN, abort: BOOLEAN]
      /\ io'.innerError = e /\ io'.eof = io.eof /\ io'.error = io.error
      /\ io'.abort = (io.abort \/ e = Exit)
  BY <1>1 DEF RingIInv, RingTypeOK, Errors
<1>5. /\ task' \in [at: {"check", "write", "publish", "finish", "exited"}, left: Nat, done: Nat,
                    wptr: 0 .. Size - 1]
      /\ task'.at = "publish" /\ task'.left = task.left /\ task'.done = task.done /\ task'.wptr = task.wptr
  BY <1>2 DEF RingIInv, RingTypeOK
<1>6. RingTypeOK'
  BY <1>2, <1>3, <1>4, <1>5 DEF RingIInv, RingTypeOK
<1>7. FifoSize' = FifoSize /\ Writing /\ Writing' /\ Stored' = Stored
  BY <1>2, <1>5 DEF FifoSize, Writing, Stored
<1>8. Bounds'
  BY <1>2, <1>5, <1>7 DEF RingIInv, Bounds
<1>9. Start' = Start /\ Seeks'
  <2>1. CASE e = Exit
    BY <1>2, <1>4, <2>1, NotMoved
  <2>2. CASE e # Exit
    <3>1. io'.abort = io.abort
      BY <1>4, <2>2 DEF RingIInv, RingTypeOK
    <3> QED BY <1>2, <3>1, NotMoved
  <2> QED BY <2>1, <2>2
<1>10. Contents'
  BY <1>2, <1>3, <1>4, <1>7, <1>9 DEF RingIInv, Contents
<1>11. Ends'
  <2>1. ~io'.abort => ~io.abort /\ ~io.eof /\ io.error = 0
    BY <1>2, <1>4 DEF RingIInv, Ends
  <2> QED BY <1>1, <1>3, <1>4, <1>5, <2>1 DEF Ends
<1>12. ReadExact'
  BY <1>2 DEF RingIInv, ReadExact
<1> QED BY <1>6, <1>8, <1>9, <1>10, <1>11, <1>12 DEF RingIInv

(* What was stored is now in the ring. *)
LEMMA PublishStep == ASSUME RingIInv, Publish PROVE RingIInv'
<1>1. /\ task.at = "publish" /\ task' = [task EXCEPT !.at = "finish"]
      /\ fifo' = [fifo EXCEPT !.wndx = (@ + task.done) % NdxMod, !.wptr = task.wptr]
      /\ UNCHANGED <<readPos, inner, seek, io, logical, sized, user, got, mainWaits, taskWaits>>
  BY DEF Publish, Runs
<1>2. /\ Writing /\ Stored = FifoSize + task.done /\ Stored \in 0 .. Size /\ FifoSize \in 0 .. Size
      /\ task.done \in 0 .. Size /\ task.wptr \in 0 .. Size - 1 /\ task.wptr = At(fifo.rptr + Stored)
  <2>1. Writing
    BY <1>1 DEF Writing
  <2>2. Stored = FifoSize + task.done
    BY <2>1 DEF Stored
  <2>3. task.wptr \in 0 .. Size - 1 /\ task.wptr = At(fifo.rptr + Stored)
    BY <2>1 DEF RingIInv, RingTypeOK, Bounds
  <2> QED BY <2>1, <2>2, <2>3, StoredType, RingConstants
<1>3. /\ fifo.wndx \in 0 .. NdxMod - 1 /\ fifo.rndx \in 0 .. NdxMod - 1
      /\ fifo \in [bytes: [0 .. Size - 1 -> Int], rptr: 0 .. Size - 1, wptr: 0 .. Size - 1,
                   rndx: 0 .. NdxMod - 1, wndx: 0 .. NdxMod - 1]
  BY DEF RingIInv, RingTypeOK
<1>4. /\ (fifo.wndx + task.done) % NdxMod = IF fifo.wndx + task.done < NdxMod
            THEN fifo.wndx + task.done ELSE fifo.wndx + task.done - NdxMod
      /\ (fifo.wndx + task.done) % NdxMod \in 0 .. NdxMod - 1
  BY <1>2, <1>3, IndexAfter
<1>5. /\ fifo' \in [bytes: [0 .. Size - 1 -> Int], rptr: 0 .. Size - 1, wptr: 0 .. Size - 1,
                    rndx: 0 .. NdxMod - 1, wndx: 0 .. NdxMod - 1]
      /\ fifo'.rptr = fifo.rptr /\ fifo'.bytes = fifo.bytes /\ fifo'.wptr = task.wptr
      /\ fifo'.rndx = fifo.rndx /\ fifo'.wndx = (fifo.wndx + task.done) % NdxMod
  BY <1>1, <1>2, <1>3, <1>4
<1>6. FifoSize' = Stored
  <2>1. PICK x \in 0 .. NdxMod - 1, v \in 0 .. NdxMod - 1, w \in 0 .. NdxMod - 1 :
           x = fifo.rndx /\ v = fifo.wndx /\ w = fifo'.wndx
    BY <1>3, <1>5
  <2>2. FifoSize' = (w - x) % NdxMod /\ FifoSize = (v - x) % NdxMod
    BY <1>5, <2>1 DEF FifoSize
  <2>3. /\ (w - x) % NdxMod = IF w < x THEN w - x + NdxMod ELSE w - x
        /\ (v - x) % NdxMod = IF v < x THEN v - x + NdxMod ELSE v - x
    BY Distance
  <2>4. w = IF v + task.done < NdxMod THEN v + task.done ELSE v + task.done - NdxMod
    BY <1>4, <1>5, <2>1
  <2> DEFINE new == FifoSize'
             old == FifoSize
  <2>5. /\ new = IF w < x THEN w - x + NdxMod ELSE w - x
        /\ old = IF v < x THEN v - x + NdxMod ELSE v - x
        /\ old \in 0 .. Size /\ old + task.done <= Size /\ Stored = old + task.done
    BY <1>2, <2>2, <2>3
  <2> HIDE DEF new, old
  <2>6. new = old + task.done
    BY <1>2, <2>4, <2>5, RingConstants
  <2> QED BY <2>5, <2>6 DEF new, old
<1>7. ~Writing' /\ Stored' = Stored
  <2>1. ~Writing'
    BY <1>1 DEF Writing, RingIInv, RingTypeOK
  <2>2. Stored' = FifoSize' + 0
    BY <2>1 DEF Stored
  <2> QED BY <1>2, <1>6, <2>1, <2>2
<1>8. task' \in [at: {"check", "write", "publish", "finish", "exited"}, left: Nat, done: Nat,
                wptr: 0 .. Size - 1] /\ task'.at = "finish" /\ task'.done = task.done
  BY <1>1 DEF RingIInv, RingTypeOK
<1>9. RingTypeOK'
  BY <1>1, <1>5, <1>8 DEF RingIInv, RingTypeOK
<1>10. Bounds'
  <2>1. readPos' <= FifoSize' /\ Stored' <= Size
    <3>1. readPos <= FifoSize /\ readPos \in Nat
      BY StoredType DEF RingIInv, Bounds
    <3> QED BY <1>1, <1>2, <1>6, <1>7, <3>1, RingConstants
  <2> QED BY <1>2, <1>5, <1>6, <1>7, <1>8, <2>1 DEF Bounds
<1>11. Start' = Start /\ Seeks'
  BY <1>1, NotMoved
<1>12. Contents'
  BY <1>1, <1>5, <1>7, <1>11 DEF RingIInv, Contents
<1>13. Ends'
  BY <1>1, <1>8 DEF RingIInv, Ends
<1>14. ReadExact'
  BY <1>1 DEF RingIInv, ReadExact
<1> QED BY <1>9, <1>10, <1>11, <1>12, <1>13, <1>14 DEF RingIInv

LEMMA FinishStep == ASSUME RingIInv, Finish PROVE RingIInv'
<1>1. /\ task.at = "finish" /\ task' = [at |-> "check", left |-> 0, done |-> 0, wptr |-> 0] /\ mainWaits' = FALSE
      /\ UNCHANGED <<fifo, readPos, inner, seek, logical, sized, user, got, taskWaits>>
      /\ io' = IF task.done > 0 THEN io
               ELSE [io EXCEPT !.eof = TRUE, !.error = IF io.innerError < 0 THEN io.innerError ELSE @]
  BY DEF Finish, Runs, WakeMain
<1>2. /\ io \in [innerError: Errors, error: Errors, eof: BOOLEAN, abort: BOOLEAN] /\ task.done \in Nat
      /\ io.innerError \in Errors /\ io.error \in Errors
  BY DEF RingIInv, RingTypeOK
<1>3. /\ io' \in [innerError: Errors, error: Errors, eof: BOOLEAN, abort: BOOLEAN]
      /\ io'.abort = io.abort
      /\ task.done > 0 => io' = io
      /\ ~(task.done > 0) => io'.eof = TRUE /\ io'.error = IF io.innerError < 0 THEN io.innerError ELSE io.error
  BY <1>1, <1>2
<1>4. RingTypeOK'
  <2>1. task' \in [at: {"check", "write", "publish", "finish", "exited"}, left: Nat, done: Nat,
                  wptr: 0 .. Size - 1]
    BY <1>1, RingConstants
  <2> QED BY <1>1, <1>3, <2>1 DEF RingIInv, RingTypeOK
<1>5. FifoSize' = FifoSize /\ ~Writing /\ ~Writing' /\ Stored' = Stored
  BY <1>1 DEF FifoSize, Writing, Stored
<1>6. Bounds'
  BY <1>1, <1>5 DEF RingIInv, Bounds
<1>7. Start' = Start /\ Seeks'
  BY <1>1, <1>3, NotMoved
<1>8. Contents'
  BY <1>1, <1>3, <1>5, <1>7 DEF RingIInv, Contents
<1>9. Ends'
  <2> SUFFICES ASSUME ~io.abort
               PROVE  IF io'.eof THEN io'.error \in {0, Eof} => inner.pos = Total ELSE io'.error = 0
    BY <1>1, <1>3 DEF Ends
  <2>1. /\ io.eof = FALSE /\ io.error = 0
        /\ task.done = 0 /\ io.innerError \in {0, Eof} => inner.pos = Total
    BY <1>1, <1>2 DEF RingIInv, Ends
  <2>2. CASE task.done > 0
    BY <1>3, <2>1, <2>2
  <2>3. CASE ~(task.done > 0)
    <3>1. task.done = 0
      BY <1>2, <2>3
    <3>2. io'.error \in {0, Eof} => io.innerError \in {0, Eof}
      BY <1>2, <1>3, <2>1, <2>3 DEF Errors, Eof, Exit, IoError
    <3> QED BY <1>3, <2>1, <2>3, <3>1, <3>2
  <2> QED BY <2>2, <2>3
<1>10. ReadExact'
  BY <1>1 DEF RingIInv, ReadExact
<1> QED BY <1>4, <1>6, <1>7, <1>8, <1>9, <1>10 DEF RingIInv

-----------------------------------------------------------------------------
LEMMA RingStep ==
  ASSUME RingIInv, [RingNext]_ringVars
  PROVE  RingIInv'
<1>1. CASE Read \/ Close
  BY <1>1, ReadStep, CloseStep
<1>2. CASE \E p \in Targets : Seek(p)
  BY <1>2, SeekStep
<1>3. CASE UserStep
  BY <1>3, ReadStoppedStep, ReadCopiesStep, ReadEndsStep, ReadWaitsStep, SeekAnswersStep,
     SeekBackStep, RequestSeekStep, AwaitSeekStep, JoinedStep DEF UserStep
<1>4. CASE TaskStep
  BY <1>4, TaskExitsStep, TaskSeeksStep, TaskRestsStep, StartWriteStep, WriteChunkStep,
     WriteStopsStep, PublishStep, FinishStep DEF TaskStep
<1>5. CASE UNCHANGED ringVars
  <2>1. Start' = Start
    BY <1>5 DEF ringVars, Start, Jumped
  <2>2. Bounds' /\ Contents' /\ Ends'
    BY <1>5, <2>1, Untouched DEF ringVars
  <2>3. RingTypeOK' /\ Seeks' /\ ReadExact'
    BY <1>5 DEF ringVars, RingIInv, RingTypeOK, Seeks, Jumped, ReadExact
  <2> QED BY <2>2, <2>3 DEF RingIInv
<1> QED BY <1>1, <1>2, <1>3, <1>4, <1>5 DEF RingNext, Terminated

(* The types, where the ring begins in the stream, what it holds, what the   *)
(* thread has written and not shown yet, and what an end that was met means: *)
(* inductive, for every size of ring, stream and indices.                    *)
THEOREM RingInvariance == RingSpec => []RingIInv
<1>1. RingInit => RingIInv
  BY RingStarts
<1>2. RingIInv /\ [RingNext]_ringVars => RingIInv'
  BY RingStep
<1> QED BY <1>1, <1>2, PTL DEF RingSpec

(* A read returns the bytes at the position of the caller, and the end of    *)
(* the stream is only reported at its end.                                   *)
THEOREM ReadsAreExact == RingSpec => []ReadExact
<1>1. RingIInv => ReadExact
  BY DEF RingIInv
<1> QED BY RingInvariance, <1>1, PTL
=============================================================================
