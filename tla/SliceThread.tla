----------------------------- MODULE SliceThread -----------------------------
(***************************************************************************)
(* FFmpeg's slice threads: libavutil/slicethread.c, as the codecs use it   *)
(* through libavcodec/pthread_slice.c.  One caller hands out a batch of    *)
(* numbered jobs, takes jobs itself unless it has a main function to run,  *)
(* and comes back when all of them are done.                               *)
(*                                                                         *)
(* There is no list of jobs: a thread draws its first job, which is also   *)
(* its thread number, from first_job and the next ones from current_job.   *)
(* Nobody counts finished jobs either.  Every thread draws once too often, *)
(* and the one that draws the last number is the last to finish.           *)
(*                                                                         *)
(* A worker holds its mutex from its creation on, but while it waits: that *)
(* is what makes the caller wait for one that is late from the last call.  *)
(***************************************************************************)
EXTENDS Integers, FiniteSets

CONSTANTS
  NbThreads, \* the nb_threads asked for
  HasMain,   \* avpriv_slicethread_create was given a main_func
  MaxJobs,   \* bound of the model: jobs of one call
  MaxCalls   \* bound of the model: calls of thread_execute

ASSUME SliceAssumption ==
  NbThreads \in Nat \ {0} /\ HasMain \in BOOLEAN /\ MaxJobs \in Nat \ {0} /\ MaxCalls \in Nat

Caller  == 0
Workers == 1 .. IF HasMain THEN NbThreads ELSE NbThreads - 1
Threads == Workers \cup {Caller}
Jobs    == 0 .. MaxJobs - 1
Minimum(a, b) == IF a < b THEN a ELSE b

VARIABLES
  pc, asleep,            \* per thread: where it is; per worker: w->done
  turn,                  \* the caller's loop variable i, counted from 1
  first, cur,            \* per thread: the first_job and current_job of run_jobs
  nbThreads, nbJobs,     \* ctx->nb_threads, ctx->nb_jobs
  withMain,              \* execute_main of the call, and a main_func to go with it
  firstJob, currentJob,  \* the two shared counters
  done, finished,        \* ctx->done, ctx->finished
  args, rets,            \* the call, as its jobs see it; what each job wrote to rets
  runs,                  \* history: how often each job of this call was run
  took, out              \* history: who has drawn a first job, a last number

counters == <<first, cur, firstJob, currentJob, took, out>>
callVars == <<nbThreads, nbJobs, withMain, args>>
jobVars  == <<rets, runs>>
vars     == <<pc, asleep, turn, counters, callVars, done, finished, jobVars>>

NbActive == Minimum(nbJobs, nbThreads)
(* nb_workers, of avpriv_slicethread_execute and of _create and _free. *)
Helpers  == IF withMain THEN NbActive ELSE NbActive - 1
Created  == IF HasMain THEN nbThreads ELSE nbThreads - 1
(* The threads that draw jobs in this call. *)
Team     == (1 .. Helpers) \cup (IF withMain THEN {} ELSE {Caller})

Goto(t, l) == pc' = [pc EXCEPT ![t] = l]

(* Mutants, here and below: plausible bugs the properties must notice. *)
LockAlways(w) == TRUE
FirstUnmoved  == firstJob
LastOfJobs(n) == n >= nbJobs
KeepDone      == done

Init ==
  /\ pc = [t \in Threads |-> IF t # Caller THEN "off" ELSE IF Workers = {} THEN "idle" ELSE "create"]
  /\ asleep = [w \in Workers |-> FALSE] /\ turn = 1
  /\ first = [t \in Threads |-> 0] /\ cur = [t \in Threads |-> 0]
  /\ nbThreads = NbThreads /\ nbJobs = 0 /\ withMain = FALSE
  /\ firstJob = 0 /\ currentJob = 0 /\ took = {} /\ out = {}
  /\ done = FALSE /\ finished = FALSE
  /\ args = 0 /\ rets = [j \in Jobs |-> 0] /\ runs = [j \in Jobs |-> 0]

-----------------------------------------------------------------------------
(* avpriv_slicethread_create, which starts one worker after the other... *)
Create ==
  /\ pc[Caller] = "create" /\ pc[turn] = "off"
  /\ Goto(turn, "init")
  /\ UNCHANGED <<asleep, turn, counters, callVars, done, finished, jobVars>>

(* ...and waits for its w->done before it goes on. *)
CreateNext ==
  /\ pc[Caller] = "create" /\ pc[turn] # "off" /\ asleep[turn]
  /\ turn' = turn + 1
  /\ Goto(Caller, IF turn' \in Workers THEN "create" ELSE "idle")
  /\ UNCHANGED <<asleep, counters, callVars, done, finished, jobVars>>

(* What ctx->nb_threads becomes when there is no worker i. *)
NbLeft(i) == IF HasMain THEN i - 1 ELSE i

(* pthread_create fails: free what there is. *)
CreateFails ==
  /\ pc[Caller] = "create" /\ pc[turn] = "off"
  /\ nbThreads' = NbLeft(turn)
  /\ finished' = TRUE /\ turn' = 1
  /\ Goto(Caller, "stop")
  /\ UNCHANGED <<asleep, counters, nbJobs, withMain, args, done, jobVars>>

-----------------------------------------------------------------------------
(* thread_execute and avpriv_slicethread_execute: set the call up.  Nobody   *)
(* else looks at these fields between two calls (see Quiet), so one step is  *)
(* as good as many.                                                          *)
Execute(n, main) ==
  /\ pc[Caller] = "idle" /\ args < MaxCalls
  /\ nbJobs' = n /\ withMain' = (HasMain /\ main)
  /\ firstJob' = 0 /\ currentJob' = Minimum(n, nbThreads)
  /\ took' = {} /\ out' = {}
  /\ args' = args + 1 /\ runs' = [j \in Jobs |-> 0]
  /\ turn' = 1
  /\ Goto(Caller, "wake")
  /\ UNCHANGED <<asleep, first, cur, nbThreads, done, finished, rets>>

(* The caller can have w->mutex when the worker waits. *)
CanLock(w) == pc[w] = "wait"

(* Wake one worker: w->done = 0. *)
Wake ==
  /\ pc[Caller] = "wake" /\ turn <= Helpers
  /\ CanLock(turn)
  /\ asleep' = [asleep EXCEPT ![turn] = FALSE]
  /\ turn' = turn + 1
  /\ UNCHANGED <<pc, counters, callVars, done, finished, jobVars>>

(* All are awake: run the main function, or draw jobs like a worker. *)
Join ==
  /\ pc[Caller] = "wake" /\ turn > Helpers
  /\ Goto(Caller, IF withMain THEN "main" ELSE "take")
  /\ UNCHANGED <<asleep, turn, counters, callVars, done, finished, jobVars>>

MainFunc ==
  /\ pc[Caller] = "main"
  /\ Goto(Caller, "await")
  /\ UNCHANGED <<asleep, turn, counters, callVars, done, finished, jobVars>>

-----------------------------------------------------------------------------
NextFirst == firstJob + 1

(* run_jobs, by the caller or a worker.  What it compares with later, it has *)
(* copied before it draws.                                                   *)
Take(t) ==
  /\ pc[t] = "take"
  /\ first' = [first EXCEPT ![t] = firstJob]
  /\ cur' = [cur EXCEPT ![t] = firstJob]
  /\ firstJob' = NextFirst
  /\ took' = took \cup {t}
  /\ Goto(t, "job")
  /\ UNCHANGED <<asleep, turn, currentJob, out, callVars, done, finished, jobVars>>

(* worker_func of pthread_slice.c: the job is done for these arguments. *)
RunJob(t) ==
  /\ pc[t] = "job"
  /\ runs' = [runs EXCEPT ![cur[t]] = @ + 1]
  /\ rets' = [rets EXCEPT ![cur[t]] = args]
  /\ Goto(t, "draw")
  /\ UNCHANGED <<asleep, turn, counters, callVars, done, finished>>

IsJob(n)  == n < nbJobs
IsLast(n) == n = nbJobs + NbActive - 1

AfterLastDraw(t) ==
  IF t # Caller THEN (IF IsLast(currentJob) THEN "last" ELSE "loop")
  ELSE IF IsLast(currentJob) THEN "idle" ELSE "await"

(* Draw the next number: a job, or the end of run_jobs. *)
Draw(t) ==
  /\ pc[t] = "draw"
  /\ currentJob' = currentJob + 1
  /\ IF IsJob(currentJob)
       THEN cur' = [cur EXCEPT ![t] = currentJob] /\ Goto(t, "job") /\ UNCHANGED out
       ELSE Goto(t, AfterLastDraw(t)) /\ out' = out \cup {t} /\ UNCHANGED cur
  /\ UNCHANGED <<asleep, turn, first, firstJob, took, callVars, done, finished, jobVars>>

(* A worker was the last: tell the caller. *)
SignalDone(w) ==
  /\ pc[w] = "last"
  /\ done' = TRUE
  /\ Goto(w, "loop")
  /\ UNCHANGED <<asleep, turn, counters, callVars, finished, jobVars>>

DoneAfter == FALSE

(* The caller was not: it waits, and takes the signal back. *)
Await ==
  /\ pc[Caller] = "await" /\ done
  /\ done' = DoneAfter
  /\ Goto(Caller, "idle")
  /\ UNCHANGED <<asleep, turn, counters, callVars, finished, jobVars>>

-----------------------------------------------------------------------------
(* thread_worker. *)
Sleep(w) ==
  /\ pc[w] \in {"init", "loop"}
  /\ asleep' = [asleep EXCEPT ![w] = TRUE]
  /\ Goto(w, "wait")
  /\ UNCHANGED <<turn, counters, callVars, done, finished, jobVars>>

Woken(w) ==
  /\ pc[w] = "wait" /\ ~asleep[w]
  /\ Goto(w, IF finished THEN "gone" ELSE "take")
  /\ UNCHANGED <<asleep, turn, counters, callVars, done, finished, jobVars>>

-----------------------------------------------------------------------------
(* avpriv_slicethread_free, between two calls: stop every worker, then join. *)
Free ==
  /\ pc[Caller] = "idle"
  /\ finished' = TRUE /\ turn' = 1
  /\ Goto(Caller, "stop")
  /\ UNCHANGED <<asleep, counters, callVars, done, jobVars>>

Stop ==
  /\ pc[Caller] = "stop" /\ turn <= Created
  /\ CanLock(turn)
  /\ asleep' = [asleep EXCEPT ![turn] = FALSE]
  /\ turn' = turn + 1
  /\ UNCHANGED <<pc, counters, callVars, done, finished, jobVars>>

JoinWorkers ==
  /\ pc[Caller] = "stop" /\ turn > Created
  /\ \A w \in 1 .. Created : pc[w] = "gone"
  /\ Goto(Caller, "freed")
  /\ UNCHANGED <<asleep, turn, counters, callVars, done, finished, jobVars>>

Freed == pc[Caller] = "freed" /\ UNCHANGED vars

-----------------------------------------------------------------------------
InRunJobs(t) == Take(t) \/ RunJob(t) \/ Draw(t)
WorkerStep(w) == InRunJobs(w) \/ SignalDone(w) \/ Sleep(w) \/ Woken(w)
(* What the caller does of its own accord, and what a call then does. *)
Calls      == Free \/ \E n \in 1 .. MaxJobs, main \in BOOLEAN : Execute(n, main)
CallerStep == \/ Create \/ CreateNext \/ CreateFails \/ Wake \/ Join \/ MainFunc
              \/ InRunJobs(Caller) \/ Await \/ Stop \/ JoinWorkers

Next == Calls \/ CallerStep \/ (\E w \in Workers : WorkerStep(w)) \/ Freed

Spec == Init /\ [][Next]_vars

(* Every thread that can run is run, and a call that was made goes on.  The  *)
(* caller need not make one.                                                 *)
FairSpec == Spec /\ WF_vars(CallerStep) /\ \A w \in Workers : WF_vars(WorkerStep(w))
-----------------------------------------------------------------------------
(* Within avpriv_slicethread_execute; between two calls. *)
Working == {"take", "job", "draw"}
InCall  == pc[Caller] \in {"wake", "main", "await"} \cup Working
Between == pc[Caller] = "idle" /\ args > 0

(* Every variable has its type. *)
TypeOK ==
  /\ pc \in [Threads -> {"off", "init", "loop", "wait", "take", "job", "draw", "last", "gone",
                         "create", "idle", "wake", "main", "await", "stop", "freed"}]
  /\ pc[Caller] \notin {"off", "init", "loop", "wait", "last", "gone"}
  /\ \A w \in Workers : pc[w] \notin {"create", "idle", "wake", "main", "await", "stop", "freed"}
  /\ asleep \in [Workers -> BOOLEAN] /\ turn \in Nat
  /\ first \in [Threads -> Nat] /\ cur \in [Threads -> Jobs]
  /\ nbThreads \in 0 .. NbThreads /\ nbJobs \in 0 .. MaxJobs /\ withMain \in BOOLEAN
  /\ firstJob \in Nat /\ currentJob \in Nat /\ took \subseteq Threads /\ out \subseteq Threads
  /\ done \in BOOLEAN /\ finished \in BOOLEAN
  /\ args \in Nat /\ rets \in [Jobs -> Nat] /\ runs \in [Jobs -> Nat]

(* When a call comes back, each of its jobs has run once, and what it wrote  *)
(* to rets belongs to this call.                                             *)
EachJobOnce ==
  Between => \A j \in Jobs : IF j < nbJobs THEN runs[j] = 1 /\ rets[j] = args ELSE runs[j] = 0

(* Two threads never run jobs under one thread number, nor under one that is *)
(* not below nb_active_threads: codecs and filters index scratch data by it. *)
OwnThreadNumber ==
  \A s \in Threads : pc[s] = "job" =>
    /\ first[s] < NbActive
    /\ \A t \in Threads \ {s} : pc[t] = "job" => first[s] # first[t]

(* Between two calls nobody looks at the fields that the next call sets, and *)
(* no signal of the last one is left over.                                   *)
Quiet ==
  pc[Caller] = "idle" =>
    /\ ~done
    /\ \A w \in Workers : pc[w] = "loop" \/ (pc[w] = "wait" /\ asleep[w])

(* A worker is only awake in a call if it is on its team, or to end. *)
Place(w) ==
  /\ pc[w] \in Working => InCall /\ w \in Team \ out /\ w < turn
  /\ pc[w] \in Working => (w \in took <=> pc[w] # "take")
  /\ pc[w] = "wait" /\ ~asleep[w] /\ ~finished =>
       InCall /\ w \in Team \ (took \cup out) /\ w < turn
  /\ pc[w] = "last" => InCall /\ out = Team /\ ~done
  /\ pc[w] = "last" => \A v \in Workers \ {w} : pc[v] # "last"
  /\ InCall /\ w \in took \ out => pc[w] \in {"job", "draw"}
  /\ pc[Caller] = "wake" /\ w >= turn => w \notin took
  /\ pc[w] \in {"off", "init"} => pc[Caller] \in {"create", "stop", "freed"} /\ ~asleep[w]
  /\ pc[w] = "gone" => finished

Places == \A w \in Workers : Place(w)

CallerPlace ==
  /\ finished <=> pc[Caller] \in {"stop", "freed"}
  /\ ~finished => nbThreads = NbThreads
  /\ pc[Caller] = "create" => turn \in Workers /\ args = 0 /\ \A w \in Workers : w > turn => pc[w] = "off"
  /\ pc[Caller] = "create" => \A w \in Workers : w < turn => pc[w] = "wait" /\ asleep[w]
  /\ args = 0 => \A w \in Workers : pc[w] \in {"off", "init", "wait", "gone"}
  /\ InCall => args > 0
  /\ args > 0 => nbJobs > 0
  /\ withMain => HasMain
  /\ pc[Caller] \in Working => ~withMain /\ Caller \notin out /\ (Caller \in took <=> pc[Caller] # "take")
  /\ pc[Caller] = "wake" => Caller \notin took
  /\ pc[Caller] = "main" => withMain
  /\ pc[Caller] = "await" => withMain \/ Caller \in out
  /\ InCall /\ pc[Caller] # "wake" => turn > Helpers
  /\ Between => out = Team
  /\ done => InCall /\ out = Team /\ \A w \in Workers : pc[w] # "last"

Counts ==
  InCall \/ Between =>
    /\ out \subseteq took /\ took \subseteq Team
    /\ firstJob = Cardinality(took)
    /\ NbActive <= currentJob
    /\ IF currentJob < nbJobs THEN out = {} ELSE currentJob = nbJobs + Cardinality(out)

Drawn(j) == j < firstJob \/ (NbActive <= j /\ j < currentJob)
Held(j)  == \E t \in Threads : pc[t] = "job" /\ cur[t] = j

JobCounts ==
  InCall \/ Between =>
    /\ \A j \in Jobs : runs[j] = IF j < nbJobs /\ Drawn(j) /\ ~Held(j) THEN 1 ELSE 0
    /\ \A j \in Jobs : runs[j] = 1 => rets[j] = args
    /\ \A t \in Threads : pc[t] = "job" => cur[t] < nbJobs /\ Drawn(cur[t])
    /\ \A s, t \in Threads : pc[s] = "job" /\ pc[t] = "job" /\ cur[s] = cur[t] => s = t
    /\ \A t \in took : first[t] < firstJob
    /\ \A s, t \in took : first[s] = first[t] => s = t

(* The inductive invariant: the thread that draws the last number is the     *)
(* last, because currentJob counts those that have drawn too much.           *)
IInv == TypeOK /\ Places /\ CallerPlace /\ Counts /\ JobCounts

(* A call of execute comes back; and avpriv_slicethread_free ends all the    *)
(* workers there are, after a failed creation too.                           *)
CallsReturn ==
  /\ pc[Caller] = "wake" ~> pc[Caller] = "idle"
  /\ pc[Caller] = "stop" ~> pc[Caller] = "freed"
=============================================================================
