------------------------------ MODULE ThreadPool ------------------------------
(***************************************************************************)
(* x264's thread pool, common/threadpool.c.  Its jobs go round three       *)
(* x264_sync_frame_list_t, each as long as the pool has threads:           *)
(*                                                                         *)
(*    uninit --run()--> run --worker--> done --wait()--> uninit            *)
(*                                                                         *)
(* One thread owns a pool in x264: the encoder's, the lookahead's, or the  *)
(* input's.  It runs a job for an argument (a x264_t, a slice, the next    *)
(* frame to read), does not run it again before it has waited for it, and  *)
(* has no more arguments than the pool has threads.  It may delete the     *)
(* pool with jobs it never waited for, as x264_encoder_close does.         *)
(***************************************************************************)
EXTENDS Naturals, Sequences, FiniteSets, SequencesExt

CONSTANTS
  Workers, \* the threads of the pool
  Args,    \* what jobs are run for: one x264_t, slice, ... each
  NoArg,   \* not an argument: that of a job which was never used
  MaxRuns  \* bound of the model: calls of x264_threadpool_run

ASSUME PoolAssumption ==
  /\ IsFiniteSet(Workers) /\ Workers # {} /\ MaxRuns \in Nat
  /\ NoArg \notin Args /\ IsFiniteSet(Args) /\ Cardinality(Args) <= Cardinality(Workers)

Size == Cardinality(Workers)  \* pool->threads
Jobs == 1 .. Size

VARIABLES
  uninit, run, done,  \* the three lists
  arg, ret,           \* per job: job->arg and job->ret
  exit,               \* pool->exit
  pc, held,           \* per worker: where it is, and its job, 0 for none
  user, hand, waiting,\* the owner: where it is, its job, what it waits for
  active,             \* arguments run and not waited for (b_thread_active)
  serial, turn,       \* per argument: its latest run; history: runs so far
  got,                \* what the last x264_threadpool_wait returned
  started             \* history: jobs that workers took

workerVars == <<pc, held, started>>
userVars   == <<hand, waiting, active, serial, turn, got>>
poolVars   == <<uninit, run, done, arg, ret, exit, workerVars, user, userVars>>

(* x264_threadpool_init. *)
Init ==
  /\ uninit = [i \in 1 .. Size |-> i] /\ run = <<>> /\ done = <<>>
  /\ arg = [j \in Jobs |-> NoArg] /\ ret = [j \in Jobs |-> 0]
  /\ exit = FALSE
  /\ pc = [w \in Workers |-> "loop"] /\ held = [w \in Workers |-> 0]
  /\ user = "idle" /\ hand = 0 /\ waiting = NoArg /\ active = {}
  /\ serial = [a \in Args |-> 0] /\ turn = 0 /\ got = 0 /\ started = 0

(* Mutants, here and below: plausible bugs the properties must notice. *)
WakeNoUser == user

-----------------------------------------------------------------------------
(* Broadcasts: on run.cv_fill and on done.cv_fill.  Nothing else is ever     *)
(* waited for: see NeverBlocked.                                             *)
WakeWorkers == [w \in Workers |-> IF pc[w] = "sleep" THEN "take" ELSE pc[w]]
WakeUser    == IF user = "asleep" THEN "scan" ELSE user

(* threadpool_thread: the test of pool->exit, made without the mutex. *)
Loop(w) ==
  /\ pc[w] = "loop"
  /\ pc' = [pc EXCEPT ![w] = IF exit THEN "exited" ELSE "take"]
  /\ UNCHANGED <<uninit, run, done, arg, ret, exit, held, started, user, userVars>>

TakeNewest(w) ==
  /\ pc[w] = "take" /\ run # <<>>
  /\ held' = [held EXCEPT ![w] = Last(run)]
  /\ run' = Front(run)
  /\ started' = started + 1
  /\ pc' = [pc EXCEPT ![w] = "exec"]
  /\ UNCHANGED <<uninit, done, arg, ret, exit, user, userVars>>

(* Under run.mutex: take the oldest queued job, else wait, else leave.  A    *)
(* job that is queued is taken even when the pool is exiting.                *)
Take(w) ==
  /\ pc[w] = "take" /\ run # <<>>
  /\ held' = [held EXCEPT ![w] = Head(run)]
  /\ run' = Tail(run)
  /\ started' = started + 1
  /\ pc' = [pc EXCEPT ![w] = "exec"]
  /\ UNCHANGED <<uninit, done, arg, ret, exit, user, userVars>>

TakeNone(w) ==
  /\ pc[w] = "take" /\ run = <<>>
  /\ pc' = [pc EXCEPT ![w] = IF exit THEN "loop" ELSE "sleep"]
  /\ UNCHANGED <<uninit, run, done, arg, ret, exit, held, started, user, userVars>>

(* job->ret = job->func( job->arg ): the function reads what its argument    *)
(* points to when it runs.                                                   *)
Execute(w) ==
  /\ pc[w] = "exec"
  /\ ret' = [ret EXCEPT ![held[w]] = serial[arg[held[w]]]]
  /\ pc' = [pc EXCEPT ![w] = "push"]
  /\ UNCHANGED <<uninit, run, done, arg, exit, held, started, user, userVars>>

(* x264_sync_frame_list_push on done. *)
PushDone(w) ==
  /\ pc[w] = "push"
  /\ IF Len(done) = Size
       THEN pc' = [pc EXCEPT ![w] = "blocked"] /\ UNCHANGED <<done, held, user>>
       ELSE /\ done' = Append(done, held[w])
            /\ held' = [held EXCEPT ![w] = 0]
            /\ pc' = [pc EXCEPT ![w] = "loop"]
            /\ user' = WakeUser
  /\ UNCHANGED <<uninit, run, arg, ret, exit, started, userVars>>

-----------------------------------------------------------------------------
(* x264_threadpool_run: pop from uninit, from its end... *)
Run(a) ==
  /\ user = "idle" /\ ~exit /\ a \notin active /\ turn < MaxRuns
  /\ IF uninit = <<>>
       THEN user' = "blocked" /\ UNCHANGED <<uninit, arg, userVars>>
       ELSE /\ hand' = Last(uninit)
            /\ uninit' = Front(uninit)
            /\ arg' = [arg EXCEPT ![hand'] = a]
            /\ active' = active \cup {a}
            /\ turn' = turn + 1
            /\ serial' = [serial EXCEPT ![a] = turn + 1]
            /\ user' = "queue"
            /\ UNCHANGED <<waiting, got>>
  /\ UNCHANGED <<run, done, ret, exit, workerVars>>

(* ...and push to run. *)
Queue ==
  /\ user = "queue"
  /\ IF Len(run) = Size
       THEN user' = "blocked" /\ UNCHANGED <<run, pc, hand>>
       ELSE run' = Append(run, hand) /\ hand' = 0 /\ pc' = WakeWorkers /\ user' = "idle"
  /\ UNCHANGED <<uninit, done, arg, ret, exit, held, started,
                 waiting, active, serial, turn, got>>

(* x264_threadpool_wait( pool, a ). *)
Wait(a) ==
  /\ user = "idle" /\ ~exit /\ a \in active
  /\ waiting' = a
  /\ active' = active \ {a}
  /\ user' = "scan"
  /\ UNCHANGED <<uninit, run, done, arg, ret, exit, workerVars, hand, serial, turn, got>>

MatchesAny == 1 .. Len(done)

Matches == {i \in 1 .. Len(done) : arg[done[i]] = waiting}

(* Take the first finished job of the argument out of done. *)
Scan ==
  /\ user = "scan"
  /\ \E i \in Matches :
       /\ \A k \in Matches : i <= k
       /\ hand' = done[i]
       /\ done' = RemoveAt(done, i)
       /\ got' = ret[hand']
  /\ user' = "give"
  /\ UNCHANGED <<uninit, run, arg, ret, exit, workerVars, waiting, active, serial, turn>>

ScanNone ==
  /\ user = "scan" /\ Matches = {}
  /\ user' = "asleep"
  /\ UNCHANGED <<uninit, run, done, arg, ret, exit, workerVars, userVars>>

GiveForgotten ==
  /\ user = "give"
  /\ hand' = 0 /\ user' = "idle"
  /\ UNCHANGED <<uninit, run, done, arg, ret, exit, workerVars, waiting, active, serial, turn, got>>

(* Give the job back to uninit. *)
Give ==
  /\ user = "give"
  /\ IF Len(uninit) = Size
       THEN user' = "blocked" /\ UNCHANGED <<uninit, hand>>
       ELSE uninit' = Append(uninit, hand) /\ hand' = 0 /\ user' = "idle"
  /\ UNCHANGED <<run, done, arg, ret, exit, workerVars, waiting, active, serial, turn, got>>

(* x264_threadpool_delete, up to its joins... *)
Delete ==
  /\ user = "idle" /\ ~exit
  /\ exit' = TRUE
  /\ pc' = WakeWorkers
  /\ user' = "join"
  /\ UNCHANGED <<uninit, run, done, arg, ret, held, started, userVars>>

(* ...and after them: the jobs of the three lists are freed. *)
Joined ==
  /\ user = "join" /\ \A w \in Workers : pc[w] = "exited"
  /\ uninit' = <<>> /\ run' = <<>> /\ done' = <<>>
  /\ user' = "gone"
  /\ UNCHANGED <<arg, ret, exit, workerVars, userVars>>

Gone == user = "gone" /\ UNCHANGED poolVars

-----------------------------------------------------------------------------
Work(w)  == Loop(w) \/ Take(w) \/ TakeNone(w) \/ Execute(w) \/ PushDone(w)
InCall   == Queue \/ Scan \/ ScanNone \/ Give \/ Joined
Call     == (\E a \in Args : Run(a) \/ Wait(a)) \/ Delete

Next == (\E w \in Workers : Work(w)) \/ InCall \/ Call \/ Gone

Spec == Init /\ [][Next]_poolVars

(* Every worker runs when it can, and so does the owner inside a call. *)
FairSpec == Spec /\ (\A w \in Workers : WF_poolVars(Work(w))) /\ WF_poolVars(InCall)

-----------------------------------------------------------------------------
TypeOK ==
  /\ uninit \in Seq(Jobs) /\ run \in Seq(Jobs) /\ done \in Seq(Jobs)
  /\ arg \in [Jobs -> Args \cup {NoArg}] /\ ret \in [Jobs -> Nat]
  /\ exit \in BOOLEAN
  /\ pc \in [Workers -> {"loop", "take", "sleep", "exec", "push", "blocked", "exited"}]
  /\ held \in [Workers -> Jobs \cup {0}]
  /\ user \in {"idle", "queue", "scan", "asleep", "give", "blocked", "join", "gone"}
  /\ hand \in Jobs \cup {0} /\ waiting \in Args \cup {NoArg}
  /\ active \in SUBSET Args
  /\ serial \in [Args -> Nat] /\ turn \in Nat /\ got \in Nat /\ started \in Nat

(* The lists are never full before a push nor uninit empty before a pop, so  *)
(* that nobody waits on a cv_empty: two of the three removals from the lists *)
(* (frame_shift from run and from done) would never wake him.                *)
NeverBlocked == user # "blocked" /\ \A w \in Workers : pc[w] # "blocked"

(* Jobs start in the order in which they were run: the k-th job a worker     *)
(* takes is the k-th one given to x264_threadpool_run.  Frame threads rely   *)
(* on it: a frame waits for rows of frames that were run before it.          *)
InOrder == \A i \in 1 .. Len(run) : serial[arg[run[i]]] = started + i

(* x264_threadpool_wait returns what the latest run of its argument          *)
(* returned, and not what an earlier one or another argument's left.         *)
OwnResult == user = "give" => got = serial[waiting]

(* A worker asleep has nothing to do: no wake-up is lost.                    *)
NoLostJob ==
  /\ (\E w \in Workers : pc[w] = "sleep") => run = <<>> /\ ~exit
  /\ user = "asleep" => Matches = {}

(* x264_threadpool_delete frees every job there is, once: a job is always in  *)
(* a list or in somebody's hands, and in one such place only.                *)
Holding(w)   == held[w] # 0
In(j, list)  == \E i \in 1 .. Len(list) : list[i] = j
Distinct(list) == \A i, k \in 1 .. Len(list) : list[i] = list[k] => i = k
Apart(l, m)  == \A i \in 1 .. Len(l), k \in 1 .. Len(m) : l[i] # m[k]

Somewhere == \A j \in Jobs : \/ In(j, uninit) \/ In(j, run) \/ In(j, done)
                              \/ hand = j \/ \E w \in Workers : held[w] = j
Once == /\ Distinct(uninit) /\ Distinct(run) /\ Distinct(done)
        /\ Apart(uninit, run) /\ Apart(uninit, done) /\ Apart(run, done)
        /\ ~In(hand, uninit) /\ ~In(hand, run) /\ ~In(hand, done)
        /\ \A w \in Workers : Holding(w) =>
             /\ ~In(held[w], uninit) /\ ~In(held[w], run) /\ ~In(held[w], done)
             /\ held[w] # hand
             /\ \A v \in Workers : held[v] = held[w] => v = w
JobsConserved == user # "gone" => Somewhere /\ Once

(* Every wait returns, and a pool that is deleted joins all its workers,     *)
(* even those that were never given a job and with jobs still queued.        *)
CallsReturn ==
  /\ user = "scan" ~> user = "idle"
  /\ user = "join" ~> user = "gone"

-----------------------------------------------------------------------------
(* The inductive invariant: where everybody is, how many jobs there are in   *)
(* each part of the cycle, and which arguments the live ones carry.          *)
Busy == {w \in Workers : Holding(w)}

(* The arguments that have a job, and the jobs that have an argument. *)
Pending == active \cup (IF user \in {"scan", "asleep"} THEN {waiting} ELSE {})
Live(j) == \/ In(j, run) \/ In(j, done) \/ \E w \in Workers : held[w] = j
           \/ user = "queue" /\ hand = j

Positions ==
  /\ \A w \in Workers : Holding(w) <=> pc[w] \in {"exec", "push"}
  /\ hand # 0 <=> user \in {"queue", "give"}
  /\ exit <=> user \in {"join", "gone"}
  /\ user \in {"scan", "asleep", "give"} => waiting \in Args /\ waiting \notin active
  /\ user = "gone" => \A w \in Workers : pc[w] = "exited"

Counts ==
  user # "gone" =>
    /\ Len(uninit) + Len(run) + Len(done) + Cardinality(Busy)
         + (IF hand # 0 THEN 1 ELSE 0) = Size
    /\ Len(run) + Len(done) + Cardinality(Busy)
         + (IF user = "queue" THEN 1 ELSE 0) = Cardinality(Pending)

Arguments ==
  /\ \A j \in Jobs : Live(j) => arg[j] \in Pending
  /\ \A j, k \in Jobs : Live(j) /\ Live(k) /\ arg[j] = arg[k] => j = k

Results ==
  /\ \A i \in 1 .. Len(done) : ret[done[i]] = serial[arg[done[i]]]
  /\ \A w \in Workers : pc[w] = "push" => ret[held[w]] = serial[arg[held[w]]]

Turns ==
  /\ user # "gone" => turn = started + Len(run) + (IF user = "queue" THEN 1 ELSE 0)
  /\ user = "queue" => serial[arg[hand]] = turn

IInv == /\ TypeOK /\ NeverBlocked /\ InOrder /\ OwnResult /\ NoLostJob /\ JobsConserved
        /\ Positions /\ Counts /\ Arguments /\ Results /\ Turns
=============================================================================
