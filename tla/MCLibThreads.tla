----------------------------- MODULE MCLibThreads -----------------------------
(***************************************************************************)
(* The threads of libavutil and of libavformat, one component at a time:   *)
(* a behaviour is one of the slice threads, while the async protocol is in *)
(* one of its initial states, or the other way round.                      *)
(***************************************************************************)
EXTENDS SliceThread, AsyncRing

VARIABLE part

LibVars == <<part, vars, ringVars>>

LibInit ==
  /\ part \in {"slices", "ring"}
  /\ Init /\ RingInit
  /\ part = "slices" => ~sized

Slices(A) == part = "slices" /\ A /\ UNCHANGED <<part, ringVars>>
Ring(A)   == part = "ring" /\ A /\ UNCHANGED <<part, vars>>

LibNext ==
  \/ Slices(Calls) \/ Slices(CallerStep) \/ (\E w \in Workers : Slices(WorkerStep(w)))
  \/ Slices(Freed)
  \/ Ring(Read) \/ Ring(Close) \/ (\E p \in Targets : Ring(Seek(p)))
  \/ Ring(UserStep) \/ Ring(TaskStep) \/ Ring(Terminated)

(* FairSpec of SliceThread and RingFairSpec of AsyncRing. *)
LibSpec ==
  /\ LibInit /\ [][LibNext]_LibVars
  /\ WF_LibVars(Slices(CallerStep)) /\ \A w \in Workers : WF_LibVars(Slices(WorkerStep(w)))
  /\ WF_LibVars(Ring(UserStep)) /\ WF_LibVars(Ring(TaskStep))
=============================================================================
