------------------------------ MODULE MCPrograms ------------------------------
(***************************************************************************)
(* Two programs of ffmpeg-code: a behaviour is one of ffmuxfile or one of  *)
(* ffvencode, while the other stays in one of its initial states.          *)
(***************************************************************************)
EXTENDS MCMuxFile, VideoEncode

VARIABLE program

muxFileVars == <<fileVars, muxVars>>
programVars == <<program, muxFileVars, vars>>

ProgramInit ==
  /\ program \in {"ffmuxfile", "ffvencode"}
  /\ MuxInit /\ EncodeInit
  /\ program = "ffmuxfile" => num = 0
  /\ program = "ffvencode" => input = CHOOSE f \in Inputs : TRUE

Ffmuxfile(A) == program = "ffmuxfile" /\ A /\ UNCHANGED <<program, vars>>
Ffvencode(A) == program = "ffvencode" /\ A /\ UNCHANGED <<program, muxFileVars>>

ProgramNext ==
  \/ Ffmuxfile(Step) \/ Ffmuxfile(Over)
  \/ Ffvencode(EncodeStep) \/ Ffvencode(Terminated)

(* EncodeFairSpec of VideoEncode; MuxSpec of MuxFile has no fairness. *)
ProgramSpec ==
  /\ ProgramInit /\ [][ProgramNext]_programVars
  /\ WF_programVars(Ffvencode(EncodeStep)) /\ SF_programVars(Ffvencode(EmitFrame))
=============================================================================
