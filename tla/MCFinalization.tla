---------------------------- MODULE MCFinalization ----------------------------
(***************************************************************************)
(* finalise with the graphs it writes, the critique it reads and the       *)
(* release candidate that is made of a run: the facts about these are      *)
(* evaluated before the run.                                               *)
(***************************************************************************)
EXTENDS Finalization, MCEPGDocument, MCDisciplineCritique, MCReleaseCandidate
=============================================================================
