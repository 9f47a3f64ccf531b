---------------------------- MODULE MCAutonomousRun ----------------------------
(***************************************************************************)
(* AutonomousRun, and the facts about the diversity report that its gate   *)
(* takes as a verdict.                                                     *)
(***************************************************************************)
EXTENDS AutonomousRun, MCSourceDiversity
=============================================================================
