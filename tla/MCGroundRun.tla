---------------------------- MODULE MCGroundRun ----------------------------
(***************************************************************************)
(* GroundRun with its constants given in ground.cfg: a limit of two frames *)
(* against sources of up to four, so that frames stay below the limit,     *)
(* exceed it, and are dropped after it was exceeded.                       *)
(***************************************************************************)
EXTENDS GroundRun
=============================================================================
