----------------------------- MODULE MCFramesRun -----------------------------
(***************************************************************************)
(* FramesRun with its constants given in the .cfg files.  A limit of two   *)
(* frames against sources of up to five: more than the limit, the frame    *)
(* that exceeds it and the appsink's queue together can take.              *)
(***************************************************************************)
EXTENDS FramesRun
=============================================================================
