--------------------------- MODULE MCProductTextRun ---------------------------
(***************************************************************************)
(* ProductTextRun in targets mode without crops.  Frames carry no target,  *)
(* one sound target or one outside the filter plane: enough to be accepted *)
(* and to be refused.                                                      *)
(***************************************************************************)
EXTENDS ProductTextRun

MCKnownClasses == {1}

Box(inside) ==
    [track |-> 0, in_plane |-> inside, class |-> 1, in_original |-> TRUE]

MCTargets == {Box(TRUE), Box(FALSE)}

MCFrames ==
    [fit: {TRUE}, roles: {{"detection"}}, clock: {TRUE}, frame_id: 0 .. 3,
     targets: {<<>>} \cup {<<t>> : t \in MCTargets}]
=============================================================================
