----------------------------- MODULE MCRequests -----------------------------
(***************************************************************************)
(* Requests against a registry with the shapes of the installed profiles   *)
(* (configs/runtime/profiles.json) and, beside them, profiles an operator  *)
(* may install by mistake: the wrong role for the mode, no geometry, a     *)
(* tracker for line-scan frames, no frame limit, a missing member.         *)
(***************************************************************************)
EXTENDS Requests

Mock ==
    [sensor |-> "sat-c.line-array", mode |-> "pushbroom",
     output_mode |-> "product_text", backend |-> "mock", geometry |-> TRUE,
     category_map |-> TRUE, role |-> "detection", synthetic |-> FALSE,
     images |-> FALSE, max_frames |-> 2, complete |-> TRUE]

Stare ==
    [Mock EXCEPT !.sensor = "sat-a.area-array", !.mode = "stare", !.role = "tracking"]

Ground ==
    [Mock EXCEPT !.sensor = "cdg00", !.output_mode = "ground_cdg00",
                 !.backend = "none", !.geometry = FALSE, !.category_map = FALSE,
                 !.role = "parse"]

Fixture ==
    [Ground EXCEPT !.output_mode = "frames", !.role = "detection_fixture",
                   !.synthetic = TRUE]

MCRegistry ==
    [mock |-> Mock, npu |-> [Mock EXCEPT !.backend = "lynxi"], stare |-> Stare,
     ground |-> Ground, fixture |-> Fixture,
     images |-> [Fixture EXCEPT !.synthetic = FALSE, !.images = TRUE, !.role = "detection"],
     stare_detects |-> [Stare EXCEPT !.role = "detection"],
     line_tracks |-> [Mock EXCEPT !.role = "tracking"],
     crossed |-> [Mock EXCEPT !.mode = "stare", !.role = "tracking"],
     bare |-> [Mock EXCEPT !.geometry = FALSE],
     ground_detects |-> [Ground EXCEPT !.role = "detection"],
     ground_fixture |-> [Ground EXCEPT !.synthetic = TRUE],
     unlimited |-> [Mock EXCEPT !.max_frames = 0],
     broken |-> [Mock EXCEPT !.complete = FALSE]]

\* Bound: one malformed field stands for all; frame limits 0 .. 3.
MCRequested ==
    [malformed : {"none", "extra field"}, mode : {"pushbroom", "stare"},
     sensor : {"sat-a.area-array", "sat-c.line-array", "cdg00"},
     profile : DOMAIN MCRegistry \cup {"unknown"},
     path : {"absent", "empty", "not a string", "given"},
     size_bytes : {"absent", "right", "wrong"}, sha256 : {"absent", "right"},
     max_frames : {<<>>, <<0>>, <<2>>, <<3>>}]
=============================================================================
