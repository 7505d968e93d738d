----------------------------- MODULE MCTextSink -----------------------------
(***************************************************************************)
(* TextSink in tracks mode with crops.  The frames cover every check of    *)
(* render(): two sound targets, a duplicate track, a box outside either    *)
(* plane, an unmapped class, and each header fault.                        *)
(***************************************************************************)
EXTENDS TextSink

MCKnownClasses == {1}

Sound(track) ==
    [track |-> track, in_plane |-> TRUE, class |-> 1, in_original |-> TRUE]

MCTargets ==
    {Sound(7), Sound(8),
     [Sound(8) EXCEPT !.in_plane = FALSE],
     [Sound(8) EXCEPT !.in_original = FALSE],
     [Sound(8) EXCEPT !.class = 2]}

WithTargets(targets) ==
    [fit |-> TRUE, roles |-> {"tracking"}, clock |-> TRUE, frame_id |-> 0,
     targets |-> targets]

Shapes ==
    {WithTargets(<<>>)}
    \cup {WithTargets(<<Sound(7), t>>) : t \in MCTargets}
    \cup {[WithTargets(<<>>) EXCEPT !.fit = FALSE],
          [WithTargets(<<>>) EXCEPT !.clock = FALSE],
          [WithTargets(<<>>) EXCEPT !.roles = {}],
          [WithTargets(<<>>) EXCEPT !.roles = {"detection"}],
          [WithTargets(<<>>) EXCEPT !.roles = {"detection", "tracking"}]}

\* Bound: frame ids 0 .. 2, so at most three frames are recorded.
MCFrames == {[f EXCEPT !.frame_id = id] : f \in Shapes, id \in 0 .. 2}
=============================================================================
