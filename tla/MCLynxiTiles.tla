--------------------------- MODULE MCLynxiTiles ---------------------------
(* Bounds of the instance: a frame of six tiles whose last column and row   *)
(* are moved inwards, one of three, one of a single tile and one that is    *)
(* too small.                                                               *)
EXTENDS LynxiTiles

MCFrames ==
    {[width |-> 8, height |-> 5], [width |-> 4, height |-> 10],
     [width |-> 4, height |-> 4], [width |-> 3, height |-> 9]}

=============================================================================
