----------------------------- MODULE TileGrid -----------------------------
(***************************************************************************)
(* The tiles that Cutter (src/src/backends/lynxi/yolox_runtime.cpp) cuts   *)
(* out of a frame: squares of the model's width, in rows from left to      *)
(* right, the last of a row and the last row moved inwards to the border.  *)
(*                                                                         *)
(* The code divides in single precision; for frames below 2^24 pixels a    *)
(* side the quotient rounds to no other integer than the exact one.        *)
(***************************************************************************)
EXTENDS Integers

\* round(crop * 0.78125F), halves away from zero; 0.78125 is 50/64.
StridePx(crop) == (50 * crop + 32) \div 64

CeilDiv(a, b) == (a + b - 1) \div b

\* max_x and max_y: tiles along a side.
TilesAlong(size, crop) == CeilDiv(size - crop, StridePx(crop)) + 1

\* Bug: the last tile is not moved inwards.
TileOffsetUnclamped(k, size, crop) == k * StridePx(crop)

\* Where the tile with k tiles before it starts.
TileOffset(k, size, crop) ==
    IF k * StridePx(crop) + crop > size THEN size - crop ELSE k * StridePx(crop)

TileCount(plane, crop) ==
    TilesAlong(plane.width, crop) * TilesAlong(plane.height, crop)

\* The tile get_next() returns at its i-th call, i counted from 1.
TileAt(i, plane, crop) ==
    LET max_x == TilesAlong(plane.width, crop)
    IN  [x_offset |-> TileOffset((i - 1) % max_x, plane.width, crop),
         y_offset |-> TileOffset((i - 1) \div max_x, plane.height, crop)]

SpanCovers(offset, crop, p) == offset <= p /\ p < offset + crop

TileCovers(tile, crop, x, y) ==
    SpanCovers(tile.x_offset, crop, x) /\ SpanCovers(tile.y_offset, crop, y)

TileInside(tile, plane, crop) ==
    /\ tile.x_offset \in 0 .. plane.width - crop
    /\ tile.y_offset \in 0 .. plane.height - crop

=============================================================================
