---------------------------- MODULE Detections ----------------------------
(***************************************************************************)
(* From what the model says of each tile to the detections of a frame      *)
(* (src/src/backends/lynxi: infer/yolovXPostProcess.cpp, and              *)
(* post_process_thread() and apply_nms() of yolox_runtime.cpp).            *)
(*                                                                         *)
(* Scores and thresholds are per cent.  Boxes keep one axis: those of a    *)
(* scene stand beside each other in one row of tiles and are equally high, *)
(* so that their areas are as their widths.  A tile has the size of the     *)
(* model's input: nothing is scaled or padded.                             *)
(***************************************************************************)
EXTENDS FiniteSets, Sequences, TileGrid

CONSTANTS
    ModelWidth,      \* width of the model's input
    ScoreThreshold,
    NmsThreshold

\* One anchor of the output tensor: the score of each class, and a box as its
\* centre and half its size in pixels of the tile.
Prediction == [scores : Seq(0 .. 100), center : 0 .. (ModelWidth - 1), half : Int]

\* What the model says of the tiles of a frame, in their order.
Scene == Seq(Seq(Prediction))

Lesser(a, b) == IF a < b THEN a ELSE b
Greater(a, b) == IF a > b THEN a ELSE b

\* max_conf and class_id: the first class with the highest score, -1 if none
\* has any.
Max_conf(p) ==
    CHOOSE best \in {0} \cup {p.scores[j] : j \in DOMAIN p.scores} :
        \A j \in DOMAIN p.scores : p.scores[j] <= best

Class_id(p) ==
    IF Max_conf(p) = 0 THEN -1
    ELSE CHOOSE id \in 0 .. (Len(p.scores) - 1) :
            /\ p.scores[id + 1] = Max_conf(p)
            /\ \A j \in 1 .. id : p.scores[j] < Max_conf(p)

Believed(p) ==
    /\ Max_conf(p) >= ScoreThreshold
    /\ p.center + p.half > 0
    /\ p.half >= 0

\* The box is clamped to the last pixel, not to the border behind it.
Detected(p) ==
    [id |-> Class_id(p), score |-> Max_conf(p),
     xmin |-> Greater(p.center - p.half, 0),
     xmax |-> Lesser(p.center + p.half, ModelWidth - 1)]

-----------------------------------------------------------------------------
(* yolo5Nms() *)

Overlap(a, b) == Lesser(a.xmax, b.xmax) - Greater(a.xmin, b.xmin)

\* The intersection over the union is above the threshold.
SameObject(a, b) ==
    LET union == (a.xmax - a.xmin) + (b.xmax - b.xmin) - Overlap(a, b)
    IN  /\ a.id = b.id
        /\ Overlap(a, b) > 0
        /\ 100 * Overlap(a, b) > NmsThreshold * union

\* operator > of Detection: score + id, where a whole class is 100 per cent.
Key(d) == d.score + 100 * d.id

\* std::stable_sort(), greatest first.
Sorted(found) ==
    LET before(i) == {j \in DOMAIN found : \/ Key(found[j]) > Key(found[i])
                                           \/ Key(found[j]) = Key(found[i]) /\ j < i}
    IN  [k \in DOMAIN found |->
            found[CHOOSE i \in DOMAIN found : Cardinality(before(i)) = k - 1]]

\* Whatever overlaps a detection that was kept before it is skipped; top_k is
\* not looked at.
Keep(kept, d) ==
    IF \E k \in DOMAIN kept : SameObject(kept[k], d) THEN kept ELSE Append(kept, d)

Suppressed(found) ==
    LET kept[n \in 0 .. Len(found)] ==
            IF n = 0 THEN <<>> ELSE Keep(kept[n - 1], found[n])
    IN  kept[Len(found)]

Yolo5Nms(found) == Suppressed(Sorted(found))

-----------------------------------------------------------------------------
(* Tiles to frame *)

Believe(found, p) == IF Believed(p) THEN Append(found, Detected(p)) ELSE found

Decoded(predictions) ==
    LET found[n \in 0 .. Len(predictions)] ==
            IF n = 0 THEN <<>> ELSE Believe(found[n - 1], predictions[n])
    IN  found[Len(predictions)]

Yolov8sPostProcess(predictions) == Yolo5Nms(Decoded(predictions))

Shifted(d, x_offset) == [d EXCEPT !.xmin = @ + x_offset, !.xmax = @ + x_offset]

\* Tiles that the scene does not name are empty.
TilePredictions(scene, i) == IF i \in DOMAIN scene THEN scene[i] ELSE <<>>

\* What post_process_thread() inserts for the i-th tile of a row.
TileDetections(scene, i, width) ==
    LET tile == Yolov8sPostProcess(TilePredictions(scene, i))
    IN  [k \in DOMAIN tile |-> Shifted(tile[k], TileOffset(i - 1, width, ModelWidth))]

Inserted(scene, width) ==
    LET inserted[n \in 0 .. TilesAlong(width, ModelWidth)] ==
            IF n = 0 THEN <<>>
            ELSE inserted[n - 1] \o TileDetections(scene, n, width)
    IN  inserted[TilesAlong(width, ModelWidth)]

\* Bug: what two tiles have both seen is not merged.
Infer_gray8Unmerged(scene, width) == Inserted(scene, width)

\* apply_nms() at the end of infer_gray8()
Infer_gray8(scene, width) == Yolo5Nms(Inserted(scene, width))
=============================================================================
