----------------------------- MODULE FrameMeta -----------------------------
(***************************************************************************)
(* The metadata the elements attach to a buffer                            *)
(* (src/src/gst/meta/gst_meta_v1.cpp).  A buffer carries a list of them;   *)
(* an add function refuses an invalid value and, for every kind that has   *)
(* to be single, a second one; a get function answers with the first of    *)
(* its kind; copying a buffer adds each metadata to the new one.           *)
(*                                                                         *)
(* Abstracted: ABI version, sizes and reserved fields, which every element *)
(* of the repository sets alike; boxes keep one axis, because each check   *)
(* and each computation treats both alike.                                 *)
(***************************************************************************)
EXTENDS Integers, Sequences

CONSTANT MaxTargets  \* IP_GST_META_MAX_TARGETS_PER_FRAME_V1; 256 in the code

\* A half-open box in filter coordinates.
Box == [min : Int, max : Int]

ValidBox(box) == box.min < box.max

\* Where the original lies in the filter plane: x' = (num/den) x + offset.
ValidGeometry(g) == g.original >= 1 /\ g.filter >= 1 /\ g.num > 0 /\ g.den > 0

\* The frame_id and the targets of a detection or tracking metadata.
ValidRole(r) ==
    /\ Len(r.targets) <= MaxTargets
    /\ \A i \in DOMAIN r.targets : ValidBox(r.targets[i])

Valid(info, value) ==
    CASE info = "geometry" -> ValidGeometry(value)
      [] info \in {"detection", "tracking"} -> ValidRole(value)
      [] info \in {"cdg00", "area_frame", "image_dir"} -> TRUE

\* The kinds whose add function looks for an earlier one.
Single == {"area_frame", "geometry", "detection", "tracking"}

Has(metas, info) == \E i \in DOMAIN metas : metas[i].info = info

CanAdd(metas, info, value) ==
    /\ Valid(info, value)
    /\ info \in Single => ~Has(metas, info)

Add(metas, info, value) == Append(metas, [info |-> info, value |-> value])

Get(metas, info) ==
    LET first == CHOOSE i \in DOMAIN metas :
                    /\ metas[i].info = info
                    /\ \A j \in 1 .. (i - 1) : metas[j].info # info
    IN  metas[first].value

\* Bug: the kinds that have to be single are registered without a transform
\* function.
CopyOfUntransformed(metas) == SelectSeq(metas, LAMBDA m : m.info \in {"cdg00"})

\* The transform function of a metadata adds it to the new buffer; one that
\* is refused is not copied.
CopyMeta(copied, m) ==
    IF CanAdd(copied, m.info, m.value) THEN Append(copied, m) ELSE copied

\* gst_buffer_copy_into() calls it for one metadata after the other.
CopyOf(metas) ==
    LET copied[n \in 0 .. Len(metas)] ==
            IF n = 0 THEN <<>> ELSE CopyMeta(copied[n - 1], metas[n])
    IN  copied[Len(metas)]
=============================================================================
