------------------------------ MODULE Delivery ------------------------------
(***************************************************************************)
(* What a task manager may rely on when it reads the work directory of a   *)
(* product_text or a ground run: at any moment there is either nothing     *)
(* delivered, or one complete product that never changes again.  What a    *)
(* complete product is depends on the mode.                                *)
(***************************************************************************)
CONSTANT Complete(_)  \* the value is a complete product

VARIABLE delivered    \* what result.json makes visible

Nothing == [exists |-> FALSE]

Init == delivered = Nothing

Deliver ==
    /\ delivered = Nothing
    /\ Complete(delivered')

Spec == Init /\ [][Deliver]_delivered
=============================================================================
