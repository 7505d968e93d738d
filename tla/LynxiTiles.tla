---------------------------- MODULE LynxiTiles ----------------------------
(***************************************************************************)
(* YoloxRuntime (src/src/backends/lynxi/yolox_runtime.cpp): start(),       *)
(* stop() and infer_gray8(), which runs three tasks for each frame.        *)
(*                                                                         *)
(*   pre    cuts a tile, waits until q_image is empty, puts the tile       *)
(*   infer  gets a tile, runs the model, puts a result into q_infer        *)
(*   post   gets a result and inserts its detections into out              *)
(*   main   starts them, waits for each and closes the queue behind it     *)
(*                                                                         *)
(* A queue (Queue of utils/utils.hpp) has one condition variable for all   *)
(* its waiters: put() and get() wake one of them, close() all.  Each call  *)
(* on a queue is a step; a thread whose predicate is false falls asleep,   *)
(* and a thread that wakes tests its predicate again.                      *)
(*                                                                         *)
(* A tile, its result and its detections are the number of the tile.       *)
(***************************************************************************)
EXTENDS Sequences, TileGrid

CONSTANTS
    Frames,     \* frames the calls are made with
    ModelWidth, \* width and height of the model's input
    PoolSize,   \* results in infer_pool; 20 in the code
    Calls       \* bound: calls of infer_gray8

ASSUME LynxiAssumption ==
    /\ Frames \subseteq [width : Nat \ {0}, height : Nat \ {0}]
    /\ ModelWidth \in Nat \ {0}
    /\ PoolSize \in Nat \ {0}
    /\ Calls \in Nat

VARIABLES
    device,     \* context and model: closed, open, leaked
    main,       \* where the calling thread stands
    calls,      \* calls made so far
    frame,      \* the frame of the call
    returned,   \* what the last call returned
    pre, infer, post,      \* where the tasks stand
    cut,        \* Cutter::index_, up to the number of tiles
    infer_tile, \* the tile infer works on
    post_tile,  \* the result post works on
    q_image, q_infer,      \* tiles waiting in the queues
    free,       \* results left in infer_pool
    closed,     \* queues that are closed
    exits,      \* of pre_exit and infer_exit, those that are TRUE
    asleep,     \* threads asleep in a condition variable
    failed,     \* tasks that ended with an exception or could not be started
    out         \* tiles whose detections have been inserted

mainVars == <<device, main, calls, frame, returned>>
queueVars == <<q_image, q_infer, free, closed, exits, asleep>>
taskVars == <<pre, infer, post, cut, infer_tile, post_tile>>
vars == <<mainVars, queueVars, taskVars, failed, out>>

Ended == {"none", "done", "dead"}
Tiles == TileCount(frame, ModelWidth)

\* Who sleeps in the condition variable of each queue.
ImageSleepers == {t \in asleep : t = "pre" \/ (t = "infer" /\ infer = "get")}
ResultSleepers == {t \in asleep : t = "post"}
PoolSleepers == {t \in asleep : t = "infer" /\ infer = "alloc"}

NotifyOne(sleepers) ==
    \/ sleepers = {} /\ asleep' = asleep
    \/ \E t \in sleepers : asleep' = asleep \ {t}

Sleep(t) == asleep' = asleep \cup {t}

Init ==
    /\ device = "closed"
    /\ main = "down"
    /\ calls = 0
    /\ frame \in Frames
    /\ returned = "none"
    /\ pre = "none" /\ infer = "none" /\ post = "none"
    /\ cut = 0 /\ infer_tile = 0 /\ post_tile = 0
    /\ q_image = <<>> /\ q_infer = <<>>
    /\ free = PoolSize
    /\ closed = {} /\ exits = {} /\ asleep = {} /\ failed = {}
    /\ out = <<>>

-----------------------------------------------------------------------------
(* start() and stop() *)

\* A missing model and an exception release everything; a stream error that
\* only the callback reports leaves context, model and streams behind.
Start ==
    /\ main = "down"
    /\ \/ device' = "open" /\ main' = "idle"
       \/ device' \in {"closed", "leaked"} /\ main' = "stopped"
    /\ UNCHANGED <<calls, frame, returned, queueVars, taskVars, failed, out>>

Stop ==
    /\ main = "idle"
    /\ device' = "closed"
    /\ main' = "stopped"
    /\ UNCHANGED <<calls, frame, returned, queueVars, taskVars, failed, out>>

-----------------------------------------------------------------------------
(* infer_gray8() on the calling thread *)

\* A new frame: out.clear(), a new Cutter and two new queues.
Call ==
    /\ main = "idle"
    /\ calls < Calls
    /\ calls' = calls + 1
    /\ frame' \in Frames
    /\ pre' = "none" /\ infer' = "none" /\ post' = "none"
    /\ cut' = 0 /\ infer_tile' = 0 /\ post_tile' = 0
    /\ q_image' = <<>> /\ q_infer' = <<>>
    /\ free' = PoolSize
    /\ closed' = {} /\ exits' = {} /\ asleep' = {} /\ failed' = {}
    /\ out' = <<>>
    /\ \/ /\ frame'.width < ModelWidth \/ frame'.height < ModelWidth
          /\ returned' = "false"
          /\ main' = main
       \/ /\ frame'.width >= ModelWidth /\ frame'.height >= ModelWidth
          /\ returned' = "none"
          /\ main' = "spawn pre"
    /\ UNCHANGED device

MainKeeps == UNCHANGED <<device, calls, frame, cut, infer_tile, post_tile,
                         q_image, q_infer, free, out>>

SpawnPre ==
    /\ main = "spawn pre"
    /\ pre' = "cut" /\ main' = "spawn infer"
    /\ UNCHANGED <<infer, post, returned, closed, exits, asleep, failed>>
    /\ MainKeeps

SpawnInfer ==
    /\ main = "spawn infer"
    /\ infer' = "check" /\ main' = "spawn post"
    /\ UNCHANGED <<pre, post, returned, closed, exits, asleep, failed>>
    /\ MainKeeps

SpawnPost ==
    /\ main = "spawn post"
    /\ post' = "check" /\ main' = "join pre"
    /\ UNCHANGED <<pre, infer, returned, closed, exits, asleep, failed>>
    /\ MainKeeps

\* std::async throws: the destructors of the futures wait for the tasks that
\* were started, and no queue is closed before they have ended.
SpawnFails ==
    /\ main \in {"spawn pre", "spawn infer", "spawn post"}
    /\ failed' = failed \cup {main}
    /\ main' = "unwind"
    /\ UNCHANGED <<pre, infer, post, returned, closed, exits, asleep>>
    /\ MainKeeps

Unwind ==
    /\ main = "unwind"
    /\ {pre, infer, post} \subseteq Ended
    /\ main' = "idle" /\ returned' = "false"
    /\ UNCHANGED <<pre, infer, post, closed, exits, asleep, failed>>
    /\ MainKeeps

\* future::wait(): an exception of the task is not rethrown.
JoinPre ==
    /\ main = "join pre" /\ pre \in Ended
    /\ main' = "exit pre"
    /\ UNCHANGED <<pre, infer, post, returned, closed, exits, asleep, failed>>
    /\ MainKeeps

\* With pre_mutex held until q_image is closed or found not to be empty.
ExitPre ==
    /\ main = "exit pre"
    /\ exits' = exits \cup {"pre"}
    /\ main' = IF q_image = <<>> THEN "close q_image" ELSE "join infer"
    /\ UNCHANGED <<pre, infer, post, returned, closed, asleep, failed>>
    /\ MainKeeps

\* Bug: the queue is closed without waking who waits in it.
CloseImagesSilent ==
    /\ main = "close q_image"
    /\ closed' = closed \cup {"q_image"}
    /\ main' = "join infer"
    /\ UNCHANGED <<pre, infer, post, returned, exits, asleep, failed>>
    /\ MainKeeps

CloseImages ==
    /\ main = "close q_image"
    /\ closed' = closed \cup {"q_image"}
    /\ asleep' = asleep \ ImageSleepers
    /\ main' = "join infer"
    /\ UNCHANGED <<pre, infer, post, returned, exits, failed>>
    /\ MainKeeps

JoinInfer ==
    /\ main = "join infer" /\ infer \in Ended
    /\ main' = "exit infer"
    /\ UNCHANGED <<pre, infer, post, returned, closed, exits, asleep, failed>>
    /\ MainKeeps

ExitInfer ==
    /\ main = "exit infer"
    /\ exits' = exits \cup {"infer"}
    /\ main' = IF q_infer = <<>> THEN "close q_infer" ELSE "join post"
    /\ UNCHANGED <<pre, infer, post, returned, closed, asleep, failed>>
    /\ MainKeeps

CloseResults ==
    /\ main = "close q_infer"
    /\ closed' = closed \cup {"q_infer"}
    /\ asleep' = asleep \ ResultSleepers
    /\ main' = "join post"
    /\ UNCHANGED <<pre, infer, post, returned, exits, failed>>
    /\ MainKeeps

\* What apply_nms() then makes of the detections is in module Detections.
JoinPost ==
    /\ main = "join post" /\ post \in Ended
    /\ main' = "idle" /\ returned' = "true"
    /\ UNCHANGED <<pre, infer, post, closed, exits, asleep, failed>>
    /\ MainKeeps

-----------------------------------------------------------------------------
(* pre_process_thread() *)

\* Cutter::get_next()
PreCut ==
    /\ pre = "cut"
    /\ IF cut < Tiles THEN cut' = cut + 1 /\ pre' = "wait"
                      ELSE cut' = cut /\ pre' = "done"
    /\ UNCHANGED <<mainVars, queueVars, infer, post, infer_tile, post_tile, failed, out>>

\* Bug: the put no longer waits for an empty queue.
PreWaitSkipped ==
    /\ pre = "wait"
    /\ pre' = "put"
    /\ UNCHANGED <<mainVars, queueVars, infer, post, cut, infer_tile, post_tile, failed, out>>

\* Queue::wait(): until the queue is empty.  A closed queue throws (PreDies).
PreWait ==
    /\ pre = "wait" /\ "pre" \notin asleep
    /\ "q_image" \notin closed
    /\ IF q_image = <<>> THEN pre' = "put" /\ asleep' = asleep
                         ELSE pre' = pre /\ Sleep("pre")
    /\ UNCHANGED <<mainVars, q_image, q_infer, free, closed, exits, infer, post, cut,
                   infer_tile, post_tile, failed, out>>

\* Queue::put()
PrePut ==
    /\ pre = "put"
    /\ "q_image" \notin closed
    /\ q_image' = Append(q_image, cut)
    /\ NotifyOne(ImageSleepers)
    /\ pre' = "cut"
    /\ UNCHANGED <<mainVars, q_infer, free, closed, exits, infer, post, cut,
                   infer_tile, post_tile, failed, out>>

\* The context, a conversion, an allocation or a copy to the device throws.
PreDies ==
    /\ pre \in {"cut", "wait", "put"} /\ "pre" \notin asleep
    /\ pre' = "dead"
    /\ failed' = failed \cup {"pre"}
    /\ UNCHANGED <<mainVars, queueVars, infer, post, cut, infer_tile, post_tile, out>>

-----------------------------------------------------------------------------
(* infer_thread() *)

\* Bug: the exit flag alone ends the loop, with a tile still queued.
InferCheckFlagOnly ==
    /\ infer = "check"
    /\ main # "close q_image"
    /\ infer' = IF "pre" \in exits THEN "done" ELSE "get"
    /\ UNCHANGED <<mainVars, queueVars, pre, post, cut, infer_tile, post_tile, failed, out>>

\* Under pre_mutex.
InferCheck ==
    /\ infer = "check"
    /\ main # "close q_image"
    /\ infer' = IF q_image = <<>> /\ "pre" \in exits THEN "done" ELSE "get"
    /\ UNCHANGED <<mainVars, queueVars, pre, post, cut, infer_tile, post_tile, failed, out>>

\* Bug: get() wakes nobody, like get_for() of the same class.
InferGetSilent ==
    /\ infer = "get" /\ "infer" \notin asleep
    /\ q_image # <<>>
    /\ infer_tile' = Head(q_image)
    /\ q_image' = Tail(q_image)
    /\ infer' = "predict"
    /\ UNCHANGED <<mainVars, q_infer, free, closed, exits, asleep, pre, post, cut,
                   post_tile, failed, out>>

\* Queue::get() of q_image
InferGet ==
    /\ infer = "get" /\ "infer" \notin asleep
    /\ q_image # <<>>
    /\ infer_tile' = Head(q_image)
    /\ q_image' = Tail(q_image)
    /\ NotifyOne(ImageSleepers)
    /\ infer' = "predict"
    /\ UNCHANGED <<mainVars, q_infer, free, closed, exits, pre, post, cut, post_tile,
                   failed, out>>

InferGetEmpty ==
    /\ infer = "get" /\ "infer" \notin asleep
    /\ q_image = <<>>
    /\ IF "q_image" \in closed THEN infer' = "done" /\ asleep' = asleep
                               ELSE infer' = infer /\ Sleep("infer")
    /\ UNCHANGED <<mainVars, q_image, q_infer, free, closed, exits, pre, post, cut,
                   infer_tile, post_tile, failed, out>>

InferPredict ==
    /\ infer = "predict"
    /\ infer' = "alloc"
    /\ UNCHANGED <<mainVars, queueVars, pre, post, cut, infer_tile, post_tile, failed, out>>

\* Queue::get() of infer_pool, which is never closed.
InferAlloc ==
    /\ infer = "alloc" /\ "infer" \notin asleep
    /\ IF free > 0 THEN free' = free - 1 /\ infer' = "send" /\ asleep' = asleep
                   ELSE free' = free /\ infer' = infer /\ Sleep("infer")
    /\ UNCHANGED <<mainVars, q_image, q_infer, closed, exits, pre, post, cut,
                   infer_tile, post_tile, failed, out>>

\* Queue::put() into q_infer.  A closed queue throws (InferDies).
InferSend ==
    /\ infer = "send"
    /\ "q_infer" \notin closed
    /\ q_infer' = Append(q_infer, infer_tile)
    /\ NotifyOne(ResultSleepers)
    /\ infer' = "check"
    /\ UNCHANGED <<mainVars, q_image, free, closed, exits, pre, post, cut, infer_tile,
                   post_tile, failed, out>>

\* The context, the model or a copy from the device throws; a result that was
\* allocated goes back to the pool.
InferDies ==
    /\ infer \in {"check", "predict", "send"}
    /\ infer' = "dead"
    /\ free' = IF infer = "send" THEN free + 1 ELSE free
    /\ failed' = failed \cup {"infer"}
    /\ UNCHANGED <<mainVars, q_image, q_infer, closed, exits, asleep, pre, post, cut,
                   infer_tile, post_tile, out>>

-----------------------------------------------------------------------------
(* post_process_thread() *)

\* Under infer_mutex.
PostCheck ==
    /\ post = "check"
    /\ main # "close q_infer"
    /\ post' = IF q_infer = <<>> /\ "infer" \in exits THEN "done" ELSE "get"
    /\ UNCHANGED <<mainVars, queueVars, pre, infer, cut, infer_tile, post_tile, failed, out>>

PostGet ==
    /\ post = "get" /\ "post" \notin asleep
    /\ q_infer # <<>>
    /\ post_tile' = Head(q_infer)
    /\ q_infer' = Tail(q_infer)
    /\ NotifyOne(ResultSleepers)
    /\ post' = "work"
    /\ UNCHANGED <<mainVars, q_image, free, closed, exits, pre, infer, cut, infer_tile,
                   failed, out>>

PostGetEmpty ==
    /\ post = "get" /\ "post" \notin asleep
    /\ q_infer = <<>>
    /\ IF "q_infer" \in closed THEN post' = "done" /\ asleep' = asleep
                               ELSE post' = post /\ Sleep("post")
    /\ UNCHANGED <<mainVars, q_image, q_infer, free, closed, exits, pre, infer, cut,
                   infer_tile, post_tile, failed, out>>

\* The detections of the tile are moved by its offsets and inserted; dropping
\* the result puts its memory back into infer_pool.
PostWork ==
    /\ post = "work"
    /\ out' = Append(out, post_tile)
    /\ free' = free + 1
    /\ NotifyOne(PoolSleepers)
    /\ post' = "check"
    /\ UNCHANGED <<mainVars, q_image, q_infer, closed, exits, pre, infer, cut,
                   infer_tile, post_tile, failed>>

PostDies ==
    /\ post = "work"
    /\ post' = "dead"
    /\ free' = free + 1
    /\ NotifyOne(PoolSleepers)
    /\ failed' = failed \cup {"post"}
    /\ UNCHANGED <<mainVars, q_image, q_infer, closed, exits, pre, infer, cut,
                   infer_tile, post_tile, out>>

-----------------------------------------------------------------------------

MainRuns ==
    SpawnPre \/ SpawnInfer \/ SpawnPost \/ Unwind \/ JoinPre \/ ExitPre \/ CloseImages
    \/ JoinInfer \/ ExitInfer \/ CloseResults \/ JoinPost
PreRuns == PreCut \/ PreWait \/ PrePut
InferRuns ==
    InferCheck \/ InferGet \/ InferGetEmpty \/ InferPredict \/ InferAlloc \/ InferSend
PostRuns == PostCheck \/ PostGet \/ PostGetEmpty \/ PostWork

Next ==
    \/ Start \/ Stop \/ Call
    \/ MainRuns \/ PreRuns \/ InferRuns \/ PostRuns
    \/ SpawnFails \/ PreDies \/ InferDies \/ PostDies

Spec == Init /\ [][Next]_vars

\* Four threads the operating system schedules; nothing has to fail.
FairSpec ==
    /\ Spec
    /\ WF_vars(MainRuns) /\ WF_vars(PreRuns) /\ WF_vars(InferRuns) /\ WF_vars(PostRuns)

-----------------------------------------------------------------------------
(* Properties *)

Stages == {"down", "idle", "stopped", "spawn pre", "spawn infer", "spawn post", "unwind",
           "join pre", "exit pre", "close q_image", "join infer", "exit infer",
           "close q_infer", "join post"}

\* Types, and what the waits bound: pre waits for an empty queue, so there is
\* never more than one tile in q_image, and results come from a pool.
TypeOK ==
    /\ device \in {"closed", "open", "leaked"}
    /\ main \in Stages
    /\ calls \in 0 .. Calls
    /\ frame \in Frames
    /\ returned \in {"none", "true", "false"}
    /\ pre \in Ended \cup {"cut", "wait", "put"}
    /\ infer \in Ended \cup {"check", "get", "predict", "alloc", "send"}
    /\ post \in Ended \cup {"check", "get", "work"}
    /\ cut \in Nat /\ infer_tile \in Nat /\ post_tile \in Nat
    /\ q_image \in Seq(Nat) /\ Len(q_image) <= 1
    /\ q_infer \in Seq(Nat) /\ Len(q_infer) <= PoolSize
    /\ free \in 0 .. PoolSize
    /\ closed \subseteq {"q_image", "q_infer"}
    /\ exits \subseteq {"pre", "infer"}
    /\ asleep \subseteq {"pre", "infer", "post"}
    /\ failed \subseteq {"pre", "infer", "post", "spawn pre", "spawn infer", "spawn post"}
    /\ out \in Seq(Nat)

\* A call that returns true without a failure inserted the detections of every
\* tile once; with failures it never inserts a tile twice, out of order, or
\* after one that is missing.
TilesInOrder ==
    /\ \A i \in 1 .. Len(out) : out[i] = i
    /\ main = "idle" /\ returned = "true" /\ failed = {} => Len(out) = Tiles

\* The model has seen every pixel of the frame of such a call, and no tile
\* reached over the frame's border.
EveryPixelInferred ==
    main = "idle" /\ returned = "true" /\ failed = {} =>
        /\ \A i \in 1 .. Len(out) : TileInside(TileAt(out[i], frame, ModelWidth), frame, ModelWidth)
        /\ \A x \in 0 .. frame.width - 1, y \in 0 .. frame.height - 1 :
               \E i \in 1 .. Len(out) :
                   TileCovers(TileAt(out[i], frame, ModelWidth), ModelWidth, x, y)

\* No wakeup is lost, though each queue has one condition variable and wakes
\* one waiter: who sleeps has nothing to do.
NobodySleepsInVain ==
    /\ "pre" \in asleep => pre = "wait" /\ q_image # <<>> /\ "q_image" \notin closed
    /\ "infer" \in asleep =>
           \/ infer = "get" /\ q_image = <<>> /\ "q_image" \notin closed
           \/ infer = "alloc" /\ free = 0
    /\ "post" \in asleep => post = "get" /\ q_infer = <<>> /\ "q_infer" \notin closed

\* A call returns, unless inference or post-processing failed under it: then
\* nobody empties the queue or the pool its producer waits for.  A frame of
\* one tile gets through even so, except when post could not be started:
\* pre_exit is not set then, and infer waits for a second tile.
CallReturns ==
    main = "spawn pre" ~>
        \/ main = "idle"
        \/ "spawn post" \in failed
        \/ /\ frame.width > ModelWidth \/ frame.height > ModelWidth
           /\ failed \cap {"infer", "post", "spawn infer"} # {}

\* yolox_runtime.hpp: infer_gray8 runs tiled YOLO on one frame, and gives a
\* human-readable failure when returning false.
TrueMeansEveryTile ==
    main = "idle" /\ returned = "true" => Len(out) = Tiles

=============================================================================
