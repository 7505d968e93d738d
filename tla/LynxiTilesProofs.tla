-------------------------- MODULE LynxiTilesProofs --------------------------
(***************************************************************************)
(* Theorems about LynxiTiles, for every set of frames, model width, pool   *)
(* size and number of calls.                                               *)
(*                                                                         *)
(* The inductive invariant IInv says where each tile is (FlowInv), how     *)
(* many results are in use (PoolInv), what the stage of the calling thread *)
(* says of the tasks (StageInv), and that nobody sleeps in vain.           *)
(*                                                                         *)
(* The second half is about calls that come to their end: HandsInv and     *)
(* ReachInv say that one of the four threads can go on, Left counts the    *)
(* steps there are still to do.                                            *)
(***************************************************************************)
EXTENDS LynxiTiles, TileGridProofs

-----------------------------------------------------------------------------
(* The inductive invariant *)

\* TypeOK, apart into what is finite and what is counted.
NamesOK ==
    /\ device \in {"closed", "open", "leaked"}
    /\ main \in Stages
    /\ calls \in 0 .. Calls
    /\ frame \in Frames
    /\ returned \in {"none", "true", "false"}
    /\ pre \in Ended \cup {"cut", "wait", "put"}
    /\ infer \in Ended \cup {"check", "get", "predict", "alloc", "send"}
    /\ post \in Ended \cup {"check", "get", "work"}
    /\ closed \subseteq {"q_image", "q_infer"}
    /\ exits \subseteq {"pre", "infer"}
    /\ asleep \subseteq {"pre", "infer", "post"}
    /\ failed \subseteq {"pre", "infer", "post", "spawn pre", "spawn infer", "spawn post"}

CountsOK ==
    /\ cut \in Nat /\ infer_tile \in Nat /\ post_tile \in Nat
    /\ q_image \in Seq(Nat) /\ Len(q_image) <= 1
    /\ q_infer \in Seq(Nat) /\ Len(q_infer) <= PoolSize
    /\ free \in 0 .. PoolSize
    /\ out \in Seq(Nat)

PostHolds == IF post \in {"work", "dead"} THEN 1 ELSE 0
InferHolds == IF infer \in {"predict", "alloc", "send"} THEN 1 ELSE 0
PreHolds == IF pre \in {"wait", "put"} THEN 1 ELSE 0

\* Tiles that have left infer, and tiles that have left pre while infer lives.
Sent == Len(out) + PostHolds + Len(q_infer)
Put == Sent + InferHolds + Len(q_image)

\* Every thread and queue holds the tiles that follow those further on; what
\* a dead task held is lost, and with it everything behind it.
OutInv == \A i \in 1 .. Len(out) : out[i] = i

PostInv ==
    /\ post \in {"work", "dead"} => post_tile = Len(out) + 1
    /\ \A i \in 1 .. Len(q_infer) : q_infer[i] = Len(out) + PostHolds + i

InferInv == infer # "dead" =>
    /\ InferHolds = 1 => infer_tile = Sent + 1
    /\ \A i \in 1 .. Len(q_image) : q_image[i] = Sent + InferHolds + i
    /\ pre # "dead" => cut = Put + PreHolds

CutInv ==
    /\ pre # "none" => cut <= Tiles
    /\ pre = "done" => cut = Tiles

FlowInv == OutInv /\ PostInv /\ InferInv /\ CutInv

PoolInv ==
    /\ free + Len(q_infer) + (IF infer = "send" THEN 1 ELSE 0)
            + (IF post = "work" THEN 1 ELSE 0) = PoolSize
    /\ pre = "put" => q_image = <<>>

\* Stages after which pre, infer have ended.
PreJoined == {"exit pre", "close q_image", "join infer", "exit infer", "close q_infer",
              "join post"}
InferJoined == {"exit infer", "close q_infer", "join post"}

StageInv ==
    /\ main = "down" => returned = "none"
    /\ main = "spawn pre" =>
           /\ frame.width >= ModelWidth /\ frame.height >= ModelWidth
           /\ pre = "none" /\ cut = 0
    /\ pre # "none" => frame.width >= ModelWidth /\ frame.height >= ModelWidth
    /\ main \in {"spawn pre", "spawn infer"} => infer = "none"
    /\ main \in {"spawn pre", "spawn infer", "spawn post"} => post = "none"
    /\ main \in {"spawn infer", "spawn post"} => pre # "none"
    /\ main = "spawn post" => infer # "none"
    /\ main \in PreJoined \cup {"join pre"} =>
           pre # "none" /\ infer # "none" /\ post # "none"
    /\ main \in PreJoined => pre \in {"done", "dead"}
    /\ main \in InferJoined => infer \in {"done", "dead"}
    /\ main = "idle" /\ returned = "true" =>
           pre \in {"done", "dead"} /\ infer \in {"done", "dead"} /\ post \in {"done", "dead"}

CloseInv ==
    /\ "pre" \in exits => pre \in {"done", "dead"}
    /\ "infer" \in exits => infer \in {"done", "dead"}
    /\ main = "close q_image" \/ "q_image" \in closed =>
           pre \in {"done", "dead"} /\ q_image = <<>>
    /\ main = "close q_infer" \/ "q_infer" \in closed =>
           infer \in {"done", "dead"} /\ q_infer = <<>>
    /\ infer = "done" => pre \in {"done", "dead"} /\ q_image = <<>>
    /\ post = "done" => infer \in {"done", "dead"} /\ q_infer = <<>>
    /\ pre = "dead" => "pre" \in failed
    /\ infer = "dead" => "infer" \in failed
    /\ post = "dead" => "post" \in failed

IInv ==
    /\ NamesOK /\ CountsOK /\ FlowInv /\ PoolInv /\ StageInv /\ CloseInv
    /\ NobodySleepsInVain

-----------------------------------------------------------------------------
(* Sequences *)

LEMMA EmptySequence == <<>> \in Seq(Nat) /\ Len(<<>>) = 0
OBVIOUS

LEMMA Appended ==
    ASSUME NEW s \in Seq(Nat), NEW e \in Nat
    PROVE  /\ Append(s, e) \in Seq(Nat)
           /\ Len(s) \in Nat /\ Len(Append(s, e)) = Len(s) + 1
           /\ \A i \in 1 .. Len(s) : Append(s, e)[i] = s[i]
           /\ Append(s, e)[Len(s) + 1] = e
OBVIOUS

LEMMA Popped ==
    ASSUME NEW s \in Seq(Nat), s # <<>>
    PROVE  /\ Tail(s) \in Seq(Nat)
           /\ Len(s) \in Nat \ {0} /\ Len(Tail(s)) = Len(s) - 1
           /\ Head(s) \in Nat /\ Head(s) = s[1]
           /\ \A i \in 1 .. Len(s) - 1 : Tail(s)[i] = s[i + 1]
OBVIOUS

\* A frame that is no smaller than the model's input has at least one tile.
LEMMA TilesAreCounted ==
    ASSUME frame \in Frames, frame.width >= ModelWidth, frame.height >= ModelWidth
    PROVE  Tiles \in Nat
<1>1. frame.width \in Nat \ {0} /\ frame.height \in Nat \ {0} /\ ModelWidth \in Nat \ {0}
    BY LynxiAssumption
<1>2. 0 \in 0 .. frame.width - 1 /\ 0 \in 0 .. frame.height - 1
    BY <1>1
<1>3. /\ TilesAlong(frame.width, ModelWidth) \in Nat
      /\ TilesAlong(frame.height, ModelWidth) \in Nat
    BY <1>1, <1>2, SideCovered
<1> QED BY <1>3 DEF Tiles, TileCount

-----------------------------------------------------------------------------
(* Every step preserves each part *)

\* Threads, results and sets have their types.
LEMMA NamesStep ==
    ASSUME IInv, Next
    PROVE  NamesOK'
<1>h. NamesOK
    BY DEF IInv
<1>1. CASE Start
    <2>1. /\ device' \in {"closed", "open", "leaked"}
          /\ calls' \in 0 .. Calls
          /\ frame' \in Frames
          /\ main' \in Stages
          /\ returned' \in {"none", "true", "false"}
        BY <1>h, <1>1 DEF Start, NamesOK, Stages, Ended, mainVars, queueVars, taskVars
    <2>2. /\ pre' \in Ended \cup {"cut", "wait", "put"}
          /\ infer' \in Ended \cup {"check", "get", "predict", "alloc", "send"}
          /\ post' \in Ended \cup {"check", "get", "work"}
          /\ closed' \subseteq {"q_image", "q_infer"}
          /\ exits' \subseteq {"pre", "infer"}
          /\ asleep' \subseteq {"pre", "infer", "post"}
          /\ failed' \subseteq {"pre", "infer", "post", "spawn pre", "spawn infer",
                          "spawn post"}
        BY <1>h, <1>1 DEF Start, NamesOK, Stages, Ended, mainVars, queueVars, taskVars
    <2> QED BY <2>1, <2>2 DEF NamesOK
<1>2. CASE Stop
    BY <1>h, <1>2 DEF Stop, NamesOK, Stages, Ended, mainVars, queueVars, taskVars
<1>3. CASE Call
    <2>1. /\ device' \in {"closed", "open", "leaked"}
        BY <1>h, <1>3 DEF Call, NamesOK, Stages, Ended, mainVars, queueVars, taskVars
    <2>2. /\ calls' \in 0 .. Calls
        <3>1. calls \in 0 .. Calls /\ Calls \in Nat
            BY <1>h, LynxiAssumption DEF NamesOK
        <3>2. calls < Calls /\ calls' = calls + 1
            BY <1>3 DEF Call
        <3> QED BY <3>1, <3>2
    <2>3. /\ frame' \in Frames
        BY <1>h, <1>3 DEF Call, NamesOK, Stages, Ended, mainVars, queueVars, taskVars
    <2>4. /\ main' \in Stages
          /\ returned' \in {"none", "true", "false"}
        BY <1>h, <1>3 DEF Call, NamesOK, Stages, Ended, mainVars, queueVars, taskVars
    <2>5. /\ pre' \in Ended \cup {"cut", "wait", "put"}
          /\ infer' \in Ended \cup {"check", "get", "predict", "alloc", "send"}
          /\ post' \in Ended \cup {"check", "get", "work"}
        BY <1>h, <1>3 DEF Call, NamesOK, Stages, Ended, mainVars, queueVars, taskVars
    <2>6. /\ closed' \subseteq {"q_image", "q_infer"}
          /\ exits' \subseteq {"pre", "infer"}
          /\ asleep' \subseteq {"pre", "infer", "post"}
          /\ failed' \subseteq {"pre", "infer", "post", "spawn pre", "spawn infer",
                          "spawn post"}
        BY <1>h, <1>3 DEF Call, NamesOK, Stages, Ended, mainVars, queueVars, taskVars
    <2> QED BY <2>1, <2>2, <2>3, <2>4, <2>5, <2>6 DEF NamesOK
<1>4. CASE SpawnPre
    <2>1. /\ device' \in {"closed", "open", "leaked"}
          /\ calls' \in 0 .. Calls
          /\ frame' \in Frames
          /\ main' \in Stages
          /\ returned' \in {"none", "true", "false"}
        BY <1>h, <1>4 DEF SpawnPre, MainKeeps, NamesOK, Stages, Ended, mainVars,
            queueVars, taskVars
    <2>2. /\ pre' \in Ended \cup {"cut", "wait", "put"}
          /\ infer' \in Ended \cup {"check", "get", "predict", "alloc", "send"}
          /\ post' \in Ended \cup {"check", "get", "work"}
          /\ closed' \subseteq {"q_image", "q_infer"}
          /\ exits' \subseteq {"pre", "infer"}
          /\ asleep' \subseteq {"pre", "infer", "post"}
          /\ failed' \subseteq {"pre", "infer", "post", "spawn pre", "spawn infer",
                          "spawn post"}
        BY <1>h, <1>4 DEF SpawnPre, MainKeeps, NamesOK, Stages, Ended, mainVars,
            queueVars, taskVars
    <2> QED BY <2>1, <2>2 DEF NamesOK
<1>5. CASE SpawnInfer
    <2>1. /\ device' \in {"closed", "open", "leaked"}
          /\ calls' \in 0 .. Calls
          /\ frame' \in Frames
          /\ main' \in Stages
          /\ returned' \in {"none", "true", "false"}
        BY <1>h, <1>5 DEF SpawnInfer, MainKeeps, NamesOK, Stages, Ended, mainVars,
            queueVars, taskVars
    <2>2. /\ pre' \in Ended \cup {"cut", "wait", "put"}
          /\ infer' \in Ended \cup {"check", "get", "predict", "alloc", "send"}
          /\ post' \in Ended \cup {"check", "get", "work"}
          /\ closed' \subseteq {"q_image", "q_infer"}
          /\ exits' \subseteq {"pre", "infer"}
          /\ asleep' \subseteq {"pre", "infer", "post"}
          /\ failed' \subseteq {"pre", "infer", "post", "spawn pre", "spawn infer",
                          "spawn post"}
        BY <1>h, <1>5 DEF SpawnInfer, MainKeeps, NamesOK, Stages, Ended, mainVars,
            queueVars, taskVars
    <2> QED BY <2>1, <2>2 DEF NamesOK
<1>6. CASE SpawnPost
    <2>1. /\ device' \in {"closed", "open", "leaked"}
          /\ calls' \in 0 .. Calls
          /\ frame' \in Frames
        BY <1>h, <1>6 DEF SpawnPost, MainKeeps, NamesOK, Stages, Ended, mainVars,
            queueVars, taskVars
    <2>2. /\ main' \in Stages
          /\ returned' \in {"none", "true", "false"}
        BY <1>h, <1>6 DEF SpawnPost, MainKeeps, NamesOK, Stages, Ended, mainVars,
            queueVars, taskVars
    <2>3. /\ pre' \in Ended \cup {"cut", "wait", "put"}
          /\ infer' \in Ended \cup {"check", "get", "predict", "alloc", "send"}
          /\ post' \in Ended \cup {"check", "get", "work"}
        BY <1>h, <1>6 DEF SpawnPost, MainKeeps, NamesOK, Stages, Ended, mainVars,
            queueVars, taskVars
    <2>4. /\ closed' \subseteq {"q_image", "q_infer"}
          /\ exits' \subseteq {"pre", "infer"}
          /\ asleep' \subseteq {"pre", "infer", "post"}
          /\ failed' \subseteq {"pre", "infer", "post", "spawn pre", "spawn infer",
                          "spawn post"}
        BY <1>h, <1>6 DEF SpawnPost, MainKeeps, NamesOK, Stages, Ended, mainVars,
            queueVars, taskVars
    <2> QED BY <2>1, <2>2, <2>3, <2>4 DEF NamesOK
<1>7. CASE Unwind
    <2>1. /\ device' \in {"closed", "open", "leaked"}
          /\ calls' \in 0 .. Calls
          /\ frame' \in Frames
          /\ main' \in Stages
          /\ returned' \in {"none", "true", "false"}
        BY <1>h, <1>7 DEF Unwind, MainKeeps, NamesOK, Stages, Ended, mainVars,
            queueVars, taskVars
    <2>2. /\ pre' \in Ended \cup {"cut", "wait", "put"}
          /\ infer' \in Ended \cup {"check", "get", "predict", "alloc", "send"}
          /\ post' \in Ended \cup {"check", "get", "work"}
          /\ closed' \subseteq {"q_image", "q_infer"}
          /\ exits' \subseteq {"pre", "infer"}
          /\ asleep' \subseteq {"pre", "infer", "post"}
          /\ failed' \subseteq {"pre", "infer", "post", "spawn pre", "spawn infer",
                          "spawn post"}
        BY <1>h, <1>7 DEF Unwind, MainKeeps, NamesOK, Stages, Ended, mainVars,
            queueVars, taskVars
    <2> QED BY <2>1, <2>2 DEF NamesOK
<1>8. CASE JoinPre
    <2>1. /\ device' \in {"closed", "open", "leaked"}
          /\ calls' \in 0 .. Calls
          /\ frame' \in Frames
          /\ main' \in Stages
          /\ returned' \in {"none", "true", "false"}
        BY <1>h, <1>8 DEF JoinPre, MainKeeps, NamesOK, Stages, Ended, mainVars,
            queueVars, taskVars
    <2>2. /\ pre' \in Ended \cup {"cut", "wait", "put"}
          /\ infer' \in Ended \cup {"check", "get", "predict", "alloc", "send"}
          /\ post' \in Ended \cup {"check", "get", "work"}
          /\ closed' \subseteq {"q_image", "q_infer"}
          /\ exits' \subseteq {"pre", "infer"}
          /\ asleep' \subseteq {"pre", "infer", "post"}
          /\ failed' \subseteq {"pre", "infer", "post", "spawn pre", "spawn infer",
                          "spawn post"}
        BY <1>h, <1>8 DEF JoinPre, MainKeeps, NamesOK, Stages, Ended, mainVars,
            queueVars, taskVars
    <2> QED BY <2>1, <2>2 DEF NamesOK
<1>9. CASE ExitPre
    <2>1. /\ device' \in {"closed", "open", "leaked"}
          /\ calls' \in 0 .. Calls
          /\ frame' \in Frames
          /\ main' \in Stages
          /\ returned' \in {"none", "true", "false"}
        BY <1>h, <1>9 DEF ExitPre, MainKeeps, NamesOK, Stages, Ended, mainVars,
            queueVars, taskVars
    <2>2. /\ pre' \in Ended \cup {"cut", "wait", "put"}
          /\ infer' \in Ended \cup {"check", "get", "predict", "alloc", "send"}
          /\ post' \in Ended \cup {"check", "get", "work"}
          /\ closed' \subseteq {"q_image", "q_infer"}
          /\ exits' \subseteq {"pre", "infer"}
          /\ asleep' \subseteq {"pre", "infer", "post"}
          /\ failed' \subseteq {"pre", "infer", "post", "spawn pre", "spawn infer",
                          "spawn post"}
        BY <1>h, <1>9 DEF ExitPre, MainKeeps, NamesOK, Stages, Ended, mainVars,
            queueVars, taskVars
    <2> QED BY <2>1, <2>2 DEF NamesOK
<1>10. CASE CloseImages
    <2>1. /\ device' \in {"closed", "open", "leaked"}
          /\ calls' \in 0 .. Calls
          /\ frame' \in Frames
          /\ main' \in Stages
          /\ returned' \in {"none", "true", "false"}
        BY <1>h, <1>10 DEF CloseImages, MainKeeps, ImageSleepers, NamesOK, Stages,
            Ended, mainVars, queueVars, taskVars
    <2>2. /\ pre' \in Ended \cup {"cut", "wait", "put"}
          /\ infer' \in Ended \cup {"check", "get", "predict", "alloc", "send"}
          /\ post' \in Ended \cup {"check", "get", "work"}
          /\ closed' \subseteq {"q_image", "q_infer"}
          /\ exits' \subseteq {"pre", "infer"}
          /\ asleep' \subseteq {"pre", "infer", "post"}
          /\ failed' \subseteq {"pre", "infer", "post", "spawn pre", "spawn infer",
                          "spawn post"}
        BY <1>h, <1>10 DEF CloseImages, MainKeeps, ImageSleepers, NamesOK, Stages,
            Ended, mainVars, queueVars, taskVars
    <2> QED BY <2>1, <2>2 DEF NamesOK
<1>11. CASE JoinInfer
    <2>1. /\ device' \in {"closed", "open", "leaked"}
          /\ calls' \in 0 .. Calls
          /\ frame' \in Frames
          /\ main' \in Stages
          /\ returned' \in {"none", "true", "false"}
        BY <1>h, <1>11 DEF JoinInfer, MainKeeps, NamesOK, Stages, Ended, mainVars,
            queueVars, taskVars
    <2>2. /\ pre' \in Ended \cup {"cut", "wait", "put"}
          /\ infer' \in Ended \cup {"check", "get", "predict", "alloc", "send"}
          /\ post' \in Ended \cup {"check", "get", "work"}
          /\ closed' \subseteq {"q_image", "q_infer"}
          /\ exits' \subseteq {"pre", "infer"}
          /\ asleep' \subseteq {"pre", "infer", "post"}
          /\ failed' \subseteq {"pre", "infer", "post", "spawn pre", "spawn infer",
                          "spawn post"}
        BY <1>h, <1>11 DEF JoinInfer, MainKeeps, NamesOK, Stages, Ended, mainVars,
            queueVars, taskVars
    <2> QED BY <2>1, <2>2 DEF NamesOK
<1>12. CASE ExitInfer
    <2>1. /\ device' \in {"closed", "open", "leaked"}
          /\ calls' \in 0 .. Calls
          /\ frame' \in Frames
          /\ main' \in Stages
          /\ returned' \in {"none", "true", "false"}
        BY <1>h, <1>12 DEF ExitInfer, MainKeeps, NamesOK, Stages, Ended, mainVars,
            queueVars, taskVars
    <2>2. /\ pre' \in Ended \cup {"cut", "wait", "put"}
          /\ infer' \in Ended \cup {"check", "get", "predict", "alloc", "send"}
          /\ post' \in Ended \cup {"check", "get", "work"}
          /\ closed' \subseteq {"q_image", "q_infer"}
          /\ exits' \subseteq {"pre", "infer"}
          /\ asleep' \subseteq {"pre", "infer", "post"}
          /\ failed' \subseteq {"pre", "infer", "post", "spawn pre", "spawn infer",
                          "spawn post"}
        BY <1>h, <1>12 DEF ExitInfer, MainKeeps, NamesOK, Stages, Ended, mainVars,
            queueVars, taskVars
    <2> QED BY <2>1, <2>2 DEF NamesOK
<1>13. CASE CloseResults
    <2>1. /\ device' \in {"closed", "open", "leaked"}
          /\ calls' \in 0 .. Calls
          /\ frame' \in Frames
          /\ main' \in Stages
          /\ returned' \in {"none", "true", "false"}
        BY <1>h, <1>13 DEF CloseResults, MainKeeps, ResultSleepers, NamesOK, Stages,
            Ended, mainVars, queueVars, taskVars
    <2>2. /\ pre' \in Ended \cup {"cut", "wait", "put"}
          /\ infer' \in Ended \cup {"check", "get", "predict", "alloc", "send"}
          /\ post' \in Ended \cup {"check", "get", "work"}
          /\ closed' \subseteq {"q_image", "q_infer"}
          /\ exits' \subseteq {"pre", "infer"}
          /\ asleep' \subseteq {"pre", "infer", "post"}
          /\ failed' \subseteq {"pre", "infer", "post", "spawn pre", "spawn infer",
                          "spawn post"}
        BY <1>h, <1>13 DEF CloseResults, MainKeeps, ResultSleepers, NamesOK, Stages,
            Ended, mainVars, queueVars, taskVars
    <2> QED BY <2>1, <2>2 DEF NamesOK
<1>14. CASE JoinPost
    <2>1. /\ device' \in {"closed", "open", "leaked"}
          /\ calls' \in 0 .. Calls
          /\ frame' \in Frames
          /\ main' \in Stages
          /\ returned' \in {"none", "true", "false"}
        BY <1>h, <1>14 DEF JoinPost, MainKeeps, NamesOK, Stages, Ended, mainVars,
            queueVars, taskVars
    <2>2. /\ pre' \in Ended \cup {"cut", "wait", "put"}
          /\ infer' \in Ended \cup {"check", "get", "predict", "alloc", "send"}
          /\ post' \in Ended \cup {"check", "get", "work"}
          /\ closed' \subseteq {"q_image", "q_infer"}
          /\ exits' \subseteq {"pre", "infer"}
          /\ asleep' \subseteq {"pre", "infer", "post"}
          /\ failed' \subseteq {"pre", "infer", "post", "spawn pre", "spawn infer",
                          "spawn post"}
        BY <1>h, <1>14 DEF JoinPost, MainKeeps, NamesOK, Stages, Ended, mainVars,
            queueVars, taskVars
    <2> QED BY <2>1, <2>2 DEF NamesOK
<1>15. CASE PreCut
    <2>1. /\ device' \in {"closed", "open", "leaked"}
          /\ calls' \in 0 .. Calls
          /\ frame' \in Frames
        BY <1>h, <1>15 DEF PreCut, NamesOK, Stages, Ended, mainVars, queueVars,
            taskVars
    <2>2. /\ main' \in Stages
          /\ returned' \in {"none", "true", "false"}
        BY <1>h, <1>15 DEF PreCut, NamesOK, Stages, Ended, mainVars, queueVars,
            taskVars
    <2>3. /\ pre' \in Ended \cup {"cut", "wait", "put"}
          /\ infer' \in Ended \cup {"check", "get", "predict", "alloc", "send"}
          /\ post' \in Ended \cup {"check", "get", "work"}
        BY <1>h, <1>15 DEF PreCut, NamesOK, Stages, Ended, mainVars, queueVars,
            taskVars
    <2>4. /\ closed' \subseteq {"q_image", "q_infer"}
          /\ exits' \subseteq {"pre", "infer"}
          /\ asleep' \subseteq {"pre", "infer", "post"}
          /\ failed' \subseteq {"pre", "infer", "post", "spawn pre", "spawn infer",
                          "spawn post"}
        BY <1>h, <1>15 DEF PreCut, NamesOK, Stages, Ended, mainVars, queueVars,
            taskVars
    <2> QED BY <2>1, <2>2, <2>3, <2>4 DEF NamesOK
<1>16. CASE PreWait
    <2>1. /\ device' \in {"closed", "open", "leaked"}
          /\ calls' \in 0 .. Calls
          /\ frame' \in Frames
        BY <1>h, <1>16 DEF PreWait, Sleep, NamesOK, Stages, Ended, mainVars, queueVars,
            taskVars
    <2>2. /\ main' \in Stages
          /\ returned' \in {"none", "true", "false"}
        BY <1>h, <1>16 DEF PreWait, Sleep, NamesOK, Stages, Ended, mainVars, queueVars,
            taskVars
    <2>3. /\ pre' \in Ended \cup {"cut", "wait", "put"}
          /\ infer' \in Ended \cup {"check", "get", "predict", "alloc", "send"}
          /\ post' \in Ended \cup {"check", "get", "work"}
        BY <1>h, <1>16 DEF PreWait, Sleep, NamesOK, Stages, Ended, mainVars, queueVars,
            taskVars
    <2>4. /\ closed' \subseteq {"q_image", "q_infer"}
          /\ exits' \subseteq {"pre", "infer"}
          /\ asleep' \subseteq {"pre", "infer", "post"}
          /\ failed' \subseteq {"pre", "infer", "post", "spawn pre", "spawn infer",
                          "spawn post"}
        BY <1>h, <1>16 DEF PreWait, Sleep, NamesOK, Stages, Ended, mainVars, queueVars,
            taskVars
    <2> QED BY <2>1, <2>2, <2>3, <2>4 DEF NamesOK
<1>17. CASE PrePut
    <2>1. /\ device' \in {"closed", "open", "leaked"}
          /\ calls' \in 0 .. Calls
          /\ frame' \in Frames
        BY <1>h, <1>17 DEF PrePut, ImageSleepers, NotifyOne, NamesOK, Stages, Ended,
            mainVars, queueVars, taskVars
    <2>2. /\ main' \in Stages
          /\ returned' \in {"none", "true", "false"}
        BY <1>h, <1>17 DEF PrePut, ImageSleepers, NotifyOne, NamesOK, Stages, Ended,
            mainVars, queueVars, taskVars
    <2>3. /\ pre' \in Ended \cup {"cut", "wait", "put"}
          /\ infer' \in Ended \cup {"check", "get", "predict", "alloc", "send"}
          /\ post' \in Ended \cup {"check", "get", "work"}
        BY <1>h, <1>17 DEF PrePut, ImageSleepers, NotifyOne, NamesOK, Stages, Ended,
            mainVars, queueVars, taskVars
    <2>4. /\ closed' \subseteq {"q_image", "q_infer"}
          /\ exits' \subseteq {"pre", "infer"}
          /\ asleep' \subseteq {"pre", "infer", "post"}
          /\ failed' \subseteq {"pre", "infer", "post", "spawn pre", "spawn infer",
                          "spawn post"}
        BY <1>h, <1>17 DEF PrePut, ImageSleepers, NotifyOne, NamesOK, Stages, Ended,
            mainVars, queueVars, taskVars
    <2> QED BY <2>1, <2>2, <2>3, <2>4 DEF NamesOK
<1>18. CASE InferCheck
    <2>1. /\ device' \in {"closed", "open", "leaked"}
          /\ calls' \in 0 .. Calls
          /\ frame' \in Frames
        BY <1>h, <1>18 DEF InferCheck, NamesOK, Stages, Ended, mainVars, queueVars,
            taskVars
    <2>2. /\ main' \in Stages
          /\ returned' \in {"none", "true", "false"}
        BY <1>h, <1>18 DEF InferCheck, NamesOK, Stages, Ended, mainVars, queueVars,
            taskVars
    <2>3. /\ pre' \in Ended \cup {"cut", "wait", "put"}
          /\ infer' \in Ended \cup {"check", "get", "predict", "alloc", "send"}
          /\ post' \in Ended \cup {"check", "get", "work"}
        BY <1>h, <1>18 DEF InferCheck, NamesOK, Stages, Ended, mainVars, queueVars,
            taskVars
    <2>4. /\ closed' \subseteq {"q_image", "q_infer"}
          /\ exits' \subseteq {"pre", "infer"}
          /\ asleep' \subseteq {"pre", "infer", "post"}
          /\ failed' \subseteq {"pre", "infer", "post", "spawn pre", "spawn infer",
                          "spawn post"}
        BY <1>h, <1>18 DEF InferCheck, NamesOK, Stages, Ended, mainVars, queueVars,
            taskVars
    <2> QED BY <2>1, <2>2, <2>3, <2>4 DEF NamesOK
<1>19. CASE InferGet
    <2>1. /\ device' \in {"closed", "open", "leaked"}
          /\ calls' \in 0 .. Calls
          /\ frame' \in Frames
        BY <1>h, <1>19 DEF InferGet, ImageSleepers, NotifyOne, NamesOK, Stages, Ended,
            mainVars, queueVars, taskVars
    <2>2. /\ main' \in Stages
          /\ returned' \in {"none", "true", "false"}
        BY <1>h, <1>19 DEF InferGet, ImageSleepers, NotifyOne, NamesOK, Stages, Ended,
            mainVars, queueVars, taskVars
    <2>3. /\ pre' \in Ended \cup {"cut", "wait", "put"}
          /\ infer' \in Ended \cup {"check", "get", "predict", "alloc", "send"}
          /\ post' \in Ended \cup {"check", "get", "work"}
        BY <1>h, <1>19 DEF InferGet, ImageSleepers, NotifyOne, NamesOK, Stages, Ended,
            mainVars, queueVars, taskVars
    <2>4. /\ closed' \subseteq {"q_image", "q_infer"}
          /\ exits' \subseteq {"pre", "infer"}
          /\ asleep' \subseteq {"pre", "infer", "post"}
          /\ failed' \subseteq {"pre", "infer", "post", "spawn pre", "spawn infer",
                          "spawn post"}
        BY <1>h, <1>19 DEF InferGet, ImageSleepers, NotifyOne, NamesOK, Stages, Ended,
            mainVars, queueVars, taskVars
    <2> QED BY <2>1, <2>2, <2>3, <2>4 DEF NamesOK
<1>20. CASE InferGetEmpty
    <2>1. /\ device' \in {"closed", "open", "leaked"}
          /\ calls' \in 0 .. Calls
          /\ frame' \in Frames
        BY <1>h, <1>20 DEF InferGetEmpty, Sleep, NamesOK, Stages, Ended, mainVars,
            queueVars, taskVars
    <2>2. /\ main' \in Stages
          /\ returned' \in {"none", "true", "false"}
        BY <1>h, <1>20 DEF InferGetEmpty, Sleep, NamesOK, Stages, Ended, mainVars,
            queueVars, taskVars
    <2>3. /\ pre' \in Ended \cup {"cut", "wait", "put"}
          /\ infer' \in Ended \cup {"check", "get", "predict", "alloc", "send"}
          /\ post' \in Ended \cup {"check", "get", "work"}
        BY <1>h, <1>20 DEF InferGetEmpty, Sleep, NamesOK, Stages, Ended, mainVars,
            queueVars, taskVars
    <2>4. /\ closed' \subseteq {"q_image", "q_infer"}
          /\ exits' \subseteq {"pre", "infer"}
          /\ asleep' \subseteq {"pre", "infer", "post"}
          /\ failed' \subseteq {"pre", "infer", "post", "spawn pre", "spawn infer",
                          "spawn post"}
        BY <1>h, <1>20 DEF InferGetEmpty, Sleep, NamesOK, Stages, Ended, mainVars,
            queueVars, taskVars
    <2> QED BY <2>1, <2>2, <2>3, <2>4 DEF NamesOK
<1>21. CASE InferPredict
    <2>1. /\ device' \in {"closed", "open", "leaked"}
          /\ calls' \in 0 .. Calls
          /\ frame' \in Frames
        BY <1>h, <1>21 DEF InferPredict, NamesOK, Stages, Ended, mainVars, queueVars,
            taskVars
    <2>2. /\ main' \in Stages
          /\ returned' \in {"none", "true", "false"}
        BY <1>h, <1>21 DEF InferPredict, NamesOK, Stages, Ended, mainVars, queueVars,
            taskVars
    <2>3. /\ pre' \in Ended \cup {"cut", "wait", "put"}
          /\ infer' \in Ended \cup {"check", "get", "predict", "alloc", "send"}
          /\ post' \in Ended \cup {"check", "get", "work"}
        BY <1>h, <1>21 DEF InferPredict, NamesOK, Stages, Ended, mainVars, queueVars,
            taskVars
    <2>4. /\ closed' \subseteq {"q_image", "q_infer"}
          /\ exits' \subseteq {"pre", "infer"}
          /\ asleep' \subseteq {"pre", "infer", "post"}
          /\ failed' \subseteq {"pre", "infer", "post", "spawn pre", "spawn infer",
                          "spawn post"}
        BY <1>h, <1>21 DEF InferPredict, NamesOK, Stages, Ended, mainVars, queueVars,
            taskVars
    <2> QED BY <2>1, <2>2, <2>3, <2>4 DEF NamesOK
<1>22. CASE InferAlloc
    <2>1. /\ device' \in {"closed", "open", "leaked"}
          /\ calls' \in 0 .. Calls
          /\ frame' \in Frames
        BY <1>h, <1>22 DEF InferAlloc, Sleep, NamesOK, Stages, Ended, mainVars,
            queueVars, taskVars
    <2>2. /\ main' \in Stages
          /\ returned' \in {"none", "true", "false"}
        BY <1>h, <1>22 DEF InferAlloc, Sleep, NamesOK, Stages, Ended, mainVars,
            queueVars, taskVars
    <2>3. /\ pre' \in Ended \cup {"cut", "wait", "put"}
          /\ infer' \in Ended \cup {"check", "get", "predict", "alloc", "send"}
          /\ post' \in Ended \cup {"check", "get", "work"}
        BY <1>h, <1>22 DEF InferAlloc, Sleep, NamesOK, Stages, Ended, mainVars,
            queueVars, taskVars
    <2>4. /\ closed' \subseteq {"q_image", "q_infer"}
          /\ exits' \subseteq {"pre", "infer"}
          /\ asleep' \subseteq {"pre", "infer", "post"}
          /\ failed' \subseteq {"pre", "infer", "post", "spawn pre", "spawn infer",
                          "spawn post"}
        BY <1>h, <1>22 DEF InferAlloc, Sleep, NamesOK, Stages, Ended, mainVars,
            queueVars, taskVars
    <2> QED BY <2>1, <2>2, <2>3, <2>4 DEF NamesOK
<1>23. CASE InferSend
    <2>1. /\ device' \in {"closed", "open", "leaked"}
          /\ calls' \in 0 .. Calls
          /\ frame' \in Frames
        BY <1>h, <1>23 DEF InferSend, ResultSleepers, NotifyOne, NamesOK, Stages,
            Ended, mainVars, queueVars, taskVars
    <2>2. /\ main' \in Stages
          /\ returned' \in {"none", "true", "false"}
        BY <1>h, <1>23 DEF InferSend, ResultSleepers, NotifyOne, NamesOK, Stages,
            Ended, mainVars, queueVars, taskVars
    <2>3. /\ pre' \in Ended \cup {"cut", "wait", "put"}
          /\ infer' \in Ended \cup {"check", "get", "predict", "alloc", "send"}
          /\ post' \in Ended \cup {"check", "get", "work"}
        BY <1>h, <1>23 DEF InferSend, ResultSleepers, NotifyOne, NamesOK, Stages,
            Ended, mainVars, queueVars, taskVars
    <2>4. /\ closed' \subseteq {"q_image", "q_infer"}
          /\ exits' \subseteq {"pre", "infer"}
          /\ asleep' \subseteq {"pre", "infer", "post"}
          /\ failed' \subseteq {"pre", "infer", "post", "spawn pre", "spawn infer",
                          "spawn post"}
        BY <1>h, <1>23 DEF InferSend, ResultSleepers, NotifyOne, NamesOK, Stages,
            Ended, mainVars, queueVars, taskVars
    <2> QED BY <2>1, <2>2, <2>3, <2>4 DEF NamesOK
<1>24. CASE PostCheck
    <2>1. /\ device' \in {"closed", "open", "leaked"}
          /\ calls' \in 0 .. Calls
          /\ frame' \in Frames
        BY <1>h, <1>24 DEF PostCheck, NamesOK, Stages, Ended, mainVars, queueVars,
            taskVars
    <2>2. /\ main' \in Stages
          /\ returned' \in {"none", "true", "false"}
        BY <1>h, <1>24 DEF PostCheck, NamesOK, Stages, Ended, mainVars, queueVars,
            taskVars
    <2>3. /\ pre' \in Ended \cup {"cut", "wait", "put"}
          /\ infer' \in Ended \cup {"check", "get", "predict", "alloc", "send"}
          /\ post' \in Ended \cup {"check", "get", "work"}
        BY <1>h, <1>24 DEF PostCheck, NamesOK, Stages, Ended, mainVars, queueVars,
            taskVars
    <2>4. /\ closed' \subseteq {"q_image", "q_infer"}
          /\ exits' \subseteq {"pre", "infer"}
          /\ asleep' \subseteq {"pre", "infer", "post"}
          /\ failed' \subseteq {"pre", "infer", "post", "spawn pre", "spawn infer",
                          "spawn post"}
        BY <1>h, <1>24 DEF PostCheck, NamesOK, Stages, Ended, mainVars, queueVars,
            taskVars
    <2> QED BY <2>1, <2>2, <2>3, <2>4 DEF NamesOK
<1>25. CASE PostGet
    <2>1. /\ device' \in {"closed", "open", "leaked"}
          /\ calls' \in 0 .. Calls
          /\ frame' \in Frames
        BY <1>h, <1>25 DEF PostGet, ResultSleepers, NotifyOne, NamesOK, Stages, Ended,
            mainVars, queueVars, taskVars
    <2>2. /\ main' \in Stages
          /\ returned' \in {"none", "true", "false"}
        BY <1>h, <1>25 DEF PostGet, ResultSleepers, NotifyOne, NamesOK, Stages, Ended,
            mainVars, queueVars, taskVars
    <2>3. /\ pre' \in Ended \cup {"cut", "wait", "put"}
          /\ infer' \in Ended \cup {"check", "get", "predict", "alloc", "send"}
          /\ post' \in Ended \cup {"check", "get", "work"}
        BY <1>h, <1>25 DEF PostGet, ResultSleepers, NotifyOne, NamesOK, Stages, Ended,
            mainVars, queueVars, taskVars
    <2>4. /\ closed' \subseteq {"q_image", "q_infer"}
          /\ exits' \subseteq {"pre", "infer"}
          /\ asleep' \subseteq {"pre", "infer", "post"}
          /\ failed' \subseteq {"pre", "infer", "post", "spawn pre", "spawn infer",
                          "spawn post"}
        BY <1>h, <1>25 DEF PostGet, ResultSleepers, NotifyOne, NamesOK, Stages, Ended,
            mainVars, queueVars, taskVars
    <2> QED BY <2>1, <2>2, <2>3, <2>4 DEF NamesOK
<1>26. CASE PostGetEmpty
    <2>1. /\ device' \in {"closed", "open", "leaked"}
          /\ calls' \in 0 .. Calls
          /\ frame' \in Frames
        BY <1>h, <1>26 DEF PostGetEmpty, Sleep, NamesOK, Stages, Ended, mainVars,
            queueVars, taskVars
    <2>2. /\ main' \in Stages
          /\ returned' \in {"none", "true", "false"}
        BY <1>h, <1>26 DEF PostGetEmpty, Sleep, NamesOK, Stages, Ended, mainVars,
            queueVars, taskVars
    <2>3. /\ pre' \in Ended \cup {"cut", "wait", "put"}
          /\ infer' \in Ended \cup {"check", "get", "predict", "alloc", "send"}
          /\ post' \in Ended \cup {"check", "get", "work"}
        BY <1>h, <1>26 DEF PostGetEmpty, Sleep, NamesOK, Stages, Ended, mainVars,
            queueVars, taskVars
    <2>4. /\ closed' \subseteq {"q_image", "q_infer"}
          /\ exits' \subseteq {"pre", "infer"}
          /\ asleep' \subseteq {"pre", "infer", "post"}
          /\ failed' \subseteq {"pre", "infer", "post", "spawn pre", "spawn infer",
                          "spawn post"}
        BY <1>h, <1>26 DEF PostGetEmpty, Sleep, NamesOK, Stages, Ended, mainVars,
            queueVars, taskVars
    <2> QED BY <2>1, <2>2, <2>3, <2>4 DEF NamesOK
<1>27. CASE PostWork
    <2>1. /\ device' \in {"closed", "open", "leaked"}
          /\ calls' \in 0 .. Calls
          /\ frame' \in Frames
        BY <1>h, <1>27 DEF PostWork, PoolSleepers, NotifyOne, NamesOK, Stages, Ended,
            mainVars, queueVars, taskVars
    <2>2. /\ main' \in Stages
          /\ returned' \in {"none", "true", "false"}
        BY <1>h, <1>27 DEF PostWork, PoolSleepers, NotifyOne, NamesOK, Stages, Ended,
            mainVars, queueVars, taskVars
    <2>3. /\ pre' \in Ended \cup {"cut", "wait", "put"}
          /\ infer' \in Ended \cup {"check", "get", "predict", "alloc", "send"}
          /\ post' \in Ended \cup {"check", "get", "work"}
        BY <1>h, <1>27 DEF PostWork, PoolSleepers, NotifyOne, NamesOK, Stages, Ended,
            mainVars, queueVars, taskVars
    <2>4. /\ closed' \subseteq {"q_image", "q_infer"}
          /\ exits' \subseteq {"pre", "infer"}
          /\ asleep' \subseteq {"pre", "infer", "post"}
          /\ failed' \subseteq {"pre", "infer", "post", "spawn pre", "spawn infer",
                          "spawn post"}
        BY <1>h, <1>27 DEF PostWork, PoolSleepers, NotifyOne, NamesOK, Stages, Ended,
            mainVars, queueVars, taskVars
    <2> QED BY <2>1, <2>2, <2>3, <2>4 DEF NamesOK
<1>28. CASE SpawnFails
    <2>1. /\ device' \in {"closed", "open", "leaked"}
          /\ calls' \in 0 .. Calls
          /\ frame' \in Frames
        BY <1>h, <1>28 DEF SpawnFails, MainKeeps, NamesOK, Stages, Ended, mainVars,
            queueVars, taskVars
    <2>2. /\ main' \in Stages
          /\ returned' \in {"none", "true", "false"}
        BY <1>h, <1>28 DEF SpawnFails, MainKeeps, NamesOK, Stages, Ended, mainVars,
            queueVars, taskVars
    <2>3. /\ pre' \in Ended \cup {"cut", "wait", "put"}
          /\ infer' \in Ended \cup {"check", "get", "predict", "alloc", "send"}
          /\ post' \in Ended \cup {"check", "get", "work"}
        BY <1>h, <1>28 DEF SpawnFails, MainKeeps, NamesOK, Stages, Ended, mainVars,
            queueVars, taskVars
    <2>4. /\ closed' \subseteq {"q_image", "q_infer"}
          /\ exits' \subseteq {"pre", "infer"}
          /\ asleep' \subseteq {"pre", "infer", "post"}
          /\ failed' \subseteq {"pre", "infer", "post", "spawn pre", "spawn infer",
                          "spawn post"}
        BY <1>h, <1>28 DEF SpawnFails, MainKeeps, NamesOK, Stages, Ended, mainVars,
            queueVars, taskVars
    <2> QED BY <2>1, <2>2, <2>3, <2>4 DEF NamesOK
<1>29. CASE PreDies
    <2>1. /\ device' \in {"closed", "open", "leaked"}
          /\ calls' \in 0 .. Calls
          /\ frame' \in Frames
        BY <1>h, <1>29 DEF PreDies, NamesOK, Stages, Ended, mainVars, queueVars,
            taskVars
    <2>2. /\ main' \in Stages
          /\ returned' \in {"none", "true", "false"}
        BY <1>h, <1>29 DEF PreDies, NamesOK, Stages, Ended, mainVars, queueVars,
            taskVars
    <2>3. /\ pre' \in Ended \cup {"cut", "wait", "put"}
          /\ infer' \in Ended \cup {"check", "get", "predict", "alloc", "send"}
          /\ post' \in Ended \cup {"check", "get", "work"}
        BY <1>h, <1>29 DEF PreDies, NamesOK, Stages, Ended, mainVars, queueVars,
            taskVars
    <2>4. /\ closed' \subseteq {"q_image", "q_infer"}
          /\ exits' \subseteq {"pre", "infer"}
          /\ asleep' \subseteq {"pre", "infer", "post"}
          /\ failed' \subseteq {"pre", "infer", "post", "spawn pre", "spawn infer",
                          "spawn post"}
        BY <1>h, <1>29 DEF PreDies, NamesOK, Stages, Ended, mainVars, queueVars,
            taskVars
    <2> QED BY <2>1, <2>2, <2>3, <2>4 DEF NamesOK
<1>30. CASE InferDies
    <2>1. /\ device' \in {"closed", "open", "leaked"}
          /\ calls' \in 0 .. Calls
          /\ frame' \in Frames
        BY <1>h, <1>30 DEF InferDies, NamesOK, Stages, Ended, mainVars, queueVars,
            taskVars
    <2>2. /\ main' \in Stages
          /\ returned' \in {"none", "true", "false"}
        BY <1>h, <1>30 DEF InferDies, NamesOK, Stages, Ended, mainVars, queueVars,
            taskVars
    <2>3. /\ pre' \in Ended \cup {"cut", "wait", "put"}
          /\ infer' \in Ended \cup {"check", "get", "predict", "alloc", "send"}
          /\ post' \in Ended \cup {"check", "get", "work"}
        BY <1>h, <1>30 DEF InferDies, NamesOK, Stages, Ended, mainVars, queueVars,
            taskVars
    <2>4. /\ closed' \subseteq {"q_image", "q_infer"}
          /\ exits' \subseteq {"pre", "infer"}
          /\ asleep' \subseteq {"pre", "infer", "post"}
          /\ failed' \subseteq {"pre", "infer", "post", "spawn pre", "spawn infer",
                          "spawn post"}
        BY <1>h, <1>30 DEF InferDies, NamesOK, Stages, Ended, mainVars, queueVars,
            taskVars
    <2> QED BY <2>1, <2>2, <2>3, <2>4 DEF NamesOK
<1>31. CASE PostDies
    <2>1. /\ device' \in {"closed", "open", "leaked"}
          /\ calls' \in 0 .. Calls
          /\ frame' \in Frames
        BY <1>h, <1>31 DEF PostDies, PoolSleepers, NotifyOne, NamesOK, Stages, Ended,
            mainVars, queueVars, taskVars
    <2>2. /\ main' \in Stages
          /\ returned' \in {"none", "true", "false"}
        BY <1>h, <1>31 DEF PostDies, PoolSleepers, NotifyOne, NamesOK, Stages, Ended,
            mainVars, queueVars, taskVars
    <2>3. /\ pre' \in Ended \cup {"cut", "wait", "put"}
          /\ infer' \in Ended \cup {"check", "get", "predict", "alloc", "send"}
          /\ post' \in Ended \cup {"check", "get", "work"}
        BY <1>h, <1>31 DEF PostDies, PoolSleepers, NotifyOne, NamesOK, Stages, Ended,
            mainVars, queueVars, taskVars
    <2>4. /\ closed' \subseteq {"q_image", "q_infer"}
          /\ exits' \subseteq {"pre", "infer"}
          /\ asleep' \subseteq {"pre", "infer", "post"}
          /\ failed' \subseteq {"pre", "infer", "post", "spawn pre", "spawn infer",
                          "spawn post"}
        BY <1>h, <1>31 DEF PostDies, PoolSleepers, NotifyOne, NamesOK, Stages, Ended,
            mainVars, queueVars, taskVars
    <2> QED BY <2>1, <2>2, <2>3, <2>4 DEF NamesOK
<1> QED
    BY <1>1, <1>2, <1>3, <1>4, <1>5, <1>6, <1>7, <1>8, <1>9, <1>10, <1>11, <1>12,
       <1>13, <1>14, <1>15, <1>16, <1>17, <1>18, <1>19, <1>20, <1>21, <1>22, <1>23,
       <1>24, <1>25, <1>26, <1>27, <1>28, <1>29, <1>30, <1>31
    DEF Next, MainRuns, PreRuns, InferRuns, PostRuns

\* Tiles are numbers, queues hold at most what the waits and the pool allow.
LEMMA CountsStep ==
    ASSUME IInv, Next
    PROVE  CountsOK'
<1>h. CountsOK /\ PoolInv
    BY DEF IInv
<1>1. CASE Start
    BY <1>h, <1>1 DEF Start, CountsOK, mainVars, queueVars, taskVars
<1>2. CASE Stop
    BY <1>h, <1>2 DEF Stop, CountsOK, mainVars, queueVars, taskVars
<1>3. CASE Call
    <2>1. /\ cut' = 0 /\ infer_tile' = 0 /\ post_tile' = 0 /\ free' = PoolSize
          /\ q_image' = <<>> /\ q_infer' = <<>> /\ out' = <<>>
        BY <1>3 DEF Call
    <2> QED BY <2>1, EmptySequence, LynxiAssumption DEF CountsOK
<1>4. CASE SpawnPre
    BY <1>h, <1>4 DEF SpawnPre, MainKeeps, CountsOK, mainVars, queueVars, taskVars
<1>5. CASE SpawnInfer
    BY <1>h, <1>5 DEF SpawnInfer, MainKeeps, CountsOK, mainVars, queueVars, taskVars
<1>6. CASE SpawnPost
    BY <1>h, <1>6 DEF SpawnPost, MainKeeps, CountsOK, mainVars, queueVars, taskVars
<1>7. CASE Unwind
    BY <1>h, <1>7 DEF Unwind, MainKeeps, CountsOK, mainVars, queueVars, taskVars
<1>8. CASE JoinPre
    BY <1>h, <1>8 DEF JoinPre, MainKeeps, CountsOK, mainVars, queueVars, taskVars
<1>9. CASE ExitPre
    BY <1>h, <1>9 DEF ExitPre, MainKeeps, CountsOK, mainVars, queueVars, taskVars
<1>10. CASE CloseImages
    BY <1>h, <1>10 DEF CloseImages, MainKeeps, ImageSleepers, CountsOK, mainVars,
        queueVars, taskVars
<1>11. CASE JoinInfer
    BY <1>h, <1>11 DEF JoinInfer, MainKeeps, CountsOK, mainVars, queueVars, taskVars
<1>12. CASE ExitInfer
    BY <1>h, <1>12 DEF ExitInfer, MainKeeps, CountsOK, mainVars, queueVars, taskVars
<1>13. CASE CloseResults
    BY <1>h, <1>13 DEF CloseResults, MainKeeps, ResultSleepers, CountsOK, mainVars,
        queueVars, taskVars
<1>14. CASE JoinPost
    BY <1>h, <1>14 DEF JoinPost, MainKeeps, CountsOK, mainVars, queueVars, taskVars
<1>15. CASE PreCut
    <2>1. cut' \in Nat /\ infer_tile' \in Nat /\ post_tile' \in Nat
        BY <1>h, <1>15, LynxiAssumption DEF PreCut, CountsOK, PoolInv, mainVars,
            queueVars, taskVars
    <2>2. q_image' \in Seq(Nat) /\ Len(q_image') <= 1
        BY <1>h, <1>15, LynxiAssumption DEF PreCut, CountsOK, PoolInv, mainVars,
            queueVars, taskVars
    <2>3. q_infer' \in Seq(Nat) /\ Len(q_infer') <= PoolSize
        BY <1>h, <1>15, LynxiAssumption DEF PreCut, CountsOK, PoolInv, mainVars,
            queueVars, taskVars
    <2>4. free' \in 0 .. PoolSize /\ out' \in Seq(Nat)
        BY <1>h, <1>15, LynxiAssumption DEF PreCut, CountsOK, PoolInv, mainVars,
            queueVars, taskVars
    <2> QED BY <2>1, <2>2, <2>3, <2>4 DEF CountsOK
<1>16. CASE PreWait
    BY <1>h, <1>16 DEF PreWait, Sleep, CountsOK, mainVars, queueVars, taskVars
<1>17. CASE PrePut
    <2>1. cut' \in Nat /\ infer_tile' \in Nat /\ post_tile' \in Nat
        BY <1>h, <1>17, LynxiAssumption, Appended, EmptySequence DEF PrePut,
            ImageSleepers, NotifyOne, CountsOK, PoolInv, mainVars, queueVars, taskVars
    <2>2. q_image' \in Seq(Nat) /\ Len(q_image') <= 1
        BY <1>h, <1>17, LynxiAssumption, Appended, EmptySequence DEF PrePut,
            ImageSleepers, NotifyOne, CountsOK, PoolInv, mainVars, queueVars, taskVars
    <2>3. q_infer' \in Seq(Nat) /\ Len(q_infer') <= PoolSize
        BY <1>h, <1>17, LynxiAssumption, Appended, EmptySequence DEF PrePut,
            ImageSleepers, NotifyOne, CountsOK, PoolInv, mainVars, queueVars, taskVars
    <2>4. free' \in 0 .. PoolSize /\ out' \in Seq(Nat)
        BY <1>h, <1>17, LynxiAssumption, Appended, EmptySequence DEF PrePut,
            ImageSleepers, NotifyOne, CountsOK, PoolInv, mainVars, queueVars, taskVars
    <2> QED BY <2>1, <2>2, <2>3, <2>4 DEF CountsOK
<1>18. CASE InferCheck
    BY <1>h, <1>18 DEF InferCheck, CountsOK, mainVars, queueVars, taskVars
<1>19. CASE InferGet
    <2>1. cut' \in Nat /\ infer_tile' \in Nat /\ post_tile' \in Nat
        BY <1>h, <1>19, LynxiAssumption, Popped DEF InferGet, ImageSleepers, NotifyOne,
            CountsOK, PoolInv, mainVars, queueVars, taskVars
    <2>2. q_image' \in Seq(Nat) /\ Len(q_image') <= 1
        BY <1>h, <1>19, LynxiAssumption, Popped DEF InferGet, ImageSleepers, NotifyOne,
            CountsOK, PoolInv, mainVars, queueVars, taskVars
    <2>3. q_infer' \in Seq(Nat) /\ Len(q_infer') <= PoolSize
        BY <1>h, <1>19, LynxiAssumption, Popped DEF InferGet, ImageSleepers, NotifyOne,
            CountsOK, PoolInv, mainVars, queueVars, taskVars
    <2>4. free' \in 0 .. PoolSize /\ out' \in Seq(Nat)
        BY <1>h, <1>19, LynxiAssumption, Popped DEF InferGet, ImageSleepers, NotifyOne,
            CountsOK, PoolInv, mainVars, queueVars, taskVars
    <2> QED BY <2>1, <2>2, <2>3, <2>4 DEF CountsOK
<1>20. CASE InferGetEmpty
    BY <1>h, <1>20 DEF InferGetEmpty, Sleep, CountsOK, mainVars, queueVars, taskVars
<1>21. CASE InferPredict
    BY <1>h, <1>21 DEF InferPredict, CountsOK, mainVars, queueVars, taskVars
<1>22. CASE InferAlloc
    <2>1. cut' \in Nat /\ infer_tile' \in Nat /\ post_tile' \in Nat
        BY <1>h, <1>22, LynxiAssumption DEF InferAlloc, Sleep, CountsOK, PoolInv,
            mainVars, queueVars, taskVars
    <2>2. q_image' \in Seq(Nat) /\ Len(q_image') <= 1
        BY <1>h, <1>22, LynxiAssumption DEF InferAlloc, Sleep, CountsOK, PoolInv,
            mainVars, queueVars, taskVars
    <2>3. q_infer' \in Seq(Nat) /\ Len(q_infer') <= PoolSize
        BY <1>h, <1>22, LynxiAssumption DEF InferAlloc, Sleep, CountsOK, PoolInv,
            mainVars, queueVars, taskVars
    <2>4. free' \in 0 .. PoolSize /\ out' \in Seq(Nat)
        BY <1>h, <1>22, LynxiAssumption DEF InferAlloc, Sleep, CountsOK, PoolInv,
            mainVars, queueVars, taskVars
    <2> QED BY <2>1, <2>2, <2>3, <2>4 DEF CountsOK
<1>23. CASE InferSend
    <2>1. cut' \in Nat /\ infer_tile' \in Nat /\ post_tile' \in Nat
        BY <1>h, <1>23, LynxiAssumption, Appended DEF InferSend, ResultSleepers,
            NotifyOne, CountsOK, PoolInv, mainVars, queueVars, taskVars
    <2>2. q_image' \in Seq(Nat) /\ Len(q_image') <= 1
        BY <1>h, <1>23, LynxiAssumption, Appended DEF InferSend, ResultSleepers,
            NotifyOne, CountsOK, PoolInv, mainVars, queueVars, taskVars
    <2>3. q_infer' \in Seq(Nat) /\ Len(q_infer') <= PoolSize
        BY <1>h, <1>23, LynxiAssumption, Appended DEF InferSend, ResultSleepers,
            NotifyOne, CountsOK, PoolInv, mainVars, queueVars, taskVars
    <2>4. free' \in 0 .. PoolSize /\ out' \in Seq(Nat)
        BY <1>h, <1>23, LynxiAssumption, Appended DEF InferSend, ResultSleepers,
            NotifyOne, CountsOK, PoolInv, mainVars, queueVars, taskVars
    <2> QED BY <2>1, <2>2, <2>3, <2>4 DEF CountsOK
<1>24. CASE PostCheck
    BY <1>h, <1>24 DEF PostCheck, CountsOK, mainVars, queueVars, taskVars
<1>25. CASE PostGet
    <2>1. cut' \in Nat /\ infer_tile' \in Nat /\ post_tile' \in Nat
        BY <1>h, <1>25, LynxiAssumption, Popped DEF PostGet, ResultSleepers, NotifyOne,
            CountsOK, PoolInv, mainVars, queueVars, taskVars
    <2>2. q_image' \in Seq(Nat) /\ Len(q_image') <= 1
        BY <1>h, <1>25, LynxiAssumption, Popped DEF PostGet, ResultSleepers, NotifyOne,
            CountsOK, PoolInv, mainVars, queueVars, taskVars
    <2>3. q_infer' \in Seq(Nat) /\ Len(q_infer') <= PoolSize
        BY <1>h, <1>25, LynxiAssumption, Popped DEF PostGet, ResultSleepers, NotifyOne,
            CountsOK, PoolInv, mainVars, queueVars, taskVars
    <2>4. free' \in 0 .. PoolSize /\ out' \in Seq(Nat)
        BY <1>h, <1>25, LynxiAssumption, Popped DEF PostGet, ResultSleepers, NotifyOne,
            CountsOK, PoolInv, mainVars, queueVars, taskVars
    <2> QED BY <2>1, <2>2, <2>3, <2>4 DEF CountsOK
<1>26. CASE PostGetEmpty
    BY <1>h, <1>26 DEF PostGetEmpty, Sleep, CountsOK, mainVars, queueVars, taskVars
<1>27. CASE PostWork
    <2>1. cut' \in Nat /\ infer_tile' \in Nat /\ post_tile' \in Nat
        BY <1>h, <1>27, LynxiAssumption, Appended DEF PostWork, PoolSleepers,
            NotifyOne, CountsOK, PoolInv, mainVars, queueVars, taskVars
    <2>2. q_image' \in Seq(Nat) /\ Len(q_image') <= 1
        BY <1>h, <1>27, LynxiAssumption, Appended DEF PostWork, PoolSleepers,
            NotifyOne, CountsOK, PoolInv, mainVars, queueVars, taskVars
    <2>3. q_infer' \in Seq(Nat) /\ Len(q_infer') <= PoolSize
        BY <1>h, <1>27, LynxiAssumption, Appended DEF PostWork, PoolSleepers,
            NotifyOne, CountsOK, PoolInv, mainVars, queueVars, taskVars
    <2>4. free' \in 0 .. PoolSize /\ out' \in Seq(Nat)
        BY <1>h, <1>27, LynxiAssumption, Appended DEF PostWork, PoolSleepers,
            NotifyOne, CountsOK, PoolInv, mainVars, queueVars, taskVars
    <2> QED BY <2>1, <2>2, <2>3, <2>4 DEF CountsOK
<1>28. CASE SpawnFails
    BY <1>h, <1>28 DEF SpawnFails, MainKeeps, CountsOK, mainVars, queueVars, taskVars
<1>29. CASE PreDies
    BY <1>h, <1>29 DEF PreDies, CountsOK, mainVars, queueVars, taskVars
<1>30. CASE InferDies
    <2>1. cut' \in Nat /\ infer_tile' \in Nat /\ post_tile' \in Nat
        BY <1>h, <1>30, LynxiAssumption DEF InferDies, CountsOK, PoolInv, mainVars,
            queueVars, taskVars
    <2>2. q_image' \in Seq(Nat) /\ Len(q_image') <= 1
        BY <1>h, <1>30, LynxiAssumption DEF InferDies, CountsOK, PoolInv, mainVars,
            queueVars, taskVars
    <2>3. q_infer' \in Seq(Nat) /\ Len(q_infer') <= PoolSize
        BY <1>h, <1>30, LynxiAssumption DEF InferDies, CountsOK, PoolInv, mainVars,
            queueVars, taskVars
    <2>4. free' \in 0 .. PoolSize /\ out' \in Seq(Nat)
        BY <1>h, <1>30, LynxiAssumption DEF InferDies, CountsOK, PoolInv, mainVars,
            queueVars, taskVars
    <2> QED BY <2>1, <2>2, <2>3, <2>4 DEF CountsOK
<1>31. CASE PostDies
    <2>1. cut' \in Nat /\ infer_tile' \in Nat /\ post_tile' \in Nat
        BY <1>h, <1>31, LynxiAssumption DEF PostDies, PoolSleepers, NotifyOne,
            CountsOK, PoolInv, mainVars, queueVars, taskVars
    <2>2. q_image' \in Seq(Nat) /\ Len(q_image') <= 1
        BY <1>h, <1>31, LynxiAssumption DEF PostDies, PoolSleepers, NotifyOne,
            CountsOK, PoolInv, mainVars, queueVars, taskVars
    <2>3. q_infer' \in Seq(Nat) /\ Len(q_infer') <= PoolSize
        BY <1>h, <1>31, LynxiAssumption DEF PostDies, PoolSleepers, NotifyOne,
            CountsOK, PoolInv, mainVars, queueVars, taskVars
    <2>4. free' \in 0 .. PoolSize /\ out' \in Seq(Nat)
        BY <1>h, <1>31, LynxiAssumption DEF PostDies, PoolSleepers, NotifyOne,
            CountsOK, PoolInv, mainVars, queueVars, taskVars
    <2> QED BY <2>1, <2>2, <2>3, <2>4 DEF CountsOK
<1> QED
    BY <1>1, <1>2, <1>3, <1>4, <1>5, <1>6, <1>7, <1>8, <1>9, <1>10, <1>11, <1>12,
       <1>13, <1>14, <1>15, <1>16, <1>17, <1>18, <1>19, <1>20, <1>21, <1>22, <1>23,
       <1>24, <1>25, <1>26, <1>27, <1>28, <1>29, <1>30, <1>31
    DEF Next, MainRuns, PreRuns, InferRuns, PostRuns

\* Free results and those in use make up the pool.
LEMMA PoolStep ==
    ASSUME IInv, Next
    PROVE  PoolInv'
<1>h. CountsOK /\ PoolInv /\ StageInv
    BY DEF IInv
<1>1. CASE Start
    BY <1>h, <1>1 DEF Start, PoolInv, mainVars, queueVars, taskVars
<1>2. CASE Stop
    BY <1>h, <1>2 DEF Stop, PoolInv, mainVars, queueVars, taskVars
<1>3. CASE Call
    <2>1. /\ pre' = "none" /\ infer' = "none" /\ post' = "none"
          /\ q_infer' = <<>> /\ free' = PoolSize
        BY <1>3 DEF Call
    <2> QED BY <2>1, EmptySequence, LynxiAssumption DEF PoolInv
<1>4. CASE SpawnPre
    BY <1>h, <1>4 DEF SpawnPre, MainKeeps, PoolInv, mainVars, queueVars, taskVars
<1>5. CASE SpawnInfer
    BY <1>h, <1>5 DEF SpawnInfer, MainKeeps, PoolInv, mainVars, queueVars, taskVars,
        StageInv
<1>6. CASE SpawnPost
    BY <1>h, <1>6 DEF SpawnPost, MainKeeps, PoolInv, mainVars, queueVars, taskVars,
        StageInv
<1>7. CASE Unwind
    BY <1>h, <1>7 DEF Unwind, MainKeeps, PoolInv, mainVars, queueVars, taskVars
<1>8. CASE JoinPre
    BY <1>h, <1>8 DEF JoinPre, MainKeeps, PoolInv, mainVars, queueVars, taskVars
<1>9. CASE ExitPre
    BY <1>h, <1>9 DEF ExitPre, MainKeeps, PoolInv, mainVars, queueVars, taskVars
<1>10. CASE CloseImages
    BY <1>h, <1>10 DEF CloseImages, MainKeeps, ImageSleepers, PoolInv, mainVars,
        queueVars, taskVars
<1>11. CASE JoinInfer
    BY <1>h, <1>11 DEF JoinInfer, MainKeeps, PoolInv, mainVars, queueVars, taskVars
<1>12. CASE ExitInfer
    BY <1>h, <1>12 DEF ExitInfer, MainKeeps, PoolInv, mainVars, queueVars, taskVars
<1>13. CASE CloseResults
    BY <1>h, <1>13 DEF CloseResults, MainKeeps, ResultSleepers, PoolInv, mainVars,
        queueVars, taskVars
<1>14. CASE JoinPost
    BY <1>h, <1>14 DEF JoinPost, MainKeeps, PoolInv, mainVars, queueVars, taskVars
<1>15. CASE PreCut
    BY <1>h, <1>15 DEF PreCut, PoolInv, mainVars, queueVars, taskVars
<1>16. CASE PreWait
    BY <1>h, <1>16 DEF PreWait, Sleep, PoolInv, mainVars, queueVars, taskVars
<1>17. CASE PrePut
    BY <1>h, <1>17 DEF PrePut, ImageSleepers, NotifyOne, PoolInv, mainVars, queueVars,
        taskVars
<1>18. CASE InferCheck
    BY <1>h, <1>18 DEF InferCheck, PoolInv, mainVars, queueVars, taskVars
<1>19. CASE InferGet
    BY <1>h, <1>19 DEF InferGet, ImageSleepers, NotifyOne, PoolInv, mainVars,
        queueVars, taskVars
<1>20. CASE InferGetEmpty
    BY <1>h, <1>20 DEF InferGetEmpty, Sleep, PoolInv, mainVars, queueVars, taskVars
<1>21. CASE InferPredict
    BY <1>h, <1>21 DEF InferPredict, PoolInv, mainVars, queueVars, taskVars
<1>22. CASE InferAlloc
    <2>1. free' + Len(q_infer') + (IF infer' = "send" THEN 1 ELSE 0)
              + (IF post' = "work" THEN 1 ELSE 0) = PoolSize
        BY <1>h, <1>22, LynxiAssumption DEF InferAlloc, Sleep, CountsOK, PoolInv,
            mainVars, queueVars, taskVars
    <2>2. pre' = "put" => q_image' = <<>>
        BY <1>h, <1>22 DEF InferAlloc, Sleep, CountsOK, PoolInv, mainVars, queueVars,
            taskVars
    <2> QED BY <2>1, <2>2 DEF PoolInv
<1>23. CASE InferSend
    <2>1. free' + Len(q_infer') + (IF infer' = "send" THEN 1 ELSE 0)
              + (IF post' = "work" THEN 1 ELSE 0) = PoolSize
        BY <1>h, <1>23, LynxiAssumption, Appended DEF InferSend, ResultSleepers,
            NotifyOne, CountsOK, PoolInv, mainVars, queueVars, taskVars
    <2>2. pre' = "put" => q_image' = <<>>
        BY <1>h, <1>23, Appended DEF InferSend, ResultSleepers, NotifyOne, CountsOK,
            PoolInv, mainVars, queueVars, taskVars
    <2> QED BY <2>1, <2>2 DEF PoolInv
<1>24. CASE PostCheck
    BY <1>h, <1>24 DEF PostCheck, PoolInv, mainVars, queueVars, taskVars
<1>25. CASE PostGet
    <2>1. free' + Len(q_infer') + (IF infer' = "send" THEN 1 ELSE 0)
              + (IF post' = "work" THEN 1 ELSE 0) = PoolSize
        BY <1>h, <1>25, LynxiAssumption, Popped DEF PostGet, ResultSleepers, NotifyOne,
            CountsOK, PoolInv, mainVars, queueVars, taskVars
    <2>2. pre' = "put" => q_image' = <<>>
        BY <1>h, <1>25, Popped DEF PostGet, ResultSleepers, NotifyOne, CountsOK,
            PoolInv, mainVars, queueVars, taskVars
    <2> QED BY <2>1, <2>2 DEF PoolInv
<1>26. CASE PostGetEmpty
    BY <1>h, <1>26 DEF PostGetEmpty, Sleep, PoolInv, mainVars, queueVars, taskVars
<1>27. CASE PostWork
    <2>1. free' + Len(q_infer') + (IF infer' = "send" THEN 1 ELSE 0)
              + (IF post' = "work" THEN 1 ELSE 0) = PoolSize
        BY <1>h, <1>27, LynxiAssumption DEF PostWork, PoolSleepers, NotifyOne,
            CountsOK, PoolInv, mainVars, queueVars, taskVars
    <2>2. pre' = "put" => q_image' = <<>>
        BY <1>h, <1>27 DEF PostWork, PoolSleepers, NotifyOne, CountsOK, PoolInv,
            mainVars, queueVars, taskVars
    <2> QED BY <2>1, <2>2 DEF PoolInv
<1>28. CASE SpawnFails
    BY <1>h, <1>28 DEF SpawnFails, MainKeeps, PoolInv, mainVars, queueVars, taskVars
<1>29. CASE PreDies
    BY <1>h, <1>29 DEF PreDies, PoolInv, mainVars, queueVars, taskVars
<1>30. CASE InferDies
    <2>1. free \in Int /\ Len(q_infer) \in Nat /\ PoolSize \in Nat
        BY <1>h, LynxiAssumption DEF CountsOK
    <2>2. UNCHANGED <<q_image, q_infer, pre, post>> /\ infer' = "dead"
          /\ free' = IF infer = "send" THEN free + 1 ELSE free
        BY <1>30 DEF InferDies, mainVars
    <2>3. CASE infer = "send"
        BY <1>h, <2>1, <2>2, <2>3 DEF PoolInv
    <2>4. CASE infer # "send"
        BY <1>h, <2>1, <2>2, <2>4 DEF PoolInv
    <2> QED BY <2>3, <2>4
<1>31. CASE PostDies
    <2>1. free' + Len(q_infer') + (IF infer' = "send" THEN 1 ELSE 0)
              + (IF post' = "work" THEN 1 ELSE 0) = PoolSize
        BY <1>h, <1>31, LynxiAssumption DEF PostDies, PoolSleepers, NotifyOne,
            CountsOK, PoolInv, mainVars, queueVars, taskVars
    <2>2. pre' = "put" => q_image' = <<>>
        BY <1>h, <1>31 DEF PostDies, PoolSleepers, NotifyOne, CountsOK, PoolInv,
            mainVars, queueVars, taskVars
    <2> QED BY <2>1, <2>2 DEF PoolInv
<1> QED
    BY <1>1, <1>2, <1>3, <1>4, <1>5, <1>6, <1>7, <1>8, <1>9, <1>10, <1>11, <1>12,
       <1>13, <1>14, <1>15, <1>16, <1>17, <1>18, <1>19, <1>20, <1>21, <1>22, <1>23,
       <1>24, <1>25, <1>26, <1>27, <1>28, <1>29, <1>30, <1>31
    DEF Next, MainRuns, PreRuns, InferRuns, PostRuns

\* out holds the first tiles in order.
LEMMA OutStep ==
    ASSUME IInv, Next
    PROVE  OutInv'
<1>h. OutInv /\ PostInv /\ CountsOK
    BY DEF IInv, FlowInv
<1>1. CASE Start
    BY <1>h, <1>1 DEF Start, OutInv, mainVars, queueVars, taskVars
<1>2. CASE Stop
    BY <1>h, <1>2 DEF Stop, OutInv, mainVars, queueVars, taskVars
<1>3. CASE Call
    <2>1. Len(out') = 0
        BY <1>3, EmptySequence DEF Call
    <2> QED BY <2>1 DEF OutInv
<1>4. CASE SpawnPre
    BY <1>h, <1>4 DEF SpawnPre, MainKeeps, OutInv, mainVars, queueVars, taskVars
<1>5. CASE SpawnInfer
    BY <1>h, <1>5 DEF SpawnInfer, MainKeeps, OutInv, mainVars, queueVars, taskVars
<1>6. CASE SpawnPost
    BY <1>h, <1>6 DEF SpawnPost, MainKeeps, OutInv, mainVars, queueVars, taskVars
<1>7. CASE Unwind
    BY <1>h, <1>7 DEF Unwind, MainKeeps, OutInv, mainVars, queueVars, taskVars
<1>8. CASE JoinPre
    BY <1>h, <1>8 DEF JoinPre, MainKeeps, OutInv, mainVars, queueVars, taskVars
<1>9. CASE ExitPre
    BY <1>h, <1>9 DEF ExitPre, MainKeeps, OutInv, mainVars, queueVars, taskVars
<1>10. CASE CloseImages
    BY <1>h, <1>10 DEF CloseImages, MainKeeps, ImageSleepers, OutInv, mainVars,
        queueVars, taskVars
<1>11. CASE JoinInfer
    BY <1>h, <1>11 DEF JoinInfer, MainKeeps, OutInv, mainVars, queueVars, taskVars
<1>12. CASE ExitInfer
    BY <1>h, <1>12 DEF ExitInfer, MainKeeps, OutInv, mainVars, queueVars, taskVars
<1>13. CASE CloseResults
    BY <1>h, <1>13 DEF CloseResults, MainKeeps, ResultSleepers, OutInv, mainVars,
        queueVars, taskVars
<1>14. CASE JoinPost
    BY <1>h, <1>14 DEF JoinPost, MainKeeps, OutInv, mainVars, queueVars, taskVars
<1>15. CASE PreCut
    BY <1>h, <1>15 DEF PreCut, OutInv, mainVars, queueVars, taskVars
<1>16. CASE PreWait
    BY <1>h, <1>16 DEF PreWait, Sleep, OutInv, mainVars, queueVars, taskVars
<1>17. CASE PrePut
    BY <1>h, <1>17 DEF PrePut, ImageSleepers, NotifyOne, OutInv, mainVars, queueVars,
        taskVars
<1>18. CASE InferCheck
    BY <1>h, <1>18 DEF InferCheck, OutInv, mainVars, queueVars, taskVars
<1>19. CASE InferGet
    BY <1>h, <1>19 DEF InferGet, ImageSleepers, NotifyOne, OutInv, mainVars, queueVars,
        taskVars
<1>20. CASE InferGetEmpty
    BY <1>h, <1>20 DEF InferGetEmpty, Sleep, OutInv, mainVars, queueVars, taskVars
<1>21. CASE InferPredict
    BY <1>h, <1>21 DEF InferPredict, OutInv, mainVars, queueVars, taskVars
<1>22. CASE InferAlloc
    BY <1>h, <1>22 DEF InferAlloc, Sleep, OutInv, mainVars, queueVars, taskVars
<1>23. CASE InferSend
    BY <1>h, <1>23 DEF InferSend, ResultSleepers, NotifyOne, OutInv, mainVars,
        queueVars, taskVars
<1>24. CASE PostCheck
    BY <1>h, <1>24 DEF PostCheck, OutInv, mainVars, queueVars, taskVars
<1>25. CASE PostGet
    BY <1>h, <1>25 DEF PostGet, ResultSleepers, NotifyOne, OutInv, mainVars, queueVars,
        taskVars
<1>26. CASE PostGetEmpty
    BY <1>h, <1>26 DEF PostGetEmpty, Sleep, OutInv, mainVars, queueVars, taskVars
<1>27. CASE PostWork
    <2>1. out \in Seq(Nat) /\ post_tile = Len(out) + 1 /\ post_tile \in Nat
        BY <1>h, <1>27 DEF PostWork, PostInv, CountsOK
    <2>2. out' = Append(out, post_tile)
        BY <1>27 DEF PostWork
    <2> QED BY <1>h, <2>1, <2>2, Appended DEF OutInv
<1>28. CASE SpawnFails
    BY <1>h, <1>28 DEF SpawnFails, MainKeeps, OutInv, mainVars, queueVars, taskVars
<1>29. CASE PreDies
    BY <1>h, <1>29 DEF PreDies, OutInv, mainVars, queueVars, taskVars
<1>30. CASE InferDies
    BY <1>h, <1>30 DEF InferDies, OutInv, mainVars, queueVars, taskVars
<1>31. CASE PostDies
    BY <1>h, <1>31 DEF PostDies, PoolSleepers, NotifyOne, OutInv, mainVars, queueVars,
        taskVars
<1> QED
    BY <1>1, <1>2, <1>3, <1>4, <1>5, <1>6, <1>7, <1>8, <1>9, <1>10, <1>11, <1>12,
       <1>13, <1>14, <1>15, <1>16, <1>17, <1>18, <1>19, <1>20, <1>21, <1>22, <1>23,
       <1>24, <1>25, <1>26, <1>27, <1>28, <1>29, <1>30, <1>31
    DEF Next, MainRuns, PreRuns, InferRuns, PostRuns

\* post and q_infer hold the tiles that follow.
LEMMA PostStep ==
    ASSUME IInv, Next
    PROVE  PostInv'
<1>h. OutInv /\ PostInv /\ InferInv /\ CountsOK /\ StageInv
    BY DEF IInv, FlowInv
<1>1. CASE Start
    BY <1>h, <1>1 DEF Start, PostInv, mainVars, queueVars, taskVars, PostHolds
<1>2. CASE Stop
    BY <1>h, <1>2 DEF Stop, PostInv, mainVars, queueVars, taskVars, PostHolds
<1>3. CASE Call
    <2>1. Len(q_infer') = 0 /\ post' = "none"
        BY <1>3, EmptySequence DEF Call
    <2> QED BY <2>1 DEF PostInv
<1>4. CASE SpawnPre
    BY <1>h, <1>4 DEF SpawnPre, MainKeeps, PostInv, mainVars, queueVars, taskVars,
        PostHolds
<1>5. CASE SpawnInfer
    BY <1>h, <1>5 DEF SpawnInfer, MainKeeps, PostInv, mainVars, queueVars, taskVars,
        PostHolds
<1>6. CASE SpawnPost
    BY <1>h, <1>6 DEF SpawnPost, MainKeeps, PostInv, mainVars, queueVars, taskVars,
        PostHolds, StageInv
<1>7. CASE Unwind
    BY <1>h, <1>7 DEF Unwind, MainKeeps, PostInv, mainVars, queueVars, taskVars,
        PostHolds
<1>8. CASE JoinPre
    BY <1>h, <1>8 DEF JoinPre, MainKeeps, PostInv, mainVars, queueVars, taskVars,
        PostHolds
<1>9. CASE ExitPre
    BY <1>h, <1>9 DEF ExitPre, MainKeeps, PostInv, mainVars, queueVars, taskVars,
        PostHolds
<1>10. CASE CloseImages
    BY <1>h, <1>10 DEF CloseImages, MainKeeps, ImageSleepers, PostInv, mainVars,
        queueVars, taskVars, PostHolds
<1>11. CASE JoinInfer
    BY <1>h, <1>11 DEF JoinInfer, MainKeeps, PostInv, mainVars, queueVars, taskVars,
        PostHolds
<1>12. CASE ExitInfer
    BY <1>h, <1>12 DEF ExitInfer, MainKeeps, PostInv, mainVars, queueVars, taskVars,
        PostHolds
<1>13. CASE CloseResults
    BY <1>h, <1>13 DEF CloseResults, MainKeeps, ResultSleepers, PostInv, mainVars,
        queueVars, taskVars, PostHolds
<1>14. CASE JoinPost
    BY <1>h, <1>14 DEF JoinPost, MainKeeps, PostInv, mainVars, queueVars, taskVars,
        PostHolds
<1>15. CASE PreCut
    BY <1>h, <1>15 DEF PreCut, PostInv, mainVars, queueVars, taskVars, PostHolds
<1>16. CASE PreWait
    BY <1>h, <1>16 DEF PreWait, Sleep, PostInv, mainVars, queueVars, taskVars,
        PostHolds
<1>17. CASE PrePut
    BY <1>h, <1>17 DEF PrePut, ImageSleepers, NotifyOne, PostInv, mainVars, queueVars,
        taskVars, PostHolds
<1>18. CASE InferCheck
    BY <1>h, <1>18 DEF InferCheck, PostInv, mainVars, queueVars, taskVars, PostHolds
<1>19. CASE InferGet
    BY <1>h, <1>19 DEF InferGet, ImageSleepers, NotifyOne, PostInv, mainVars,
        queueVars, taskVars, PostHolds
<1>20. CASE InferGetEmpty
    BY <1>h, <1>20 DEF InferGetEmpty, Sleep, PostInv, mainVars, queueVars, taskVars,
        PostHolds
<1>21. CASE InferPredict
    BY <1>h, <1>21 DEF InferPredict, PostInv, mainVars, queueVars, taskVars, PostHolds
<1>22. CASE InferAlloc
    BY <1>h, <1>22 DEF InferAlloc, Sleep, PostInv, mainVars, queueVars, taskVars,
        PostHolds
<1>23. CASE InferSend
    <2>1. q_infer \in Seq(Nat) /\ infer_tile \in Nat /\ Len(out) \in Nat
          /\ infer_tile = Len(out) + PostHolds + Len(q_infer) + 1
        BY <1>h, <1>23 DEF InferSend, InferInv, InferHolds, Sent, CountsOK
    <2>2. q_infer' = Append(q_infer, infer_tile) /\ UNCHANGED <<out, post, post_tile>>
        BY <1>23 DEF InferSend
    <2>3. PostHolds' = PostHolds /\ PostHolds \in Nat
        BY <2>2 DEF PostHolds
    <2>4. Len(q_infer) \in Nat /\ Len(q_infer') = Len(q_infer) + 1
          /\ q_infer'[Len(q_infer) + 1] = infer_tile
          /\ \A i \in 1 .. Len(q_infer) : q_infer'[i] = q_infer[i]
        BY <2>1, <2>2, Appended
    <2> QED BY <1>h, <2>1, <2>2, <2>3, <2>4 DEF PostInv
<1>24. CASE PostCheck
    BY <1>h, <1>24 DEF PostCheck, PostInv, mainVars, queueVars, taskVars, PostHolds
<1>25. CASE PostGet
    <2>1. q_infer \in Seq(Nat) /\ Len(out) \in Nat /\ post = "get" /\ q_infer # <<>>
        BY <1>h, <1>25 DEF PostGet, CountsOK
    <2>2. q_infer' = Tail(q_infer) /\ post_tile' = Head(q_infer) /\ out' = out
          /\ post' = "work"
        BY <1>25 DEF PostGet
    <2>3. PostHolds' = 1 /\ PostHolds = 0
        BY <2>1, <2>2 DEF PostHolds
    <2>4. Len(q_infer) \in Nat \ {0} /\ Len(q_infer') = Len(q_infer) - 1
          /\ post_tile' = q_infer[1]
          /\ \A i \in 1 .. Len(q_infer) - 1 : q_infer'[i] = q_infer[i + 1]
        BY <2>1, <2>2, Popped
    <2> QED BY <1>h, <2>1, <2>2, <2>3, <2>4 DEF PostInv
<1>26. CASE PostGetEmpty
    BY <1>h, <1>26 DEF PostGetEmpty, Sleep, PostInv, mainVars, queueVars, taskVars,
        PostHolds
<1>27. CASE PostWork
    <2>1. out \in Seq(Nat) /\ post_tile \in Nat /\ PostHolds = 1
        BY <1>h, <1>27 DEF PostWork, PostHolds, CountsOK
    <2>2. Len(out') = Len(out) + 1 /\ Len(out) \in Nat /\ PostHolds' = 0
        BY <2>1, <1>27, Appended DEF PostWork, PostHolds
    <2>3. q_infer' = q_infer /\ post' = "check"
        BY <1>27 DEF PostWork
    <2> QED BY <1>h, <2>1, <2>2, <2>3 DEF PostInv
<1>28. CASE SpawnFails
    BY <1>h, <1>28 DEF SpawnFails, MainKeeps, PostInv, mainVars, queueVars, taskVars,
        PostHolds
<1>29. CASE PreDies
    BY <1>h, <1>29 DEF PreDies, PostInv, mainVars, queueVars, taskVars, PostHolds
<1>30. CASE InferDies
    BY <1>h, <1>30 DEF InferDies, PostInv, mainVars, queueVars, taskVars, PostHolds
<1>31. CASE PostDies
    BY <1>h, <1>31 DEF PostDies, PoolSleepers, NotifyOne, PostInv, mainVars, queueVars,
        taskVars, PostHolds
<1> QED
    BY <1>1, <1>2, <1>3, <1>4, <1>5, <1>6, <1>7, <1>8, <1>9, <1>10, <1>11, <1>12,
       <1>13, <1>14, <1>15, <1>16, <1>17, <1>18, <1>19, <1>20, <1>21, <1>22, <1>23,
       <1>24, <1>25, <1>26, <1>27, <1>28, <1>29, <1>30, <1>31
    DEF Next, MainRuns, PreRuns, InferRuns, PostRuns

\* While infer lives, infer, q_image and pre hold the tiles that follow.
LEMMA InferStep ==
    ASSUME IInv, Next
    PROVE  InferInv'
<1>h. OutInv /\ PostInv /\ InferInv /\ CountsOK /\ NamesOK /\ StageInv
    BY DEF IInv, FlowInv
<1>1. CASE Start
    BY <1>h, <1>1 DEF Start, InferInv, mainVars, queueVars, taskVars, Sent, Put,
        PostHolds, InferHolds, PreHolds, CountsOK, StageInv
<1>2. CASE Stop
    BY <1>h, <1>2 DEF Stop, InferInv, mainVars, queueVars, taskVars, Sent, Put,
        PostHolds, InferHolds, PreHolds, CountsOK, StageInv
<1>3. CASE Call
    <2>1. infer' = "none" /\ pre' = "none" /\ post' = "none" /\ cut' = 0
          /\ Len(q_image') = 0 /\ Len(q_infer') = 0 /\ Len(out') = 0
        BY <1>3, EmptySequence DEF Call
    <2> QED BY <2>1 DEF InferInv, InferHolds, Put, Sent, PostHolds, PreHolds
<1>4. CASE SpawnPre
    BY <1>h, <1>4 DEF SpawnPre, MainKeeps, InferInv, mainVars, queueVars, taskVars,
        Sent, Put, PostHolds, InferHolds, PreHolds, CountsOK, StageInv
<1>5. CASE SpawnInfer
    BY <1>h, <1>5 DEF SpawnInfer, MainKeeps, InferInv, mainVars, queueVars, taskVars,
        Sent, Put, PostHolds, InferHolds, PreHolds, CountsOK, StageInv
<1>6. CASE SpawnPost
    BY <1>h, <1>6 DEF SpawnPost, MainKeeps, InferInv, mainVars, queueVars, taskVars,
        Sent, Put, PostHolds, InferHolds, PreHolds, CountsOK, StageInv
<1>7. CASE Unwind
    BY <1>h, <1>7 DEF Unwind, MainKeeps, InferInv, mainVars, queueVars, taskVars, Sent,
        Put, PostHolds, InferHolds, PreHolds, CountsOK, StageInv
<1>8. CASE JoinPre
    BY <1>h, <1>8 DEF JoinPre, MainKeeps, InferInv, mainVars, queueVars, taskVars,
        Sent, Put, PostHolds, InferHolds, PreHolds, CountsOK, StageInv
<1>9. CASE ExitPre
    BY <1>h, <1>9 DEF ExitPre, MainKeeps, InferInv, mainVars, queueVars, taskVars,
        Sent, Put, PostHolds, InferHolds, PreHolds, CountsOK, StageInv
<1>10. CASE CloseImages
    BY <1>h, <1>10 DEF CloseImages, MainKeeps, ImageSleepers, InferInv, mainVars,
        queueVars, taskVars, Sent, Put, PostHolds, InferHolds, PreHolds, CountsOK,
        StageInv
<1>11. CASE JoinInfer
    BY <1>h, <1>11 DEF JoinInfer, MainKeeps, InferInv, mainVars, queueVars, taskVars,
        Sent, Put, PostHolds, InferHolds, PreHolds, CountsOK, StageInv
<1>12. CASE ExitInfer
    BY <1>h, <1>12 DEF ExitInfer, MainKeeps, InferInv, mainVars, queueVars, taskVars,
        Sent, Put, PostHolds, InferHolds, PreHolds, CountsOK, StageInv
<1>13. CASE CloseResults
    BY <1>h, <1>13 DEF CloseResults, MainKeeps, ResultSleepers, InferInv, mainVars,
        queueVars, taskVars, Sent, Put, PostHolds, InferHolds, PreHolds, CountsOK,
        StageInv
<1>14. CASE JoinPost
    BY <1>h, <1>14 DEF JoinPost, MainKeeps, InferInv, mainVars, queueVars, taskVars,
        Sent, Put, PostHolds, InferHolds, PreHolds, CountsOK, StageInv
<1>15. CASE PreCut
    <2>1. /\ UNCHANGED <<out, post, infer, infer_tile, q_image, q_infer>>
          /\ pre = "cut" /\ cut \in Nat
          /\ \/ pre' = "wait" /\ cut' = cut + 1
             \/ pre' = "done" /\ cut' = cut
        BY <1>h, <1>15 DEF PreCut, queueVars, CountsOK
    <2>2. Sent' = Sent /\ InferHolds' = InferHolds /\ Put' = Put
        BY <2>1 DEF Sent, PostHolds, InferHolds, Put
    <2>3. PreHolds = 0 /\ PreHolds' = IF pre' = "wait" THEN 1 ELSE 0
        BY <2>1 DEF PreHolds
    <2>4. Put \in Nat
        <3>1. Len(out) \in Nat /\ Len(q_infer) \in Nat /\ Len(q_image) \in Nat
            BY <1>h DEF CountsOK
        <3>2. PostHolds \in Nat /\ InferHolds \in Nat
            BY DEF PostHolds, InferHolds
        <3> QED BY <3>1, <3>2 DEF Put, Sent
    <2> QED BY <1>h, <2>1, <2>2, <2>3, <2>4 DEF InferInv
<1>16. CASE PreWait
    BY <1>h, <1>16 DEF PreWait, Sleep, InferInv, mainVars, queueVars, taskVars, Sent,
        Put, PostHolds, InferHolds, PreHolds, CountsOK, StageInv
<1>17. CASE PrePut
    <2>1. q_image \in Seq(Nat) /\ cut \in Nat /\ pre = "put"
        BY <1>h, <1>17 DEF PrePut, CountsOK
    <2>2. q_image' = Append(q_image, cut) /\ pre' = "cut" /\ UNCHANGED <<cut, infer, infer_tile>>
        BY <1>17 DEF PrePut
    <2>3. Sent' = Sent /\ InferHolds' = InferHolds
        BY <1>17 DEF PrePut, mainVars, Sent, PostHolds, InferHolds
    <2>4. Sent \in Nat /\ InferHolds \in Nat
        BY <1>h DEF Sent, PostHolds, InferHolds, CountsOK
    <2>5. PreHolds = 1 /\ PreHolds' = 0
        BY <2>1, <2>2 DEF PreHolds
    <2>6. Len(q_image) \in Nat /\ Len(q_image') = Len(q_image) + 1
          /\ q_image'[Len(q_image) + 1] = cut
          /\ \A i \in 1 .. Len(q_image) : q_image'[i] = q_image[i]
        BY <2>1, <2>2, Appended
    <2>7. Put' = Put + 1 /\ Put = Sent + InferHolds + Len(q_image) /\ Put \in Nat
        BY <2>3, <2>4, <2>6 DEF Put
    <2>8. InferInv
        BY <1>h
    <2> QED BY <2>1, <2>2, <2>3, <2>4, <2>5, <2>6, <2>7, <2>8 DEF InferInv
<1>18. CASE InferCheck
    BY <1>h, <1>18 DEF InferCheck, InferInv, mainVars, queueVars, taskVars, Sent, Put,
        PostHolds, InferHolds, PreHolds, CountsOK, StageInv
<1>19. CASE InferGet
    <2>1. q_image \in Seq(Nat) /\ q_image # <<>> /\ infer = "get"
        BY <1>h, <1>19 DEF InferGet, CountsOK
    <2>2. q_image' = Tail(q_image) /\ infer_tile' = Head(q_image) /\ infer' = "predict"
          /\ UNCHANGED <<pre, cut>>
        BY <1>19 DEF InferGet
    <2>3. Sent' = Sent /\ InferHolds' = 1 /\ InferHolds = 0 /\ PreHolds' = PreHolds
        BY <2>1, <2>2, <1>19 DEF InferGet, mainVars, Sent, PostHolds, InferHolds, PreHolds
    <2>4. Sent \in Nat
        BY <1>h DEF Sent, PostHolds, CountsOK
    <2>5. Len(q_image) \in Nat \ {0} /\ Len(q_image') = Len(q_image) - 1
          /\ infer_tile' = q_image[1]
          /\ \A i \in 1 .. Len(q_image) - 1 : q_image'[i] = q_image[i + 1]
        BY <2>1, <2>2, Popped
    <2>6. Put' = Put
        BY <2>3, <2>4, <2>5 DEF Put
    <2> QED BY <1>h, <2>1, <2>2, <2>3, <2>4, <2>5, <2>6 DEF InferInv
<1>20. CASE InferGetEmpty
    BY <1>h, <1>20 DEF InferGetEmpty, Sleep, InferInv, mainVars, queueVars, taskVars,
        Sent, Put, PostHolds, InferHolds, PreHolds, CountsOK, StageInv
<1>21. CASE InferPredict
    BY <1>h, <1>21 DEF InferPredict, InferInv, mainVars, queueVars, taskVars, Sent,
        Put, PostHolds, InferHolds, PreHolds, CountsOK, StageInv
<1>22. CASE InferAlloc
    BY <1>h, <1>22 DEF InferAlloc, Sleep, InferInv, mainVars, queueVars, taskVars,
        Sent, Put, PostHolds, InferHolds, PreHolds, CountsOK, StageInv
<1>23. CASE InferSend
    <2>1. infer = "send" /\ infer' = "check" /\ UNCHANGED <<q_image, pre, cut, infer_tile>>
        BY <1>23 DEF InferSend
    <2>2. Sent' = Sent + 1 /\ Sent \in Nat
        <3>1. out' = out /\ post' = post /\ Len(out) \in Nat
            BY <1>h, <1>23 DEF InferSend, CountsOK
        <3>2. Len(q_infer) \in Nat /\ Len(q_infer') = Len(q_infer) + 1
            BY <1>h, <1>23, Appended DEF InferSend, CountsOK
        <3>3. PostHolds' = PostHolds /\ PostHolds \in Nat
            BY <3>1 DEF PostHolds
        <3> QED BY <3>1, <3>2, <3>3 DEF Sent
    <2>3. InferHolds = 1 /\ InferHolds' = 0 /\ PreHolds' = PreHolds
        BY <2>1 DEF InferHolds, PreHolds
    <2>4. Len(q_image) \in Nat
        BY <1>h DEF CountsOK
    <2>5. Put' = Put
        BY <2>1, <2>2, <2>3, <2>4 DEF Put
    <2> QED BY <1>h, <2>1, <2>2, <2>3, <2>4, <2>5 DEF InferInv
<1>24. CASE PostCheck
    BY <1>h, <1>24 DEF PostCheck, InferInv, mainVars, queueVars, taskVars, Sent, Put,
        PostHolds, InferHolds, PreHolds, CountsOK, StageInv
<1>25. CASE PostGet
    <2>1. Sent' = Sent
        <3>1. post = "get" /\ post' = "work" /\ out' = out /\ Len(out) \in Nat
            BY <1>h, <1>25 DEF PostGet, CountsOK
        <3>2. Len(q_infer) \in Nat /\ Len(q_infer') = Len(q_infer) - 1
            BY <1>h, <1>25, Popped DEF PostGet, CountsOK
        <3> QED BY <3>1, <3>2 DEF Sent, PostHolds
    <2>2. UNCHANGED <<q_image, pre, cut, infer, infer_tile>>
        BY <1>25 DEF PostGet
    <2>3. InferHolds' = InferHolds /\ PreHolds' = PreHolds /\ Put' = Put
        BY <2>1, <2>2 DEF InferHolds, PreHolds, Put
    <2> QED BY <1>h, <2>1, <2>2, <2>3 DEF InferInv
<1>26. CASE PostGetEmpty
    BY <1>h, <1>26 DEF PostGetEmpty, Sleep, InferInv, mainVars, queueVars, taskVars,
        Sent, Put, PostHolds, InferHolds, PreHolds, CountsOK, StageInv
<1>27. CASE PostWork
    <2>1. Sent' = Sent
        <3>1. post = "work" /\ post' = "check" /\ q_infer' = q_infer /\ Len(q_infer) \in Nat
            BY <1>h, <1>27 DEF PostWork, CountsOK
        <3>2. Len(out) \in Nat /\ Len(out') = Len(out) + 1
            BY <1>h, <1>27, Appended DEF PostWork, CountsOK
        <3> QED BY <3>1, <3>2 DEF Sent, PostHolds
    <2>2. UNCHANGED <<q_image, pre, cut, infer, infer_tile>>
        BY <1>27 DEF PostWork
    <2>3. InferHolds' = InferHolds /\ PreHolds' = PreHolds /\ Put' = Put
        BY <2>1, <2>2 DEF InferHolds, PreHolds, Put
    <2> QED BY <1>h, <2>1, <2>2, <2>3 DEF InferInv
<1>28. CASE SpawnFails
    BY <1>h, <1>28 DEF SpawnFails, MainKeeps, InferInv, mainVars, queueVars, taskVars,
        Sent, Put, PostHolds, InferHolds, PreHolds, CountsOK, StageInv
<1>29. CASE PreDies
    BY <1>h, <1>29 DEF PreDies, InferInv, mainVars, queueVars, taskVars, Sent, Put,
        PostHolds, InferHolds, PreHolds, CountsOK, StageInv
<1>30. CASE InferDies
    BY <1>h, <1>30 DEF InferDies, InferInv, mainVars, queueVars, taskVars, Sent, Put,
        PostHolds, InferHolds, PreHolds, CountsOK, StageInv
<1>31. CASE PostDies
    BY <1>h, <1>31 DEF PostDies, PoolSleepers, NotifyOne, InferInv, mainVars,
        queueVars, taskVars, Sent, Put, PostHolds, InferHolds, PreHolds, CountsOK,
        StageInv
<1> QED
    BY <1>1, <1>2, <1>3, <1>4, <1>5, <1>6, <1>7, <1>8, <1>9, <1>10, <1>11, <1>12,
       <1>13, <1>14, <1>15, <1>16, <1>17, <1>18, <1>19, <1>20, <1>21, <1>22, <1>23,
       <1>24, <1>25, <1>26, <1>27, <1>28, <1>29, <1>30, <1>31
    DEF Next, MainRuns, PreRuns, InferRuns, PostRuns

\* The cutter stops at the last tile.
LEMMA CutStep ==
    ASSUME IInv, Next
    PROVE  CutInv'
<1>h. CutInv /\ CountsOK /\ NamesOK /\ StageInv
    BY DEF IInv, FlowInv
<1>1. CASE Start
    BY <1>h, <1>1 DEF Start, CutInv, mainVars, queueVars, taskVars, Tiles
<1>2. CASE Stop
    BY <1>h, <1>2 DEF Stop, CutInv, mainVars, queueVars, taskVars, Tiles
<1>3. CASE Call
    BY <1>h, <1>3 DEF Call, CutInv, mainVars, queueVars, taskVars, Tiles
<1>4. CASE SpawnPre
    <2>1. cut' = cut /\ Tiles' = Tiles /\ pre' = "cut" /\ pre = "none" /\ infer = "none"
          /\ frame.width >= ModelWidth /\ frame.height >= ModelWidth
        BY <1>h, <1>4 DEF SpawnPre, MainKeeps, Tiles, StageInv
    <2>2. cut = 0
        BY <1>h, <1>4 DEF SpawnPre, StageInv
    <2>3. Tiles \in Nat
        BY <1>h, <2>1, TilesAreCounted DEF NamesOK
    <2> QED BY <2>1, <2>2, <2>3 DEF CutInv
<1>5. CASE SpawnInfer
    BY <1>h, <1>5 DEF SpawnInfer, MainKeeps, CutInv, mainVars, queueVars, taskVars,
        Tiles
<1>6. CASE SpawnPost
    BY <1>h, <1>6 DEF SpawnPost, MainKeeps, CutInv, mainVars, queueVars, taskVars,
        Tiles
<1>7. CASE Unwind
    BY <1>h, <1>7 DEF Unwind, MainKeeps, CutInv, mainVars, queueVars, taskVars, Tiles
<1>8. CASE JoinPre
    BY <1>h, <1>8 DEF JoinPre, MainKeeps, CutInv, mainVars, queueVars, taskVars, Tiles
<1>9. CASE ExitPre
    BY <1>h, <1>9 DEF ExitPre, MainKeeps, CutInv, mainVars, queueVars, taskVars, Tiles
<1>10. CASE CloseImages
    BY <1>h, <1>10 DEF CloseImages, MainKeeps, ImageSleepers, CutInv, mainVars,
        queueVars, taskVars, Tiles
<1>11. CASE JoinInfer
    BY <1>h, <1>11 DEF JoinInfer, MainKeeps, CutInv, mainVars, queueVars, taskVars,
        Tiles
<1>12. CASE ExitInfer
    BY <1>h, <1>12 DEF ExitInfer, MainKeeps, CutInv, mainVars, queueVars, taskVars,
        Tiles
<1>13. CASE CloseResults
    BY <1>h, <1>13 DEF CloseResults, MainKeeps, ResultSleepers, CutInv, mainVars,
        queueVars, taskVars, Tiles
<1>14. CASE JoinPost
    BY <1>h, <1>14 DEF JoinPost, MainKeeps, CutInv, mainVars, queueVars, taskVars,
        Tiles
<1>15. CASE PreCut
    <2>1. Tiles' = Tiles /\ cut \in Nat /\ pre = "cut" /\ cut <= Tiles
        BY <1>h, <1>15 DEF PreCut, mainVars, Tiles, CountsOK, CutInv
    <2>2. Tiles \in Nat
        BY <1>h, <2>1, TilesAreCounted DEF NamesOK, StageInv
    <2> QED BY <2>1, <2>2, <1>15 DEF CutInv, PreCut
<1>16. CASE PreWait
    BY <1>h, <1>16 DEF PreWait, Sleep, CutInv, mainVars, queueVars, taskVars, Tiles
<1>17. CASE PrePut
    BY <1>h, <1>17 DEF PrePut, ImageSleepers, NotifyOne, CutInv, mainVars, queueVars,
        taskVars, Tiles
<1>18. CASE InferCheck
    BY <1>h, <1>18 DEF InferCheck, CutInv, mainVars, queueVars, taskVars, Tiles
<1>19. CASE InferGet
    BY <1>h, <1>19 DEF InferGet, ImageSleepers, NotifyOne, CutInv, mainVars, queueVars,
        taskVars, Tiles
<1>20. CASE InferGetEmpty
    BY <1>h, <1>20 DEF InferGetEmpty, Sleep, CutInv, mainVars, queueVars, taskVars,
        Tiles
<1>21. CASE InferPredict
    BY <1>h, <1>21 DEF InferPredict, CutInv, mainVars, queueVars, taskVars, Tiles
<1>22. CASE InferAlloc
    BY <1>h, <1>22 DEF InferAlloc, Sleep, CutInv, mainVars, queueVars, taskVars, Tiles
<1>23. CASE InferSend
    BY <1>h, <1>23 DEF InferSend, ResultSleepers, NotifyOne, CutInv, mainVars,
        queueVars, taskVars, Tiles
<1>24. CASE PostCheck
    BY <1>h, <1>24 DEF PostCheck, CutInv, mainVars, queueVars, taskVars, Tiles
<1>25. CASE PostGet
    BY <1>h, <1>25 DEF PostGet, ResultSleepers, NotifyOne, CutInv, mainVars, queueVars,
        taskVars, Tiles
<1>26. CASE PostGetEmpty
    BY <1>h, <1>26 DEF PostGetEmpty, Sleep, CutInv, mainVars, queueVars, taskVars,
        Tiles
<1>27. CASE PostWork
    BY <1>h, <1>27 DEF PostWork, PoolSleepers, NotifyOne, CutInv, mainVars, queueVars,
        taskVars, Tiles
<1>28. CASE SpawnFails
    BY <1>h, <1>28 DEF SpawnFails, MainKeeps, CutInv, mainVars, queueVars, taskVars,
        Tiles
<1>29. CASE PreDies
    BY <1>h, <1>29 DEF PreDies, CutInv, mainVars, queueVars, taskVars, Tiles
<1>30. CASE InferDies
    BY <1>h, <1>30 DEF InferDies, CutInv, mainVars, queueVars, taskVars, Tiles
<1>31. CASE PostDies
    BY <1>h, <1>31 DEF PostDies, PoolSleepers, NotifyOne, CutInv, mainVars, queueVars,
        taskVars, Tiles
<1> QED
    BY <1>1, <1>2, <1>3, <1>4, <1>5, <1>6, <1>7, <1>8, <1>9, <1>10, <1>11, <1>12,
       <1>13, <1>14, <1>15, <1>16, <1>17, <1>18, <1>19, <1>20, <1>21, <1>22, <1>23,
       <1>24, <1>25, <1>26, <1>27, <1>28, <1>29, <1>30, <1>31
    DEF Next, MainRuns, PreRuns, InferRuns, PostRuns

\* What the stage of the calling thread says of the tasks.
LEMMA StageStep ==
    ASSUME IInv, Next
    PROVE  StageInv'
<1>h. StageInv /\ NamesOK
    BY DEF IInv
<1>1. CASE Start
    BY <1>h, <1>1 DEF Start, StageInv, PreJoined, InferJoined, Ended, NamesOK,
        mainVars, queueVars, taskVars
<1>2. CASE Stop
    BY <1>h, <1>2 DEF Stop, StageInv, PreJoined, InferJoined, Ended, NamesOK, mainVars,
        queueVars, taskVars
<1>3. CASE Call
    BY <1>h, <1>3 DEF Call, StageInv, PreJoined, InferJoined, Ended, NamesOK, mainVars,
        queueVars, taskVars
<1>4. CASE SpawnPre
    BY <1>h, <1>4 DEF SpawnPre, MainKeeps, StageInv, PreJoined, InferJoined, Ended,
        NamesOK, mainVars, queueVars, taskVars
<1>5. CASE SpawnInfer
    BY <1>h, <1>5 DEF SpawnInfer, MainKeeps, StageInv, PreJoined, InferJoined, Ended,
        NamesOK, mainVars, queueVars, taskVars
<1>6. CASE SpawnPost
    BY <1>h, <1>6 DEF SpawnPost, MainKeeps, StageInv, PreJoined, InferJoined, Ended,
        NamesOK, mainVars, queueVars, taskVars
<1>7. CASE Unwind
    BY <1>h, <1>7 DEF Unwind, MainKeeps, StageInv, PreJoined, InferJoined, Ended,
        NamesOK, mainVars, queueVars, taskVars
<1>8. CASE JoinPre
    BY <1>h, <1>8 DEF JoinPre, MainKeeps, StageInv, PreJoined, InferJoined, Ended,
        NamesOK, mainVars, queueVars, taskVars
<1>9. CASE ExitPre
    BY <1>h, <1>9 DEF ExitPre, MainKeeps, StageInv, PreJoined, InferJoined, Ended,
        NamesOK, mainVars, queueVars, taskVars
<1>10. CASE CloseImages
    BY <1>h, <1>10 DEF CloseImages, MainKeeps, ImageSleepers, StageInv, PreJoined,
        InferJoined, Ended, NamesOK, mainVars, queueVars, taskVars
<1>11. CASE JoinInfer
    BY <1>h, <1>11 DEF JoinInfer, MainKeeps, StageInv, PreJoined, InferJoined, Ended,
        NamesOK, mainVars, queueVars, taskVars
<1>12. CASE ExitInfer
    BY <1>h, <1>12 DEF ExitInfer, MainKeeps, StageInv, PreJoined, InferJoined, Ended,
        NamesOK, mainVars, queueVars, taskVars
<1>13. CASE CloseResults
    BY <1>h, <1>13 DEF CloseResults, MainKeeps, ResultSleepers, StageInv, PreJoined,
        InferJoined, Ended, NamesOK, mainVars, queueVars, taskVars
<1>14. CASE JoinPost
    BY <1>h, <1>14 DEF JoinPost, MainKeeps, StageInv, PreJoined, InferJoined, Ended,
        NamesOK, mainVars, queueVars, taskVars
<1>15. CASE PreCut
    BY <1>h, <1>15 DEF PreCut, StageInv, PreJoined, InferJoined, Ended, NamesOK,
        mainVars, queueVars, taskVars
<1>16. CASE PreWait
    BY <1>h, <1>16 DEF PreWait, Sleep, StageInv, PreJoined, InferJoined, Ended,
        NamesOK, mainVars, queueVars, taskVars
<1>17. CASE PrePut
    BY <1>h, <1>17 DEF PrePut, ImageSleepers, NotifyOne, StageInv, PreJoined,
        InferJoined, Ended, NamesOK, mainVars, queueVars, taskVars
<1>18. CASE InferCheck
    BY <1>h, <1>18 DEF InferCheck, StageInv, PreJoined, InferJoined, Ended, NamesOK,
        mainVars, queueVars, taskVars
<1>19. CASE InferGet
    BY <1>h, <1>19 DEF InferGet, ImageSleepers, NotifyOne, StageInv, PreJoined,
        InferJoined, Ended, NamesOK, mainVars, queueVars, taskVars
<1>20. CASE InferGetEmpty
    BY <1>h, <1>20 DEF InferGetEmpty, Sleep, StageInv, PreJoined, InferJoined, Ended,
        NamesOK, mainVars, queueVars, taskVars
<1>21. CASE InferPredict
    BY <1>h, <1>21 DEF InferPredict, StageInv, PreJoined, InferJoined, Ended, NamesOK,
        mainVars, queueVars, taskVars
<1>22. CASE InferAlloc
    BY <1>h, <1>22 DEF InferAlloc, Sleep, StageInv, PreJoined, InferJoined, Ended,
        NamesOK, mainVars, queueVars, taskVars
<1>23. CASE InferSend
    BY <1>h, <1>23 DEF InferSend, ResultSleepers, NotifyOne, StageInv, PreJoined,
        InferJoined, Ended, NamesOK, mainVars, queueVars, taskVars
<1>24. CASE PostCheck
    BY <1>h, <1>24 DEF PostCheck, StageInv, PreJoined, InferJoined, Ended, NamesOK,
        mainVars, queueVars, taskVars
<1>25. CASE PostGet
    BY <1>h, <1>25 DEF PostGet, ResultSleepers, NotifyOne, StageInv, PreJoined,
        InferJoined, Ended, NamesOK, mainVars, queueVars, taskVars
<1>26. CASE PostGetEmpty
    BY <1>h, <1>26 DEF PostGetEmpty, Sleep, StageInv, PreJoined, InferJoined, Ended,
        NamesOK, mainVars, queueVars, taskVars
<1>27. CASE PostWork
    BY <1>h, <1>27 DEF PostWork, PoolSleepers, NotifyOne, StageInv, PreJoined,
        InferJoined, Ended, NamesOK, mainVars, queueVars, taskVars
<1>28. CASE SpawnFails
    BY <1>h, <1>28 DEF SpawnFails, MainKeeps, StageInv, PreJoined, InferJoined, Ended,
        NamesOK, mainVars, queueVars, taskVars
<1>29. CASE PreDies
    BY <1>h, <1>29 DEF PreDies, StageInv, PreJoined, InferJoined, Ended, NamesOK,
        mainVars, queueVars, taskVars
<1>30. CASE InferDies
    BY <1>h, <1>30 DEF InferDies, StageInv, PreJoined, InferJoined, Ended, NamesOK,
        mainVars, queueVars, taskVars
<1>31. CASE PostDies
    BY <1>h, <1>31 DEF PostDies, PoolSleepers, NotifyOne, StageInv, PreJoined,
        InferJoined, Ended, NamesOK, mainVars, queueVars, taskVars
<1> QED
    BY <1>1, <1>2, <1>3, <1>4, <1>5, <1>6, <1>7, <1>8, <1>9, <1>10, <1>11, <1>12,
       <1>13, <1>14, <1>15, <1>16, <1>17, <1>18, <1>19, <1>20, <1>21, <1>22, <1>23,
       <1>24, <1>25, <1>26, <1>27, <1>28, <1>29, <1>30, <1>31
    DEF Next, MainRuns, PreRuns, InferRuns, PostRuns

\* A queue is closed, and an exit flag set, only when its producer has ended.
LEMMA CloseStep ==
    ASSUME IInv, Next
    PROVE  CloseInv'
<1>h. StageInv /\ CloseInv /\ NamesOK /\ CountsOK
    BY DEF IInv
<1>1. CASE Start
    BY <1>h, <1>1 DEF Start, CloseInv, StageInv, PreJoined, InferJoined, Ended,
        mainVars, queueVars, taskVars
<1>2. CASE Stop
    BY <1>h, <1>2 DEF Stop, CloseInv, StageInv, PreJoined, InferJoined, Ended,
        mainVars, queueVars, taskVars
<1>3. CASE Call
    BY <1>h, <1>3 DEF Call, CloseInv, StageInv, PreJoined, InferJoined, Ended,
        mainVars, queueVars, taskVars
<1>4. CASE SpawnPre
    BY <1>h, <1>4 DEF SpawnPre, MainKeeps, CloseInv, StageInv, PreJoined, InferJoined,
        Ended, mainVars, queueVars, taskVars
<1>5. CASE SpawnInfer
    BY <1>h, <1>5 DEF SpawnInfer, MainKeeps, CloseInv, StageInv, PreJoined,
        InferJoined, Ended, mainVars, queueVars, taskVars
<1>6. CASE SpawnPost
    BY <1>h, <1>6 DEF SpawnPost, MainKeeps, CloseInv, StageInv, PreJoined, InferJoined,
        Ended, mainVars, queueVars, taskVars
<1>7. CASE Unwind
    BY <1>h, <1>7 DEF Unwind, MainKeeps, CloseInv, StageInv, PreJoined, InferJoined,
        Ended, mainVars, queueVars, taskVars
<1>8. CASE JoinPre
    BY <1>h, <1>8 DEF JoinPre, MainKeeps, CloseInv, StageInv, PreJoined, InferJoined,
        Ended, mainVars, queueVars, taskVars
<1>9. CASE ExitPre
    BY <1>h, <1>9 DEF ExitPre, MainKeeps, CloseInv, StageInv, PreJoined, InferJoined,
        Ended, mainVars, queueVars, taskVars
<1>10. CASE CloseImages
    BY <1>h, <1>10 DEF CloseImages, MainKeeps, ImageSleepers, CloseInv, StageInv,
        PreJoined, InferJoined, Ended, mainVars, queueVars, taskVars
<1>11. CASE JoinInfer
    BY <1>h, <1>11 DEF JoinInfer, MainKeeps, CloseInv, StageInv, PreJoined,
        InferJoined, Ended, mainVars, queueVars, taskVars
<1>12. CASE ExitInfer
    BY <1>h, <1>12 DEF ExitInfer, MainKeeps, CloseInv, StageInv, PreJoined,
        InferJoined, Ended, mainVars, queueVars, taskVars
<1>13. CASE CloseResults
    BY <1>h, <1>13 DEF CloseResults, MainKeeps, ResultSleepers, CloseInv, StageInv,
        PreJoined, InferJoined, Ended, mainVars, queueVars, taskVars
<1>14. CASE JoinPost
    BY <1>h, <1>14 DEF JoinPost, MainKeeps, CloseInv, StageInv, PreJoined, InferJoined,
        Ended, mainVars, queueVars, taskVars
<1>15. CASE PreCut
    BY <1>h, <1>15 DEF PreCut, CloseInv, StageInv, PreJoined, InferJoined, Ended,
        mainVars, queueVars, taskVars
<1>16. CASE PreWait
    BY <1>h, <1>16 DEF PreWait, Sleep, CloseInv, StageInv, PreJoined, InferJoined,
        Ended, mainVars, queueVars, taskVars
<1>17. CASE PrePut
    BY <1>h, <1>17 DEF PrePut, ImageSleepers, NotifyOne, CloseInv, StageInv, PreJoined,
        InferJoined, Ended, mainVars, queueVars, taskVars
<1>18. CASE InferCheck
    BY <1>h, <1>18 DEF InferCheck, CloseInv, StageInv, PreJoined, InferJoined, Ended,
        mainVars, queueVars, taskVars
<1>19. CASE InferGet
    BY <1>h, <1>19 DEF InferGet, ImageSleepers, NotifyOne, CloseInv, StageInv,
        PreJoined, InferJoined, Ended, mainVars, queueVars, taskVars
<1>20. CASE InferGetEmpty
    BY <1>h, <1>20 DEF InferGetEmpty, Sleep, CloseInv, StageInv, PreJoined,
        InferJoined, Ended, mainVars, queueVars, taskVars
<1>21. CASE InferPredict
    BY <1>h, <1>21 DEF InferPredict, CloseInv, StageInv, PreJoined, InferJoined, Ended,
        mainVars, queueVars, taskVars
<1>22. CASE InferAlloc
    BY <1>h, <1>22 DEF InferAlloc, Sleep, CloseInv, StageInv, PreJoined, InferJoined,
        Ended, mainVars, queueVars, taskVars
<1>23. CASE InferSend
    BY <1>h, <1>23 DEF InferSend, ResultSleepers, NotifyOne, CloseInv, StageInv,
        PreJoined, InferJoined, Ended, mainVars, queueVars, taskVars
<1>24. CASE PostCheck
    BY <1>h, <1>24 DEF PostCheck, CloseInv, StageInv, PreJoined, InferJoined, Ended,
        mainVars, queueVars, taskVars
<1>25. CASE PostGet
    BY <1>h, <1>25 DEF PostGet, ResultSleepers, NotifyOne, CloseInv, StageInv,
        PreJoined, InferJoined, Ended, mainVars, queueVars, taskVars
<1>26. CASE PostGetEmpty
    BY <1>h, <1>26 DEF PostGetEmpty, Sleep, CloseInv, StageInv, PreJoined, InferJoined,
        Ended, mainVars, queueVars, taskVars
<1>27. CASE PostWork
    BY <1>h, <1>27 DEF PostWork, PoolSleepers, NotifyOne, CloseInv, StageInv,
        PreJoined, InferJoined, Ended, mainVars, queueVars, taskVars
<1>28. CASE SpawnFails
    BY <1>h, <1>28 DEF SpawnFails, MainKeeps, CloseInv, StageInv, PreJoined,
        InferJoined, Ended, mainVars, queueVars, taskVars
<1>29. CASE PreDies
    BY <1>h, <1>29 DEF PreDies, CloseInv, StageInv, PreJoined, InferJoined, Ended,
        mainVars, queueVars, taskVars
<1>30. CASE InferDies
    BY <1>h, <1>30 DEF InferDies, CloseInv, StageInv, PreJoined, InferJoined, Ended,
        mainVars, queueVars, taskVars
<1>31. CASE PostDies
    BY <1>h, <1>31 DEF PostDies, PoolSleepers, NotifyOne, CloseInv, StageInv,
        PreJoined, InferJoined, Ended, mainVars, queueVars, taskVars
<1> QED
    BY <1>1, <1>2, <1>3, <1>4, <1>5, <1>6, <1>7, <1>8, <1>9, <1>10, <1>11, <1>12,
       <1>13, <1>14, <1>15, <1>16, <1>17, <1>18, <1>19, <1>20, <1>21, <1>22, <1>23,
       <1>24, <1>25, <1>26, <1>27, <1>28, <1>29, <1>30, <1>31
    DEF Next, MainRuns, PreRuns, InferRuns, PostRuns

\* No wakeup is lost.
LEMMA WakeStep ==
    ASSUME IInv, Next
    PROVE  NobodySleepsInVain'
<1>h. NobodySleepsInVain /\ NamesOK /\ CountsOK /\ CloseInv /\ StageInv
    BY DEF IInv
<1>1. CASE Start
    BY <1>h, <1>1 DEF Start, NobodySleepsInVain, CloseInv, StageInv, PreJoined,
        InferJoined, mainVars, queueVars, taskVars
<1>2. CASE Stop
    BY <1>h, <1>2 DEF Stop, NobodySleepsInVain, CloseInv, StageInv, PreJoined,
        InferJoined, mainVars, queueVars, taskVars
<1>3. CASE Call
    BY <1>h, <1>3 DEF Call, NobodySleepsInVain, CloseInv, StageInv, PreJoined,
        InferJoined, mainVars, queueVars, taskVars
<1>4. CASE SpawnPre
    BY <1>h, <1>4 DEF SpawnPre, MainKeeps, NobodySleepsInVain, CloseInv, StageInv,
        PreJoined, InferJoined, mainVars, queueVars, taskVars
<1>5. CASE SpawnInfer
    BY <1>h, <1>5 DEF SpawnInfer, MainKeeps, NobodySleepsInVain, CloseInv, StageInv,
        PreJoined, InferJoined, mainVars, queueVars, taskVars
<1>6. CASE SpawnPost
    BY <1>h, <1>6 DEF SpawnPost, MainKeeps, NobodySleepsInVain, CloseInv, StageInv,
        PreJoined, InferJoined, mainVars, queueVars, taskVars
<1>7. CASE Unwind
    BY <1>h, <1>7 DEF Unwind, MainKeeps, NobodySleepsInVain, CloseInv, StageInv,
        PreJoined, InferJoined, mainVars, queueVars, taskVars
<1>8. CASE JoinPre
    BY <1>h, <1>8 DEF JoinPre, MainKeeps, NobodySleepsInVain, CloseInv, StageInv,
        PreJoined, InferJoined, mainVars, queueVars, taskVars
<1>9. CASE ExitPre
    BY <1>h, <1>9 DEF ExitPre, MainKeeps, NobodySleepsInVain, CloseInv, StageInv,
        PreJoined, InferJoined, mainVars, queueVars, taskVars
<1>10. CASE CloseImages
    BY <1>h, <1>10 DEF CloseImages, MainKeeps, ImageSleepers, NobodySleepsInVain,
        CloseInv, StageInv, PreJoined, InferJoined, mainVars, queueVars, taskVars
<1>11. CASE JoinInfer
    BY <1>h, <1>11 DEF JoinInfer, MainKeeps, NobodySleepsInVain, CloseInv, StageInv,
        PreJoined, InferJoined, mainVars, queueVars, taskVars
<1>12. CASE ExitInfer
    BY <1>h, <1>12 DEF ExitInfer, MainKeeps, NobodySleepsInVain, CloseInv, StageInv,
        PreJoined, InferJoined, mainVars, queueVars, taskVars
<1>13. CASE CloseResults
    BY <1>h, <1>13 DEF CloseResults, MainKeeps, ResultSleepers, NobodySleepsInVain,
        CloseInv, StageInv, PreJoined, InferJoined, mainVars, queueVars, taskVars
<1>14. CASE JoinPost
    BY <1>h, <1>14 DEF JoinPost, MainKeeps, NobodySleepsInVain, CloseInv, StageInv,
        PreJoined, InferJoined, mainVars, queueVars, taskVars
<1>15. CASE PreCut
    BY <1>h, <1>15 DEF PreCut, NobodySleepsInVain, CloseInv, StageInv, PreJoined,
        InferJoined, mainVars, queueVars, taskVars
<1>16. CASE PreWait
    <2>1. UNCHANGED <<q_image, q_infer, free, closed, infer, post>>
        BY <1>16 DEF PreWait, mainVars, queueVars
    <2>2. \/ asleep' = asleep
          \/ /\ asleep' = asleep \cup {"pre"}
             /\ pre' = "wait" /\ q_image # <<>> /\ "q_image" \notin closed
        BY <1>h, <1>16 DEF PreWait, Sleep, CountsOK
    <2> QED BY <1>h, <2>1, <2>2, <1>16 DEF NobodySleepsInVain, PreWait
<1>17. CASE PrePut
    BY <1>h, <1>17 DEF PrePut, ImageSleepers, NotifyOne, NobodySleepsInVain, CloseInv,
        StageInv, PreJoined, InferJoined, mainVars, queueVars, taskVars
<1>18. CASE InferCheck
    BY <1>h, <1>18 DEF InferCheck, NobodySleepsInVain, CloseInv, StageInv, PreJoined,
        InferJoined, mainVars, queueVars, taskVars
<1>19. CASE InferGet
    BY <1>h, <1>19 DEF InferGet, ImageSleepers, NotifyOne, NobodySleepsInVain,
        CloseInv, StageInv, PreJoined, InferJoined, mainVars, queueVars, taskVars
<1>20. CASE InferGetEmpty
    <2>1. UNCHANGED <<q_image, q_infer, free, closed, pre, post>>
        BY <1>20 DEF InferGetEmpty, mainVars, queueVars
    <2>2. \/ asleep' = asleep
          \/ /\ asleep' = asleep \cup {"infer"}
             /\ infer' = "get" /\ q_image = <<>> /\ "q_image" \notin closed
        BY <1>h, <1>20 DEF InferGetEmpty, Sleep, CountsOK
    <2> QED BY <1>h, <2>1, <2>2, <1>20 DEF NobodySleepsInVain, InferGetEmpty
<1>21. CASE InferPredict
    BY <1>h, <1>21 DEF InferPredict, NobodySleepsInVain, CloseInv, StageInv, PreJoined,
        InferJoined, mainVars, queueVars, taskVars
<1>22. CASE InferAlloc
    <2>1. UNCHANGED <<q_image, q_infer, closed, pre, post>>
        BY <1>22 DEF InferAlloc, mainVars, queueVars
    <2>2. \/ asleep' = asleep
          \/ /\ asleep' = asleep \cup {"infer"}
             /\ infer' = "alloc" /\ free = 0 /\ free' = 0
        BY <1>h, <1>22 DEF InferAlloc, Sleep, CountsOK
    <2> QED BY <1>h, <2>1, <2>2, <1>22 DEF NobodySleepsInVain, InferAlloc
<1>23. CASE InferSend
    BY <1>h, <1>23 DEF InferSend, ResultSleepers, NotifyOne, NobodySleepsInVain,
        CloseInv, StageInv, PreJoined, InferJoined, mainVars, queueVars, taskVars
<1>24. CASE PostCheck
    BY <1>h, <1>24 DEF PostCheck, NobodySleepsInVain, CloseInv, StageInv, PreJoined,
        InferJoined, mainVars, queueVars, taskVars
<1>25. CASE PostGet
    BY <1>h, <1>25 DEF PostGet, ResultSleepers, NotifyOne, NobodySleepsInVain,
        CloseInv, StageInv, PreJoined, InferJoined, mainVars, queueVars, taskVars
<1>26. CASE PostGetEmpty
    <2>1. UNCHANGED <<q_image, q_infer, free, closed, pre, infer>>
        BY <1>26 DEF PostGetEmpty, mainVars, queueVars
    <2>2. \/ asleep' = asleep
          \/ /\ asleep' = asleep \cup {"post"}
             /\ post' = "get" /\ q_infer = <<>> /\ "q_infer" \notin closed
        BY <1>h, <1>26 DEF PostGetEmpty, Sleep, CountsOK
    <2> QED BY <1>h, <2>1, <2>2, <1>26 DEF NobodySleepsInVain, PostGetEmpty
<1>27. CASE PostWork
    BY <1>h, <1>27 DEF PostWork, PoolSleepers, NotifyOne, NobodySleepsInVain, CloseInv,
        StageInv, PreJoined, InferJoined, mainVars, queueVars, taskVars
<1>28. CASE SpawnFails
    BY <1>h, <1>28 DEF SpawnFails, MainKeeps, NobodySleepsInVain, CloseInv, StageInv,
        PreJoined, InferJoined, mainVars, queueVars, taskVars
<1>29. CASE PreDies
    BY <1>h, <1>29 DEF PreDies, NobodySleepsInVain, CloseInv, StageInv, PreJoined,
        InferJoined, mainVars, queueVars, taskVars
<1>30. CASE InferDies
    BY <1>h, <1>30 DEF InferDies, NobodySleepsInVain, CloseInv, StageInv, PreJoined,
        InferJoined, mainVars, queueVars, taskVars
<1>31. CASE PostDies
    BY <1>h, <1>31 DEF PostDies, PoolSleepers, NotifyOne, NobodySleepsInVain, CloseInv,
        StageInv, PreJoined, InferJoined, mainVars, queueVars, taskVars
<1> QED
    BY <1>1, <1>2, <1>3, <1>4, <1>5, <1>6, <1>7, <1>8, <1>9, <1>10, <1>11, <1>12,
       <1>13, <1>14, <1>15, <1>16, <1>17, <1>18, <1>19, <1>20, <1>21, <1>22, <1>23,
       <1>24, <1>25, <1>26, <1>27, <1>28, <1>29, <1>30, <1>31
    DEF Next, MainRuns, PreRuns, InferRuns, PostRuns

-----------------------------------------------------------------------------
(* The theorems *)

LEMMA InitInv == Init => IInv
<1> SUFFICES ASSUME Init PROVE IInv
    OBVIOUS
<1>1. NamesOK
    BY LynxiAssumption DEF Init, NamesOK, Stages, Ended
<1>2. /\ cut = 0 /\ infer_tile = 0 /\ post_tile = 0 /\ free = PoolSize
      /\ q_image = <<>> /\ q_infer = <<>> /\ out = <<>>
      /\ pre = "none" /\ infer = "none" /\ post = "none"
      /\ main = "down" /\ returned = "none" /\ closed = {} /\ exits = {} /\ asleep = {}
    BY DEF Init
<1>3. CountsOK /\ PoolInv
    BY <1>2, EmptySequence, LynxiAssumption DEF CountsOK, PoolInv
<1>4. FlowInv
    BY <1>2, EmptySequence DEF FlowInv, OutInv, PostInv, InferInv, CutInv, PostHolds,
        InferHolds, PreHolds, Sent, Put
<1>5. StageInv /\ CloseInv
    BY <1>2 DEF StageInv, CloseInv, PreJoined, InferJoined
<1>6. NobodySleepsInVain
    BY <1>2 DEF NobodySleepsInVain
<1> QED BY <1>1, <1>3, <1>4, <1>5, <1>6 DEF IInv

LEMMA StutterInv ==
    ASSUME IInv, UNCHANGED vars
    PROVE  IInv'
<1>1. NamesOK' /\ CountsOK' /\ PoolInv'
    <2>1. /\ device' = device /\ main' = main /\ calls' = calls /\ frame' = frame
          /\ returned' = returned /\ q_image' = q_image /\ q_infer' = q_infer /\ free' = free
          /\ closed' = closed /\ exits' = exits /\ asleep' = asleep /\ pre' = pre
          /\ infer' = infer /\ post' = post /\ cut' = cut /\ infer_tile' = infer_tile
          /\ post_tile' = post_tile /\ failed' = failed /\ out' = out
        BY DEF vars, mainVars, queueVars, taskVars
    <2>2. NamesOK'
        BY <2>1, Zenon DEF IInv, NamesOK
    <2>3. CountsOK'
        BY <2>1, Zenon DEF IInv, CountsOK
    <2>4. PoolInv'
        BY <2>1, Zenon DEF IInv, PoolInv
    <2> QED BY <2>2, <2>3, <2>4
<1>2. FlowInv'
    <2>1. UNCHANGED <<frame, pre, infer, post, cut, infer_tile, post_tile, q_image, q_infer, out>>
        BY DEF vars, mainVars, queueVars, taskVars
    <2>2. Sent' = Sent /\ Put' = Put /\ PostHolds' = PostHolds /\ InferHolds' = InferHolds
          /\ PreHolds' = PreHolds /\ Tiles' = Tiles
        BY <2>1 DEF PostHolds, InferHolds, PreHolds, Sent, Put, Tiles
    <2>3. OutInv' /\ PostInv'
        BY <2>1, <2>2 DEF IInv, FlowInv, OutInv, PostInv
    <2>4. InferInv' /\ CutInv'
        BY <2>1, <2>2 DEF IInv, FlowInv, InferInv, CutInv
    <2> QED BY <2>3, <2>4 DEF FlowInv
<1>3. StageInv'
    BY DEF IInv, StageInv, PreJoined, InferJoined, vars, mainVars, taskVars
<1>4. CloseInv'
    BY DEF IInv, CloseInv, vars, mainVars, queueVars, taskVars
<1>5. NobodySleepsInVain'
    BY DEF IInv, NobodySleepsInVain, vars, queueVars, taskVars
<1> QED BY <1>1, <1>2, <1>3, <1>4, <1>5 DEF IInv

LEMMA Inductive == Spec => []IInv
<1>1. IInv /\ [Next]_vars => IInv'
    <2> SUFFICES ASSUME IInv, [Next]_vars PROVE IInv'
        OBVIOUS
    <2>1. CASE Next
        BY <2>1, NamesStep, CountsStep, PoolStep, OutStep, PostStep, InferStep, CutStep,
           StageStep, CloseStep, WakeStep DEF IInv, FlowInv
    <2>2. CASE UNCHANGED vars
        BY <2>2, StutterInv
    <2> QED BY <2>1, <2>2
<1> QED BY <1>1, InitInv, PTL DEF Spec

\* Whatever happens, threads, queues and pool stay within their types: one tile
\* waits for inference at most, and no more results are alive than the pool has.
THEOREM TypesHold == Spec => []TypeOK
<1>1. IInv => TypeOK
    BY DEF IInv, NamesOK, CountsOK, TypeOK
<1> QED BY <1>1, Inductive, PTL

\* Detections are inserted tile by tile without a gap, and a call that returns
\* true without a failure has inserted those of every tile.
LEMMA InvTiles == IInv => TilesInOrder
<1> SUFFICES ASSUME IInv PROVE TilesInOrder
    OBVIOUS
<1>1. \A i \in 1 .. Len(out) : out[i] = i
    BY DEF IInv, FlowInv, OutInv
<1>2. ASSUME main = "idle", returned = "true", failed = {}
      PROVE  Len(out) = Tiles
    <2>1. pre = "done" /\ infer = "done" /\ post = "done"
        BY <1>2 DEF IInv, StageInv, CloseInv
    <2>2. q_image = <<>> /\ q_infer = <<>>
        BY <2>1 DEF IInv, CloseInv
    <2>3. Len(q_image) = 0 /\ Len(q_infer) = 0
        BY <2>2, EmptySequence
    <2>4. PostHolds = 0 /\ InferHolds = 0 /\ PreHolds = 0
        BY <2>1 DEF PostHolds, InferHolds, PreHolds
    <2>5. Len(out) \in Nat
        BY DEF IInv, CountsOK
    <2>6. Put = Len(out)
        BY <2>3, <2>4, <2>5 DEF Put, Sent
    <2>7. cut = Put + PreHolds /\ cut = Tiles
        BY <2>1 DEF IInv, FlowInv, InferInv, CutInv
    <2> QED BY <2>4, <2>5, <2>6, <2>7
<1> QED BY <1>1, <1>2 DEF TilesInOrder

\* The same of every state of the specification.
THEOREM TilesAreInOrder == Spec => []TilesInOrder
BY InvTiles, Inductive, PTL

\* A call that returns true without a failure has shown every pixel of its frame
\* to the model, and cut nothing beyond the frame.
THEOREM PixelsAreInferred == Spec => []EveryPixelInferred
<1>1. IInv => EveryPixelInferred
    <2> SUFFICES ASSUME IInv, main = "idle", returned = "true", failed = {}
                 PROVE  /\ \A i \in 1 .. Len(out) :
                               TileInside(TileAt(out[i], frame, ModelWidth), frame, ModelWidth)
                        /\ \A x \in 0 .. frame.width - 1, y \in 0 .. frame.height - 1 :
                               \E i \in 1 .. Len(out) :
                                   TileCovers(TileAt(out[i], frame, ModelWidth), ModelWidth, x, y)
        BY DEF EveryPixelInferred
    <2>1. Len(out) = Tiles /\ \A i \in 1 .. Len(out) : out[i] = i
        BY InvTiles DEF TilesInOrder
    <2>2. frame.width >= ModelWidth /\ frame.height >= ModelWidth
        BY DEF IInv, StageInv
    <2>3. /\ frame \in [width : Nat \ {0}, height : Nat \ {0}]
          /\ ModelWidth \in Nat \ {0}
        BY LynxiAssumption DEF IInv, NamesOK
    <2>4. ASSUME NEW i \in 1 .. Len(out)
          PROVE  TileInside(TileAt(out[i], frame, ModelWidth), frame, ModelWidth)
        BY <2>1, <2>2, <2>3, <2>4, TilesInside DEF Tiles
    <2>5. ASSUME NEW x \in 0 .. frame.width - 1, NEW y \in 0 .. frame.height - 1
          PROVE  \E i \in 1 .. Len(out) :
                     TileCovers(TileAt(out[i], frame, ModelWidth), ModelWidth, x, y)
        <3>1. PICK i \in 1 .. Tiles : TileCovers(TileAt(i, frame, ModelWidth), ModelWidth, x, y)
            BY <2>2, <2>3, TilesCover DEF Tiles
        <3> QED BY <2>1, <3>1
    <2> QED BY <2>4, <2>5
<1> QED BY <1>1, Inductive, PTL

\* No thread sleeps in a queue while what it waits for is there.
THEOREM NoWakeupIsLost == Spec => []NobodySleepsInVain
<1>1. IInv => NobodySleepsInVain
    BY DEF IInv
<1> QED BY <1>1, Inductive, PTL

-----------------------------------------------------------------------------
(* While a call runs somebody can go on *)

\* A call of infer_gray8() is running.
InCall == main \notin {"down", "idle", "stopped"}

\* What a thread may have to wait for: another to end, to be woken, a mutex.
\* (Whatever it does then is a step of the specification.)
MainCanRun ==
    /\ InCall
    /\ main = "unwind" => {pre, infer, post} \subseteq Ended
    /\ main = "join pre" => pre \in Ended
    /\ main = "join infer" => infer \in Ended
    /\ main = "join post" => post \in Ended

PreCanRun ==
    \/ pre = "cut"
    \/ pre = "wait" /\ "pre" \notin asleep /\ "q_image" \notin closed
    \/ pre = "put" /\ "q_image" \notin closed

InferCanRun ==
    \/ infer = "check" /\ main # "close q_image"
    \/ infer \in {"get", "alloc"} /\ "infer" \notin asleep
    \/ infer = "predict"
    \/ infer = "send" /\ "q_infer" \notin closed

PostCanRun ==
    \/ post = "check" /\ main # "close q_infer"
    \/ post = "get" /\ "post" \notin asleep
    \/ post = "work"

\* The failures under which nobody empties what a producer waits for.
Abandoned ==
    \/ "spawn post" \in failed
    \/ /\ frame.width > ModelWidth \/ frame.height > ModelWidth
       /\ failed \cap {"infer", "post", "spawn infer"} # {}

\* While a call runs one of its threads can go on.
SomebodyCanRun ==
    (InCall /\ ~Abandoned) => MainCanRun \/ PreCanRun \/ InferCanRun \/ PostCanRun

\* How far the tiles have come: nobody is ahead of pre.
ReachInv ==
    /\ Len(q_image) + PreHolds <= cut
    /\ infer # "dead" => Put <= cut
    /\ Sent <= cut

\* What the stage of the calling thread, the tasks and the flags say of each
\* other: a task is started behind pre; a flag is set before its queue is
\* closed; and who waits for a last tile finds its queue closed.
HandsInv ==
    /\ InCall => frame.width >= ModelWidth /\ frame.height >= ModelWidth
    /\ ~InCall => {pre, infer, post} \subseteq Ended
    /\ infer # "none" \/ post # "none" => pre # "none"
    /\ main \in {"close q_image", "join infer", "exit infer", "close q_infer", "join post"} =>
            "pre" \in exits
    /\ main \in {"close q_infer", "join post"} => "infer" \in exits
    /\ (main \in {"join infer", "exit infer", "close q_infer", "join post"}
        /\ infer = "get" /\ q_image = <<>>) => "q_image" \in closed
    /\ (main = "join post" /\ post = "get" /\ q_infer = <<>>) => "q_infer" \in closed
    /\ main \in {"spawn pre", "spawn infer", "spawn post", "unwind"} =>
            closed = {} /\ exits = {} /\ post = "none"
    /\ main = "unwind" =>
        \/ "spawn pre" \in failed /\ pre = "none" /\ infer = "none"
        \/ "spawn infer" \in failed /\ infer = "none"
        \/ "spawn post" \in failed

\* No step takes the stages, tasks and flags apart.
LEMMA HandsStep ==
    ASSUME IInv, HandsInv, Next
    PROVE  HandsInv'
<1>h. HandsInv /\ StageInv /\ CloseInv
    BY DEF IInv
<1>1. CASE Start
    BY <1>h, <1>1 DEF Start, HandsInv, InCall, StageInv, CloseInv, PreJoined,
        InferJoined, Ended, mainVars, queueVars, taskVars
<1>2. CASE Stop
    BY <1>h, <1>2 DEF Stop, HandsInv, InCall, StageInv, CloseInv, PreJoined,
        InferJoined, Ended, mainVars, queueVars, taskVars
<1>3. CASE Call
    BY <1>h, <1>3 DEF Call, HandsInv, InCall, StageInv, CloseInv, PreJoined,
        InferJoined, Ended, mainVars, queueVars, taskVars
<1>4. CASE SpawnPre
    BY <1>h, <1>4 DEF SpawnPre, MainKeeps, HandsInv, InCall, StageInv, CloseInv,
        PreJoined, InferJoined, Ended, mainVars, queueVars, taskVars
<1>5. CASE SpawnInfer
    BY <1>h, <1>5 DEF SpawnInfer, MainKeeps, HandsInv, InCall, StageInv, CloseInv,
        PreJoined, InferJoined, Ended, mainVars, queueVars, taskVars
<1>6. CASE SpawnPost
    BY <1>h, <1>6 DEF SpawnPost, MainKeeps, HandsInv, InCall, StageInv, CloseInv,
        PreJoined, InferJoined, Ended, mainVars, queueVars, taskVars
<1>7. CASE Unwind
    BY <1>h, <1>7 DEF Unwind, MainKeeps, HandsInv, InCall, StageInv, CloseInv,
        PreJoined, InferJoined, Ended, mainVars, queueVars, taskVars
<1>8. CASE JoinPre
    BY <1>h, <1>8 DEF JoinPre, MainKeeps, HandsInv, InCall, StageInv, CloseInv,
        PreJoined, InferJoined, Ended, mainVars, queueVars, taskVars
<1>9. CASE ExitPre
    BY <1>h, <1>9 DEF ExitPre, MainKeeps, HandsInv, InCall, StageInv, CloseInv,
        PreJoined, InferJoined, Ended, mainVars, queueVars, taskVars
<1>10. CASE CloseImages
    BY <1>h, <1>10 DEF CloseImages, MainKeeps, ImageSleepers, HandsInv, InCall,
        StageInv, CloseInv, PreJoined, InferJoined, Ended, mainVars, queueVars,
        taskVars
<1>11. CASE JoinInfer
    BY <1>h, <1>11 DEF JoinInfer, MainKeeps, HandsInv, InCall, StageInv, CloseInv,
        PreJoined, InferJoined, Ended, mainVars, queueVars, taskVars
<1>12. CASE ExitInfer
    BY <1>h, <1>12 DEF ExitInfer, MainKeeps, HandsInv, InCall, StageInv, CloseInv,
        PreJoined, InferJoined, Ended, mainVars, queueVars, taskVars
<1>13. CASE CloseResults
    BY <1>h, <1>13 DEF CloseResults, MainKeeps, ResultSleepers, HandsInv, InCall,
        StageInv, CloseInv, PreJoined, InferJoined, Ended, mainVars, queueVars,
        taskVars
<1>14. CASE JoinPost
    BY <1>h, <1>14 DEF JoinPost, MainKeeps, HandsInv, InCall, StageInv, CloseInv,
        PreJoined, InferJoined, Ended, mainVars, queueVars, taskVars
<1>15. CASE PreCut
    BY <1>h, <1>15 DEF PreCut, HandsInv, InCall, StageInv, CloseInv, PreJoined,
        InferJoined, Ended, mainVars, queueVars, taskVars
<1>16. CASE PreWait
    BY <1>h, <1>16 DEF PreWait, Sleep, HandsInv, InCall, StageInv, CloseInv,
        PreJoined, InferJoined, Ended, mainVars, queueVars, taskVars
<1>17. CASE PrePut
    BY <1>h, <1>17 DEF PrePut, ImageSleepers, NotifyOne, HandsInv, InCall, StageInv,
        CloseInv, PreJoined, InferJoined, Ended, mainVars, queueVars, taskVars
<1>18. CASE InferCheck
    BY <1>h, <1>18 DEF InferCheck, HandsInv, InCall, StageInv, CloseInv, PreJoined,
        InferJoined, Ended, mainVars, queueVars, taskVars
<1>19. CASE InferGet
    BY <1>h, <1>19 DEF InferGet, ImageSleepers, NotifyOne, HandsInv, InCall,
        StageInv, CloseInv, PreJoined, InferJoined, Ended, mainVars, queueVars,
        taskVars
<1>20. CASE InferGetEmpty
    BY <1>h, <1>20 DEF InferGetEmpty, Sleep, HandsInv, InCall, StageInv, CloseInv,
        PreJoined, InferJoined, Ended, mainVars, queueVars, taskVars
<1>21. CASE InferPredict
    BY <1>h, <1>21 DEF InferPredict, HandsInv, InCall, StageInv, CloseInv, PreJoined,
        InferJoined, Ended, mainVars, queueVars, taskVars
<1>22. CASE InferAlloc
    BY <1>h, <1>22 DEF InferAlloc, Sleep, HandsInv, InCall, StageInv, CloseInv,
        PreJoined, InferJoined, Ended, mainVars, queueVars, taskVars
<1>23. CASE InferSend
    BY <1>h, <1>23 DEF InferSend, ResultSleepers, NotifyOne, HandsInv, InCall,
        StageInv, CloseInv, PreJoined, InferJoined, Ended, mainVars, queueVars,
        taskVars
<1>24. CASE PostCheck
    BY <1>h, <1>24 DEF PostCheck, HandsInv, InCall, StageInv, CloseInv, PreJoined,
        InferJoined, Ended, mainVars, queueVars, taskVars
<1>25. CASE PostGet
    BY <1>h, <1>25 DEF PostGet, ResultSleepers, NotifyOne, HandsInv, InCall,
        StageInv, CloseInv, PreJoined, InferJoined, Ended, mainVars, queueVars,
        taskVars
<1>26. CASE PostGetEmpty
    BY <1>h, <1>26 DEF PostGetEmpty, Sleep, HandsInv, InCall, StageInv, CloseInv,
        PreJoined, InferJoined, Ended, mainVars, queueVars, taskVars
<1>27. CASE PostWork
    BY <1>h, <1>27 DEF PostWork, PoolSleepers, NotifyOne, HandsInv, InCall, StageInv,
        CloseInv, PreJoined, InferJoined, Ended, mainVars, queueVars, taskVars
<1>28. CASE SpawnFails
    BY <1>h, <1>28 DEF SpawnFails, MainKeeps, HandsInv, InCall, StageInv, CloseInv,
        PreJoined, InferJoined, Ended, mainVars, queueVars, taskVars
<1>29. CASE PreDies
    BY <1>h, <1>29 DEF PreDies, HandsInv, InCall, StageInv, CloseInv, PreJoined,
        InferJoined, Ended, mainVars, queueVars, taskVars
<1>30. CASE InferDies
    BY <1>h, <1>30 DEF InferDies, HandsInv, InCall, StageInv, CloseInv, PreJoined,
        InferJoined, Ended, mainVars, queueVars, taskVars
<1>31. CASE PostDies
    BY <1>h, <1>31 DEF PostDies, PoolSleepers, NotifyOne, HandsInv, InCall, StageInv,
        CloseInv, PreJoined, InferJoined, Ended, mainVars, queueVars, taskVars
<1> QED
    BY <1>1, <1>2, <1>3, <1>4, <1>5, <1>6, <1>7, <1>8, <1>9, <1>10, <1>11,
       <1>12, <1>13, <1>14, <1>15, <1>16, <1>17, <1>18, <1>19, <1>20, <1>21,
       <1>22, <1>23, <1>24, <1>25, <1>26, <1>27, <1>28, <1>29, <1>30, <1>31
    DEF Next, MainRuns, PreRuns, InferRuns, PostRuns

\* Nobody overtakes pre.
LEMMA ReachStep ==
    ASSUME IInv, HandsInv, ReachInv, Next
    PROVE  ReachInv'
<1>h. ReachInv /\ StageInv /\ HandsInv
    BY DEF IInv
<1>n. /\ cut \in Nat /\ infer_tile \in Nat /\ post_tile \in Nat
      /\ q_image \in Seq(Nat) /\ Len(q_image) \in Nat
      /\ q_infer \in Seq(Nat) /\ Len(q_infer) \in Nat
      /\ out \in Seq(Nat) /\ Len(out) \in Nat
    BY DEF IInv, CountsOK
<1>t. PreHolds \in {0, 1} /\ InferHolds \in {0, 1} /\ PostHolds \in {0, 1}
    BY DEF PreHolds, InferHolds, PostHolds
<1>1. CASE Start
    BY <1>h, <1>n, <1>1 DEF Start, ReachInv, Sent, Put, PreHolds, InferHolds,
        PostHolds, mainVars, queueVars, taskVars
<1>2. CASE Stop
    BY <1>h, <1>n, <1>2 DEF Stop, ReachInv, Sent, Put, PreHolds, InferHolds,
        PostHolds, mainVars, queueVars, taskVars
<1>3. CASE Call
    <2>1. /\ pre' = "none" /\ infer' = "none" /\ post' = "none" /\ cut' = 0
          /\ q_image' = <<>> /\ q_infer' = <<>> /\ out' = <<>>
        BY <1>3 DEF Call
    <2> QED BY <2>1, EmptySequence
            DEF ReachInv, Put, Sent, PreHolds, InferHolds, PostHolds
<1>4. CASE SpawnPre
    BY <1>h, <1>n, <1>4 DEF SpawnPre, StageInv, HandsInv, MainKeeps, ReachInv, Sent, Put, PreHolds,
        InferHolds, PostHolds, mainVars, queueVars, taskVars
<1>5. CASE SpawnInfer
    BY <1>h, <1>n, <1>5 DEF SpawnInfer, StageInv, MainKeeps, ReachInv, Sent, Put, PreHolds,
        InferHolds, PostHolds, mainVars, queueVars, taskVars
<1>6. CASE SpawnPost
    BY <1>h, <1>n, <1>6 DEF SpawnPost, StageInv, MainKeeps, ReachInv, Sent, Put, PreHolds,
        InferHolds, PostHolds, mainVars, queueVars, taskVars
<1>7. CASE Unwind
    BY <1>h, <1>n, <1>7 DEF Unwind, MainKeeps, ReachInv, Sent, Put, PreHolds,
        InferHolds, PostHolds, mainVars, queueVars, taskVars
<1>8. CASE JoinPre
    BY <1>h, <1>n, <1>8 DEF JoinPre, MainKeeps, ReachInv, Sent, Put, PreHolds,
        InferHolds, PostHolds, mainVars, queueVars, taskVars
<1>9. CASE ExitPre
    BY <1>h, <1>n, <1>9 DEF ExitPre, MainKeeps, ReachInv, Sent, Put, PreHolds,
        InferHolds, PostHolds, mainVars, queueVars, taskVars
<1>10. CASE CloseImages
    BY <1>h, <1>n, <1>10 DEF CloseImages, MainKeeps, ImageSleepers, ReachInv, Sent,
        Put, PreHolds, InferHolds, PostHolds, mainVars, queueVars, taskVars
<1>11. CASE JoinInfer
    BY <1>h, <1>n, <1>11 DEF JoinInfer, MainKeeps, ReachInv, Sent, Put, PreHolds,
        InferHolds, PostHolds, mainVars, queueVars, taskVars
<1>12. CASE ExitInfer
    BY <1>h, <1>n, <1>12 DEF ExitInfer, MainKeeps, ReachInv, Sent, Put, PreHolds,
        InferHolds, PostHolds, mainVars, queueVars, taskVars
<1>13. CASE CloseResults
    BY <1>h, <1>n, <1>13 DEF CloseResults, MainKeeps, ResultSleepers, ReachInv, Sent,
        Put, PreHolds, InferHolds, PostHolds, mainVars, queueVars, taskVars
<1>14. CASE JoinPost
    BY <1>h, <1>n, <1>14 DEF JoinPost, MainKeeps, ReachInv, Sent, Put, PreHolds,
        InferHolds, PostHolds, mainVars, queueVars, taskVars
<1>15. CASE PreCut
    <2>1. /\ UNCHANGED <<q_image, q_infer, infer, post, out>>
          /\ pre = "cut"
          /\ \/ cut' = cut + 1 /\ pre' = "wait"
             \/ cut' = cut /\ pre' = "done"
        BY <1>15 DEF PreCut, mainVars, queueVars, taskVars
    <2>2. Sent' = Sent /\ Sent \in Nat /\ Put' = Put /\ Put \in Nat
        <3>1. PostHolds' = PostHolds /\ InferHolds' = InferHolds
            BY <2>1 DEF PostHolds, InferHolds
        <3>2. Sent' = Sent /\ Sent \in Nat
            BY <1>n, <1>t, <2>1, <3>1 DEF Sent
        <3> QED BY <1>n, <1>t, <2>1, <3>1, <3>2 DEF Put
    <2>3. PreHolds = 0 /\ PreHolds' = cut' - cut
        BY <1>n, <2>1 DEF PreHolds
    <2> QED BY <1>h, <1>n, <2>1, <2>2, <2>3 DEF ReachInv
<1>16. CASE PreWait
    BY <1>h, <1>n, <1>16 DEF PreWait, Sleep, ReachInv, Sent, Put, PreHolds,
        InferHolds, PostHolds, mainVars, queueVars, taskVars
<1>17. CASE PrePut
    <2>1. q_image' = Append(q_image, cut) /\ pre = "put" /\ pre' = "cut"
        BY <1>17 DEF PrePut
    <2>2. UNCHANGED <<q_infer, infer, post, cut, out>>
        BY <1>17 DEF PrePut, mainVars, queueVars, taskVars
    <2>3. Len(q_image') = Len(q_image) + 1
        BY <2>1, <1>n, Appended
    <2>4. infer # "dead" => Put <= cut - 1
        BY <2>1, <1>n DEF IInv, FlowInv, InferInv, PreHolds, Put, Sent, InferHolds, PostHolds
    <2>5. PreHolds = 1 /\ PreHolds' = 0 /\ InferHolds' = InferHolds
        BY <2>1, <2>2 DEF PreHolds, InferHolds
    <2>6. Sent' = Sent /\ Sent \in Nat
        <3>1. PostHolds' = PostHolds
            BY <2>2 DEF PostHolds
        <3> QED BY <1>n, <1>t, <2>2, <3>1 DEF Sent
    <2>7. Put' = Put + 1 /\ Put \in Nat
        BY <1>n, <1>t, <2>3, <2>5, <2>6 DEF Put
    <2> QED BY <1>h, <1>n, <2>2, <2>3, <2>4, <2>5, <2>6, <2>7 DEF ReachInv
<1>18. CASE InferCheck
    BY <1>h, <1>n, <1>18 DEF InferCheck, ReachInv, Sent, Put, PreHolds, InferHolds,
        PostHolds, mainVars, queueVars, taskVars
<1>19. CASE InferGet
    <2>1. q_image' = Tail(q_image) /\ q_image # <<>> /\ infer = "get" /\ infer' = "predict"
        BY <1>19 DEF InferGet
    <2>2. UNCHANGED <<q_infer, pre, post, cut, out>>
        BY <1>19 DEF InferGet, mainVars, queueVars, taskVars
    <2>3. Len(q_image') = Len(q_image) - 1
        BY <2>1, <1>n, Popped
    <2> QED BY <1>h, <1>n, <2>1, <2>2, <2>3
            DEF ReachInv, Put, Sent, PreHolds, InferHolds, PostHolds
<1>20. CASE InferGetEmpty
    BY <1>h, <1>n, <1>20 DEF InferGetEmpty, Sleep, ReachInv, Sent, Put, PreHolds,
        InferHolds, PostHolds, mainVars, queueVars, taskVars
<1>21. CASE InferPredict
    BY <1>h, <1>n, <1>21 DEF InferPredict, ReachInv, Sent, Put, PreHolds, InferHolds,
        PostHolds, mainVars, queueVars, taskVars
<1>22. CASE InferAlloc
    BY <1>h, <1>n, <1>22 DEF InferAlloc, Sleep, ReachInv, Sent, Put, PreHolds,
        InferHolds, PostHolds, mainVars, queueVars, taskVars
<1>23. CASE InferSend
    <2>1. q_infer' = Append(q_infer, infer_tile) /\ infer = "send" /\ infer' = "check"
        BY <1>23 DEF InferSend
    <2>2. UNCHANGED <<q_image, pre, post, cut, out>>
        BY <1>23 DEF InferSend, mainVars, queueVars, taskVars
    <2>3. Len(q_infer') = Len(q_infer) + 1
        BY <2>1, <1>n, Appended
    <2>4. PreHolds' = PreHolds /\ InferHolds = 1 /\ InferHolds' = 0
        BY <2>1, <2>2 DEF PreHolds, InferHolds
    <2>5. Sent' = Sent + 1 /\ Sent \in Nat
        <3>1. PostHolds' = PostHolds
            BY <2>2 DEF PostHolds
        <3> QED BY <1>n, <1>t, <2>2, <2>3, <3>1 DEF Sent
    <2>6. Put' = Put /\ Put = Sent + 1 + Len(q_image)
        BY <1>n, <2>2, <2>4, <2>5 DEF Put
    <2> QED BY <1>h, <1>n, <2>1, <2>2, <2>4, <2>5, <2>6 DEF ReachInv
<1>24. CASE PostCheck
    BY <1>h, <1>n, <1>24 DEF PostCheck, ReachInv, Sent, Put, PreHolds, InferHolds,
        PostHolds, mainVars, queueVars, taskVars
<1>25. CASE PostGet
    <2>1. q_infer' = Tail(q_infer) /\ q_infer # <<>> /\ post = "get" /\ post' = "work"
        BY <1>25 DEF PostGet
    <2>2. UNCHANGED <<q_image, pre, infer, cut, out>>
        BY <1>25 DEF PostGet, mainVars, queueVars, taskVars
    <2>3. Len(q_infer') = Len(q_infer) - 1
        BY <2>1, <1>n, Popped
    <2> QED BY <1>h, <1>n, <2>1, <2>2, <2>3
            DEF ReachInv, Put, Sent, PreHolds, InferHolds, PostHolds
<1>26. CASE PostGetEmpty
    BY <1>h, <1>n, <1>26 DEF PostGetEmpty, Sleep, ReachInv, Sent, Put, PreHolds,
        InferHolds, PostHolds, mainVars, queueVars, taskVars
<1>27. CASE PostWork
    <2>1. out' = Append(out, post_tile) /\ post = "work" /\ post' = "check"
        BY <1>27 DEF PostWork
    <2>2. UNCHANGED <<q_image, q_infer, pre, infer, cut>>
        BY <1>27 DEF PostWork, mainVars, queueVars, taskVars
    <2>3. Len(out') = Len(out) + 1
        BY <2>1, <1>n, Appended
    <2> QED BY <1>h, <1>n, <2>1, <2>2, <2>3
            DEF ReachInv, Put, Sent, PreHolds, InferHolds, PostHolds
<1>28. CASE SpawnFails
    BY <1>h, <1>n, <1>28 DEF SpawnFails, MainKeeps, ReachInv, Sent, Put, PreHolds,
        InferHolds, PostHolds, mainVars, queueVars, taskVars
<1>29. CASE PreDies
    <2>1. UNCHANGED <<q_image, q_infer, infer, post, cut, out>> /\ pre' = "dead"
        BY <1>29 DEF PreDies, mainVars, queueVars, taskVars
    <2>2. Sent' = Sent /\ Put' = Put
        BY <2>1 DEF Put, Sent, PostHolds, InferHolds
    <2>3. PreHolds' = 0 /\ PreHolds \in Nat
        BY <2>1 DEF PreHolds
    <2> QED BY <1>h, <1>n, <2>1, <2>2, <2>3 DEF ReachInv
<1>30. CASE InferDies
    BY <1>h, <1>n, <1>30 DEF InferDies, ReachInv, Sent, Put, PreHolds, InferHolds,
        PostHolds, mainVars, queueVars, taskVars
<1>31. CASE PostDies
    BY <1>h, <1>n, <1>31 DEF PostDies, PoolSleepers, NotifyOne, ReachInv, Sent, Put,
        PreHolds, InferHolds, PostHolds, mainVars, queueVars, taskVars
<1> QED
    BY <1>1, <1>2, <1>3, <1>4, <1>5, <1>6, <1>7, <1>8, <1>9, <1>10, <1>11,
       <1>12, <1>13, <1>14, <1>15, <1>16, <1>17, <1>18, <1>19, <1>20, <1>21,
       <1>22, <1>23, <1>24, <1>25, <1>26, <1>27, <1>28, <1>29, <1>30, <1>31
    DEF Next, MainRuns, PreRuns, InferRuns, PostRuns

\* A frame of the model's size has one tile.
LEMMA OneTile ==
    ASSUME frame \in Frames,
           frame.width >= ModelWidth, frame.height >= ModelWidth,
           ~(frame.width > ModelWidth \/ frame.height > ModelWidth)
    PROVE  Tiles = 1
<1>1. /\ ModelWidth \in Nat \ {0}
      /\ frame.width = ModelWidth /\ frame.height = ModelWidth
    BY LynxiAssumption
<1>2. StridePx(ModelWidth) \in 1 .. ModelWidth
    BY <1>1, StrideBounds
<1>3. ASSUME NEW s \in Nat \ {0}
      PROVE  CeilDiv(0, s) = 0
    <2>1. CeilDiv(0, s) \in Nat /\ CeilDiv(0, s) * s < s
        BY CeilDivBounds
    <2>2. ASSUME CeilDiv(0, s) >= 1
          PROVE  FALSE
        BY <2>1, <2>2
    <2> QED BY <2>1, <2>2
<1>4. TilesAlong(ModelWidth, ModelWidth) = 1
    BY <1>1, <1>2, <1>3 DEF TilesAlong
<1> QED BY <1>1, <1>4 DEF Tiles, TileCount

\* While a call runs and is not abandoned, main, pre, infer or post can go on.
LEMMA SomebodyOf ==
    ASSUME IInv, HandsInv, ReachInv
    PROVE  SomebodyCanRun
<1> SUFFICES ASSUME InCall, ~Abandoned, ~MainCanRun
             PROVE  PreCanRun \/ InferCanRun \/ PostCanRun
    BY DEF SomebodyCanRun
<1>h. /\ NamesOK /\ CountsOK /\ PoolInv /\ StageInv /\ CloseInv /\ NobodySleepsInVain
      /\ FlowInv
    BY DEF IInv
<1>n. /\ cut \in Nat /\ free \in Nat /\ PoolSize \in Nat \ {0}
      /\ q_image \in Seq(Nat) /\ Len(q_image) \in Nat
      /\ q_infer \in Seq(Nat) /\ Len(q_infer) \in Nat
      /\ out \in Seq(Nat) /\ Len(out) \in Nat
    BY <1>h, LynxiAssumption DEF CountsOK
<1>e. /\ q_image = <<>> <=> Len(q_image) = 0
      /\ q_infer = <<>> <=> Len(q_infer) = 0
    BY <1>n, EmptySequence
<1>1. main \in {"unwind", "join pre", "join infer", "join post"}
    BY <1>h DEF InCall, MainCanRun, NamesOK, Stages
<1>2. pre # "none"
    BY <1>1, <1>h DEF MainCanRun, Ended, StageInv, PreJoined, HandsInv, Abandoned
<1>3. failed \cap {"infer", "post", "spawn infer"} # {} => cut <= 1
    <2> SUFFICES ASSUME failed \cap {"infer", "post", "spawn infer"} # {}
                 PROVE  cut <= 1
        OBVIOUS
    <2>1. frame \in Frames
        BY <1>h DEF NamesOK
    <2>2. ~(frame.width > ModelWidth \/ frame.height > ModelWidth)
        BY DEF Abandoned
    <2>3. frame.width >= ModelWidth /\ frame.height >= ModelWidth
        BY <1>2, <1>h DEF StageInv
    <2>4. Tiles = 1
        BY <2>1, <2>2, <2>3, OneTile
    <2> QED BY <2>4, <1>2, <1>h DEF FlowInv, CutInv
\* Infer waits for the pool only while post holds results.
<1>4. ASSUME infer = "alloc", "infer" \in asleep, post # "none"
      PROVE  PostCanRun
    <2>1. free = 0 /\ Len(q_infer) + (IF post = "work" THEN 1 ELSE 0) = PoolSize
        BY <1>h, <1>n, <1>4 DEF NobodySleepsInVain, PoolInv
    <2>2. post # "done"
        BY <1>4, <1>h DEF CloseInv
    <2>3. post # "dead"
        <3> SUFFICES ASSUME post = "dead" PROVE FALSE
            OBVIOUS
        <3>1. cut <= 1
            BY <1>3, <1>h DEF CloseInv
        <3>2. Put <= cut /\ Put >= 2
            BY <1>4, <1>n DEF ReachInv, Put, Sent, PostHolds, InferHolds
        <3> QED BY <3>1, <3>2, <1>n DEF Put, Sent, PostHolds, InferHolds
    <2>4. "post" \in asleep => FALSE
        BY <2>1, <1>h, <1>n, <1>e DEF NobodySleepsInVain
    <2>5. main # "close q_infer"
        BY <1>1
    <2>6. post \in {"check", "get", "work"}
        BY <2>2, <2>3, <1>4, <1>h DEF NamesOK, Ended
    <2> QED BY <2>4, <2>5, <2>6 DEF PostCanRun
\* Whoever else is alive in infer can go on, unless it sleeps before an open
\* and empty queue.
<1>5. ASSUME infer \notin Ended, post # "none",
             ~(infer = "get" /\ q_image = <<>> /\ "q_image" \notin closed)
      PROVE  InferCanRun \/ PostCanRun
    <2>1. infer \in {"check", "get", "predict", "alloc", "send"}
        BY <1>5, <1>h DEF NamesOK, Ended
    <2>2. main # "close q_image"
        BY <1>1
    <2>3. infer = "send" => "q_infer" \notin closed
        BY <1>5, <1>h DEF CloseInv, Ended
    <2>4. infer = "get" => "infer" \notin asleep
        BY <1>5, <1>h DEF NobodySleepsInVain
    <2>5. infer = "alloc" /\ "infer" \in asleep => PostCanRun
        BY <1>4, <1>5
    <2> QED BY <2>1, <2>2, <2>3, <2>4, <2>5 DEF InferCanRun
<1>6. CASE main = "join post"
    <2>1. post \in {"check", "get", "work"}
        BY <1>6, <1>h DEF MainCanRun, InCall, NamesOK, Ended
    <2>2. post = "get" => "post" \notin asleep
        BY <1>6, <1>h DEF HandsInv, NobodySleepsInVain
    <2> QED BY <1>6, <2>1, <2>2 DEF PostCanRun
<1>7. CASE main = "join infer"
    <2>1. infer \notin Ended
        BY <1>7 DEF MainCanRun, InCall
    <2>2. post # "none"
        BY <1>7, <1>h DEF StageInv, PreJoined
    <2>3. ~(infer = "get" /\ q_image = <<>> /\ "q_image" \notin closed)
        BY <1>7 DEF HandsInv
    <2> QED BY <2>1, <2>2, <2>3, <1>5
\* A pre that is alive and cannot go on sleeps before a tile nobody has taken.
<1>8. ASSUME pre \notin Ended, ~PreCanRun
      PROVE  /\ q_image # <<>> /\ Len(q_image) + 1 <= cut
             /\ "q_image" \notin closed
    <2>1. pre \in {"cut", "wait", "put"}
        BY <1>8, <1>h DEF NamesOK, Ended
    <2>2. "q_image" \notin closed
        BY <1>8, <1>h DEF CloseInv, Ended
    <2>3. pre = "wait" /\ "pre" \in asleep
        BY <2>1, <2>2, <1>8 DEF PreCanRun
    <2>4. q_image # <<>>
        BY <2>3, <1>h DEF NobodySleepsInVain
    <2> QED BY <2>2, <2>3, <2>4, <1>n DEF ReachInv, PreHolds
<1>9. CASE main = "join pre"
    <2> SUFFICES ASSUME ~PreCanRun PROVE InferCanRun \/ PostCanRun
        OBVIOUS
    <2>1. pre \notin Ended
        BY <1>9 DEF MainCanRun, InCall
    <2>2. q_image # <<>> /\ Len(q_image) + 1 <= cut
        BY <2>1, <1>8
    <2>3. infer # "none" /\ post # "none"
        BY <1>9, <1>h DEF StageInv
    <2>4. infer # "done"
        BY <2>2, <1>h DEF CloseInv
    <2>5. infer # "dead"
        <3>1. infer = "dead" => cut <= 1
            BY <1>3, <1>h DEF CloseInv
        <3> QED BY <3>1, <2>2, <1>n, <1>e
    <2> QED BY <2>2, <2>3, <2>4, <2>5, <1>5 DEF Ended
<1>10. CASE main = "unwind"
    <2> SUFFICES ASSUME ~PreCanRun PROVE FALSE
        OBVIOUS
    <2>1. "spawn infer" \in failed /\ infer = "none" /\ post = "none"
        BY <1>10, <1>2 DEF HandsInv, Abandoned
    <2>2. pre \notin Ended
        BY <1>10, <2>1 DEF MainCanRun, InCall, Ended
    <2>3. q_image # <<>> /\ Len(q_image) + 1 <= cut
        BY <2>2, <1>8
    <2>4. cut <= 1
        BY <2>1, <1>3
    <2> QED BY <2>3, <2>4, <1>n, <1>e
<1> QED BY <1>1, <1>6, <1>7, <1>9, <1>10

-----------------------------------------------------------------------------
(* How much of a call is left *)

\* The steps of the calling thread and of the tasks that are left at most;
\* a task that is not started yet is part of the calling thread's work.
MainLeft ==
    CASE main = "spawn pre" -> 11 * Tiles + 20
      [] main = "spawn infer" -> 8 * Tiles + 18
      [] main = "spawn post" -> 3 * Tiles + 12
      [] main = "join pre" -> 8
      [] main = "exit pre" -> 7
      [] main = "close q_image" -> 6
      [] main = "join infer" -> 5
      [] main = "exit infer" -> 4
      [] main = "close q_infer" -> 3
      [] main = "join post" -> 2
      [] main = "unwind" -> 1
      [] OTHER -> 0

PreLeft ==
    CASE pre = "wait" -> 3 * (Tiles - cut) + 3
      [] pre = "put" -> 3 * (Tiles - cut) + 2
      [] pre = "cut" -> 3 * (Tiles - cut) + 1
      [] OTHER -> 0

InferLeft ==
    CASE infer = "check" -> 5 * (Tiles - Sent) + 5
      [] infer = "get" -> 5 * (Tiles - Sent) + 4
      [] infer = "predict" -> 5 * (Tiles - Sent) + 3
      [] infer = "alloc" -> 5 * (Tiles - Sent) + 2
      [] infer = "send" -> 5 * (Tiles - Sent) + 1
      [] OTHER -> 0

PostLeft ==
    CASE post = "check" -> 3 * (Tiles - Len(out)) + 3
      [] post = "get" -> 3 * (Tiles - Len(out)) + 2
      [] post = "work" -> 3 * (Tiles - Len(out)) + 1
      [] OTHER -> 0

\* How many tasks are awake: falling asleep is a step, too, and every step
\* that wakes a task does a piece of work.
One(t) == IF t \in asleep THEN 0 ELSE 1
Awake == One("pre") + One("infer") + One("post")

Work == MainLeft + PreLeft + InferLeft + PostLeft
Left == 4 * Work + Awake

StepsRunOut == InCall => Left \in Nat /\ Left' < Left

\* Only the inner measure or the outer one has to shrink.
LEMMA Less ==
    ASSUME Work \in Nat, Work' \in Int,
           Work' < Work \/ (Work' = Work /\ Awake' < Awake)
    PROVE  Left \in Nat /\ Left' < Left
<1>1. Awake \in 0 .. 3 /\ Awake' \in 0 .. 3
    BY DEF Awake, One
<1> DEFINE a == Awake
           b == Awake'
           w == Work
           v == Work'
<1>2. a \in 0 .. 3 /\ b \in 0 .. 3 /\ w \in Nat /\ v \in Int
    BY <1>1
<1>3. v < w \/ (v = w /\ b < a)
    OBVIOUS
<1>4. Left = 4 * w + a /\ Left' = 4 * v + b
    BY DEF Left
<1> HIDE DEF a, b, w, v
<1> QED BY <1>2, <1>3, <1>4

\* A sum shrinks with a part of it.
LEMMA SumShrinks ==
    ASSUME NEW a \in Nat, NEW b \in Nat, NEW c \in Nat, NEW d \in Nat
    PROVE  /\ a + b + c + d \in Nat
           /\ \A n \in Int : n < a => n + b + c + d \in Int /\ n + b + c + d < a + b + c + d
           /\ \A n \in Int : n < b => a + n + c + d \in Int /\ a + n + c + d < a + b + c + d
           /\ \A n \in Int : n < c => a + b + n + d \in Int /\ a + b + n + d < a + b + c + d
           /\ \A n \in Int : n < d => a + b + c + n \in Int /\ a + b + c + n < a + b + c + d
OBVIOUS

\* While a call runs its tiles are counted, and each part of the work is.
LEMMA WorkIsCounted ==
    ASSUME IInv, HandsInv, ReachInv, InCall
    PROVE  /\ Tiles \in Nat /\ cut \in Nat /\ Len(out) \in Nat /\ Sent \in Nat
           /\ pre # "none" => cut <= Tiles
           /\ infer # "none" => Sent <= Tiles
           /\ post # "none" => Len(out) <= Tiles
           /\ MainLeft \in Nat /\ PreLeft \in Nat /\ InferLeft \in Nat /\ PostLeft \in Nat
<1>1. Tiles \in Nat
    BY TilesAreCounted DEF HandsInv, IInv, NamesOK
<1>2. cut \in Nat /\ Len(out) \in Nat /\ Len(q_infer) \in Nat
    BY DEF IInv, CountsOK
<1>3. PostHolds \in {0, 1}
    BY DEF PostHolds
<1>4. Sent \in Nat /\ Len(out) <= Sent /\ Sent <= cut
    BY <1>2, <1>3 DEF Sent, ReachInv
<1>5. pre # "none" => cut <= Tiles
    BY DEF IInv, FlowInv, CutInv
<1>6. infer # "none" \/ post # "none" => pre # "none"
    BY DEF HandsInv
<1> DEFINE t == Tiles
<1>t. 11 * t + 20 \in Nat /\ 8 * t + 18 \in Nat /\ 3 * t + 12 \in Nat
    BY <1>1
<1>7. MainLeft \in Nat
    <2> HIDE DEF t
    <2>1. \/ MainLeft \in {11 * t + 20, 8 * t + 18, 3 * t + 12}
          \/ MainLeft \in {8, 7, 6, 5, 4, 3, 2, 1, 0}
        BY DEF MainLeft, t
    <2> QED BY <1>t, <2>1
<1>8. PreLeft \in Nat
    <2> DEFINE r == Tiles - cut
    <2>1. pre # "none" => r \in Nat
        BY <1>1, <1>2, <1>5
    <2>2. pre \in {"wait", "put", "cut"} => PreLeft \in {3 * r + 3, 3 * r + 2, 3 * r + 1}
        BY DEF PreLeft
    <2>3. pre \notin {"wait", "put", "cut"} => PreLeft = 0
        BY DEF PreLeft
    <2> HIDE DEF r
    <2> QED BY <2>1, <2>2, <2>3
<1>9. InferLeft \in Nat
    <2> DEFINE r == Tiles - Sent
               Alive == {"check", "get", "predict", "alloc", "send"}
    <2>1. infer # "none" => r \in Nat
        BY <1>1, <1>2, <1>4, <1>5, <1>6
    <2>2. infer \in Alive =>
              InferLeft \in {5 * r + 5, 5 * r + 4, 5 * r + 3, 5 * r + 2, 5 * r + 1}
        BY DEF InferLeft
    <2>3. infer \notin Alive => InferLeft = 0
        BY DEF InferLeft
    <2>4. infer \in Alive => infer # "none"
        OBVIOUS
    <2> HIDE DEF r, Alive
    <2> QED BY <2>1, <2>2, <2>3, <2>4
<1>10. PostLeft \in Nat
    <2> DEFINE r == Tiles - Len(out)
    <2>1. post # "none" => r \in Nat
        BY <1>1, <1>2, <1>4, <1>5, <1>6
    <2>2. post \in {"check", "get", "work"} => PostLeft \in {3 * r + 3, 3 * r + 2, 3 * r + 1}
        BY DEF PostLeft
    <2>3. post \notin {"check", "get", "work"} => PostLeft = 0
        BY DEF PostLeft
    <2> HIDE DEF r
    <2> QED BY <2>1, <2>2, <2>3
<1> QED BY <1>1, <1>2, <1>4, <1>5, <1>6, <1>7, <1>8, <1>9, <1>10

\* Every step of a call is one of those that are left.
LEMMA LeftStep ==
    ASSUME IInv, HandsInv, ReachInv, Next
    PROVE  StepsRunOut
<1> SUFFICES ASSUME InCall PROVE Left \in Nat /\ Left' < Left
    BY DEF StepsRunOut
<1>a. ~(Start \/ Stop \/ Call)
    BY DEF Start, Stop, Call, InCall
<1>n. /\ Tiles \in Nat /\ cut \in Nat /\ Len(out) \in Nat /\ Sent \in Nat
      /\ pre # "none" => cut <= Tiles
      /\ infer # "none" => Sent <= Tiles
      /\ post # "none" => Len(out) <= Tiles
      /\ MainLeft \in Nat /\ PreLeft \in Nat /\ InferLeft \in Nat /\ PostLeft \in Nat
    BY WorkIsCounted
\* What is left of a thread depends on where it stands and on its tiles.
<1>m. UNCHANGED <<main, frame>> => MainLeft' = MainLeft
    BY DEF MainLeft, Tiles
<1>p. UNCHANGED <<pre, cut, frame>> => PreLeft' = PreLeft
    BY DEF PreLeft, Tiles
<1>s. UNCHANGED <<post, q_infer, out>> => Sent' = Sent
    BY DEF Sent, PostHolds
<1>i. UNCHANGED <<infer, post, q_infer, out, frame>> => InferLeft' = InferLeft
    BY <1>s DEF InferLeft, Tiles
<1>q. UNCHANGED <<post, out, frame>> => PostLeft' = PostLeft
    BY DEF PostLeft, Tiles
<1>0. Work \in Nat
    BY <1>n, SumShrinks DEF Work
<1>w. ASSUME Work' \in Int, Work' < Work
      PROVE  Left \in Nat /\ Left' < Left
    BY <1>w, <1>0, Less
<1>z. ASSUME MainLeft' = MainLeft, PreLeft' = PreLeft, InferLeft' = InferLeft,
             PostLeft' = PostLeft, Awake' < Awake
      PROVE  Left \in Nat /\ Left' < Left
    <2>1. Work' = Work
        BY <1>z DEF Work
    <2> QED BY <1>z, <1>0, <2>1, Less
<1>wm. ASSUME MainLeft' \in Int, MainLeft' < MainLeft,
              PreLeft' = PreLeft, InferLeft' = InferLeft, PostLeft' = PostLeft
       PROVE  Left \in Nat /\ Left' < Left
    BY <1>wm, <1>n, <1>w, SumShrinks DEF Work
<1>wp. ASSUME PreLeft' \in Int, PreLeft' < PreLeft,
              MainLeft' = MainLeft, InferLeft' = InferLeft, PostLeft' = PostLeft
       PROVE  Left \in Nat /\ Left' < Left
    BY <1>wp, <1>n, <1>w, SumShrinks DEF Work
<1>wi. ASSUME InferLeft' \in Int, InferLeft' < InferLeft,
              MainLeft' = MainLeft, PreLeft' = PreLeft, PostLeft' = PostLeft
       PROVE  Left \in Nat /\ Left' < Left
    BY <1>wi, <1>n, <1>w, SumShrinks DEF Work
<1>wq. ASSUME PostLeft' \in Int, PostLeft' < PostLeft,
              MainLeft' = MainLeft, PreLeft' = PreLeft, InferLeft' = InferLeft
       PROVE  Left \in Nat /\ Left' < Left
    BY <1>wq, <1>n, <1>w, SumShrinks DEF Work
<1>1. CASE Unwind
    <2>1. UNCHANGED <<frame, pre, infer, post, cut, q_infer, out>>
        BY <1>1 DEF Unwind, MainKeeps
    <2>2. MainLeft = 1 /\ MainLeft' = 0
        BY <1>1 DEF Unwind, MainLeft
    <2>3. PreLeft' = PreLeft /\ InferLeft' = InferLeft /\ PostLeft' = PostLeft
        BY <2>1, <1>p, <1>i, <1>q
    <2> QED BY <2>2, <2>3, <1>wm
<1>2. CASE JoinPre
    <2>1. UNCHANGED <<frame, pre, infer, post, cut, q_infer, out>>
        BY <1>2 DEF JoinPre, MainKeeps
    <2>2. MainLeft = 8 /\ MainLeft' = 7
        BY <1>2 DEF JoinPre, MainLeft
    <2>3. PreLeft' = PreLeft /\ InferLeft' = InferLeft /\ PostLeft' = PostLeft
        BY <2>1, <1>p, <1>i, <1>q
    <2> QED BY <2>2, <2>3, <1>wm
<1>3. CASE JoinInfer
    <2>1. UNCHANGED <<frame, pre, infer, post, cut, q_infer, out>>
        BY <1>3 DEF JoinInfer, MainKeeps
    <2>2. MainLeft = 5 /\ MainLeft' = 4
        BY <1>3 DEF JoinInfer, MainLeft
    <2>3. PreLeft' = PreLeft /\ InferLeft' = InferLeft /\ PostLeft' = PostLeft
        BY <2>1, <1>p, <1>i, <1>q
    <2> QED BY <2>2, <2>3, <1>wm
<1>4. CASE CloseImages
    <2>1. UNCHANGED <<frame, pre, infer, post, cut, q_infer, out>>
        BY <1>4 DEF CloseImages, MainKeeps
    <2>2. MainLeft = 6 /\ MainLeft' = 5
        BY <1>4 DEF CloseImages, MainLeft
    <2>3. PreLeft' = PreLeft /\ InferLeft' = InferLeft /\ PostLeft' = PostLeft
        BY <2>1, <1>p, <1>i, <1>q
    <2> QED BY <2>2, <2>3, <1>wm
<1>5. CASE CloseResults
    <2>1. UNCHANGED <<frame, pre, infer, post, cut, q_infer, out>>
        BY <1>5 DEF CloseResults, MainKeeps
    <2>2. MainLeft = 3 /\ MainLeft' = 2
        BY <1>5 DEF CloseResults, MainLeft
    <2>3. PreLeft' = PreLeft /\ InferLeft' = InferLeft /\ PostLeft' = PostLeft
        BY <2>1, <1>p, <1>i, <1>q
    <2> QED BY <2>2, <2>3, <1>wm
<1>6. CASE JoinPost
    <2>1. UNCHANGED <<frame, pre, infer, post, cut, q_infer, out>>
        BY <1>6 DEF JoinPost, MainKeeps
    <2>2. MainLeft = 2 /\ MainLeft' = 0
        BY <1>6 DEF JoinPost, MainLeft
    <2>3. PreLeft' = PreLeft /\ InferLeft' = InferLeft /\ PostLeft' = PostLeft
        BY <2>1, <1>p, <1>i, <1>q
    <2> QED BY <2>2, <2>3, <1>wm
<1>7. CASE ExitPre
    <2>1. UNCHANGED <<frame, pre, infer, post, cut, q_infer, out>>
        BY <1>7 DEF ExitPre, MainKeeps
    <2>2. MainLeft = 7 /\ MainLeft' \in {6, 5}
        BY <1>7 DEF ExitPre, MainLeft
    <2>3. PreLeft' = PreLeft /\ InferLeft' = InferLeft /\ PostLeft' = PostLeft
        BY <2>1, <1>p, <1>i, <1>q
    <2> QED BY <2>2, <2>3, <1>wm
<1>8. CASE ExitInfer
    <2>1. UNCHANGED <<frame, pre, infer, post, cut, q_infer, out>>
        BY <1>8 DEF ExitInfer, MainKeeps
    <2>2. MainLeft = 4 /\ MainLeft' \in {3, 2}
        BY <1>8 DEF ExitInfer, MainLeft
    <2>3. PreLeft' = PreLeft /\ InferLeft' = InferLeft /\ PostLeft' = PostLeft
        BY <2>1, <1>p, <1>i, <1>q
    <2> QED BY <2>2, <2>3, <1>wm
<1>9. CASE SpawnFails
    <2>1. UNCHANGED <<frame, pre, infer, post, cut, q_infer, out>>
        BY <1>9 DEF SpawnFails, MainKeeps
    <2>2. MainLeft' \in Int /\ MainLeft' < MainLeft
        <3>1. MainLeft' = 1
            BY <1>9 DEF SpawnFails, MainLeft
        <3>2. MainLeft \in {11 * Tiles + 20, 8 * Tiles + 18, 3 * Tiles + 12}
            BY <1>9 DEF SpawnFails, MainLeft
        <3> QED BY <1>n, <3>1, <3>2
    <2>3. PreLeft' = PreLeft /\ InferLeft' = InferLeft /\ PostLeft' = PostLeft
        BY <2>1, <1>p, <1>i, <1>q
    <2> QED BY <2>2, <2>3, <1>wm
<1>10. CASE SpawnPre
    <2>1. UNCHANGED <<frame, infer, post, cut, q_infer, out>>
        BY <1>10 DEF SpawnPre, MainKeeps
    <2>2. cut = 0 /\ main = "spawn pre" /\ pre' = "cut" /\ main' = "spawn infer" /\ pre = "none"
        BY <1>10 DEF SpawnPre, IInv, StageInv
    <2>3. Tiles' = Tiles
        BY <2>1 DEF Tiles
    <2>4. MainLeft = 11 * Tiles + 20 /\ MainLeft' = 8 * Tiles + 18
        BY <2>2, <2>3 DEF MainLeft
    <2>5. PreLeft = 0 /\ PreLeft' = 3 * (Tiles - 0) + 1
        BY <2>1, <2>2, <2>3 DEF PreLeft
    <2>6. InferLeft' = InferLeft /\ PostLeft' = PostLeft
        BY <2>1, <1>i, <1>q
    <2>7. /\ MainLeft' \in Int /\ PreLeft' \in Int
          /\ MainLeft' + PreLeft' < MainLeft + PreLeft
        BY <2>4, <2>5, <1>n
    <2>10. Work' \in Int /\ Work' < Work
        <3> DEFINE a == MainLeft
                   b == PreLeft
                   c == InferLeft
                   d == PostLeft
                   m == MainLeft'
                   n == PreLeft'
        <3>1. Work = a + b + c + d /\ Work' = m + n + c + d
            BY <2>6, <2>7 DEF Work
        <3>2. /\ a \in Nat /\ b \in Nat /\ c \in Nat /\ d \in Nat
              /\ m \in Int /\ n \in Int /\ m + n < a + b
            BY <2>6, <2>7, <1>n
        <3> HIDE DEF a, b, c, d, m, n
        <3> QED BY <3>1, <3>2
    <2> QED BY <2>10, <1>w
<1>11. CASE SpawnInfer
    <2>1. UNCHANGED <<frame, pre, post, cut, q_infer, out>>
        BY <1>11 DEF SpawnInfer, MainKeeps
    <2>2. main = "spawn infer" /\ infer' = "check" /\ main' = "spawn post" /\ infer = "none"
        BY <1>11 DEF SpawnInfer, IInv, StageInv
    <2>3. Tiles' = Tiles /\ Sent' = Sent
        BY <2>1, <1>s DEF Tiles
    <2>4. MainLeft = 8 * Tiles + 18 /\ MainLeft' = 3 * Tiles + 12
        BY <2>2, <2>3 DEF MainLeft
    <2>5. InferLeft = 0 /\ InferLeft' = 5 * (Tiles - Sent) + 5
        BY <2>2, <2>3 DEF InferLeft
    <2>6. PreLeft' = PreLeft /\ PostLeft' = PostLeft
        BY <2>1, <1>p, <1>q
    <2>7. /\ MainLeft' \in Int /\ InferLeft' \in Int
          /\ MainLeft' + InferLeft' < MainLeft + InferLeft
        BY <2>4, <2>5, <1>n
    <2>10. Work' \in Int /\ Work' < Work
        <3> DEFINE a == MainLeft
                   b == InferLeft
                   c == PreLeft
                   d == PostLeft
                   m == MainLeft'
                   n == InferLeft'
        <3>1. Work = a + c + b + d /\ Work' = m + c + n + d
            BY <2>6, <2>7 DEF Work
        <3>2. /\ a \in Nat /\ b \in Nat /\ c \in Nat /\ d \in Nat
              /\ m \in Int /\ n \in Int /\ m + n < a + b
            BY <2>6, <2>7, <1>n
        <3> HIDE DEF a, b, c, d, m, n
        <3> QED BY <3>1, <3>2
    <2> QED BY <2>10, <1>w
<1>12. CASE SpawnPost
    <2>1. UNCHANGED <<frame, pre, infer, cut, q_infer, out>>
        BY <1>12 DEF SpawnPost, MainKeeps
    <2>2. main = "spawn post" /\ post' = "check" /\ main' = "join pre" /\ post = "none"
        BY <1>12 DEF SpawnPost, IInv, StageInv
    <2>3. Tiles' = Tiles
        BY <2>1 DEF Tiles
    <2>4. Sent' = Sent
        BY <2>1, <2>2 DEF Sent, PostHolds
    <2>5. MainLeft = 3 * Tiles + 12 /\ MainLeft' = 8
        BY <2>2, <2>3 DEF MainLeft
    <2>6. PostLeft = 0 /\ PostLeft' = 3 * (Tiles - Len(out)) + 3
        BY <2>1, <2>2, <2>3 DEF PostLeft
    <2>7. PreLeft' = PreLeft
        BY <2>1, <1>p
    <2>8. InferLeft' = InferLeft
        BY <2>1, <2>3, <2>4 DEF InferLeft
    <2>9. /\ MainLeft' \in Int /\ PostLeft' \in Int
          /\ MainLeft' + PostLeft' < MainLeft + PostLeft
        BY <2>5, <2>6, <1>n
    <2>10. Work' \in Int /\ Work' < Work
        <3> DEFINE a == MainLeft
                   b == PostLeft
                   c == PreLeft
                   d == InferLeft
                   m == MainLeft'
                   n == PostLeft'
        <3>1. Work = a + c + d + b /\ Work' = m + c + d + n
            BY <2>7, <2>8, <2>9 DEF Work
        <3>2. /\ a \in Nat /\ b \in Nat /\ c \in Nat /\ d \in Nat
              /\ m \in Int /\ n \in Int /\ m + n < a + b
            BY <2>7, <2>8, <2>9, <1>n
        <3> HIDE DEF a, b, c, d, m, n
        <3> QED BY <3>1, <3>2
    <2> QED BY <2>10, <1>w
<1>13. CASE PreCut
    <2>1. UNCHANGED <<frame, main, infer, post, q_infer, out>>
        BY <1>13 DEF PreCut, mainVars, queueVars, taskVars
    <2>2. MainLeft' = MainLeft /\ InferLeft' = InferLeft /\ PostLeft' = PostLeft /\ Tiles' = Tiles
        BY <2>1, <1>m, <1>i, <1>q DEF Tiles
    <2>3. PreLeft' < PreLeft /\ PreLeft' \in Int
        BY <1>13, <2>2, <1>n DEF PreCut, PreLeft
    <2> QED BY <2>2, <2>3, <1>wp
<1>14. CASE PreWait
    <2>1. UNCHANGED <<frame, main, infer, post, q_infer, out>>
        BY <1>14 DEF PreWait, Sleep, mainVars, queueVars, taskVars
    <2>2. MainLeft' = MainLeft /\ InferLeft' = InferLeft /\ PostLeft' = PostLeft /\ Tiles' = Tiles
        BY <2>1, <1>m, <1>i, <1>q DEF Tiles
    <2>3. CASE q_image = <<>>
        <3>1. PreLeft' < PreLeft /\ PreLeft' \in Int
            BY <1>14, <2>2, <2>3, <1>n DEF PreWait, PreLeft, taskVars
        <3> QED BY <2>2, <3>1, <1>wp
    <2>4. CASE q_image # <<>>
        <3>1. PreLeft' = PreLeft
            BY <1>14, <2>2, <2>4, <1>n DEF PreWait, PreLeft, taskVars
        <3>2. Awake' < Awake
            BY <1>14, <2>4 DEF PreWait, Sleep, Awake, One
        <3> QED BY <2>2, <3>1, <3>2, <1>z
    <2> QED BY <2>3, <2>4
<1>15. CASE PrePut
    <2>1. UNCHANGED <<frame, main, infer, post, q_infer, out>>
        BY <1>15 DEF PrePut, ImageSleepers, NotifyOne, mainVars, queueVars, taskVars
    <2>2. MainLeft' = MainLeft /\ InferLeft' = InferLeft /\ PostLeft' = PostLeft /\ Tiles' = Tiles
        BY <2>1, <1>m, <1>i, <1>q DEF Tiles
    <2>3. PreLeft' < PreLeft /\ PreLeft' \in Int
        BY <1>15, <2>2, <1>n DEF PrePut, PreLeft
    <2> QED BY <2>2, <2>3, <1>wp
<1>16. CASE PreDies
    <2>1. UNCHANGED <<frame, main, infer, post, q_infer, out>>
        BY <1>16 DEF PreDies, mainVars, queueVars, taskVars
    <2>2. MainLeft' = MainLeft /\ InferLeft' = InferLeft /\ PostLeft' = PostLeft /\ Tiles' = Tiles
        BY <2>1, <1>m, <1>i, <1>q DEF Tiles
    <2>3. PreLeft' < PreLeft /\ PreLeft' \in Int
        <3>1. /\ PreLeft \in {3 * (Tiles - cut) + 3, 3 * (Tiles - cut) + 2, 3 * (Tiles - cut) + 1}
              /\ PreLeft' = 0 /\ pre # "none"
            BY <1>16 DEF PreDies, PreLeft
        <3> QED BY <3>1, <1>n
    <2> QED BY <2>2, <2>3, <1>wp
<1>17. CASE InferCheck
    <2>1. UNCHANGED <<frame, main, pre, post, cut, q_infer, out>>
        BY <1>17 DEF InferCheck, mainVars, queueVars, taskVars
    <2>2. MainLeft' = MainLeft /\ PreLeft' = PreLeft /\ PostLeft' = PostLeft /\ Tiles' = Tiles
        BY <2>1, <1>m, <1>p, <1>q DEF Tiles
    <2>3. Sent' = Sent
        BY <2>1, <1>s
    <2>4. InferLeft' < InferLeft /\ InferLeft' \in Int
        <3>1. /\ InferLeft = 5 * (Tiles - Sent) + 5 /\ infer # "none"
              /\ InferLeft' \in {5 * (Tiles - Sent) + 4, 0}
            BY <1>17, <2>2, <2>3 DEF InferCheck, InferLeft
        <3> QED BY <3>1, <1>n
    <2> QED BY <2>2, <2>4, <1>wi
<1>18. CASE InferGet
    <2>1. UNCHANGED <<frame, main, pre, post, cut, q_infer, out>>
        BY <1>18 DEF InferGet, ImageSleepers, NotifyOne, mainVars, queueVars, taskVars
    <2>2. MainLeft' = MainLeft /\ PreLeft' = PreLeft /\ PostLeft' = PostLeft /\ Tiles' = Tiles
        BY <2>1, <1>m, <1>p, <1>q DEF Tiles
    <2>3. Sent' = Sent
        BY <2>1, <1>s
    <2>4. InferLeft' < InferLeft /\ InferLeft' \in Int
        BY <1>18, <2>2, <2>3, <1>n DEF InferGet, InferLeft
    <2> QED BY <2>2, <2>4, <1>wi
<1>19. CASE InferPredict
    <2>1. UNCHANGED <<frame, main, pre, post, cut, q_infer, out>>
        BY <1>19 DEF InferPredict, mainVars, queueVars, taskVars
    <2>2. MainLeft' = MainLeft /\ PreLeft' = PreLeft /\ PostLeft' = PostLeft /\ Tiles' = Tiles
        BY <2>1, <1>m, <1>p, <1>q DEF Tiles
    <2>3. Sent' = Sent
        BY <2>1, <1>s
    <2>4. InferLeft' < InferLeft /\ InferLeft' \in Int
        BY <1>19, <2>2, <2>3, <1>n DEF InferPredict, InferLeft
    <2> QED BY <2>2, <2>4, <1>wi
<1>20. CASE InferDies
    <2>1. UNCHANGED <<frame, main, pre, post, cut, q_infer, out>>
        BY <1>20 DEF InferDies, mainVars, queueVars, taskVars
    <2>2. MainLeft' = MainLeft /\ PreLeft' = PreLeft /\ PostLeft' = PostLeft /\ Tiles' = Tiles
        BY <2>1, <1>m, <1>p, <1>q DEF Tiles
    <2>3. Sent' = Sent
        BY <2>1, <1>s
    <2>4. InferLeft' < InferLeft /\ InferLeft' \in Int
        <3>1. /\ InferLeft \in {5 * (Tiles - Sent) + 5, 5 * (Tiles - Sent) + 3,
                                5 * (Tiles - Sent) + 1}
              /\ InferLeft' = 0 /\ infer # "none"
            BY <1>20 DEF InferDies, InferLeft
        <3> QED BY <3>1, <1>n
    <2> QED BY <2>2, <2>4, <1>wi
<1>21. CASE InferGetEmpty
    <2>1. UNCHANGED <<frame, main, pre, post, cut, q_infer, out>>
        BY <1>21 DEF InferGetEmpty, Sleep, mainVars, queueVars, taskVars
    <2>2. MainLeft' = MainLeft /\ PreLeft' = PreLeft /\ PostLeft' = PostLeft /\ Tiles' = Tiles
        BY <2>1, <1>m, <1>p, <1>q DEF Tiles
    <2>3. Sent' = Sent
        BY <2>1, <1>s
    <2>4. CASE "q_image" \in closed
        <3>1. InferLeft' < InferLeft /\ InferLeft' \in Int
            BY <1>21, <2>2, <2>3, <2>4, <1>n DEF InferGetEmpty, InferLeft
        <3> QED BY <2>2, <3>1, <1>wi
    <2>5. CASE ~("q_image" \in closed)
        <3>1. InferLeft' = InferLeft
            BY <1>21, <2>2, <2>3, <2>5, <1>n DEF InferGetEmpty, InferLeft
        <3>2. Awake' < Awake
            BY <1>21, <2>5 DEF InferGetEmpty, Sleep, Awake, One
        <3> QED BY <2>2, <3>1, <3>2, <1>z
    <2> QED BY <2>4, <2>5
<1>22. CASE InferAlloc
    <2>1. UNCHANGED <<frame, main, pre, post, cut, q_infer, out>>
        BY <1>22 DEF InferAlloc, Sleep, mainVars, queueVars, taskVars
    <2>2. MainLeft' = MainLeft /\ PreLeft' = PreLeft /\ PostLeft' = PostLeft /\ Tiles' = Tiles
        BY <2>1, <1>m, <1>p, <1>q DEF Tiles
    <2>3. Sent' = Sent
        BY <2>1, <1>s
    <2>4. CASE free > 0
        <3>1. InferLeft' < InferLeft /\ InferLeft' \in Int
            BY <1>22, <2>2, <2>3, <2>4, <1>n DEF InferAlloc, InferLeft
        <3> QED BY <2>2, <3>1, <1>wi
    <2>5. CASE ~(free > 0)
        <3>1. InferLeft' = InferLeft
            BY <1>22, <2>2, <2>3, <2>5, <1>n DEF InferAlloc, InferLeft
        <3>2. Awake' < Awake
            BY <1>22, <2>5 DEF InferAlloc, Sleep, Awake, One
        <3> QED BY <2>2, <3>1, <3>2, <1>z
    <2> QED BY <2>4, <2>5
<1>23. CASE InferSend
    <2>1. UNCHANGED <<frame, main, pre, post, cut, out>>
        BY <1>23 DEF InferSend, ResultSleepers, NotifyOne, mainVars, queueVars, taskVars
    <2>2. MainLeft' = MainLeft /\ PreLeft' = PreLeft /\ PostLeft' = PostLeft /\ Tiles' = Tiles
        BY <2>1, <1>m, <1>p, <1>q DEF Tiles
    <2>3. q_infer' = Append(q_infer, infer_tile) /\ infer = "send" /\ infer' = "check"
        BY <1>23 DEF InferSend
    <2>4. Len(q_infer') = Len(q_infer) + 1 /\ Len(q_infer) \in Nat
        BY <2>3, Appended DEF IInv, CountsOK
    <2>5. PostHolds' = PostHolds /\ PostHolds \in {0, 1}
        BY <2>1 DEF PostHolds
    <2>6. Sent' = Sent + 1
        BY <2>1, <2>4, <2>5, <1>n DEF Sent
    <2>7. InferLeft = 5 * (Tiles - Sent) + 1 /\ InferLeft' = 5 * (Tiles - (Sent + 1)) + 5
        BY <2>2, <2>3, <2>6 DEF InferLeft
    <2>8. InferLeft' \in Int /\ InferLeft' < InferLeft
        BY <2>7, <1>n
    <2> QED BY <2>2, <2>8, <1>wi
<1>24. CASE PostCheck
    <2>1. UNCHANGED <<frame, main, pre, infer, cut, q_infer, out>>
        BY <1>24 DEF PostCheck, mainVars, queueVars, taskVars
    <2>2. MainLeft' = MainLeft /\ PreLeft' = PreLeft /\ Tiles' = Tiles
        BY <2>1, <1>m, <1>p DEF Tiles
    <2>3. Sent' = Sent
        BY <1>24, <2>1 DEF PostCheck, Sent, PostHolds
    <2>4. InferLeft' = InferLeft
        BY <2>1, <2>2, <2>3 DEF InferLeft
    <2>5. PostLeft' < PostLeft /\ PostLeft' \in Int
        <3>1. /\ PostLeft = 3 * (Tiles - Len(out)) + 3 /\ post # "none"
              /\ PostLeft' \in {3 * (Tiles - Len(out)) + 2, 0}
            BY <1>24, <2>1, <2>2 DEF PostCheck, PostLeft
        <3> QED BY <3>1, <1>n
    <2> QED BY <2>2, <2>4, <2>5, <1>wq
<1>25. CASE PostDies
    <2>1. UNCHANGED <<frame, main, pre, infer, cut, q_infer, out>>
        BY <1>25 DEF PostDies, PoolSleepers, NotifyOne, mainVars, queueVars, taskVars
    <2>2. MainLeft' = MainLeft /\ PreLeft' = PreLeft /\ Tiles' = Tiles
        BY <2>1, <1>m, <1>p DEF Tiles
    <2>3. Sent' = Sent
        BY <1>25, <2>1 DEF PostDies, Sent, PostHolds
    <2>4. InferLeft' = InferLeft
        BY <2>1, <2>2, <2>3 DEF InferLeft
    <2>5. PostLeft' < PostLeft /\ PostLeft' \in Int
        BY <1>25, <2>1, <2>2, <1>n DEF PostDies, PostLeft
    <2> QED BY <2>2, <2>4, <2>5, <1>wq
<1>26. CASE PostGetEmpty
    <2>1. UNCHANGED <<frame, main, pre, infer, cut, q_infer, out>>
        BY <1>26 DEF PostGetEmpty, Sleep, mainVars, queueVars, taskVars
    <2>2. MainLeft' = MainLeft /\ PreLeft' = PreLeft /\ Tiles' = Tiles
        BY <2>1, <1>m, <1>p DEF Tiles
    <2>3. Sent' = Sent
        BY <1>26, <2>1 DEF PostGetEmpty, Sent, PostHolds
    <2>4. InferLeft' = InferLeft
        BY <2>1, <2>2, <2>3 DEF InferLeft
    <2>5. CASE "q_infer" \in closed
        <3>1. PostLeft' < PostLeft /\ PostLeft' \in Int
            BY <1>26, <2>1, <2>2, <2>5, <1>n DEF PostGetEmpty, PostLeft
        <3> QED BY <2>2, <2>4, <3>1, <1>wq
    <2>6. CASE "q_infer" \notin closed
        <3>1. PostLeft' = PostLeft
            BY <1>26, <2>1, <2>2, <2>6, <1>n DEF PostGetEmpty, PostLeft
        <3>2. Awake' < Awake
            BY <1>26, <2>6 DEF PostGetEmpty, Sleep, Awake, One
        <3> QED BY <2>2, <2>4, <3>1, <3>2, <1>z
    <2> QED BY <2>5, <2>6
<1>27. CASE PostGet
    <2>1. UNCHANGED <<frame, main, pre, infer, cut, out>>
        BY <1>27 DEF PostGet, ResultSleepers, NotifyOne, mainVars, queueVars, taskVars
    <2>2. MainLeft' = MainLeft /\ PreLeft' = PreLeft /\ Tiles' = Tiles
        BY <2>1, <1>m, <1>p DEF Tiles
    <2>3. Sent' = Sent
        <3>1. q_infer' = Tail(q_infer) /\ q_infer # <<>> /\ post = "get" /\ post' = "work"
            BY <1>27 DEF PostGet
        <3>2. Len(q_infer') = Len(q_infer) - 1 /\ Len(q_infer) \in Nat
            BY <3>1, Popped DEF IInv, CountsOK
        <3>3. PostHolds = 0 /\ PostHolds' = 1
            BY <3>1 DEF PostHolds
        <3> QED BY <2>1, <3>2, <3>3, <1>n DEF Sent
    <2>4. InferLeft' = InferLeft
        BY <2>1, <2>2, <2>3 DEF InferLeft
    <2>5. PostLeft' < PostLeft /\ PostLeft' \in Int
        BY <1>27, <2>1, <2>2, <1>n DEF PostGet, PostLeft
    <2> QED BY <2>2, <2>4, <2>5, <1>wq
<1>28. CASE PostWork
    <2>1. UNCHANGED <<frame, main, pre, infer, cut, q_infer>>
        BY <1>28 DEF PostWork, PoolSleepers, NotifyOne, mainVars, queueVars, taskVars
    <2>2. MainLeft' = MainLeft /\ PreLeft' = PreLeft /\ Tiles' = Tiles
        BY <2>1, <1>m, <1>p DEF Tiles
    <2>3. out' = Append(out, post_tile) /\ post = "work" /\ post' = "check"
        BY <1>28 DEF PostWork
    <2>4. Len(out') = Len(out) + 1
        BY <2>3, Appended DEF IInv, CountsOK
    <2>5. Sent' = Sent
        <3>1. PostHolds = 1 /\ PostHolds' = 0
            BY <2>3 DEF PostHolds
        <3>2. Len(q_infer) \in Nat
            BY DEF IInv, CountsOK
        <3> QED BY <2>1, <2>4, <3>1, <3>2, <1>n DEF Sent
    <2>6. InferLeft' = InferLeft
        BY <2>1, <2>2, <2>5 DEF InferLeft
    <2>7. PostLeft = 3 * (Tiles - Len(out)) + 1 /\ PostLeft' = 3 * (Tiles - (Len(out) + 1)) + 3
        BY <2>2, <2>3, <2>4 DEF PostLeft
    <2>8. PostLeft' \in Int /\ PostLeft' < PostLeft
        BY <2>7, <1>n
    <2> QED BY <2>2, <2>6, <2>8, <1>wq
<1> QED
    BY <1>a, <1>1, <1>2, <1>3, <1>4, <1>5, <1>6, <1>7, <1>8, <1>9, <1>10, <1>11,
       <1>12, <1>13, <1>14, <1>15, <1>16, <1>17, <1>18, <1>19, <1>20, <1>21,
       <1>22, <1>23, <1>24, <1>25, <1>26, <1>27, <1>28
    DEF Next, MainRuns, PreRuns, InferRuns, PostRuns

\* What the two theorems need, beside IInv, of every reachable state.
LEMMA CallInductive == Spec => [](IInv /\ HandsInv /\ ReachInv)
<1>1. Init => HandsInv /\ ReachInv
    <2> SUFFICES ASSUME Init PROVE HandsInv /\ ReachInv
        OBVIOUS
    <2>1. HandsInv
        BY DEF Init, HandsInv, InCall, Ended
    <2>2. /\ cut = 0 /\ q_image = <<>> /\ q_infer = <<>> /\ out = <<>>
          /\ pre = "none" /\ infer = "none" /\ post = "none"
        BY DEF Init
    <2>3. ReachInv
        BY <2>2, EmptySequence
        DEF ReachInv, Put, Sent, PreHolds, InferHolds, PostHolds
    <2> QED BY <2>1, <2>3
<1>2. ASSUME IInv, HandsInv, ReachInv, [Next]_vars
      PROVE  HandsInv' /\ ReachInv'
    <2>1. CASE Next
        BY <1>2, <2>1, HandsStep, ReachStep
    <2>2. CASE UNCHANGED vars
        <3>1. HandsInv'
            BY <1>2, <2>2 DEF HandsInv, InCall, vars, mainVars, queueVars, taskVars
        <3>2. ReachInv'
            BY <1>2, <2>2 DEF ReachInv, Put, Sent, PreHolds, InferHolds, PostHolds,
                vars, mainVars, queueVars, taskVars
        <3> QED BY <3>1, <3>2
    <2> QED BY <1>2, <2>1, <2>2
<1> QED BY <1>1, <1>2, Inductive, PTL DEF Spec

\* While a call runs that is not abandoned, the calling thread or a task can go
\* on: infer_gray8() never gets stuck between its queues, its pool and its joins.
THEOREM SomebodyRuns == Spec => []SomebodyCanRun
BY SomebodyOf, CallInductive, PTL

\* Every step of a running call of infer_gray8() takes a piece of what is left of
\* it, whatever fails: no call makes steps for ever.
THEOREM CallsRunOut == Spec => [][StepsRunOut]_vars
<1>1. IInv /\ HandsInv /\ ReachInv /\ [Next]_vars => [StepsRunOut]_vars
    BY LeftStep
<1> QED BY <1>1, CallInductive, PTL DEF Spec

=============================================================================
