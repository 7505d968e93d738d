----------------------------- MODULE GroundRun -----------------------------
(***************************************************************************)
(* A ground CDG0.0 run of the CLI: run_ground_cdg00_pipeline()             *)
(* (src/src/tool/pipeline.cpp) encodes the frames into a video file and    *)
(* hands the metadata of each to GroundCdg00Collector                      *)
(* (src/src/tool/image_process.cpp), which publishes video and metadata    *)
(* as a pair, before run() writes result.json.                             *)
(*                                                                         *)
(* The collector is called from a pad probe, on the streaming thread; the  *)
(* main thread polls the bus and the error the probe keeps.                *)
(*                                                                         *)
(* A frame is its number in the source's output; so is its metadata line,  *)
(* whose frame_id is its position in the file.                             *)
(***************************************************************************)
EXTENDS Integers, Sequences

CONSTANTS
    MaxFrames,    \* max_frames of the request or of the profile
    SourceFrames, \* bound: frames a source may produce before its EOS
    Attempts      \* bound: processes started in the work directory

ASSUME GroundAssumption ==
    /\ MaxFrames \in Nat \ {0}
    /\ SourceFrames \in Nat
    /\ Attempts \in Nat

VARIABLES
    main,         \* where the main thread stands
    verdict,      \* the exit code of the exception being unwound
    exit,         \* exit code of the last process
    attempt,      \* processes started so far
    late,         \* the deadline has passed
    probe,        \* the probe behind the metadata filter: installed, removed
    probe_count,  \* frames the probe let through
    probe_error,  \* the exit code of the exception the probe keeps
    consumed,     \* the collector's frame_count_
    source,       \* what the source's task does next
    sent,         \* frames pushed to the probe
    flow,         \* what the pushes of the source returned: ok, error
    bus,          \* messages posted and not popped yet
    dir,          \* video and metadata, final and partial
    doomed,       \* paths being removed
    total,        \* frame_count of the pipeline's result
    described,    \* contents whose digests publish() returned
    plan_json,    \* pipeline-plan.json exists
    result_json,  \* result.json
    before        \* history: dir when the process started

processVars == <<main, verdict, exit, attempt, late>>
probeVars == <<probe, probe_count, probe_error, consumed>>
sourceVars == <<source, sent, flow>>
dirVars == <<dir, doomed>>
reportVars == <<total, described, plan_json, result_json>>
vars == <<processVars, probeVars, sourceVars, bus, dirVars, reportVars, before>>

Partials == {"video.ogv.partial", "cdg00.jsonl.partial"}
Finals == {"video.ogv", "cdg00.jsonl"}
Paths == Partials \cup Finals

\* A video is complete once its muxer has seen EOS, a metadata file once its
\* stream is flushed and closed.
File(frames, complete) == [exists |-> TRUE, complete |-> complete, frames |-> frames]
Absent == [exists |-> FALSE, complete |-> FALSE, frames |-> <<>>]

ExitCodes == {"ok", "validation", "dependency", "no_result", "retryable", "fatal"}
NotDescribed == [video |-> <<>>, metadata |-> <<>>]
NoResult == [exists |-> FALSE, frame_count |-> 0, named |-> NotDescribed]

Init ==
    /\ main = "down"
    /\ verdict = "ok"
    /\ exit = "none"
    /\ attempt = 0
    /\ late = FALSE
    /\ probe = "removed"
    /\ probe_count = 0
    /\ probe_error = "ok"
    /\ consumed = 0
    /\ source = "idle"
    /\ sent = 0
    /\ flow = "ok"
    /\ bus = <<>>
    /\ dir = [p \in Paths |-> Absent]
    /\ doomed = {}
    /\ total = 0
    /\ described = NotDescribed
    /\ plan_json = FALSE
    /\ result_json = NoResult
    /\ before = dir

Exit(code) == main' = "down" /\ exit' = code
Throw(code) == main' = "unwinding" /\ verdict' = code

\* Bug: the collector forgets the video, which it did not open itself.
DiscardMetadata(code) ==
    /\ main' = "discarding"
    /\ verdict' = code
    /\ doomed' = {"cdg00.jsonl.partial"}

\* The collector is destroyed before it has published: its partials go.
Discard(code) ==
    /\ main' = "discarding"
    /\ verdict' = code
    /\ doomed' = Partials
-----------------------------------------------------------------------------
(* run(), up to the pipeline *)

\* Bug: only what an interrupted process leaves is looked for.
OutputExistsPartialsOnly == \E p \in Partials : dir[p].exists

\* The paths run() looks for; no run writes the .mp4 ones.
OutputExists ==
    \/ \E p \in Paths : dir[p].exists
    \/ plan_json
    \/ result_json.exists

RefuseExisting ==
    /\ main = "down"
    /\ attempt < Attempts
    /\ OutputExists
    /\ attempt' = attempt + 1
    /\ exit' = "validation"
    /\ before' = dir
    /\ UNCHANGED <<main, verdict, late, probeVars, sourceVars, bus, dirVars, reportVars>>

\* Preflight or the input's digest fails, or the collector cannot open its file.
RefuseUnprepared ==
    /\ main = "down"
    /\ attempt < Attempts
    /\ attempt' = attempt + 1
    /\ exit' \in {"validation", "dependency", "fatal"}
    /\ before' = dir
    /\ UNCHANGED <<main, verdict, late, probeVars, sourceVars, bus, dirVars, reportVars>>

\* A new process: a new probe context, and a collector that truncates its file.
Begin ==
    /\ main = "down"
    /\ attempt < Attempts
    /\ ~OutputExists
    /\ attempt' = attempt + 1
    /\ main' = "launch"
    /\ exit' = "none"
    /\ verdict' = "ok"
    /\ late' = FALSE
    /\ probe' = "installed"
    /\ probe_count' = 0
    /\ probe_error' = "ok"
    /\ consumed' = 0
    /\ source' = "idle"
    /\ sent' = 0
    /\ flow' = "ok"
    /\ bus' = <<>>
    /\ dir' = [dir EXCEPT !["cdg00.jsonl.partial"] = File(<<>>, FALSE)]
    /\ total' = 0
    /\ described' = NotDescribed
    /\ before' = dir
    /\ UNCHANGED <<doomed, plan_json, result_json>>

\* filesink creates the video when it starts.
VideoOpened == [dir EXCEPT !["video.ogv.partial"] = File(<<>>, FALSE)]

LaunchOk ==
    /\ main = "launch"
    /\ dir' = VideoOpened
    /\ main' = "polling"
    /\ source' = "pushing"
    /\ UNCHANGED <<verdict, exit, attempt, late, probeVars, sent, flow, bus, doomed,
                   reportVars, before>>

\* An element, a property or a link is refused, or an element does not start.
LaunchFails ==
    /\ main = "launch"
    /\ dir' \in {dir, VideoOpened}
    /\ \E code \in {"validation", "dependency", "retryable"} : Throw(code)
    /\ UNCHANGED <<exit, attempt, late, probeVars, sourceVars, bus, doomed,
                   reportVars, before>>
-----------------------------------------------------------------------------
(* The streaming thread *)

Streaming == main \in {"polling", "unwinding", "draining", "closing"}

Arrives ==
    /\ Streaming
    /\ source = "pushing"
    /\ sent < SourceFrames
    /\ sent' = sent + 1

Encode == [dir["video.ogv.partial"] EXCEPT !.frames = Append(@, sent)]
Consume == [dir["cdg00.jsonl.partial"] EXCEPT !.frames = Append(@, sent)]

\* Bug: one frame more than the limit passes.
BelowLimitOrAt == probe_count <= MaxFrames

BelowLimit == probe_count < MaxFrames

\* The collector checks that the frames are numbered without a gap.
FrameCollected ==
    /\ Arrives
    /\ probe = "installed"
    /\ probe_error = "ok"
    /\ BelowLimit
    /\ probe_count = consumed
    /\ dir' = [dir EXCEPT !["cdg00.jsonl.partial"] = Consume,
                          !["video.ogv.partial"] = Encode]
    /\ probe_count' = probe_count + 1
    /\ consumed' = consumed + 1
    /\ UNCHANGED <<processVars, probe, probe_error, source, flow, bus, doomed,
                   reportVars, before>>

\* The probe lets the frame through; encoder, muxer or filesink fail on it.
EncoderFails ==
    /\ Arrives
    /\ probe = "installed"
    /\ probe_error = "ok"
    /\ BelowLimit
    /\ probe_count = consumed
    /\ dir' = [dir EXCEPT !["cdg00.jsonl.partial"] = Consume]
    /\ probe_count' = probe_count + 1
    /\ consumed' = consumed + 1
    /\ bus' \in {bus, Append(bus, "error")}
    /\ source' = "failing"
    /\ flow' = "error"
    /\ UNCHANGED <<processVars, probe, probe_error, doomed, reportVars, before>>

\* Bug: the frame above the limit is dropped and no error is kept.
FrameAboveLimitSilently ==
    /\ Arrives
    /\ probe = "installed"
    /\ probe_error = "ok"
    /\ ~BelowLimit
    /\ UNCHANGED <<processVars, probeVars, source, flow, bus, dirVars,
                   reportVars, before>>

\* The source sees a successful push; the error waits for the main thread.
FrameAboveLimit ==
    /\ Arrives
    /\ probe = "installed"
    /\ probe_error = "ok"
    /\ ~BelowLimit
    /\ probe_error' = "retryable"
    /\ UNCHANGED <<processVars, probe, probe_count, consumed, source, flow, bus,
                   dirVars, reportVars, before>>

\* The metadata is missing, breaks the collector's contract, or cannot be
\* written.
FrameRejected ==
    /\ Arrives
    /\ probe = "installed"
    /\ probe_error = "ok"
    /\ BelowLimit
    /\ probe_error' \in {"dependency", "fatal"}
    /\ UNCHANGED <<processVars, probe, probe_count, consumed, source, flow, bus,
                   dirVars, reportVars, before>>

\* Once it keeps an error the probe drops every frame.
FrameDropped ==
    /\ Arrives
    /\ probe = "installed"
    /\ probe_error # "ok"
    /\ UNCHANGED <<processVars, probeVars, source, flow, bus, dirVars,
                   reportVars, before>>

\* cleanup() has removed the probe: the frame is encoded without metadata.
FrameUnseen ==
    /\ Arrives
    /\ probe = "removed"
    /\ dir' = [dir EXCEPT !["video.ogv.partial"] = Encode]
    /\ UNCHANGED <<processVars, probeVars, source, flow, bus, doomed,
                   reportVars, before>>

UpstreamFails ==
    /\ Streaming
    /\ source = "pushing"
    /\ bus' \in {bus, Append(bus, "error")}
    /\ source' = "failing"
    /\ flow' = "error"
    /\ UNCHANGED <<processVars, probeVars, sent, dirVars, reportVars, before>>

\* After a flow error basesrc posts an error of its own and then pushes EOS.
SourceReportsError ==
    /\ Streaming
    /\ source = "failing"
    /\ bus' = Append(bus, "error")
    /\ source' = "eos"
    /\ UNCHANGED <<processVars, probeVars, sent, flow, dirVars, reportVars, before>>

SourceEnds ==
    /\ Streaming
    /\ source = "pushing"
    /\ source' = "eos"
    /\ UNCHANGED <<processVars, probeVars, sent, flow, bus, dirVars,
                   reportVars, before>>

\* The muxer finishes the video, and filesink posts EOS behind its last byte.
EosArrives ==
    /\ Streaming
    /\ source = "eos"
    /\ source' = "ended"
    /\ dir' = [dir EXCEPT !["video.ogv.partial"].complete = TRUE]
    /\ bus' = Append(bus, "eos")
    /\ UNCHANGED <<processVars, probeVars, sent, flow, doomed, reportVars, before>>

\* The last bytes cannot be written.
EosFails ==
    /\ Streaming
    /\ source = "eos"
    /\ source' = "ended"
    /\ bus' = Append(bus, "error")
    /\ UNCHANGED <<processVars, probeVars, sent, flow, dirVars, reportVars, before>>

Stream ==
    \/ FrameCollected \/ EncoderFails
    \/ FrameAboveLimit \/ FrameRejected \/ FrameDropped \/ FrameUnseen
    \/ UpstreamFails \/ SourceReportsError
    \/ SourceEnds \/ EosArrives \/ EosFails
-----------------------------------------------------------------------------
(* The main thread: the polling loop *)

Message == IF bus = <<>> THEN "none" ELSE Head(bus)

Pop ==
    /\ main = "polling"
    /\ bus' = IF bus = <<>> THEN bus ELSE Tail(bus)

\* rethrow_probe_error() comes before the popped message is looked at.
PollProbeError ==
    /\ Pop
    /\ probe_error # "ok"
    /\ Throw(probe_error)
    /\ UNCHANGED <<exit, attempt, late, probeVars, sourceVars, dirVars,
                   reportVars, before>>

PollErrorMessage ==
    /\ Pop
    /\ probe_error = "ok"
    /\ Message = "error"
    /\ Throw("retryable")
    /\ UNCHANGED <<exit, attempt, late, probeVars, sourceVars, dirVars,
                   reportVars, before>>

\* Bug: done is not set.
PollEosForgotten ==
    /\ Pop
    /\ probe_error = "ok"
    /\ Message = "eos"
    /\ ~late
    /\ UNCHANGED <<processVars, probeVars, sourceVars, dirVars, reportVars, before>>

PollEos ==
    /\ Pop
    /\ probe_error = "ok"
    /\ Message = "eos"
    /\ ~late
    /\ main' = "draining"
    /\ UNCHANGED <<verdict, exit, attempt, late, probeVars, sourceVars, dirVars,
                   reportVars, before>>

\* The deadline is looked at last, also in the iteration that popped EOS.
PollTimeout ==
    /\ Pop
    /\ probe_error = "ok"
    /\ Message \in {"none", "eos"}
    /\ late
    /\ Throw("retryable")
    /\ UNCHANGED <<exit, attempt, late, probeVars, sourceVars, dirVars,
                   reportVars, before>>

DeadlinePasses ==
    /\ main = "polling"
    /\ ~late
    /\ late' = TRUE
    /\ UNCHANGED <<main, verdict, exit, attempt, probeVars, sourceVars, bus, dirVars,
                   reportVars, before>>
-----------------------------------------------------------------------------
(* After the loop; cleanup() *)

Drain ==
    /\ main = "draining"
    /\ probe_error = "ok"
    /\ total' = probe_count
    /\ main' = "closing"
    /\ UNCHANGED <<verdict, exit, attempt, late, probeVars, sourceVars, bus, dirVars,
                   described, plan_json, result_json, before>>

\* The second rethrow_probe_error(), or runtime_contract_provenance().
DrainFails ==
    /\ main = "draining"
    /\ Throw(IF probe_error # "ok" THEN probe_error ELSE "dependency")
    /\ UNCHANGED <<exit, attempt, late, probeVars, sourceVars, bus, dirVars,
                   reportVars, before>>

RemoveProbe ==
    /\ main \in {"unwinding", "closing"}
    /\ probe = "installed"
    /\ probe' = "removed"
    /\ UNCHANGED <<processVars, probe_count, probe_error, consumed, sourceVars, bus,
                   dirVars, reportVars, before>>

\* The streaming thread is joined.  An exception goes on to the collector.
SetNull ==
    /\ main \in {"unwinding", "closing"}
    /\ probe = "removed"
    /\ source' = "ended"
    /\ IF main = "unwinding"
       THEN Discard(verdict)
       ELSE main' = "verifying" /\ UNCHANGED <<verdict, doomed>>
    /\ UNCHANGED <<exit, attempt, late, probeVars, sent, flow, bus, dir,
                   reportVars, before>>
-----------------------------------------------------------------------------
(* run(), after the pipeline; GroundCdg00Collector::publish() *)

\* Both counts agree and the metadata is flushed.
Verify ==
    /\ main = "verifying"
    /\ total > 0
    /\ total = consumed
    /\ dir' = [dir EXCEPT !["cdg00.jsonl.partial"].complete = TRUE]
    /\ main' = "renaming metadata"
    /\ UNCHANGED <<verdict, exit, attempt, late, probeVars, sourceVars, bus, doomed,
                   reportVars, before>>

\* No frames; counts that differ; or the metadata cannot be flushed.
VerifyFails ==
    /\ main = "verifying"
    /\ \/ total = 0 /\ Discard("no_result")
       \/ total > 0 /\ Discard("fatal")
    /\ UNCHANGED <<exit, attempt, late, probeVars, sourceVars, bus, dir,
                   reportVars, before>>

Renamed(partial, final) == [dir EXCEPT ![partial] = Absent, ![final] = dir[partial]]

\* Bug: the result of rename() is ignored.
PublishMetadataUnchecked ==
    /\ main = "renaming metadata"
    /\ dir' \in {dir, Renamed("cdg00.jsonl.partial", "cdg00.jsonl")}
    /\ main' = "renaming video"
    /\ UNCHANGED <<verdict, exit, attempt, late, probeVars, sourceVars, bus, doomed,
                   reportVars, before>>

PublishMetadata ==
    /\ main = "renaming metadata"
    /\ dir' = Renamed("cdg00.jsonl.partial", "cdg00.jsonl")
    /\ main' = "renaming video"
    /\ UNCHANGED <<verdict, exit, attempt, late, probeVars, sourceVars, bus, doomed,
                   reportVars, before>>

PublishVideo ==
    /\ main = "renaming video"
    /\ dir' = Renamed("video.ogv.partial", "video.ogv")
    /\ main' = "describing"
    /\ UNCHANGED <<verdict, exit, attempt, late, probeVars, sourceVars, bus, doomed,
                   reportVars, before>>

\* Bug: only the partials are removed when the second rename fails.
WithdrawPartials ==
    /\ main \in {"renaming metadata", "renaming video"}
    /\ Discard("fatal")
    /\ UNCHANGED <<exit, attempt, late, probeVars, sourceVars, bus, dir,
                   reportVars, before>>

\* An fsync or a rename fails: all four paths go.
Withdraw ==
    /\ main \in {"renaming metadata", "renaming video"}
    /\ main' = "discarding"
    /\ verdict' = "fatal"
    /\ doomed' = Paths
    /\ UNCHANGED <<exit, attempt, late, probeVars, sourceVars, bus, dir,
                   reportVars, before>>

\* Files are removed one by one; the order does not matter to anybody.
Remove ==
    /\ main = "discarding"
    /\ \E p \in doomed :
        /\ dir' = [dir EXCEPT ![p] = Absent]
        /\ doomed' = doomed \ {p}
    /\ UNCHANGED <<processVars, probeVars, sourceVars, bus, reportVars, before>>

Discarded ==
    /\ main = "discarding"
    /\ doomed = {}
    /\ Exit(verdict)
    /\ UNCHANGED <<verdict, attempt, late, probeVars, sourceVars, bus, dirVars,
                   reportVars, before>>

\* The digests of the two files.
Describe ==
    /\ main = "describing"
    /\ described' = [video |-> dir["video.ogv"].frames,
                     metadata |-> dir["cdg00.jsonl"].frames]
    /\ main' = "planning"
    /\ UNCHANGED <<verdict, exit, attempt, late, probeVars, sourceVars, bus, dirVars,
                   total, plan_json, result_json, before>>

WritePlan ==
    /\ main = "planning"
    /\ plan_json' = TRUE
    /\ main' = "resulting"
    /\ UNCHANGED <<verdict, exit, attempt, late, probeVars, sourceVars, bus, dirVars,
                   total, described, result_json, before>>

WriteResult ==
    /\ main = "resulting"
    /\ result_json' = [exists |-> TRUE, frame_count |-> total, named |-> described]
    /\ main' = "reporting"
    /\ UNCHANGED <<verdict, exit, attempt, late, probeVars, sourceVars, bus, dirVars,
                   total, described, plan_json, before>>

\* A file cannot be read or written; the collector has published and keeps it.
ReportFails ==
    /\ main \in {"describing", "planning", "resulting"}
    /\ Exit("fatal")
    /\ UNCHANGED <<verdict, attempt, late, probeVars, sourceVars, bus, dirVars,
                   reportVars, before>>

Report ==
    /\ main = "reporting"
    /\ Exit("ok")
    /\ UNCHANGED <<verdict, attempt, late, probeVars, sourceVars, bus, dirVars,
                   reportVars, before>>

Kill ==
    /\ main # "down"
    /\ Exit("killed")
    /\ doomed' = {}
    /\ UNCHANGED <<verdict, attempt, late, probeVars, sourceVars, bus, dir,
                   reportVars, before>>
-----------------------------------------------------------------------------
Poll == PollProbeError \/ PollErrorMessage \/ PollEos \/ PollTimeout

Publish == PublishMetadata \/ PublishVideo \/ Withdraw \/ Remove \/ Discarded

Main ==
    \/ LaunchOk \/ LaunchFails
    \/ Poll
    \/ Drain \/ DrainFails \/ RemoveProbe \/ SetNull
    \/ Verify \/ VerifyFails
    \/ Publish
    \/ Describe \/ WritePlan \/ WriteResult \/ ReportFails \/ Report

Next ==
    \/ RefuseExisting \/ RefuseUnprepared \/ Begin
    \/ Stream
    \/ Main
    \/ DeadlinePasses
    \/ Kill

Spec == Init /\ [][Next]_vars

\* Both threads keep running; nothing forces a kill, a retry or a timeout.
FairSpec == Spec /\ WF_vars(Stream) /\ WF_vars(Main)
-----------------------------------------------------------------------------
(* Properties *)

Stages == {"down", "launch", "polling", "unwinding", "draining", "closing",
           "verifying", "renaming metadata", "renaming video", "discarding",
           "describing", "planning", "resulting", "reporting"}
Files == [exists: BOOLEAN, complete: BOOLEAN, frames: Seq(Nat)]
Named == [video: Seq(Nat), metadata: Seq(Nat)]

\* The types, and the limit the code puts on the metadata it writes.
TypeOK ==
    /\ main \in Stages
    /\ verdict \in ExitCodes
    /\ exit \in ExitCodes \cup {"none", "killed"}
    /\ attempt \in Nat
    /\ late \in BOOLEAN
    /\ probe \in {"installed", "removed"}
    /\ probe_count \in Nat /\ probe_count <= MaxFrames
    /\ probe_error \in ExitCodes
    /\ consumed \in Nat
    /\ source \in {"idle", "pushing", "failing", "eos", "ended"}
    /\ sent \in Nat
    /\ flow \in {"ok", "error"}
    /\ bus \in Seq({"eos", "error"})
    /\ dir \in [Paths -> Files]
    /\ doomed \in SUBSET Paths
    /\ total \in Nat
    /\ described \in Named
    /\ plan_json \in BOOLEAN
    /\ result_json \in [exists: BOOLEAN, frame_count: Nat, named: Named]
    /\ before \in [Paths -> Files]

\* A file about the first n frames of the source, one after the other.
Whole(file, n) ==
    /\ file.exists
    /\ file.complete
    /\ Len(file.frames) = n
    /\ \A i \in 1 .. n : file.frames[i] = i - 1

\* Whoever finds video.ogv finds the whole metadata of its frames beside it,
\* also after a kill between the two renames: the metadata is renamed first,
\* and a video that misses its end never gets its final name.
VideoHasMetadata ==
    dir["video.ogv"].exists =>
        /\ Whole(dir["video.ogv"], Len(dir["video.ogv"].frames))
        /\ Whole(dir["cdg00.jsonl"], Len(dir["video.ogv"].frames))

\* A process that is not killed leaves the four files as it found them, or a
\* published pair without partials, and the latter only with exit code 0 or
\* FATAL: neither an error in the pipeline nor a rename that fails half way
\* leaves anything (scripts/host-cdg00-test.sh:93 tests two such errors).
EveryExitSettles ==
    main = "down" /\ exit \in ExitCodes =>
        \/ dir = before
        \/ /\ exit \in {"ok", "fatal"}
           /\ \A p \in Paths : dir[p].exists <=> p \in Finals

\* configs/plugins/image-process.json:19, "retryable": true: in this mode a
\* process that ends with the RETRYABLE exit code can be run again in its work
\* directory (in product_text mode it cannot).
RetryableCanBeRetried ==
    exit = "retryable" => ~OutputExists

\* Exit code 0 means that every frame the source pushed is in the product.
OkMeansEveryFrame ==
    exit = "ok" =>
        /\ flow = "ok" /\ probe_error = "ok"
        /\ result_json.exists
        /\ result_json.frame_count = sent

\* Every process ends by itself, also when the deadline never passes.
EveryAttemptEnds == main # "down" ~> main = "down"

\* What a reader of result.json finds in the work directory.
Visible ==
    IF result_json.exists
    THEN [exists |-> TRUE,
          frame_count |-> result_json.frame_count,
          video |-> dir["video.ogv"],
          metadata |-> dir["cdg00.jsonl"],
          named |-> result_json.named]
    ELSE [exists |-> FALSE]

\* Both files are whole, of frame_count frames, and the result names them.
CompleteVideo(d) ==
    /\ d.exists
    /\ d.frame_count > 0
    /\ Whole(d.video, d.frame_count)
    /\ Whole(d.metadata, d.frame_count)
    /\ d.named = [video |-> d.video.frames, metadata |-> d.metadata.frames]

D == INSTANCE Delivery WITH delivered <- Visible, Complete <- CompleteVideo

\* The run implements Delivery: through kills, failures and retries in one
\* work directory, result.json appears once, over a whole video with its whole
\* metadata, and neither it nor the files change again.
DeliveryImplemented == D!Spec
-----------------------------------------------------------------------------
(* Inductive invariant *)

Published == {"describing", "planning", "resulting", "reporting"}
Closed == {"closing", "verifying", "renaming metadata", "renaming video"} \cup Published
Completed == {"draining"} \cup Closed

VideoPartial == dir["video.ogv.partial"]
MetadataPartial == dir["cdg00.jsonl.partial"]

Consecutive(frames, n) ==
    /\ Len(frames) = n
    /\ \A i \in 1 .. n : frames[i] = i - 1

\* The first message of a run that went wrong is an error; a run that goes
\* well posts nothing before the video is complete.
BusInv ==
    /\ main = "launch" => source = "idle" /\ bus = <<>>
    /\ source \in {"idle", "pushing"} => flow = "ok"
    /\ source = "failing" => flow = "error"
    /\ main = "polling" /\ flow = "ok" =>
        IF source # "ended" THEN bus = <<>>
        ELSE bus = <<"error">> \/ (bus = <<"eos">> /\ VideoPartial.complete)
    /\ main = "polling" /\ flow = "error" =>
        IF bus = <<>> THEN source = "failing" ELSE Head(bus) = "error"
    /\ main \in Completed => source = "ended" /\ flow = "ok"

\* What the source, the probe and the collector agree on.
CountInv ==
    /\ probe_count = consumed
    /\ main \in {"launch", "polling", "draining"} => probe = "installed"
    /\ main = "launch" => sent = 0 /\ probe_error = "ok"
    /\ probe = "installed" /\ probe_error = "ok" => probe_count = sent
    /\ main \in Closed => probe_error = "ok" /\ total = sent /\ probe_count = sent
    /\ main \in Closed \ {"closing", "verifying"} => total > 0

\* What the files hold while they are written and once they are published.
ContentInv ==
    /\ main = "launch" => MetadataPartial = File(<<>>, FALSE)
    /\ main \in {"polling", "draining", "closing", "verifying"} =>
        /\ MetadataPartial.exists /\ VideoPartial.exists
        /\ Consecutive(MetadataPartial.frames, probe_count)
        /\ flow = "ok" /\ probe_error = "ok" => Consecutive(VideoPartial.frames, sent)
    /\ main \in {"draining", "closing", "verifying"} => VideoPartial.complete
    /\ main = "renaming metadata" => Whole(MetadataPartial, sent)
    /\ main \in {"renaming metadata", "renaming video"} => Whole(VideoPartial, sent)
    /\ main = "renaming video" =>
        Whole(dir["cdg00.jsonl"], sent) /\ MetadataPartial = Absent
    /\ main \in Published =>
        /\ Whole(dir["cdg00.jsonl"], sent) /\ Whole(dir["video.ogv"], sent)
        /\ \A p \in Partials : dir[p] = Absent
    /\ main \in Published \ {"describing"} =>
        described = [video |-> dir["video.ogv"].frames,
                     metadata |-> dir["cdg00.jsonl"].frames]

\* A file that does not exist is empty, and nothing is written to it.
PresenceInv ==
    /\ \A p \in Paths : dir[p].exists \/ dir[p] = Absent
    /\ main = "unwinding" =>
        MetadataPartial.exists /\ (source # "idle" => VideoPartial.exists)

\* What may exist at each stage.
DirInv ==
    /\ main # "down" => exit = "none" /\ \A p \in Paths : before[p] = Absent
    /\ main # "discarding" => doomed = {}
    /\ main = "discarding" => \A p \in Paths \ doomed : dir[p] = Absent
    /\ main \notin Published \cup {"down"} => dir["video.ogv"] = Absent
    /\ main \notin Published \cup {"down", "renaming video", "discarding"} =>
        dir["cdg00.jsonl"] = Absent
    /\ main \in {"unwinding", "discarding"} => verdict # "ok"
    /\ probe_error # "no_result"

PlanInv == main \notin {"down", "resulting", "reporting"} => ~plan_json

ResultInv ==
    /\ main \notin {"down", "reporting"} => ~result_json.exists
    /\ main = "reporting" => result_json.exists
    /\ result_json.exists =>
        /\ CompleteVideo(Visible)
        /\ flow = "ok" /\ probe_error = "ok"
        /\ result_json.frame_count = sent

IInv ==
    /\ TypeOK
    /\ BusInv
    /\ CountInv
    /\ ContentInv
    /\ PresenceInv
    /\ DirInv
    /\ PlanInv
    /\ ResultInv
    /\ VideoHasMetadata
    /\ EveryExitSettles
    /\ RetryableCanBeRetried
    /\ OkMeansEveryFrame
=============================================================================
