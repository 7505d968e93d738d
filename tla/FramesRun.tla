----------------------------- MODULE FramesRun -----------------------------
(***************************************************************************)
(* A default run of the CLI: run_pipeline() (src/src/tool/pipeline.cpp)    *)
(* pulls samples from an appsink, run() (src/src/tool/image_process.cpp)   *)
(* collects the frames, and write_product() (src/src/tool/artifact.cpp)    *)
(* bundles them in product.bin, before result.json names the bundle.       *)
(*                                                                         *)
(* The streaming thread and the main thread share the appsink's queue and  *)
(* the bus.  Nothing is checked for existing outputs in this mode: each    *)
(* attempt in a work directory replaces the files of the one before.       *)
(*                                                                         *)
(* A frame is its number in the source's output.                           *)
(***************************************************************************)
EXTENDS Integers, Sequences

CONSTANTS
    MaxFrames,    \* max_frames of the request or of the profile
    SourceFrames, \* bound: frames a source may produce before its EOS
    Attempts      \* bound: processes started in the work directory

ASSUME FramesAssumption ==
    /\ MaxFrames \in Nat \ {0}
    /\ SourceFrames \in Nat
    /\ Attempts \in Nat

VARIABLES
    main,            \* where the main thread stands
    verdict,         \* the exit code of the exception being unwound
    exit,            \* exit code of the last process
    attempt,         \* processes started so far
    late,            \* the deadline has passed
    source,          \* what the source's task does next
    sent,            \* frames handed to the appsink
    flow_ok,         \* no flow error has reached the source
    queue,           \* samples in the appsink
    bus,             \* messages posted and not popped yet
    frames,          \* what the consumer has collected
    product_partial, \* product.bin.partial
    product,         \* product.bin
    digest,          \* the digest write_product() returned
    plan_json,       \* pipeline-plan.json exists
    result_json,     \* result.json
    before           \* history: product.bin and result.json at the start

processVars == <<main, verdict, exit, attempt, late>>
sourceVars == <<source, sent, flow_ok>>
channelVars == <<queue, bus>>
bundleVars == <<product_partial, product, digest>>
jsonVars == <<plan_json, result_json>>
vars == <<processVars, sourceVars, channelVars, frames, bundleVars, jsonVars, before>>

max_buffers == 2

\* The manifest of a bundle names the request and the number of frames; the
\* digest of a bundle identifies its content, so it is the bundle itself.
Bundle(n, count, members) == [attempt |-> n, frame_count |-> count, frames |-> members]
NoBundle == Bundle(0, 0, <<>>)
NoResult == [attempt |-> 0, frame_count |-> 0, named |-> NoBundle]

Messages == {"eos", "error"}
ExitCodes == {"ok", "validation", "dependency", "no_result", "retryable", "fatal"}

Init ==
    /\ main = "down"
    /\ verdict = "ok"
    /\ exit = "none"
    /\ attempt = 0
    /\ late = FALSE
    /\ source = "idle"
    /\ sent = 0
    /\ flow_ok = TRUE
    /\ queue = <<>>
    /\ bus = <<>>
    /\ frames = <<>>
    /\ product_partial = NoBundle
    /\ product = NoBundle
    /\ digest = NoBundle
    /\ plan_json = FALSE
    /\ result_json = NoResult
    /\ before = <<NoBundle, NoResult>>

Exit(code) == main' = "down" /\ exit' = code
Throw(code) == main' = "unwinding" /\ verdict' = code
-----------------------------------------------------------------------------
(* run() up to the pipeline, and the change to PLAYING *)

\* The request is invalid, a factory is missing, or the input does not match.
Refuse ==
    /\ main = "down"
    /\ attempt < Attempts
    /\ attempt' = attempt + 1
    /\ exit' \in {"validation", "dependency", "fatal"}
    /\ before' = <<product, result_json>>
    /\ UNCHANGED <<main, verdict, late, sourceVars, channelVars, frames, bundleVars, jsonVars>>

Begin ==
    /\ main = "down"
    /\ attempt < Attempts
    /\ attempt' = attempt + 1
    /\ main' = "launch"
    /\ exit' = "none"
    /\ verdict' = "ok"
    /\ late' = FALSE
    /\ source' = "idle"
    /\ sent' = 0
    /\ flow_ok' = TRUE
    /\ queue' = <<>>
    /\ bus' = <<>>
    /\ frames' = <<>>
    /\ digest' = NoBundle
    /\ before' = <<product, result_json>>
    /\ UNCHANGED <<product_partial, product, jsonVars>>

LaunchOk ==
    /\ main = "launch"
    /\ main' = "pulling"
    /\ source' = "pushing"
    /\ UNCHANGED <<verdict, exit, attempt, late, sent, flow_ok, channelVars, frames,
                   bundleVars, jsonVars, before>>

\* A property or link is refused, or an element does not start.
LaunchFails ==
    /\ main = "launch"
    /\ \E code \in {"validation", "dependency", "retryable"} : Throw(code)
    /\ UNCHANGED <<exit, attempt, late, sourceVars, channelVars, frames,
                   bundleVars, jsonVars, before>>
-----------------------------------------------------------------------------
(* The streaming thread *)

Streaming == main \in {"pulling", "checking", "unwinding", "finishing"}

\* The appsink blocks the streaming thread while its queue is full.
PushFrame ==
    /\ Streaming
    /\ source = "pushing"
    /\ sent < SourceFrames
    /\ Len(queue) < max_buffers
    /\ queue' = Append(queue, sent)
    /\ sent' = sent + 1
    /\ UNCHANGED <<processVars, source, flow_ok, bus, frames, bundleVars, jsonVars, before>>

\* create() or the filter fails, most often after posting an error.
UpstreamFails ==
    /\ Streaming
    /\ source = "pushing"
    /\ source' = "failing"
    /\ flow_ok' = FALSE
    /\ bus' \in {bus, Append(bus, "error")}
    /\ UNCHANGED <<processVars, sent, queue, frames, bundleVars, jsonVars, before>>

\* After a flow error basesrc posts an error of its own and then pushes EOS.
SourceReportsError ==
    /\ Streaming
    /\ source = "failing"
    /\ source' = "eos"
    /\ bus' = Append(bus, "error")
    /\ UNCHANGED <<processVars, sent, flow_ok, queue, frames, bundleVars, jsonVars, before>>

SourceEnds ==
    /\ Streaming
    /\ source = "pushing"
    /\ source' = "eos"
    /\ UNCHANGED <<processVars, sent, flow_ok, channelVars, frames, bundleVars,
                   jsonVars, before>>

\* wait_on_eos is FALSE: EOS is posted though samples are still queued.
EosArrives ==
    /\ Streaming
    /\ source = "eos"
    /\ source' = "ended"
    /\ bus' = Append(bus, "eos")
    /\ UNCHANGED <<processVars, sent, flow_ok, queue, frames, bundleVars, jsonVars, before>>

Stream == PushFrame \/ UpstreamFails \/ SourceReportsError \/ SourceEnds \/ EosArrives
-----------------------------------------------------------------------------
(* The main thread: try_pull_sample *)

SampleReady ==
    /\ main = "pulling"
    /\ queue # <<>>
    /\ queue' = Tail(queue)

\* Bug: one frame more than the limit is accepted.
BelowLimitOrAt == Len(frames) <= MaxFrames

BelowLimit == Len(frames) < MaxFrames

PullFrame ==
    /\ SampleReady
    /\ BelowLimit
    /\ frames' = Append(frames, Head(queue))
    /\ UNCHANGED <<processVars, sourceVars, bus, bundleVars, jsonVars, before>>

PullAboveLimit ==
    /\ SampleReady
    /\ ~BelowLimit
    /\ Throw("retryable")
    /\ UNCHANGED <<exit, attempt, late, sourceVars, bus, frames, bundleVars,
                   jsonVars, before>>

\* The buffer cannot be mapped, or its CDG0.0 metadata has another ABI.
PullUnreadable ==
    /\ SampleReady
    /\ BelowLimit
    /\ \E code \in {"retryable", "dependency"} : Throw(code)
    /\ UNCHANGED <<exit, attempt, late, sourceVars, bus, frames, bundleVars,
                   jsonVars, before>>

\* No sample for 100 ms, or EOS has reached the appsink and it is empty.
PullNothing ==
    /\ main = "pulling"
    /\ queue = <<>>
    /\ main' = "checking"
    /\ UNCHANGED <<verdict, exit, attempt, late, sourceVars, channelVars, frames,
                   bundleVars, jsonVars, before>>
-----------------------------------------------------------------------------
(* The main thread: the bus and the deadline, after no sample was found *)

\* Bug: EOS is looked for before errors are.
EosFirst ==
    IF \E i \in DOMAIN bus : bus[i] = "eos" THEN "eos"
    ELSE IF bus = <<>> THEN "none" ELSE Head(bus)

Message == IF bus = <<>> THEN "none" ELSE Head(bus)

Pop ==
    /\ main = "checking"
    /\ bus' = IF bus = <<>> THEN bus ELSE Tail(bus)

CheckNothing ==
    /\ Pop
    /\ Message = "none"
    /\ ~late
    /\ main' = "pulling"
    /\ UNCHANGED <<verdict, exit, attempt, late, sourceVars, queue, frames,
                   bundleVars, jsonVars, before>>

CheckError ==
    /\ Pop
    /\ Message = "error"
    /\ Throw("retryable")
    /\ UNCHANGED <<exit, attempt, late, sourceVars, queue, frames, bundleVars,
                   jsonVars, before>>

\* Bug: done is not set.
EosForgotten ==
    /\ Pop
    /\ Message = "eos"
    /\ ~late
    /\ main' = "pulling"
    /\ UNCHANGED <<verdict, exit, attempt, late, sourceVars, queue, frames,
                   bundleVars, jsonVars, before>>

CheckEos ==
    /\ Pop
    /\ Message = "eos"
    /\ ~late
    /\ main' = "finishing"
    /\ UNCHANGED <<verdict, exit, attempt, late, sourceVars, queue, frames,
                   bundleVars, jsonVars, before>>

CheckTimeout ==
    /\ Pop
    /\ Message \in {"none", "eos"}
    /\ late
    /\ Throw("retryable")
    /\ UNCHANGED <<exit, attempt, late, sourceVars, queue, frames, bundleVars,
                   jsonVars, before>>

DeadlinePasses ==
    /\ main \in {"pulling", "checking"}
    /\ ~late
    /\ late' = TRUE
    /\ UNCHANGED <<main, verdict, exit, attempt, sourceVars, channelVars, frames,
                   bundleVars, jsonVars, before>>

\* runtime_contract_provenance() cannot use the runtime manifest.
ProvenanceFails ==
    /\ main = "finishing"
    /\ Throw("dependency")
    /\ UNCHANGED <<exit, attempt, late, sourceVars, channelVars, frames, bundleVars,
                   jsonVars, before>>

\* cleanup(): the state change to NULL joins the streaming thread and empties
\* the appsink.
Cleanup ==
    /\ main \in {"unwinding", "finishing"}
    /\ source' = "ended"
    /\ queue' = <<>>
    /\ IF main = "unwinding"
       THEN Exit(verdict)
       ELSE main' = "bundling" /\ UNCHANGED exit
    /\ UNCHANGED <<verdict, attempt, late, sent, flow_ok, bus, frames, bundleVars,
                   jsonVars, before>>
-----------------------------------------------------------------------------
(* write_product() *)

\* Bug: the number of frames is looked at after write_product().
NoFramesTooLate ==
    /\ main = "bundling"
    /\ frames = <<>>
    /\ product' = Bundle(attempt, 0, <<>>)
    /\ Exit("no_result")
    /\ UNCHANGED <<verdict, attempt, late, sourceVars, channelVars, frames,
                   product_partial, digest, jsonVars, before>>

NoFrames ==
    /\ main = "bundling"
    /\ frames = <<>>
    /\ Exit("no_result")
    /\ UNCHANGED <<verdict, attempt, late, sourceVars, channelVars, frames,
                   bundleVars, jsonVars, before>>

\* Bug: the partial is opened for appending.
PartialAppended(members) ==
    Bundle(attempt, Len(frames), product_partial.frames \o members)

\* product.bin.partial is opened with trunc.
PartialOf(members) == Bundle(attempt, Len(frames), members)

WriteBundle ==
    /\ main = "bundling"
    /\ frames # <<>>
    /\ product_partial' = PartialOf(frames)
    /\ main' = "publishing"
    /\ UNCHANGED <<verdict, exit, attempt, late, sourceVars, channelVars, frames,
                   product, digest, jsonVars, before>>

\* It cannot be opened, or a write fails somewhere.
WriteBundleFails ==
    /\ main = "bundling"
    /\ frames # <<>>
    /\ \/ \E n \in 0 .. Len(frames) : product_partial' = PartialOf(SubSeq(frames, 1, n))
       \/ UNCHANGED product_partial
    /\ Exit("fatal")
    /\ UNCHANGED <<verdict, attempt, late, sourceVars, channelVars, frames,
                   product, digest, jsonVars, before>>

\* Bug: the result of rename() is ignored.
PublishBundleUnchecked ==
    /\ main = "publishing"
    /\ \/ product' = product_partial /\ product_partial' = NoBundle
       \/ UNCHANGED <<product, product_partial>>
    /\ main' = "hashing"
    /\ UNCHANGED <<verdict, exit, attempt, late, sourceVars, channelVars, frames,
                   digest, jsonVars, before>>

PublishBundle ==
    /\ main = "publishing"
    /\ product' = product_partial
    /\ product_partial' = NoBundle
    /\ main' = "hashing"
    /\ UNCHANGED <<verdict, exit, attempt, late, sourceVars, channelVars, frames,
                   digest, jsonVars, before>>

HashBundle ==
    /\ main = "hashing"
    /\ digest' = product
    /\ main' = "planning"
    /\ UNCHANGED <<verdict, exit, attempt, late, sourceVars, channelVars, frames,
                   product_partial, product, jsonVars, before>>

\* fsync or rename fails, or the bundle cannot be read back.
PublishFails ==
    /\ main \in {"publishing", "hashing"}
    /\ Exit("fatal")
    /\ UNCHANGED <<verdict, attempt, late, sourceVars, channelVars, frames,
                   bundleVars, jsonVars, before>>
-----------------------------------------------------------------------------
(* The two JSON files *)

WritePlan ==
    /\ main = "planning"
    /\ plan_json' = TRUE
    /\ main' = "resulting"
    /\ UNCHANGED <<verdict, exit, attempt, late, sourceVars, channelVars, frames,
                   bundleVars, result_json, before>>

WriteResult ==
    /\ main = "resulting"
    /\ result_json' = [attempt |-> attempt, frame_count |-> Len(frames), named |-> digest]
    /\ main' = "reporting"
    /\ UNCHANGED <<verdict, exit, attempt, late, sourceVars, channelVars, frames,
                   bundleVars, plan_json, before>>

WriteFails ==
    /\ main \in {"planning", "resulting"}
    /\ Exit("fatal")
    /\ UNCHANGED <<verdict, attempt, late, sourceVars, channelVars, frames,
                   bundleVars, jsonVars, before>>

Report ==
    /\ main = "reporting"
    /\ Exit("ok")
    /\ UNCHANGED <<verdict, attempt, late, sourceVars, channelVars, frames,
                   bundleVars, jsonVars, before>>

Kill ==
    /\ main # "down"
    /\ Exit("killed")
    /\ UNCHANGED <<verdict, attempt, late, sourceVars, channelVars, frames,
                   bundleVars, jsonVars, before>>
-----------------------------------------------------------------------------
Pull == PullFrame \/ PullAboveLimit \/ PullUnreadable \/ PullNothing

Check == CheckNothing \/ CheckError \/ CheckEos \/ CheckTimeout

Bundling ==
    NoFrames \/ WriteBundle \/ WriteBundleFails \/ PublishBundle \/ HashBundle \/ PublishFails

Main ==
    \/ LaunchOk \/ LaunchFails
    \/ Pull
    \/ Check
    \/ ProvenanceFails \/ Cleanup
    \/ Bundling
    \/ WritePlan \/ WriteResult \/ WriteFails \/ Report

Next ==
    \/ Refuse \/ Begin
    \/ Stream
    \/ Main
    \/ DeadlinePasses
    \/ Kill

Spec == Init /\ [][Next]_vars

\* Both threads keep running; nothing forces a kill, a retry or a timeout.
FairSpec == Spec /\ WF_vars(Stream) /\ WF_vars(Main)
-----------------------------------------------------------------------------
(* Properties *)

Stages == {"down", "launch", "pulling", "checking", "unwinding", "finishing",
           "bundling", "publishing", "hashing", "planning", "resulting", "reporting"}
Bundles == [attempt: Nat, frame_count: Nat, frames: Seq(Nat)]
Results == [attempt: Nat, frame_count: Nat, named: Bundles]

\* The types, with the two limits the code puts on what it holds in memory.
TypeOK ==
    /\ main \in Stages
    /\ verdict \in ExitCodes
    /\ exit \in ExitCodes \cup {"none", "killed"}
    /\ attempt \in Nat
    /\ late \in BOOLEAN
    /\ source \in {"idle", "pushing", "failing", "eos", "ended"}
    /\ sent \in Nat
    /\ flow_ok \in BOOLEAN
    /\ queue \in Seq(Nat) /\ Len(queue) <= max_buffers
    /\ bus \in Seq(Messages)
    /\ frames \in Seq(Nat) /\ Len(frames) <= MaxFrames
    /\ product_partial \in Bundles
    /\ product \in Bundles
    /\ digest \in Bundles
    /\ plan_json \in BOOLEAN
    /\ result_json \in Results
    /\ before \in Bundles \X Results

\* The first n frames of a source, in order.
Consecutive(members, n) ==
    /\ Len(members) = n
    /\ \A i \in 1 .. n : members[i] = i - 1

\* artifact.hpp:23, "Atomically publish": product.bin is never a bundle that
\* was cut short, nor one with a gap, a repetition or frames of two attempts.
BundleWhole ==
    product # NoBundle =>
        /\ product.frame_count > 0
        /\ Consecutive(product.frames, product.frame_count)

\* result.json is never ahead of product.bin.  It may be one attempt behind
\* (a later attempt died between the two files), but a result of the attempt
\* that wrote product.bin names that very bundle.
ResultNamesItsBundle ==
    /\ result_json.attempt <= product.attempt
    /\ result_json.attempt = product.attempt =>
        /\ result_json.named = product
        /\ result_json.frame_count = product.frame_count
    /\ exit = "ok" => result_json.attempt = attempt

\* A process that is refused, runs into a limit, a timeout or a stream error,
\* or finds no frame leaves the product of an earlier process as it was: the
\* first thing that replaces a file comes after every such exit.
FailureKeepsEarlierProduct ==
    main = "down" /\ exit \in ExitCodes \ {"ok", "fatal"} =>
        before = <<product, result_json>>

\* Exit code 0 means that no flow error was overtaken by the EOS behind it, and
\* that at most the samples that fit into the appsink are missing at the end.
OkLosesOnlyTheQueue ==
    exit = "ok" =>
        /\ flow_ok
        /\ product.frame_count <= sent
        /\ sent - product.frame_count <= max_buffers

\* pipeline.hpp:49, "Streaming consumer invoked once for every frame": a run
\* that succeeds has handed every frame to the consumer.
ConsumerSeesEveryFrame ==
    exit = "ok" => result_json.frame_count = sent

\* Every process ends by itself, also when the deadline never passes: the loop
\* looks at the deadline only when it found no sample, but a source that
\* always has one runs into max_frames.
EveryAttemptEnds == main # "down" ~> main = "down"
-----------------------------------------------------------------------------
(* Inductive invariant *)

Unbundled == {"launch", "pulling", "checking", "unwinding", "finishing", "bundling",
              "publishing"}
Bundled == {"hashing", "planning", "resulting", "reporting"}
Completed == {"finishing", "bundling", "publishing"} \cup Bundled

\* While the loop runs, no frame is lost between source, queue and consumer.
FlowInv ==
    /\ Consecutive(frames, Len(frames))
    /\ main = "launch" => sent = 0 /\ frames = <<>> /\ queue = <<>>
    /\ main \in {"pulling", "checking"} =>
        /\ sent = Len(frames) + Len(queue)
        /\ \A i \in 1 .. Len(queue) : queue[i] = Len(frames) + i - 1
    /\ main \in Completed => Len(frames) <= sent /\ sent - Len(frames) <= max_buffers

\* The first message of a run that went wrong is never EOS, and a run that
\* goes well posts nothing before EOS.
BusInv ==
    /\ main = "launch" => source = "idle" /\ bus = <<>>
    /\ source \in {"idle", "pushing"} => flow_ok
    /\ source = "failing" => ~flow_ok
    /\ main \in {"pulling", "checking"} =>
        IF flow_ok THEN source # "ended" => bus = <<>>
        ELSE IF bus = <<>> THEN source = "failing" ELSE Head(bus) = "error"
    /\ main \in Completed => source = "ended" /\ flow_ok

\* What each stage of the main thread knows about the files.
BundleInv ==
    /\ main = "publishing" =>
        frames # <<>> /\ product_partial = Bundle(attempt, Len(frames), frames)
    /\ main \in Bundled => product = Bundle(attempt, Len(frames), frames)
    /\ main \in {"planning", "resulting", "reporting"} => digest = product
    /\ main = "reporting" => result_json.attempt = attempt
    /\ product.attempt <= attempt
    /\ main \in Unbundled => product.attempt < attempt

ExitInv ==
    /\ main # "down" => exit = "none"
    /\ main = "unwinding" => verdict \in {"validation", "dependency", "retryable"}
    /\ main \in Unbundled => before = <<product, result_json>>

IInv ==
    /\ TypeOK
    /\ FlowInv
    /\ BusInv
    /\ BundleInv
    /\ ExitInv
    /\ BundleWhole
    /\ ResultNamesItsBundle
    /\ FailureKeepsEarlierProduct
    /\ OkLosesOnlyTheQueue
=============================================================================
