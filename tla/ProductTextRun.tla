--------------------------- MODULE ProductTextRun ---------------------------
(***************************************************************************)
(* A product_text run of the CLI, from the existence check in run()        *)
(* (src/src/tool/image_process.cpp) through run_product_text_pipeline()    *)
(* (src/src/tool/pipeline.cpp) to result.json, attempted repeatedly in one *)
(* work directory.                                                         *)
(*                                                                         *)
(* Two threads run concurrently.  The streaming thread carries source,     *)
(* geometry, filter, the counting pad probe and TextSink (there is no      *)
(* queue element); the main thread polls the bus, tears the pipeline down  *)
(* and writes the result.  They share the probe context and the bus.  The  *)
(* process may be killed between any two steps ("cancel" is a signal): the *)
(* files stay, everything else is gone.                                    *)
(***************************************************************************)
EXTENDS TextSink

CONSTANTS
    MaxFrames,    \* max_frames of the request or of the profile
    SourceFrames, \* bound: frames a source may produce before its EOS
    Attempts      \* bound: processes started in the work directory

ASSUME RunAssumption ==
    /\ MaxFrames \in Nat \ {0}
    /\ SourceFrames \in Nat
    /\ Attempts \in Nat

VARIABLES
    main,        \* where the main thread stands
    verdict,     \* the exit code of the exception being unwound
    exit,        \* exit code of the last process
    attempt,     \* processes started so far
    probe_on,    \* the pad probe is installed
    probe_count, \* FrameCountContext::frame_count
    probe_error, \* FrameCountContext::error is set
    source,      \* what the source's task does next
    sent,        \* frames the filter has pushed
    flow_ok,     \* no flow error has reached the source
    late,        \* the deadline has passed
    total,       \* PipelineResult::frame_count
    output,      \* artifacts described by the JSON output being built
    plan_json,   \* pipeline-plan.json exists
    result_json  \* result.json

probeVars == <<probe_on, probe_count, probe_error>>
sourceVars == <<source, sent, flow_ok>>
reportVars == <<total, output, plan_json, result_json>>
mainVars == <<main, verdict, exit, attempt, late>>
vars == <<sinkVars, mainVars, probeVars, sourceVars, reportVars>>

\* A digest identifies content, so a described artifact is its lines.
NoOutput == [role |-> <<>>, meta |-> <<>>]
NoResult == [exists |-> FALSE, frame_count |-> 0, role |-> <<>>, meta |-> <<>>]

ExitCodes == {"ok", "validation", "dependency", "no_result", "retryable", "fatal"}

RunInit ==
    /\ Init
    /\ main = "down"
    /\ verdict = "ok"
    /\ exit = "none"
    /\ attempt = 0
    /\ probe_on = FALSE
    /\ probe_count = 0
    /\ probe_error = FALSE
    /\ source = "idle"
    /\ sent = 0
    /\ flow_ok = TRUE
    /\ late = FALSE
    /\ total = 0
    /\ output = NoOutput
    /\ plan_json = FALSE
    /\ result_json = NoResult

Exit(code) == main' = "down" /\ exit' = code
Throw(code) == main' = "unwinding" /\ verdict' = code
-----------------------------------------------------------------------------
(* run(), up to the pipeline *)

\* Bug: only the partials of an interrupted run are looked for.
OutputExistsPartialsOnly == role_partial.exists \/ meta_partial.exists

\* Bug: the published files are not looked for.
OutputExistsWithoutFinals ==
    \/ role_partial.exists \/ meta_partial.exists
    \/ plan_json \/ result_json.exists

\* The paths run() looks for; the other mode's file names do not occur here.
OutputExists ==
    \/ role_partial.exists \/ meta_partial.exists
    \/ role_final.exists \/ meta_final.exists
    \/ plan_json \/ result_json.exists

RefuseExisting ==
    /\ main = "down"
    /\ attempt < Attempts
    /\ OutputExists
    /\ attempt' = attempt + 1
    /\ exit' = "validation"
    /\ UNCHANGED <<sinkVars, main, verdict, late, probeVars, sourceVars, reportVars>>

\* The category map is not installed, or preflight fails.
RefuseUnprepared ==
    /\ main = "down"
    /\ attempt < Attempts
    /\ attempt' = attempt + 1
    /\ exit' \in {"validation", "dependency", "fatal"}
    /\ UNCHANGED <<sinkVars, main, verdict, late, probeVars, sourceVars, reportVars>>

\* A new process: a new element, a new probe context, nothing counted.
Begin ==
    /\ main = "down"
    /\ attempt < Attempts
    /\ ~OutputExists
    /\ attempt' = attempt + 1
    /\ main' = "launch"
    /\ exit' = "none"
    /\ verdict' = "ok"
    /\ late' = FALSE
    /\ phase' = "null"
    /\ frame_count' = 0
    /\ next_frame_id' = 0
    /\ published' = FALSE
    /\ failed' = FALSE
    /\ bus' = <<>>
    /\ probe_on' = TRUE
    /\ probe_count' = 0
    /\ probe_error' = FALSE
    /\ source' = "idle"
    /\ sent' = 0
    /\ flow_ok' = TRUE
    /\ total' = 0
    /\ output' = NoOutput
    /\ UNCHANGED <<partials, finals, crops, plan_json, result_json>>
-----------------------------------------------------------------------------
(* run_product_text_pipeline(): setting the pipeline to PLAYING *)

LaunchOk ==
    /\ main = "launch"
    /\ StartOk
    /\ main' = "polling"
    /\ source' = "pushing"
    /\ UNCHANGED <<verdict, exit, attempt, late, probeVars, sent, flow_ok, reportVars>>

\* The sink starts in NULL -> READY, source and filter in READY -> PAUSED.
LaunchOtherFails ==
    /\ main = "launch"
    /\ StartOk
    /\ Throw("retryable")
    /\ UNCHANGED <<exit, attempt, late, probeVars, sourceVars, reportVars>>

LaunchSinkFails ==
    /\ main = "launch"
    /\ StartFail
    /\ Throw("retryable")
    /\ UNCHANGED <<exit, attempt, late, probeVars, sourceVars, reportVars>>

\* A property is missing or the elements do not link.
LinkFails ==
    /\ main = "launch"
    /\ Throw("dependency")
    /\ UNCHANGED <<sinkVars, exit, attempt, late, probeVars, sourceVars, reportVars>>

Launch == LaunchOk \/ LaunchOtherFails \/ LaunchSinkFails \/ LinkFails
-----------------------------------------------------------------------------
(* The streaming thread *)

Streaming ==
    /\ main \in {"polling", "unwinding", "draining", "closing"}
    /\ phase # "stopped"

\* A tracker or the NPU detector numbers frames; the mock detector says 0.
Stamps(n) == {0, n}

\* count_product_frames(): a frame above the limit is dropped and the error
\* kept for the main thread; the source sees a successful push.
ProbeDrops ==
    /\ probe_on
    /\ probe_error \/ probe_count >= MaxFrames

ProbePasses ==
    /\ ~ProbeDrops
    /\ probe_count' = IF probe_on THEN probe_count + 1 ELSE probe_count
    /\ UNCHANGED <<probe_on, probe_error>>

Arrives(f) ==
    /\ Streaming
    /\ source = "pushing"
    /\ phase = "open"
    /\ sent < SourceFrames
    /\ f.frame_id \in Stamps(sent)
    /\ sent' = sent + 1

\* Bug: the probe drops the frame without keeping an error.
FrameDroppedSilently(f) ==
    /\ Arrives(f)
    /\ ProbeDrops
    /\ UNCHANGED <<sinkVars, mainVars, probeVars, source, flow_ok, reportVars>>

FrameDropped(f) ==
    /\ Arrives(f)
    /\ ProbeDrops
    /\ probe_error' = TRUE
    /\ UNCHANGED <<sinkVars, mainVars, probe_on, probe_count, source, flow_ok, reportVars>>

FrameAccepted(f) ==
    /\ Arrives(f)
    /\ ProbePasses
    /\ RenderAccept(f)
    /\ UNCHANGED <<mainVars, source, flow_ok, reportVars>>

FrameFails(f) ==
    /\ Arrives(f)
    /\ ProbePasses
    /\ RenderError(f)
    /\ source' = "failing"
    /\ flow_ok' = FALSE
    /\ UNCHANGED <<mainVars, reportVars>>

\* create() or a filter returns GST_FLOW_ERROR, most often after posting its
\* own error (not when a buffer cannot be allocated).
UpstreamFails ==
    /\ Streaming
    /\ source = "pushing"
    /\ \/ \E domain \in Messages \ {"eos"} : Post(domain)
       \/ UNCHANGED bus
    /\ source' = "failing"
    /\ flow_ok' = FALSE
    /\ UNCHANGED <<phase, counters, published, failed, partials, finals, crops,
                   mainVars, probeVars, sent, reportVars>>

\* After a flow error basesrc posts an error of its own and then pushes EOS.
SourceReportsError ==
    /\ Streaming
    /\ source = "failing"
    /\ Post("stream")
    /\ source' = "eos"
    /\ UNCHANGED <<phase, counters, published, failed, partials, finals, crops,
                   mainVars, probeVars, sent, flow_ok, reportVars>>

SourceEnds ==
    /\ Streaming
    /\ source = "pushing"
    /\ source' = "eos"
    /\ UNCHANGED <<sinkVars, mainVars, probeVars, sent, flow_ok, reportVars>>

\* The probe watches buffers only: EOS always reaches the sink.
EosArrives ==
    /\ Streaming
    /\ source = "eos"
    /\ Eos
    /\ source' = "ended"
    /\ UNCHANGED <<mainVars, probeVars, sent, flow_ok, reportVars>>

SinkPublishes ==
    /\ Streaming
    /\ Publication
    /\ UNCHANGED <<mainVars, probeVars, sourceVars, reportVars>>

Stream ==
    \/ \E f \in Frames : FrameDropped(f) \/ FrameAccepted(f) \/ FrameFails(f)
    \/ UpstreamFails
    \/ SourceReportsError
    \/ SourceEnds
    \/ EosArrives
    \/ SinkPublishes
-----------------------------------------------------------------------------
(* The main thread: the polling loop *)

\* What gst_bus_timed_pop_filtered() returns: "none" after 100 ms.
Message == IF bus = <<>> THEN "none" ELSE Head(bus)

PopBus == bus' = IF bus = <<>> THEN bus ELSE Tail(bus)

sinkVarsButBus ==
    <<phase, counters, published, failed, partials, finals, crops>>

\* rethrow_frame_error() comes before the popped message is looked at.
PollProbeError ==
    /\ main = "polling"
    /\ probe_error
    /\ PopBus
    /\ Throw("retryable")
    /\ UNCHANGED <<sinkVarsButBus, exit, attempt, late, probeVars, sourceVars, reportVars>>

ExitCodeOf(domain) ==
    CASE domain = "resource" -> "dependency"
      [] domain = "stream" -> "fatal"
      [] OTHER -> "retryable"

PollErrorMessage ==
    /\ main = "polling"
    /\ ~probe_error
    /\ Message \in Messages \ {"eos"}
    /\ PopBus
    /\ Throw(ExitCodeOf(Message))
    /\ UNCHANGED <<sinkVarsButBus, exit, attempt, late, probeVars, sourceVars, reportVars>>

PollEos ==
    /\ main = "polling"
    /\ ~probe_error
    /\ Message = "eos"
    /\ ~late
    /\ PopBus
    /\ main' = "draining"
    /\ UNCHANGED <<sinkVarsButBus, verdict, exit, attempt, late, probeVars, sourceVars, reportVars>>

\* The deadline is looked at last, also in the iteration that popped EOS.
PollTimeout ==
    /\ main = "polling"
    /\ ~probe_error
    /\ late
    /\ Message \in {"none", "eos"}
    /\ PopBus
    /\ Throw("retryable")
    /\ UNCHANGED <<sinkVarsButBus, exit, attempt, late, probeVars, sourceVars, reportVars>>

Poll == PollProbeError \/ PollErrorMessage \/ PollEos \/ PollTimeout

DeadlinePasses ==
    /\ main = "polling"
    /\ ~late
    /\ late' = TRUE
    /\ UNCHANGED <<sinkVars, main, verdict, exit, attempt, probeVars, sourceVars, reportVars>>
-----------------------------------------------------------------------------
(* After the loop; cleanup() *)

Drain ==
    /\ main = "draining"
    /\ ~probe_error
    /\ total' = probe_count
    /\ main' = "closing"
    /\ UNCHANGED <<sinkVars, verdict, exit, attempt, late, probeVars, sourceVars,
                   output, plan_json, result_json>>

\* runtime_contract_provenance() cannot use the runtime manifest.
DrainFails ==
    /\ main = "draining"
    /\ Throw(IF probe_error THEN "retryable" ELSE "dependency")
    /\ UNCHANGED <<sinkVars, exit, attempt, late, probeVars, sourceVars, reportVars>>

\* cleanup() removes the probe while the source may still be pushing.
RemoveProbe ==
    /\ main \in {"unwinding", "closing"}
    /\ probe_on
    /\ probe_on' = FALSE
    /\ UNCHANGED <<sinkVars, mainVars, probe_count, probe_error, sourceVars, reportVars>>

\* Setting the pipeline to NULL; an element that never started has no stop.
SetNull ==
    /\ main \in {"unwinding", "closing"}
    /\ ~probe_on
    /\ IF phase \in {"null", "stuck"} THEN UNCHANGED sinkVars ELSE Stop
    /\ IF main = "unwinding"
       THEN Exit(verdict)
       ELSE main' = "verifying" /\ UNCHANGED exit
    /\ UNCHANGED <<verdict, attempt, late, probeVars, sourceVars, reportVars>>
-----------------------------------------------------------------------------
(* run(), after the pipeline *)

Verified ==
    /\ total > 0
    /\ role_final.exists
    /\ meta_final.exists
    /\ Len(role_final.lines) = total
    /\ Len(meta_final.lines) = total

Verify ==
    /\ main = "verifying"
    /\ Verified
    /\ main' = "planning"
    /\ output' = [role |-> role_final.lines, meta |-> meta_final.lines]
    /\ UNCHANGED <<sinkVars, verdict, exit, attempt, late, probeVars, sourceVars,
                   total, plan_json, result_json>>

\* No frames; files missing or of another length; or a file cannot be read.
VerifyFails ==
    /\ main = "verifying"
    /\ \/ total = 0 /\ Exit("no_result")
       \/ Exit("fatal")
    /\ UNCHANGED <<sinkVars, verdict, attempt, late, probeVars, sourceVars, reportVars>>

WritePlan ==
    /\ main = "planning"
    /\ plan_json' = TRUE
    /\ main' = "resulting"
    /\ UNCHANGED <<sinkVars, verdict, exit, attempt, late, probeVars, sourceVars,
                   total, output, result_json>>

WriteResult ==
    /\ main = "resulting"
    /\ result_json' = [exists |-> TRUE, frame_count |-> total,
                       role |-> output.role, meta |-> output.meta]
    /\ main' = "reporting"
    /\ UNCHANGED <<sinkVars, verdict, exit, attempt, late, probeVars, sourceVars,
                   total, output, plan_json>>

\* write_json_atomic() throws; only its own .partial may be left.
WriteFails ==
    /\ main \in {"planning", "resulting"}
    /\ Exit("fatal")
    /\ UNCHANGED <<sinkVars, verdict, attempt, late, probeVars, sourceVars, reportVars>>

Report ==
    /\ main = "reporting"
    /\ Exit("ok")
    /\ UNCHANGED <<sinkVars, verdict, attempt, late, probeVars, sourceVars, reportVars>>

Kill ==
    /\ main # "down"
    /\ Exit("killed")
    /\ UNCHANGED <<sinkVars, verdict, attempt, late, probeVars, sourceVars, reportVars>>
-----------------------------------------------------------------------------
Main ==
    \/ Launch
    \/ Poll
    \/ Drain \/ DrainFails
    \/ RemoveProbe \/ SetNull
    \/ Verify \/ VerifyFails
    \/ WritePlan \/ WriteResult \/ WriteFails \/ Report

RunNext ==
    \/ RefuseExisting \/ RefuseUnprepared \/ Begin
    \/ Stream
    \/ Main
    \/ DeadlinePasses
    \/ Kill

RunSpec == RunInit /\ [][RunNext]_vars

\* Both threads keep running; nothing forces a kill, a retry or a timeout.
FairRunSpec == RunSpec /\ WF_vars(Stream) /\ WF_vars(Main)
-----------------------------------------------------------------------------
(* Properties *)

\* The types of a run's state, which the invariant of the proofs builds on.
RunTypeOK ==
    /\ TypeOK
    /\ main \in {"down", "launch", "polling", "unwinding", "draining", "closing",
                 "verifying", "planning", "resulting", "reporting"}
    /\ verdict \in ExitCodes
    /\ exit \in ExitCodes \cup {"none", "killed"}
    /\ attempt \in Nat
    /\ probe_on \in BOOLEAN
    /\ probe_count \in Nat
    /\ probe_error \in BOOLEAN
    /\ source \in {"idle", "pushing", "failing", "eos", "ended"}
    /\ sent \in Nat
    /\ flow_ok \in BOOLEAN
    /\ late \in BOOLEAN
    /\ total \in Nat
    /\ output \in [role: Seq(RoleLines), meta: Seq(MetaLines)]
    /\ plan_json \in BOOLEAN
    /\ result_json \in [exists: BOOLEAN, frame_count: Nat,
                        role: Seq(RoleLines), meta: Seq(MetaLines)]

\* What a reader of result.json finds in the work directory.
Visible ==
    IF result_json.exists
    THEN [exists |-> TRUE,
          frame_count |-> result_json.frame_count,
          role |-> role_final.lines,
          meta |-> meta_final.lines,
          named |-> [role |-> result_json.role, meta |-> result_json.meta]]
    ELSE [exists |-> FALSE]

\* The files hold frame_count lines each, about frames 0, 1, 2 ..., and are
\* the very files whose digests the result names.
CompletePair(d) ==
    /\ d.exists
    /\ d.frame_count > 0
    /\ Len(d.role) = d.frame_count
    /\ Len(d.meta) = d.frame_count
    /\ \A i \in 1 .. d.frame_count :
        /\ d.role[i].frame_id = i - 1
        /\ d.meta[i].frame_id = i - 1
        /\ d.meta[i].target_count = Len(d.role[i].items)
    /\ d.named = [role |-> d.role, meta |-> d.meta]

D == INSTANCE Delivery WITH delivered <- Visible, Complete <- CompletePair

\* The run implements Delivery: through kills, failures and retries in one
\* work directory, result.json appears once, over a complete pair of files
\* with the digests it names, and neither it nor the files change again.
DeliveryImplemented == D!Spec

\* Exit code 0 means that every frame the filter pushed is in the product: no
\* frame was dropped by the probe or refused, and no flow error was overtaken
\* by the EOS that the source pushes after it.
OkMeansEveryFrame ==
    exit = "ok" =>
        /\ flow_ok /\ ~failed /\ ~probe_error
        /\ result_json.exists
        /\ result_json.frame_count = sent

\* A file under a final name is never overwritten, by this process or a later
\* one; it can only be withdrawn by the publication that failed half way.
FinalsWriteOnce ==
    [][/\ role_final.exists =>
            \/ role_final' = role_final
            \/ phase = "meta" /\ ~role_final'.exists
       /\ meta_final.exists => meta_final' = meta_final]_vars

\* A source that reaches EOS without a frame leaves no product file of any
\* kind behind (scripts/contract-test-m4.sh:196 tests one such input).
NoResultLeavesNothing ==
    exit = "no_result" => ~OutputExists

\* Every process ends by itself, also when timeout_sec never elapses: whatever
\* fails in the streaming thread, the main loop is told, and cleanup() is
\* never waiting for a thread that does not come back.
EveryAttemptEnds == main # "down" ~> main = "down"

\* pipeline.hpp:77, "Maximum processed frames before fail-closed": a run that
\* exceeded the frame limit leaves no product under a final name.
FrameLimitFailsClosed ==
    main = "down" /\ exit = "retryable" /\ probe_error =>
        ~role_final.exists /\ ~meta_final.exists

\* configs/plugins/image-process.json:19, "retryable": true: a process that
\* ends with the RETRYABLE exit code can be run again in its work directory,
\* where it leaves nothing that run() refuses a work directory for.
RetryableCanBeRetried ==
    exit = "retryable" => ~OutputExists
-----------------------------------------------------------------------------
(* Inductive invariant *)

Completed == {"draining", "closing", "verifying", "planning", "resulting", "reporting"}
Counted == Completed \ {"draining"}
Stopped == {"verifying", "planning", "resulting", "reporting"}

\* The first message of a run that went wrong is never EOS, and a run that
\* goes well posts nothing before the sink has seen EOS.
BusInv ==
    /\ main = "launch" => source = "idle"
    /\ source \in {"idle", "pushing"} => flow_ok
    /\ source = "failing" => ~flow_ok
    /\ phase \in {"role", "meta", "forward", "eos", "refused"} => source = "ended"
    /\ failed => ~flow_ok
    /\ main \in {"launch", "polling"} /\ flow_ok /\ source # "ended" => bus = <<>>
    /\ main = "polling" /\ ~flow_ok =>
        IF bus = <<>> THEN source = "failing" ELSE Head(bus) # "eos"
    /\ main \in Completed => source = "ended" /\ flow_ok

\* What the probe, the source and the sink agree on.
CountInv ==
    /\ main \in {"launch", "polling", "draining"} => probe_on
    /\ main = "launch" => sent = 0
    /\ probe_on /\ ~probe_error => probe_count = sent
    /\ flow_ok /\ ~probe_error => frame_count = sent
    /\ main \in Counted => ~probe_error /\ total = sent

\* What each stage of the main thread knows about the work directory.
StageInv ==
    /\ main = "launch" => phase = "null"
    /\ main = "unwinding" => verdict \in {"dependency", "retryable", "fatal"}
    /\ main = "polling" => phase \notin {"null", "stuck", "stopped"}
    /\ main \in {"draining", "closing"} => phase \notin {"null", "stuck"}
    /\ main \in Stopped => phase = "stopped"
    /\ main \in {"planning", "resulting"} =>
        /\ Verified
        /\ output = [role |-> role_final.lines, meta |-> meta_final.lines]
    /\ main \notin {"down", "resulting", "reporting"} => ~plan_json
    /\ main \notin {"down", "reporting"} => ~result_json.exists

ResultInv ==
    /\ main = "reporting" \/ exit = "ok" => result_json.exists
    /\ result_json.exists =>
        /\ result_json.frame_count > 0
        /\ result_json.frame_count = sent
        /\ flow_ok /\ ~failed /\ ~probe_error
        /\ Paired(role_final, meta_final, result_json.frame_count)
        /\ result_json.role = role_final.lines
        /\ result_json.meta = meta_final.lines
    /\ exit = "no_result" => main = "down" /\ ~OutputExists

RunInv ==
    /\ RunTypeOK
    /\ SinkInv
    /\ BusInv
    /\ CountInv
    /\ StageInv
    /\ ResultInv
=============================================================================
