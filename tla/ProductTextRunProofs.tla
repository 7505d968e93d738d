------------------------- MODULE ProductTextRunProofs -------------------------
(***************************************************************************)
(* RunInv is an inductive invariant of a product_text run, for every frame *)
(* limit, every source and any number of attempts.  From it follow the     *)
(* refinement of Delivery and the safety properties of ProductTextRun.     *)
(*                                                                         *)
(* There is one lemma per group of actions, and in each one step per part  *)
(* of RunInv.  What a step does to the sink comes from TextSinkProofs.     *)
(***************************************************************************)
EXTENDS ProductTextRun, TextSinkProofs

USE DEF ExitCodes

\* A step that leaves the sink alone keeps its invariant.
LEMMA SinkUntouched ==
    ASSUME SinkInv, UNCHANGED sinkVars
    PROVE  SinkInv'
  BY DEF sinkVars, counters, partials, finals, SinkInv, TypeOK, Paired, FinalsAbsent

\* So does one that only posts or pops a message.
LEMMA SinkBusOnly ==
    ASSUME SinkInv, UNCHANGED sinkVarsButBus, bus' \in Seq(Messages)
    PROVE  SinkInv'
  BY DEF sinkVarsButBus, counters, partials, finals, SinkInv, TypeOK, Paired,
         FinalsAbsent

\* As long as no result is written there is nothing ResultInv has to say.
LEMMA NoResultYet ==
    ASSUME RunInv, main \notin {"down", "reporting"}, main' # "reporting",
           UNCHANGED result_json,
           exit' = exit \/ exit' \notin {"ok", "no_result"}
    PROVE  ResultInv'
  <1>1. ~result_json.exists /\ exit \notin {"ok", "no_result"}
    BY DEF RunInv, StageInv, ResultInv
  <1> QED
    BY <1>1 DEF ResultInv

\* Popping a message keeps the bus a sequence of messages.
LEMMA PopTyped ==
    ASSUME bus \in Seq(Messages), PopBus
    PROVE  bus' \in Seq(Messages)
  BY DEF PopBus
-----------------------------------------------------------------------------
(* The beginning of a process *)

LEMMA RefuseInv ==
    ASSUME RunInv, RefuseExisting \/ RefuseUnprepared
    PROVE  RunInv'
  <1>1. /\ main = "down" /\ UNCHANGED main
        /\ attempt' = attempt + 1
        /\ exit' \in {"validation", "dependency", "fatal"}
        /\ UNCHANGED <<sinkVars, verdict, late, probeVars, sourceVars, reportVars>>
    BY DEF RefuseExisting, RefuseUnprepared
  <1>2. SinkInv'
    BY <1>1, SinkUntouched DEF RunInv
  <1>3. RunTypeOK'
    BY <1>1, <1>2 DEF SinkInv, RunInv, RunTypeOK, probeVars, sourceVars, reportVars
  <1>4. BusInv' /\ CountInv' /\ StageInv'
    BY <1>1 DEF RunInv, BusInv, CountInv, StageInv, sinkVars, counters, probeVars,
                sourceVars, reportVars, Completed, Counted, Stopped
  <1>5. ResultInv'
    BY <1>1 DEF RunInv, ResultInv, sinkVars, finals, probeVars, sourceVars, reportVars
  <1> QED
    BY <1>2, <1>3, <1>4, <1>5 DEF RunInv

LEMMA BeginInv ==
    ASSUME RunInv, Begin
    PROVE  RunInv'
  <1>1. /\ ~role_final.exists /\ ~meta_final.exists
        /\ ~plan_json /\ ~result_json.exists
    BY DEF Begin, OutputExists
  <1>2. SinkInv'
    <2>1. <<>> \in Seq(Messages)
      OBVIOUS
    <2>2. TypeOK'
      BY <2>1 DEF Begin, RunInv, SinkInv, TypeOK, Phases, partials, finals
    <2>3. FinalsAbsent'
      BY <1>1 DEF Begin, FinalsAbsent, finals
    <2> QED
      BY <2>2, <2>3 DEF Begin, SinkInv
  <1>3. RunTypeOK'
    <2>1. NoOutput \in [role: Seq(RoleLines), meta: Seq(MetaLines)]
      BY DEF NoOutput
    <2>2. TypeOK' /\ attempt' \in Nat
      BY <1>2 DEF Begin, RunInv, SinkInv, RunTypeOK
    <2>3. /\ plan_json' \in BOOLEAN
          /\ result_json' \in [exists: BOOLEAN, frame_count: Nat,
                               role: Seq(RoleLines), meta: Seq(MetaLines)]
      BY DEF Begin, RunInv, RunTypeOK
    <2> QED
      BY <2>1, <2>2, <2>3 DEF Begin, RunTypeOK
  <1>4. BusInv' /\ CountInv'
    BY DEF Begin, BusInv, CountInv, Completed, Counted
  <1>5. StageInv' /\ ResultInv'
    BY <1>1 DEF Begin, StageInv, ResultInv, Stopped
  <1> QED
    BY <1>2, <1>3, <1>4, <1>5 DEF RunInv
-----------------------------------------------------------------------------
(* Setting the pipeline to PLAYING *)

LEMMA LaunchInv ==
    ASSUME RunInv, Launch
    PROVE  RunInv'
  <1>1. /\ main = "launch" /\ phase = "null"
        /\ sent = 0 /\ probe_on
        /\ ~plan_json /\ ~result_json.exists
    BY DEF RunInv, CountInv, StageInv, Launch, LaunchOk, LaunchOtherFails,
           LaunchSinkFails, LinkFails
  <1>2. /\ main' \in {"polling", "unwinding"}
        /\ main' = "polling" => StartOk
        /\ StartOk \/ StartFail \/ UNCHANGED sinkVars
        /\ source' \in {source, "pushing"}
        /\ verdict' \in {verdict, "retryable", "dependency"}
        /\ main' = "unwinding" => verdict' \in {"retryable", "dependency"} /\ source' = source
        /\ UNCHANGED <<exit, attempt, late, probeVars, sent, flow_ok, reportVars>>
    BY DEF Launch, LaunchOk, LaunchOtherFails, LaunchSinkFails, LinkFails, Throw,
           sourceVars
  <1>3. SinkInv'
    BY <1>2, StartOkInv, StartFailInv, SinkUntouched DEF RunInv
  <1>4. RunTypeOK'
    BY <1>2, <1>3 DEF RunInv, SinkInv, RunTypeOK, probeVars, reportVars
  <1>5. BusInv'
    <2>1. /\ failed' => failed
          /\ phase' \in {"null", "stuck", "open"}
      BY <1>1, <1>2 DEF StartOk, StartFail, sinkVars
    <2>2. main' = "polling" => bus' = bus
      BY <1>2 DEF StartOk
    <2> QED
      BY <1>1, <1>2, <2>1, <2>2 DEF RunInv, BusInv, Completed
  <1>6. CountInv'
    <2>1. frame_count' \in {0, frame_count}
      BY <1>2 DEF StartOk, StartFail, sinkVars, counters
    <2> QED
      BY <1>1, <1>2, <2>1 DEF RunInv, CountInv, Completed, Counted, probeVars
  <1>7. StageInv'
    BY <1>1, <1>2 DEF RunInv, StageInv, StartOk, Stopped, reportVars
  <1>8. ResultInv'
    BY <1>1, <1>2, NoResultYet DEF reportVars
  <1> QED
    BY <1>3, <1>4, <1>5, <1>6, <1>7, <1>8 DEF RunInv
-----------------------------------------------------------------------------
(* The streaming thread *)

\* The streaming thread moves neither the main thread nor the JSON outputs.
LEMMA StreamingKeeps ==
    ASSUME RunInv, Streaming, UNCHANGED <<mainVars, reportVars>>,
           phase' = phase \/ phase' \in {"role", "meta", "forward", "eos", "refused"}
    PROVE  StageInv' /\ ResultInv'
  <1>1. /\ main \in {"polling", "unwinding", "draining", "closing"} /\ main' = main
        /\ UNCHANGED <<verdict, exit, plan_json, result_json>>
    BY DEF Streaming, mainVars, reportVars
  <1>2. StageInv'
    BY <1>1 DEF RunInv, StageInv, Stopped
  <1> QED
    BY <1>1, <1>2, NoResultYet

LEMMA FrameInv ==
    ASSUME RunInv, NEW f \in Frames,
           FrameDropped(f) \/ FrameAccepted(f) \/ FrameFails(f)
    PROVE  RunInv'
  <1> USE DEF mainVars, reportVars, Arrives
  <1>1. /\ Streaming /\ source = "pushing" /\ phase = "open"
        /\ sent' = sent + 1
        /\ UNCHANGED <<mainVars, reportVars>>
    BY DEF FrameDropped, FrameAccepted, FrameFails
  <1>2. /\ flow_ok /\ main \notin Completed
        /\ main \in {"polling", "unwinding"}
        /\ sent \in Nat /\ probe_count \in Nat
        /\ (main = "polling" => bus = <<>>)
    BY <1>1 DEF RunInv, RunTypeOK, BusInv, Completed, Streaming
  <1>3. CASE FrameDropped(f)
    <2>1. /\ UNCHANGED <<sinkVars, probe_on, probe_count, source, flow_ok>>
          /\ probe_error' = TRUE
      BY <1>3 DEF FrameDropped
    <2>2. SinkInv'
      BY <2>1, SinkUntouched DEF RunInv
    <2>3. RunTypeOK'
      BY <1>1, <1>2, <2>1, <2>2 DEF RunInv, SinkInv, RunTypeOK
    <2>4. BusInv' /\ CountInv'
      BY <1>1, <1>2, <2>1 DEF RunInv, BusInv, CountInv, Completed, Counted, sinkVars
    <2>5. phase' = phase
      BY <2>1 DEF sinkVars
    <2> QED
      BY <1>1, <2>2, <2>3, <2>4, <2>5, StreamingKeeps DEF RunInv
  <1>4. CASE FrameAccepted(f)
    <2>1. /\ RenderAccept(f) /\ phase' = phase /\ UNCHANGED <<bus, failed>>
          /\ frame_count' = frame_count + 1
          /\ probe_count' = IF probe_on THEN probe_count + 1 ELSE probe_count
          /\ UNCHANGED <<source, flow_ok, probe_on, probe_error>>
      BY <1>4 DEF FrameAccepted, RenderAccept, ProbePasses
    <2>2. SinkInv'
      BY <2>1, RenderAcceptInv DEF RunInv
    <2>3. RunTypeOK'
      BY <1>1, <1>2, <2>1, <2>2 DEF RunInv, SinkInv, RunTypeOK
    <2>4. BusInv' /\ CountInv'
      BY <1>1, <1>2, <2>1 DEF RunInv, BusInv, CountInv, Completed, Counted
    <2> QED
      BY <1>1, <2>1, <2>2, <2>3, <2>4, StreamingKeeps DEF RunInv
  <1>5. CASE FrameFails(f)
    <2>1. /\ RenderError(f) /\ phase' = phase /\ Post("stream")
          /\ probe_count' = IF probe_on THEN probe_count + 1 ELSE probe_count
          /\ source' = "failing" /\ flow_ok' = FALSE
          /\ UNCHANGED <<probe_on, probe_error>>
      BY <1>5 DEF FrameFails, ProbePasses, RenderError, RenderRefuse, CropError,
                  WriteError
    <2>2. SinkInv'
      BY <2>1, RenderErrorInv DEF RunInv
    <2>3. RunTypeOK'
      <3>1. TypeOK' /\ flow_ok' \in BOOLEAN
        BY <2>1, <2>2 DEF SinkInv
      <3>2. sent' \in Nat /\ probe_count' \in Nat
        BY <1>1, <1>2, <2>1
      <3> QED
        BY <1>1, <2>1, <3>1, <3>2 DEF RunInv, RunTypeOK
    <2>4. main = "polling" => bus' = <<"stream">>
      BY <1>2, <2>1 DEF Post
    <2>5. BusInv'
      BY <1>1, <1>2, <2>1, <2>4 DEF BusInv, Completed, Messages
    <2>6. CountInv'
      BY <1>1, <1>2, <2>1 DEF RunInv, CountInv, Completed, Counted
    <2> QED
      BY <1>1, <2>1, <2>2, <2>3, <2>5, <2>6, StreamingKeeps DEF RunInv
  <1> QED
    BY <1>3, <1>4, <1>5

\* Appending keeps the first message, and makes a bus non-empty.
LEMMA PostKeepsHead ==
    ASSUME bus \in Seq(Messages), NEW message \in Messages, Post(message)
    PROVE  /\ bus' # <<>> /\ bus' \in Seq(Messages)
           /\ Head(bus') = IF bus = <<>> THEN message ELSE Head(bus)
  BY DEF Post

LEMMA UpstreamInv ==
    ASSUME RunInv, UpstreamFails \/ SourceReportsError \/ SourceEnds
    PROVE  RunInv'
  <1> USE DEF mainVars, reportVars
  <1>1. /\ Streaming /\ main \in {"polling", "unwinding", "draining", "closing"}
        /\ source \in {"pushing", "failing"} /\ source' \in {"failing", "eos"}
        /\ UNCHANGED <<sinkVarsButBus, mainVars, probeVars, sent, reportVars>>
    BY DEF UpstreamFails, SourceReportsError, SourceEnds, Streaming, sinkVars,
           sinkVarsButBus
  <1>2. main \notin Completed /\ bus \in Seq(Messages)
    BY <1>1 DEF RunInv, BusInv, SinkInv, TypeOK
  <1>3. \/ /\ UNCHANGED <<bus, flow_ok>> /\ source = "pushing" /\ source' = "eos"
        \/ /\ bus' = bus \/ \E domain \in Messages \ {"eos"} : Post(domain)
           /\ flow_ok' = FALSE /\ source = "pushing" /\ source' = "failing"
        \/ /\ Post("stream") /\ source = "failing" /\ flow_ok' = flow_ok
    BY DEF UpstreamFails, SourceReportsError, SourceEnds, sinkVars
  <1>4. /\ bus' \in Seq(Messages)
        /\ \/ bus' = bus /\ flow_ok' = flow_ok /\ source = "pushing"
           \/ bus' = bus /\ source = "pushing" /\ source' = "failing"
           \/ /\ bus' # <<>>
              /\ bus = <<>> => Head(bus') # "eos"
              /\ bus # <<>> => Head(bus') = Head(bus)
    <2>1. ASSUME NEW domain \in Messages \ {"eos"}, Post(domain)
          PROVE  /\ bus' \in Seq(Messages)
                 /\ bus' # <<>>
                 /\ bus = <<>> => Head(bus') # "eos"
                 /\ bus # <<>> => Head(bus') = Head(bus)
      BY <1>2, <2>1, PostKeepsHead
    <2>2. "stream" \in Messages \ {"eos"}
      BY DEF Messages
    <2> QED
      BY <1>2, <1>3, <2>1, <2>2
  <1>5. SinkInv'
    BY <1>1, <1>4, SinkBusOnly DEF RunInv
  <1>6. RunTypeOK'
    <2>1. TypeOK' /\ flow_ok' \in BOOLEAN
      BY <1>3, <1>5 DEF RunInv, SinkInv, RunTypeOK
    <2> QED
      BY <1>1, <2>1 DEF RunInv, RunTypeOK, probeVars
  <1>7. BusInv'
    <2>1. failed' = failed /\ phase' = phase /\ main' = main
      BY <1>1 DEF sinkVarsButBus
    <2>2. main = "polling" /\ flow_ok' => bus' = bus /\ flow_ok /\ source = "pushing"
      BY <1>3 DEF RunInv, BusInv
    <2>3. main = "polling" /\ ~flow_ok' =>
            IF bus' = <<>> THEN source' = "failing" ELSE Head(bus') # "eos"
      BY <1>1, <1>4 DEF RunInv, BusInv
    <2>4. failed => ~flow_ok'
      BY <1>3 DEF RunInv, BusInv
    <2>5. source' = "failing" => ~flow_ok'
      BY <1>3 DEF RunInv, BusInv
    <2> QED
      BY <1>1, <1>2, <2>1, <2>2, <2>3, <2>4, <2>5 DEF RunInv, BusInv, Completed
  <1>8. CountInv'
    BY <1>1, <1>2, <1>3 DEF RunInv, CountInv, Completed, Counted, sinkVarsButBus,
                            counters, probeVars
  <1>9. phase' = phase
    BY <1>1 DEF sinkVarsButBus
  <1> QED
    BY <1>1, <1>5, <1>6, <1>7, <1>8, <1>9, StreamingKeeps DEF RunInv

\* When EOS reaches the sink, the source is done; when it reaches the bus, the
\* bus was empty only if no flow error came before.
LEMMA EosArrivesInv ==
    ASSUME RunInv, EosArrives
    PROVE  RunInv'
  <1> USE DEF mainVars, reportVars
  <1>1. /\ Streaming /\ main \in {"polling", "unwinding", "draining", "closing"}
        /\ source = "eos" /\ source' = "ended"
        /\ Eos
        /\ UNCHANGED <<mainVars, probeVars, sent, flow_ok, reportVars>>
    BY DEF EosArrives, Streaming
  <1>2. main \notin Completed /\ bus \in Seq(Messages)
    BY <1>1 DEF RunInv, BusInv, SinkInv, TypeOK
  <1>3. /\ UNCHANGED <<counters, failed>>
        /\ bus' = bus \/ Post("stream")
        /\ phase' \in {"role", "forward", "refused"}
    BY <1>1 DEF Eos, EosAfterFailure, EosWithoutFrames, EosFlushed, EosFlushError
  <1>4. bus # <<>> => bus' # <<>> /\ Head(bus') = Head(bus)
    BY <1>2, <1>3, PostKeepsHead DEF Messages
  <1>5. SinkInv'
    BY <1>1, EosInv DEF RunInv
  <1>6. RunTypeOK'
    BY <1>1, <1>5 DEF RunInv, SinkInv, RunTypeOK, probeVars
  <1>7. BusInv'
    BY <1>1, <1>2, <1>3, <1>4 DEF RunInv, BusInv, Completed
  <1>8. CountInv'
    BY <1>1, <1>2, <1>3 DEF RunInv, CountInv, Completed, Counted, counters, probeVars
  <1> QED
    BY <1>1, <1>3, <1>5, <1>6, <1>7, <1>8, StreamingKeeps DEF RunInv

LEMMA SinkPublishesInv ==
    ASSUME RunInv, SinkPublishes
    PROVE  RunInv'
  <1> USE DEF mainVars, reportVars
  <1>1. /\ Streaming /\ main \in {"polling", "unwinding", "draining", "closing"}
        /\ Publication
        /\ UNCHANGED <<mainVars, probeVars, sourceVars, reportVars>>
    BY DEF SinkPublishes, Streaming
  <1>2. bus \in Seq(Messages)
    BY DEF RunInv, SinkInv, TypeOK
  <1>3. /\ UNCHANGED <<counters, failed>>
        /\ bus' = bus \/ \E message \in Messages : Post(message)
        /\ phase \in {"role", "meta", "forward"}
        /\ phase' \in {"meta", "forward", "eos", "refused"}
    BY <1>1 DEF Publication, RenameRole, RenameMeta, Withdraw, ForwardEos, Messages
  <1>4. bus # <<>> => bus' # <<>> /\ Head(bus') = Head(bus)
    BY <1>2, <1>3, PostKeepsHead
  <1>5. SinkInv'
    BY <1>1, PublicationInv DEF RunInv
  <1>6. RunTypeOK'
    BY <1>1, <1>5 DEF RunInv, SinkInv, RunTypeOK, probeVars, sourceVars
  <1>7. source = "ended"
    BY <1>3 DEF RunInv, BusInv
  <1>8. BusInv'
    BY <1>1, <1>3, <1>4, <1>7 DEF RunInv, BusInv, Completed, sourceVars
  <1>9. CountInv'
    BY <1>1, <1>3 DEF RunInv, CountInv, Completed, Counted, counters, probeVars,
                      sourceVars
  <1> QED
    BY <1>1, <1>3, <1>5, <1>6, <1>8, <1>9, StreamingKeeps DEF RunInv

LEMMA StreamInv ==
    ASSUME RunInv, Stream
    PROVE  RunInv'
  BY FrameInv, UpstreamInv, EosArrivesInv, SinkPublishesInv DEF Stream
-----------------------------------------------------------------------------
(* Polling *)

\* Which conditions an iteration of the loop may leave on.
LEMMA PollInv ==
    ASSUME RunInv, Poll
    PROVE  RunInv'
  <1>1. /\ main = "polling"
        /\ PopBus
        /\ UNCHANGED <<sinkVarsButBus, exit, attempt, late, probeVars, sourceVars,
                       reportVars>>
        /\ \/ main' = "draining" /\ Message = "eos" /\ verdict' = verdict
           \/ main' = "unwinding" /\ verdict' \in {"dependency", "fatal", "retryable"}
    BY DEF Poll, PollProbeError, PollErrorMessage, PollEos, PollTimeout, Throw,
           ExitCodeOf
  <1>2. SinkInv'
    BY <1>1, PopTyped, SinkBusOnly DEF RunInv, SinkInv, TypeOK
  <1>3. RunTypeOK'
    BY <1>1, <1>2 DEF RunInv, SinkInv, RunTypeOK, probeVars, sourceVars, reportVars
  <1>4. BusInv'
    <2>1. Message = "eos" => bus # <<>> /\ Head(bus) = "eos"
      BY DEF Message
    <2>2. main' = "draining" => source = "ended" /\ flow_ok
      BY <1>1, <2>1 DEF RunInv, BusInv
    <2> QED
      BY <1>1, <2>2 DEF RunInv, BusInv, Completed, sinkVarsButBus, sourceVars
  <1>5. CountInv'
    BY <1>1 DEF RunInv, CountInv, Completed, Counted, sinkVarsButBus, counters,
                probeVars, sourceVars, reportVars
  <1>6. StageInv'
    BY <1>1 DEF RunInv, StageInv, Stopped, sinkVarsButBus, reportVars
  <1>7. ResultInv'
    BY <1>1, NoResultYet DEF reportVars
  <1> QED
    BY <1>2, <1>3, <1>4, <1>5, <1>6, <1>7 DEF RunInv

LEMMA DeadlineInv ==
    ASSUME RunInv, DeadlinePasses
    PROVE  RunInv'
  <1>1. /\ main = "polling" /\ late' = TRUE
        /\ UNCHANGED <<sinkVars, main, verdict, exit, attempt, probeVars, sourceVars,
                       reportVars>>
    BY DEF DeadlinePasses
  <1>2. SinkInv'
    BY <1>1, SinkUntouched DEF RunInv
  <1>3. RunTypeOK'
    BY <1>1, <1>2 DEF RunInv, SinkInv, RunTypeOK, probeVars, sourceVars, reportVars
  <1>4. BusInv' /\ CountInv' /\ StageInv'
    BY <1>1 DEF RunInv, BusInv, CountInv, StageInv, Completed, Counted, Stopped,
                sinkVars, counters, probeVars, sourceVars, reportVars
  <1>5. ResultInv'
    BY <1>1, NoResultYet DEF reportVars
  <1> QED
    BY <1>2, <1>3, <1>4, <1>5 DEF RunInv
-----------------------------------------------------------------------------
(* Draining and cleanup() *)

LEMMA DrainInv ==
    ASSUME RunInv, Drain \/ DrainFails
    PROVE  RunInv'
  <1>1. /\ main = "draining"
        /\ \/ /\ main' = "closing" /\ ~probe_error /\ verdict' = verdict
              /\ total' = probe_count
           \/ /\ main' = "unwinding" /\ verdict' \in {"retryable", "dependency"}
              /\ total' = total
        /\ UNCHANGED <<sinkVars, exit, attempt, late, probeVars, sourceVars, output,
                       plan_json, result_json>>
    BY DEF Drain, DrainFails, Throw, reportVars
  <1>2. SinkInv'
    BY <1>1, SinkUntouched DEF RunInv
  <1>3. RunTypeOK'
    BY <1>1, <1>2 DEF RunInv, SinkInv, RunTypeOK, probeVars, sourceVars
  <1>4. BusInv'
    BY <1>1 DEF RunInv, BusInv, Completed, sinkVars, sourceVars
  <1>5. CountInv'
    BY <1>1 DEF RunInv, CountInv, Completed, Counted, sinkVars, counters, probeVars,
                sourceVars
  <1>6. StageInv'
    BY <1>1 DEF RunInv, StageInv, Stopped, sinkVars
  <1>7. ResultInv'
    BY <1>1, NoResultYet
  <1> QED
    BY <1>2, <1>3, <1>4, <1>5, <1>6, <1>7 DEF RunInv

LEMMA RemoveProbeInv ==
    ASSUME RunInv, RemoveProbe
    PROVE  RunInv'
  <1> USE DEF mainVars
  <1>1. /\ main \in {"unwinding", "closing"} /\ probe_on' = FALSE
        /\ UNCHANGED <<sinkVars, mainVars, probe_count, probe_error, sourceVars,
                       reportVars>>
    BY DEF RemoveProbe
  <1>2. SinkInv'
    BY <1>1, SinkUntouched DEF RunInv
  <1>3. RunTypeOK'
    <2>1. TypeOK' /\ probe_on' \in BOOLEAN
      BY <1>1, <1>2 DEF SinkInv
    <2> QED
      BY <1>1, <2>1 DEF RunInv, RunTypeOK, sourceVars, reportVars
  <1>4. BusInv' /\ CountInv' /\ StageInv'
    BY <1>1 DEF RunInv, BusInv, CountInv, StageInv, Completed, Counted, Stopped,
                sinkVars, counters, sourceVars, reportVars
  <1>5. ResultInv'
    BY <1>1, NoResultYet DEF reportVars
  <1> QED
    BY <1>2, <1>3, <1>4, <1>5 DEF RunInv

LEMMA SetNullInv ==
    ASSUME RunInv, SetNull
    PROVE  RunInv'
  <1>1. /\ main \in {"unwinding", "closing"} /\ ~probe_on
        /\ UNCHANGED <<verdict, attempt, late, probeVars, sourceVars, reportVars>>
        /\ IF phase \in {"null", "stuck"} THEN UNCHANGED sinkVars ELSE Stop
        /\ main = "unwinding" => main' = "down" /\ exit' = verdict
        /\ main = "closing" => main' = "verifying" /\ exit' = exit
    BY DEF SetNull, Exit
  <1>2. SinkInv'
    BY <1>1, StopInv, SinkUntouched DEF RunInv
  <1>3. /\ UNCHANGED <<counters, failed, bus>>
        /\ phase' \in {phase, "stopped"}
        /\ main = "closing" => phase' = "stopped"
    BY <1>1 DEF Stop, sinkVars, RunInv, StageInv
  <1>4. RunTypeOK'
    BY <1>1, <1>2 DEF RunInv, SinkInv, RunTypeOK, probeVars, sourceVars, reportVars
  <1>5. BusInv'
    BY <1>1, <1>3 DEF RunInv, BusInv, Completed, sourceVars
  <1>6. CountInv'
    BY <1>1, <1>3 DEF RunInv, CountInv, Completed, Counted, counters, probeVars,
                      sourceVars, reportVars
  <1>7. StageInv'
    BY <1>1, <1>3 DEF RunInv, StageInv, Stopped, reportVars
  <1>8. exit' = exit \/ exit' \in {"dependency", "retryable", "fatal"}
    BY <1>1 DEF RunInv, StageInv
  <1>9. ResultInv'
    BY <1>1, <1>8, NoResultYet DEF reportVars
  <1> QED
    BY <1>2, <1>4, <1>5, <1>6, <1>7, <1>9 DEF RunInv
-----------------------------------------------------------------------------
(* Verifying the files and writing the result *)

\* What a stopped sink and an untroubled run have left in the work directory.
LEMMA StoppedDisk ==
    ASSUME RunInv, main \in Stopped
    PROVE  /\ phase = "stopped" /\ frame_count = sent /\ total = sent
           /\ flow_ok /\ ~failed /\ ~probe_error
           /\ ~role_partial.exists /\ ~meta_partial.exists
           /\ role_final.exists \/ meta_final.exists =>
                /\ total > 0
                /\ Paired(role_final, meta_final, total)
  <1>1. phase = "stopped"
    BY DEF RunInv, StageInv
  <1>2. flow_ok /\ ~failed
    BY DEF RunInv, BusInv, Stopped, Completed
  <1>3. ~probe_error /\ total = sent /\ frame_count = sent
    BY <1>2 DEF RunInv, CountInv, Stopped, Completed, Counted
  <1>4. /\ ~role_partial.exists /\ ~meta_partial.exists
        /\ ~published => FinalsAbsent
        /\ published => frame_count > 0 /\ Paired(role_final, meta_final, frame_count)
    BY <1>1 DEF RunInv, SinkInv
  <1> QED
    BY <1>1, <1>2, <1>3, <1>4 DEF FinalsAbsent

\* The steps after cleanup() leave everything but the outputs alone.
LEMMA ReportingKeeps ==
    ASSUME RunInv, main \in Stopped, main' \in Stopped \cup {"down"},
           UNCHANGED <<sinkVars, verdict, attempt, late, probeVars, sourceVars, total>>
    PROVE  SinkInv' /\ BusInv' /\ CountInv'
  <1>1. SinkInv'
    BY SinkUntouched DEF RunInv
  <1>2. BusInv'
    BY DEF RunInv, BusInv, Stopped, Completed, sinkVars, sourceVars
  <1>3. CountInv'
    BY DEF RunInv, CountInv, Stopped, Completed, Counted, sinkVars, counters,
           probeVars, sourceVars
  <1> QED
    BY <1>1, <1>2, <1>3

LEMMA VerifyInv ==
    ASSUME RunInv, Verify \/ VerifyFails
    PROVE  RunInv'
  <1>1. /\ main = "verifying" /\ main \in Stopped
        /\ main' \in {"planning", "down"} /\ main' \in Stopped \cup {"down"}
        /\ UNCHANGED <<sinkVars, verdict, attempt, late, probeVars, sourceVars, total,
                       plan_json, result_json>>
    BY DEF Verify, VerifyFails, Exit, Stopped, reportVars
  <1>2. SinkInv' /\ BusInv' /\ CountInv'
    BY <1>1, ReportingKeeps
  <1>3. CASE Verify
    <2>1. /\ main' = "planning" /\ exit' = exit /\ Verified
          /\ output' = [role |-> role_final.lines, meta |-> meta_final.lines]
      BY <1>3 DEF Verify
    <2>2. output' \in [role: Seq(RoleLines), meta: Seq(MetaLines)]
      BY <2>1 DEF RunInv, SinkInv, TypeOK, FileOf
    <2>3. RunTypeOK'
      BY <1>1, <1>2, <2>1, <2>2 DEF RunInv, SinkInv, RunTypeOK, probeVars, sourceVars
    <2>4. StageInv'
      BY <1>1, <2>1 DEF RunInv, StageInv, Stopped, Verified, sinkVars, finals
    <2>5. ResultInv'
      BY <1>1, <2>1, NoResultYet
    <2> QED
      BY <1>2, <2>3, <2>4, <2>5 DEF RunInv
  <1>4. CASE VerifyFails
    <2>1. /\ main' = "down" /\ output' = output
          /\ exit' = "no_result" => total = 0
          /\ exit' \in {"no_result", "fatal"}
      BY <1>4 DEF VerifyFails, Exit, reportVars
    <2>2. RunTypeOK'
      BY <1>1, <1>2, <2>1 DEF RunInv, SinkInv, RunTypeOK, probeVars, sourceVars
    <2>3. StageInv'
      BY <1>1, <2>1 DEF RunInv, StageInv, Stopped
    <2>4. ~result_json'.exists /\ ~plan_json'
      BY <1>1 DEF RunInv, StageInv
    <2>5. total = 0 => ~OutputExists'
      BY <1>1, <2>4, StoppedDisk DEF OutputExists, sinkVars, partials, finals
    <2>6. ResultInv'
      BY <2>1, <2>4, <2>5 DEF ResultInv
    <2> QED
      BY <1>2, <2>2, <2>3, <2>6 DEF RunInv
  <1> QED
    BY <1>3, <1>4

LEMMA WriteInv ==
    ASSUME RunInv, WritePlan \/ WriteResult \/ WriteFails \/ Report
    PROVE  RunInv'
  <1>1. /\ main \in Stopped /\ main # "verifying"
        /\ main' \in Stopped \cup {"down"} /\ main' # "verifying"
        /\ UNCHANGED <<sinkVars, verdict, attempt, late, probeVars, sourceVars, total,
                       output>>
        /\ plan_json' \in BOOLEAN
    BY DEF WritePlan, WriteResult, WriteFails, Report, Exit, Stopped, reportVars,
           RunInv, RunTypeOK
  <1>2. SinkInv' /\ BusInv' /\ CountInv'
    BY <1>1, ReportingKeeps
  <1>3. CASE WritePlan
    <2>1. /\ main = "planning" /\ main' = "resulting" /\ UNCHANGED <<exit, result_json>>
      BY <1>3 DEF WritePlan
    <2>2. RunTypeOK'
      BY <1>1, <1>2, <2>1 DEF RunInv, SinkInv, RunTypeOK, probeVars, sourceVars
    <2>3. StageInv'
      BY <1>1, <2>1 DEF RunInv, StageInv, Stopped, Verified, sinkVars, finals
    <2>4. ResultInv'
      BY <2>1, NoResultYet
    <2> QED
      BY <1>2, <2>2, <2>3, <2>4 DEF RunInv
  <1>4. CASE WriteResult
    <2>1. /\ main = "resulting" /\ main' = "reporting" /\ exit' = exit
          /\ result_json' = [exists |-> TRUE, frame_count |-> total,
                             role |-> output.role, meta |-> output.meta]
      BY <1>4 DEF WriteResult
    <2>2. /\ total \in Nat /\ total > 0
          /\ output \in [role: Seq(RoleLines), meta: Seq(MetaLines)]
          /\ output = [role |-> role_final.lines, meta |-> meta_final.lines]
          /\ role_final.exists
      BY <2>1 DEF RunInv, RunTypeOK, StageInv, Verified
    <2>3. result_json' \in [exists: BOOLEAN, frame_count: Nat,
                            role: Seq(RoleLines), meta: Seq(MetaLines)]
      BY <2>1, <2>2
    <2>4. RunTypeOK'
      BY <1>1, <1>2, <2>1, <2>3 DEF RunInv, SinkInv, RunTypeOK, probeVars, sourceVars
    <2>5. StageInv'
      BY <1>1, <2>1 DEF RunInv, StageInv, Stopped, sinkVars
    <2>6. /\ Paired(role_final, meta_final, total) /\ total = sent
          /\ flow_ok /\ ~failed /\ ~probe_error
      BY <1>1, <2>2, StoppedDisk
    <2>7. UNCHANGED <<role_final, meta_final, sent, flow_ok, failed, probe_error>>
      BY <1>1 DEF sinkVars, finals, sourceVars, probeVars
    <2>8. Paired(role_final, meta_final, result_json.frame_count)'
      BY <2>1, <2>6, <2>7
    <2>9. exit' # "no_result"
      BY <2>1 DEF RunInv, ResultInv
    <2> HIDE DEF Paired
    <2>10. ResultInv'
      BY <2>1, <2>2, <2>6, <2>7, <2>8, <2>9 DEF ResultInv
    <2> QED
      BY <1>2, <2>4, <2>5, <2>10 DEF RunInv
  <1>5. CASE WriteFails
    <2>1. /\ main \in {"planning", "resulting"} /\ main' = "down" /\ exit' = "fatal"
          /\ UNCHANGED <<plan_json, result_json>>
      BY <1>5 DEF WriteFails, Exit, reportVars
    <2>2. RunTypeOK' /\ StageInv'
      BY <1>1, <1>2, <2>1 DEF RunInv, SinkInv, RunTypeOK, StageInv, Stopped, probeVars,
                              sourceVars
    <2>3. ResultInv'
      BY <2>1, NoResultYet
    <2> QED
      BY <1>2, <2>2, <2>3 DEF RunInv
  <1>6. CASE Report
    <2>1. /\ main = "reporting" /\ main' = "down" /\ exit' = "ok"
          /\ UNCHANGED <<plan_json, result_json>>
      BY <1>6 DEF Report, Exit, reportVars
    <2>2. RunTypeOK' /\ StageInv'
      BY <1>1, <1>2, <2>1 DEF RunInv, SinkInv, RunTypeOK, StageInv, Stopped, probeVars,
                              sourceVars
    <2>3. UNCHANGED <<role_final, meta_final, sent, flow_ok, failed, probe_error>>
      BY <1>1 DEF sinkVars, finals, sourceVars, probeVars
    <2>4. ResultInv'
      BY <2>1, <2>3 DEF RunInv, ResultInv
    <2> QED
      BY <1>2, <2>2, <2>4 DEF RunInv
  <1> QED
    BY <1>3, <1>4, <1>5, <1>6
-----------------------------------------------------------------------------
(* The specification *)

\* A kill freezes everything but the process itself.
LEMMA KillInv ==
    ASSUME RunInv, Kill
    PROVE  RunInv'
  <1>1. /\ main' = "down" /\ exit' = "killed"
        /\ UNCHANGED <<sinkVars, verdict, attempt, late, probeVars, sourceVars, reportVars>>
    BY DEF Kill, Exit
  <1>2. SinkInv'
    BY <1>1, SinkUntouched DEF RunInv
  <1>3. RunTypeOK'
    BY <1>1, <1>2 DEF RunInv, SinkInv, RunTypeOK, probeVars, sourceVars, reportVars
  <1>4. BusInv' /\ CountInv' /\ StageInv'
    BY <1>1 DEF RunInv, BusInv, CountInv, StageInv, Completed, Counted, Stopped,
                sinkVars, counters, probeVars, sourceVars, reportVars
  <1>5. ResultInv'
    BY <1>1 DEF RunInv, ResultInv, sinkVars, finals, probeVars, sourceVars, reportVars
  <1> QED
    BY <1>2, <1>3, <1>4, <1>5 DEF RunInv

LEMMA RunInitInv == RunInit => RunInv
  <1> SUFFICES ASSUME RunInit PROVE RunInv
    OBVIOUS
  <1>1. SinkInv
    BY InitInv DEF RunInit
  <1>2. /\ NoOutput \in [role: Seq(RoleLines), meta: Seq(MetaLines)]
        /\ NoResult \in [exists: BOOLEAN, frame_count: Nat,
                         role: Seq(RoleLines), meta: Seq(MetaLines)]
        /\ ~NoResult.exists
    BY DEF NoOutput, NoResult
  <1>3. RunTypeOK
    BY <1>1, <1>2 DEF RunInit, SinkInv, RunTypeOK
  <1>4. BusInv /\ CountInv /\ StageInv /\ ResultInv
    BY <1>2 DEF RunInit, Init, BusInv, CountInv, StageInv, ResultInv, Completed,
                Counted, Stopped
  <1> QED
    BY <1>1, <1>3, <1>4 DEF RunInv

LEMMA RunStepInv == RunInv /\ [RunNext]_vars => RunInv'
  <1> SUFFICES ASSUME RunInv, [RunNext]_vars PROVE RunInv'
    OBVIOUS
  <1>1. CASE Main
    BY <1>1, LaunchInv, PollInv, DrainInv, RemoveProbeInv, SetNullInv, VerifyInv,
       WriteInv DEF Main
  <1>2. CASE UNCHANGED vars
    <2>1. UNCHANGED <<sinkVars, mainVars, probeVars, sourceVars, reportVars>>
      BY <1>2 DEF vars
    <2>2. SinkInv'
      BY <2>1, SinkUntouched DEF RunInv
    <2>3. RunTypeOK'
      BY <2>1, <2>2 DEF RunInv, SinkInv, RunTypeOK, mainVars, probeVars, sourceVars,
                        reportVars
    <2>4. BusInv' /\ CountInv' /\ StageInv'
      BY <2>1 DEF RunInv, BusInv, CountInv, StageInv, Verified, sinkVars, counters,
                  finals, mainVars, probeVars, sourceVars, reportVars
    <2>5. ResultInv'
      BY <2>1 DEF RunInv, ResultInv, OutputExists, sinkVars, partials, finals, mainVars,
                  probeVars, sourceVars, reportVars
    <2> QED
      BY <2>2, <2>3, <2>4, <2>5 DEF RunInv
  <1> QED
    BY <1>1, <1>2, RefuseInv, BeginInv, StreamInv, DeadlineInv, KillInv DEF RunNext

LEMMA RunInvariant == RunSpec => []RunInv
  BY RunInitInv, RunStepInv, PTL DEF RunSpec
-----------------------------------------------------------------------------
(* Theorems *)

\* The state of a run keeps its types, whatever the attempts before it left.
THEOREM RunTypeCorrect == RunSpec => []RunTypeOK
  <1>1. RunInv => RunTypeOK
    BY DEF RunInv
  <1> QED
    BY <1>1, RunInvariant, PTL

\* Exit code 0: nothing was dropped, refused or lost between filter and file.
THEOREM OkCorrect == RunSpec => []OkMeansEveryFrame
  <1>1. RunInv => OkMeansEveryFrame
    BY DEF RunInv, ResultInv, OkMeansEveryFrame
  <1> QED
    BY <1>1, RunInvariant, PTL

\* The NO_RESULT exit code: the work directory is as free as it was before.
THEOREM NoResultCorrect == RunSpec => []NoResultLeavesNothing
  <1>1. RunInv => NoResultLeavesNothing
    BY DEF RunInv, ResultInv, NoResultLeavesNothing
  <1> QED
    BY <1>1, RunInvariant, PTL

\* What one step may do to the two final files.
LEMMA FinalsStep ==
    ASSUME RunInv, [RunNext]_vars
    PROVE  \/ UNCHANGED finals
           \/ RenameRole \/ RenameMeta \/ Withdraw
  <1>1. CASE Stream
    <2>1. CASE \E f \in Frames : FrameDropped(f) \/ FrameAccepted(f) \/ FrameFails(f)
      BY <2>1 DEF FrameDropped, FrameAccepted, FrameFails, RenderAccept, RenderError,
                  RenderRefuse, CropError, WriteError, sinkVars
    <2>2. CASE UpstreamFails \/ SourceReportsError \/ SourceEnds
      BY <2>2 DEF UpstreamFails, SourceReportsError, SourceEnds, sinkVars
    <2>3. CASE EosArrives
      BY <2>3 DEF EosArrives, Eos, EosAfterFailure, EosWithoutFrames, EosFlushed,
                  EosFlushError
    <2>4. CASE SinkPublishes
      BY <2>4 DEF SinkPublishes, Publication, ForwardEos
    <2> QED
      BY <1>1, <2>1, <2>2, <2>3, <2>4 DEF Stream
  <1>2. CASE Main
    <2>1. CASE Launch
      BY <2>1 DEF Launch, LaunchOk, LaunchOtherFails, LaunchSinkFails, LinkFails,
                  StartOk, StartFail, sinkVars
    <2>2. CASE Poll
      BY <2>2 DEF Poll, PollProbeError, PollErrorMessage, PollEos, PollTimeout,
                  sinkVarsButBus
    <2>3. CASE SetNull
      BY <2>3 DEF SetNull, Stop, sinkVars
    <2>4. CASE \/ Drain \/ DrainFails \/ RemoveProbe \/ Verify \/ VerifyFails
               \/ WritePlan \/ WriteResult \/ WriteFails \/ Report
      BY <2>4 DEF Drain, DrainFails, RemoveProbe, Verify, VerifyFails, WritePlan,
                  WriteResult, WriteFails, Report, sinkVars
    <2> QED
      BY <1>2, <2>1, <2>2, <2>3, <2>4 DEF Main
  <1>3. CASE \/ RefuseExisting \/ RefuseUnprepared \/ Begin \/ DeadlinePasses \/ Kill
             \/ UNCHANGED vars
    BY <1>3 DEF RefuseExisting, RefuseUnprepared, Begin, DeadlinePasses, Kill, vars,
                sinkVars
  <1> QED
    BY <1>1, <1>2, <1>3 DEF RunNext

\* A published file is never overwritten, by this process or a later one.
THEOREM FinalsWriteOnceCorrect == RunSpec => FinalsWriteOnce
  <1> DEFINE Kept ==
        /\ role_final.exists =>
             \/ role_final' = role_final
             \/ phase = "meta" /\ ~role_final'.exists
        /\ meta_final.exists => meta_final' = meta_final
  <1>1. ASSUME RunInv, [RunNext]_vars
        PROVE  Kept
    <2>1. CASE UNCHANGED finals
      BY <2>1 DEF finals
    <2>2. CASE RenameRole
      BY <1>1, <2>2 DEF RunInv, SinkInv, FinalsAbsent, RenameRole
    <2>3. CASE RenameMeta
      BY <1>1, <2>3 DEF RunInv, SinkInv, RenameMeta
    <2>4. CASE Withdraw
      <3>1. ~meta_final.exists /\ (phase = "role" => ~role_final.exists)
        BY <1>1, <2>4 DEF RunInv, SinkInv, FinalsAbsent, Withdraw
      <3>2. phase \in {"role", "meta"} /\ ~role_final'.exists
        BY <2>4 DEF Withdraw, Absent
      <3> QED
        BY <3>1, <3>2
    <2> QED
      BY <1>1, <2>1, <2>2, <2>3, <2>4, FinalsStep
  <1>2. RunInv /\ [RunNext]_vars => [Kept]_vars
    BY <1>1
  <1> QED
    BY <1>2, RunInvariant, PTL DEF RunSpec, FinalsWriteOnce
-----------------------------------------------------------------------------
(* The run implements Delivery *)

\* Every step that is not WriteResult keeps result.json.
LEMMA ResultStep ==
    ASSUME RunInv, [RunNext]_vars, ~WriteResult
    PROVE  UNCHANGED result_json
  <1>1. CASE Stream
    BY <1>1 DEF Stream, FrameDropped, FrameAccepted, FrameFails, UpstreamFails,
                SourceReportsError, SourceEnds, EosArrives, SinkPublishes, reportVars
  <1>2. CASE Main
    BY <1>2 DEF Main, Launch, LaunchOk, LaunchOtherFails, LaunchSinkFails, LinkFails,
                Poll, PollProbeError, PollErrorMessage, PollEos, PollTimeout, Drain,
                DrainFails, RemoveProbe, SetNull, Verify, VerifyFails, WritePlan,
                WriteFails, Report, reportVars
  <1>3. CASE \/ RefuseExisting \/ RefuseUnprepared \/ Begin \/ DeadlinePasses \/ Kill
             \/ UNCHANGED vars
    BY <1>3 DEF RefuseExisting, RefuseUnprepared, Begin, DeadlinePasses, Kill, vars,
                reportVars
  <1> QED
    BY <1>1, <1>2, <1>3 DEF RunNext

\* Once result.json exists, neither it nor the files it names change.
LEMMA DeliveredStays ==
    ASSUME RunInv, [RunNext]_vars, result_json.exists
    PROVE  UNCHANGED <<result_json, finals>>
  <1>1. ~WriteResult
    BY DEF WriteResult, RunInv, StageInv
  <1>2. role_final.exists /\ meta_final.exists
    BY DEF RunInv, ResultInv, Paired
  <1>3. phase \notin {"role", "meta"}
    BY <1>2 DEF RunInv, SinkInv, FinalsAbsent
  <1>4. ~RenameRole /\ ~RenameMeta /\ ~Withdraw
    BY <1>3 DEF RenameRole, RenameMeta, Withdraw
  <1> QED
    BY <1>1, <1>4, ResultStep, FinalsStep

\* The same, of an arbitrary pair of files.
LEMMA PairedIsProduct ==
    ASSUME NEW role, NEW meta, NEW n \in Nat, n > 0, Paired(role, meta, n)
    PROVE  CompletePair([exists |-> TRUE, frame_count |-> n,
                      role |-> role.lines, meta |-> meta.lines,
                      named |-> [role |-> role.lines, meta |-> meta.lines]])
  <1>1. Len(role.lines) = n /\ Len(meta.lines) = n
    BY DEF Paired
  <1>2. ASSUME NEW i \in 1 .. n
        PROVE  /\ role.lines[i].frame_id = i - 1
               /\ meta.lines[i].frame_id = i - 1
               /\ meta.lines[i].target_count = Len(role.lines[i].items)
    <2>1. /\ role.lines[i].frame_id = i - 1
          /\ meta.lines[i] = [frame_id |-> i - 1,
                              target_count |-> Len(role.lines[i].items)]
      BY DEF Paired
    <2> QED
      BY <2>1
  <1> QED
    BY <1>1, <1>2 DEF CompletePair

\* What a written result makes visible is a product.
LEMMA WrittenIsProduct == RunInv /\ result_json.exists => CompletePair(Visible)
  <1> SUFFICES ASSUME RunInv, result_json.exists
               PROVE  CompletePair(Visible)
    OBVIOUS
  <1>1. /\ result_json.frame_count \in Nat
        /\ result_json.frame_count > 0
        /\ Paired(role_final, meta_final, result_json.frame_count)
        /\ result_json.role = role_final.lines
        /\ result_json.meta = meta_final.lines
    BY DEF RunInv, RunTypeOK, ResultInv
  <1> QED
    BY <1>1, PairedIsProduct DEF Visible

\* In one work directory, through any sequence of runs, kills and failures,
\* at most one product is delivered, it is complete, and it stays.
THEOREM DeliveryCorrect == RunSpec => DeliveryImplemented
  <1>1. RunInit => D!Init
    BY DEF RunInit, NoResult, Visible, D!Init, D!Nothing
  <1>2. (RunInv /\ result_json.exists => CompletePair(Visible))'
    BY WrittenIsProduct, PTL
  <1>3. ASSUME RunInv, RunInv', [RunNext]_vars
        PROVE  [D!Deliver]_Visible
    <2>1. CASE result_json.exists
      BY <1>3, <2>1, DeliveredStays DEF Visible, finals
    <2>2. CASE ~result_json.exists /\ ~result_json'.exists
      BY <2>2 DEF Visible
    <2>3. CASE ~result_json.exists /\ result_json'.exists
      <3>1. Visible = D!Nothing
        BY <2>3 DEF Visible, D!Nothing
      <3>2. CompletePair(Visible)'
        BY <1>2, <1>3, <2>3
      <3> QED
        BY <3>1, <3>2 DEF D!Deliver
    <2> QED
      BY <2>1, <2>2, <2>3
  <1>4. RunInv /\ RunInv' /\ [RunNext]_vars => [D!Deliver]_Visible
    BY <1>3
  <1> QED
    BY <1>1, <1>4, RunInvariant, PTL DEF RunSpec, DeliveryImplemented, D!Spec
-----------------------------------------------------------------------------
(* The records of a run and their crops *)

\* What one step may do to the role file: what a handler of the sink does, or
\* nothing.  A process that is killed, and one that is begun, leaves the disk
\* as it is.
LEMMA RecordsStep ==
    ASSUME [RunNext]_vars
    PROVE  \/ \E f \in Frames : RenderAccept(f) \/ RenderError(f)
           \/ StartOk \/ StartFail \/ Eos \/ Publication \/ Stop
           \/ UNCHANGED <<role_partial, role_final, crops>>
  <1> USE DEF sinkVars, partials, finals
  <1>1. CASE RefuseExisting \/ RefuseUnprepared \/ Begin \/ DeadlinePasses \/ Kill
    BY <1>1 DEF RefuseExisting, RefuseUnprepared, Begin, DeadlinePasses, Kill
  <1>2. CASE Stream
    BY <1>2 DEF Stream, FrameDropped, FrameAccepted, FrameFails, UpstreamFails,
                SourceReportsError, SourceEnds, EosArrives, SinkPublishes
  <1>3. CASE Launch
    BY <1>3 DEF Launch, LaunchOk, LaunchOtherFails, LaunchSinkFails, LinkFails
  <1>4. CASE Poll
    BY <1>4 DEF Poll, PollProbeError, PollErrorMessage, PollEos, PollTimeout,
                sinkVarsButBus
  <1>5. CASE Drain \/ DrainFails \/ RemoveProbe \/ SetNull
    BY <1>5 DEF Drain, DrainFails, RemoveProbe, SetNull
  <1>6. CASE Verify \/ VerifyFails \/ WritePlan \/ WriteResult \/ WriteFails \/ Report
    BY <1>6 DEF Verify, VerifyFails, WritePlan, WriteResult, WriteFails, Report
  <1>7. CASE UNCHANGED vars
    BY <1>7 DEF vars
  <1> QED
    BY <1>1, <1>2, <1>3, <1>4, <1>5, <1>6, <1>7 DEF RunNext, Main

LEMMA RunStepRecords == RunInv /\ RecordsInv /\ [RunNext]_vars => RecordsInv'
  <1> SUFFICES ASSUME RunInv, RecordsInv, [RunNext]_vars PROVE RecordsInv'
    OBVIOUS
  <1>1. SinkInv
    BY DEF RunInv
  <1>2. CASE UNCHANGED <<role_partial, role_final, crops>>
    BY <1>2 DEF RecordsInv, Recorded
  <1> QED
    BY <1>1, <1>2, RecordsStep, RenderRecords, HandlerRecords

LEMMA RunRecords == RunSpec => []RecordsInv
  <1>1. RunInit => RecordsInv
    BY InitRecords DEF RunInit
  <1> QED
    BY <1>1, RunInvariant, RunStepRecords, PTL DEF RunSpec

\* Through kills, failures and retries in one work directory no file under a
\* final name ever holds an unsound record, or one that is not the number and
\* the targets of a frame the sink could accept.
THEOREM RunRecordsSound ==
    RunSpec => [](PublishedRecordsSound /\ OfFittingFrames(role_final.lines))
  <1>1. RecordsInv => PublishedRecordsSound /\ OfFittingFrames(role_final.lines)
    BY DEF RecordsInv, Recorded, PublishedRecordsSound
  <1> QED
    BY <1>1, RunRecords, PTL

\* Whatever went before, each target that result.json accounts for has its
\* crop.  (The crop directory may hold more: a retry does not clear it.)
THEOREM RunCropsPresent ==
    RunSpec => [](result_json.exists => CropsOfLines(result_json.role) \subseteq crops)
  <1>1. RunInv /\ RecordsInv /\ result_json.exists =>
            CropsOfLines(result_json.role) \subseteq crops
    BY DEF RunInv, ResultInv, RecordsInv, Recorded
  <1> QED
    BY <1>1, RunInvariant, RunRecords, PTL
-----------------------------------------------------------------------------
(* While a process runs somebody can go on *)

\* What the main thread may have to wait for: in the loop a message, an error of
\* the probe or the deadline; in cleanup() the streaming thread, which does not
\* leave the sink while it renames files.  (Whatever a thread does then is a step
\* of the specification.)
MainCanGoOn ==
    /\ main # "down"
    /\ main = "polling" => probe_error \/ bus # <<>> \/ late
    /\ main \in {"unwinding", "closing"} /\ ~probe_on => phase \notin {"role", "meta"}

StreamCanGoOn ==
    /\ Streaming
    /\ \/ source \in {"pushing", "failing"}
       \/ source = "eos" /\ phase = "open"
       \/ phase \in {"role", "meta", "forward"}

SomebodyCanGoOn == main # "down" => MainCanGoOn \/ StreamCanGoOn

\* Where the sink stands when the source is this far: EOS finds it open, and
\* behind EOS there is a message until the main thread leaves its loop.
EndInv ==
    /\ sent <= SourceFrames
    /\ main \in {"polling", "unwinding", "draining", "closing"} =>
        /\ phase # "stopped"
        /\ source \in {"pushing", "failing", "eos"} => phase = "open"
    /\ main = "polling" =>
        /\ source # "idle"
        /\ source = "ended" => phase \in {"role", "meta", "forward"} \/ bus # <<>>

LEMMA EndStep ==
    ASSUME RunInv, EndInv, [RunNext]_vars
    PROVE  EndInv'
  <1>0. /\ sent \in Nat /\ bus \in Seq(Messages) /\ BusInv /\ StageInv
        /\ sent <= SourceFrames
    BY DEF RunInv, RunTypeOK, TypeOK, EndInv
  <1> USE DEF EndInv, mainVars
  <1>1. CASE RefuseExisting \/ RefuseUnprepared
    BY <1>1 DEF RefuseExisting, RefuseUnprepared, sourceVars
  <1>2. CASE Begin
    BY <1>2, RunAssumption DEF Begin
  <1>3. CASE Launch
    <2>1. main = "launch" /\ phase = "null" /\ source = "idle" /\ sent' = sent
      BY <1>0, <1>3 DEF Launch, LaunchOk, LaunchOtherFails, LaunchSinkFails, LinkFails,
                        BusInv, StageInv, sourceVars
    <2>2. \/ main' = "polling" /\ source' = "pushing" /\ phase' = "open"
          \/ main' = "unwinding" /\ source' = "idle" /\ phase' \in {"null", "open", "stuck"}
      BY <1>3, <2>1 DEF Launch, LaunchOk, LaunchOtherFails, LaunchSinkFails, LinkFails,
                        StartOk, StartFail, Throw, sourceVars, sinkVars
    <2> QED
      BY <1>0, <2>1, <2>2
  <1>4. CASE \E f \in Frames : FrameDropped(f) \/ FrameAccepted(f) \/ FrameFails(f)
    <2>1. /\ source = "pushing" /\ source' \in {"pushing", "failing"}
          /\ phase = "open" /\ phase' = "open" /\ main' = main
          /\ sent < SourceFrames /\ sent' = sent + 1
      BY <1>4 DEF FrameDropped, FrameAccepted, FrameFails, Arrives, RenderAccept,
                  RenderError, RenderRefuse, CropError, WriteError, sinkVars
    <2> QED
      BY <1>0, <2>1, RunAssumption
  <1>5. CASE UpstreamFails \/ SourceReportsError \/ SourceEnds
    <2>1. /\ source \in {"pushing", "failing"} /\ source' \in {"failing", "eos"}
          /\ UNCHANGED <<main, sent, phase>>
      BY <1>5 DEF UpstreamFails, SourceReportsError, SourceEnds, sinkVars
    <2> QED
      BY <2>1
  <1>6. CASE EosArrives
    <2>1. /\ source = "eos" /\ source' = "ended" /\ UNCHANGED <<main, sent>>
          /\ phase' # "stopped"
      BY <1>6 DEF EosArrives, Eos, EosAfterFailure, EosWithoutFrames, EosFlushed,
                  EosFlushError
    <2>2. main = "polling" => phase' \in {"role", "meta", "forward"} \/ bus' # <<>>
      <3>1. CASE EosAfterFailure
        <4>1. ~flow_ok /\ bus' = bus
          BY <1>0, <3>1 DEF EosAfterFailure, BusInv
        <4> QED
          BY <1>0, <2>1, <4>1 DEF BusInv
      <3>2. CASE EosWithoutFrames \/ EosFlushed
        BY <3>2 DEF EosWithoutFrames, EosFlushed
      <3>3. CASE EosFlushError
        BY <1>0, <3>3, PostKeepsHead DEF EosFlushError, Messages
      <3> QED
        BY <1>6, <3>1, <3>2, <3>3 DEF EosArrives, Eos
    <2> QED
      BY <2>1, <2>2
  <1>7. CASE SinkPublishes
    <2>1. UNCHANGED <<main, sent, source>>
      BY <1>7 DEF SinkPublishes, sourceVars
    <2>2. phase \in {"role", "meta", "forward"} /\ phase' # "stopped"
      BY <1>7 DEF SinkPublishes, Publication, RenameRole, RenameMeta, Withdraw, ForwardEos
    <2>3. phase' \in {"meta", "forward"} \/ bus' # <<>>
      <3>1. CASE RenameRole \/ RenameMeta
        BY <3>1 DEF RenameRole, RenameMeta
      <3>2. CASE Withdraw \/ ForwardEos
        BY <1>0, <3>2, PostKeepsHead DEF Withdraw, ForwardEos, Messages
      <3> QED
        BY <1>7, <3>1, <3>2 DEF SinkPublishes, Publication
    <2>4. source = "ended"
      BY <1>0, <2>2 DEF BusInv
    <2> QED
      BY <2>1, <2>2, <2>3, <2>4
  <1>8. CASE Poll \/ Drain \/ DrainFails
    <2>1. /\ main \in {"polling", "draining"} /\ main' \in {"draining", "closing", "unwinding"}
          /\ UNCHANGED <<sent, source, phase>>
      BY <1>8 DEF Poll, PollProbeError, PollErrorMessage, PollEos, PollTimeout, Drain,
                  DrainFails, Throw, sourceVars, sinkVars, sinkVarsButBus
    <2> QED
      BY <2>1
  <1>9. CASE DeadlinePasses \/ RemoveProbe
    <2>1. UNCHANGED <<main, sent, source, phase, bus>>
      BY <1>9 DEF DeadlinePasses, RemoveProbe, sourceVars, sinkVars
    <2> QED
      BY <2>1
  <1>10. CASE SetNull
    <2>1. main' \in {"down", "verifying"} /\ sent' = sent
      BY <1>10 DEF SetNull, Exit, sourceVars
    <2> QED
      BY <2>1
  <1>11. CASE Verify \/ VerifyFails \/ WritePlan \/ WriteResult \/ WriteFails \/ Report \/ Kill
    <2>1. main' \in {"down", "planning", "resulting", "reporting"} /\ sent' = sent
      BY <1>11 DEF Verify, VerifyFails, WritePlan, WriteResult, WriteFails, Report, Kill,
                   Exit, sourceVars
    <2> QED
      BY <2>1
  <1>12. CASE UNCHANGED vars
    BY <1>12 DEF vars, sinkVars, sourceVars
  <1> QED
    BY <1>1, <1>2, <1>3, <1>4, <1>5, <1>6, <1>7, <1>8, <1>9, <1>10, <1>11, <1>12
    DEF RunNext, Stream, Main

LEMMA EndInvariant == RunSpec => [](RunInv /\ EndInv)
  <1>1. RunInit => EndInv
    BY RunAssumption DEF RunInit, EndInv
  <1> QED
    BY <1>1, RunInvariant, EndStep, PTL DEF RunSpec

\* If the main thread has to wait the streaming thread has something to do.
LEMMA SomebodyOf == RunInv /\ EndInv => SomebodyCanGoOn
  <1> SUFFICES ASSUME RunInv, EndInv, main # "down", ~MainCanGoOn
               PROVE  StreamCanGoOn
    BY DEF SomebodyCanGoOn
  <1>1. source \in {"idle", "pushing", "failing", "eos", "ended"}
    BY DEF RunInv, RunTypeOK
  <1>2. CASE main = "polling"
    <2>1. Streaming /\ bus = <<>> /\ source # "idle"
      BY <1>2 DEF MainCanGoOn, Streaming, EndInv
    <2>2. source = "ended" => phase \in {"role", "meta", "forward"}
      BY <1>2, <2>1 DEF EndInv
    <2>3. source = "eos" => phase = "open"
      BY <1>2 DEF EndInv
    <2> QED
      BY <1>1, <2>1, <2>2, <2>3 DEF StreamCanGoOn
  <1>3. CASE main # "polling"
    BY <1>3 DEF MainCanGoOn, StreamCanGoOn, Streaming
  <1> QED
    BY <1>2, <1>3
-----------------------------------------------------------------------------
(* How much of a process is left *)

\* The steps that each part of a process has before it at most.
MainLeft ==
    CASE main = "launch" -> 9
      [] main = "polling" -> 8
      [] main = "draining" -> 7
      [] main = "closing" -> 6
      [] main = "unwinding" -> 5
      [] main = "verifying" -> 4
      [] main = "planning" -> 3
      [] main = "resulting" -> 2
      [] main = "reporting" -> 1
      [] OTHER -> 0

SourceLeft ==
    CASE source = "idle" -> 4
      [] source = "pushing" -> 3
      [] source = "failing" -> 2
      [] source = "eos" -> 1
      [] OTHER -> 0

SinkLeft ==
    CASE phase = "null" -> 5
      [] phase = "open" -> 4
      [] phase = "role" -> 3
      [] phase = "meta" -> 2
      [] phase = "forward" -> 1
      [] OTHER -> 0

FlagsLeft == (IF probe_on THEN 1 ELSE 0) + (IF late THEN 0 ELSE 1)

FramesLeft == SourceFrames - sent

Left == MainLeft + SourceLeft + SinkLeft + FlagsLeft + FramesLeft

StepsRunOut == main # "down" => Left \in Nat /\ Left' < Left

\* What is left of each part, in numbers.
LEMMA PartsAre ==
    /\ MainLeft \in 0 .. 9 /\ SourceLeft \in 0 .. 4 /\ SinkLeft \in 0 .. 5
    /\ FlagsLeft \in 0 .. 2
    /\ MainLeft' \in 0 .. 9 /\ SourceLeft' \in 0 .. 4 /\ SinkLeft' \in 0 .. 5
    /\ FlagsLeft' \in 0 .. 2
    /\ main \in {"launch", "polling", "draining", "closing", "unwinding", "verifying",
                 "planning", "resulting", "reporting"} => MainLeft > 0
  BY DEF MainLeft, SourceLeft, SinkLeft, FlagsLeft

\* If no part grows and one shrinks, less is left.
LEMMA Less ==
    ASSUME FramesLeft \in Nat, FramesLeft' \in Int,
           MainLeft' <= MainLeft, SourceLeft' <= SourceLeft, SinkLeft' <= SinkLeft,
           FlagsLeft' <= FlagsLeft, FramesLeft' <= FramesLeft,
           \/ MainLeft' < MainLeft \/ SourceLeft' < SourceLeft \/ SinkLeft' < SinkLeft
           \/ FlagsLeft' < FlagsLeft \/ FramesLeft' < FramesLeft
    PROVE  Left \in Nat /\ Left' < Left
  <1> DEFINE a == MainLeft
             b == SourceLeft
             c == SinkLeft
             d == FlagsLeft
             e == FramesLeft
             p == MainLeft'
             q == SourceLeft'
             r == SinkLeft'
             s == FlagsLeft'
             t == FramesLeft'
  <1>1. /\ p \in 0 .. 9 /\ q \in 0 .. 4 /\ r \in 0 .. 5 /\ s \in 0 .. 2
    BY PartsAre
  <1>2. /\ a \in Nat /\ b \in Nat /\ c \in Nat /\ d \in Nat /\ e \in Nat
        /\ p \in Int /\ q \in Int /\ r \in Int /\ s \in Int /\ t \in Int
        /\ p <= a /\ q <= b /\ r <= c /\ s <= d /\ t <= e
        /\ p < a \/ q < b \/ r < c \/ s < d \/ t < e
    BY <1>1, PartsAre
  <1>3. Left = a + b + c + d + e /\ Left' = p + q + r + s + t
    BY DEF Left
  <1> HIDE DEF a, b, c, d, e, p, q, r, s, t
  <1> QED
    BY <1>2, <1>3

\* Every step of a process is one of those that are left.
LEMMA LeftStep ==
    ASSUME RunInv, EndInv, RunNext
    PROVE  StepsRunOut
  <1> SUFFICES ASSUME main # "down"
               PROVE  Left \in Nat /\ Left' < Left
    BY DEF StepsRunOut
  <1>1. /\ sent \in Nat /\ sent' \in Nat /\ FramesLeft \in Nat /\ FramesLeft' \in Int
        /\ MainLeft \in 1 .. 9 /\ MainLeft' \in 0 .. 9
        /\ SourceLeft \in 0 .. 4 /\ SourceLeft' \in 0 .. 4
        /\ SinkLeft \in 0 .. 5 /\ SinkLeft' \in 0 .. 5
        /\ FlagsLeft \in 0 .. 2 /\ FlagsLeft' \in 0 .. 2
    <2>1. sent \in Nat /\ sent' \in Nat
      BY RunStepInv DEF RunInv, RunTypeOK
    <2>2. FramesLeft \in Nat /\ FramesLeft' \in Int
      BY <2>1, RunAssumption DEF FramesLeft, EndInv
    <2>3. MainLeft \in 1 .. 9
      BY PartsAre DEF RunInv, RunTypeOK
    <2> QED
      BY <2>1, <2>2, <2>3, PartsAre
  <1>2. /\ (source' = source => SourceLeft' = SourceLeft)
        /\ (phase' = phase => SinkLeft' = SinkLeft)
        /\ (probe_on' = probe_on /\ late' = late => FlagsLeft' = FlagsLeft)
        /\ (sent' = sent => FramesLeft' = FramesLeft)
        /\ (main' = main => MainLeft' = MainLeft)
    BY DEF SourceLeft, SinkLeft, FlagsLeft, FramesLeft, MainLeft
  <1>3. ASSUME MainLeft' < MainLeft, UNCHANGED <<source, phase, probe_on, late, sent>>
        PROVE  Left \in Nat /\ Left' < Left
    BY <1>1, <1>2, <1>3, Less
  <1>4. CASE Launch
    <2>1. /\ main = "launch" /\ phase = "null" /\ source = "idle"
          /\ UNCHANGED <<sent, probe_on, late>>
      BY <1>4 DEF Launch, LaunchOk, LaunchOtherFails, LaunchSinkFails, LinkFails,
                  RunInv, BusInv, StageInv, sourceVars, probeVars
    <2>2. main' \in {"polling", "unwinding"}
      BY <1>4 DEF Launch, LaunchOk, LaunchOtherFails, LaunchSinkFails, LinkFails, Throw
    <2>3. MainLeft' < MainLeft
      BY <2>1, <2>2 DEF MainLeft
    <2>4. SourceLeft' <= SourceLeft /\ SinkLeft' <= SinkLeft
      <3>1. SourceLeft = 4 /\ SinkLeft = 5
        BY <2>1 DEF SourceLeft, SinkLeft
      <3> QED
        BY <1>1, <3>1
    <2> QED
      BY <1>1, <1>2, <2>1, <2>3, <2>4, Less
  <1>5. CASE Stream
    <2>1. UNCHANGED <<main, probe_on, late>>
      BY <1>5 DEF Stream, FrameDropped, FrameAccepted, FrameFails, ProbePasses,
                  UpstreamFails, SourceReportsError, SourceEnds, EosArrives, SinkPublishes,
                  mainVars, probeVars
    <2>2. CASE \E f \in Frames : FrameDropped(f) \/ FrameAccepted(f) \/ FrameFails(f)
      <3>1. /\ source = "pushing" /\ source' \in {"pushing", "failing"}
            /\ phase' = phase /\ sent' = sent + 1
        BY <2>2 DEF FrameDropped, FrameAccepted, FrameFails, Arrives, RenderAccept,
                    RenderError, RenderRefuse, CropError, WriteError, sinkVars
      <3>2. SourceLeft' <= SourceLeft
        BY <3>1 DEF SourceLeft
      <3>3. FramesLeft' < FramesLeft
        BY <1>1, <3>1, RunAssumption DEF FramesLeft
      <3> QED
        BY <1>1, <1>2, <2>1, <3>1, <3>2, <3>3, Less
    <2>3. CASE UpstreamFails \/ SourceReportsError \/ SourceEnds
      <3>1. /\ \/ source = "pushing" /\ source' \in {"failing", "eos"}
               \/ source = "failing" /\ source' = "eos"
            /\ phase' = phase /\ sent' = sent
        BY <2>3 DEF UpstreamFails, SourceReportsError, SourceEnds, sinkVars
      <3>2. SourceLeft' < SourceLeft
        BY <3>1 DEF SourceLeft
      <3> QED
        BY <1>1, <1>2, <2>1, <3>1, <3>2, Less
    <2>4. CASE EosArrives
      <3>1. source = "eos" /\ source' = "ended" /\ sent' = sent
        BY <2>4 DEF EosArrives
      <3>2. phase = "open" /\ phase' \in {"refused", "forward", "role"}
        BY <2>4 DEF EosArrives, Eos, EosAfterFailure, EosWithoutFrames, EosFlushed,
                    EosFlushError
      <3>3. SourceLeft' < SourceLeft /\ SinkLeft' < SinkLeft
        BY <3>1, <3>2 DEF SourceLeft, SinkLeft
      <3> QED
        BY <1>1, <1>2, <2>1, <3>1, <3>3, Less
    <2>5. CASE SinkPublishes
      <3>1. UNCHANGED <<sent, source>>
        BY <2>5 DEF SinkPublishes, sourceVars
      <3>2. \/ phase = "role" /\ phase' \in {"meta", "refused"}
            \/ phase = "meta" /\ phase' \in {"forward", "refused"}
            \/ phase = "forward" /\ phase' = "eos"
        BY <2>5 DEF SinkPublishes, Publication, RenameRole, RenameMeta, Withdraw,
                    ForwardEos
      <3>3. SinkLeft' < SinkLeft
        BY <3>2 DEF SinkLeft
      <3> QED
        BY <1>1, <1>2, <2>1, <3>1, <3>3, Less
    <2> QED
      BY <1>5, <2>2, <2>3, <2>4, <2>5 DEF Stream
  <1>6. CASE Poll \/ Drain \/ DrainFails
    <2>1. /\ \/ main = "polling" /\ main' \in {"draining", "unwinding"}
             \/ main = "draining" /\ main' \in {"closing", "unwinding"}
          /\ UNCHANGED <<source, phase, probe_on, late, sent>>
      BY <1>6 DEF Poll, PollProbeError, PollErrorMessage, PollEos, PollTimeout, Drain,
                  DrainFails, Throw, sourceVars, probeVars, sinkVars, sinkVarsButBus
    <2>2. MainLeft' < MainLeft
      BY <2>1 DEF MainLeft
    <2> QED
      BY <1>3, <2>1, <2>2
  <1>7. CASE DeadlinePasses \/ RemoveProbe
    <2>1. UNCHANGED <<main, source, phase, sent>>
      BY <1>7 DEF DeadlinePasses, RemoveProbe, mainVars, sourceVars, sinkVars
    <2>2. FlagsLeft' < FlagsLeft
      <3>1. CASE DeadlinePasses
        BY <3>1 DEF DeadlinePasses, FlagsLeft, probeVars
      <3>2. CASE RemoveProbe
        BY <3>2 DEF RemoveProbe, FlagsLeft, mainVars
      <3> QED
        BY <1>7, <3>1, <3>2
    <2> QED
      BY <1>1, <1>2, <2>1, <2>2, Less
  <1>8. CASE SetNull
    <2>1. /\ \/ main = "unwinding" /\ main' = "down"
             \/ main = "closing" /\ main' = "verifying"
          /\ UNCHANGED <<source, probe_on, late, sent>>
          /\ phase' = phase \/ phase' = "stopped"
      BY <1>8 DEF SetNull, Exit, Stop, sourceVars, probeVars, sinkVars
    <2>2. MainLeft' < MainLeft
      BY <2>1 DEF MainLeft
    <2>3. SinkLeft' <= SinkLeft
      BY <2>1, <1>1 DEF SinkLeft
    <2> QED
      BY <1>1, <1>2, <2>1, <2>2, <2>3, Less
  <1>9. CASE Verify \/ VerifyFails \/ WritePlan \/ WriteResult \/ WriteFails \/ Report
    <2>1. /\ \/ main = "verifying" /\ main' \in {"planning", "down"}
             \/ main = "planning" /\ main' \in {"resulting", "down"}
             \/ main = "resulting" /\ main' \in {"reporting", "down"}
             \/ main = "reporting" /\ main' = "down"
          /\ UNCHANGED <<source, phase, probe_on, late, sent>>
      BY <1>9 DEF Verify, VerifyFails, WritePlan, WriteResult, WriteFails, Report, Exit,
                  sourceVars, probeVars, sinkVars
    <2>2. MainLeft' < MainLeft
      BY <2>1 DEF MainLeft
    <2> QED
      BY <1>3, <2>1, <2>2
  <1>10. CASE Kill
    <2>1. main' = "down" /\ UNCHANGED <<source, phase, probe_on, late, sent>>
      BY <1>10 DEF Kill, Exit, sourceVars, probeVars, sinkVars
    <2>2. MainLeft' = 0
      BY <2>1 DEF MainLeft
    <2> QED
      BY <1>1, <1>3, <2>1, <2>2
  <1>11. ~(RefuseExisting \/ RefuseUnprepared \/ Begin)
    BY DEF RefuseExisting, RefuseUnprepared, Begin
  <1> QED
    BY <1>4, <1>5, <1>6, <1>7, <1>8, <1>9, <1>10, <1>11 DEF RunNext, Main

\* While a process runs the main thread or the streaming thread can go on: its
\* loop does not wait for a message nobody will post, and cleanup() not for a
\* thread that does not come back (run_product_text_pipeline()).
THEOREM RunSomebodyRuns == RunSpec => []SomebodyCanGoOn
  BY SomebodyOf, EndInvariant, PTL

\* Every step of a process, whatever fails, takes a piece of what is left of it
\* (run(), run_product_text_pipeline(), TextSink).
THEOREM RunStepsRunOut == RunSpec => [][StepsRunOut]_vars
  <1>1. RunInv /\ EndInv /\ [RunNext]_vars => [StepsRunOut]_vars
    BY LeftStep
  <1> QED
    BY <1>1, EndInvariant, PTL DEF RunSpec

=============================================================================
