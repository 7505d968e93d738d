--------------------------- MODULE GroundRunProofs ---------------------------
(***************************************************************************)
(* IInv is an inductive invariant of a ground run, for every frame limit,  *)
(* every source and any number of attempts; the safety properties of       *)
(* GroundRun are parts of it, and with it the run implements Delivery.     *)
(*                                                                         *)
(* There is one lemma per part of IInv, which cites the parts it needs,    *)
(* and in each one step per group of actions.                              *)
(***************************************************************************)
EXTENDS GroundRun, FiniteSetTheorems, TLAPS

USE GroundAssumption DEF Exit, Throw, processVars, probeVars, sourceVars, dirVars, reportVars

\* A frame the collector does not take; the end of a stream.
Turned == FrameAboveLimit \/ FrameRejected \/ FrameDropped \/ FrameUnseen
Ending == UpstreamFails \/ SourceReportsError \/ SourceEnds \/ EosArrives \/ EosFails

LEMMA Cases ==
    ASSUME Next
    PROVE  \/ RefuseExisting \/ RefuseUnprepared
           \/ Begin
           \/ LaunchOk \/ LaunchFails
           \/ FrameCollected \/ EncoderFails
           \/ Turned
           \/ Ending
           \/ Poll \/ DeadlinePasses
           \/ Drain \/ DrainFails \/ RemoveProbe \/ SetNull
           \/ Verify \/ VerifyFails
           \/ Publish
           \/ Describe \/ WritePlan \/ WriteResult
           \/ ReportFails \/ Report \/ Kill
  BY DEF Next, Main, Stream, Turned, Ending
-----------------------------------------------------------------------------
(* Files and directories *)

LEMMA EmptyFiles ==
    ASSUME NEW c \in BOOLEAN
    PROVE  File(<<>>, c) \in Files /\ Absent \in Files
  <1>1. <<>> \in Seq(Nat)
    OBVIOUS
  <1> QED
    BY <1>1 DEF File, Files, Absent

\* One more frame; the end of a file.
LEMMA FileExtended ==
    ASSUME NEW f \in Files, NEW n \in Nat
    PROVE  LET g == [f EXCEPT !.frames = Append(@, n)]
           IN  /\ g \in Files
               /\ g.frames = Append(f.frames, n)
               /\ g.exists = f.exists /\ g.complete = f.complete
  <1>1. f.frames \in Seq(Nat) /\ Append(f.frames, n) \in Seq(Nat)
    BY DEF Files
  <1> QED
    BY <1>1 DEF Files

LEMMA FileCompleted ==
    ASSUME NEW f \in Files
    PROVE  LET g == [f EXCEPT !.complete = TRUE]
           IN  g \in Files /\ g.complete /\ g.frames = f.frames /\ g.exists = f.exists
  BY DEF Files

LEMMA FileUpdated ==
    ASSUME NEW d \in [Paths -> Files], NEW p \in Paths, NEW f \in Files
    PROVE  /\ [d EXCEPT ![p] = f] \in [Paths -> Files]
           /\ [d EXCEPT ![p] = f][p] = f
           /\ \A q \in Paths \ {p} : [d EXCEPT ![p] = f][q] = d[q]
  OBVIOUS

LEMMA PathsAre ==
    /\ "video.ogv" \in Paths /\ "cdg00.jsonl" \in Paths
    /\ "video.ogv.partial" \in Paths /\ "cdg00.jsonl.partial" \in Paths
    /\ Partials \subseteq Paths
  BY DEF Paths, Partials, Finals

LEMMA ConsecutiveExtended ==
    ASSUME NEW s \in Seq(Nat), NEW n \in Nat, Consecutive(s, n)
    PROVE  Consecutive(Append(s, n), n + 1)
  BY DEF Consecutive

LEMMA ConsecutiveEmpty == Consecutive(<<>>, 0)
  BY DEF Consecutive
-----------------------------------------------------------------------------
(* The types, part by part *)

StagesTyped ==
    /\ main \in Stages
    /\ verdict \in ExitCodes
    /\ exit \in ExitCodes \cup {"none", "killed"}
    /\ probe_error \in ExitCodes

SourceTyped ==
    /\ source \in {"idle", "pushing", "failing", "eos", "ended"}
    /\ flow \in {"ok", "error"}
    /\ probe \in {"installed", "removed"}

NumbersTyped ==
    /\ attempt \in Nat
    /\ probe_count \in Nat /\ probe_count <= MaxFrames
    /\ consumed \in Nat
    /\ sent \in Nat
    /\ total \in Nat

FlagsTyped == late \in BOOLEAN /\ plan_json \in BOOLEAN

BusTyped == bus \in Seq({"eos", "error"})

DirTyped == dir \in [Paths -> Files] /\ before \in [Paths -> Files]

DoomedTyped == doomed \in SUBSET Paths

ResultTyped ==
    /\ described \in Named
    /\ result_json \in [exists: BOOLEAN, frame_count: Nat, named: Named]

LEMMA TypeParts ==
    TypeOK <=> /\ StagesTyped /\ SourceTyped /\ NumbersTyped /\ FlagsTyped
               /\ BusTyped /\ DirTyped /\ DoomedTyped /\ ResultTyped
  BY Zenon DEF TypeOK, StagesTyped, SourceTyped, NumbersTyped, FlagsTyped, BusTyped,
               DirTyped, DoomedTyped, ResultTyped

LEMMA StagesStep ==
    ASSUME StagesTyped, Next
    PROVE  StagesTyped'
  <1>1. CASE RefuseExisting \/ RefuseUnprepared
    BY <1>1 DEF StagesTyped, Stages, ExitCodes, RefuseExisting, RefuseUnprepared
  <1>2. CASE Begin
    BY <1>2 DEF StagesTyped, Stages, ExitCodes, Begin
  <1>3. CASE LaunchOk \/ LaunchFails
    BY <1>3 DEF StagesTyped, Stages, ExitCodes, LaunchOk, LaunchFails, VideoOpened
  <1>4. CASE FrameCollected \/ EncoderFails
    <2>1. /\ UNCHANGED <<main, verdict, exit, probe_error>>
      BY <1>4 DEF FrameCollected, EncoderFails
    <2>2. main' \in Stages
      BY <2>1 DEF StagesTyped, Stages
    <2>3. /\ verdict' \in ExitCodes /\ probe_error' \in ExitCodes
          /\ exit' \in ExitCodes \cup {"none", "killed"}
      BY <2>1 DEF StagesTyped, ExitCodes
    <2> QED
      BY <2>1, <2>2, <2>3, Zenon DEF StagesTyped
  <1>5. CASE Turned
    <2>1. /\ UNCHANGED <<main, verdict, exit>>
          /\ probe_error' \in {probe_error, "retryable", "dependency", "fatal"}
      BY <1>5 DEF Turned, FrameAboveLimit, FrameRejected, FrameDropped, FrameUnseen
    <2>2. main' \in Stages
      BY <2>1 DEF StagesTyped, Stages
    <2>3. /\ verdict' \in ExitCodes /\ probe_error' \in ExitCodes
          /\ exit' \in ExitCodes \cup {"none", "killed"}
      BY <2>1 DEF StagesTyped, ExitCodes
    <2> QED
      BY <2>1, <2>2, <2>3, Zenon DEF StagesTyped
  <1>6. CASE Ending
    <2>1. /\ UNCHANGED <<main, verdict, exit, probe_error>>
      BY <1>6 DEF Ending, UpstreamFails, SourceReportsError, SourceEnds, EosArrives,
           EosFails
    <2>2. main' \in Stages
      BY <2>1 DEF StagesTyped, Stages
    <2>3. /\ verdict' \in ExitCodes /\ probe_error' \in ExitCodes
          /\ exit' \in ExitCodes \cup {"none", "killed"}
      BY <2>1 DEF StagesTyped, ExitCodes
    <2> QED
      BY <2>1, <2>2, <2>3, Zenon DEF StagesTyped
  <1>7. CASE Poll \/ DeadlinePasses
    <2>1. /\ UNCHANGED <<exit, probe_error>> /\ main' \in {main, "unwinding", "draining"}
          /\ verdict' \in {verdict, probe_error, "retryable"}
      BY <1>7 DEF Poll, Pop, PollProbeError, PollErrorMessage, PollEos, PollTimeout,
           DeadlinePasses
    <2>2. main' \in Stages
      BY <2>1 DEF StagesTyped, Stages
    <2>3. /\ verdict' \in ExitCodes /\ probe_error' \in ExitCodes
          /\ exit' \in ExitCodes \cup {"none", "killed"}
      BY <2>1 DEF StagesTyped, ExitCodes
    <2> QED
      BY <2>1, <2>2, <2>3, Zenon DEF StagesTyped
  <1>8. CASE Drain \/ DrainFails \/ RemoveProbe \/ SetNull
    <2>1. /\ UNCHANGED <<exit, probe_error>>
          /\ main' \in {main, "unwinding", "closing", "discarding", "verifying"}
          /\ verdict' \in {verdict, probe_error, "dependency"}
      BY <1>8 DEF Drain, DrainFails, RemoveProbe, SetNull, Discard
    <2>2. main' \in Stages
      BY <2>1 DEF StagesTyped, Stages
    <2>3. /\ verdict' \in ExitCodes /\ probe_error' \in ExitCodes
          /\ exit' \in ExitCodes \cup {"none", "killed"}
      BY <2>1 DEF StagesTyped, ExitCodes
    <2> QED
      BY <2>1, <2>2, <2>3, Zenon DEF StagesTyped
  <1>9. CASE Verify \/ VerifyFails
    <2>1. /\ UNCHANGED <<exit, probe_error>> /\ main' \in {"renaming metadata", "discarding"}
          /\ verdict' \in {verdict, "no_result", "fatal"}
      BY <1>9 DEF Verify, VerifyFails, Discard
    <2>2. main' \in Stages
      BY <2>1 DEF StagesTyped, Stages
    <2>3. /\ verdict' \in ExitCodes /\ probe_error' \in ExitCodes
          /\ exit' \in ExitCodes \cup {"none", "killed"}
      BY <2>1 DEF StagesTyped, ExitCodes
    <2> QED
      BY <2>1, <2>2, <2>3, Zenon DEF StagesTyped
  <1>10. CASE Publish
    <2>1. /\ UNCHANGED probe_error
          /\ main' \in {main, "renaming video", "describing", "discarding", "down"}
          /\ verdict' \in {verdict, "fatal"} /\ exit' \in {exit, verdict}
      BY <1>10 DEF Publish, PublishMetadata, PublishVideo, Withdraw, Remove, Discarded
    <2>2. main' \in Stages
      BY <2>1 DEF StagesTyped, Stages
    <2>3. /\ verdict' \in ExitCodes /\ probe_error' \in ExitCodes
          /\ exit' \in ExitCodes \cup {"none", "killed"}
      BY <2>1 DEF StagesTyped, ExitCodes
    <2> QED
      BY <2>1, <2>2, <2>3, Zenon DEF StagesTyped
  <1>11. CASE Describe \/ WritePlan \/ WriteResult
    <2>1. CASE Describe
      BY <2>1 DEF StagesTyped, Stages, ExitCodes, Describe
    <2>2. CASE WritePlan
      BY <2>2 DEF StagesTyped, Stages, ExitCodes, WritePlan
    <2>3. CASE WriteResult
      BY <2>3 DEF StagesTyped, Stages, ExitCodes, WriteResult
    <2> QED
      BY <1>11, <2>1, <2>2, <2>3
  <1>12. CASE ReportFails \/ Report \/ Kill
    BY <1>12 DEF StagesTyped, Stages, ExitCodes, ReportFails, Report, Kill
  <1> QED
    BY <1>1, <1>2, <1>3, <1>4, <1>5, <1>6, <1>7, <1>8, <1>9, <1>10, <1>11, <1>12, Cases

LEMMA SourceStep ==
    ASSUME SourceTyped, Next
    PROVE  SourceTyped'
  <1>1. CASE RefuseExisting \/ RefuseUnprepared
    BY <1>1 DEF SourceTyped, RefuseExisting, RefuseUnprepared
  <1>2. CASE Begin
    BY <1>2 DEF SourceTyped, Begin
  <1>3. CASE LaunchOk \/ LaunchFails
    BY <1>3 DEF SourceTyped, LaunchOk, LaunchFails, VideoOpened
  <1>4. CASE FrameCollected \/ EncoderFails
    BY <1>4 DEF SourceTyped, FrameCollected, EncoderFails, Arrives, Streaming, Encode,
           Consume, BelowLimit
  <1>5. CASE Turned
    BY <1>5 DEF SourceTyped, Turned, FrameAboveLimit, FrameRejected, FrameDropped,
           FrameUnseen, Arrives, Streaming, Encode
  <1>6. CASE Ending
    BY <1>6 DEF SourceTyped, Ending, UpstreamFails, SourceReportsError, SourceEnds,
           EosArrives, EosFails, Streaming
  <1>7. CASE Poll \/ DeadlinePasses
    BY <1>7 DEF SourceTyped, Poll, PollProbeError, PollErrorMessage, PollEos,
           PollTimeout, DeadlinePasses, Pop, Message
  <1>8. CASE Drain \/ DrainFails \/ RemoveProbe \/ SetNull
    BY <1>8 DEF SourceTyped, Drain, DrainFails, RemoveProbe, SetNull, Discard
  <1>9. CASE Verify \/ VerifyFails
    BY <1>9 DEF SourceTyped, Verify, VerifyFails, Discard
  <1>10. CASE Publish
    BY <1>10 DEF SourceTyped, Publish, PublishMetadata, PublishVideo, Withdraw, Remove,
           Discarded, Renamed
  <1>11. CASE Describe \/ WritePlan \/ WriteResult
    BY <1>11 DEF SourceTyped, Describe, WritePlan, WriteResult
  <1>12. CASE ReportFails \/ Report \/ Kill
    BY <1>12 DEF SourceTyped, ReportFails, Report, Kill
  <1> QED
    BY <1>1, <1>2, <1>3, <1>4, <1>5, <1>6, <1>7, <1>8, <1>9, <1>10, <1>11, <1>12, Cases

LEMMA NumbersStep ==
    ASSUME NumbersTyped, Next
    PROVE  NumbersTyped'
  <1>1. CASE RefuseExisting \/ RefuseUnprepared
    BY <1>1 DEF NumbersTyped, RefuseExisting, RefuseUnprepared
  <1>2. CASE Begin
    BY <1>2 DEF NumbersTyped, Begin
  <1>3. CASE LaunchOk \/ LaunchFails
    BY <1>3 DEF NumbersTyped, LaunchOk, LaunchFails, VideoOpened
  <1>4. CASE FrameCollected \/ EncoderFails
    BY <1>4 DEF NumbersTyped, FrameCollected, EncoderFails, Arrives, Streaming, Encode,
           Consume, BelowLimit
  <1>5. CASE Turned
    BY <1>5 DEF NumbersTyped, Turned, FrameAboveLimit, FrameRejected, FrameDropped,
           FrameUnseen, Arrives, Streaming, Encode
  <1>6. CASE Ending
    BY <1>6 DEF NumbersTyped, Ending, UpstreamFails, SourceReportsError, SourceEnds,
           EosArrives, EosFails, Streaming
  <1>7. CASE Poll \/ DeadlinePasses
    BY <1>7 DEF NumbersTyped, Poll, PollProbeError, PollErrorMessage, PollEos,
           PollTimeout, DeadlinePasses, Pop, Message
  <1>8. CASE Drain \/ DrainFails \/ RemoveProbe \/ SetNull
    BY <1>8 DEF NumbersTyped, Drain, DrainFails, RemoveProbe, SetNull, Discard
  <1>9. CASE Verify \/ VerifyFails
    BY <1>9 DEF NumbersTyped, Verify, VerifyFails, Discard
  <1>10. CASE Publish
    BY <1>10 DEF NumbersTyped, Publish, PublishMetadata, PublishVideo, Withdraw,
           Remove, Discarded, Renamed
  <1>11. CASE Describe \/ WritePlan \/ WriteResult
    BY <1>11 DEF NumbersTyped, Describe, WritePlan, WriteResult
  <1>12. CASE ReportFails \/ Report \/ Kill
    BY <1>12 DEF NumbersTyped, ReportFails, Report, Kill
  <1> QED
    BY <1>1, <1>2, <1>3, <1>4, <1>5, <1>6, <1>7, <1>8, <1>9, <1>10, <1>11, <1>12, Cases

LEMMA FlagsStep ==
    ASSUME FlagsTyped, Next
    PROVE  FlagsTyped'
  <1>1. CASE RefuseExisting \/ RefuseUnprepared
    BY <1>1 DEF FlagsTyped, RefuseExisting, RefuseUnprepared
  <1>2. CASE Begin
    BY <1>2 DEF FlagsTyped, Begin
  <1>3. CASE LaunchOk \/ LaunchFails
    BY <1>3 DEF FlagsTyped, LaunchOk, LaunchFails, VideoOpened
  <1>4. CASE FrameCollected \/ EncoderFails
    BY <1>4 DEF FlagsTyped, FrameCollected, EncoderFails, Arrives, Streaming, Encode,
           Consume, BelowLimit
  <1>5. CASE Turned
    BY <1>5 DEF FlagsTyped, Turned, FrameAboveLimit, FrameRejected, FrameDropped,
           FrameUnseen, Arrives, Streaming, Encode
  <1>6. CASE Ending
    BY <1>6 DEF FlagsTyped, Ending, UpstreamFails, SourceReportsError, SourceEnds,
           EosArrives, EosFails, Streaming
  <1>7. CASE Poll \/ DeadlinePasses
    BY <1>7 DEF FlagsTyped, Poll, PollProbeError, PollErrorMessage, PollEos,
           PollTimeout, DeadlinePasses, Pop, Message
  <1>8. CASE Drain \/ DrainFails \/ RemoveProbe \/ SetNull
    BY <1>8 DEF FlagsTyped, Drain, DrainFails, RemoveProbe, SetNull, Discard
  <1>9. CASE Verify \/ VerifyFails
    BY <1>9 DEF FlagsTyped, Verify, VerifyFails, Discard
  <1>10. CASE Publish
    BY <1>10 DEF FlagsTyped, Publish, PublishMetadata, PublishVideo, Withdraw, Remove,
           Discarded, Renamed
  <1>11. CASE Describe \/ WritePlan \/ WriteResult
    BY <1>11 DEF FlagsTyped, Describe, WritePlan, WriteResult
  <1>12. CASE ReportFails \/ Report \/ Kill
    BY <1>12 DEF FlagsTyped, ReportFails, Report, Kill
  <1> QED
    BY <1>1, <1>2, <1>3, <1>4, <1>5, <1>6, <1>7, <1>8, <1>9, <1>10, <1>11, <1>12, Cases

LEMMA BusTypeStep ==
    ASSUME BusTyped, Next
    PROVE  BusTyped'
  <1>1. CASE RefuseExisting \/ RefuseUnprepared
    BY <1>1 DEF BusTyped, RefuseExisting, RefuseUnprepared
  <1>2. CASE Begin
    BY <1>2 DEF BusTyped, Begin
  <1>3. CASE LaunchOk \/ LaunchFails
    BY <1>3 DEF BusTyped, LaunchOk, LaunchFails, VideoOpened
  <1>4. CASE FrameCollected \/ EncoderFails
    BY <1>4 DEF BusTyped, FrameCollected, EncoderFails, Arrives, Streaming, Encode,
           Consume, BelowLimit
  <1>5. CASE Turned
    BY <1>5 DEF BusTyped, Turned, FrameAboveLimit, FrameRejected, FrameDropped,
           FrameUnseen, Arrives, Streaming, Encode
  <1>6. CASE Ending
    BY <1>6 DEF BusTyped, Ending, UpstreamFails, SourceReportsError, SourceEnds,
           EosArrives, EosFails, Streaming
  <1>7. CASE Poll \/ DeadlinePasses
    BY <1>7 DEF BusTyped, Poll, PollProbeError, PollErrorMessage, PollEos, PollTimeout,
           DeadlinePasses, Pop, Message
  <1>8. CASE Drain \/ DrainFails \/ RemoveProbe \/ SetNull
    BY <1>8 DEF BusTyped, Drain, DrainFails, RemoveProbe, SetNull, Discard
  <1>9. CASE Verify \/ VerifyFails
    BY <1>9 DEF BusTyped, Verify, VerifyFails, Discard
  <1>10. CASE Publish
    BY <1>10 DEF BusTyped, Publish, PublishMetadata, PublishVideo, Withdraw, Remove,
           Discarded, Renamed
  <1>11. CASE Describe \/ WritePlan \/ WriteResult
    BY <1>11 DEF BusTyped, Describe, WritePlan, WriteResult
  <1>12. CASE ReportFails \/ Report \/ Kill
    BY <1>12 DEF BusTyped, ReportFails, Report, Kill
  <1> QED
    BY <1>1, <1>2, <1>3, <1>4, <1>5, <1>6, <1>7, <1>8, <1>9, <1>10, <1>11, <1>12, Cases

LEMMA DoomedStep ==
    ASSUME DoomedTyped, Next
    PROVE  DoomedTyped'
  <1>1. CASE RefuseExisting \/ RefuseUnprepared
    BY <1>1 DEF DoomedTyped, Paths, Partials, RefuseExisting, RefuseUnprepared
  <1>2. CASE Begin
    BY <1>2 DEF DoomedTyped, Paths, Partials, Begin
  <1>3. CASE LaunchOk \/ LaunchFails
    BY <1>3 DEF DoomedTyped, Paths, Partials, LaunchOk, LaunchFails, VideoOpened
  <1>4. CASE FrameCollected \/ EncoderFails
    BY <1>4 DEF DoomedTyped, Paths, Partials, FrameCollected, EncoderFails, Arrives,
           Streaming, Encode, Consume, BelowLimit
  <1>5. CASE Turned
    BY <1>5 DEF DoomedTyped, Paths, Partials, Turned, FrameAboveLimit, FrameRejected,
           FrameDropped, FrameUnseen, Arrives, Streaming, Encode
  <1>6. CASE Ending
    BY <1>6 DEF DoomedTyped, Paths, Partials, Ending, UpstreamFails,
           SourceReportsError, SourceEnds, EosArrives, EosFails, Streaming
  <1>7. CASE Poll \/ DeadlinePasses
    BY <1>7 DEF DoomedTyped, Paths, Partials, Poll, PollProbeError, PollErrorMessage,
           PollEos, PollTimeout, DeadlinePasses, Pop, Message
  <1>8. CASE Drain \/ DrainFails \/ RemoveProbe \/ SetNull
    BY <1>8 DEF DoomedTyped, Paths, Partials, Drain, DrainFails, RemoveProbe, SetNull,
           Discard
  <1>9. CASE Verify \/ VerifyFails
    BY <1>9 DEF DoomedTyped, Paths, Partials, Verify, VerifyFails, Discard
  <1>10. CASE Publish
    BY <1>10 DEF DoomedTyped, Paths, Partials, Publish, PublishMetadata, PublishVideo,
           Withdraw, Remove, Discarded, Renamed
  <1>11. CASE Describe \/ WritePlan \/ WriteResult
    BY <1>11 DEF DoomedTyped, Paths, Partials, Describe, WritePlan, WriteResult
  <1>12. CASE ReportFails \/ Report \/ Kill
    BY <1>12 DEF DoomedTyped, Paths, Partials, ReportFails, Report, Kill
  <1> QED
    BY <1>1, <1>2, <1>3, <1>4, <1>5, <1>6, <1>7, <1>8, <1>9, <1>10, <1>11, <1>12, Cases

LEMMA DirTypeStep ==
    ASSUME DirTyped, NumbersTyped, DoomedTyped, Next
    PROVE  DirTyped'
  <1>1. CASE RefuseExisting \/ RefuseUnprepared
    BY <1>1 DEF DirTyped, Partials, Finals, Paths, File, Absent, Files, RefuseExisting,
           RefuseUnprepared
  <1>2. CASE Begin
    BY <1>2 DEF DirTyped, Partials, Finals, Paths, File, Absent, Files, Begin
  <1>3. CASE LaunchOk \/ LaunchFails
    <2>1. VideoOpened \in [Paths -> Files]
      BY EmptyFiles, PathsAre, FileUpdated DEF VideoOpened, DirTyped
    <2> QED
      BY <1>3, <2>1 DEF LaunchOk, LaunchFails, DirTyped
  <1>4. CASE FrameCollected \/ EncoderFails
    <2>1. Consume \in Files /\ Encode \in Files
      BY PathsAre, FileExtended DEF Consume, Encode, DirTyped, NumbersTyped
    <2>2. /\ [dir EXCEPT !["cdg00.jsonl.partial"] = Consume] \in [Paths -> Files]
          /\ [dir EXCEPT !["cdg00.jsonl.partial"] = Consume,
                         !["video.ogv.partial"] = Encode] \in [Paths -> Files]
      BY <2>1, PathsAre DEF DirTyped
    <2> QED
      BY <1>4, <2>2 DEF FrameCollected, EncoderFails, DirTyped
  <1>5. CASE Turned
    <2>1. [dir EXCEPT !["video.ogv.partial"] = Encode] \in [Paths -> Files]
      BY PathsAre, FileExtended, FileUpdated DEF Encode, DirTyped, NumbersTyped
    <2>2. /\ before' = before
          /\ dir' = dir \/ dir' = [dir EXCEPT !["video.ogv.partial"] = Encode]
      BY <1>5 DEF Turned, FrameAboveLimit, FrameRejected, FrameDropped, FrameUnseen
    <2> QED
      BY <2>1, <2>2 DEF DirTyped
  <1>6. CASE Ending
    <2>1. [dir EXCEPT !["video.ogv.partial"].complete = TRUE] \in [Paths -> Files]
      BY PathsAre, FileCompleted DEF DirTyped
    <2>2. /\ before' = before
          /\ dir' = dir \/ dir' = [dir EXCEPT !["video.ogv.partial"].complete = TRUE]
      BY <1>6 DEF Ending, UpstreamFails, SourceReportsError, SourceEnds, EosArrives, EosFails
    <2> QED
      BY <2>1, <2>2 DEF DirTyped
  <1>7. CASE Poll \/ DeadlinePasses
    <2>1. UNCHANGED <<dir, before>>
      BY <1>7 DEF Poll, PollProbeError, PollErrorMessage, PollEos, PollTimeout,
           DeadlinePasses
    <2> QED
      BY <2>1 DEF DirTyped
  <1>8. CASE Drain \/ DrainFails \/ RemoveProbe \/ SetNull
    <2>1. UNCHANGED <<dir, before>>
      BY <1>8 DEF Drain, DrainFails, RemoveProbe, SetNull
    <2> QED
      BY <2>1 DEF DirTyped
  <1>9. CASE Verify \/ VerifyFails
    <2>1. [dir EXCEPT !["cdg00.jsonl.partial"].complete = TRUE] \in [Paths -> Files]
      BY PathsAre, FileCompleted DEF DirTyped
    <2>2. /\ before' = before
          /\ dir' = dir \/ dir' = [dir EXCEPT !["cdg00.jsonl.partial"].complete = TRUE]
      BY <1>9 DEF Verify, VerifyFails
    <2> QED
      BY <2>1, <2>2 DEF DirTyped
  <1>10. CASE Publish
    <2>1. \A p \in Paths : [dir EXCEPT ![p] = Absent] \in [Paths -> Files]
      BY EmptyFiles, FileUpdated DEF DirTyped
    <2>2. ASSUME NEW p \in Paths, NEW q \in Paths
          PROVE  Renamed(p, q) \in [Paths -> Files]
      BY EmptyFiles DEF Renamed, DirTyped
    <2>3. CASE PublishMetadata \/ PublishVideo
      <3>1. /\ Renamed("cdg00.jsonl.partial", "cdg00.jsonl") \in [Paths -> Files]
            /\ Renamed("video.ogv.partial", "video.ogv") \in [Paths -> Files]
        BY <2>2, PathsAre
      <3> QED
        BY <2>3, <3>1, Zenon DEF PublishMetadata, PublishVideo, DirTyped
    <2>4. CASE Remove
      BY <2>1, <2>4 DEF Remove, DirTyped, DoomedTyped
    <2>5. CASE Withdraw \/ Discarded
      BY <2>5 DEF Withdraw, Discarded, DirTyped
    <2> QED
      BY <1>10, <2>3, <2>4, <2>5 DEF Publish
  <1>11. CASE Describe \/ WritePlan \/ WriteResult
    <2>1. UNCHANGED <<dir, before>>
      BY <1>11 DEF Describe, WritePlan, WriteResult
    <2> QED
      BY <2>1 DEF DirTyped
  <1>12. CASE ReportFails \/ Report \/ Kill
    <2>1. UNCHANGED <<dir, before>>
      BY <1>12 DEF ReportFails, Report, Kill
    <2> QED
      BY <2>1 DEF DirTyped
  <1> QED
    BY <1>1, <1>2, <1>3, <1>4, <1>5, <1>6, <1>7, <1>8, <1>9, <1>10, <1>11, <1>12, Cases

LEMMA ResultTypeStep ==
    ASSUME ResultTyped, DirTyped, NumbersTyped, Next
    PROVE  ResultTyped'
  <1>1. CASE RefuseExisting \/ RefuseUnprepared
    BY <1>1 DEF ResultTyped, Named, NotDescribed, RefuseExisting, RefuseUnprepared
  <1>2. CASE Begin
    BY <1>2 DEF ResultTyped, Named, NotDescribed, Begin
  <1>3. CASE LaunchOk \/ LaunchFails
    BY <1>3 DEF ResultTyped, Named, NotDescribed, LaunchOk, LaunchFails, VideoOpened
  <1>4. CASE FrameCollected \/ EncoderFails
    BY <1>4 DEF ResultTyped, Named, NotDescribed, FrameCollected, EncoderFails,
           Arrives, Streaming, Encode, Consume, BelowLimit
  <1>5. CASE Turned
    BY <1>5 DEF ResultTyped, Named, NotDescribed, Turned, FrameAboveLimit,
           FrameRejected, FrameDropped, FrameUnseen, Arrives, Streaming, Encode
  <1>6. CASE Ending
    BY <1>6 DEF ResultTyped, Named, NotDescribed, Ending, UpstreamFails,
           SourceReportsError, SourceEnds, EosArrives, EosFails, Streaming
  <1>7. CASE Poll \/ DeadlinePasses
    BY <1>7 DEF ResultTyped, Named, NotDescribed, Poll, PollProbeError,
           PollErrorMessage, PollEos, PollTimeout, DeadlinePasses, Pop, Message
  <1>8. CASE Drain \/ DrainFails \/ RemoveProbe \/ SetNull
    BY <1>8 DEF ResultTyped, Named, NotDescribed, Drain, DrainFails, RemoveProbe,
           SetNull, Discard
  <1>9. CASE Verify \/ VerifyFails
    BY <1>9 DEF ResultTyped, Named, NotDescribed, Verify, VerifyFails, Discard
  <1>10. CASE Publish
    BY <1>10 DEF ResultTyped, Named, NotDescribed, Publish, PublishMetadata,
           PublishVideo, Withdraw, Remove, Discarded, Renamed
  <1>11. CASE Describe \/ WritePlan \/ WriteResult
    <2>1. dir["video.ogv"].frames \in Seq(Nat) /\ dir["cdg00.jsonl"].frames \in Seq(Nat)
      BY PathsAre DEF DirTyped, Files
    <2>2. CASE Describe
      BY <2>1, <2>2 DEF Describe, ResultTyped, Named
    <2>3. CASE WritePlan
      BY <2>3 DEF WritePlan, ResultTyped
    <2>4. CASE WriteResult
      BY <2>4 DEF WriteResult, ResultTyped, NumbersTyped
    <2> QED
      BY <1>11, <2>2, <2>3, <2>4
  <1>12. CASE ReportFails \/ Report \/ Kill
    BY <1>12 DEF ResultTyped, Named, NotDescribed, ReportFails, Report, Kill
  <1> QED
    BY <1>1, <1>2, <1>3, <1>4, <1>5, <1>6, <1>7, <1>8, <1>9, <1>10, <1>11, <1>12, Cases

LEMMA TypeStep == TypeOK /\ Next => TypeOK'
  <1> SUFFICES ASSUME TypeOK, Next PROVE TypeOK'
    OBVIOUS
  <1>1. /\ StagesTyped /\ SourceTyped /\ NumbersTyped /\ FlagsTyped
        /\ BusTyped /\ DirTyped /\ DoomedTyped /\ ResultTyped
    BY TypeParts
  <1>2. /\ StagesTyped' /\ SourceTyped' /\ NumbersTyped' /\ FlagsTyped'
        /\ BusTyped' /\ DirTyped' /\ DoomedTyped' /\ ResultTyped'
    BY <1>1, StagesStep, SourceStep, NumbersStep, FlagsStep, BusTypeStep, DirTypeStep,
       DoomedStep, ResultTypeStep
  <1>3. (StagesTyped /\ SourceTyped /\ NumbersTyped /\ FlagsTyped
         /\ BusTyped /\ DirTyped /\ DoomedTyped /\ ResultTyped => TypeOK)'
    BY TypeParts, PTL
  <1> QED
    BY <1>2, <1>3
-----------------------------------------------------------------------------
(* Bus and counters *)

LEMMA Posted ==
    ASSUME NEW S, NEW q \in Seq(S), NEW e \in S
    PROVE  /\ Append(q, e) # <<>>
           /\ q # <<>> => Head(Append(q, e)) = Head(q)
           /\ q = <<>> => Head(Append(q, e)) = e
           /\ q = <<>> => Append(q, e) = <<e>>
  <1>1. q = <<>> => Append(q, e) = <<e>>
    OBVIOUS
  <1>2. Append(q, e) # <<>>
    <2>1. Len(Append(q, e)) = Len(q) + 1 /\ Len(q) \in Nat
      OBVIOUS
    <2> QED
      BY <2>1
  <1>3. q = <<>> => Head(Append(q, e)) = e
    OBVIOUS
  <1>4. q # <<>> => Head(Append(q, e)) = Head(q)
    OBVIOUS
  <1> QED
    BY <1>1, <1>2, <1>3, <1>4

LEMMA BusStep ==
    ASSUME BusTyped, SourceTyped, DirTyped, BusInv, Next
    PROVE  BusInv'
  <1>1. CASE RefuseExisting \/ RefuseUnprepared
    BY <1>1 DEF BusInv, Completed, Closed, Published, VideoPartial, Partials, Finals,
           Paths, Files, BusTyped, DirTyped, RefuseExisting, RefuseUnprepared
  <1>2. CASE Begin
    BY <1>2 DEF BusInv, Completed, Closed, Published, VideoPartial, Partials, Finals,
           Paths, Files, BusTyped, DirTyped, Begin
  <1>3. CASE LaunchOk \/ LaunchFails
    BY <1>3 DEF BusInv, Completed, Closed, Published, VideoPartial, Partials, Finals,
           Paths, Files, BusTyped, DirTyped, LaunchOk, LaunchFails, VideoOpened
  <1>4. CASE FrameCollected \/ EncoderFails
    <2>1. CASE FrameCollected
      BY <1>4, <2>1 DEF FrameCollected, Arrives, Streaming, BusInv, Completed, Closed, Published
    <2>2. CASE EncoderFails
      <3>1. /\ main \in {"polling", "unwinding", "draining", "closing"} /\ main' = main
            /\ source = "pushing" /\ source' = "failing" /\ flow' = "error"
            /\ bus' = bus \/ bus' = Append(bus, "error")
        BY <2>2 DEF EncoderFails, Arrives, Streaming
      <3>2. flow = "ok" /\ main \notin Completed
        BY <3>1 DEF BusInv
      <3>3. main = "polling" => bus = <<>>
        BY <3>1, <3>2 DEF BusInv
      <3>4. main = "polling" => bus' = <<>> \/ (bus' # <<>> /\ Head(bus') = "error")
        BY <3>1, <3>3, Posted DEF BusTyped
      <3> QED
        BY <3>1, <3>2, <3>4 DEF BusInv, Completed, Closed, Published
    <2> QED
      BY <1>4, <2>1, <2>2
  <1>5. CASE Turned
    BY <1>5 DEF BusInv, Completed, Closed, Published, VideoPartial, Partials, Finals,
           Paths, Files, BusTyped, DirTyped, Turned, FrameAboveLimit, FrameRejected,
           FrameDropped, FrameUnseen, Arrives, Streaming, Encode
  <1>6. CASE Ending
    <2>1. CASE UpstreamFails
      <3>1. /\ main \in {"polling", "unwinding", "draining", "closing"} /\ main' = main
            /\ source = "pushing" /\ source' = "failing" /\ flow' = "error"
            /\ bus' = bus \/ bus' = Append(bus, "error")
        BY <2>1 DEF UpstreamFails, Streaming
      <3>2. flow = "ok" /\ main \notin Completed
        BY <3>1 DEF BusInv
      <3>3. main = "polling" => bus = <<>>
        BY <3>1, <3>2 DEF BusInv
      <3>4. main = "polling" => bus' = <<>> \/ (bus' # <<>> /\ Head(bus') = "error")
        BY <3>1, <3>3, Posted DEF BusTyped
      <3> QED
        BY <3>1, <3>2, <3>4 DEF BusInv, Completed, Closed, Published
    <2>2. CASE SourceReportsError
      <3>1. /\ main \in {"polling", "unwinding", "draining", "closing"} /\ main' = main
            /\ source = "failing" /\ source' = "eos" /\ flow' = flow
            /\ bus' = Append(bus, "error")
        BY <2>2 DEF SourceReportsError, Streaming
      <3>2. flow = "error" /\ main \notin Completed
        BY <3>1 DEF BusInv, BusTyped, SourceTyped
      <3>3. main = "polling" => Head(bus') = "error" /\ bus' # <<>>
        BY <3>1, <3>2, Posted DEF BusInv, BusTyped
      <3> QED
        BY <3>1, <3>2, <3>3 DEF BusInv, Completed, Closed, Published
    <2>3. CASE SourceEnds
      BY <2>3 DEF SourceEnds, Streaming, BusInv, Completed, Closed, Published
    <2>4. CASE EosArrives \/ EosFails
      <3>1. /\ main \in {"polling", "unwinding", "draining", "closing"} /\ main' = main
            /\ source = "eos" /\ source' = "ended" /\ flow' = flow
            /\ bus' \in {Append(bus, "eos"), Append(bus, "error")}
        BY <2>4 DEF EosArrives, EosFails, Streaming
      <3>2. bus' = Append(bus, "eos") => VideoPartial'.complete
        <4>1. CASE EosArrives
          BY <4>1, PathsAre DEF EosArrives, VideoPartial, DirTyped, Files
        <4>2. CASE EosFails
          <5>1. bus' = Append(bus, "error") /\ Append(bus, "eos") # Append(bus, "error")
            BY <4>2 DEF EosFails, BusTyped
          <5> QED
            BY <5>1
        <4> QED
          BY <2>4, <4>1, <4>2
      <3>3. main \notin Completed
        BY <3>1 DEF BusInv
      <3>4. main = "polling" /\ flow = "ok" =>
                bus' = <<"error">> \/ (bus' = <<"eos">> /\ VideoPartial'.complete)
        BY <3>1, <3>2, Posted DEF BusInv, BusTyped
      <3>5. main = "polling" /\ flow # "ok" => bus' # <<>> /\ Head(bus') = "error"
        BY <3>1, Posted DEF BusInv, BusTyped, SourceTyped
      <3> QED
        BY <3>1, <3>3, <3>4, <3>5 DEF BusInv, Completed, Closed, Published
    <2> QED
      BY <1>6, <2>1, <2>2, <2>3, <2>4 DEF Ending
  <1>7. CASE Poll \/ DeadlinePasses
    <2>1. CASE PollProbeError \/ PollErrorMessage \/ PollTimeout
      <3>1. main' = "unwinding" /\ UNCHANGED <<source, flow>>
        BY <2>1 DEF PollProbeError, PollErrorMessage, PollTimeout
      <3> QED
        BY <3>1 DEF BusInv, Completed, Closed, Published
    <2>2. CASE PollEos
      <3>1. main = "polling" /\ main' = "draining" /\ UNCHANGED <<source, flow>>
            /\ bus # <<>> /\ Head(bus) = "eos"
        BY <2>2 DEF PollEos, Pop, Message
      <3>2. flow = "ok"
        BY <3>1 DEF BusInv, SourceTyped
      <3>3. source = "ended"
        BY <3>1, <3>2 DEF BusInv
      <3> QED
        BY <3>1, <3>2, <3>3 DEF BusInv, Completed, Closed, Published
    <2>3. CASE DeadlinePasses
      BY <2>3 DEF DeadlinePasses, BusInv, VideoPartial
    <2> QED
      BY <1>7, <2>1, <2>2, <2>3 DEF Poll
  <1>8. CASE Drain \/ DrainFails \/ RemoveProbe \/ SetNull
    BY <1>8 DEF BusInv, Completed, Closed, Published, VideoPartial, Partials, Finals,
           Paths, Files, BusTyped, DirTyped, Drain, DrainFails, RemoveProbe, SetNull,
           Discard
  <1>9. CASE Verify \/ VerifyFails
    BY <1>9 DEF BusInv, Completed, Closed, Published, VideoPartial, Partials, Finals,
           Paths, Files, BusTyped, DirTyped, Verify, VerifyFails, Discard
  <1>10. CASE Publish
    BY <1>10 DEF BusInv, Completed, Closed, Published, VideoPartial, Partials, Finals,
           Paths, Files, BusTyped, DirTyped, Publish, PublishMetadata, PublishVideo,
           Withdraw, Remove, Discarded, Renamed
  <1>11. CASE Describe \/ WritePlan \/ WriteResult
    BY <1>11 DEF BusInv, Completed, Closed, Published, VideoPartial, Partials, Finals,
           Paths, Files, BusTyped, DirTyped, Describe, WritePlan, WriteResult
  <1>12. CASE ReportFails \/ Report \/ Kill
    BY <1>12 DEF BusInv, Completed, Closed, Published, VideoPartial, Partials, Finals,
           Paths, Files, BusTyped, DirTyped, ReportFails, Report, Kill
  <1> QED
    BY <1>1, <1>2, <1>3, <1>4, <1>5, <1>6, <1>7, <1>8, <1>9, <1>10, <1>11, <1>12, Cases

LEMMA CountStep ==
    ASSUME BusInv, CountInv, Next
    PROVE  CountInv'
  <1>1. CASE RefuseExisting \/ RefuseUnprepared
    BY <1>1 DEF CountInv, BusInv, Completed, Closed, Published, RefuseExisting,
           RefuseUnprepared
  <1>2. CASE Begin
    BY <1>2 DEF CountInv, BusInv, Completed, Closed, Published, Begin
  <1>3. CASE LaunchOk \/ LaunchFails
    BY <1>3 DEF CountInv, BusInv, Completed, Closed, Published, LaunchOk, LaunchFails,
           VideoOpened
  <1>4. CASE FrameCollected \/ EncoderFails
    BY <1>4 DEF CountInv, BusInv, Completed, Closed, Published, FrameCollected,
           EncoderFails, Arrives, Streaming, Encode, Consume, BelowLimit
  <1>5. CASE Turned
    BY <1>5 DEF CountInv, BusInv, Completed, Closed, Published, Turned,
           FrameAboveLimit, FrameRejected, FrameDropped, FrameUnseen, Arrives,
           Streaming, Encode
  <1>6. CASE Ending
    BY <1>6 DEF CountInv, BusInv, Completed, Closed, Published, Ending, UpstreamFails,
           SourceReportsError, SourceEnds, EosArrives, EosFails, Streaming
  <1>7. CASE Poll \/ DeadlinePasses
    BY <1>7 DEF CountInv, BusInv, Completed, Closed, Published, Poll, PollProbeError,
           PollErrorMessage, PollEos, PollTimeout, DeadlinePasses, Pop, Message
  <1>8. CASE Drain \/ DrainFails \/ RemoveProbe \/ SetNull
    BY <1>8 DEF CountInv, BusInv, Completed, Closed, Published, Drain, DrainFails,
           RemoveProbe, SetNull, Discard
  <1>9. CASE Verify \/ VerifyFails
    BY <1>9 DEF CountInv, BusInv, Completed, Closed, Published, Verify, VerifyFails,
           Discard
  <1>10. CASE Publish
    BY <1>10 DEF CountInv, BusInv, Completed, Closed, Published, Publish,
           PublishMetadata, PublishVideo, Withdraw, Remove, Discarded, Renamed
  <1>11. CASE Describe \/ WritePlan \/ WriteResult
    BY <1>11 DEF CountInv, BusInv, Completed, Closed, Published, Describe, WritePlan,
           WriteResult
  <1>12. CASE ReportFails \/ Report \/ Kill
    BY <1>12 DEF CountInv, BusInv, Completed, Closed, Published, ReportFails, Report,
           Kill
  <1> QED
    BY <1>1, <1>2, <1>3, <1>4, <1>5, <1>6, <1>7, <1>8, <1>9, <1>10, <1>11, <1>12, Cases

-----------------------------------------------------------------------------
(* What the files hold *)

LEMMA ContentStep ==
    ASSUME TypeOK, BusInv, CountInv, ContentInv, Next
    PROVE  ContentInv'
  <1>0. DirTyped /\ NumbersTyped /\ SourceTyped
    BY TypeParts
  <1> USE <1>0
  <1>1. CASE RefuseExisting \/ RefuseUnprepared
    BY <1>1 DEF ContentInv, VideoPartial, MetadataPartial, Completed, Closed,
           Published, BusInv, CountInv, Partials, Finals, Paths, DirTyped,
           RefuseExisting, RefuseUnprepared
  <1>2. CASE Begin
    BY <1>2 DEF ContentInv, VideoPartial, MetadataPartial, Completed, Closed,
           Published, BusInv, CountInv, Partials, Finals, Paths, DirTyped, Begin
  <1>3. CASE LaunchOk \/ LaunchFails
    <2>1. CASE LaunchOk
      <3>1. /\ main = "launch" /\ main' = "polling"
            /\ UNCHANGED <<probe_count, probe_error, sent, flow>>
            /\ MetadataPartial' = MetadataPartial /\ VideoPartial' = File(<<>>, FALSE)
        BY <2>1, PathsAre DEF LaunchOk, VideoOpened, VideoPartial, MetadataPartial, DirTyped
      <3>2. MetadataPartial = File(<<>>, FALSE) /\ sent = 0 /\ probe_count = 0
        BY <3>1 DEF ContentInv, CountInv
      <3>3. Consecutive(MetadataPartial'.frames, probe_count')
            /\ Consecutive(VideoPartial'.frames, sent')
        BY <3>1, <3>2, ConsecutiveEmpty DEF File
      <3>4. MetadataPartial'.exists /\ VideoPartial'.exists
        BY <3>1, <3>2 DEF File
      <3> QED
        BY <3>1, <3>3, <3>4 DEF ContentInv, Published
    <2>2. CASE LaunchFails
      BY <2>2 DEF LaunchFails, ContentInv, Published
    <2> QED
      BY <1>3, <2>1, <2>2
  <1>4. CASE FrameCollected \/ EncoderFails
    <2>1. /\ main \in {"polling", "unwinding", "draining", "closing"} /\ main' = main
          /\ source = "pushing" /\ sent' = sent + 1 /\ probe_count' = probe_count + 1
          /\ probe' = probe /\ probe_error = "ok" /\ probe_error' = probe_error
          /\ probe = "installed"
          /\ MetadataPartial' = [MetadataPartial EXCEPT !.frames = Append(@, sent)]
          /\ FrameCollected =>
                VideoPartial' = [VideoPartial EXCEPT !.frames = Append(@, sent)]
          /\ EncoderFails => VideoPartial' = VideoPartial /\ flow' = "error"
          /\ FrameCollected => flow' = flow
      BY <1>4, PathsAre DEF FrameCollected, EncoderFails, Arrives, Streaming, Consume, Encode,
             VideoPartial, MetadataPartial, DirTyped
    <2>2. main \notin Completed /\ probe_count = sent
      BY <2>1 DEF BusInv, CountInv
    <2>3. MetadataPartial \in Files /\ VideoPartial \in Files
      BY PathsAre DEF VideoPartial, MetadataPartial, DirTyped
    <2>4. CASE main = "polling"
      <3>1. /\ MetadataPartial.exists /\ VideoPartial.exists
            /\ Consecutive(MetadataPartial.frames, sent)
            /\ flow = "ok" => Consecutive(VideoPartial.frames, sent)
        BY <2>1, <2>2, <2>4 DEF ContentInv
      <3>2. /\ MetadataPartial.frames \in Seq(Nat) /\ VideoPartial.frames \in Seq(Nat)
            /\ sent \in Nat
        BY <2>3 DEF Files, NumbersTyped
      <3>3. MetadataPartial'.exists /\ Consecutive(MetadataPartial'.frames, probe_count')
        <4>1. /\ MetadataPartial'.frames = Append(MetadataPartial.frames, sent)
              /\ MetadataPartial'.exists
          BY <2>1, <2>3, <3>1, <3>2, FileExtended
        <4>2. Consecutive(Append(MetadataPartial.frames, sent), sent + 1)
          BY <3>1, <3>2, ConsecutiveExtended
        <4> QED
          BY <2>1, <2>2, <4>1, <4>2
      <3>4. CASE FrameCollected
        <4>1. /\ VideoPartial'.frames = Append(VideoPartial.frames, sent)
              /\ VideoPartial'.exists
          <5>1. VideoPartial' = [VideoPartial EXCEPT !.frames = Append(@, sent)]
            BY <2>1, <3>4
          <5> QED
            BY <2>3, <3>1, <3>2, <5>1, FileExtended
        <4>2. flow = "ok" => Consecutive(Append(VideoPartial.frames, sent), sent + 1)
          BY <3>1, <3>2, ConsecutiveExtended
        <4>3. flow' = "ok" => Consecutive(VideoPartial'.frames, sent')
          BY <2>1, <3>4, <4>1, <4>2
        <4> QED
          BY <2>1, <2>4, <3>3, <4>1, <4>3 DEF ContentInv, Published
      <3>5. CASE EncoderFails
        <4>1. VideoPartial'.exists /\ flow' = "error"
          BY <2>1, <3>1, <3>5
        <4> QED
          BY <2>1, <2>4, <3>3, <4>1 DEF ContentInv, Published
      <3> QED
        BY <1>4, <3>4, <3>5
    <2>5. CASE main = "unwinding"
      BY <2>1, <2>5 DEF ContentInv, Published
    <2> QED
      BY <2>1, <2>2, <2>4, <2>5 DEF Completed, Closed
  <1>5. CASE Turned
    BY <1>5 DEF ContentInv, VideoPartial, MetadataPartial, Completed, Closed,
           Published, BusInv, CountInv, Partials, Finals, Paths, DirTyped, Turned,
           FrameAboveLimit, FrameRejected, FrameDropped, FrameUnseen, Arrives,
           Streaming, Encode
  <1>6. CASE Ending
    <2>1. CASE UpstreamFails \/ SourceReportsError \/ SourceEnds \/ EosFails
      BY <1>6, <2>1 DEF UpstreamFails, SourceReportsError, SourceEnds, EosFails, Streaming,
             ContentInv, VideoPartial, MetadataPartial, Published, BusInv
    <2>2. CASE EosArrives
      <3>1. /\ main \in {"polling", "unwinding", "draining", "closing"} /\ main' = main
            /\ source = "eos" /\ UNCHANGED <<probe_count, probe_error, sent, flow, total>>
            /\ MetadataPartial' = MetadataPartial
            /\ VideoPartial' = [VideoPartial EXCEPT !.complete = TRUE]
        BY <2>2, PathsAre DEF EosArrives, Streaming, VideoPartial, MetadataPartial, DirTyped
      <3>2. main \notin Completed
        BY <3>1 DEF BusInv
      <3>3. VideoPartial'.exists = VideoPartial.exists
            /\ VideoPartial'.frames = VideoPartial.frames
        BY <3>1, PathsAre, FileCompleted DEF VideoPartial, DirTyped
      <3> QED
        BY <3>1, <3>2, <3>3 DEF ContentInv, Completed, Closed, Published
    <2> QED
      BY <1>6, <2>1, <2>2 DEF Ending
  <1>7. CASE Poll \/ DeadlinePasses
    <2>1. CASE PollEos
      <3>1. /\ main = "polling" /\ main' = "draining" /\ Message = "eos"
            /\ UNCHANGED <<dir, probe_count, probe_error, sent, flow>>
        BY <2>1 DEF PollEos, Pop
      <3>2. bus # <<>> /\ Head(bus) = "eos"
        BY <3>1 DEF Message
      <3>3. flow = "ok" /\ VideoPartial.complete
        BY <3>1, <3>2 DEF BusInv, SourceTyped
      <3>4. UNCHANGED <<VideoPartial, MetadataPartial>>
        BY <3>1 DEF VideoPartial, MetadataPartial
      <3> QED
        BY <3>1, <3>3, <3>4 DEF ContentInv, Published
    <2>2. CASE PollProbeError \/ PollErrorMessage \/ PollTimeout
      <3>1. main' = "unwinding"
        BY <2>2 DEF PollProbeError, PollErrorMessage, PollTimeout
      <3> QED
        BY <3>1 DEF ContentInv, Published
    <2>3. CASE DeadlinePasses
      BY <2>3 DEF DeadlinePasses, ContentInv, VideoPartial, MetadataPartial, Published
    <2> QED
      BY <1>7, <2>1, <2>2, <2>3 DEF Poll
  <1>8. CASE Drain \/ DrainFails \/ RemoveProbe \/ SetNull
    BY <1>8 DEF ContentInv, VideoPartial, MetadataPartial, Completed, Closed,
           Published, BusInv, CountInv, Partials, Finals, Paths, DirTyped, Drain,
           DrainFails, RemoveProbe, SetNull, Discard
  <1>9. CASE Verify \/ VerifyFails
    <2>1. CASE Verify
      <3>1. /\ main = "verifying" /\ main' = "renaming metadata"
            /\ UNCHANGED <<probe_count, probe_error, sent, flow>>
            /\ VideoPartial' = VideoPartial
            /\ MetadataPartial' = [MetadataPartial EXCEPT !.complete = TRUE]
        BY <2>1, PathsAre DEF Verify, VideoPartial, MetadataPartial, DirTyped
      <3>2. flow = "ok" /\ probe_error = "ok" /\ probe_count = sent
        BY <3>1 DEF BusInv, CountInv, Completed, Closed
      <3>3. Whole(VideoPartial, sent)
        BY <3>1, <3>2 DEF ContentInv, Whole, Consecutive
      <3>4. Whole(MetadataPartial', sent)
        <4>1. /\ MetadataPartial.exists /\ Consecutive(MetadataPartial.frames, sent)
              /\ MetadataPartial \in Files
          BY <3>1, <3>2, PathsAre DEF ContentInv, MetadataPartial, DirTyped
        <4> QED
          BY <3>1, <4>1, FileCompleted DEF Whole, Consecutive
      <3>5. Whole(VideoPartial', sent') /\ Whole(MetadataPartial', sent')
        BY <3>1, <3>3, <3>4
      <3> QED
        BY <3>1, <3>5 DEF ContentInv, Published
    <2>2. CASE VerifyFails
      BY <2>2 DEF VerifyFails, Discard, ContentInv, Published
    <2> QED
      BY <1>9, <2>1, <2>2
  <1>10. CASE Publish
    <2>1. CASE PublishMetadata
      <3>1. /\ main = "renaming metadata" /\ main' = "renaming video" /\ sent' = sent
            /\ VideoPartial' = VideoPartial /\ MetadataPartial' = Absent
            /\ dir'["cdg00.jsonl"] = MetadataPartial
        BY <2>1, PathsAre DEF PublishMetadata, Renamed, VideoPartial, MetadataPartial, DirTyped
      <3>2. Whole(VideoPartial', sent') /\ Whole(dir'["cdg00.jsonl"], sent')
        BY <3>1 DEF ContentInv
      <3> QED
        BY <3>1, <3>2 DEF ContentInv, Published
    <2>2. CASE PublishVideo
      <3>1. /\ main = "renaming video" /\ main' = "describing" /\ sent' = sent
            /\ VideoPartial' = Absent /\ MetadataPartial' = MetadataPartial
            /\ dir'["cdg00.jsonl"] = dir["cdg00.jsonl"]
            /\ dir'["video.ogv"] = VideoPartial
        BY <2>2, PathsAre DEF PublishVideo, Renamed, VideoPartial, MetadataPartial, DirTyped
      <3>2. Whole(dir'["video.ogv"], sent') /\ Whole(dir'["cdg00.jsonl"], sent')
            /\ MetadataPartial' = Absent
        BY <3>1 DEF ContentInv
      <3>3. \A p \in Partials : dir'[p] = Absent
        BY <3>1, <3>2 DEF Partials, VideoPartial, MetadataPartial
      <3> QED
        BY <3>1, <3>2, <3>3 DEF ContentInv, Published
    <2>3. CASE Withdraw \/ Remove \/ Discarded
      <3>1. main' \in {"discarding", "down"}
        BY <2>3 DEF Withdraw, Remove, Discarded
      <3> QED
        BY <3>1 DEF ContentInv, Published
    <2> QED
      BY <1>10, <2>1, <2>2, <2>3 DEF Publish
  <1>11. CASE Describe \/ WritePlan \/ WriteResult
    BY <1>11 DEF ContentInv, VideoPartial, MetadataPartial, Completed, Closed,
           Published, BusInv, CountInv, Partials, Finals, Paths, DirTyped, Describe,
           WritePlan, WriteResult
  <1>12. CASE ReportFails \/ Report \/ Kill
    BY <1>12 DEF ContentInv, VideoPartial, MetadataPartial, Completed, Closed,
           Published, BusInv, CountInv, Partials, Finals, Paths, DirTyped, ReportFails,
           Report, Kill
  <1> QED
    BY <1>1, <1>2, <1>3, <1>4, <1>5, <1>6, <1>7, <1>8, <1>9, <1>10, <1>11, <1>12, Cases

-----------------------------------------------------------------------------
(* What exists *)

LEMMA PresenceStep ==
    ASSUME TypeOK, BusInv, ContentInv, PresenceInv, Next
    PROVE  PresenceInv'
  <1>0. DirTyped /\ NumbersTyped /\ DoomedTyped
    BY TypeParts
  <1> USE <1>0
  <1>1. CASE RefuseExisting \/ RefuseUnprepared
    BY <1>1 DEF PresenceInv, ContentInv, VideoPartial, MetadataPartial, RefuseExisting,
           RefuseUnprepared
  <1>2. CASE Begin
    <2>1. /\ main' = "launch"
          /\ dir' = [dir EXCEPT !["cdg00.jsonl.partial"] = File(<<>>, FALSE)]
      BY <1>2 DEF Begin
    <2>2. File(<<>>, FALSE).exists
      BY DEF File
    <2> QED
      BY <2>1, <2>2, PathsAre DEF PresenceInv, DirTyped
  <1>3. CASE LaunchOk \/ LaunchFails
    <2>1. /\ dir' = dir \/ dir' = VideoOpened
          /\ main = "launch" /\ (main' # "unwinding" \/ source' = source)
      BY <1>3 DEF LaunchOk, LaunchFails
    <2>2. source = "idle" /\ MetadataPartial = File(<<>>, FALSE)
      BY <2>1 DEF BusInv, ContentInv
    <2>3. /\ VideoOpened["video.ogv.partial"].exists
          /\ \A p \in Paths \ {"video.ogv.partial"} : VideoOpened[p] = dir[p]
      BY PathsAre DEF VideoOpened, File, DirTyped
    <2>4. MetadataPartial'.exists
      BY <2>1, <2>2, <2>3, PathsAre DEF MetadataPartial, File
    <2> QED
      BY <2>1, <2>2, <2>3, <2>4 DEF PresenceInv
  <1>4. CASE FrameCollected \/ EncoderFails
    <2>1. /\ main \in {"polling", "unwinding", "draining", "closing"} /\ main' = main
          /\ source = "pushing" /\ MetadataPartial' = Consume
          /\ VideoPartial' \in {VideoPartial, Encode}
          /\ \A p \in Finals : dir'[p] = dir[p]
      BY <1>4, PathsAre DEF FrameCollected, EncoderFails, Arrives, Streaming, VideoPartial,
             MetadataPartial, DirTyped, Finals
    <2>2. MetadataPartial.exists /\ VideoPartial.exists
      BY <2>1 DEF PresenceInv, ContentInv
    <2>3. Consume.exists /\ Encode.exists
      BY <2>2, PathsAre, FileExtended DEF Consume, Encode, MetadataPartial, VideoPartial,
             DirTyped, NumbersTyped
    <2> QED
      BY <2>1, <2>2, <2>3 DEF PresenceInv, Paths, Partials, VideoPartial, MetadataPartial
  <1>5. CASE Turned
    <2>1. CASE FrameUnseen
      <3>1. /\ main \in {"polling", "unwinding", "draining", "closing"} /\ main' = main
            /\ source = "pushing" /\ VideoPartial' = Encode
            /\ \A p \in Paths \ {"video.ogv.partial"} : dir'[p] = dir[p]
        BY <2>1, PathsAre DEF FrameUnseen, Arrives, Streaming, VideoPartial, DirTyped
      <3>2. VideoPartial.exists
        BY <3>1 DEF PresenceInv, ContentInv
      <3>3. Encode.exists
        BY <3>2, PathsAre, FileExtended DEF Encode, VideoPartial, DirTyped, NumbersTyped
      <3>4. MetadataPartial' = MetadataPartial
        BY <3>1, PathsAre DEF MetadataPartial
      <3> QED
        BY <3>1, <3>3, <3>4 DEF PresenceInv, VideoPartial
    <2>2. CASE FrameAboveLimit \/ FrameRejected \/ FrameDropped
      <3>1. UNCHANGED <<dir, main, source>>
        BY <2>2 DEF FrameAboveLimit, FrameRejected, FrameDropped
      <3> QED
        BY <3>1 DEF PresenceInv, VideoPartial, MetadataPartial
    <2> QED
      BY <1>5, <2>1, <2>2 DEF Turned
  <1>6. CASE Ending
    <2>1. CASE EosArrives
      <3>1. /\ main \in {"polling", "unwinding", "draining", "closing"} /\ main' = main
            /\ source = "eos"
            /\ VideoPartial' = [VideoPartial EXCEPT !.complete = TRUE]
            /\ \A p \in Paths \ {"video.ogv.partial"} : dir'[p] = dir[p]
        BY <2>1, PathsAre DEF EosArrives, Streaming, VideoPartial, DirTyped
      <3>2. VideoPartial.exists
        BY <3>1 DEF PresenceInv, ContentInv
      <3>3. VideoPartial'.exists
        BY <3>1, <3>2, PathsAre, FileCompleted DEF VideoPartial, DirTyped
      <3>4. MetadataPartial' = MetadataPartial
        BY <3>1, PathsAre DEF MetadataPartial
      <3> QED
        BY <3>1, <3>3, <3>4 DEF PresenceInv, VideoPartial
    <2>2. CASE UpstreamFails \/ SourceReportsError \/ SourceEnds \/ EosFails
      <3>1. UNCHANGED <<dir, main>> /\ source # "idle"
        BY <2>2 DEF UpstreamFails, SourceReportsError, SourceEnds, EosFails
      <3> QED
        BY <3>1 DEF PresenceInv, VideoPartial, MetadataPartial
    <2> QED
      BY <1>6, <2>1, <2>2 DEF Ending
  <1>7. CASE Poll \/ DeadlinePasses
    BY <1>7 DEF PresenceInv, ContentInv, VideoPartial, MetadataPartial, Poll,
           PollProbeError, PollErrorMessage, PollEos, PollTimeout, DeadlinePasses, Pop,
           Message
  <1>8. CASE Drain \/ DrainFails \/ RemoveProbe \/ SetNull
    BY <1>8 DEF PresenceInv, ContentInv, VideoPartial, MetadataPartial, Drain,
           DrainFails, RemoveProbe, SetNull, Discard
  <1>9. CASE Verify \/ VerifyFails
    <2>1. CASE Verify
      <3>1. /\ main = "verifying" /\ main' = "renaming metadata"
            /\ MetadataPartial' = [MetadataPartial EXCEPT !.complete = TRUE]
            /\ \A p \in Paths \ {"cdg00.jsonl.partial"} : dir'[p] = dir[p]
        BY <2>1, PathsAre DEF Verify, MetadataPartial, DirTyped
      <3>2. MetadataPartial.exists
        BY <3>1 DEF ContentInv
      <3>3. MetadataPartial'.exists
        BY <3>1, <3>2, PathsAre, FileCompleted DEF MetadataPartial, DirTyped
      <3> QED
        BY <3>1, <3>3 DEF PresenceInv, MetadataPartial
    <2>2. CASE VerifyFails
      <3>1. dir' = dir /\ main' = "discarding"
        BY <2>2 DEF VerifyFails, Discard
      <3> QED
        BY <3>1 DEF PresenceInv
    <2> QED
      BY <1>9, <2>1, <2>2
  <1>10. CASE Publish
    <2>1. CASE PublishMetadata \/ PublishVideo
      <3>1. main' # "unwinding"
            /\ \A p \in Paths : dir'[p] = Absent \/ \E q \in Paths : dir'[p] = dir[q]
        BY <2>1, PathsAre DEF PublishMetadata, PublishVideo, Renamed, DirTyped
      <3> QED
        BY <3>1 DEF PresenceInv
    <2>2. CASE Remove
      <3>1. main' # "unwinding"
            /\ \A p \in Paths : dir'[p] = Absent \/ dir'[p] = dir[p]
        BY <2>2 DEF Remove, DirTyped
      <3> QED
        BY <3>1 DEF PresenceInv
    <2>3. CASE Withdraw \/ Discarded
      BY <2>3 DEF Withdraw, Discarded, PresenceInv
    <2> QED
      BY <1>10, <2>1, <2>2, <2>3 DEF Publish
  <1>11. CASE Describe \/ WritePlan \/ WriteResult
    BY <1>11 DEF PresenceInv, ContentInv, VideoPartial, MetadataPartial, Describe,
           WritePlan, WriteResult
  <1>12. CASE ReportFails \/ Report \/ Kill
    BY <1>12 DEF PresenceInv, ContentInv, VideoPartial, MetadataPartial, ReportFails,
           Report, Kill
  <1> QED
    BY <1>1, <1>2, <1>3, <1>4, <1>5, <1>6, <1>7, <1>8, <1>9, <1>10, <1>11, <1>12, Cases

LEMMA DirStep ==
    ASSUME TypeOK, PresenceInv, DirInv, Next
    PROVE  DirInv'
  <1>0. DirTyped
    BY TypeParts
  <1>1. CASE RefuseExisting \/ RefuseUnprepared
    BY <1>1 DEF TypeOK, DirInv, ExitCodes, Partials, Finals, Paths, File, Absent,
           Files, VideoPartial, MetadataPartial, Published, RefuseExisting,
           RefuseUnprepared
  <1>2. CASE Begin
    <2>1. /\ main' = "launch" /\ exit' = "none" /\ before' = dir /\ ~OutputExists
          /\ probe_error' = "ok" /\ doomed = {} /\ doomed' = doomed
      BY <1>2 DEF Begin, DirInv
    <2>2. \A p \in Paths : ~dir[p].exists
      BY <2>1 DEF OutputExists
    <2>3. \A p \in Paths : before'[p] = Absent
      BY <2>1, <2>2 DEF PresenceInv
    <2>4. /\ dir'["video.ogv"] = dir["video.ogv"]
          /\ dir'["cdg00.jsonl"] = dir["cdg00.jsonl"]
      BY <1>2, PathsAre DEF Begin, DirTyped
    <2>5. dir'["video.ogv"] = Absent /\ dir'["cdg00.jsonl"] = Absent
      BY <2>2, <2>4, PathsAre DEF PresenceInv
    <2> QED
      BY <2>1, <2>3, <2>5 DEF DirInv
  <1>3. CASE LaunchOk \/ LaunchFails
    BY <1>3 DEF TypeOK, DirInv, ExitCodes, Partials, Finals, Paths, File, Absent,
           Files, VideoPartial, MetadataPartial, Published, LaunchOk, LaunchFails,
           VideoOpened
  <1>4. CASE FrameCollected \/ EncoderFails
    BY <1>4 DEF TypeOK, DirInv, ExitCodes, Partials, Finals, Paths, File, Absent,
           Files, VideoPartial, MetadataPartial, Published, FrameCollected,
           EncoderFails, Arrives, Streaming, Encode, Consume, BelowLimit
  <1>5. CASE Turned
    BY <1>5 DEF TypeOK, DirInv, ExitCodes, Partials, Finals, Paths, File, Absent,
           Files, VideoPartial, MetadataPartial, Published, Turned, FrameAboveLimit,
           FrameRejected, FrameDropped, FrameUnseen, Arrives, Streaming, Encode
  <1>6. CASE Ending
    BY <1>6 DEF TypeOK, DirInv, ExitCodes, Partials, Finals, Paths, File, Absent,
           Files, VideoPartial, MetadataPartial, Published, Ending, UpstreamFails,
           SourceReportsError, SourceEnds, EosArrives, EosFails, Streaming
  <1>7. CASE Poll \/ DeadlinePasses
    BY <1>7 DEF TypeOK, DirInv, ExitCodes, Partials, Finals, Paths, File, Absent,
           Files, VideoPartial, MetadataPartial, Published, Poll, PollProbeError,
           PollErrorMessage, PollEos, PollTimeout, DeadlinePasses, Pop, Message
  <1>8. CASE Drain \/ DrainFails \/ RemoveProbe \/ SetNull
    <2>1. CASE Drain \/ DrainFails
      BY <2>1 DEF TypeOK, DirInv, ExitCodes, Partials, Finals, Paths, File, Absent,
             Files, VideoPartial, MetadataPartial, Published, Drain, DrainFails
    <2>2. CASE RemoveProbe
      BY <2>2 DEF TypeOK, DirInv, ExitCodes, Partials, Finals, Paths, File, Absent,
             Files, VideoPartial, MetadataPartial, Published, RemoveProbe
    <2>3. CASE SetNull
      BY <2>3 DEF TypeOK, DirInv, ExitCodes, Partials, Finals, Paths, File, Absent,
             Files, VideoPartial, MetadataPartial, Published, SetNull, Discard
    <2> QED
      BY <1>8, <2>1, <2>2, <2>3
  <1>9. CASE Verify \/ VerifyFails
    BY <1>9 DEF TypeOK, DirInv, ExitCodes, Partials, Finals, Paths, File, Absent,
           Files, VideoPartial, MetadataPartial, Published, Verify, VerifyFails,
           Discard
  <1>10. CASE Publish
    <2>1. CASE PublishMetadata
      BY <2>1 DEF TypeOK, DirInv, ExitCodes, Partials, Finals, Paths, File, Absent,
             Files, VideoPartial, MetadataPartial, Published, PublishMetadata, Renamed
    <2>2. CASE PublishVideo
      BY <2>2 DEF TypeOK, DirInv, ExitCodes, Partials, Finals, Paths, File, Absent,
             Files, VideoPartial, MetadataPartial, Published, PublishVideo, Renamed
    <2>3. CASE Withdraw
      BY <2>3 DEF TypeOK, DirInv, ExitCodes, Partials, Finals, Paths, File, Absent,
             Files, VideoPartial, MetadataPartial, Published, Withdraw
    <2>4. CASE Remove
      BY <2>4 DEF TypeOK, DirInv, ExitCodes, Partials, Finals, Paths, File, Absent,
             Files, VideoPartial, MetadataPartial, Published, Remove
    <2>5. CASE Discarded
      BY <2>5 DEF TypeOK, DirInv, ExitCodes, Partials, Finals, Paths, File, Absent,
             Files, VideoPartial, MetadataPartial, Published, Discarded
    <2> QED
      BY <1>10, <2>1, <2>2, <2>3, <2>4, <2>5 DEF Publish
  <1>11. CASE Describe \/ WritePlan \/ WriteResult
    BY <1>11 DEF TypeOK, DirInv, ExitCodes, Partials, Finals, Paths, File, Absent,
           Files, VideoPartial, MetadataPartial, Published, Describe, WritePlan,
           WriteResult
  <1>12. CASE ReportFails \/ Report \/ Kill
    BY <1>12 DEF TypeOK, DirInv, ExitCodes, Partials, Finals, Paths, File, Absent,
           Files, VideoPartial, MetadataPartial, Published, ReportFails, Report, Kill
  <1> QED
    BY <1>1, <1>2, <1>3, <1>4, <1>5, <1>6, <1>7, <1>8, <1>9, <1>10, <1>11, <1>12, Cases

LEMMA PlanStep ==
    ASSUME PlanInv, Next
    PROVE  PlanInv'
  <1>1. CASE RefuseExisting \/ RefuseUnprepared
    BY <1>1 DEF PlanInv, OutputExists, RefuseExisting, RefuseUnprepared
  <1>2. CASE Begin
    BY <1>2 DEF PlanInv, OutputExists, Begin
  <1>3. CASE LaunchOk \/ LaunchFails
    BY <1>3 DEF PlanInv, OutputExists, LaunchOk, LaunchFails, VideoOpened
  <1>4. CASE FrameCollected \/ EncoderFails
    BY <1>4 DEF PlanInv, OutputExists, FrameCollected, EncoderFails, Arrives,
           Streaming, Encode, Consume, BelowLimit
  <1>5. CASE Turned
    BY <1>5 DEF PlanInv, OutputExists, Turned, FrameAboveLimit, FrameRejected,
           FrameDropped, FrameUnseen, Arrives, Streaming, Encode
  <1>6. CASE Ending
    BY <1>6 DEF PlanInv, OutputExists, Ending, UpstreamFails, SourceReportsError,
           SourceEnds, EosArrives, EosFails, Streaming
  <1>7. CASE Poll \/ DeadlinePasses
    BY <1>7 DEF PlanInv, OutputExists, Poll, PollProbeError, PollErrorMessage, PollEos,
           PollTimeout, DeadlinePasses, Pop, Message
  <1>8. CASE Drain \/ DrainFails \/ RemoveProbe \/ SetNull
    BY <1>8 DEF PlanInv, OutputExists, Drain, DrainFails, RemoveProbe, SetNull,
           Discard
  <1>9. CASE Verify \/ VerifyFails
    BY <1>9 DEF PlanInv, OutputExists, Verify, VerifyFails, Discard
  <1>10. CASE Publish
    BY <1>10 DEF PlanInv, OutputExists, Publish, PublishMetadata, PublishVideo,
           Withdraw, Remove, Discarded, Renamed
  <1>11. CASE Describe \/ WritePlan \/ WriteResult
    BY <1>11 DEF PlanInv, OutputExists, Describe, WritePlan, WriteResult
  <1>12. CASE ReportFails \/ Report \/ Kill
    BY <1>12 DEF PlanInv, OutputExists, ReportFails, Report, Kill
  <1> QED
    BY <1>1, <1>2, <1>3, <1>4, <1>5, <1>6, <1>7, <1>8, <1>9, <1>10, <1>11, <1>12, Cases

-----------------------------------------------------------------------------
(* The result *)

\* Once result.json exists nothing it depends on changes.
LEMMA ResultStays ==
    ASSUME TypeOK, DirInv, ResultInv, Next, result_json.exists
    PROVE  /\ UNCHANGED <<dir, flow, probe_error, sent, result_json>>
           /\ main' \in {"down", "reporting"}
           /\ main' = "reporting" => main = "reporting"
           /\ exit' = "ok" => exit = "ok" \/ main = "reporting"
  <1>1. main \in {"down", "reporting"} /\ OutputExists
    BY DEF ResultInv, OutputExists
  <1>2. CASE RefuseExisting \/ RefuseUnprepared
    BY <1>1, <1>2 DEF RefuseExisting, RefuseUnprepared
  <1>3. CASE Begin
    BY <1>1, <1>3 DEF Begin
  <1>4. CASE LaunchOk \/ LaunchFails
    BY <1>1, <1>4 DEF LaunchOk, LaunchFails, VideoOpened
  <1>5. CASE FrameCollected \/ EncoderFails
    BY <1>1, <1>5 DEF FrameCollected, EncoderFails, Arrives, Streaming, Encode,
           Consume, BelowLimit
  <1>6. CASE Turned
    BY <1>1, <1>6 DEF Turned, FrameAboveLimit, FrameRejected, FrameDropped,
           FrameUnseen, Arrives, Streaming, Encode
  <1>7. CASE Ending
    BY <1>1, <1>7 DEF Ending, UpstreamFails, SourceReportsError, SourceEnds,
           EosArrives, EosFails, Streaming
  <1>8. CASE Poll \/ DeadlinePasses
    BY <1>1, <1>8 DEF Poll, PollProbeError, PollErrorMessage, PollEos, PollTimeout,
           DeadlinePasses, Pop, Message
  <1>9. CASE Drain \/ DrainFails \/ RemoveProbe \/ SetNull
    BY <1>1, <1>9 DEF Drain, DrainFails, RemoveProbe, SetNull, Discard
  <1>10. CASE Verify \/ VerifyFails
    BY <1>1, <1>10 DEF Verify, VerifyFails, Discard
  <1>11. CASE Publish
    BY <1>1, <1>11 DEF Publish, PublishMetadata, PublishVideo, Withdraw, Remove,
           Discarded, Renamed
  <1>12. CASE Describe \/ WritePlan \/ WriteResult
    BY <1>1, <1>12 DEF Describe, WritePlan, WriteResult
  <1>13. CASE ReportFails \/ Report \/ Kill
    BY <1>1, <1>13 DEF ReportFails, Report, Kill
  <1> QED
    BY <1>2, <1>3, <1>4, <1>5, <1>6, <1>7, <1>8, <1>9, <1>10, <1>11, <1>12, <1>13, Cases

\* Only WriteResult makes one.
LEMMA NoResultYet ==
    ASSUME Next, ~WriteResult, ~result_json.exists
    PROVE  ~result_json'.exists /\ (main' = "reporting" => main = "reporting")
  <1>1. CASE RefuseExisting \/ RefuseUnprepared
    BY <1>1 DEF RefuseExisting, RefuseUnprepared
  <1>2. CASE Begin
    BY <1>2 DEF Begin
  <1>3. CASE LaunchOk \/ LaunchFails
    BY <1>3 DEF LaunchOk, LaunchFails, VideoOpened
  <1>4. CASE FrameCollected \/ EncoderFails
    BY <1>4 DEF FrameCollected, EncoderFails, Arrives, Streaming, Encode, Consume,
           BelowLimit
  <1>5. CASE Turned
    BY <1>5 DEF Turned, FrameAboveLimit, FrameRejected, FrameDropped, FrameUnseen,
           Arrives, Streaming, Encode
  <1>6. CASE Ending
    BY <1>6 DEF Ending, UpstreamFails, SourceReportsError, SourceEnds, EosArrives,
           EosFails, Streaming
  <1>7. CASE Poll \/ DeadlinePasses
    BY <1>7 DEF Poll, PollProbeError, PollErrorMessage, PollEos, PollTimeout,
           DeadlinePasses, Pop, Message
  <1>8. CASE Drain \/ DrainFails \/ RemoveProbe \/ SetNull
    BY <1>8 DEF Drain, DrainFails, RemoveProbe, SetNull, Discard
  <1>9. CASE Verify \/ VerifyFails
    BY <1>9 DEF Verify, VerifyFails, Discard
  <1>10. CASE Publish
    BY <1>10 DEF Publish, PublishMetadata, PublishVideo, Withdraw, Remove, Discarded,
           Renamed
  <1>11. CASE Describe \/ WritePlan \/ WriteResult
    BY <1>11 DEF Describe, WritePlan, WriteResult
  <1>12. CASE ReportFails \/ Report \/ Kill
    BY <1>12 DEF ReportFails, Report, Kill
  <1> QED
    BY <1>1, <1>2, <1>3, <1>4, <1>5, <1>6, <1>7, <1>8, <1>9, <1>10, <1>11, <1>12, Cases

LEMMA ResultStep ==
    ASSUME TypeOK, BusInv, CountInv, ContentInv, DirInv, ResultInv, Next
    PROVE  ResultInv'
  <1>1. CASE result_json.exists
    <2>1. CompleteVideo(Visible)' <=> CompleteVideo(Visible)
      BY <1>1, ResultStays DEF Visible
    <2> QED
      BY <1>1, <2>1, ResultStays DEF ResultInv
  <1>2. CASE ~result_json.exists /\ ~WriteResult
    BY <1>2, NoResultYet DEF ResultInv
  <1>3. CASE WriteResult
    <2>1. /\ main = "resulting" /\ main' = "reporting"
          /\ result_json' = [exists |-> TRUE, frame_count |-> total, named |-> described]
          /\ UNCHANGED <<dir, flow, probe_error, sent>>
      BY <1>3 DEF WriteResult
    <2>2. /\ flow = "ok" /\ probe_error = "ok" /\ total = sent /\ total > 0
          /\ Whole(dir["cdg00.jsonl"], sent) /\ Whole(dir["video.ogv"], sent)
          /\ described = [video |-> dir["video.ogv"].frames,
                          metadata |-> dir["cdg00.jsonl"].frames]
      BY <2>1 DEF BusInv, CountInv, ContentInv, Completed, Closed, Published
    <2>3. Visible' = [exists |-> TRUE, frame_count |-> sent,
                      video |-> dir["video.ogv"], metadata |-> dir["cdg00.jsonl"],
                      named |-> described]
      BY <2>1, <2>2 DEF Visible
    <2>4. CompleteVideo(Visible')
      BY <2>2, <2>3 DEF CompleteVideo
    <2> QED
      BY <2>1, <2>2, <2>4 DEF ResultInv
  <1> QED
    BY <1>1, <1>2, <1>3
-----------------------------------------------------------------------------
(* The properties *)

LEMMA OkStep ==
    ASSUME DirInv, ResultInv, OkMeansEveryFrame, Next
    PROVE  OkMeansEveryFrame'
  <1>1. CASE RefuseExisting \/ RefuseUnprepared
    BY <1>1 DEF DirInv, ResultInv, OkMeansEveryFrame, Completed, RefuseExisting,
           RefuseUnprepared
  <1>2. CASE Begin
    BY <1>2 DEF DirInv, ResultInv, OkMeansEveryFrame, Completed, Begin
  <1>3. CASE LaunchOk \/ LaunchFails
    BY <1>3 DEF DirInv, ResultInv, OkMeansEveryFrame, Completed, LaunchOk, LaunchFails,
           VideoOpened
  <1>4. CASE FrameCollected \/ EncoderFails
    BY <1>4 DEF DirInv, ResultInv, OkMeansEveryFrame, Completed, FrameCollected,
           EncoderFails, Arrives, Streaming, Encode, Consume, BelowLimit
  <1>5. CASE Turned
    BY <1>5 DEF DirInv, ResultInv, OkMeansEveryFrame, Completed, Turned,
           FrameAboveLimit, FrameRejected, FrameDropped, FrameUnseen, Arrives,
           Streaming, Encode
  <1>6. CASE Ending
    BY <1>6 DEF DirInv, ResultInv, OkMeansEveryFrame, Completed, Ending, UpstreamFails,
           SourceReportsError, SourceEnds, EosArrives, EosFails, Streaming
  <1>7. CASE Poll \/ DeadlinePasses
    BY <1>7 DEF DirInv, ResultInv, OkMeansEveryFrame, Completed, Poll, PollProbeError,
           PollErrorMessage, PollEos, PollTimeout, DeadlinePasses, Pop, Message
  <1>8. CASE Drain \/ DrainFails \/ RemoveProbe \/ SetNull
    BY <1>8 DEF DirInv, ResultInv, OkMeansEveryFrame, Completed, Drain, DrainFails,
           RemoveProbe, SetNull, Discard
  <1>9. CASE Verify \/ VerifyFails
    BY <1>9 DEF DirInv, ResultInv, OkMeansEveryFrame, Completed, Verify, VerifyFails,
           Discard
  <1>10. CASE Publish
    BY <1>10 DEF DirInv, ResultInv, OkMeansEveryFrame, Completed, Publish,
           PublishMetadata, PublishVideo, Withdraw, Remove, Discarded, Renamed
  <1>11. CASE Describe \/ WritePlan \/ WriteResult
    BY <1>11 DEF DirInv, ResultInv, OkMeansEveryFrame, Completed, Describe, WritePlan,
           WriteResult
  <1>12. CASE ReportFails \/ Report \/ Kill
    BY <1>12 DEF DirInv, ResultInv, OkMeansEveryFrame, Completed, ReportFails, Report,
           Kill
  <1> QED
    BY <1>1, <1>2, <1>3, <1>4, <1>5, <1>6, <1>7, <1>8, <1>9, <1>10, <1>11, <1>12, Cases

LEMMA VideoStep ==
    ASSUME TypeOK, ContentInv, DirInv, VideoHasMetadata, Next
    PROVE  VideoHasMetadata'
  <1>0. DirTyped
    BY TypeParts
  <1> USE <1>0
  <1>1. CASE RefuseExisting \/ RefuseUnprepared
    <2>1. /\ dir'["video.ogv"] = dir["video.ogv"]
          /\ dir'["cdg00.jsonl"] = dir["cdg00.jsonl"]
      BY <1>1, PathsAre DEF RefuseExisting, RefuseUnprepared, DirTyped
    <2> QED
      BY <2>1 DEF VideoHasMetadata
  <1>2. CASE Begin
    <2>1. /\ dir'["video.ogv"] = dir["video.ogv"]
          /\ dir'["cdg00.jsonl"] = dir["cdg00.jsonl"]
      BY <1>2, PathsAre DEF Begin, DirTyped
    <2> QED
      BY <2>1 DEF VideoHasMetadata
  <1>3. CASE LaunchOk \/ LaunchFails
    <2>1. /\ dir'["video.ogv"] = dir["video.ogv"]
          /\ dir'["cdg00.jsonl"] = dir["cdg00.jsonl"]
      BY <1>3, PathsAre DEF LaunchOk, LaunchFails, VideoOpened, DirTyped
    <2> QED
      BY <2>1 DEF VideoHasMetadata
  <1>4. CASE FrameCollected \/ EncoderFails
    <2>1. /\ dir'["video.ogv"] = dir["video.ogv"]
          /\ dir'["cdg00.jsonl"] = dir["cdg00.jsonl"]
      BY <1>4, PathsAre DEF FrameCollected, EncoderFails, DirTyped
    <2> QED
      BY <2>1 DEF VideoHasMetadata
  <1>5. CASE Turned
    <2>1. /\ dir'["video.ogv"] = dir["video.ogv"]
          /\ dir'["cdg00.jsonl"] = dir["cdg00.jsonl"]
      BY <1>5, PathsAre DEF Turned, FrameAboveLimit, FrameRejected, FrameDropped,
           FrameUnseen, DirTyped
    <2> QED
      BY <2>1 DEF VideoHasMetadata
  <1>6. CASE Ending
    <2>1. /\ dir'["video.ogv"] = dir["video.ogv"]
          /\ dir'["cdg00.jsonl"] = dir["cdg00.jsonl"]
      BY <1>6, PathsAre DEF Ending, UpstreamFails, SourceReportsError, SourceEnds,
           EosArrives, EosFails, DirTyped
    <2> QED
      BY <2>1 DEF VideoHasMetadata
  <1>7. CASE Poll \/ DeadlinePasses
    <2>1. /\ dir'["video.ogv"] = dir["video.ogv"]
          /\ dir'["cdg00.jsonl"] = dir["cdg00.jsonl"]
      BY <1>7, PathsAre DEF Poll, PollProbeError, PollErrorMessage, PollEos,
           PollTimeout, DeadlinePasses, DirTyped
    <2> QED
      BY <2>1 DEF VideoHasMetadata
  <1>8. CASE Drain \/ DrainFails \/ RemoveProbe \/ SetNull
    <2>1. /\ dir'["video.ogv"] = dir["video.ogv"]
          /\ dir'["cdg00.jsonl"] = dir["cdg00.jsonl"]
      BY <1>8, PathsAre DEF Drain, DrainFails, RemoveProbe, SetNull, DirTyped
    <2> QED
      BY <2>1 DEF VideoHasMetadata
  <1>9. CASE Verify \/ VerifyFails
    <2>1. /\ dir'["video.ogv"] = dir["video.ogv"]
          /\ dir'["cdg00.jsonl"] = dir["cdg00.jsonl"]
      BY <1>9, PathsAre DEF Verify, VerifyFails, DirTyped
    <2> QED
      BY <2>1 DEF VideoHasMetadata
  <1>10. CASE Publish
    <2>1. CASE PublishMetadata
      <3>1. main = "renaming metadata" /\ dir'["video.ogv"] = dir["video.ogv"]
        BY <2>1, PathsAre DEF PublishMetadata, Renamed, DirTyped
      <3>2. dir'["video.ogv"] = Absent
        BY <3>1 DEF DirInv, Published
      <3> QED
        BY <3>2 DEF VideoHasMetadata, Absent
    <2>2. CASE PublishVideo
      <3>1. /\ main = "renaming video"
            /\ dir'["cdg00.jsonl"] = dir["cdg00.jsonl"] /\ dir'["video.ogv"] = VideoPartial
        BY <2>2, PathsAre DEF PublishVideo, Renamed, VideoPartial, DirTyped
      <3>2. Whole(VideoPartial, sent) /\ Whole(dir["cdg00.jsonl"], sent)
        BY <3>1 DEF ContentInv
      <3>3. Len(VideoPartial.frames) = sent
        BY <3>2 DEF Whole
      <3> QED
        BY <3>1, <3>2, <3>3 DEF VideoHasMetadata
    <2>3. CASE Withdraw \/ Remove \/ Discarded
      <3>1. main \in {"renaming metadata", "renaming video", "discarding"}
        BY <2>3 DEF Withdraw, Remove, Discarded
      <3>2. dir["video.ogv"] = Absent
        BY <3>1 DEF DirInv, Published
      <3>3. dir'["video.ogv"] = Absent
        BY <2>3, <3>2, PathsAre DEF Withdraw, Remove, Discarded, DirTyped
      <3> QED
        BY <3>3 DEF VideoHasMetadata, Absent
    <2> QED
      BY <1>10, <2>1, <2>2, <2>3 DEF Publish
  <1>11. CASE Describe \/ WritePlan \/ WriteResult
    <2>1. /\ dir'["video.ogv"] = dir["video.ogv"]
          /\ dir'["cdg00.jsonl"] = dir["cdg00.jsonl"]
      BY <1>11, PathsAre DEF Describe, WritePlan, WriteResult, DirTyped
    <2> QED
      BY <2>1 DEF VideoHasMetadata
  <1>12. CASE ReportFails \/ Report \/ Kill
    <2>1. /\ dir'["video.ogv"] = dir["video.ogv"]
          /\ dir'["cdg00.jsonl"] = dir["cdg00.jsonl"]
      BY <1>12, PathsAre DEF ReportFails, Report, Kill, DirTyped
    <2> QED
      BY <2>1 DEF VideoHasMetadata
  <1> QED
    BY <1>1, <1>2, <1>3, <1>4, <1>5, <1>6, <1>7, <1>8, <1>9, <1>10, <1>11, <1>12, Cases

LEMMA SettlesStep ==
    ASSUME TypeOK, ContentInv, DirInv, EveryExitSettles, Next
    PROVE  EveryExitSettles'
  <1>0. DirTyped
    BY TypeParts
  <1> USE <1>0
  <1>1. CASE RefuseExisting \/ RefuseUnprepared
    BY <1>1 DEF TypeOK, ContentInv, DirInv, EveryExitSettles, ExitCodes, Partials,
           Finals, Paths, File, Absent, Files, VideoPartial, MetadataPartial,
           Completed, Closed, Published, RefuseExisting, RefuseUnprepared
  <1>2. CASE Begin
    BY <1>2 DEF TypeOK, ContentInv, DirInv, EveryExitSettles, ExitCodes, Partials,
           Finals, Paths, File, Absent, Files, VideoPartial, MetadataPartial,
           Completed, Closed, Published, Begin
  <1>3. CASE LaunchOk \/ LaunchFails
    BY <1>3 DEF TypeOK, ContentInv, DirInv, EveryExitSettles, ExitCodes, Partials,
           Finals, Paths, File, Absent, Files, VideoPartial, MetadataPartial,
           Completed, Closed, Published, LaunchOk, LaunchFails, VideoOpened
  <1>4. CASE FrameCollected \/ EncoderFails
    BY <1>4 DEF TypeOK, ContentInv, DirInv, EveryExitSettles, ExitCodes, Partials,
           Finals, Paths, File, Absent, Files, VideoPartial, MetadataPartial,
           Completed, Closed, Published, FrameCollected, EncoderFails, Arrives,
           Streaming, Encode, Consume, BelowLimit
  <1>5. CASE Turned
    BY <1>5 DEF TypeOK, ContentInv, DirInv, EveryExitSettles, ExitCodes, Partials,
           Finals, Paths, File, Absent, Files, VideoPartial, MetadataPartial,
           Completed, Closed, Published, Turned, FrameAboveLimit, FrameRejected,
           FrameDropped, FrameUnseen, Arrives, Streaming, Encode
  <1>6. CASE Ending
    BY <1>6 DEF TypeOK, ContentInv, DirInv, EveryExitSettles, ExitCodes, Partials,
           Finals, Paths, File, Absent, Files, VideoPartial, MetadataPartial,
           Completed, Closed, Published, Ending, UpstreamFails, SourceReportsError,
           SourceEnds, EosArrives, EosFails, Streaming
  <1>7. CASE Poll \/ DeadlinePasses
    BY <1>7 DEF TypeOK, ContentInv, DirInv, EveryExitSettles, ExitCodes, Partials,
           Finals, Paths, File, Absent, Files, VideoPartial, MetadataPartial,
           Completed, Closed, Published, Poll, PollProbeError, PollErrorMessage,
           PollEos, PollTimeout, DeadlinePasses, Pop, Message
  <1>8. CASE Drain \/ DrainFails \/ RemoveProbe \/ SetNull
    BY <1>8 DEF TypeOK, ContentInv, DirInv, EveryExitSettles, ExitCodes, Partials,
           Finals, Paths, File, Absent, Files, VideoPartial, MetadataPartial,
           Completed, Closed, Published, Drain, DrainFails, RemoveProbe, SetNull,
           Discard
  <1>9. CASE Verify \/ VerifyFails
    BY <1>9 DEF TypeOK, ContentInv, DirInv, EveryExitSettles, ExitCodes, Partials,
           Finals, Paths, File, Absent, Files, VideoPartial, MetadataPartial,
           Completed, Closed, Published, Verify, VerifyFails, Discard
  <1>10. CASE Publish
    <2>1. CASE Discarded
      <3>1. /\ main = "discarding" /\ doomed = {} /\ dir' = dir /\ before' = before
        BY <2>1 DEF Discarded
      <3>2. \A p \in Paths : dir[p] = Absent /\ before[p] = Absent
        BY <3>1 DEF DirInv
      <3>3. dir' = before'
        BY <3>1, <3>2 DEF DirTyped
      <3> QED
        BY <3>3 DEF EveryExitSettles
    <2>2. CASE PublishMetadata \/ PublishVideo \/ Withdraw \/ Remove
      <3>1. main' # "down"
        BY <2>2 DEF PublishMetadata, PublishVideo, Withdraw, Remove
      <3> QED
        BY <3>1 DEF EveryExitSettles
    <2> QED
      BY <1>10, <2>1, <2>2 DEF Publish
  <1>11. CASE Describe \/ WritePlan \/ WriteResult
    BY <1>11 DEF TypeOK, ContentInv, DirInv, EveryExitSettles, ExitCodes, Partials,
           Finals, Paths, File, Absent, Files, VideoPartial, MetadataPartial,
           Completed, Closed, Published, Describe, WritePlan, WriteResult
  <1>12. CASE ReportFails \/ Report \/ Kill
    <2>1. CASE Kill
      BY <2>1 DEF Kill, EveryExitSettles, ExitCodes
    <2>2. CASE ReportFails \/ Report
      <3>1. /\ main \in Published /\ dir' = dir /\ exit' \in {"ok", "fatal"}
            /\ before' = before
        BY <2>2 DEF ReportFails, Report, Published
      <3>2. \A p \in Paths : dir[p].exists <=> p \in Finals
        <4>1. /\ dir["cdg00.jsonl"].exists /\ dir["video.ogv"].exists
              /\ \A p \in Partials : dir[p] = Absent
          BY <3>1 DEF ContentInv, Whole
        <4> QED
          BY <4>1 DEF Paths, Finals, Partials, Absent
      <3> QED
        BY <3>1, <3>2 DEF EveryExitSettles
    <2> QED
      BY <1>12, <2>1, <2>2
  <1> QED
    BY <1>1, <1>2, <1>3, <1>4, <1>5, <1>6, <1>7, <1>8, <1>9, <1>10, <1>11, <1>12, Cases

LEMMA RetryStep ==
    ASSUME TypeOK, DirInv, PlanInv, ResultInv, RetryableCanBeRetried, Next
    PROVE  RetryableCanBeRetried'
  <1>1. CASE RefuseExisting \/ RefuseUnprepared
    BY <1>1 DEF TypeOK, DirInv, PlanInv, ResultInv, RetryableCanBeRetried,
           OutputExists, Paths, Partials, Finals, Absent, RefuseExisting,
           RefuseUnprepared
  <1>2. CASE Begin
    BY <1>2 DEF TypeOK, DirInv, PlanInv, ResultInv, RetryableCanBeRetried,
           OutputExists, Paths, Partials, Finals, Absent, Begin
  <1>3. CASE LaunchOk \/ LaunchFails
    BY <1>3 DEF TypeOK, DirInv, PlanInv, ResultInv, RetryableCanBeRetried,
           OutputExists, Paths, Partials, Finals, Absent, LaunchOk, LaunchFails,
           VideoOpened
  <1>4. CASE FrameCollected \/ EncoderFails
    BY <1>4 DEF TypeOK, DirInv, PlanInv, ResultInv, RetryableCanBeRetried,
           OutputExists, Paths, Partials, Finals, Absent, FrameCollected, EncoderFails,
           Arrives, Streaming, Encode, Consume, BelowLimit
  <1>5. CASE Turned
    BY <1>5 DEF TypeOK, DirInv, PlanInv, ResultInv, RetryableCanBeRetried,
           OutputExists, Paths, Partials, Finals, Absent, Turned, FrameAboveLimit,
           FrameRejected, FrameDropped, FrameUnseen, Arrives, Streaming, Encode
  <1>6. CASE Ending
    BY <1>6 DEF TypeOK, DirInv, PlanInv, ResultInv, RetryableCanBeRetried,
           OutputExists, Paths, Partials, Finals, Absent, Ending, UpstreamFails,
           SourceReportsError, SourceEnds, EosArrives, EosFails, Streaming
  <1>7. CASE Poll \/ DeadlinePasses
    BY <1>7 DEF TypeOK, DirInv, PlanInv, ResultInv, RetryableCanBeRetried,
           OutputExists, Paths, Partials, Finals, Absent, Poll, PollProbeError,
           PollErrorMessage, PollEos, PollTimeout, DeadlinePasses, Pop, Message
  <1>8. CASE Drain \/ DrainFails \/ RemoveProbe \/ SetNull
    BY <1>8 DEF TypeOK, DirInv, PlanInv, ResultInv, RetryableCanBeRetried,
           OutputExists, Paths, Partials, Finals, Absent, Drain, DrainFails,
           RemoveProbe, SetNull, Discard
  <1>9. CASE Verify \/ VerifyFails
    BY <1>9 DEF TypeOK, DirInv, PlanInv, ResultInv, RetryableCanBeRetried,
           OutputExists, Paths, Partials, Finals, Absent, Verify, VerifyFails, Discard
  <1>10. CASE Publish
    <2>1. CASE Discarded
      <3>1. /\ main = "discarding" /\ doomed = {} /\ dir' = dir
            /\ plan_json' = plan_json /\ result_json' = result_json
        BY <2>1 DEF Discarded
      <3>2. \A p \in Paths : dir[p] = Absent
        BY <3>1 DEF DirInv
      <3>3. \A p \in Paths : ~dir'[p].exists
        BY <3>1, <3>2 DEF Absent
      <3>4. ~plan_json' /\ ~result_json'.exists
        BY <3>1, Zenon DEF PlanInv, ResultInv
      <3> QED
        BY <3>3, <3>4 DEF RetryableCanBeRetried, OutputExists
    <2>2. CASE PublishMetadata \/ PublishVideo \/ Withdraw \/ Remove
      <3>1. main # "down" /\ exit' = exit
        BY <2>2 DEF PublishMetadata, PublishVideo, Withdraw, Remove
      <3> QED
        BY <3>1 DEF DirInv, RetryableCanBeRetried
    <2> QED
      BY <1>10, <2>1, <2>2 DEF Publish
  <1>11. CASE Describe \/ WritePlan \/ WriteResult
    BY <1>11 DEF TypeOK, DirInv, PlanInv, ResultInv, RetryableCanBeRetried,
           OutputExists, Paths, Partials, Finals, Absent, Describe, WritePlan,
           WriteResult
  <1>12. CASE ReportFails \/ Report \/ Kill
    BY <1>12 DEF TypeOK, DirInv, PlanInv, ResultInv, RetryableCanBeRetried,
           OutputExists, Paths, Partials, Finals, Absent, ReportFails, Report, Kill
  <1> QED
    BY <1>1, <1>2, <1>3, <1>4, <1>5, <1>6, <1>7, <1>8, <1>9, <1>10, <1>11, <1>12, Cases

-----------------------------------------------------------------------------
(* The invariant *)

LEMMA Beginning == Init => IInv
  <1> SUFFICES ASSUME Init
               PROVE  IInv
    OBVIOUS
  <1>1. <<>> \in Seq(Nat) /\ <<>> \in Seq({"eos", "error"}) /\ Absent \in Files
    <2>1. <<>> \in Seq(Nat)
      OBVIOUS
    <2>2. <<>> \in Seq({"eos", "error"})
      OBVIOUS
    <2> QED
      BY <2>1, <2>2 DEF Absent, Files
  <1>2. \A p \in Paths : dir[p] = Absent
    BY DEF Init
  <1>3. ~result_json.exists /\ main = "down" /\ exit = "none"
    BY DEF Init, NoResult
  <1>4. TypeOK
    <2>1. DirTyped
      BY <1>1 DEF Init, DirTyped
    <2>2. ResultTyped
      BY <1>1 DEF Init, NoResult, NotDescribed, ResultTyped, Named
    <2>3. BusTyped
      BY <1>1 DEF Init, BusTyped
    <2>4. StagesTyped /\ SourceTyped
      BY DEF Init, StagesTyped, Stages, ExitCodes, SourceTyped
    <2>5. NumbersTyped
      BY DEF Init, NumbersTyped
    <2>6. FlagsTyped /\ DoomedTyped
      BY Zenon DEF Init, FlagsTyped, DoomedTyped
    <2> QED
      BY <2>1, <2>2, <2>3, <2>4, <2>5, <2>6, TypeParts
  <1>5. BusInv /\ CountInv /\ ContentInv
    BY DEF Init, BusInv, CountInv, ContentInv, Completed, Closed, Published
  <1>6. PresenceInv /\ DirInv /\ PlanInv /\ ResultInv
    BY <1>2, <1>3 DEF Init, PresenceInv, DirInv, PlanInv, ResultInv, Published
  <1>7. ~dir["video.ogv"].exists
    BY <1>2, PathsAre DEF Absent
  <1>8. VideoHasMetadata /\ EveryExitSettles /\ RetryableCanBeRetried /\ OkMeansEveryFrame
    BY <1>3, <1>7 DEF VideoHasMetadata, EveryExitSettles, ExitCodes, RetryableCanBeRetried,
                      OkMeansEveryFrame
  <1> QED
    BY <1>4, <1>5, <1>6, <1>8 DEF IInv

LEMMA Stuttering ==
    ASSUME IInv, UNCHANGED vars
    PROVE  IInv'
  <1>1. UNCHANGED <<main, verdict, exit, attempt, late, probe, probe_count, probe_error,
                    consumed, source, sent, flow, bus, dir, doomed, total, described,
                    plan_json, result_json, before>>
    BY DEF vars
  <1>2. TypeOK' /\ BusInv' /\ CountInv' /\ ContentInv'
    <2>1. TypeOK'
      BY <1>1, Zenon DEF IInv, TypeOK
    <2>2. BusInv' /\ CountInv'
      BY <1>1 DEF IInv, BusInv, CountInv, VideoPartial
    <2>3. ContentInv'
      BY <1>1 DEF IInv, ContentInv, VideoPartial, MetadataPartial
    <2> QED
      BY <2>1, <2>2, <2>3
  <1>3. PresenceInv' /\ DirInv' /\ PlanInv'
    BY <1>1 DEF IInv, PresenceInv, DirInv, PlanInv, VideoPartial, MetadataPartial
  <1>4. ResultInv'
    <2>1. Visible' = Visible
      BY <1>1 DEF Visible
    <2> QED
      BY <1>1, <2>1 DEF IInv, ResultInv
  <1>5. VideoHasMetadata' /\ EveryExitSettles' /\ RetryableCanBeRetried' /\ OkMeansEveryFrame'
    BY <1>1 DEF IInv, VideoHasMetadata, EveryExitSettles, RetryableCanBeRetried, OutputExists,
                OkMeansEveryFrame
  <1> QED
    BY <1>2, <1>3, <1>4, <1>5 DEF IInv

LEMMA Inductive == IInv /\ [Next]_vars => IInv'
  <1>1. ASSUME IInv, Next
        PROVE  IInv'
    <2>1. TypeOK' /\ BusInv' /\ CountInv' /\ ContentInv'
      <3>1. BusTyped /\ SourceTyped /\ DirTyped
        BY <1>1, TypeParts DEF IInv
      <3> QED
        BY <1>1, <3>1, TypeStep, BusStep, CountStep, ContentStep DEF IInv
    <2>2. PresenceInv' /\ DirInv' /\ PlanInv' /\ ResultInv'
      BY <1>1, PresenceStep, DirStep, PlanStep, ResultStep DEF IInv
    <2>3. VideoHasMetadata' /\ EveryExitSettles' /\ RetryableCanBeRetried' /\ OkMeansEveryFrame'
      BY <1>1, VideoStep, SettlesStep, RetryStep, OkStep DEF IInv
    <2> QED
      BY <2>1, <2>2, <2>3 DEF IInv
  <1> QED
    BY <1>1, Stuttering

LEMMA Invariant == Spec => []IInv
  BY Beginning, Inductive, PTL DEF Spec
-----------------------------------------------------------------------------
(* The theorems *)

\* The probe never lets more frames through than the request or the profile
\* allows, and every variable keeps its type.
THEOREM GroundTypeCorrect == Spec => []TypeOK
  <1>1. IInv => TypeOK
    BY DEF IInv
  <1> QED
    BY <1>1, Invariant, PTL

\* A video under its final name is complete and has the metadata of each of its
\* frames beside it, whatever fails and whenever a process is killed.
THEOREM VideoHasMetadataCorrect == Spec => []VideoHasMetadata
  <1>1. IInv => VideoHasMetadata
    BY DEF IInv
  <1> QED
    BY <1>1, Invariant, PTL

\* A process that ends by itself leaves the directory as it was, or a pair.
THEOREM EveryExitSettlesCorrect == Spec => []EveryExitSettles
  <1>1. IInv => EveryExitSettles
    BY DEF IInv
  <1> QED
    BY <1>1, Invariant, PTL

\* After the RETRYABLE exit code nothing stands in the way of another run.
THEOREM RetryableCorrect == Spec => []RetryableCanBeRetried
  <1>1. IInv => RetryableCanBeRetried
    BY DEF IInv
  <1> QED
    BY <1>1, Invariant, PTL

\* Exit code 0 means that no frame was dropped and no stream failed.
THEOREM GroundOkCorrect == Spec => []OkMeansEveryFrame
  <1>1. IInv => OkMeansEveryFrame
    BY DEF IInv
  <1> QED
    BY <1>1, Invariant, PTL

\* A ground run implements Delivery: one video with its metadata, delivered
\* whole and never changed again.
THEOREM GroundDeliveryCorrect == Spec => DeliveryImplemented
  <1>1. Init => D!Init
    BY DEF Init, NoResult, Visible, D!Init, D!Nothing
  <1>2. ASSUME IInv, IInv', [Next]_vars
        PROVE  [D!Deliver]_Visible
    <2>1. CASE UNCHANGED vars
      BY <2>1 DEF vars, Visible
    <2>2. CASE Next /\ result_json.exists
      <3>1. UNCHANGED <<dir, result_json>>
        BY <1>2, <2>2, ResultStays DEF IInv
      <3> QED
        BY <3>1 DEF Visible
    <2>3. CASE ~result_json.exists /\ ~result_json'.exists
      BY <2>3 DEF Visible
    <2>4. CASE ~result_json.exists /\ result_json'.exists
      <3>1. Visible = D!Nothing
        BY <2>4 DEF Visible, D!Nothing
      <3>2. CompleteVideo(Visible)'
        BY <1>2, <2>4 DEF IInv, ResultInv
      <3> QED
        BY <3>1, <3>2 DEF D!Deliver
    <2> QED
      BY <1>2, <2>1, <2>2, <2>3, <2>4
  <1>3. IInv /\ IInv' /\ [Next]_vars => [D!Deliver]_Visible
    BY <1>2
  <1> QED
    BY <1>1, <1>3, Invariant, PTL DEF Spec, DeliveryImplemented, D!Spec
-----------------------------------------------------------------------------
(* While a process runs somebody can go on *)

\* The main thread waits for a message, an error of the probe or the deadline;
\* elsewhere it goes on by itself.  (Whatever a thread does then is a step of
\* the specification.)
MainCanGoOn ==
    /\ main # "down"
    /\ main = "polling" => probe_error # "ok" \/ bus # <<>> \/ late

StreamCanGoOn == Streaming /\ source \in {"pushing", "failing", "eos"}

SomebodyCanGoOn == main # "down" => MainCanGoOn \/ StreamCanGoOn

\* Where the source stands: it pushes no more frames than it has, and the loop
\* begins after it was started.
EndInv ==
    /\ sent <= SourceFrames
    /\ main = "polling" => source # "idle"

LEMMA EndStep ==
    ASSUME IInv, EndInv, [Next]_vars
    PROVE  EndInv'
  <1>0. sent \in Nat /\ sent <= SourceFrames
    BY DEF IInv, TypeOK, EndInv
  <1> USE DEF EndInv
  <1>1. CASE RefuseExisting \/ RefuseUnprepared
    BY <1>1 DEF RefuseExisting, RefuseUnprepared
  <1>2. CASE Begin
    BY <1>2 DEF Begin
  <1>3. CASE LaunchOk \/ LaunchFails
    BY <1>3 DEF LaunchOk, LaunchFails
  <1>4. CASE FrameCollected \/ EncoderFails \/ Turned
    <2>1. sent < SourceFrames /\ sent' = sent + 1 /\ main' = main /\ source' # "idle"
      BY <1>4 DEF FrameCollected, EncoderFails, Turned, FrameAboveLimit, FrameRejected,
                  FrameDropped, FrameUnseen, Arrives
    <2> QED
      BY <1>0, <2>1
  <1>5. CASE Ending
    <2>1. sent' = sent /\ source' # "idle"
      BY <1>5 DEF Ending, UpstreamFails, SourceReportsError, SourceEnds, EosArrives, EosFails
    <2> QED
      BY <2>1
  <1>6. CASE Poll \/ DeadlinePasses
    <2>1. UNCHANGED <<sent, source>> /\ main = "polling"
      BY <1>6 DEF Poll, Pop, PollProbeError, PollErrorMessage, PollEos, PollTimeout,
                  DeadlinePasses
    <2> QED
      BY <2>1
  <1>7. CASE Drain \/ DrainFails \/ RemoveProbe \/ SetNull
    <2>1. sent' = sent /\ main' # "polling"
      BY <1>7 DEF Drain, DrainFails, RemoveProbe, SetNull, Discard
    <2> QED
      BY <2>1
  <1>8. CASE Verify \/ VerifyFails \/ Publish
    <2>1. sent' = sent /\ main' # "polling"
      BY <1>8 DEF Verify, VerifyFails, Discard, Publish, PublishMetadata, PublishVideo,
                  Withdraw, Remove, Discarded
    <2> QED
      BY <2>1
  <1>9. CASE Describe \/ WritePlan \/ WriteResult \/ ReportFails \/ Report \/ Kill
    <2>1. sent' = sent /\ main' # "polling"
      BY <1>9 DEF Describe, WritePlan, WriteResult, ReportFails, Report, Kill
    <2> QED
      BY <2>1
  <1>10. CASE UNCHANGED vars
    BY <1>10 DEF vars
  <1> QED
    BY <1>1, <1>2, <1>3, <1>4, <1>5, <1>6, <1>7, <1>8, <1>9, <1>10, Cases

LEMMA EndInvariant == Spec => [](IInv /\ EndInv)
  <1>1. Init => EndInv
    BY DEF Init, EndInv
  <1> QED
    BY <1>1, Invariant, EndStep, PTL DEF Spec

\* If the main thread has to wait the streaming thread has something to do.
LEMMA SomebodyOf == IInv /\ EndInv => SomebodyCanGoOn
  <1> SUFFICES ASSUME IInv, EndInv, main # "down", ~MainCanGoOn
               PROVE  StreamCanGoOn
    BY DEF SomebodyCanGoOn
  <1>1. main = "polling" /\ bus = <<>> /\ source # "idle"
    BY DEF MainCanGoOn, EndInv
  <1>2. source # "ended"
    <2>1. flow = "ok" => source # "ended"
      BY <1>1 DEF IInv, BusInv
    <2>2. flow = "error" => source = "failing"
      BY <1>1 DEF IInv, BusInv
    <2> QED
      BY <2>1, <2>2 DEF IInv, TypeOK
  <1> QED
    BY <1>1, <1>2 DEF IInv, TypeOK, StreamCanGoOn, Streaming
-----------------------------------------------------------------------------
(* How much of a process is left *)

\* The steps that each part of a process has before it at most.  Removing the
\* doomed files is work of the main thread, too: four files at most.
StageLeft(stage) ==
    CASE stage = "launch" -> 17
      [] stage = "polling" -> 16
      [] stage = "draining" -> 15
      [] stage = "closing" -> 14
      [] stage = "unwinding" -> 13
      [] stage = "verifying" -> 12
      [] stage = "renaming metadata" -> 11
      [] stage = "renaming video" -> 10
      [] stage = "discarding" -> 5
      [] stage = "describing" -> 4
      [] stage = "planning" -> 3
      [] stage = "resulting" -> 2
      [] stage = "reporting" -> 1
      [] OTHER -> 0

MainLeft == StageLeft(main)

SourceLeft ==
    CASE source = "idle" -> 4
      [] source = "pushing" -> 3
      [] source = "failing" -> 2
      [] source = "eos" -> 1
      [] OTHER -> 0

DoomedLeft == Cardinality(doomed)

FlagsLeft == (IF probe = "installed" THEN 1 ELSE 0) + (IF late THEN 0 ELSE 1)

FramesLeft == SourceFrames - sent

Left == MainLeft + DoomedLeft + SourceLeft + FlagsLeft + FramesLeft

StepsRunOut == main # "down" => Left \in Nat /\ Left' < Left

\* The weights of the stages.
LEMMA StagesAre ==
    /\ StageLeft("launch") = 17 /\ StageLeft("polling") = 16
    /\ StageLeft("draining") = 15 /\ StageLeft("closing") = 14
    /\ StageLeft("unwinding") = 13 /\ StageLeft("verifying") = 12
    /\ StageLeft("renaming metadata") = 11 /\ StageLeft("renaming video") = 10
    /\ StageLeft("discarding") = 5 /\ StageLeft("describing") = 4
    /\ StageLeft("planning") = 3 /\ StageLeft("resulting") = 2
    /\ StageLeft("reporting") = 1 /\ StageLeft("down") = 0
  BY DEF StageLeft

\* The weight of the main thread's stage before a step, and after it.
LEMMA MainBefore ==
    /\ main = "launch" => MainLeft = 17
    /\ main = "polling" => MainLeft = 16
    /\ main = "draining" => MainLeft = 15
    /\ main = "closing" => MainLeft = 14
    /\ main = "unwinding" => MainLeft = 13
    /\ main = "verifying" => MainLeft = 12
    /\ main = "renaming metadata" => MainLeft = 11
    /\ main = "renaming video" => MainLeft = 10
    /\ main = "discarding" => MainLeft = 5
    /\ main = "describing" => MainLeft = 4
    /\ main = "planning" => MainLeft = 3
    /\ main = "resulting" => MainLeft = 2
    /\ main = "reporting" => MainLeft = 1
    /\ main = "down" => MainLeft = 0
  BY StagesAre, Zenon DEF MainLeft

LEMMA MainAfter ==
    /\ main' = "launch" => MainLeft' = 17
    /\ main' = "polling" => MainLeft' = 16
    /\ main' = "draining" => MainLeft' = 15
    /\ main' = "closing" => MainLeft' = 14
    /\ main' = "unwinding" => MainLeft' = 13
    /\ main' = "verifying" => MainLeft' = 12
    /\ main' = "renaming metadata" => MainLeft' = 11
    /\ main' = "renaming video" => MainLeft' = 10
    /\ main' = "discarding" => MainLeft' = 5
    /\ main' = "describing" => MainLeft' = 4
    /\ main' = "planning" => MainLeft' = 3
    /\ main' = "resulting" => MainLeft' = 2
    /\ main' = "reporting" => MainLeft' = 1
    /\ main' = "down" => MainLeft' = 0
  BY StagesAre, Zenon DEF MainLeft

LEMMA MainType ==
    ASSUME main \in Stages
    PROVE  MainLeft \in 0 .. 17 /\ (main # "down" => MainLeft > 0)
  <1>1. MainLeft \in {17, 16, 15, 14, 13, 12, 11, 10, 5, 4, 3, 2, 1, 0}
    BY MainBefore, Zenon DEF Stages
  <1>2. main # "down" => MainLeft \in {17, 16, 15, 14, 13, 12, 11, 10, 5, 4, 3, 2, 1}
    BY MainBefore, Zenon DEF Stages
  <1> QED
    BY <1>1, <1>2

LEMMA MainTypeAfter ==
    ASSUME main' \in Stages
    PROVE  MainLeft' \in 0 .. 17
  <1>1. MainLeft' \in {17, 16, 15, 14, 13, 12, 11, 10, 5, 4, 3, 2, 1, 0}
    BY MainAfter, Zenon DEF Stages
  <1> QED
    BY <1>1

\* What is left of each part, in numbers.
LEMMA PartsAre ==
    /\ SourceLeft \in 0 .. 4 /\ FlagsLeft \in 0 .. 2
    /\ SourceLeft' \in 0 .. 4 /\ FlagsLeft' \in 0 .. 2
    /\ main \in Stages => MainLeft \in 0 .. 17 /\ (main # "down" => MainLeft > 0)
    /\ main' \in Stages => MainLeft' \in 0 .. 17
  <1>1. SourceLeft \in 0 .. 4 /\ SourceLeft' \in 0 .. 4
    BY DEF SourceLeft
  <1>2. FlagsLeft \in 0 .. 2 /\ FlagsLeft' \in 0 .. 2
    BY DEF FlagsLeft
  <1>3. main \in Stages => MainLeft \in 0 .. 17 /\ (main # "down" => MainLeft > 0)
    BY MainType
  <1>4. main' \in Stages => MainLeft' \in 0 .. 17
    BY MainTypeAfter
  <1> QED
    BY <1>1, <1>2, <1>3, <1>4

LEMMA DoomedAre ==
    ASSUME NEW S \in SUBSET Paths
    PROVE  IsFiniteSet(S) /\ Cardinality(S) \in 0 .. 4
  <1>1. IsFiniteSet({}) /\ Cardinality({}) = 0
    BY FS_EmptySet
  <1> DEFINE one == {} \cup {"video.ogv"}
             two == one \cup {"cdg00.jsonl"}
             three == two \cup {"video.ogv.partial"}
             four == three \cup {"cdg00.jsonl.partial"}
  <1>2. IsFiniteSet(one) /\ Cardinality(one) = 1
    BY <1>1, FS_AddElement
  <1>3. IsFiniteSet(two) /\ Cardinality(two) = 2
    BY <1>2, FS_AddElement
  <1>4. IsFiniteSet(three) /\ Cardinality(three) = 3
    BY <1>3, FS_AddElement
  <1>5. IsFiniteSet(four) /\ Cardinality(four) = 4
    BY <1>4, FS_AddElement
  <1>6. Paths = four
    BY DEF Paths, Partials, Finals
  <1> HIDE DEF four
  <1>7. IsFiniteSet(S) /\ Cardinality(S) <= 4
    BY <1>5, <1>6, FS_Subset
  <1> QED
    BY <1>7, FS_CardinalityType

\* If no part grows and one shrinks, less is left; what is doomed may grow with a
\* stage of the main thread that weighs more than it.
LEMMA Less ==
    ASSUME FramesLeft \in Nat, FramesLeft' \in Int,
           doomed \in SUBSET Paths, doomed' \in SUBSET Paths,
           main \in Stages, main' \in Stages,
           SourceLeft' <= SourceLeft, FlagsLeft' <= FlagsLeft, FramesLeft' <= FramesLeft,
           \/ MainLeft' <= MainLeft /\ DoomedLeft' <= DoomedLeft
           \/ MainLeft >= 10 /\ MainLeft' <= 5,
           \/ MainLeft' < MainLeft \/ DoomedLeft' < DoomedLeft
           \/ SourceLeft' < SourceLeft \/ FlagsLeft' < FlagsLeft \/ FramesLeft' < FramesLeft
    PROVE  Left \in Nat /\ Left' < Left
  <1> DEFINE a == MainLeft
             b == DoomedLeft
             c == SourceLeft
             d == FlagsLeft
             e == FramesLeft
             p == MainLeft'
             q == DoomedLeft'
             r == SourceLeft'
             s == FlagsLeft'
             t == FramesLeft'
  <1>1. b \in Nat /\ q \in Nat /\ q <= 4
    BY DoomedAre DEF DoomedLeft
  <1>2. a \in Nat /\ p \in Nat
    BY PartsAre
  <1>3. c \in Nat /\ d \in Nat /\ r \in Nat /\ s \in Nat
    BY PartsAre
  <1>4. e \in Nat /\ t \in Int
    OBVIOUS
  <1>5. r <= c /\ s <= d /\ t <= e
    OBVIOUS
  <1>6. \/ p <= a /\ q <= b
        \/ a >= 10 /\ p <= 5
    BY Zenon
  <1>7. p < a \/ q < b \/ r < c \/ s < d \/ t < e
    OBVIOUS
  <1>8. Left = a + b + c + d + e /\ Left' = p + q + r + s + t
    BY DEF Left
  <1> HIDE DEF a, b, c, d, e, p, q, r, s, t
  <1> QED
    BY <1>1, <1>2, <1>3, <1>4, <1>5, <1>6, <1>7, <1>8

\* Every step of a process is one of those that are left.
LEMMA LeftStep ==
    ASSUME IInv, EndInv, Next
    PROVE  StepsRunOut
  <1> SUFFICES ASSUME main # "down"
               PROVE  Left \in Nat /\ Left' < Left
    BY DEF StepsRunOut
  <1>1. /\ FramesLeft \in Nat /\ FramesLeft' \in Int
        /\ doomed \in SUBSET Paths /\ doomed' \in SUBSET Paths
        /\ sent \in Nat /\ sent' \in Nat
        /\ main \in Stages /\ main' \in Stages
    <2>1. TypeOK /\ TypeOK'
      BY TypeStep DEF IInv
    <2>2. /\ sent \in Nat /\ sent' \in Nat
          /\ doomed \in SUBSET Paths /\ doomed' \in SUBSET Paths
          /\ main \in Stages /\ main' \in Stages
      BY <2>1 DEF TypeOK
    <2> QED
      BY <2>2 DEF FramesLeft, EndInv
  <1>2. /\ MainLeft \in Nat /\ MainLeft > 0 /\ MainLeft' \in Nat
        /\ SourceLeft \in Nat /\ SourceLeft <= 4 /\ SourceLeft' \in Nat /\ SourceLeft' <= 4
        /\ FlagsLeft \in Nat /\ FlagsLeft' \in Nat
        /\ DoomedLeft \in Nat /\ DoomedLeft' \in Nat /\ DoomedLeft' <= 4
    <2>1. MainLeft > 0
      BY <1>1, PartsAre
    <2>2. DoomedLeft \in 0 .. 4 /\ DoomedLeft' \in 0 .. 4
      BY <1>1, DoomedAre DEF DoomedLeft
    <2>3. DoomedLeft \in Nat /\ DoomedLeft' \in Nat /\ DoomedLeft' <= 4
      BY <2>2
    <2>4. MainLeft \in Nat /\ MainLeft' \in Nat
      BY <1>1, PartsAre
    <2>5. SourceLeft \in Nat /\ SourceLeft <= 4 /\ SourceLeft' \in Nat /\ SourceLeft' <= 4
      BY PartsAre
    <2>6. FlagsLeft \in Nat /\ FlagsLeft' \in Nat
      BY PartsAre
    <2> QED
      BY <2>1, <2>3, <2>4, <2>5, <2>6
  <1>3. /\ (source' = source => SourceLeft' = SourceLeft)
        /\ (doomed' = doomed => DoomedLeft' = DoomedLeft)
        /\ (probe' = probe /\ late' = late => FlagsLeft' = FlagsLeft)
        /\ (sent' = sent => FramesLeft' = FramesLeft)
        /\ (main' = main => MainLeft' = MainLeft)
    BY DEF SourceLeft, DoomedLeft, FlagsLeft, FramesLeft, MainLeft
  <1>4. ASSUME UNCHANGED <<source, probe, late, sent>>,
               \/ MainLeft' <= MainLeft /\ DoomedLeft' <= DoomedLeft
               \/ MainLeft >= 10 /\ MainLeft' <= 5,
               MainLeft' < MainLeft \/ DoomedLeft' < DoomedLeft
        PROVE  Left \in Nat /\ Left' < Left
    BY <1>1, <1>2, <1>3, <1>4, Less
  <1>5. CASE LaunchOk \/ LaunchFails
    <2>1. /\ main = "launch" /\ main' \in {"polling", "unwinding"} /\ source = "idle"
          /\ UNCHANGED <<probe, late, sent, doomed>>
      BY <1>5 DEF LaunchOk, LaunchFails, IInv, BusInv
    <2>2. MainLeft' < MainLeft
      <3>1. MainLeft = 17
        BY <2>1, MainBefore
      <3>2. MainLeft' \in {16, 13}
        BY <2>1, MainAfter
      <3> QED
        BY <3>1, <3>2
    <2>3. SourceLeft = 4
      BY <2>1 DEF SourceLeft
    <2> QED
      BY <1>1, <1>2, <1>3, <2>1, <2>2, <2>3, Less
  <1>6. CASE FrameCollected \/ EncoderFails \/ Turned
    <2>1. /\ sent' = sent + 1 /\ UNCHANGED <<main, probe, late, doomed>>
          /\ source = "pushing" /\ source' \in {"pushing", "failing"}
      BY <1>6 DEF FrameCollected, EncoderFails, Turned, FrameAboveLimit, FrameRejected,
                  FrameDropped, FrameUnseen, Arrives
    <2>2. FramesLeft' < FramesLeft
      BY <1>1, <2>1 DEF FramesLeft
    <2>3. SourceLeft' <= SourceLeft
      BY <2>1 DEF SourceLeft
    <2> QED
      BY <1>1, <1>2, <1>3, <2>1, <2>2, <2>3, Less
  <1>7. CASE Ending
    <2>1. /\ UNCHANGED <<main, probe, late, doomed, sent>>
          /\ \/ source = "pushing" /\ source' \in {"failing", "eos"}
             \/ source = "failing" /\ source' = "eos"
             \/ source = "eos" /\ source' = "ended"
      BY <1>7 DEF Ending, UpstreamFails, SourceReportsError, SourceEnds, EosArrives, EosFails
    <2>2. SourceLeft' < SourceLeft
      BY <2>1 DEF SourceLeft
    <2> QED
      BY <1>1, <1>2, <1>3, <2>1, <2>2, Less
  <1>8. CASE Poll
    <2>1. /\ main = "polling" /\ main' \in {"draining", "unwinding"}
          /\ UNCHANGED <<source, probe, late, sent, doomed>>
      BY <1>8 DEF Poll, Pop, PollProbeError, PollErrorMessage, PollEos, PollTimeout
    <2>2. MainLeft' < MainLeft
      <3>1. MainLeft = 16
        BY <2>1, MainBefore
      <3>2. MainLeft' \in {15, 13}
        BY <2>1, MainAfter
      <3> QED
        BY <3>1, <3>2
    <2> QED
      BY <1>2, <1>3, <1>4, <2>1, <2>2
  <1>9. CASE DeadlinePasses \/ RemoveProbe
    <2>1. UNCHANGED <<main, source, sent, doomed>>
      BY <1>9 DEF DeadlinePasses, RemoveProbe
    <2>2. FlagsLeft' < FlagsLeft
      <3>1. CASE DeadlinePasses
        BY <3>1 DEF DeadlinePasses, FlagsLeft
      <3>2. CASE RemoveProbe
        BY <3>2 DEF RemoveProbe, FlagsLeft
      <3> QED
        BY <1>9, <3>1, <3>2
    <2> QED
      BY <1>1, <1>2, <1>3, <2>1, <2>2, Less
  <1>10. CASE Drain \/ DrainFails
    <2>1. /\ main = "draining" /\ main' \in {"closing", "unwinding"}
          /\ UNCHANGED <<source, probe, late, sent, doomed>>
      BY <1>10 DEF Drain, DrainFails
    <2>2. MainLeft' < MainLeft
      <3>1. MainLeft = 15
        BY <2>1, MainBefore
      <3>2. MainLeft' \in {14, 13}
        BY <2>1, MainAfter
      <3> QED
        BY <3>1, <3>2
    <2> QED
      BY <1>2, <1>3, <1>4, <2>1, <2>2
  <1>11. CASE SetNull
    <2>1. /\ \/ main = "unwinding" /\ main' = "discarding"
             \/ main = "closing" /\ main' = "verifying" /\ doomed' = doomed
          /\ UNCHANGED <<probe, late, sent>> /\ source' = "ended"
      BY <1>11 DEF SetNull, Discard
    <2>2. \/ MainLeft = 13 /\ MainLeft' = 5
          \/ MainLeft = 14 /\ MainLeft' = 12 /\ DoomedLeft' = DoomedLeft
      BY <1>3, <2>1, MainBefore, MainAfter, Zenon
    <2>3. SourceLeft' = 0
      BY <2>1 DEF SourceLeft
    <2> QED
      BY <1>1, <1>2, <1>3, <2>1, <2>2, <2>3, Less
  <1>12. CASE Verify \/ VerifyFails \/ PublishMetadata \/ PublishVideo \/ Withdraw
    <2>1. /\ \/ main = "verifying" /\ main' = "renaming metadata" /\ doomed' = doomed
             \/ main = "renaming metadata" /\ main' = "renaming video" /\ doomed' = doomed
             \/ main = "renaming video" /\ main' = "describing" /\ doomed' = doomed
             \/ /\ main \in {"verifying", "renaming metadata", "renaming video"}
                /\ main' = "discarding"
          /\ UNCHANGED <<source, probe, late, sent>>
      BY <1>12 DEF Verify, VerifyFails, Discard, PublishMetadata, PublishVideo, Withdraw
    <2>2. UNCHANGED <<source, probe, late, sent>>
      BY <2>1
    <2>3. \/ MainLeft = 12 /\ MainLeft' = 11 /\ DoomedLeft' = DoomedLeft
          \/ MainLeft = 11 /\ MainLeft' = 10 /\ DoomedLeft' = DoomedLeft
          \/ MainLeft = 10 /\ MainLeft' = 4 /\ DoomedLeft' = DoomedLeft
          \/ MainLeft \in {12, 11, 10} /\ MainLeft' = 5
      BY <1>3, <2>1, MainBefore, MainAfter, Zenon
    <2>4. CASE MainLeft = 12 /\ MainLeft' = 11 /\ DoomedLeft' = DoomedLeft
      BY <1>2, <1>4, <2>2, <2>4
    <2>5. CASE MainLeft = 11 /\ MainLeft' = 10 /\ DoomedLeft' = DoomedLeft
      BY <1>2, <1>4, <2>2, <2>5
    <2>6. CASE MainLeft = 10 /\ MainLeft' = 4 /\ DoomedLeft' = DoomedLeft
      BY <1>2, <1>4, <2>2, <2>6
    <2>7. CASE MainLeft \in {12, 11, 10} /\ MainLeft' = 5
      <3>1. MainLeft >= 10 /\ MainLeft' <= 5 /\ MainLeft' < MainLeft
        BY <2>7
      <3> QED
        BY <1>4, <2>2, <3>1
    <2> QED
      BY <2>3, <2>4, <2>5, <2>6, <2>7
  <1>13. CASE Remove
    <2>1. /\ UNCHANGED <<main, source, probe, late, sent>>
          /\ \E p \in doomed : doomed' = doomed \ {p}
      BY <1>13 DEF Remove
    <2>2. DoomedLeft' = DoomedLeft - 1
      BY <1>1, <2>1, DoomedAre, FS_RemoveElement DEF DoomedLeft
    <2> QED
      BY <1>2, <1>3, <1>4, <2>1, <2>2
  <1>14. CASE Discarded \/ Kill
    <2>1. main' = "down" /\ doomed' = {} /\ UNCHANGED <<source, probe, late, sent>>
      BY <1>14 DEF Discarded, Kill
    <2>2. MainLeft' = 0
      BY <2>1, MainAfter
    <2>3. DoomedLeft' = 0
      BY <2>1, FS_EmptySet DEF DoomedLeft
    <2> QED
      BY <1>2, <1>4, <2>1, <2>2, <2>3
  <1>15. CASE Describe \/ WritePlan \/ WriteResult \/ ReportFails \/ Report
    <2>1. /\ \/ main = "describing" /\ main' \in {"planning", "down"}
             \/ main = "planning" /\ main' \in {"resulting", "down"}
             \/ main = "resulting" /\ main' \in {"reporting", "down"}
             \/ main = "reporting" /\ main' = "down"
          /\ UNCHANGED <<source, probe, late, sent, doomed>>
      BY <1>15 DEF Describe, WritePlan, WriteResult, ReportFails, Report
    <2>2. \/ MainLeft = 4 /\ MainLeft' \in {3, 0}
          \/ MainLeft = 3 /\ MainLeft' \in {2, 0}
          \/ MainLeft = 2 /\ MainLeft' \in {1, 0}
          \/ MainLeft = 1 /\ MainLeft' = 0
      BY <2>1, MainBefore, MainAfter, Zenon
    <2> QED
      BY <1>2, <1>3, <1>4, <2>1, <2>2
  <1>16. ~(RefuseExisting \/ RefuseUnprepared \/ Begin)
    BY DEF RefuseExisting, RefuseUnprepared, Begin
  <1> QED
    BY <1>5, <1>6, <1>7, <1>8, <1>9, <1>10, <1>11, <1>12, <1>13, <1>14, <1>15, <1>16, Cases
    DEF Publish

\* While a process runs the main thread or the streaming thread can go on: the
\* loop does not wait for a message that nobody will post
\* (run_ground_cdg00_pipeline()).
THEOREM GroundSomebodyRuns == Spec => []SomebodyCanGoOn
  BY SomebodyOf, EndInvariant, PTL

\* Every step of a process, whatever fails, takes a piece of what is left of it
\* (run_ground_cdg00_pipeline(), GroundCdg00Collector, run()).
THEOREM GroundStepsRunOut == Spec => [][StepsRunOut]_vars
  <1>1. IInv /\ EndInv /\ [Next]_vars => [StepsRunOut]_vars
    BY LeftStep
  <1> QED
    BY <1>1, EndInvariant, PTL DEF Spec

=============================================================================
