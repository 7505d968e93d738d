--------------------------- MODULE FramesRunProofs ---------------------------
(***************************************************************************)
(* IInv is an inductive invariant of a default run, for every frame limit, *)
(* every source and any number of attempts, and the safety properties of   *)
(* FramesRun are parts of it.                                              *)
(*                                                                         *)
(* There is one lemma per part of IInv, which cites the parts it needs,    *)
(* and in each one step per group of actions.                              *)
(***************************************************************************)
EXTENDS FramesRun, TLAPS

USE FramesAssumption DEF max_buffers, Exit, Throw, processVars, sourceVars, channelVars, bundleVars, jsonVars

\* A step is one of these; the groups are used as the cases of each lemma.
Outcome == WriteFails \/ Report \/ Kill

LEMMA Cases ==
    ASSUME Next
    PROVE  \/ Refuse \/ Begin
           \/ LaunchOk \/ LaunchFails
           \/ Stream
           \/ Pull
           \/ Check \/ DeadlinePasses
           \/ ProvenanceFails \/ Cleanup
           \/ Bundling
           \/ WritePlan \/ WriteResult
           \/ Outcome
  BY DEF Next, Main, Outcome

\* Pulling a sample and popping a message.
LEMMA Popped ==
    ASSUME NEW S, NEW q \in Seq(S), q # <<>>
    PROVE  /\ Head(q) \in S
           /\ Tail(q) \in Seq(S)
           /\ Len(Tail(q)) = Len(q) - 1
           /\ \A i \in 1 .. Len(Tail(q)) : Tail(q)[i] = q[i + 1]
           /\ Head(q) = q[1]
  OBVIOUS

\* Posting a message, queueing a sample, collecting a frame.
LEMMA Appended ==
    ASSUME NEW S, NEW q \in Seq(S), NEW e \in S
    PROVE  /\ Append(q, e) \in Seq(S)
           /\ Append(q, e) # <<>>
           /\ Len(Append(q, e)) = Len(q) + 1
           /\ \A i \in 1 .. Len(q) : Append(q, e)[i] = q[i]
           /\ Append(q, e)[Len(q) + 1] = e
           /\ q # <<>> => Head(Append(q, e)) = Head(q)
           /\ q = <<>> => Head(Append(q, e)) = e
  OBVIOUS

LEMMA BundleTyped ==
    ASSUME NEW n \in Nat, NEW count \in Nat, NEW members \in Seq(Nat)
    PROVE  Bundle(n, count, members) \in Bundles
  BY DEF Bundle, Bundles

LEMMA NoBundleTyped == NoBundle \in Bundles /\ NoResult \in Results
  <1>1. NoBundle \in Bundles
    <2>1. <<>> \in Seq(Nat)
      OBVIOUS
    <2> QED
      BY <2>1 DEF NoBundle, Bundle, Bundles
  <1> QED
    BY <1>1 DEF NoResult, Results

LEMMA Beginning == Init => IInv
  <1> SUFFICES ASSUME Init PROVE IInv
    OBVIOUS
  <1>0. <<>> \in Seq(Nat) /\ <<>> \in Seq(Messages) /\ Len(<<>>) = 0
    OBVIOUS
  <1>1. TypeOK
    <2>1. /\ queue \in Seq(Nat) /\ bus \in Seq(Messages) /\ frames \in Seq(Nat)
          /\ product_partial \in Bundles /\ product \in Bundles /\ digest \in Bundles
          /\ result_json \in Results /\ before \in Bundles \X Results
      BY <1>0, NoBundleTyped, Zenon DEF Init
    <2>2. Len(queue) <= max_buffers /\ Len(frames) <= MaxFrames
      BY <1>0 DEF Init
    <2>3. late \in BOOLEAN /\ flow_ok \in BOOLEAN /\ plan_json \in BOOLEAN
      BY DEF Init
    <2> QED
      BY <2>1, <2>2, <2>3 DEF Init, TypeOK, Stages, ExitCodes
  <1>2. FlowInv /\ BusInv /\ BundleInv /\ ExitInv
    BY DEF Init, FlowInv, BusInv, BundleInv, ExitInv, Consecutive, Completed, Bundled,
           Unbundled, NoBundle, Bundle
  <1>3. BundleWhole /\ ResultNamesItsBundle /\ FailureKeepsEarlierProduct
        /\ OkLosesOnlyTheQueue
    BY DEF Init, BundleWhole, ResultNamesItsBundle, FailureKeepsEarlierProduct,
           OkLosesOnlyTheQueue, NoResult, NoBundle, Bundle, ExitCodes
  <1> QED
    BY <1>1, <1>2, <1>3 DEF IInv
-----------------------------------------------------------------------------
(* The types *)

LEMMA TypeStep ==
    ASSUME TypeOK, Next
    PROVE  TypeOK'
  <1>0. /\ <<product, result_json>> \in Bundles \X Results
        /\ NoBundle \in Bundles
        /\ <<>> \in Seq(Nat) /\ <<>> \in Seq(Messages) /\ Len(<<>>) = 0
    BY NoBundleTyped DEF TypeOK
  <1>1. CASE Refuse \/ Begin
    <2>1. UNCHANGED <<product_partial, product, jsonVars>>
      BY <1>1 DEF Refuse, Begin, bundleVars
    <2>2. /\ queue' \in {queue, <<>>} /\ bus' \in {bus, <<>>} /\ frames' \in {frames, <<>>}
          /\ digest' \in {digest, NoBundle}
          /\ before' = <<product, result_json>>
          /\ late' \in {late, FALSE} /\ flow_ok' \in {flow_ok, TRUE}
          /\ main' \in {main, "launch"} /\ verdict' \in {verdict, "ok"}
          /\ exit' \in {"validation", "dependency", "fatal", "none"}
          /\ source' \in {source, "idle"} /\ sent' \in {sent, 0}
          /\ attempt' = attempt + 1
      BY <1>1, Zenon DEF Refuse, Begin
    <2>3. queue' \in Seq(Nat) /\ bus' \in Seq(Messages) /\ frames' \in Seq(Nat)
      BY <1>0, <2>2, Zenon DEF TypeOK
    <2>4. Len(queue') <= max_buffers
      BY <1>0, <2>2 DEF TypeOK
    <2>5. Len(frames') <= MaxFrames
      BY <1>0, <2>2 DEF TypeOK
    <2>6. /\ main' \in Stages /\ verdict' \in ExitCodes
          /\ exit' \in ExitCodes \cup {"none", "killed"}
          /\ source' \in {"idle", "pushing", "failing", "eos", "ended"}
          /\ attempt' \in Nat /\ sent' \in Nat
      BY <2>2 DEF TypeOK, Stages, ExitCodes
    <2>7. late' \in BOOLEAN /\ flow_ok' \in BOOLEAN
      BY <2>2 DEF TypeOK
    <2>8. digest' \in Bundles /\ before' \in Bundles \X Results
      BY <1>0, <2>2 DEF TypeOK
    <2> QED
      BY <2>1, <2>3, <2>4, <2>5, <2>6, <2>7, <2>8 DEF TypeOK
  <1>2. CASE LaunchOk \/ LaunchFails
    BY <1>2 DEF LaunchOk, LaunchFails, TypeOK, Stages, ExitCodes, sourceVars, channelVars,
                bundleVars, jsonVars
  <1>3. CASE Stream
    <2>1. UNCHANGED <<processVars, frames, bundleVars, jsonVars, before>>
      BY <1>3 DEF Stream, PushFrame, UpstreamFails, SourceReportsError, SourceEnds,
                  EosArrives
    <2>2. /\ source' \in {"idle", "pushing", "failing", "eos", "ended"}
          /\ sent' \in Nat
      BY <1>3 DEF Stream, PushFrame, UpstreamFails, SourceReportsError, SourceEnds,
                  EosArrives, TypeOK
    <2>5. flow_ok' \in BOOLEAN
      BY <1>3, Zenon DEF Stream, PushFrame, UpstreamFails, SourceReportsError, SourceEnds,
                         EosArrives, TypeOK
    <2>3. queue' \in Seq(Nat) /\ Len(queue') <= max_buffers
      <3>1. CASE PushFrame
        BY <3>1, Appended DEF PushFrame, TypeOK
      <3> QED
        BY <1>3, <3>1 DEF Stream, UpstreamFails, SourceReportsError, SourceEnds,
                          EosArrives, TypeOK
    <2>4. bus' \in Seq(Messages)
      <3>1. \A message \in Messages : Append(bus, message) \in Seq(Messages)
        BY Appended DEF TypeOK
      <3>2. bus' = bus \/ \E message \in Messages : bus' = Append(bus, message)
        BY <1>3 DEF Stream, PushFrame, UpstreamFails, SourceReportsError, SourceEnds,
                    EosArrives, channelVars, Messages
      <3> QED
        BY <3>1, <3>2 DEF TypeOK
    <2> QED
      BY <2>1, <2>2, <2>3, <2>4, <2>5 DEF TypeOK
  <1>4. CASE Pull
    <2>1. /\ UNCHANGED <<attempt, exit, late, sourceVars, bus, bundleVars, jsonVars, before>>
          /\ main' \in Stages /\ verdict' \in ExitCodes
      BY <1>4 DEF Pull, PullFrame, PullAboveLimit, PullUnreadable, PullNothing, TypeOK,
                  Stages, ExitCodes, processVars, channelVars
    <2>2. queue' = queue \/ (queue # <<>> /\ queue' = Tail(queue))
      BY <1>4 DEF Pull, PullFrame, PullAboveLimit, PullUnreadable, PullNothing,
                  SampleReady, channelVars
    <2>3. queue' \in Seq(Nat) /\ Len(queue') <= max_buffers
      <3>1. queue # <<>> =>
              Tail(queue) \in Seq(Nat) /\ Len(Tail(queue)) = Len(queue) - 1
        BY Popped DEF TypeOK
      <3>2. queue' \in Seq(Nat)
        BY <2>2, <3>1 DEF TypeOK
      <3>3. Len(queue') <= max_buffers
        BY <2>2, <3>1 DEF TypeOK
      <3> QED
        BY <3>2, <3>3
    <2>4. frames' \in Seq(Nat) /\ Len(frames') <= MaxFrames
      <3>1. CASE PullFrame
        <4>1. Head(queue) \in Nat
          BY <3>1, Popped DEF PullFrame, SampleReady, TypeOK
        <4> QED
          BY <3>1, <4>1, Appended, FramesAssumption DEF PullFrame, BelowLimit, TypeOK
      <3> QED
        BY <1>4, <3>1 DEF Pull, PullAboveLimit, PullUnreadable, PullNothing, TypeOK
    <2> QED
      BY <2>1, <2>3, <2>4 DEF TypeOK, sourceVars, bundleVars, jsonVars
  <1>5. CASE Check \/ DeadlinePasses
    <2>1. /\ UNCHANGED <<exit, attempt, sourceVars, queue, frames, bundleVars, jsonVars,
                         before>>
          /\ main' \in Stages /\ verdict' \in ExitCodes /\ late' \in BOOLEAN
      BY <1>5 DEF Check, CheckNothing, CheckError, CheckEos, CheckTimeout, DeadlinePasses,
                  TypeOK, Stages, ExitCodes, channelVars
    <2>2. bus' = bus \/ (bus # <<>> /\ bus' = Tail(bus))
      <3>1. CASE Check
        <4>1. Pop
          BY <3>1, Zenon DEF Check, CheckNothing, CheckError, CheckEos, CheckTimeout
        <4> QED
          BY <4>1, Zenon DEF Pop
      <3>2. CASE DeadlinePasses
        <4>1. bus' = bus
          BY <3>2 DEF DeadlinePasses
        <4> QED
          BY <4>1
      <3> QED
        BY <1>5, <3>1, <3>2
    <2>3. bus \in Seq(Messages)
      BY DEF TypeOK
    <2>4. bus # <<>> => Tail(bus) \in Seq(Messages)
      BY <2>3, Popped
    <2>5. bus' \in Seq(Messages)
      BY <2>2, <2>3, <2>4, Zenon
    <2> QED
      BY <2>1, <2>5 DEF TypeOK, sourceVars, bundleVars, jsonVars
  <1>6. CASE ProvenanceFails \/ Cleanup
    <2>1. /\ UNCHANGED <<attempt, late, sent, flow_ok, bus, frames, bundleVars, jsonVars,
                         before>>
          /\ main' \in Stages /\ verdict' \in ExitCodes
          /\ exit' \in ExitCodes \cup {"none", "killed"}
          /\ source' \in {"idle", "pushing", "failing", "eos", "ended"}
      BY <1>6 DEF ProvenanceFails, Cleanup, TypeOK, Stages, ExitCodes, sourceVars,
                  channelVars
    <2>2. queue' = queue \/ queue' = <<>>
      BY <1>6, Zenon DEF ProvenanceFails, Cleanup
    <2>3. queue' \in Seq(Nat)
      BY <1>0, <2>2 DEF TypeOK
    <2>4. Len(queue') <= max_buffers
      BY <1>0, <2>2 DEF TypeOK
    <2> QED
      BY <2>1, <2>3, <2>4 DEF TypeOK
  <1>7. CASE Bundling
    <2>1. /\ UNCHANGED <<verdict, attempt, late, sourceVars, channelVars, frames, jsonVars,
                         before>>
          /\ main' \in Stages
          /\ exit' \in ExitCodes \cup {"none", "killed"}
      BY <1>7 DEF Bundling, NoFrames, WriteBundle, WriteBundleFails, PublishBundle,
                  HashBundle, PublishFails, TypeOK, Stages, ExitCodes
    <2>2. product_partial' \in Bundles
      <3>1. \A n \in 0 .. Len(frames) : PartialOf(SubSeq(frames, 1, n)) \in Bundles
        <4> SUFFICES ASSUME NEW n \in 0 .. Len(frames)
                     PROVE  PartialOf(SubSeq(frames, 1, n)) \in Bundles
          OBVIOUS
        <4>1. SubSeq(frames, 1, n) \in Seq(Nat)
          BY DEF TypeOK
        <4> QED
          BY <4>1, SMTT(30) DEF PartialOf, Bundle, Bundles, TypeOK
      <3>2. PartialOf(frames) \in Bundles
        BY BundleTyped DEF PartialOf, TypeOK
      <3> QED
        BY <1>0, <1>7, <3>1, <3>2
           DEF Bundling, NoFrames, WriteBundle, WriteBundleFails, PublishBundle,
               HashBundle, PublishFails, TypeOK, bundleVars
    <2>3. product' \in Bundles /\ digest' \in Bundles
      BY <1>7 DEF Bundling, NoFrames, WriteBundle, WriteBundleFails, PublishBundle,
                  HashBundle, PublishFails, TypeOK, bundleVars
    <2> QED
      BY <2>1, <2>2, <2>3 DEF TypeOK, sourceVars, channelVars, jsonVars
  <1>8. CASE WritePlan \/ WriteResult
    <2>1. /\ UNCHANGED <<verdict, exit, attempt, late, sourceVars, channelVars, frames,
                         bundleVars, before>>
          /\ main' \in Stages /\ plan_json' \in BOOLEAN
      BY <1>8 DEF WritePlan, WriteResult, TypeOK, Stages
    <2>2. result_json' \in Results
      BY <1>8 DEF WritePlan, WriteResult, TypeOK, Results
    <2> QED
      BY <2>1, <2>2 DEF TypeOK, sourceVars, channelVars, bundleVars
  <1>9. CASE Outcome
    BY <1>9 DEF Outcome, WriteFails, Report, Kill, TypeOK, Stages, ExitCodes, sourceVars,
                channelVars, bundleVars, jsonVars
  <1> QED
    BY <1>1, <1>2, <1>3, <1>4, <1>5, <1>6, <1>7, <1>8, <1>9, Cases
-----------------------------------------------------------------------------
(* Frames and messages *)

LEMMA FlowStep ==
    ASSUME TypeOK, FlowInv, BusInv, Next
    PROVE  FlowInv'
  <1> USE DEF TypeOK, FlowInv, Consecutive, Completed, Bundled
  <1>1. CASE Refuse \/ Begin
    BY <1>1 DEF Refuse, Begin
  <1>2. CASE LaunchOk \/ LaunchFails
    BY <1>2 DEF LaunchOk, LaunchFails
  <1>3. CASE Stream
    <2>1. CASE PushFrame
      <3>1. main \notin Completed \cup {"launch"}
        BY <2>1 DEF PushFrame, Streaming, BusInv
      <3>2. CASE main \in {"pulling", "checking"}
        <4>1. /\ Len(queue') = Len(queue) + 1
              /\ \A i \in 1 .. Len(queue) : queue'[i] = queue[i]
              /\ queue'[Len(queue) + 1] = sent
          BY <2>1, Appended DEF PushFrame
        <4>2. \A i \in 1 .. Len(queue') : queue'[i] = Len(frames) + i - 1
          <5> SUFFICES ASSUME NEW i \in 1 .. Len(queue')
                       PROVE  queue'[i] = Len(frames) + i - 1
            OBVIOUS
          <5>1. Len(queue) \in Nat /\ Len(frames) \in Nat
            OBVIOUS
          <5>2. CASE i \in 1 .. Len(queue)
            BY <3>2, <4>1, <5>2
          <5>3. CASE i = Len(queue) + 1
            BY <3>2, <4>1, <5>1, <5>3
          <5> QED
            BY <4>1, <5>1, <5>2, <5>3
        <4> QED
          BY <2>1, <3>1, <3>2, <4>1, <4>2 DEF PushFrame
      <3> QED
        BY <2>1, <3>1, <3>2 DEF PushFrame
    <2> QED
      BY <1>3, <2>1 DEF Stream, UpstreamFails, SourceReportsError, SourceEnds, EosArrives
  <1>4. CASE Pull
    <2>1. CASE PullFrame
      <3>1. /\ Head(queue) = Len(frames)
            /\ Head(queue) \in Nat
            /\ Len(queue') = Len(queue) - 1
            /\ \A i \in 1 .. Len(queue') : queue'[i] = queue[i + 1]
        BY <2>1, Popped DEF PullFrame, SampleReady
      <3>2. /\ Len(frames') = Len(frames) + 1
            /\ \A i \in 1 .. Len(frames) : frames'[i] = frames[i]
            /\ frames'[Len(frames) + 1] = Len(frames)
        BY <2>1, <3>1, Appended DEF PullFrame
      <3>3. Consecutive(frames', Len(frames'))
        BY <3>2
      <3>4. \A i \in 1 .. Len(queue') : queue'[i] = Len(frames') + i - 1
        BY <2>1, <3>1, <3>2 DEF PullFrame, SampleReady
      <3> QED
        BY <2>1, <3>1, <3>2, <3>3, <3>4 DEF PullFrame, SampleReady
    <2> QED
      BY <1>4, <2>1 DEF Pull, PullAboveLimit, PullUnreadable, PullNothing
  <1>5. CASE Check \/ DeadlinePasses
    <2>1. UNCHANGED <<sent, queue, frames>>
      BY <1>5 DEF Check, CheckNothing, CheckError, CheckEos, CheckTimeout, DeadlinePasses
    <2>2. /\ main \in {"pulling", "checking"}
          /\ main' \in {"pulling", "checking", "unwinding", "finishing"}
      BY <1>5 DEF Check, CheckNothing, CheckError, CheckEos, CheckTimeout, DeadlinePasses,
                  Pop
    <2> QED
      BY <2>1, <2>2
  <1>6. CASE ProvenanceFails \/ Cleanup
    BY <1>6 DEF ProvenanceFails, Cleanup
  <1>7. CASE Bundling
    BY <1>7 DEF Bundling, NoFrames, WriteBundle, WriteBundleFails, PublishBundle,
                HashBundle, PublishFails
  <1>8. CASE WritePlan \/ WriteResult
    BY <1>8 DEF WritePlan, WriteResult
  <1>9. CASE Outcome
    BY <1>9 DEF Outcome, WriteFails, Report, Kill
  <1> QED
    BY <1>1, <1>2, <1>3, <1>4, <1>5, <1>6, <1>7, <1>8, <1>9, Cases

LEMMA BusStep ==
    ASSUME TypeOK, BusInv, Next
    PROVE  BusInv'
  <1> USE DEF BusInv, Completed, Bundled
  <1>1. CASE Refuse \/ Begin
    BY <1>1 DEF Refuse, Begin
  <1>2. CASE LaunchOk \/ LaunchFails
    BY <1>2 DEF LaunchOk, LaunchFails
  <1>3. CASE Stream
    <2>1. \A message \in Messages :
            /\ Append(bus, message) # <<>>
            /\ bus # <<>> => Head(Append(bus, message)) = Head(bus)
            /\ bus = <<>> => Head(Append(bus, message)) = message
      BY Appended DEF TypeOK
    <2>2. Streaming /\ source \notin {"idle", "ended"} /\ UNCHANGED main
      BY <1>3 DEF Stream, PushFrame, UpstreamFails, SourceReportsError, SourceEnds,
                  EosArrives
    <2>3. main \notin Completed \cup {"launch"}
      BY <2>2 DEF Streaming
    <2>4. CASE PushFrame \/ SourceEnds
      BY <2>3, <2>4 DEF PushFrame, SourceEnds
    <2>5. CASE UpstreamFails
      BY <2>1, <2>3, <2>5 DEF UpstreamFails, Messages
    <2>6. CASE SourceReportsError
      BY <2>1, <2>3, <2>6 DEF SourceReportsError, Messages
    <2>7. CASE EosArrives
      BY <2>1, <2>3, <2>7 DEF EosArrives, Messages
    <2> QED
      BY <1>3, <2>4, <2>5, <2>6, <2>7 DEF Stream
  <1>4. CASE Pull
    BY <1>4 DEF Pull, PullFrame, PullAboveLimit, PullUnreadable, PullNothing, SampleReady
  <1>5. CASE Check \/ DeadlinePasses
    BY <1>5 DEF Check, CheckNothing, CheckError, CheckEos, CheckTimeout, DeadlinePasses,
                Pop, Message
  <1>6. CASE ProvenanceFails \/ Cleanup
    BY <1>6 DEF ProvenanceFails, Cleanup
  <1>7. CASE Bundling
    BY <1>7 DEF Bundling, NoFrames, WriteBundle, WriteBundleFails, PublishBundle,
                HashBundle, PublishFails
  <1>8. CASE WritePlan \/ WriteResult
    BY <1>8 DEF WritePlan, WriteResult
  <1>9. CASE Outcome
    BY <1>9 DEF Outcome, WriteFails, Report, Kill
  <1> QED
    BY <1>1, <1>2, <1>3, <1>4, <1>5, <1>6, <1>7, <1>8, <1>9, Cases
-----------------------------------------------------------------------------
(* Files and exit codes *)

\* Before the rename of product.bin nothing that a reader sees changes.
LEMMA Quiet ==
    ASSUME Next
    PROVE  \/ /\ UNCHANGED <<product, result_json>>
              /\ ~ (Refuse \/ Begin)
              /\ UNCHANGED <<attempt, before>>
           \/ Refuse \/ Begin
           \/ PublishBundle
           \/ WriteResult
  BY Cases, Zenon
     DEF LaunchOk, LaunchFails, Stream, PushFrame, UpstreamFails, SourceReportsError,
         SourceEnds, EosArrives, Pull, PullFrame, PullAboveLimit, PullUnreadable,
         PullNothing, Check, CheckNothing, CheckError, CheckEos, CheckTimeout,
         DeadlinePasses, ProvenanceFails, Cleanup, Bundling, NoFrames, WriteBundle,
         WriteBundleFails, HashBundle, PublishFails, WritePlan, Outcome, WriteFails,
         Report, Kill

LEMMA BundleStep ==
    ASSUME TypeOK, BundleInv, Next
    PROVE  BundleInv'
  <1> USE DEF BundleInv, Unbundled, Bundled
  <1>0. /\ product.attempt \in Nat /\ attempt \in Nat
    BY DEF TypeOK, Bundles
  <1>1. CASE Refuse \/ Begin
    BY <1>0, <1>1 DEF Refuse, Begin
  <1>2. CASE LaunchOk \/ LaunchFails
    BY <1>2 DEF LaunchOk, LaunchFails
  <1>3. CASE Stream
    BY <1>3 DEF Stream, PushFrame, UpstreamFails, SourceReportsError, SourceEnds,
                EosArrives, Streaming
  <1>4. CASE Pull
    BY <1>4 DEF Pull, PullFrame, PullAboveLimit, PullUnreadable, PullNothing, SampleReady
  <1>5. CASE Check \/ DeadlinePasses
    BY <1>5 DEF Check, CheckNothing, CheckError, CheckEos, CheckTimeout, DeadlinePasses, Pop
  <1>6. CASE ProvenanceFails \/ Cleanup
    BY <1>6 DEF ProvenanceFails, Cleanup
  <1>7. CASE Bundling
    <2>1. CASE WriteBundle
      BY <2>1 DEF WriteBundle, PartialOf
    <2>2. CASE PublishBundle
      <3>1. product' = Bundle(attempt, Len(frames), frames)
        BY <2>2 DEF PublishBundle
      <3>2. product'.attempt = attempt
        BY <3>1 DEF Bundle
      <3> QED
        BY <1>0, <2>2, <3>1, <3>2 DEF PublishBundle
    <2>3. CASE HashBundle
      BY <2>3 DEF HashBundle
    <2>4. CASE NoFrames \/ WriteBundleFails \/ PublishFails
      BY <2>4 DEF NoFrames, WriteBundleFails, PublishFails
    <2> QED
      BY <1>7, <2>1, <2>2, <2>3, <2>4 DEF Bundling
  <1>8. CASE WritePlan \/ WriteResult
    BY <1>8 DEF WritePlan, WriteResult
  <1>9. CASE Outcome
    BY <1>9 DEF Outcome, WriteFails, Report, Kill
  <1> QED
    BY <1>1, <1>2, <1>3, <1>4, <1>5, <1>6, <1>7, <1>8, <1>9, Cases

LEMMA ExitStep ==
    ASSUME ExitInv, Next
    PROVE  ExitInv'
  <1> USE DEF ExitInv, Unbundled
  <1>1. CASE Refuse \/ Begin
    BY <1>1 DEF Refuse, Begin
  <1>2. CASE LaunchOk \/ LaunchFails
    BY <1>2 DEF LaunchOk, LaunchFails
  <1>3. CASE Stream
    BY <1>3 DEF Stream, PushFrame, UpstreamFails, SourceReportsError, SourceEnds,
                EosArrives, Streaming
  <1>4. CASE Pull
    BY <1>4 DEF Pull, PullFrame, PullAboveLimit, PullUnreadable, PullNothing, SampleReady
  <1>5. CASE Check \/ DeadlinePasses
    BY <1>5 DEF Check, CheckNothing, CheckError, CheckEos, CheckTimeout, DeadlinePasses, Pop
  <1>6. CASE ProvenanceFails \/ Cleanup
    BY <1>6 DEF ProvenanceFails, Cleanup
  <1>7. CASE Bundling
    BY <1>7 DEF Bundling, NoFrames, WriteBundle, WriteBundleFails, PublishBundle,
                HashBundle, PublishFails
  <1>8. CASE WritePlan \/ WriteResult
    BY <1>8 DEF WritePlan, WriteResult
  <1>9. CASE Outcome
    BY <1>9 DEF Outcome, WriteFails, Report, Kill
  <1> QED
    BY <1>1, <1>2, <1>3, <1>4, <1>5, <1>6, <1>7, <1>8, <1>9, Cases

LEMMA WholeStep ==
    ASSUME TypeOK, FlowInv, BundleInv, BundleWhole, Next
    PROVE  BundleWhole'
  <1>1. CASE PublishBundle
    <2>1. product' = Bundle(attempt, Len(frames), frames) /\ frames # <<>>
      BY <1>1 DEF PublishBundle, BundleInv
    <2>2. product'.frame_count = Len(frames) /\ product'.frames = frames
      BY <2>1 DEF Bundle
    <2>3. Len(frames) > 0
      BY <2>1 DEF TypeOK
    <2> QED
      BY <2>2, <2>3 DEF BundleWhole, FlowInv, Consecutive
  <1>2. CASE UNCHANGED product
    BY <1>2 DEF BundleWhole, Consecutive
  <1> QED
    BY <1>1, <1>2, Quiet DEF Refuse, Begin, WriteResult

\* No other step ends a process with exit code 0.
LEMMA OnlyReportSucceeds ==
    ASSUME ExitInv, Next, exit' = "ok"
    PROVE  Report
  <1>1. ~ (Refuse \/ Begin)
    BY DEF Refuse, Begin
  <1>2. \/ Report
        \/ exit' # "ok"
        \/ main # "down" /\ UNCHANGED exit
    BY <1>1, Cases
       DEF ExitInv, LaunchOk, LaunchFails, Stream, PushFrame, UpstreamFails,
           SourceReportsError, SourceEnds, EosArrives, Streaming, Pull, PullFrame,
           PullAboveLimit, PullUnreadable, PullNothing, SampleReady, Check, CheckNothing,
           CheckError, CheckEos, CheckTimeout, Pop, DeadlinePasses, ProvenanceFails,
           Cleanup, Bundling, NoFrames, WriteBundle, WriteBundleFails, PublishBundle,
           HashBundle, PublishFails, WritePlan, WriteResult, Outcome, WriteFails, Kill
  <1> QED
    BY <1>2 DEF ExitInv

LEMMA ResultStep ==
    ASSUME TypeOK, BundleInv, ExitInv, ResultNamesItsBundle, Next
    PROVE  ResultNamesItsBundle'
  <1>1. /\ result_json'.attempt <= product'.attempt
        /\ result_json'.attempt = product'.attempt =>
            /\ result_json'.named = product'
            /\ result_json'.frame_count = product'.frame_count
    <2>0. /\ product.attempt \in Nat /\ attempt \in Nat /\ result_json.attempt \in Nat
      BY DEF TypeOK, Bundles, Results
    <2>1. CASE PublishBundle
      <3>1. product'.attempt = attempt /\ product.attempt < attempt
        BY <2>1 DEF PublishBundle, BundleInv, Bundle, Unbundled
      <3>2. result_json' = result_json
        BY <2>1 DEF PublishBundle
      <3> QED
        BY <2>0, <3>1, <3>2 DEF ResultNamesItsBundle
    <2>2. CASE WriteResult
      <3>1. /\ product = Bundle(attempt, Len(frames), frames)
            /\ product' = product /\ digest = product
            /\ result_json' = [attempt |-> attempt, frame_count |-> Len(frames),
                               named |-> digest]
        BY <2>2 DEF WriteResult, BundleInv, Bundled
      <3>2. product.attempt = attempt /\ product.frame_count = Len(frames)
        BY <3>1 DEF Bundle
      <3> QED
        BY <2>0, <3>1, <3>2
    <2>3. CASE UNCHANGED <<product, result_json>>
      BY <2>3 DEF ResultNamesItsBundle
    <2> QED
      BY <2>1, <2>2, <2>3, Quiet DEF Refuse, Begin
  <1>2. exit' = "ok" => result_json'.attempt = attempt'
    BY OnlyReportSucceeds DEF Report, BundleInv
  <1> QED
    BY <1>1, <1>2 DEF ResultNamesItsBundle

\* The exit codes that FailureKeepsEarlierProduct speaks of come from Refuse, an
\* exception of the pipeline, and NoFrames: all before the rename.
LEMMA FailureStep ==
    ASSUME ExitInv, FailureKeepsEarlierProduct, Next
    PROVE  FailureKeepsEarlierProduct'
  <1> USE DEF FailureKeepsEarlierProduct, ExitCodes
  <1>1. CASE Refuse \/ Begin
    BY <1>1 DEF Refuse, Begin
  <1>2. CASE LaunchOk \/ LaunchFails
    BY <1>2 DEF LaunchOk, LaunchFails
  <1>3. CASE Stream
    BY <1>3 DEF Stream, PushFrame, UpstreamFails, SourceReportsError, SourceEnds,
                EosArrives, Streaming
  <1>4. CASE Pull
    BY <1>4 DEF Pull, PullFrame, PullAboveLimit, PullUnreadable, PullNothing, SampleReady
  <1>5. CASE Check \/ DeadlinePasses
    BY <1>5 DEF Check, CheckNothing, CheckError, CheckEos, CheckTimeout, DeadlinePasses, Pop
  <1>6. CASE ProvenanceFails \/ Cleanup
    BY <1>6 DEF ProvenanceFails, Cleanup, ExitInv, Unbundled
  <1>7. CASE Bundling
    BY <1>7 DEF Bundling, NoFrames, WriteBundle, WriteBundleFails, PublishBundle,
                HashBundle, PublishFails, ExitInv, Unbundled
  <1>8. CASE WritePlan \/ WriteResult
    BY <1>8 DEF WritePlan, WriteResult
  <1>9. CASE Outcome
    BY <1>9 DEF Outcome, WriteFails, Report, Kill
  <1> QED
    BY <1>1, <1>2, <1>3, <1>4, <1>5, <1>6, <1>7, <1>8, <1>9, Cases

LEMMA OkStep ==
    ASSUME FlowInv, BusInv, BundleInv, ExitInv, Next
    PROVE  OkLosesOnlyTheQueue'
  <1> SUFFICES ASSUME exit' = "ok" PROVE OkLosesOnlyTheQueue'
    BY DEF OkLosesOnlyTheQueue
  <1>1. /\ main = "reporting"
        /\ UNCHANGED <<product, sent, flow_ok>>
    BY OnlyReportSucceeds DEF Report
  <1>2. product = Bundle(attempt, Len(frames), frames)
    BY <1>1 DEF BundleInv, Bundled
  <1>3. product.frame_count = Len(frames)
    BY <1>2 DEF Bundle
  <1>4. flow_ok /\ Len(frames) <= sent /\ sent - Len(frames) <= max_buffers
    BY <1>1 DEF FlowInv, BusInv, Completed, Bundled
  <1> QED
    BY <1>1, <1>3, <1>4 DEF OkLosesOnlyTheQueue
-----------------------------------------------------------------------------
(* Theorems *)

LEMMA Unchanged ==
    ASSUME IInv, UNCHANGED vars
    PROVE  IInv'
  BY DEF vars, IInv, TypeOK, FlowInv, BusInv, BundleInv, ExitInv, BundleWhole,
         ResultNamesItsBundle, FailureKeepsEarlierProduct, OkLosesOnlyTheQueue, Consecutive

LEMMA Invariance == Spec => []IInv
  <1>1. IInv /\ [Next]_vars => IInv'
    BY Unchanged, TypeStep, FlowStep, BusStep, BundleStep, ExitStep, WholeStep, ResultStep,
       FailureStep, OkStep
       DEF IInv
  <1> QED
    BY Beginning, <1>1, PTL DEF Spec

\* The types, and the limits of the appsink's queue and of the collected frames.
THEOREM FramesTypeCorrect == Spec => []TypeOK
  <1>1. IInv => TypeOK
    BY DEF IInv
  <1> QED
    BY Invariance, <1>1, PTL

\* product.bin is whole at every moment (write_product(), publish_partial_file()).
THEOREM BundleWholeCorrect == Spec => []BundleWhole
  <1>1. IInv => BundleWhole
    BY DEF IInv
  <1> QED
    BY Invariance, <1>1, PTL

\* result.json is behind product.bin or names it (run(), the order of its writes).
THEOREM ResultNamesItsBundleCorrect == Spec => []ResultNamesItsBundle
  <1>1. IInv => ResultNamesItsBundle
    BY DEF IInv
  <1> QED
    BY Invariance, <1>1, PTL

\* A failed run keeps the earlier product (run_pipeline() before write_product()).
THEOREM FailureKeepsCorrect == Spec => []FailureKeepsEarlierProduct
  <1>1. IInv => FailureKeepsEarlierProduct
    BY DEF IInv
  <1> QED
    BY Invariance, <1>1, PTL

\* A run that succeeds misses no more frames than the appsink's queue holds.
THEOREM LossBounded == Spec => []OkLosesOnlyTheQueue
  <1>1. IInv => OkLosesOnlyTheQueue
    BY DEF IInv
  <1> QED
    BY Invariance, <1>1, PTL
-----------------------------------------------------------------------------
(* While a process runs somebody can go on *)

Looping == main \in {"pulling", "checking"}

\* Nothing the main thread could find in a round of its loop.
NothingNew == queue = <<>> /\ bus = <<>> /\ ~late

\* A step of a round that finds nothing.
EmptyRound ==
    /\ Looping /\ NothingNew
    /\ main' \in {"pulling", "checking"}
    /\ UNCHANGED <<verdict, exit, attempt, late, sourceVars, channelVars, frames,
                   bundleVars, jsonVars, before>>

\* Whatever the streaming thread does then is a step of the specification.
StreamCanGoOn == Streaming /\ source \in {"pushing", "failing", "eos"}

\* The main thread never has to wait, but its rounds may be empty.
SomebodyCanGoOn == Looping /\ NothingNew => StreamCanGoOn

\* Where the source stands while the loop runs: it was started, and behind EOS
\* there is a message.
EndInv ==
    /\ sent <= SourceFrames
    /\ Looping => source # "idle" /\ (source = "ended" => bus # <<>>)

\* Only an empty bus has no message.
LEMMA NothingOnBus ==
    ASSUME bus \in Seq(Messages), Message = "none"
    PROVE  bus = <<>>
  BY Popped DEF Message, Messages

LEMMA EndStep ==
    ASSUME IInv, EndInv, [Next]_vars
    PROVE  EndInv'
  <1>0. sent \in Nat /\ BusInv /\ TypeOK
    BY DEF IInv, TypeOK
  <1> USE DEF EndInv, Looping
  <1>1. CASE Refuse \/ Begin
    BY <1>1 DEF Refuse, Begin
  <1>2. CASE LaunchOk \/ LaunchFails
    BY <1>2 DEF LaunchOk, LaunchFails
  <1>3. CASE Stream
    <2>1. CASE PushFrame \/ SourceEnds
      BY <1>0, <2>1 DEF PushFrame, SourceEnds
    <2>2. CASE UpstreamFails \/ SourceReportsError
      BY <2>2 DEF UpstreamFails, SourceReportsError
    <2>3. CASE EosArrives
      <3>1. bus \in Seq(Messages) /\ "eos" \in Messages
        BY <1>0 DEF TypeOK, Messages
      <3>2. Append(bus, "eos") # <<>>
        BY <3>1, Appended
      <3> QED
        BY <2>3, <3>2 DEF EosArrives
    <2> QED
      BY <1>3, <2>1, <2>2, <2>3 DEF Stream
  <1>4. CASE Pull
    BY <1>4 DEF Pull, SampleReady, PullFrame, PullAboveLimit, PullUnreadable, PullNothing
  <1>5. CASE Check \/ DeadlinePasses
    <2>1. CASE CheckNothing
      <3>1. bus = <<>>
        BY <1>0, <2>1, NothingOnBus DEF CheckNothing, TypeOK
      <3>2. main = "checking" /\ main' = "pulling" /\ UNCHANGED <<source, sent>>
            /\ bus' = bus
        BY <2>1, <3>1 DEF CheckNothing, Pop
      <3> QED
        BY <3>1, <3>2
    <2>2. CASE CheckError \/ CheckEos \/ CheckTimeout
      BY <2>2 DEF CheckError, CheckEos, CheckTimeout, Pop
    <2>3. CASE DeadlinePasses
      BY <2>3 DEF DeadlinePasses
    <2> QED
      BY <1>5, <2>1, <2>2, <2>3 DEF Check
  <1>6. CASE ProvenanceFails \/ Cleanup
    BY <1>6 DEF ProvenanceFails, Cleanup
  <1>7. CASE Bundling
    BY <1>7 DEF Bundling, NoFrames, WriteBundle, WriteBundleFails, PublishBundle,
                HashBundle, PublishFails
  <1>8. CASE WritePlan \/ WriteResult \/ Outcome
    BY <1>8 DEF WritePlan, WriteResult, Outcome, WriteFails, Report, Kill
  <1>9. CASE UNCHANGED vars
    BY <1>9 DEF vars
  <1> QED
    BY <1>1, <1>2, <1>3, <1>4, <1>5, <1>6, <1>7, <1>8, <1>9, Cases

LEMMA EndInvariant == Spec => [](IInv /\ EndInv)
  <1>1. Init => EndInv
    BY DEF Init, EndInv, Looping
  <1> QED
    BY <1>1, Invariance, EndStep, PTL DEF Spec

\* In a loop that finds nothing the streaming thread has something to do.
LEMMA SomebodyOf == IInv /\ EndInv => SomebodyCanGoOn
  BY DEF IInv, TypeOK, EndInv, SomebodyCanGoOn, NothingNew, StreamCanGoOn, Streaming,
         Looping
-----------------------------------------------------------------------------
(* How much of a process is left *)

\* The steps that each part of a process has before it at most.
MainLeft ==
    CASE main = "launch" -> 10
      [] Looping -> 9
      [] main = "finishing" -> 8
      [] main = "unwinding" -> 7
      [] main = "bundling" -> 6
      [] main = "publishing" -> 5
      [] main = "hashing" -> 4
      [] main = "planning" -> 3
      [] main = "resulting" -> 2
      [] main = "reporting" -> 1
      [] OTHER -> 0

SourceLeft ==
    CASE source = "idle" -> 4
      [] source = "pushing" -> 3
      [] source = "failing" -> 2
      [] source = "eos" -> 1
      [] OTHER -> 0

\* A frame is pushed and then pulled.
FramesLeft == 2 * (SourceFrames - sent) + Len(queue)

LateLeft == IF late THEN 0 ELSE 1

Work == MainLeft + SourceLeft + FramesLeft + LateLeft

\* The main thread looks in the wrong place first: at the queue when there is
\* only a message, or at the bus when there is only a sample.
Detour ==
    IF \/ main = "pulling" /\ queue = <<>> /\ ~NothingNew
       \/ main = "checking" /\ bus = <<>> /\ queue # <<>>
    THEN 1 ELSE 0

Left == 2 * Work + Detour

StepsRunOut == main # "down" => Left \in Nat /\ (Left' < Left \/ EmptyRound)

\* What is left of each part, in numbers.
LEMMA PartsAre ==
    ASSUME IInv, EndInv, main # "down"
    PROVE  /\ MainLeft \in 1 .. 10 /\ SourceLeft \in 0 .. 4 /\ FramesLeft \in Nat
           /\ Work \in Nat
  <1>1. main \in Stages /\ sent \in Nat /\ Len(queue) \in Nat
    BY DEF IInv, TypeOK
  <1>2. MainLeft \in 1 .. 10
    BY <1>1 DEF MainLeft, Looping, Stages
  <1>3. SourceLeft \in 0 .. 4
    BY DEF SourceLeft
  <1>4. FramesLeft \in Nat
    BY <1>1 DEF FramesLeft, EndInv
  <1>5. LateLeft \in 0 .. 1
    BY DEF LateLeft
  <1> QED
    BY <1>2, <1>3, <1>4, <1>5 DEF Work

\* If no part grows and one shrinks, less is left.
LEMMA Less ==
    ASSUME MainLeft \in Nat, SourceLeft \in Nat, FramesLeft \in Nat,
           MainLeft' \in Int, SourceLeft' \in Int, FramesLeft' \in Int,
           MainLeft' <= MainLeft, SourceLeft' <= SourceLeft, FramesLeft' <= FramesLeft,
           LateLeft' <= LateLeft,
           \/ MainLeft' < MainLeft \/ SourceLeft' < SourceLeft \/ FramesLeft' < FramesLeft
           \/ LateLeft' < LateLeft
    PROVE  Left' < Left
  <1> DEFINE w == Work
             v == Work'
             d == Detour
             e == Detour'
  <1>0. LateLeft \in 0 .. 1 /\ LateLeft' \in 0 .. 1
    BY DEF LateLeft
  <1>1. w \in Nat /\ v \in Int /\ v < w
    <2> DEFINE a == MainLeft
               b == SourceLeft
               c == FramesLeft
               g == LateLeft
               p == MainLeft'
               q == SourceLeft'
               r == FramesLeft'
               s == LateLeft'
    <2>1. w = a + b + c + g /\ v = p + q + r + s
      BY DEF Work
    <2>2. /\ a \in Nat /\ b \in Nat /\ c \in Nat /\ g \in Nat
          /\ p \in Int /\ q \in Int /\ r \in Int /\ s \in Int
          /\ p <= a /\ q <= b /\ r <= c /\ s <= g
          /\ p < a \/ q < b \/ r < c \/ s < g
      BY <1>0
    <2> HIDE DEF a, b, c, g, p, q, r, s, w, v
    <2> QED
      BY <2>1, <2>2
  <1>2. d \in 0 .. 1 /\ e \in 0 .. 1
    BY DEF Detour
  <1>3. Left = 2 * w + d /\ Left' = 2 * v + e
    BY DEF Left
  <1> HIDE DEF w, v, d, e
  <1> QED
    BY <1>1, <1>2, <1>3

\* Every step of a process is one of those that are left, or an empty round.
LEMMA LeftStep ==
    ASSUME IInv, EndInv, Next
    PROVE  StepsRunOut
  <1> SUFFICES ASSUME main # "down"
               PROVE  Left \in Nat /\ (Left' < Left \/ EmptyRound)
    BY DEF StepsRunOut
  <1>1. /\ MainLeft \in 1 .. 10 /\ SourceLeft \in 0 .. 4 /\ FramesLeft \in Nat
        /\ Work \in Nat
    BY PartsAre
  <1>2. Left \in Nat
    BY <1>1 DEF Left, Detour
  <1>3. /\ main \in Stages /\ source \in {"idle", "pushing", "failing", "eos", "ended"}
        /\ sent \in Nat /\ late \in BOOLEAN
        /\ queue \in Seq(Nat) /\ bus \in Seq(Messages) /\ Len(queue) \in Nat
    BY DEF IInv, TypeOK
  <1>4. TypeOK'
    BY TypeStep DEF IInv
  <1>5. /\ MainLeft' \in Int /\ SourceLeft' \in Int /\ FramesLeft' \in Int
        /\ sent' \in Nat /\ Len(queue') \in Nat
        /\ LateLeft \in 0 .. 1 /\ LateLeft' \in 0 .. 1 /\ (late' = late => LateLeft' = LateLeft)
    BY <1>4 DEF TypeOK, MainLeft, SourceLeft, FramesLeft, LateLeft
  <1>6. ASSUME MainLeft' < MainLeft, SourceLeft' <= SourceLeft, sent' = sent,
               Len(queue') <= Len(queue), late' = late
        PROVE  Left' < Left
    BY <1>1, <1>3, <1>5, <1>6, Less DEF FramesLeft
  <1>7. CASE LaunchOk \/ LaunchFails
    <2>1. MainLeft' < MainLeft
      BY <1>7 DEF LaunchOk, LaunchFails, MainLeft, Looping
    <2>3. source = "idle" /\ source' \in {"idle", "pushing"}
      BY <1>7 DEF LaunchOk, LaunchFails, IInv, BusInv
    <2>4. SourceLeft' <= SourceLeft
      BY <2>3 DEF SourceLeft
    <2>2. sent' = sent /\ queue' = queue /\ late' = late
      BY <1>7 DEF LaunchOk, LaunchFails, channelVars
    <2> QED
      BY <1>2, <1>3, <1>6, <2>1, <2>2, <2>4
  <1>8. CASE Stream
    <2>1. MainLeft' = MainLeft /\ late' = late
      BY <1>8 DEF Stream, PushFrame, UpstreamFails, SourceReportsError, SourceEnds,
                  EosArrives, MainLeft, Looping
    <2>2. CASE PushFrame
      <3>1. SourceLeft' = SourceLeft /\ sent' = sent + 1 /\ Len(queue') = Len(queue) + 1
        BY <1>3, <2>2, Appended DEF PushFrame, SourceLeft
      <3>2. FramesLeft' < FramesLeft
        BY <1>3, <3>1 DEF FramesLeft
      <3> QED
        BY <1>1, <1>2, <1>3, <1>5, <2>1, <3>1, <3>2, Less
    <2>3. CASE ~PushFrame
      <3>1. SourceLeft' < SourceLeft /\ sent' = sent /\ queue' = queue
        BY <1>8, <2>3 DEF Stream, UpstreamFails, SourceReportsError, SourceEnds, EosArrives,
                          SourceLeft
      <3>2. FramesLeft' = FramesLeft
        BY <3>1 DEF FramesLeft
      <3> QED
        BY <1>1, <1>2, <1>3, <1>5, <2>1, <3>1, <3>2, Less
    <2> QED
      BY <2>2, <2>3
  <1>9. CASE Pull
    <2>1. SourceLeft' = SourceLeft /\ sent' = sent /\ late' = late /\ main = "pulling"
      BY <1>9 DEF Pull, SampleReady, PullFrame, PullAboveLimit, PullUnreadable, PullNothing,
                  SourceLeft
    <2>2. CASE queue # <<>>
      <3>1. queue' = Tail(queue) /\ main' \in {"pulling", "unwinding"}
        BY <1>9, <2>2 DEF Pull, SampleReady, PullFrame, PullAboveLimit, PullUnreadable,
                          PullNothing
      <3>2. Len(queue') = Len(queue) - 1
        BY <1>3, <2>2, <3>1, Popped
      <3>3. MainLeft' <= MainLeft
        BY <2>1, <3>1 DEF MainLeft, Looping
      <3>4. FramesLeft' < FramesLeft
        BY <1>3, <2>1, <3>2 DEF FramesLeft
      <3> QED
        BY <1>1, <1>2, <1>3, <1>5, <2>1, <3>3, <3>4, Less
    <2>3. CASE queue = <<>>
      <3>1. PullNothing
        BY <1>9, <2>3 DEF Pull, SampleReady, PullFrame, PullAboveLimit, PullUnreadable
      <3>2. CASE NothingNew
        BY <1>2, <3>1, <3>2 DEF PullNothing, EmptyRound, Looping
      <3>3. CASE ~NothingNew
        <4>1. Work' = Work
          BY <3>1 DEF PullNothing, Work, MainLeft, SourceLeft, FramesLeft, LateLeft, Looping
        <4>2. Detour = 1 /\ Detour' = 0
          BY <2>3, <3>1, <3>3 DEF PullNothing, Detour
        <4> QED
          BY <1>1, <1>2, <4>1, <4>2 DEF Left
      <3> QED
        BY <3>2, <3>3
    <2> QED
      BY <2>2, <2>3
  <1>10. CASE CheckNothing
    <2>1. bus = <<>> /\ main = "checking" /\ ~late
      BY <1>3, <1>10, NothingOnBus DEF CheckNothing, Pop
    <2>2. bus' = bus /\ main' = "pulling"
          /\ UNCHANGED <<verdict, exit, attempt, late, source, sent, flow_ok, queue, frames,
                         product_partial, product, digest, plan_json, result_json, before>>
      BY <1>10, <2>1 DEF CheckNothing, Pop
    <2>3. CASE queue = <<>>
      BY <1>2, <2>1, <2>2, <2>3 DEF EmptyRound, Looping, NothingNew, channelVars
    <2>4. CASE queue # <<>>
      <3>1. Work' = Work
        BY <2>1, <2>2 DEF Work, MainLeft, SourceLeft, FramesLeft, LateLeft, Looping
      <3>2. Detour = 1 /\ Detour' = 0
        BY <2>1, <2>2, <2>4 DEF Detour
      <3> QED
        BY <1>1, <1>2, <3>1, <3>2 DEF Left
    <2> QED
      BY <2>3, <2>4
  <1>11. CASE CheckError \/ CheckEos \/ CheckTimeout
    <2>1. main = "checking" /\ main' \in {"unwinding", "finishing"}
          /\ UNCHANGED <<source, sent, queue, late>>
      BY <1>11 DEF CheckError, CheckEos, CheckTimeout, Pop
    <2>2. MainLeft' < MainLeft /\ SourceLeft' = SourceLeft
      BY <2>1 DEF MainLeft, SourceLeft, Looping
    <2> QED
      BY <1>1, <1>2, <1>3, <1>6, <2>1, <2>2
  <1>12. CASE DeadlinePasses
    <2>1. MainLeft' = MainLeft /\ SourceLeft' = SourceLeft /\ FramesLeft' = FramesLeft
      BY <1>12 DEF DeadlinePasses, MainLeft, SourceLeft, FramesLeft, Looping
    <2>2. LateLeft' < LateLeft
      BY <1>12 DEF DeadlinePasses, LateLeft
    <2> QED
      BY <1>1, <1>2, <1>5, <2>1, <2>2, Less
  <1>13. CASE ProvenanceFails \/ Cleanup
    <2>1. MainLeft' < MainLeft /\ sent' = sent /\ late' = late
      BY <1>13 DEF ProvenanceFails, Cleanup, MainLeft, Looping
    <2>2. SourceLeft' <= SourceLeft
      BY <1>1, <1>13 DEF ProvenanceFails, Cleanup, SourceLeft
    <2>3. Len(queue') <= Len(queue)
      <3>1. queue' = queue \/ queue' = <<>>
        BY <1>13, Zenon DEF ProvenanceFails, Cleanup
      <3> QED
        BY <1>3, <3>1
    <2> QED
      BY <1>2, <1>6, <2>1, <2>2, <2>3
  <1>14. CASE Bundling
    <2>1. MainLeft' < MainLeft
      BY <1>14 DEF Bundling, NoFrames, WriteBundle, WriteBundleFails, PublishBundle,
                   HashBundle, PublishFails, MainLeft, Looping
    <2>2. UNCHANGED <<source, sent, queue, late>>
      BY <1>14 DEF Bundling, NoFrames, WriteBundle, WriteBundleFails, PublishBundle,
                   HashBundle, PublishFails, channelVars
    <2> QED
      BY <1>1, <1>2, <1>3, <1>6, <2>1, <2>2 DEF SourceLeft
  <1>15. CASE WritePlan \/ WriteResult \/ Outcome
    <2>1. MainLeft' < MainLeft
      <3>1. CASE WritePlan \/ WriteResult
        BY <3>1 DEF WritePlan, WriteResult, MainLeft, Looping
      <3>2. CASE Outcome
        BY <1>1, <3>2 DEF Outcome, WriteFails, Report, Kill, MainLeft, Looping
      <3> QED
        BY <1>15, <3>1, <3>2
    <2>2. UNCHANGED <<source, sent, queue, late>>
      BY <1>15 DEF WritePlan, WriteResult, Outcome, WriteFails, Report, Kill, channelVars
    <2> QED
      BY <1>1, <1>2, <1>3, <1>6, <2>1, <2>2 DEF SourceLeft
  <1>16. ~Refuse /\ ~Begin
    BY DEF Refuse, Begin
  <1> QED
    BY <1>2, <1>7, <1>8, <1>9, <1>10, <1>11, <1>12, <1>13, <1>14, <1>15, <1>16, Cases
    DEF Check

\* A round that finds nothing new is one in which the streaming thread can go on:
\* no process polls for a message that nobody will post (run_pipeline()).
THEOREM FramesSomebodyRuns == Spec => []SomebodyCanGoOn
  BY SomebodyOf, EndInvariant, PTL

\* Every step of a process, whatever fails, takes a piece of what is left of it;
\* only rounds that find nothing new do not (run_pipeline(), run()).
THEOREM FramesStepsRunOut == Spec => [][StepsRunOut]_vars
  <1>1. IInv /\ EndInv /\ [Next]_vars => [StepsRunOut]_vars
    BY LeftStep
  <1> QED
    BY <1>1, EndInvariant, PTL DEF Spec

=============================================================================
