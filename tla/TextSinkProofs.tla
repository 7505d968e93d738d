---------------------------- MODULE TextSinkProofs ----------------------------
(***************************************************************************)
(* SinkInv is an inductive invariant of the text sink, for every category  *)
(* map and every set of frames; on top of it so are RecordsInv, about what *)
(* is recorded, and CropsInv, about the crops beside it.  There is one     *)
(* lemma per handler of the element; ProductTextRunProofs cites them       *)
(* again, because a run of the CLI moves the sink by the same actions.     *)
(***************************************************************************)
EXTENDS TextSink, TLAPS

\* What render() may assume of a frame's targets.
LEMMA FrameTyped ==
    ASSUME NEW f \in Frames
    PROVE  /\ f.frame_id \in Nat
           /\ f.targets \in Seq(Targets)
           /\ \A i \in DOMAIN f.targets : f.targets[i].class \in Nat
  BY SinkAssumption DEF Frame, Target

\* Writing a line keeps a file's type, and adds exactly that line.
LEMMA WriteTyped ==
    ASSUME NEW Lines, NEW file \in FileOf(Lines), NEW line \in Lines
    PROVE  /\ Write(file, line) \in FileOf(Lines)
           /\ Write(file, line).exists = file.exists
           /\ Write(file, line).lines = Append(file.lines, line)
  BY DEF Write, FileOf

\* The two lines of a frame are lines of the two files.
LEMMA LinesTyped ==
    ASSUME NEW f \in Frames
    PROVE  /\ RoleLine(f) \in RoleLines
           /\ MetaLine(f) \in MetaLines
  <1>1. f.frame_id \in Nat /\ f.targets \in Seq(Targets)
    BY FrameTyped
  <1>2. Len(f.targets) \in Nat
    BY <1>1
  <1> QED
    BY <1>1, <1>2 DEF RoleLine, MetaLine, RoleLines, MetaLines

\* Two files about frames 0 .. n-1 that both take the line of frame n are two
\* files about frames 0 .. n.
LEMMA PairedExtends ==
    ASSUME NEW role \in FileOf(RoleLines), NEW meta \in FileOf(MetaLines),
           NEW n \in Nat, NEW f \in Frames, f.frame_id = n,
           Paired(role, meta, n)
    PROVE  Paired(Write(role, RoleLine(f)), Write(meta, MetaLine(f)), n + 1)
  <1> DEFINE r == Write(role, RoleLine(f))
             m == Write(meta, MetaLine(f))
  <1>1. RoleLine(f) \in RoleLines /\ MetaLine(f) \in MetaLines
    BY LinesTyped
  <1>2. /\ r.exists = role.exists /\ r.lines = Append(role.lines, RoleLine(f))
        /\ m.exists = meta.exists /\ m.lines = Append(meta.lines, MetaLine(f))
    BY <1>1, WriteTyped
  <1>3. role.lines \in Seq(RoleLines) /\ meta.lines \in Seq(MetaLines)
    BY DEF FileOf
  <1>4. /\ role.exists /\ meta.exists
        /\ Len(role.lines) = n /\ Len(meta.lines) = n
        /\ \A i \in 1 .. n :
            /\ role.lines[i].frame_id = i - 1
            /\ meta.lines[i] = [frame_id |-> i - 1,
                                target_count |-> Len(role.lines[i].items)]
    BY DEF Paired
  <1>5. r.exists /\ m.exists /\ Len(r.lines) = n + 1 /\ Len(m.lines) = n + 1
    BY <1>1, <1>2, <1>3, <1>4
  <1>6. ASSUME NEW i \in 1 .. (n + 1)
        PROVE  /\ r.lines[i].frame_id = i - 1
               /\ m.lines[i] = [frame_id |-> i - 1,
                                target_count |-> Len(r.lines[i].items)]
    <2>1. CASE i = n + 1
      <3>1. r.lines[i] = RoleLine(f) /\ m.lines[i] = MetaLine(f)
        BY <1>1, <1>2, <1>3, <1>4, <2>1
      <3> QED
        BY <3>1, <2>1 DEF RoleLine, MetaLine
    <2>2. CASE i \in 1 .. n
      <3>1. r.lines[i] = role.lines[i] /\ m.lines[i] = meta.lines[i]
        BY <1>1, <1>2, <1>3, <1>4, <2>2
      <3> QED
        BY <3>1, <2>2, <1>4
    <2> QED
      BY <2>1, <2>2
  <1> QED
    BY <1>5, <1>6 DEF Paired

\* The crops of a frame's targets have well-formed names.
LEMMA CropsTyped ==
    ASSUME NEW f \in Frames, NEW indices, indices \subseteq DOMAIN f.targets
    PROVE  CropsOf(f, indices) \subseteq Nat \X Nat \X Nat
  <1>1. /\ f.frame_id \in Nat
        /\ \A i \in indices : i \in Nat /\ f.targets[i].class \in Nat
    BY FrameTyped
  <1> QED
    BY <1>1 DEF CropsOf

\* Posting a message keeps the bus a sequence of messages.
LEMMA PostTyped ==
    ASSUME bus \in Seq(Messages), NEW message \in Messages, Post(message)
    PROVE  bus' \in Seq(Messages)
  BY DEF Post
-----------------------------------------------------------------------------
(* start() *)

\* A started sink is open over two empty partials.
LEMMA StartOkInv ==
    ASSUME SinkInv, StartOk
    PROVE  SinkInv'
  <1> USE DEF counters, finals
  <1>1. File(<<>>) \in FileOf(RoleLines) /\ File(<<>>) \in FileOf(MetaLines)
    BY DEF File, FileOf
  <1>2. TypeOK'
    BY <1>1 DEF SinkInv, TypeOK, StartOk, Phases
  <1>3. Paired(role_partial, meta_partial, frame_count)'
    BY DEF StartOk, Paired, File
  <1> QED
    BY <1>2, <1>3 DEF SinkInv, StartOk, FinalsAbsent

\* A sink that did not start has no final file.
LEMMA StartFailInv ==
    ASSUME SinkInv, StartFail
    PROVE  SinkInv'
  <1> USE DEF finals
  <1>1. File(<<>>) \in FileOf(RoleLines) /\ File(<<>>) \in FileOf(MetaLines)
    BY DEF File, FileOf
  <1>2. bus' \in Seq(Messages)
    BY PostTyped DEF SinkInv, TypeOK, StartFail, Messages
  <1>3. TypeOK'
    BY <1>1, <1>2 DEF SinkInv, TypeOK, StartFail, Phases
  <1> QED
    BY <1>3 DEF SinkInv, StartFail, FinalsAbsent
-----------------------------------------------------------------------------
(* render() *)

\* An accepted frame extends both partials by the frame expected next.
LEMMA RenderAcceptInv ==
    ASSUME SinkInv, NEW f \in Frames, RenderAccept(f)
    PROVE  SinkInv'
  <1> USE DEF finals
  <1>1. /\ role_partial' = Write(role_partial, RoleLine(f))
        /\ meta_partial' = Write(meta_partial, MetaLine(f))
        /\ role_partial' \in FileOf(RoleLines)
        /\ meta_partial' \in FileOf(MetaLines)
    BY LinesTyped, WriteTyped DEF RenderAccept, SinkInv, TypeOK
  <1>2. crops' \subseteq Nat \X Nat \X Nat
    BY CropsTyped DEF RenderAccept, SinkInv, TypeOK
  <1>3. TypeOK'
    BY <1>1, <1>2 DEF RenderAccept, SinkInv, TypeOK
  <1>4. ~failed => Paired(role_partial, meta_partial, frame_count)'
    <2>1. SUFFICES ASSUME ~failed
                   PROVE  Paired(role_partial, meta_partial, frame_count)'
      OBVIOUS
    <2>2. /\ f.frame_id = frame_count
          /\ Paired(role_partial, meta_partial, frame_count)
      BY <2>1 DEF RenderAccept, SinkInv, Acceptable, HeaderFits
    <2>3. Paired(Write(role_partial, RoleLine(f)), Write(meta_partial, MetaLine(f)),
                 frame_count + 1)
      BY <2>2, PairedExtends DEF SinkInv, TypeOK
    <2> QED
      BY <1>1, <2>3 DEF RenderAccept
  <1> QED
    BY <1>3, <1>4 DEF RenderAccept, SinkInv, FinalsAbsent

\* What the three error paths of render() have in common.
LEMMA FailedFrameInv ==
    ASSUME SinkInv, NEW f \in Frames, phase = "open", failed' = TRUE,
           Post("stream"),
           NEW indices, indices \subseteq DOMAIN f.targets,
           crops' = crops \cup CropsOf(f, indices),
           role_partial' \in FileOf(RoleLines), meta_partial' \in FileOf(MetaLines),
           UNCHANGED <<phase, counters, published, finals>>
    PROVE  SinkInv'
  <1> USE DEF counters, finals
  <1>1. bus' \in Seq(Messages)
    BY PostTyped DEF SinkInv, TypeOK, Messages
  <1>2. crops' \subseteq Nat \X Nat \X Nat
    BY CropsTyped DEF SinkInv, TypeOK
  <1>3. TypeOK'
    BY <1>1, <1>2 DEF SinkInv, TypeOK
  <1> QED
    BY <1>3 DEF SinkInv, FinalsAbsent

\* A frame that is refused, or that cannot be written, disables publication.
LEMMA RenderErrorInv ==
    ASSUME SinkInv, NEW f \in Frames, RenderError(f)
    PROVE  SinkInv'
  <1>1. role_partial \in FileOf(RoleLines) /\ meta_partial \in FileOf(MetaLines)
    BY DEF SinkInv, TypeOK
  <1>2. CASE RenderRefuse(f)
    <2>1. Passed(f) \subseteq DOMAIN f.targets
      BY DEF Passed
    <2> QED
      BY <1>1, <1>2, <2>1, FailedFrameInv DEF RenderRefuse, partials
  <1>3. CASE CropError(f)
    <2>1. PICK n \in {0} \cup Passed(f) : crops' = crops \cup CropsOf(f, 1 .. n)
      BY <1>3 DEF CropError
    <2>2. n = 0 \/ n \in DOMAIN f.targets
      BY DEF Passed
    <2>3. f.targets \in Seq(Targets)
      BY FrameTyped
    <2>4. 1 .. n \subseteq DOMAIN f.targets
      BY <2>2, <2>3
    <2> QED
      BY <1>1, <1>3, <2>1, <2>4, FailedFrameInv DEF CropError, partials
  <1>4. CASE WriteError(f)
    <2>1. role_partial' \in FileOf(RoleLines) /\ meta_partial' \in FileOf(MetaLines)
      BY <1>1, <1>4, LinesTyped, WriteTyped DEF WriteError, partials
    <2> QED
      BY <1>4, <2>1, FailedFrameInv DEF WriteError
  <1> QED
    BY <1>2, <1>3, <1>4 DEF RenderError
-----------------------------------------------------------------------------
(* event(EOS) and publish() *)

\* Removing both partials keeps them files.
LEMMA DiscardTyped ==
    ASSUME Discard
    PROVE  /\ role_partial' \in FileOf(RoleLines) /\ ~role_partial'.exists
           /\ meta_partial' \in FileOf(MetaLines) /\ ~meta_partial'.exists
  BY DEF Discard, Absent, FileOf

\* EOS publishes nothing by itself: it refuses, settles for no product, or
\* starts publication over a paired pair of partials.
LEMMA EosInv ==
    ASSUME SinkInv, Eos
    PROVE  SinkInv'
  <1> USE DEF counters, partials, finals
  <1>1. CASE EosAfterFailure
    <2>1. TypeOK'
      BY <1>1 DEF EosAfterFailure, SinkInv, TypeOK, Phases
    <2> QED
      BY <1>1, <2>1 DEF EosAfterFailure, SinkInv, FinalsAbsent
  <1>2. CASE EosWithoutFrames
    <2>1. TypeOK'
      BY <1>2, DiscardTyped DEF EosWithoutFrames, SinkInv, TypeOK, Phases
    <2>2. ~published /\ ~published' /\ ~(frame_count > 0)'
      BY <1>2 DEF EosWithoutFrames, SinkInv
    <2> QED
      BY <1>2, <2>1, <2>2, DiscardTyped DEF EosWithoutFrames, SinkInv, FinalsAbsent
  <1>3. CASE EosFlushed
    <2>1. TypeOK'
      BY <1>3 DEF EosFlushed, SinkInv, TypeOK, Phases
    <2>2. Paired(role_partial, meta_partial, frame_count)'
      BY <1>3 DEF EosFlushed, SinkInv, Paired
    <2> QED
      BY <1>3, <2>1, <2>2 DEF EosFlushed, SinkInv, FinalsAbsent
  <1>4. CASE EosFlushError
    <2>1. bus' \in Seq(Messages)
      BY <1>4, PostTyped DEF EosFlushError, SinkInv, TypeOK, Messages
    <2>2. TypeOK'
      BY <1>4, <2>1, DiscardTyped DEF EosFlushError, SinkInv, TypeOK, Phases
    <2> QED
      BY <1>4, <2>2 DEF EosFlushError, SinkInv, FinalsAbsent
  <1> QED
    BY <1>1, <1>2, <1>3, <1>4 DEF Eos

\* The first rename moves one half of the pair.
LEMMA RenameRoleInv ==
    ASSUME SinkInv, RenameRole
    PROVE  SinkInv'
  <1> USE DEF counters
  <1>1. Absent \in FileOf(RoleLines) /\ ~Absent.exists
    BY DEF Absent, FileOf
  <1>2. TypeOK'
    BY <1>1 DEF RenameRole, SinkInv, TypeOK, Phases
  <1>3. /\ Paired(role_final, meta_partial, frame_count)'
        /\ ~role_partial'.exists /\ ~meta_final'.exists
    BY <1>1 DEF RenameRole, SinkInv, Paired, FinalsAbsent
  <1> QED
    BY <1>2, <1>3 DEF RenameRole, SinkInv

\* The second one completes it.
LEMMA RenameMetaInv ==
    ASSUME SinkInv, RenameMeta
    PROVE  SinkInv'
  <1> USE DEF counters
  <1>1. Absent \in FileOf(MetaLines) /\ ~Absent.exists
    BY DEF Absent, FileOf
  <1>2. TypeOK'
    BY <1>1 DEF RenameMeta, SinkInv, TypeOK, Phases
  <1>3. Paired(role_final, meta_final, frame_count)'
    BY DEF RenameMeta, SinkInv, Paired
  <1>4. ~failed' /\ frame_count' > 0
    BY DEF RenameMeta, SinkInv
  <1> QED
    BY <1>1, <1>2, <1>3, <1>4 DEF RenameMeta, SinkInv

\* A failed publication takes back whatever it had moved.
LEMMA WithdrawInv ==
    ASSUME SinkInv, Withdraw
    PROVE  SinkInv'
  <1> USE DEF counters
  <1>1. /\ Absent \in FileOf(RoleLines) /\ Absent \in FileOf(MetaLines)
        /\ ~Absent.exists
    BY DEF Absent, FileOf
  <1>2. bus' \in Seq(Messages)
    BY PostTyped DEF Withdraw, SinkInv, TypeOK, Messages
  <1>3. TypeOK'
    BY <1>1, <1>2, DiscardTyped DEF Withdraw, SinkInv, TypeOK, Phases
  <1>4. FinalsAbsent' /\ ~published'
    BY <1>1 DEF Withdraw, SinkInv, FinalsAbsent
  <1> QED
    BY <1>3, <1>4 DEF Withdraw, SinkInv

\* Posting EOS touches no file.
LEMMA ForwardEosInv ==
    ASSUME SinkInv, ForwardEos
    PROVE  SinkInv'
  <1> USE DEF counters, partials, finals
  <1>1. bus' \in Seq(Messages)
    BY PostTyped DEF ForwardEos, SinkInv, TypeOK, Messages
  <1>2. TypeOK'
    BY <1>1 DEF ForwardEos, SinkInv, TypeOK, Phases
  <1> QED
    BY <1>2 DEF ForwardEos, SinkInv, FinalsAbsent, Paired

LEMMA PublicationInv ==
    ASSUME SinkInv, Publication
    PROVE  SinkInv'
  BY RenameRoleInv, RenameMetaInv, WithdrawInv, ForwardEosInv DEF Publication

\* stop() leaves a published pair alone and no partial.
LEMMA StopInv ==
    ASSUME SinkInv, Stop
    PROVE  SinkInv'
  <1> USE DEF counters, finals
  <1>1. /\ role_partial' \in FileOf(RoleLines) /\ ~role_partial'.exists
        /\ meta_partial' \in FileOf(MetaLines) /\ ~meta_partial'.exists
    BY DiscardTyped DEF Stop, SinkInv, TypeOK, partials
  <1>2. TypeOK'
    BY <1>1 DEF Stop, SinkInv, TypeOK, Phases
  <1>3. ~published' => FinalsAbsent'
    BY DEF Stop, SinkInv, FinalsAbsent
  <1>4. published' =>
            ~failed' /\ frame_count' > 0 /\ Paired(role_final, meta_final, frame_count)'
    BY DEF Stop, SinkInv, Paired
  <1>5. phase' = "stopped"
    BY DEF Stop
  <1> QED
    BY <1>1, <1>2, <1>3, <1>4, <1>5 DEF SinkInv
-----------------------------------------------------------------------------
(* The specification *)

LEMMA InitInv == Init => SinkInv
  <1> SUFFICES ASSUME Init PROVE SinkInv
    OBVIOUS
  <1>1. /\ Absent \in FileOf(RoleLines) /\ Absent \in FileOf(MetaLines)
        /\ ~Absent.exists
    BY DEF Absent, FileOf
  <1>2. <<>> \in Seq(Messages)
    OBVIOUS
  <1>3. TypeOK
    BY <1>1, <1>2 DEF Init, TypeOK, Phases
  <1> QED
    BY <1>1, <1>3 DEF Init, SinkInv, FinalsAbsent

LEMMA StepInv == SinkInv /\ [Next]_sinkVars => SinkInv'
  <1> SUFFICES ASSUME SinkInv, [Next]_sinkVars PROVE SinkInv'
    OBVIOUS
  <1>1. CASE \E f \in Frames : RenderAccept(f) \/ RenderError(f)
    BY <1>1, RenderAcceptInv, RenderErrorInv
  <1>2. CASE UNCHANGED sinkVars
    BY <1>2 DEF sinkVars, counters, partials, finals, SinkInv, TypeOK, Paired,
                FinalsAbsent
  <1> QED
    BY <1>1, <1>2, StartOkInv, StartFailInv, EosInv, PublicationInv, StopInv
    DEF Next

\* The sink's state, files and messages keep their types.
THEOREM TypeCorrect == Spec => []TypeOK
  <1>1. SinkInv => TypeOK
    BY DEF SinkInv
  <1> QED
    BY <1>1, InitInv, StepInv, PTL DEF Spec

\* What publish() hands over is a complete pair of files.
THEOREM PublishedPairCorrect == Spec => []PublishedPairComplete
  <1>1. SinkInv => PublishedPairComplete
    BY DEF SinkInv, PublishedPairComplete
  <1> QED
    BY <1>1, InitInv, StepInv, PTL DEF Spec

\* A frame that was refused keeps every file of the run from its final name.
THEOREM FailedSinkCorrect == Spec => []FailedNeverPublishes
  <1>1. SinkInv => FailedNeverPublishes
    BY DEF SinkInv, FailedNeverPublishes, TypeOK, Phases, FinalsAbsent
  <1> QED
    BY <1>1, InitInv, StepInv, PTL DEF Spec

\* Neither EOS on the bus nor a stopped sink leaves anything half done.
THEOREM NothingHalfDoneCorrect == Spec => []NothingHalfDone
  <1>1. SinkInv => NothingHalfDone
    <2> SUFFICES ASSUME SinkInv, phase \in {"eos", "stopped"}
                 PROVE  /\ ~role_partial.exists /\ ~meta_partial.exists
                        /\ role_final.exists = meta_final.exists
                        /\ phase = "eos" => role_final.exists = (frame_count > 0)
                        /\ phase = "stopped" => (role_final.exists => published)
      BY DEF NothingHalfDone
    <2>1. role_final.exists \in BOOLEAN /\ meta_final.exists \in BOOLEAN
      BY DEF SinkInv, TypeOK, FileOf
    <2>2. CASE published
      BY <2>1, <2>2 DEF SinkInv, Paired
    <2>3. CASE ~published
      BY <2>1, <2>3 DEF SinkInv, FinalsAbsent
    <2> QED
      BY <2>2, <2>3
  <1> QED
    BY <1>1, InitInv, StepInv, PTL DEF Spec
-----------------------------------------------------------------------------
(* The records and their crops *)

\* A file without lines has nothing unsound and no crop.
LEMMA EmptyLines ==
    SoundLines(<<>>) /\ OfFittingFrames(<<>>) /\ CropsOfLines(<<>>) = {}
  BY DEF SoundLines, OfFittingFrames, CropsOfLines

\* One more line adds its own soundness and its own crops.
LEMMA LineAdded ==
    ASSUME NEW lines \in Seq(RoleLines), NEW line \in RoleLines
    PROVE  /\ SoundLines(lines) /\ SoundLine(line) => SoundLines(Append(lines, line))
           /\ CropsOfLines(Append(lines, line)) = CropsOfLines(lines) \cup CropsOfLine(line)
  <1> DEFINE more == Append(lines, line)
             n == Len(lines)
  <1>1. /\ n \in Nat
        /\ DOMAIN lines = 1 .. n
        /\ DOMAIN more = (1 .. n) \cup {n + 1}
        /\ \A i \in 1 .. n : more[i] = lines[i]
        /\ more[n + 1] = line
    OBVIOUS
  <1> HIDE DEF more, n
  <1>2. SoundLines(lines) /\ SoundLine(line) => SoundLines(more)
    BY <1>1 DEF SoundLines
  <1>3. CropsOfLines(more) = CropsOfLines(lines) \cup CropsOfLine(line)
    <2>1. {CropsOfLine(more[i]) : i \in DOMAIN more} =
            {CropsOfLine(lines[i]) : i \in DOMAIN lines} \cup {CropsOfLine(line)}
      BY <1>1
    <2> QED
      BY <2>1 DEF CropsOfLines
  <1> QED
    BY <1>2, <1>3 DEF more

\* render() compares a track with the earlier ones only; all the same no two
\* targets of an accepted frame have the same one.
LEMMA AcceptedSound ==
    ASSUME NEW f \in Frames, Acceptable(f)
    PROVE  SoundLine(RoleLine(f))
  <1>1. f.targets \in Seq(Targets) /\ RoleLine(f).items = f.targets
    BY FrameTyped DEF RoleLine
  <1>2. \A i \in DOMAIN f.targets : ~Refused(f, i)
    BY DEF Acceptable
  <1>3. ASSUME NEW i \in DOMAIN f.targets
        PROVE  /\ f.targets[i].class \in KnownClasses
               /\ f.targets[i].in_plane
               /\ f.targets[i].in_original
    BY <1>2, <1>3 DEF Refused
  <1>4. ASSUME Mode = "tracks", NEW i \in DOMAIN f.targets, NEW j \in DOMAIN f.targets,
               j # i
        PROVE  f.targets[j].track # f.targets[i].track
    <2>1. CASE j < i
      <3>1. j \in 1 .. (i - 1)
        BY <1>1, <2>1
      <3> QED
        BY <1>2, <1>4, <3>1 DEF Refused
    <2>2. CASE i < j
      <3>1. i \in 1 .. (j - 1)
        BY <1>1, <2>2
      <3> QED
        BY <1>2, <1>4, <3>1 DEF Refused
    <2> QED
      BY <1>1, <1>4, <2>1, <2>2
  <1> QED
    BY <1>1, <1>3, <1>4 DEF SoundLine

\* The line of an accepted frame is one of a frame that fits.
LEMMA AcceptedFits ==
    ASSUME NEW lines \in Seq(RoleLines), OfFittingFrames(lines),
           NEW f \in Frames, Acceptable(f), RoleLine(f) \in RoleLines
    PROVE  OfFittingFrames(Append(lines, RoleLine(f)))
  <1> DEFINE more == Append(lines, RoleLine(f))
  <1>1. /\ DOMAIN more = DOMAIN lines \cup {Len(lines) + 1}
        /\ \A n \in DOMAIN lines : more[n] = lines[n]
        /\ more[Len(lines) + 1] = RoleLine(f)
    OBVIOUS
  <1>2. f.fit /\ f.roles = {RoleOfMode} /\ f.clock
    BY DEF Acceptable, HeaderFits
  <1> HIDE DEF more
  <1>3. OfFittingFrames(more)
    BY <1>1, <1>2 DEF OfFittingFrames
  <1> QED
    BY <1>3 DEF more

\* The crops written for an accepted frame are the ones its record names.
LEMMA CropsOfRecord ==
    ASSUME NEW f \in Frames
    PROVE  CropsOf(f, DOMAIN f.targets) = CropsOfLine(RoleLine(f))
  BY DEF CropsOf, CropsOfLine, RoleLine

\* What a frame adds to the role file, if it adds anything, is a sound record
\* whose crops have been written before it.
LEMMA RenderRecords ==
    ASSUME SinkInv, RecordsInv, NEW f \in Frames, RenderAccept(f) \/ RenderError(f)
    PROVE  RecordsInv'
  <1>1. /\ RoleLine(f) \in RoleLines
        /\ role_partial \in FileOf(RoleLines)
        /\ role_partial.lines \in Seq(RoleLines)
    BY LinesTyped DEF SinkInv, TypeOK, FileOf
  <1>2. crops \subseteq crops' /\ role_final' = role_final
    BY DEF RenderAccept, RenderError, RenderRefuse, CropError, WriteError, finals
  <1>3. Recorded(role_partial.lines)'
    <2>1. CASE role_partial' = role_partial
      BY <1>2, <2>1 DEF RecordsInv, Recorded
    <2>2. CASE /\ role_partial' = Write(role_partial, RoleLine(f)) /\ Acceptable(f)
               /\ crops' = crops \cup CropsOf(f, DOMAIN f.targets)
      <3>1. role_partial'.lines = Append(role_partial.lines, RoleLine(f))
        BY <1>1, <2>2, WriteTyped
      <3>2. CropsOfLine(RoleLine(f)) \subseteq crops'
        BY <2>2, CropsOfRecord
      <3>3. SoundLines(role_partial'.lines)
        BY <1>1, <2>2, <3>1, LineAdded, AcceptedSound DEF RecordsInv, Recorded
      <3>4. CropsOfLines(role_partial'.lines) =
                CropsOfLines(role_partial.lines) \cup CropsOfLine(RoleLine(f))
        BY <1>1, <3>1, LineAdded
      <3>5. CropsOfLines(role_partial.lines) \subseteq crops
        BY DEF RecordsInv, Recorded
      <3>6. OfFittingFrames(role_partial'.lines)
        BY <1>1, <2>2, <3>1, AcceptedFits DEF RecordsInv, Recorded
      <3> QED
        BY <1>2, <3>2, <3>3, <3>4, <3>5, <3>6 DEF Recorded
    <2> QED
      BY <2>1, <2>2
      DEF RenderAccept, RenderError, RenderRefuse, CropError, WriteError, partials
  <1> QED
    BY <1>2, <1>3 DEF RecordsInv, Recorded

\* Every other handler leaves the records of a file as they are, discards them
\* or gives them their final name.
LEMMA HandlerRecords ==
    ASSUME RecordsInv, StartOk \/ StartFail \/ Eos \/ Publication \/ Stop
    PROVE  RecordsInv'
  <1>1. /\ role_partial'.lines \in {role_partial.lines, <<>>}
        /\ role_final'.lines \in {role_final.lines, role_partial.lines, <<>>}
        /\ crops' = crops
    <2>1. CASE StartOk \/ StartFail
      BY <2>1 DEF StartOk, StartFail, File, finals
    <2>2. CASE Eos
      BY <2>2 DEF Eos, EosAfterFailure, EosWithoutFrames, EosFlushed, EosFlushError,
                  Discard, Absent, partials, finals
    <2>3. CASE Publication
      BY <2>3 DEF Publication, RenameRole, RenameMeta, Withdraw, ForwardEos,
                  Discard, Absent, partials, finals
    <2>4. CASE Stop
      BY <2>4 DEF Stop, Discard, Absent, partials, finals
    <2> QED
      BY <2>1, <2>2, <2>3, <2>4
  <1> QED
    BY <1>1, EmptyLines DEF RecordsInv, Recorded

LEMMA InitRecords == Init => RecordsInv
  BY EmptyLines DEF Init, RecordsInv, Recorded, Absent

LEMMA StepRecords == SinkInv /\ RecordsInv /\ [Next]_sinkVars => RecordsInv'
  <1> SUFFICES ASSUME SinkInv, RecordsInv, [Next]_sinkVars PROVE RecordsInv'
    OBVIOUS
  <1>1. CASE \E f \in Frames : RenderAccept(f) \/ RenderError(f)
    BY <1>1, RenderRecords
  <1>2. CASE UNCHANGED sinkVars
    BY <1>2 DEF sinkVars, partials, finals, RecordsInv, Recorded
  <1> QED
    BY <1>1, <1>2, HandlerRecords DEF Next

\* A started sink records into an empty file beside an empty crop directory.
LEMMA StartCrops ==
    ASSUME CropsInv, StartOk \/ StartFail
    PROVE  CropsInv'
  <1>1. CASE StartOk
    <2>1. /\ crops = {} /\ phase = "null" /\ phase' = "open" /\ ~published'
          /\ role_partial'.lines = <<>> /\ crops' = crops
      BY <1>1 DEF StartOk, CropsInv, File
    <2> QED
      BY <2>1, EmptyLines DEF CropsInv
  <1>2. CASE StartFail
    BY <1>2 DEF StartFail, CropsInv
  <1> QED
    BY <1>1, <1>2

\* An accepted frame adds exactly the crops that its record names.
LEMMA RenderAcceptCrops ==
    ASSUME SinkInv, CropsInv, NEW f \in Frames, RenderAccept(f), ~failed
    PROVE  CropsInv'
  <1>1. /\ RoleLine(f) \in RoleLines
        /\ role_partial \in FileOf(RoleLines)
        /\ role_partial.lines \in Seq(RoleLines)
    BY LinesTyped DEF SinkInv, TypeOK, FileOf
  <1>2. role_partial'.lines = Append(role_partial.lines, RoleLine(f))
    BY <1>1, WriteTyped DEF RenderAccept
  <1>3. crops' = CropsOfLines(role_partial'.lines)
    <2>1. crops' = CropsOfLines(role_partial.lines) \cup CropsOfLine(RoleLine(f))
      BY CropsOfRecord DEF RenderAccept, CropsInv
    <2> QED
      BY <1>1, <1>2, <2>1, LineAdded
  <1>4. phase' = "open" /\ ~published'
    BY DEF SinkInv, RenderAccept
  <1> QED
    BY <1>3, <1>4 DEF CropsInv

\* A frame that failed may leave crops without a record: nothing is claimed of
\* the crops of a failed sink, and it does not publish.
LEMMA RenderErrorCrops ==
    ASSUME SinkInv, NEW f \in Frames, RenderError(f)
    PROVE  CropsInv'
  <1>1. phase' = "open" /\ failed' /\ ~published'
    BY DEF SinkInv, RenderError, RenderRefuse, CropError, WriteError
  <1> QED
    BY <1>1 DEF CropsInv

\* From EOS to stop() the records change their name and the crops stay.
LEMMA HandlerCrops ==
    ASSUME SinkInv, CropsInv, Eos \/ Publication \/ Stop
    PROVE  CropsInv'
  <1>1. CASE Eos
    <2>1. /\ phase' \in {"refused", "forward", "role"} /\ ~published'
          /\ phase' = "role" => ~failed /\ role_partial' = role_partial
          /\ phase = "open" /\ crops' = crops
      BY <1>1 DEF Eos, EosAfterFailure, EosWithoutFrames, EosFlushed, EosFlushError,
                  SinkInv, partials
    <2> QED
      BY <2>1 DEF CropsInv
  <1>2. CASE RenameRole
    <2>1. ~published /\ ~failed
      BY <1>2 DEF RenameRole, SinkInv
    <2> QED
      BY <1>2, <2>1 DEF RenameRole, CropsInv
  <1>3. CASE RenameMeta
    BY <1>3 DEF RenameMeta, CropsInv
  <1>4. CASE Withdraw
    <2>1. ~published
      BY <1>4 DEF Withdraw, SinkInv
    <2> QED
      BY <1>4, <2>1 DEF Withdraw, CropsInv
  <1>5. CASE ForwardEos \/ Stop
    BY <1>5 DEF ForwardEos, Stop, CropsInv, finals
  <1> QED
    BY <1>1, <1>2, <1>3, <1>4, <1>5 DEF Publication

LEMMA InitCrops == Init => CropsInv
  BY DEF Init, CropsInv

LEMMA StepCrops == SinkInv /\ CropsInv /\ [Next]_sinkVars => CropsInv'
  <1> SUFFICES ASSUME SinkInv, CropsInv, [Next]_sinkVars PROVE CropsInv'
    OBVIOUS
  <1>1. CASE ~failed /\ \E f \in Frames : RenderAccept(f) \/ RenderError(f)
    BY <1>1, RenderAcceptCrops, RenderErrorCrops
  <1>2. CASE UNCHANGED sinkVars
    BY <1>2 DEF sinkVars, partials, finals, CropsInv
  <1> QED
    BY <1>1, <1>2, StartCrops, HandlerCrops DEF Next

\* A record under a final name has mapped classes, boxes inside both planes and
\* no track twice, and it is that of a frame that came with fitting caps and
\* geometry, the one role of the mode and a camera time: its number and its
\* targets are the frame's.
THEOREM RecordsSoundCorrect ==
    Spec => [](PublishedRecordsSound /\ OfFittingFrames(role_final.lines))
  <1>1. RecordsInv => PublishedRecordsSound /\ OfFittingFrames(role_final.lines)
    BY DEF RecordsInv, Recorded, PublishedRecordsSound
  <1> QED
    BY <1>1, InitInv, StepInv, InitRecords, StepRecords, PTL DEF Spec

\* A published product has one crop file per recorded target and no other; and
\* while the sink is open and goes well, the crops on disk are those of the
\* lines written so far.
THEOREM CropsCorrect ==
    Spec => [](/\ CropsMatchRecords
               /\ phase = "open" /\ ~failed => crops = CropsOfLines(role_partial.lines))
  <1> DEFINE Kept ==
        /\ CropsMatchRecords
        /\ phase = "open" /\ ~failed => crops = CropsOfLines(role_partial.lines)
  <1>1. CropsInv => Kept
    BY DEF CropsInv, CropsMatchRecords
  <1>2. Spec => []Kept
    <2> HIDE DEF Kept
    <2> QED
      BY <1>1, InitInv, StepInv, InitCrops, StepCrops, PTL DEF Spec
  <1> QED
    BY <1>2
=============================================================================
