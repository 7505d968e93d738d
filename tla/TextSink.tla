------------------------------ MODULE TextSink ------------------------------
(***************************************************************************)
(* ImageProcessTextSink (src/src/gst/sinks/text_sink.cpp), the element     *)
(* that turns decorated frames into two JSONL product files.  Every        *)
(* accepted frame adds one line to <role>.jsonl.partial and one line to    *)
(* image-meta.jsonl.partial; at EOS the two partials are renamed to their  *)
(* final names, one after the other.  A refused frame makes the sink       *)
(* "failed": it posts an error, and the EOS that the source still pushes   *)
(* must not publish anything.                                              *)
(*                                                                         *)
(* A frame is abstracted to what render() tells apart.  A file is a record *)
(* of whether it exists and of its lines.                                  *)
(***************************************************************************)
EXTENDS Integers, Sequences

CONSTANTS
    Mode,          \* "targets" (detections) or "tracks" (tracking)
    Crops,         \* TRUE when a crop directory is configured
    KnownClasses,  \* the class indices of the installed category map
    Targets,       \* the target shapes a filter may attach to a frame
    Frames         \* the frames that may reach the sink

Target ==
    [track: Nat, in_plane: BOOLEAN, class: Nat, in_original: BOOLEAN]

\* fit: caps present, parsed, and matched by the geometry metadata.
\* clock: the camera time this mode needs is attached, valid and in range.
Frame ==
    [fit: BOOLEAN, roles: SUBSET {"detection", "tracking"}, clock: BOOLEAN,
     frame_id: Nat, targets: Seq(Targets)]

ASSUME SinkAssumption ==
    /\ Mode \in {"targets", "tracks"}
    /\ Crops \in BOOLEAN
    /\ Targets \subseteq Target
    /\ Frames \subseteq Frame

VARIABLES
    phase,          \* where the element and its event handler stand
    frame_count,    \* frames recorded since start()
    next_frame_id,  \* the frame_id render() accepts next
    published,      \* both files carry their final names
    failed,         \* a frame was refused
    role_partial,   \* targets.jsonl.partial or tracks.jsonl.partial
    meta_partial,   \* image-meta.jsonl.partial
    role_final,     \* targets.jsonl or tracks.jsonl
    meta_final,     \* image-meta.jsonl
    crops,          \* crop files on disk, as <<class, frame_id, index>>
    bus             \* messages posted and not popped yet

counters == <<frame_count, next_frame_id>>
partials == <<role_partial, meta_partial>>
finals == <<role_final, meta_final>>
sinkVars == <<phase, counters, published, failed, partials, finals, crops, bus>>

Absent == [exists |-> FALSE, lines |-> <<>>]
File(lines) == [exists |-> TRUE, lines |-> lines]

RoleLines == [frame_id: Nat, items: Seq(Targets)]
MetaLines == [frame_id: Nat, target_count: Nat]
FileOf(Lines) == [exists: BOOLEAN, lines: Seq(Lines)]
Phases == {"null", "stuck", "open", "role", "meta", "forward", "eos",
           "refused", "stopped"}
Messages == {"eos", "stream", "resource", "other"}

Init ==
    /\ phase = "null"
    /\ frame_count = 0
    /\ next_frame_id = 0
    /\ published = FALSE
    /\ failed = FALSE
    /\ role_partial = Absent
    /\ meta_partial = Absent
    /\ role_final = Absent
    /\ meta_final = Absent
    /\ crops = {}
    /\ bus = <<>>

Post(message) == bus' = Append(bus, message)

Discard ==
    /\ role_partial' = Absent
    /\ meta_partial' = Absent
-----------------------------------------------------------------------------
(* start() *)

StartOk ==
    /\ phase = "null"
    /\ phase' = "open"
    /\ frame_count' = 0
    /\ next_frame_id' = 0
    /\ published' = FALSE
    /\ failed' = FALSE
    /\ role_partial' = File(<<>>)
    /\ meta_partial' = File(<<>>)
    /\ UNCHANGED <<finals, crops, bus>>

\* Settings or category map unusable: nothing is on disk.  A partial that
\* cannot be opened, or a crop directory that cannot be made: what was
\* opened stays, because an element that did not start is never stopped.
StartFail ==
    /\ phase = "null"
    /\ phase' = "stuck"
    /\ Post("resource")
    /\ \E role, meta \in BOOLEAN :
        /\ (role /\ meta) => Crops
        /\ role_partial' = IF role THEN File(<<>>) ELSE role_partial
        /\ meta_partial' = IF meta THEN File(<<>>) ELSE meta_partial
    /\ frame_count' = 0
    /\ next_frame_id' = 0
    /\ published' = FALSE
    /\ failed' = FALSE
    /\ UNCHANGED <<finals, crops>>
-----------------------------------------------------------------------------
(* render() *)

RoleOfMode == IF Mode = "targets" THEN "detection" ELSE "tracking"

\* The checks made before the targets are looked at.
HeaderFits(f) ==
    /\ f.fit
    /\ f.roles = {RoleOfMode}
    /\ f.clock
    /\ f.frame_id = next_frame_id

\* Bug: the set of tracks seen in a frame is never consulted.
RefusedDuplicatesAllowed(f, i) ==
    \/ ~f.targets[i].in_plane
    \/ f.targets[i].class \notin KnownClasses
    \/ ~f.targets[i].in_original

\* The i-th target ends the frame: a track seen before in it, a box outside
\* the filter plane or outside the original image, an unmapped class.
Refused(f, i) ==
    \/ /\ Mode = "tracks"
       /\ \E j \in 1 .. (i - 1) : f.targets[j].track = f.targets[i].track
    \/ ~f.targets[i].in_plane
    \/ f.targets[i].class \notin KnownClasses
    \/ ~f.targets[i].in_original

Acceptable(f) ==
    /\ HeaderFits(f)
    /\ \A i \in DOMAIN f.targets : ~Refused(f, i)

\* The targets render() gets past.
Passed(f) ==
    IF HeaderFits(f)
    THEN {i \in DOMAIN f.targets : \A j \in 1 .. i : ~Refused(f, j)}
    ELSE {}

CropsOf(f, indices) ==
    IF Crops
    THEN {<<f.targets[i].class, f.frame_id, i>> : i \in indices}
    ELSE {}

\* Bug: the two output streams are swapped.
RoleLineSwapped(f) == [frame_id |-> f.frame_id, target_count |-> Len(f.targets)]

RoleLine(f) == [frame_id |-> f.frame_id, items |-> f.targets]
MetaLine(f) == [frame_id |-> f.frame_id, target_count |-> Len(f.targets)]

Write(file, line) == [file EXCEPT !.lines = Append(@, line)]

RenderAccept(f) ==
    /\ phase = "open"
    /\ Acceptable(f)
    /\ role_partial' = Write(role_partial, RoleLine(f))
    /\ meta_partial' = Write(meta_partial, MetaLine(f))
    /\ crops' = crops \cup CropsOf(f, DOMAIN f.targets)
    /\ frame_count' = frame_count + 1
    /\ next_frame_id' = next_frame_id + 1
    /\ UNCHANGED <<phase, published, failed, finals, bus>>

\* Bug: a refused frame is skipped with GST_FLOW_OK.
RenderRefuseSkips(f) ==
    /\ phase = "open"
    /\ ~Acceptable(f)
    /\ crops' = crops \cup CropsOf(f, Passed(f))
    /\ UNCHANGED <<phase, counters, published, failed, partials, finals, bus>>

\* fail_closed(); the crops of the targets before the refused one stay.
RenderRefuse(f) ==
    /\ phase = "open"
    /\ ~Acceptable(f)
    /\ failed' = TRUE
    /\ Post("stream")
    /\ crops' = crops \cup CropsOf(f, Passed(f))
    /\ UNCHANGED <<phase, counters, published, partials, finals>>

\* The frame cannot be mapped, or a crop cannot be written (a short write
\* leaves the file there): the crops of a prefix of the targets are on disk.
CropError(f) ==
    /\ phase = "open"
    /\ Crops
    /\ HeaderFits(f)
    /\ \E n \in {0} \cup Passed(f) : crops' = crops \cup CropsOf(f, 1 .. n)
    /\ failed' = TRUE
    /\ Post("stream")
    /\ UNCHANGED <<phase, counters, published, partials, finals>>

\* Bug: the stream state is not checked after the two writes.
WriteErrorUnnoticed(f) ==
    /\ phase = "open"
    /\ Acceptable(f)
    /\ role_partial' = Write(role_partial, RoleLine(f))
    /\ crops' = crops \cup CropsOf(f, DOMAIN f.targets)
    /\ frame_count' = frame_count + 1
    /\ next_frame_id' = next_frame_id + 1
    /\ UNCHANGED <<phase, published, failed, meta_partial, finals, bus>>

\* A line cannot be written; the other stream may have taken its line.
WriteError(f) ==
    /\ phase = "open"
    /\ Acceptable(f)
    /\ \/ role_partial' = Write(role_partial, RoleLine(f)) /\ UNCHANGED meta_partial
       \/ meta_partial' = Write(meta_partial, MetaLine(f)) /\ UNCHANGED role_partial
       \/ UNCHANGED partials
    /\ crops' = crops \cup CropsOf(f, DOMAIN f.targets)
    /\ failed' = TRUE
    /\ Post("stream")
    /\ UNCHANGED <<phase, counters, published, finals>>

RenderError(f) == RenderRefuse(f) \/ CropError(f) \/ WriteError(f)
-----------------------------------------------------------------------------
(* event(EOS), publish() and stop() *)

\* Bug: publish() looks at frame_count only.
EosAfterFailurePublishes ==
    /\ phase = "open"
    /\ failed
    /\ phase' = IF frame_count > 0 THEN "role" ELSE "refused"
    /\ UNCHANGED <<counters, published, failed, partials, finals, crops, bus>>

EosAfterFailure ==
    /\ phase = "open"
    /\ failed
    /\ phase' = "refused"
    /\ UNCHANGED <<counters, published, failed, partials, finals, crops, bus>>

\* Bug: two empty files are published for a stream without frames.
EosWithoutFramesPublishes ==
    /\ phase = "open"
    /\ ~failed
    /\ frame_count = 0
    /\ phase' = "role"
    /\ UNCHANGED <<counters, published, failed, partials, finals, crops, bus>>

\* Bug: EOS is not handed to the parent class when there is nothing to publish.
EosWithoutFramesSwallowed ==
    /\ phase = "open"
    /\ ~failed
    /\ frame_count = 0
    /\ Discard
    /\ phase' = "refused"
    /\ UNCHANGED <<counters, published, failed, finals, crops, bus>>

EosWithoutFrames ==
    /\ phase = "open"
    /\ ~failed
    /\ frame_count = 0
    /\ Discard
    /\ phase' = "forward"
    /\ UNCHANGED <<counters, published, failed, finals, crops, bus>>

\* Bug: EOS is forwarded before the files have their names.
EosFlushedTooEarly ==
    /\ phase = "open"
    /\ ~failed
    /\ frame_count > 0
    /\ phase' = "forward"
    /\ UNCHANGED <<counters, published, failed, partials, finals, crops, bus>>

EosFlushed ==
    /\ phase = "open"
    /\ ~failed
    /\ frame_count > 0
    /\ phase' = "role"
    /\ UNCHANGED <<counters, published, failed, partials, finals, crops, bus>>

EosFlushError ==
    /\ phase = "open"
    /\ ~failed
    /\ frame_count > 0
    /\ Discard
    /\ Post("stream")
    /\ phase' = "refused"
    /\ UNCHANGED <<counters, published, failed, finals, crops>>

Eos == EosAfterFailure \/ EosWithoutFrames \/ EosFlushed \/ EosFlushError

RenameRole ==
    /\ phase = "role"
    /\ phase' = "meta"
    /\ role_final' = role_partial
    /\ role_partial' = Absent
    /\ UNCHANGED <<counters, published, failed, meta_partial, meta_final,
                   crops, bus>>

RenameMeta ==
    /\ phase = "meta"
    /\ phase' = "forward"
    /\ meta_final' = meta_partial
    /\ meta_partial' = Absent
    /\ published' = TRUE
    /\ UNCHANGED <<counters, failed, role_partial, role_final, crops, bus>>

\* An fsync or a rename failed: finals and partials are removed.
Withdraw ==
    /\ phase \in {"role", "meta"}
    /\ role_final' = Absent
    /\ meta_final' = Absent
    /\ Discard
    /\ Post("stream")
    /\ phase' = "refused"
    /\ UNCHANGED <<counters, published, failed, crops>>

\* The parent class posts EOS once publish() returned TRUE.
ForwardEos ==
    /\ phase = "forward"
    /\ Post("eos")
    /\ phase' = "eos"
    /\ UNCHANGED <<counters, published, failed, partials, finals, crops>>

\* READY -> NULL waits for the streaming thread to leave the element.
Stop ==
    /\ phase \in {"open", "refused", "forward", "eos"}
    /\ phase' = "stopped"
    /\ IF published THEN UNCHANGED partials ELSE Discard
    /\ UNCHANGED <<counters, published, failed, finals, crops, bus>>
-----------------------------------------------------------------------------
Publication == RenameRole \/ RenameMeta \/ Withdraw \/ ForwardEos

\* A source stops pushing frames after the first flow error.
Next ==
    \/ StartOk
    \/ StartFail
    \/ ~failed /\ \E f \in Frames : RenderAccept(f) \/ RenderError(f)
    \/ Eos
    \/ Publication
    \/ Stop

Spec == Init /\ [][Next]_sinkVars
-----------------------------------------------------------------------------
(* Properties *)

TypeOK ==
    /\ phase \in Phases
    /\ frame_count \in Nat
    /\ next_frame_id \in Nat
    /\ published \in BOOLEAN
    /\ failed \in BOOLEAN
    /\ role_partial \in FileOf(RoleLines)
    /\ meta_partial \in FileOf(MetaLines)
    /\ role_final \in FileOf(RoleLines)
    /\ meta_final \in FileOf(MetaLines)
    /\ crops \subseteq Nat \X Nat \X Nat
    /\ bus \in Seq(Messages)

\* Two files that describe the same n frames, numbered from 0 without a gap.
Paired(role, meta, n) ==
    /\ role.exists
    /\ meta.exists
    /\ Len(role.lines) = n
    /\ Len(meta.lines) = n
    /\ \A i \in 1 .. n :
        /\ role.lines[i].frame_id = i - 1
        /\ meta.lines[i] = [frame_id |-> i - 1,
                            target_count |-> Len(role.lines[i].items)]

\* What publish() hands over is a complete pair: one line per accepted frame
\* in each file, frame ids 0, 1, 2 ... and target counts that agree, whatever
\* frames were refused and whatever I/O failed on the way.
PublishedPairComplete ==
    published =>
        /\ frame_count > 0
        /\ Paired(role_final, meta_final, frame_count)

\* A sink that refused a frame never leaves a file under a final name, though
\* the source pushes EOS after the error (publish() reads failed first).
FailedNeverPublishes ==
    failed => ~role_final.exists /\ ~meta_final.exists

\* A record a reader can use: mapped classes only, boxes inside both planes,
\* no track twice.
SoundLine(line) ==
    \A i \in DOMAIN line.items :
        /\ line.items[i].class \in KnownClasses
        /\ line.items[i].in_plane
        /\ line.items[i].in_original
        /\ Mode = "tracks" =>
             \A j \in DOMAIN line.items :
                 j # i => line.items[j].track # line.items[i].track

SoundLines(lines) == \A n \in DOMAIN lines : SoundLine(lines[n])

\* Every record under a final name is usable downstream, though render() looks
\* at one target after the other and only at the tracks before it.
PublishedRecordsSound == SoundLines(role_final.lines)

\* The crop files that belong to a record, and to all records of a file.
CropsOfLine(line) ==
    IF Crops
    THEN {<<line.items[i].class, line.frame_id, i>> : i \in DOMAIN line.items}
    ELSE {}

CropsOfLines(lines) == UNION {CropsOfLine(lines[n]) : n \in DOMAIN lines}

\* The crop directory of a published product holds one file per recorded
\* target and no other: crops are written before their frame is accepted, so
\* a crop without a record exists only beside a failed sink.
CropsMatchRecords == published => crops = CropsOfLines(role_final.lines)

\* No half product outlives the work: when EOS is on the bus both files are
\* final or there was no frame, and when stop() has returned both are final and
\* were published, or none is; in either case no partial is left.
NothingHalfDone ==
    phase \in {"eos", "stopped"} =>
        /\ ~role_partial.exists /\ ~meta_partial.exists
        /\ role_final.exists = meta_final.exists
        /\ phase = "eos" => role_final.exists = (frame_count > 0)
        /\ phase = "stopped" => (role_final.exists => published)
-----------------------------------------------------------------------------
(* Inductive invariant: what each phase knows about the four files. *)

FinalsAbsent == ~role_final.exists /\ ~meta_final.exists

SinkInv ==
    /\ TypeOK
    /\ phase \in {"null", "stuck", "open", "role"} => FinalsAbsent
    /\ phase \in {"open", "role"} /\ ~failed =>
        /\ next_frame_id = frame_count
        /\ Paired(role_partial, meta_partial, frame_count)
    /\ phase \in {"role", "meta"} => ~failed /\ frame_count > 0
    /\ phase = "meta" =>
        /\ Paired(role_final, meta_partial, frame_count)
        /\ ~role_partial.exists /\ ~meta_final.exists
    /\ published =>
        /\ phase \in {"forward", "eos", "stopped"}
        /\ ~failed /\ frame_count > 0
        /\ Paired(role_final, meta_final, frame_count)
    /\ phase \in {"forward", "eos", "refused", "stopped"} /\ ~published => FinalsAbsent
    /\ phase \in {"forward", "eos", "stopped"} =>
        ~role_partial.exists /\ ~meta_partial.exists
    /\ phase \in {"forward", "eos"} => (published <=> frame_count > 0)

\* The lines were written of frames with fitting caps and geometry, the one
\* role of the mode and a camera time, and have their numbers and targets.
OfFittingFrames(lines) ==
    \A n \in DOMAIN lines : \E f \in Frames :
        f.fit /\ f.roles = {RoleOfMode} /\ f.clock /\ lines[n] = RoleLine(f)

\* Nothing unsound is ever recorded, under whatever name, nothing no frame has
\* brought, and nothing whose crops are not there.
Recorded(lines) ==
    SoundLines(lines) /\ OfFittingFrames(lines) /\ CropsOfLines(lines) \subseteq crops

RecordsInv == Recorded(role_partial.lines) /\ Recorded(role_final.lines)

\* Whose records the crops on disk belong to.
CropsInv ==
    /\ phase = "null" => crops = {}
    /\ phase \in {"open", "role"} /\ ~failed =>
            crops = CropsOfLines(role_partial.lines)
    /\ phase = "meta" \/ published => crops = CropsOfLines(role_final.lines)
=============================================================================
