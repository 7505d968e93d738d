---------------------------- MODULE FrameChain ----------------------------
(***************************************************************************)
(* The elements a frame passes on its way to TextSink (src/src/gst):       *)
(*                                                                         *)
(*   source    CDG00Src cuts windows out of a line-scan file,              *)
(*             CDG00AreaRepeatSrc repeats the first window,                *)
(*             ImgScanSrc pushes the images of a directory                 *)
(*   geometry  ImageProcessGeometryNormalize resamples a frame and stamps  *)
(*             the map from the original plane to the filter plane         *)
(*   filter    MockDetector, MockTracker or LynxiDetector attaches the     *)
(*             targets; ImageFilterTest lets images through                *)
(*   sink      what TextSink.render() looks at before it records a frame   *)
(*                                                                         *)
(* One streaming thread calls them in turn.  A frame is its image lines,   *)
(* its columns and its metadata; the map leaves rows alone (scale-y is 1   *)
(* and offset-y is 0), as both axes are computed alike.                    *)
(***************************************************************************)
EXTENDS FrameMeta, Detections

CONSTANTS
    Profiles,      \* the properties profiles set
    Inputs,        \* line-scan files
    Directories,   \* image directories
    OriginalWidth, \* kImageWidth; 4096 in the code
    SampleLines,   \* lines a camera sample is spread over; 16 in the code
    Scenes         \* what the model may say of the tiles of a frame

None == -1

\* num_buffers, from GstBaseSrc, is None for no limit; width 0 keeps the
\* original's; a mock emits box when emit is set.
Profile ==
    [source : {"line", "area", "images"}, height : Nat \ {0},
     stride : Nat \ {0}, num_buffers : Nat \cup {None}, repeat : Nat \ {0},
     num : Nat \ {0}, den : Nat \ {0}, offset : Int, width : Nat,
     filter : {"detector", "tracker", "lynxi", "test"},
     box : Box, emit : BOOLEAN]

\* noise: no valid header.  first: row number 0, where a camera sample
\* begins; odd: one whose camera time is out of range.  cut: the file ends
\* inside one more line.
LineKinds == {"noise", "row", "first", "odd"}
Input == [lines : Seq(LineKinds), cut : BOOLEAN]

\* The order of the records is that of the directory, that of the names the
\* sorted one.
Image == [name : Nat, supported : BOOLEAN, decodable : BOOLEAN]

ASSUME ChainAssumption ==
    /\ Profiles \subseteq Profile
    /\ Inputs \subseteq Input
    /\ Directories \subseteq Seq(Image)
    /\ \A images \in Directories : \A i, j \in DOMAIN images :
            i # j => images[i].name # images[j].name
    /\ OriginalWidth \in Nat \ {0} /\ OriginalWidth % 4 = 0
    /\ SampleLines \in Nat \ {0}
    /\ Scenes \subseteq Scene
    /\ ModelWidth \in Nat \ {0}
    /\ ScoreThreshold \in 0 .. 100 /\ NmsThreshold \in 0 .. 100
    /\ MaxTargets \in Nat

VARIABLES
    profile, input, directory, \* what the run was given
    scene,         \* what the model says of its frames
    phase,         \* the element that works next, or how the chain ended
    offset,        \* CDG00Src: lines before the next window
    frame_number,  \* CDG00 sources: buffers created
    first_window,  \* CDG00AreaRepeatSrc: the window decoded at start()
    files,         \* ImgScanSrc: names in scan order
    next_file,
    unread,        \* history: lines a read of the line source was asked for,
                   \* did not deliver, and the source did not come back to
    next_frame_id, \* MockTracker and LynxiDetector
    buffer,        \* the frame on its way
    delivered      \* the frames the sink has recorded

given == <<profile, input, directory, scene>>
source == <<offset, frame_number, first_window, files, next_file, unread>>
vars == <<given, phase, source, next_frame_id, buffer, delivered>>

-----------------------------------------------------------------------------
(* cdg00_decode.hpp *)

\* Sizes in half lines, so that a cut line has one.
FileSize == 2 * Len(input.lines) + (IF input.cut THEN 1 ELSE 0)
Available(first) == Lesser(2 * profile.height, FileSize - 2 * first)

Kind(line) == input.lines[line + 1]
Valid_line_header(line) == Kind(line) # "noise"

\* Bug: a sample may begin on any line of the window.
SampleStartsUnbounded(first, count) ==
    {line \in first .. (first + count - 1) : Kind(line) \in {"first", "odd"}}

\* Lines where a sample begins that lies in the window as a whole.
SampleStarts(first, count) ==
    {line \in first .. (first + count - 1) :
        /\ Kind(line) \in {"first", "odd"}
        /\ line + SampleLines <= first + count}

Window_start(starts) ==
    IF starts = {} THEN None ELSE CHOOSE s \in starts : \A t \in starts : s <= t
Window_end(starts) ==
    IF starts = {} THEN None ELSE CHOOSE s \in starts : \A t \in starts : t <= s

\* The rows of the image are the lines with a valid header, in the order of
\* the file; below the last of them the image stays black.
Decode_window(first, count) ==
    LET starts == SampleStarts(first, count)
    IN  [rows |-> {line \in first .. (first + count - 1) : Valid_line_header(line)},
         first |-> first, count |-> count,
         window_start |-> Window_start(starts),
         window_end |-> Window_end(starts)]

\* raw.size() / kLineSize: a read may deliver less than what was asked for.
LinesRead(first) == 1 .. (Available(first) \div 2)

-----------------------------------------------------------------------------
(* Sources *)

Init ==
    /\ profile \in Profiles
    /\ input \in Inputs
    /\ directory \in Directories
    /\ scene \in Scenes
    /\ phase = "null"
    /\ offset = 0
    /\ frame_number = 0
    /\ first_window = <<>>
    /\ files = <<>>
    /\ next_file = 0
    /\ unread = {}
    /\ next_frame_id = 0
    /\ buffer = <<>>
    /\ delivered = <<>>

\* Any element that cannot start or process: input that cannot be opened, no
\* device, no memory, failed mapping or inference, refused metadata.
Fails ==
    /\ phase \in {"null", "source", "geometry", "filter"}
    /\ phase' = "error"
    /\ UNCHANGED <<given, source, next_frame_id, buffer, delivered>>

StartLines ==
    /\ phase = "null" /\ profile.source = "line"
    /\ phase' = "source"
    /\ offset' = 0
    /\ frame_number' = 0
    /\ next_frame_id' = 0
    /\ UNCHANGED <<given, first_window, files, next_file, unread, buffer, delivered>>

\* The window is decoded once; every buffer gets a copy of its pixels.  Less
\* than a line, or no valid one, is an error (Fails).
StartArea ==
    /\ phase = "null" /\ profile.source = "area"
    /\ \E count \in LinesRead(0) :
            /\ Decode_window(0, count).rows # {}
            /\ first_window' = Decode_window(0, count)
    /\ phase' = "source"
    /\ frame_number' = 0
    /\ next_frame_id' = 0
    /\ UNCHANGED <<given, offset, files, next_file, unread, buffer, delivered>>

Supported == {i \in DOMAIN directory : directory[i].supported}

\* std::sort() of the paths whose extension is asked for.
StartImages ==
    /\ phase = "null" /\ profile.source = "images"
    /\ phase' = "source"
    /\ files' = CHOOSE order \in [1 .. Cardinality(Supported) -> Supported] :
                  \A i, j \in DOMAIN order : i < j =>
                      directory[order[i]].name < directory[order[j]].name
    /\ next_file' = 0
    /\ UNCHANGED <<given, offset, frame_number, first_window, unread, next_frame_id,
                   buffer, delivered>>

\* GstBaseSrc ends the stream after num-buffers buffers.
LimitReached ==
    profile.num_buffers # None /\
    profile.num_buffers = IF profile.source = "images" THEN next_file ELSE frame_number

\* Bug: only a whole window is worth reading.
NothingToReadButWindows ==
    CASE profile.source = "line" ->
            \/ 2 * offset >= FileSize
            \/ Available(offset) < 2 * profile.height
      [] profile.source = "area" -> frame_number >= profile.repeat
      [] profile.source = "images" -> next_file >= Len(files)

NothingToRead ==
    CASE profile.source = "line" ->
            \/ 2 * offset >= FileSize
            \/ Available(offset) < 2
      [] profile.source = "area" -> frame_number >= profile.repeat
      [] profile.source = "images" -> next_file >= Len(files)

Eos ==
    /\ phase = "source"
    /\ LimitReached \/ NothingToRead
    /\ phase' = "eos"
    /\ UNCHANGED <<given, source, next_frame_id, buffer, delivered>>

Creates(kind) ==
    /\ phase = "source" /\ profile.source = kind
    /\ ~LimitReached /\ ~NothingToRead

Original(window, info, value) ==
    [window |-> window, columns |-> [x \in 0 .. (OriginalWidth - 1) |-> x],
     metas |-> Add(<<>>, info, value)]

\* A read that delivers less shortens the window; the offset moves on by the
\* whole stride, before the window is decoded.
CreateLines ==
    /\ Creates("line")
    /\ offset' = offset + profile.stride
    /\ \E count \in LinesRead(offset) :
        LET window == Decode_window(offset, count)
            asked == Available(offset) \div 2
        IN  /\ unread' = unread \cup {line \in (offset + count) .. (offset + asked - 1) :
                                        line < offset'}
            /\ \/ /\ window.rows # {}
                  /\ buffer' = Original(window, "cdg00", [start |-> window.window_start,
                                                          end |-> window.window_end])
                  /\ frame_number' = frame_number + 1
                  /\ phase' = "geometry"
               \/ /\ window.rows = {}
                  /\ phase' = "error"
                  /\ UNCHANGED <<buffer, frame_number>>
    /\ UNCHANGED <<given, first_window, files, next_file, next_frame_id, delivered>>

\* A read that fails, or delivers less than a line, ends the stream like the
\* end of the file: no message tells the two apart.  All that is left of the
\* file stays unread.
ReadTooShort ==
    /\ Creates("line")
    /\ phase' = "eos"
    /\ unread' = unread \cup (offset .. (Len(input.lines) - 1))
    /\ UNCHANGED <<given, offset, frame_number, first_window, files, next_file,
                   next_frame_id, buffer, delivered>>

CreateArea ==
    /\ Creates("area")
    /\ buffer' = Original(first_window, "area_frame", first_window.window_start)
    /\ frame_number' = frame_number + 1
    /\ phase' = "geometry"
    /\ UNCHANGED <<given, offset, first_window, files, next_file, unread,
                   next_frame_id, delivered>>

\* An image that cannot be decoded has been taken off the list already.
CreateImage ==
    /\ Creates("images")
    /\ next_file' = next_file + 1
    /\ LET image == files[next_file + 1]
       IN  \/ /\ directory[image].decodable
              /\ buffer' = Original(<<>>, "image_dir", image)
              /\ phase' = "filter"
           \/ /\ ~directory[image].decodable
              /\ phase' = "error"
              /\ UNCHANGED buffer
    /\ UNCHANGED <<given, offset, frame_number, first_window, files, unread,
                   next_frame_id, delivered>>

-----------------------------------------------------------------------------
(* ImageProcessGeometryNormalize *)

FilterWidth == IF profile.width > 0 THEN profile.width ELSE OriginalWidth

Geometry ==
    [original |-> OriginalWidth, filter |-> FilterWidth, num |-> profile.num,
     den |-> profile.den, offset |-> profile.offset]

In_place ==
    FilterWidth = OriginalWidth /\ profile.num = profile.den /\ profile.offset = 0

\* Bug: the offset is added on the way back too.
SourceColumnShifted(x) ==
    LET scaled == (x + profile.offset) * profile.den
    IN  IF scaled < 0 \/ scaled >= OriginalWidth * profile.num THEN None
        ELSE scaled \div profile.num

\* The column a filter column is copied from, None where it stays black.
SourceColumn(x) ==
    LET scaled == (x - profile.offset) * profile.den
    IN  IF scaled < 0 \/ scaled >= OriginalWidth * profile.num THEN None
        ELSE scaled \div profile.num

Attach(metas) ==
    /\ CanAdd(metas, "geometry", Geometry)
    /\ buffer' = [window |-> buffer.window,
                  columns |-> IF In_place THEN buffer.columns
                              ELSE [x \in 0 .. (FilterWidth - 1) |-> SourceColumn(x)],
                  metas |-> Add(metas, "geometry", Geometry)]

TransformIp ==
    /\ phase = "geometry" /\ In_place
    /\ Attach(buffer.metas)
    /\ phase' = "filter"
    /\ UNCHANGED <<given, source, next_frame_id, delivered>>

\* The element registers neither get_unit_size() nor transform_size(), so
\* GstBaseTransform gives the output buffer the size of the input buffer.
BufferSize == OriginalWidth * profile.height

\* The last row of the plane has a pixel that is written behind that buffer.
Overruns ==
    \E x \in 0 .. (FilterWidth - 1) :
        SourceColumn(x) # None /\ (profile.height - 1) * FilterWidth + x >= BufferSize

\* Rows and columns past the written plane stay black.
Transform ==
    /\ phase = "geometry" /\ ~In_place
    /\ ~Overruns
    /\ Attach(CopyOf(buffer.metas))
    /\ phase' = "filter"
    /\ UNCHANGED <<given, source, next_frame_id, delivered>>

\* A write behind the buffer: whatever the process does from here on is
\* undefined, and nothing is said of it.
TransformOverruns ==
    /\ phase = "geometry" /\ ~In_place
    /\ Overruns
    /\ phase' = "undefined"
    /\ UNCHANGED <<given, source, next_frame_id, buffer, delivered>>

\* Readers map a frame with gst_video_frame_map(), for which a GRAY8 row is
\* padded to a multiple of four bytes; the elements write rows without padding.
\* It refuses a buffer smaller than such a plane.
RowPitch(width) == 4 * ((width + 3) \div 4)
Mappable == RowPitch(FilterWidth) * profile.height <= BufferSize

-----------------------------------------------------------------------------
(* Filters *)

FitForRole(info) ==
    /\ Has(buffer.metas, "geometry") /\ Has(buffer.metas, info)
    /\ ~Has(buffer.metas, "detection") /\ ~Has(buffer.metas, "tracking")

Decorate(info, role) ==
    /\ CanAdd(buffer.metas, info, role)
    /\ buffer' = [buffer EXCEPT !.metas = Add(@, info, role)]
    /\ phase' = "sink"
    /\ UNCHANGED <<given, source, delivered>>

MockTargets == IF profile.emit THEN <<profile.box>> ELSE <<>>

\* The frame_id of MockDetector is always 0.
MockDetect ==
    /\ phase = "filter" /\ profile.filter = "detector"
    /\ FitForRole("cdg00")
    /\ Decorate("detection", [frame_id |-> 0, targets |-> MockTargets])
    /\ UNCHANGED next_frame_id

MockTrack ==
    /\ phase = "filter" /\ profile.filter = "tracker"
    /\ FitForRole("area_frame")
    /\ Decorate("tracking", [frame_id |-> next_frame_id, targets |-> MockTargets])
    /\ next_frame_id' = next_frame_id + 1

Clamp_bbox(d, geometry) ==
    [min |-> Greater(0, Lesser(d.xmin, d.xmax)),
     max |-> Lesser(geometry.filter, Greater(d.xmin, d.xmax))]

Reportable(d, geometry) ==
    /\ d.id >= 0 /\ d.score \in 0 .. 100
    /\ ValidBox(Clamp_bbox(d, geometry))

TargetOf(d, geometry) ==
    [class |-> d.id, confidence |-> d.score,
     min |-> Clamp_bbox(d, geometry).min, max |-> Clamp_bbox(d, geometry).max]

Report(targets, d, geometry) ==
    IF Len(targets) < MaxTargets /\ Reportable(d, geometry)
    THEN Append(targets, TargetOf(d, geometry)) ELSE targets

\* The first MaxTargets detections with a class, a confidence and something
\* left of their box inside the plane.
LynxiTargets(found, geometry) ==
    LET targets[n \in 0 .. Len(found)] ==
            IF n = 0 THEN <<>> ELSE Report(targets[n - 1], found[n], geometry)
    IN  targets[Len(found)]

\* A frame that cannot be mapped, or is smaller than the model's input, is an
\* error (Fails).
LynxiDetect ==
    /\ phase = "filter" /\ profile.filter = "lynxi"
    /\ FitForRole("cdg00")
    /\ Mappable
    /\ FilterWidth >= ModelWidth
    /\ Decorate("detection",
                [frame_id |-> next_frame_id,
                 targets |-> LynxiTargets(Infer_gray8(scene, FilterWidth),
                                          Get(buffer.metas, "geometry"))])
    /\ next_frame_id' = next_frame_id + 1

FilterTest ==
    /\ phase = "filter" /\ profile.filter = "test"
    /\ phase' = "sink"
    /\ UNCHANGED <<given, source, next_frame_id, buffer, delivered>>

-----------------------------------------------------------------------------
(* TextSink; a frame of ImgScanSrc goes to an appsink, which takes any. *)

RoleOf == IF profile.filter = "tracker" THEN "tracking" ELSE "detection"
OtherRole == IF profile.filter = "tracker" THEN "detection" ELSE "tracking"

\* The sample whose camera time the sink records.
Clock(b) ==
    IF RoleOf = "tracking" THEN Get(b.metas, "area_frame")
    ELSE Get(b.metas, "cdg00").start

\* What the sink finds fault with; outside: a box that reaches out of the
\* original plane once it is mapped back.
Faults(b) ==
    LET geometry == Get(b.metas, "geometry")
        role == Get(b.metas, RoleOf)
        Is(fault, true) == IF true THEN {fault} ELSE {}
    IN  Is("caps", geometry.filter # Cardinality(DOMAIN b.columns))
        \cup Is("roles", ~Has(b.metas, RoleOf) \/ Has(b.metas, OtherRole))
        \cup Is("clock", Clock(b) = None \/ Kind(Clock(b)) = "odd")
        \cup Is("frame_id", role.frame_id # Len(delivered))
        \cup Is("plane", \E i \in DOMAIN role.targets :
                            \/ ~ValidBox(role.targets[i])
                            \/ role.targets[i].min < 0
                            \/ role.targets[i].max > geometry.filter)
        \cup Is("outside", \E i \in DOMAIN role.targets :
                \/ (role.targets[i].min - geometry.offset) * geometry.den < 0
                \/ (role.targets[i].max - geometry.offset) * geometry.den
                       > geometry.original * geometry.num)

Accepted(b) == IF profile.filter = "test" THEN TRUE ELSE Faults(b) = {}

Record ==
    /\ phase = "sink"
    /\ Accepted(buffer)
    /\ delivered' = Append(delivered, buffer)
    /\ phase' = "source"
    /\ UNCHANGED <<given, source, next_frame_id, buffer>>

\* A sink that writes crops maps every frame.
Refuse ==
    /\ phase = "sink"
    /\ \/ ~Accepted(buffer)
       \/ profile.filter # "test" /\ ~Mappable
    /\ phase' = "refused"
    /\ UNCHANGED <<given, source, next_frame_id, buffer, delivered>>

Stop ==
    /\ phase \in {"eos", "error", "refused"}
    /\ phase' = "stopped"
    /\ offset' = 0 /\ frame_number' = 0
    /\ first_window' = <<>> /\ files' = <<>> /\ next_file' = 0
    /\ UNCHANGED <<given, unread, next_frame_id, buffer, delivered>>

Next ==
    \/ StartLines \/ StartArea \/ StartImages \/ Fails
    \/ CreateLines \/ ReadTooShort \/ CreateArea \/ CreateImage \/ Eos
    \/ TransformIp \/ Transform \/ TransformOverruns
    \/ MockDetect \/ MockTrack \/ LynxiDetect \/ FilterTest
    \/ Record \/ Refuse \/ Stop

Spec == Init /\ [][Next]_vars
-----------------------------------------------------------------------------
(* Properties *)

\* A stream of overlapping or adjoining windows that came to its end by itself
\* has shown every valid line its reads have delivered, whatever is left after
\* the last whole window: a line is missing only where a short read has not
\* delivered it and the offset moved past it, or behind the read that ended the
\* stream (create() of CDG00Src).
EveryLineShown ==
    (/\ phase = "eos" /\ profile.source = "line"
     /\ profile.num_buffers = None /\ profile.stride <= profile.height) =>
        \A line \in 0 .. (Len(input.lines) - 1) :
            Valid_line_header(line) /\ line \notin unread =>
                \E i \in DOMAIN delivered : line \in delivered[i].window.rows

ImageOf(b) == directory[Get(b.metas, "image_dir")]

\* Frames are recorded in the order of their input.  Camera times never go
\* back, and each is read from lines of the frame's own window, up to the last
\* line of the sample (decode_window(), parse_sample()); images come by name,
\* each once, and none is missing at an end that no limit has brought about
\* (start() and create() of ImgScanSrc).
FramesFollowTheInput ==
    /\ profile.source = "line" /\ profile.filter # "test" =>
        \A i \in DOMAIN delivered :
            /\ delivered[i].window.first <= Clock(delivered[i])
            /\ Clock(delivered[i]) + SampleLines
                    <= delivered[i].window.first + delivered[i].window.count
            /\ \A j \in 1 .. i : Clock(delivered[j]) <= Clock(delivered[i])
    /\ profile.source = "images" =>
        /\ \A i \in DOMAIN delivered : \A j \in 1 .. (i - 1) :
            ImageOf(delivered[j]).name < ImageOf(delivered[i]).name
        /\ phase = "eos" /\ profile.num_buffers = None =>
            Len(delivered) = Cardinality(Supported)

NeededBy == IF profile.filter = "tracker" THEN "area_frame" ELSE "cdg00"

\* A filter for targets gets the frames of the source made for its mode.
SourceFits == profile.source = IF profile.filter = "tracker" THEN "area" ELSE "line"

\* What a profile with a mock has to respect: MockDetector numbers every frame
\* 0, and the box of a mock is not clamped.
MocksConfigured ==
    /\ profile.filter = "detector" => profile.num_buffers \in {0, 1}
    /\ (profile.filter \in {"detector", "tracker"} /\ profile.emit) =>
        /\ ValidBox(profile.box)
        /\ profile.box.min >= 0 /\ profile.box.max <= FilterWidth
        /\ profile.box.min >= profile.offset
        /\ (profile.box.max - profile.offset) * profile.den
                <= OriginalWidth * profile.num

\* The elements fit together: a filter gets the metadata it asks for whether
\* the frame was copied or not, and the sink never refuses a frame for its
\* caps, its role, its frame_id or a box outside the filter plane; all that
\* can stop it is the camera time and, where the plane is padded, a detection
\* in the padding.  For a plane no wider than the original the geometry stays
\* inside the buffer it was given and every reader can map the frame
\* (transform(), transform_ip() of the filters, render()).
ElementsFit ==
    (profile.filter # "test" /\ SourceFits /\ MocksConfigured) =>
        /\ phase = "filter" => FitForRole(NeededBy)
        /\ phase = "sink" =>
            Faults(buffer) \subseteq {"clock"} \cup
                (IF In_place \/ profile.filter # "lynxi" THEN {} ELSE {"outside"})
        /\ FilterWidth <= OriginalWidth => Mappable /\ phase # "undefined"

AsDetection(t) == [id |-> t.class, score |-> t.confidence, xmin |-> t.min, xmax |-> t.max]

\* Everything the model believes to see, where it lies in the filter plane.
Seen_in(width) ==
    UNION {LET predictions == TilePredictions(scene, i)
           IN  {Shifted(Detected(predictions[k]), TileOffset(i - 1, width, ModelWidth)) :
                    k \in {k \in DOMAIN predictions : Believed(predictions[k])}} :
               i \in 1 .. TilesAlong(width, ModelWidth)}

\* An object is reported once, though neighbouring tiles overlap and both see
\* it: no two targets of a class overlap above the threshold.  Nothing is
\* suppressed for a weaker one: unless the list is full, each target is
\* something the model saw, and of each class the most certain detection is
\* among them (yolo5Nms() within a tile, then over the frame, and
\* transform_ip() of LynxiDetector).
ObjectsReportedOnce ==
    (phase = "sink" /\ profile.filter = "lynxi") =>
        LET targets == Get(buffer.metas, "detection").targets
            reported == {AsDetection(targets[i]) : i \in DOMAIN targets}
            visible == {d \in Seen_in(FilterWidth) : d.id >= 0 /\ d.xmin < d.xmax}
        IN  /\ \A i, j \in DOMAIN targets : i # j =>
                    ~SameObject(AsDetection(targets[i]), AsDetection(targets[j]))
            /\ reported \subseteq visible
            /\ Len(targets) < MaxTargets =>
                    \A d \in visible : \E r \in reported : r.id = d.id /\ r.score >= d.score

\* The pixel a reader finds at column x of row y.
Seen(b, x, y) ==
    LET width == Cardinality(DOMAIN b.columns)
        byte == y * RowPitch(width) + x
        row == byte \div width
    IN  [column |-> IF row < profile.height THEN b.columns[byte % width] ELSE None,
         row |-> row]

\* What a recorded box shows is what it is said to show: in a frame that can
\* be mapped, every pixel a reader finds inside the box comes from the same row
\* of the original frame and from a column that the box covers once the sink
\* has mapped it back (transform() of the geometry against inverse_bbox() of
\* the sink).
BoxesShowTheirSource ==
    profile.filter # "test" /\ Mappable =>
        \A i \in DOMAIN delivered :
            LET targets == Get(delivered[i].metas, RoleOf).targets
            IN  \A t \in DOMAIN targets :
                \A x \in targets[t].min .. (targets[t].max - 1),
                   y \in 0 .. (profile.height - 1) :
                    LET pixel == Seen(delivered[i], x, y)
                    IN  /\ pixel.row = y
                        /\ pixel.column # None
                        /\ (pixel.column + 1) * profile.num
                                > (targets[t].min - profile.offset) * profile.den
                        /\ pixel.column * profile.num
                                < (targets[t].max - profile.offset) * profile.den
=============================================================================
