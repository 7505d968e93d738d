# TLA+ verification of image-process

image-process is a command-line program (`src/src/tool/main.cpp`) that runs a
GStreamer pipeline over a satellite image file and publishes the result in a
work directory. This directory holds TLA+ modules translated from its source,
the TLC configurations that check them on small instances, and theorems that
the TLA+ proof system checks for every value of the constants.

Source paths below are relative to `src/src/` unless they say otherwise.

## 1. Inventory

### 1.1 Components

| component | source | state it keeps | operations |
|---|---|---|---|
| request validation, manifest | `tool/image_process.cpp` 177-593 | none | `validate_request`, `verify_input_artifact`, `make_manifest` |
| run dispatcher | `tool/image_process.cpp` 595-794 | `output`, `pipeline_result`, the work directory | `run`: existence check, pipeline call, verification, `pipeline-plan.json`, `result.json` |
| pipelines | `tool/pipeline.cpp` | bus, deadline, probe context, appsink queue | `run_pipeline`, `run_ground_cdg00_pipeline`, `run_product_text_pipeline` |
| artifact publisher | `tool/artifact.cpp` | files and their `.partial` twins | `publish_partial_file`, `write_json_atomic`, `sha256_file`, `write_product*` |
| ground collector | `tool/image_process.cpp` 76-175 | `frame_count_`, the metadata stream, `published_` | constructor, `consume`, `publish`, destructor |
| TextSink | `gst/sinks/text_sink.cpp` | frame counters, `published`, `failed`, four files, crops | `start`, `render`, `event`, `publish`, `stop` |
| CDG0.0 sources, decoder | `gst/sources/cdg00_*` | line offset, frame number; the area source its window | `start`, `create`, `stop` |
| ImgScan source | `gst/sources/img_scan_src.cpp` | sorted file list, index | `start`, `create`, `stop` |
| geometry | `gst/filters/geometry_normalize.cpp` | negotiated sizes | `set_caps`, `transform_ip`, `transform` |
| mock detector, mock tracker, image filter test | `gst/filters/mock_*.cpp`, `gst/filters/image_filter_test.cpp` | next frame id of the tracker | `transform_ip` |
| metadata ABI | `gst/meta/gst_meta_v1.cpp` | metadata of a buffer | add, get, validate, copy on transform |
| Lynxi detector | `gst/filters/lynxi_detector.cpp` | next frame id, the runtime | `transform_ip` |
| YoloX runtime | `backends/lynxi/yolox_runtime.cpp`, `backends/lynxi/include/utils/utils.hpp` | device, result pool; per call two queues and three tasks | `start`, `infer_gray8`, `stop` |
| post-processing, environment, SDK headers | `backends/lynxi/infer/`, `backends/lynxi/include/` | none | decoding of tensors, calls of a vendor SDK |
| plugin registration | `gst/*/*plugin_init.cpp` | none | registration of the elements |

### 1.2 How they interact

`run` calls one of three pipelines. In each, a *streaming thread* (the task of
the source; no pipeline has a queue element) calls source, geometry, filter and
sink one after the other for each frame, while the *main thread* polls the bus
every 100 ms, up to a deadline. The threads share the bus, a pad-probe context
protected by a mutex (product text, ground) or the queue of an appsink (default
mode), and the work directory. Errors travel on the bus; after a flow error a
GStreamer source posts an error of its own and *still pushes EOS*. The Lynxi
backend adds worker threads of its own below the detector element. Other
processes (a task manager) start the program, kill it (cancellation is a
signal), retry it and read `result.json` with the files it names.

### 1.3 What is hard

* Two threads: a frame above the limit, a refused frame, EOS and a timeout can
  meet in any order, while the sink is renaming files.
* Publication is two renames followed by two JSON files; a kill or an error can
  fall between any two of them.
* EOS follows errors; it must not turn a failed stream into a product.
* Cleanup removes the counting probe while frames may still arrive, then waits
  for the streaming thread.
* A retry finds what an earlier process left in the work directory.
* Four threads share two queues with one condition variable each; the queue
  behind a task is closed only after it has ended, and any of them can end with
  an exception nobody rethrows.
* The elements agree on planes, rows, roles and frame numbers only through
  metadata and caps, with integer arithmetic at every border.
* A request and a profile are compared pairwise in several places before they
  choose a pipeline.

The full list, with lines, is under `hazards` in `PROJECT.json`.

### 1.4 What makes each component correct

* *TextSink*: final files are a complete pair (same frames, numbered without a
  gap, agreeing target counts), hold only records that passed every check, and
  never come from a stream that had a refused frame; crops match records.
* *product_text run*: exit code 0 means no frame was lost; `result.json` is
  visible only over the files it names, which never change again; no process
  waits for ever.
* *default run*: the bundle is whole; the bundle and the result belong
  together; a failed process keeps the product of an earlier one; every frame
  is consumed.
* *ground run*: a video never appears without the metadata of its frames; a
  failed run publishes neither and can be repeated; exit code 0 means no frame
  was lost.
* *YoloX runtime*: tiles cover the frame and stay inside it; every tile is
  inserted once, in order; no wakeup is lost; a call returns.
* *Sources, geometry, metadata, filters*: every valid line that a read delivers
  reaches the sink; the geometry stays inside its buffer; frames and camera times follow the input; each element finds the
  metadata it asks for; what a recorded box shows is what it is mapped back to.
* *Request validation*: only a request, a profile and an input that fit together
  reach a pipeline.

## 2. Modules

| module | role |
|---|---|
| `TextSink` | the sink element: one action per handler outcome |
| `MCTextSink`, `text_sink.cfg` | TLC instance of it |
| `TextSinkProofs` | its theorems |
| `Delivery` | abstract specification: what a reader of a work directory may rely on |
| `ProductTextRun` | EXTENDS TextSink: both threads, the bus, the probe, the process and its retries |
| `MCProductTextRun`, `product_text*.cfg` | TLC instances of it |
| `ProductTextRunProofs` | its theorems, the refinement of `Delivery` among them |
| `FramesRun` | the default run: appsink queue, bus, pull loop, `product.bin`, JSON files, retries |
| `MCFramesRun`, `frames*.cfg` | TLC instances of it |
| `FramesRunProofs` | its theorems |
| `GroundRun` | the ground run: collector in the pad probe, encoder behind it, two renames, JSON files, retries |
| `MCGroundRun`, `ground.cfg` | TLC instance of it |
| `GroundRunProofs` | its theorems, the refinement of `Delivery` among them |
| `TileGrid` | the arithmetic of `Cutter`: where the tiles of a frame start |
| `TileGridProofs` | tiles are inside the frame and cover it |
| `LynxiTiles` | EXTENDS TileGrid: `YoloxRuntime`, its tasks, queues, pool, close protocol and failures |
| `MCLynxiTiles`, `tiles*.cfg` | TLC instances of it |
| `LynxiTilesProofs` | its theorems |
| `FrameMeta` | the metadata of a buffer as pure operators |
| `Detections` | EXTENDS TileGrid: from the model's output for each tile to the detections of a frame |
| `FrameChain` | EXTENDS FrameMeta, Detections: the elements from source to sink |
| `MCFrameChain`, `chain*.cfg` | TLC instances of it |
| `FrameChainProofs` | its theorems |
| `Requests` | from a JSON request to the call of a pipeline |
| `MCRequests`, `requests.cfg` | TLC instance of it |
| `RequestsProofs` | its theorem |

The modules meet where the code does: `Requests` ends with the call that
`ProductTextRun`, `FramesRun` and `GroundRun` begin with; the frames those push
are arbitrary, and `FrameChain` says which ones the elements can make;
`LynxiDetect` of `FrameChain` gets the detections of `Detections` for all tiles
in their order, which is what `LynxiTiles` says of a call that succeeds.

### 2.1 TextSink and the code

A frame is a record of what `render()` tells apart. `fit` stands for the caps
and the geometry metadata, `roles` for the detection and tracking metadata that
are attached, `clock` for the camera time this mode needs; a target keeps its
track, its class and whether its box lies inside the filter plane and, mapped
back, inside the original image. A file is whether it exists and the lines
handed to its stream: the lines of a partial may still be in the stream's
buffer, which matters to nobody, because a partial is renamed only after its
flush and its fsync succeeded.

| `phase` | the element is |
|---|---|
| `null` | created |
| `stuck` | one whose `start()` failed; GStreamer never calls its `stop()` |
| `open` | started: `render()` and EOS may come |
| `role`, `meta` | inside `publish()`, before the rename of the role file, of image-meta |
| `forward` | inside `event()`, about to hand EOS to the parent class |
| `eos` | one that has posted EOS |
| `refused` | one whose `event()` returned FALSE |
| `stopped` | stopped |

`Init` is the constructor, `StartOk` and `StartFail` are `start()`,
`RenderAccept`, `RenderRefuse`, `CropError` and `WriteError` the outcomes of
`render()`, the actions named `Eos...` the decision at the head of `publish()`,
`RenameRole`, `RenameMeta` and `Withdraw` its two `fsync_and_rename()` calls,
`ForwardEos` the end of `event()`, `Stop` is `stop()`. `render()` is one action
because nobody else looks at its files while it runs; `publish()` is several
because a kill between its renames is visible to the next process.

### 2.2 ProductTextRun and the code

`main` is where the main thread stands: `launch` (construction and
`set_state(PLAYING)`), `polling` (the loop), `unwinding` (an exception is
passing through `cleanup()`, its exit code in `verdict`), `draining` (after the
loop), `closing` (`cleanup()` of a run that succeeded), then `run()` again:
`verifying`, `planning`, `resulting`, `reporting`, and `down` when no process
runs. The streaming thread is `source` together with the sink's `phase`: each
frame passes `count_product_frames()` (`ProbeDrops`, `ProbePasses`) and then
`render()`. One iteration of the polling loop is one action (`Poll...`), with
the tests in the code's order: probe error, popped message, deadline. The bus
is the sequence of ERROR and EOS messages; an error is its GStreamer domain,
which is all that `throw_gst_message_error()` looks at.

`Begin` starts a process: elements and counters are new, files stay. `Kill`
ends one at any step. A process whose existence check fails is
`RefuseExisting`; validation, preflight and category-map failures come before
anything is written and are one action, `RefuseUnprepared`.

### 2.3 Delivery

`Delivery` has one variable, `delivered`: what `result.json` makes visible. It
is nothing, until one step makes a product visible that satisfies the parameter
`Complete`, and it never changes again. `Complete` is `CompletePair` for
`ProductTextRun` and `CompleteVideo` for `GroundRun`; the default run overwrites
its product and does not implement `Delivery`. `ProductTextRun` implements it under the mapping `Visible`, which joins the
contents of the *current* final files with the contents whose digests
`result.json` recorded, so that a later change of either would be seen.

### 2.4 FramesRun and the code

`main` is `launch`, `pulling` (`gst_app_sink_try_pull_sample`), `checking` (no
sample was found: bus, then deadline), `unwinding`, `finishing` (after the
loop, provenance and `cleanup()`), then in `run()` and `write_product()`:
`bundling`, `publishing` (the partial is complete), `hashing` (it was renamed),
`planning`, `resulting`, `reporting`, and `down`. The step from `pulling` to
`checking` is what the code does between two calls: the streaming thread may
push frames and EOS there, which is the whole difficulty of the loop. A bundle
is the attempt that wrote it, the frame count of its manifest and its frames, a
frame being its number in the source's output; a digest identifies the content
and is the bundle itself. `before` records what the work directory held when the
process started.

### 2.5 GroundRun and the code

`main` is as in 2.2 up to `closing`; `run()` then goes through `verifying`
(counts, flush), `renaming metadata` and `renaming video` (the two calls of
`publish_partial_file()`), `describing` (digests), `planning`, `resulting`,
`reporting`. `discarding` is the removal of the paths in `doomed`, one per step
so that a kill can fall between two: `Discard` sets it up as the destructor
does, `Withdraw` as the `catch` of `publish()` does, which removes all four
paths. A removal that fails is ignored by the code and not modelled.

A frame that arrives is one action with the outcomes of
`collect_ground_metadata()` and what follows it: `FrameCollected`,
`EncoderFails` (collected, but the encoder, the muxer or the filesink fail on
it), `FrameAboveLimit` and `FrameRejected` (the probe keeps an exception),
`FrameDropped` (it already keeps one), `FrameUnseen` (`cleanup()` has removed
the probe). The video partial is the frames encoded so far and, once the muxer
has seen EOS, `complete`. The frames a muxer or an encoder still holds back are
not told apart from those in the file: nobody looks at a video that is not
complete.

### 2.6 LynxiTiles, TileGrid and the code

`TileGrid` is `Cutter`: `StridePx` rounds the stride, `TilesAlong` is `max_x` and
`max_y`, `TileOffset` moves the last tile inwards.

`main` is the calling thread: `down`, `idle` and `stopped` around `start()`,
calls and `stop()`; inside a call `spawn pre/infer/post` (the three
`std::async`), then in turn `join` (the `wait()` of a future), `exit` (the flag
is set under its mutex) and `close` (the queue, if it was found empty; the mutex
is held from `exit` to the end of `close`, which is why `InferCheck` and
`PostCheck` wait there). `unwind` is the destruction of the futures when a spawn
throws. `pre`, `infer` and `post` are where the tasks stand: each call of a
method of `Queue` is a step, and `asleep` names the tasks inside a condition
variable. `NotifyOne` wakes any one of those that sleep in the queue in
question, `CloseImages` and `CloseResults` all; a task that wakes tests its
predicate again, as the predicate form of `wait()` does. A spurious wakeup would
test the predicate and sleep again; it is left out. `PreDies`, `InferDies`,
`PostDies` and `SpawnFails` are exceptions, which the futures swallow.

### 2.7 FrameChain, FrameMeta and the code

`phase` is the element that works next, and the ways a chain ends: `eos`,
`error` (an element failed), `refused` (the sink did), `undefined` (the geometry
has written behind its buffer), `stopped`. A frame is the
window of file lines it was decoded from, a function from its columns to those
of the original, and its metadata. `profile` stands for the properties that a
runtime profile sets, `input` for a line-scan file: of each line, whether its
header is valid and whether a camera sample starts there, and whether the file
ends inside a further line. `Decode_window` is `decode_window()`,
`SourceColumn` the loop of `transform()`, `LynxiTargets` what `transform_ip()`
keeps of the detections, `Faults` what `render()` looks at. In a file, sizes
count half lines so that a cut line has a size of its own. One axis stands for
both, because every check and every computation treats them alike;
`scale` is the fraction `num`/`den`.

`scene` is what the model says of the frames, tile by tile.

A read of the line source delivers any number of the lines it asks for. With
fewer the window is shorter, while the offset moves on by the whole stride
(`CreateLines`); with none the stream ends like at the end of the file
(`ReadTooShort`). `unread` is a history variable, which no action looks at: the
lines that were asked for, were not delivered and that the source did not come
back to.

The geometry element registers neither `get_unit_size()` nor `transform_size()`,
so its output buffer has the size of the input buffer (`BufferSize`). A plane
wider than the original that has a pixel in the last rows is written behind that
buffer: `TransformOverruns` ends the chain in `undefined`, since nothing can be
said of the process from there on. `Mappable` is what `gst_video_frame_map()`
asks of a buffer: room for a plane of padded rows. The detector, and a sink that
writes crops, fail on a frame that is not.

`FrameMeta` is the metadata library without the fields every writer sets alike.

`Detections` is the arithmetic behind `infer_gray8()`: `Believed` and `Detected`
are the loop of `Yolov8sPostProcess()`, `Yolo5Nms` is `yolo5Nms()` (greedy
suppression in the order of class and score), applied to each tile and then to
the frame (`Infer_gray8`). Scores and thresholds are per cent. Boxes keep one
axis: all of a scene are equally high, so that the ratio of two areas is that
of two widths. The centre of a box lies inside its tile, as the model's anchors
do; a box whose centre lay to the right of it would leave the clamp with its
corners exchanged.

### 2.8 Requests and the code

`request` keeps what is compared with something else; the checks of a single
field are one set, `malformed`. `Validate_request` has the code's comparisons,
one operator per group; `phase` is `validate`, `plan` (profile members,
preflight, dry run), `input` (work directory, `verify_input_artifact()`) and
`started`, where `started` is the call of the pipeline: which one, with what
limit, which sink mode and what kind of input.

## 3. Runs

| run | states | question | answer |
|---|---|---|---|
| `text_sink` | 293 | is what the sink publishes complete and sound, whatever frames come and whatever I/O fails? | yes |
| `product_text` | 32 317 | do runs, kills and retries implement `Delivery`, does exit code 0 mean that no frame was lost, and does every process end? | yes |
| `product_text_limit` | | does a run that exceeds its frame limit leave nothing published? (`tool/pipeline.hpp:77`) | no |
| `product_text_retry` | | can a process that ended RETRYABLE be run again? (`src/configs/plugins/image-process.json:19`) | no |
| `frames` | 24 793 | do bundle and result of a default run belong together over kills and retries, does a failure keep the earlier product, does every process end? | yes |
| `frames_lost` | | is the consumer invoked once for every frame of a run that succeeds? (`tool/pipeline.hpp:49`) | no |
| `tiles` | 39 854 | is each tile inserted once and in order, is every pixel seen, is no wakeup lost, and which failures let a call return? | yes |
| `tiles_lost` | | does `true` mean that every tile was inferred? (`backends/lynxi/yolox_runtime.hpp:56`) | no |
| `chain` | 1 932 056 | is no line left out that was read, do frames follow their input, do the elements fit together, is an object reported once, does a box show what it is mapped back to? | yes |
| `chain_pitch` | | does the map hold for a filter width below the original's that is no multiple of four? (`gst/meta/image_process/gst_meta_v1.h:115`) | no |
| `requests` | 522 180 | do only requests, profiles and inputs that fit together reach a pipeline? | yes |
| `ground` | 41 618 | does a video never appear without its metadata, does a failed process clean up, can RETRYABLE be retried, is `Delivery` implemented, does exit code 0 mean that no frame was lost, does every process end? | yes |

*Bounds of `text_sink`.* Frame ids 0 to 2 allow three recorded frames: enough
for a gap, a repeated id and a frame that fails after another was written. The
targets hold two sound shapes and one for each check of a target; a frame
carries none, one or two, the second being a duplicate, unsound or sound, so
crops of a refused frame occur. Tracks mode with crops is the larger of the two
modes; `product_text` runs the other one.

*Bounds of `product_text`.* Sources of up to three frames against a limit of
two reach, pass and stay below the limit. Two attempts show everything a second
process can meet; a third starts from the same files as the second.
A timeout can fall anywhere. CHECK_DEADLOCK is FALSE
because the system stops when the attempts are used up.

*Bounds of `frames`.* The limit is two frames. A source of up to five has more
than the limit, the frame that exceeds it and the two samples of the appsink
together can take, so every branch of the loop occurs with the queue empty,
half full and full. Two attempts show everything a second process can meet,
since a third meets the same files. CHECK_DEADLOCK is FALSE for the same reason
as above.

*Bounds of `ground`.* The limit is two frames and a source has up to four, so
that a frame at the limit, the one that makes the probe keep its error, and one
that is dropped because of it all occur. Two attempts, as above.
CHECK_DEADLOCK is FALSE for the same reason.

*Bounds of `tiles`.* The model is four pixels wide. A frame of 8 by 5 has six
tiles, with the last column and the last row moved inwards, one of 4 by 10 has
three in a single column, one of 4 by 4 a single tile, which takes another
path through the close protocol (the queue may still hold it when `pre` has
ended), and one is too small. With a pool of two results the pool runs empty
while `q_infer` fills, so all three waits of the tasks occur; six tiles are
three times the pool. Two calls, because a call starts from new queues but not
from a new device. CHECK_DEADLOCK is FALSE because the system stops after the
calls, and because a call that never returns is what `CallReturns` is about.

*Bounds of `chain`.* Files have up to four lines of three kinds, cut or not:
windows of two and three lines then overlap, adjoin, and end in a shorter one,
and a camera sample (two lines) begins in a window and ends behind it. The
fourteen profiles have the shapes of `src/configs/runtime/profiles.json`: the mock
detector, the tracker and the Lynxi detector, in place, scaled down with
padding, scaled up with an origin left of the plane, onto a narrower plane, with
and without targets; images; and two planes wider than the original, one that
overruns its buffer and one whose pixels happen to fit, which no reader can map. Each read delivers any
number of lines, or none. The original is eight columns wide and the model's
input four, so that a full plane has three tiles and a narrower one is left to
try. A frame may hold three targets, and
the thirteen scenes have up to four detections in a tile: over the border, of no
class, below the threshold, without width, of two classes in one place, in a
chain of overlaps, seen by two tiles, cut by the border of one. `chain_pitch`
has a filter plane of six columns, narrower than the original's eight.
CHECK_DEADLOCK is FALSE because a stream
ends.

*Bounds of `requests`.* Fourteen profiles, half of them misconfigured (the wrong
role for the mode, no geometry, a tracker for line-scan frames, no frame limit,
a missing member), and every combination of the request's fields and of what
lies at the input path. One malformed field stands for all, as all end alike.

*Fairness of `tiles`.* Weak fairness of each of the four threads: the calling
thread and the three tasks are operating system threads, and a call of the SDK
returns. Exceptions and failed spawns are not fair. `CallReturns` names the
failures after which a call does not return: an exception of `infer` or `post`,
or a task behind `pre` that could not be started, leaves a producer waiting for
a queue or a pool nobody empties.

*Fairness of the runs.* `FairRunSpec` and `FairSpec` ask for weak fairness of the streaming
thread as one action and of the main thread as another: both are ordinary
operating system threads. `Kill`, `Begin` and `DeadlinePasses` are not fair:
nobody has to kill, retry or be late, so `EveryAttemptEnds` covers the
behaviours in which the deadline never passes. A source that blocks for ever in
a read is not modelled; that is what the deadline is for.

### 3.1 Findings

* *Frame limit.* The probe drops the frame above the limit, so the source sees
  a successful push and goes on to EOS, which the probe does not watch. If EOS
  arrives before the main thread's next poll, the sink publishes both files
  with the first `max_frames` frames and the process exits RETRYABLE, leaving a
  truncated pair under the final names. No `result.json` names them, so
  `DeliveryImplemented` holds.
* *Retry.* After a RETRYABLE exit such files (or partials of a sink that never
  started) are output paths that exist (`OutputExists`), so the existence check
  refuses every later process in that work directory with VALIDATION, while the
  manifest declares the tool retryable. `RetryableCanBeRetried` says that there
  are none, as it does in `GroundRun`, where it holds.
* *Late frames.* `run_pipeline()` pulls with a timeout of 100 ms and then pops
  the bus. Up to two frames and EOS that arrive between the two calls end the
  loop with samples in the appsink (`wait-on-eos` is FALSE); `cleanup()` throws
  them away and the process succeeds with a shorter product.
  `OkLosesOnlyTheQueue`, which is proved, says that this is the most a
  successful run can lose.
* *Swallowed exceptions.* `infer_gray8()` calls `wait()` on the futures of its
  tasks and never `get()`. An exception of the SDK in a task therefore ends the
  task and nothing else: the call returns `true`, with an empty error, and the
  detections of the tiles done so far. `TilesInOrder` says what is left: those
  tiles are the first ones.
* *Row pitch.* `transform()` writes row *y* at byte *y* * `filter-width`, but
  GStreamer pads a GRAY8 row to a multiple of four bytes, and detector and sink
  read with that stride. With any other width below the original's the rows are
  sheared against their readers. The installed profiles use multiples of four, for which
  `BoxesShowTheirSource` holds.

The models show more that contradicts no promise of the repository:

* A call of `infer_gray8()` can hang after a failure (see `CallReturns`).
* `nms_top_k` is passed down to `yolo5Nms()`, which does not look at it, so that
  the limit on targets is `LynxiTargets`'s alone and cuts the lower class first.
* Where the filter plane is padded, a detection in the padding makes the sink
  refuse the frame, which fails the whole run (`ElementsFit` names this case).
* A filter plane wider than the original does not fit into the buffer
  `transform()` writes to (`gst/filters/geometry_normalize.cpp` 293-313); the
  element accepts such widths. `ElementsFit` says that no other plane overruns,
  and `BoxesShowTheirSource` speaks of frames that can be mapped.
* A read that fails or falls short ends a line-scan stream like the end of the
  file, or shortens a window, without a message
  (`gst/sources/cdg00_src.cpp` 212-217): a truncated product is reported as a
  success. `EveryLineShown` says that no line is lost in any other way.

The ground run shares the probe and the loop of the product text run but has
neither of the first two problems: its files get their final names only after
the loop, on the main thread, and its collector removes what it leaves.
`RetryableCanBeRetried` and `OkMeansEveryFrame` hold and are proved for it.

## 4. Proofs

The proof modules assume only `SinkAssumption`, `RunAssumption`,
`FramesAssumption`, `GroundAssumption`, `LynxiAssumption`, `ChainAssumption` and
`RequestsAssumption`, which state the types of the constants: any category map,
set of frames, frame limit, source length, number of attempts, frame and model
size, pool size, file, profile and registry. (`ChainAssumption` also says that
the original's width is a multiple of four, as `kImageWidth` is, and that no two
files of a directory have the same name.)

`TextSinkProofs` proves `TypeOK`, `PublishedPairComplete`,
`FailedNeverPublishes` and `NothingHalfDone` from the inductive
invariant `SinkInv`, and `PublishedRecordsSound` and `CropsMatchRecords` from it
together with `RecordsInv` and `CropsInv`. The properties speak of published files; `SinkInv` adds
what has to be true before they are published. While the sink is open and has
not failed, the *partials* are a pair (`Paired`) with as many lines as frames,
and between the renames the role file pairs with the image-meta partial. It
also says in which phases no final name can exist. `failed` ends the pairing:
a write error may leave one line without its twin, and only the `failed` test
at the head of `publish()` keeps that pair from being renamed. `RecordsInv` says
that every line of a partial or a final file passed the checks of `render()`, is
the number and the targets of a frame that came with fitting caps and geometry,
the role of the mode and a camera time (`OfFittingFrames`), and has its crops: the records of a file are sound long before anybody can see
them, and renames do not look at them. `CropsInv` adds that, until the sink has
failed, there are no other crops; `CropsCorrect` states both, for the open sink
and for the published pair. A frame refused after some of its crops were
written leaves crops of no record; it sets `failed`, and nothing is published.

`ProductTextRunProofs` proves `RunTypeOK` (types, which no run repeats), `OkMeansEveryFrame`,
`NoResultLeavesNothing`, `FinalsWriteOnce` and that `RunSpec` implements
`Delivery` from `RunInv`, which adds four parts to `SinkInv`. `RunRecordsSound`
and `RunCropsPresent` carry `RecordsInv` over whole runs: between the attempts
files stay as they are, and crops are added but never removed. Hence the crops
of every target `result.json` accounts for are there; there may be more, of a
killed attempt (the open hazard of `PROJECT.json`).

* `BusInv`: a stream that failed has a first message other than EOS, and one
  that went well posts nothing before EOS. Hence a main thread that leaves its
  loop through EOS knows that no flow error occurred, though the source pushes
  EOS after errors too.
* `CountInv`: while the probe is installed and has no error it agrees with the
  filter, and with the sink when the flow was good; so the number `run()`
  compares with the files is the number of frames pushed.
* `StageInv`: what each stage of the main thread knows of the directory, for
  instance that nothing changes between verification and `result.json`.
* `ResultInv`: a `result.json` on disk belongs to the final files as they are;
  it survives retries because the existence check refuses them.

The refinement proof maps `WriteResult` to `Deliver` and every other step to a
stutter: `FinalsWriteOnce` and `ResultInv` keep the visible product unchanged.

`FramesRunProofs` proves the five invariants of the run `frames` from `IInv`,
which adds to them:

* `FlowInv`: while the loop runs, the frames of the consumer followed by the
  queue are exactly the frames sent, in order; after it at most the queue's
  worth is missing. This is why the bundle has no gap (`BundleWhole`).
* `BusInv`: as in `ProductTextRun`, the first message of a stream that failed
  is an error, so a loop that ends through EOS had a good flow.
* `BundleInv`: what each stage knows of `product.bin`, its partial and the
  digest; before the rename `product.bin` is from an earlier attempt, after it
  from this one, which is what orders it against `result.json`.
* `ExitInv`: up to the rename nothing has changed in the work directory, and
  the exceptions of `run_pipeline()` are not FATAL, so an exit code other than
  0 and FATAL means an untouched product.

`GroundRunProofs` proves the five invariants of the run `ground` and that `Spec`
implements `Delivery` from `IInv`, which adds to them:

* `BusInv`: a stream that went well posts nothing before its video is complete,
  and a failed one posts an error first; so after the loop the video is
  complete and no flow error occurred.
* `CountInv`: probe, collector and source agree while the probe is installed and
  keeps no error; after the loop this holds for good, because the source has
  ended.
* `ContentInv`: what the four files hold at each stage. The metadata is always
  what the probe let through; the video is only known while the flow is good,
  which is why `EncoderFails` must not go unnoticed.
* `PresenceInv`, `DirInv`: what may exist at each stage. While a process runs,
  `before` is empty, since the existence check passed; a path that is not
  `doomed` any more is gone. Together they give `EveryExitSettles` and
  `RetryableCanBeRetried`.
* `PlanInv`, `ResultInv`: the JSON files exist only at the last stages, and a
  `result.json` on disk is over a complete video.

The refinement maps `WriteResult` to `Deliver`; once there is a result every
later process is refused, so nothing it names changes (`ResultStays`).

The three modules of the runs also prove what `EveryAttemptEnds` rests on, apart
from fairness itself: while a process runs one of its two threads can go on
(`SomebodyCanGoOn`: `RunSomebodyRuns`, `FramesSomebodyRuns`,
`GroundSomebodyRuns`), and its steps run out (`StepsRunOut`: `RunStepsRunOut`,
`FramesStepsRunOut`, `GroundStepsRunOut`). `MainCanGoOn` and `StreamCanGoOn` are
the guards of `Main` and `Stream` spelled out, since ENABLED is out of the
prover's reach; on the instances of the runs TLC finds them equal to ENABLED.

* The loop waits for a message, a probe error or the deadline. `EndInv` says that
  the streaming thread has something to do as long as none of these is there:
  the source was started before the loop, EOS finds the sink open, and behind
  the source's end there is a message. In the `product_text` run `cleanup()`
  waits, too: for a sink that is renaming its files, which that thread finishes.
* `Left` adds the stages the main thread has before it at most, those of the
  source and of the sink, the frames not pushed yet, the probe and the deadline.
  Each step of a process, failures and kills included, lowers it. In the
  ground run the files to be removed count, too; there are at most four, and the
  stages that doom them weigh more than that.
* The default run's loop never waits: it looks at the queue, then at the bus,
  each with a short timeout. Its steps lower `Left` or belong to an `EmptyRound`,
  one that finds neither sample, message nor deadline and changes nothing but
  where the loop stands; and then the streaming thread can go on. A round that
  looks in the wrong place first costs a `Detour`, so a step that puts a sample
  or a message there is worth more than that.

`TileGridProofs` proves `TilesInside` and `TilesCover` for every frame at least
as large as the model. The stride is at most the model's width and not zero, so
the tiles along a side overlap or adjoin (`SideCovered`), and the tile of a
column and a row is found among the numbers from 1 to `TileCount`.

`LynxiTilesProofs` proves the four invariants of the run `tiles` from `IInv`:

* `FlowInv`: where each tile is. What the tasks and queues hold follows, number
  by number, what has already been inserted; a dead task keeps its tile and
  everything behind it. Hence nothing is inserted twice or out of order, and
  when all have ended without a failure, all tiles are in `out`.
* `PoolInv`: results in use and results left add up to the pool, which bounds
  `q_infer`; `pre` puts a tile only into an empty queue, which bounds `q_image`.
* `StageInv`, `CloseInv`: what each stage of the calling thread knows of the
  tasks, and that a queue is closed only when its producer has ended and it is
  empty, so no tile is lost in a closed queue.
* `NobodySleepsInVain` is itself inductive with these: `pre` sleeps only while
  `q_image` holds a tile and `infer` only while it holds none, so the two never
  sleep in it together, and waking any one waiter wakes the right one.

It also proves what `CallReturns` rests on, apart from fairness itself. By
`SomebodyRuns` a call that was not abandoned (after the failures `CallReturns`
names) always has a thread that can go on; its invariants are `HandsInv`, which
orders starts, exit flags, closed queues and stages, and `ReachInv`, which says
that nobody is ahead of `pre`, so that with a single tile no producer has to
wait. `MainCanRun`, `PreCanRun`, `InferCanRun` and `PostCanRun` are the guards of
the actions, spelled out, since ENABLED is out of the prover's reach. By
`CallsRunOut` every step of a call, whatever fails, lowers `Left`: the steps
that calling thread and tasks still have to do, four for each, and one for each
task awake. A task falls asleep without doing anything, so sleeping has to cost
something, but a step that wakes tasks does work that is worth more.

`FrameChainProofs` proves the invariants of the run `chain`: `EveryLineShown`,
`FramesFollowTheInput`, `ElementsFit`, `ObjectsReportedOnce` and, for filter
planes whose rows are not padded and that fit into their buffer,
`BoxesShowTheirSource`; and
`ColumnsFollowTheMap`, the arithmetic core of the last: a column inside a box is
copied from a column of the original that the box covers once it is mapped
back, for every scale and offset. They follow from `ChainInv`, whose parts are

* `LinesInv`: every valid line before the offset is on its way, recorded or
  `unread`, and the source ends by itself only behind the last whole line or
  where a read delivered none, which leaves the rest `unread`;
* `OverrunInv`: the chain is `undefined` only where a pixel of the plane lies
  behind the buffer, and a plane no wider than the original has none such
  (`PlaneFits`);
* `GivenInv`: input, profile and scene are one of those the constants allow;
* `MetaInv`: which metadata the frame has behind each element, and what is in
  it. An element finds what it asks for because the one before it has put it
  there, and a copied buffer keeps all of it (`CopyMeta`);
* `CountInv`: frame numbers of source, tracker and detector and the number of
  records are the same count, also while a frame is between two of them;
* `WindowInv`: which lines the frame in the chain was decoded from, and that
  they come behind those of every record;
* `ImagesInv`: which files of a directory have been read, in the order of their
  names.

`ObjectsReportedOnce` is about what suppression leaves of the detections of all
tiles. It is proved from what a round of `yolo5Nms()` keeps true (`Merged`): no
two of the kept detections show the same object, for each one looked at so far
a kept one stands that is at least as good, and what is kept was found. The
second part is what makes two rounds, within a tile and over the frame, compose
(`StandIn`).

Recursive functions are what the loops of the code became (`Keep`, `Believe`,
`Decoded`, `CopyOf`, `LynxiTargets`). The library's induction theorems cannot be
instantiated here, so the module proves its own induction from well-foundedness
of the naturals: a set of numbers that is not empty has a least one
(`LeastNat`), so a set that contains 0 and successors is everything
(`SetInduction`), and so a loop computes what its body keeps (`LoopExists`).
What is sorted - detections by class and score, files by name - is placed by the
number of elements before it in a strict order (`Places`).

`RequestsProofs` proves `OnlySoundCalls` from `CallsInv`: a process past
validation has a request that passed it, and a started one an input that was
verified. `OnlySoundCalls` then follows case by case on the output mode.

Left to TLC: liveness under fairness (`EveryAttemptEnds` of the three runs, and
`CallReturns`, of which only the step from "somebody can go on, and not for
ever" to "it ends" is missing, which needs ENABLED and an induction on `Left`). Every other property of a passing run is a
theorem; `BoxesShowTheirSource` is one with the premise that the filter's width
is a multiple of four, since without it `chain_pitch` refutes it; that the frame
can be mapped is part of the property. The other
four violations are counterexamples and nothing to prove.

## 5. What is not modelled

* The text of the JSON lines, TIFF encoding, digests (a digest is the content),
  resource sampling, logging and provenance: no property is about them.
* Power loss: files survive a kill of the process, not a crash of the system.
* Two processes running in one work directory *at the same time*: the task
  manager gives each task its own; the existence check is not a lock.
* Of the post-processing (`backends/lynxi/infer/`): half floats and rounding, the
  second axis, the tensors of YOLOv5 and YOLOv9 (the installed model is a
  YOLOv8), and `tensorpostV5Process()`, which nothing calls.
* The Lynxi environment and the vendor SDK headers, which decide nothing: they
  appear as steps that succeed or fail.
* Plugin registration, and setting and reading properties of elements: values
  are set before a pipeline starts and are part of `profile`.
* What a process does after the geometry has written behind its buffer.
* The unpacking of pixels: a pixel is its line and column.
* Single-field checks of a request in their order: which of them fails first
  changes only the wording of the error.
* Most of `backends/lynxi/include/utils/utils.hpp`, `logger.hpp` and other
  helpers the program never calls.
* `write_product_from_files()`, which no run calls.

## 6. Plan

Everything the first plan named is modelled, and every safety property the runs
check is proved. What could be added, in order of importance:

1. Crops across attempts whose input differs: the existence check does not look
   into `crops/`.
2. `LynxiTiles` under `FrameChain`: a stream whose detector loses tiles.
