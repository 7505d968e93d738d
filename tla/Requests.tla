----------------------------- MODULE Requests -----------------------------
(***************************************************************************)
(* What stands between a JSON request and a pipeline                       *)
(* (src/src/tool/image_process.cpp): validate_request(), and run() up to   *)
(* the call of the pipeline - plan, preflight, dry run, input verification *)
(* and the choice of the pipeline and of its parameters.                   *)
(*                                                                         *)
(* Of a request the model keeps what is compared with something else; the  *)
(* checks that look at one field alone are "malformed", the first of them  *)
(* that fails.                                                             *)
(***************************************************************************)
EXTENDS Integers, Sequences

CONSTANTS
    Registry,  \* configs/runtime/profiles.json: profile id -> profile
    Requested  \* the requests a caller may make

Single_field_faults ==
    {"not an object", "extra field", "schema_version", "request_id", "trace_id",
     "acquisition_mode", "sensor", "input", "artifact_ref", "media_type",
     "size_bytes", "sha256", "processing", "runtime_profile", "max_frames"}

Roles == {"detection", "detection_fixture", "tracking", "parse"}

\* size_bytes and sha256: absent, or whether they are those of the file;
\* max_frames: <<>> where it is absent.
Request ==
    [malformed : Single_field_faults \cup {"none"},
     mode : {"pushbroom", "stare"}, sensor : STRING, profile : STRING,
     path : {"absent", "empty", "not a string", "given"},
     size_bytes : {"absent", "right", "wrong"}, sha256 : {"absent", "right", "wrong"},
     max_frames : Seq(Int)]

\* complete: every member that run() asks for with at() is there.
Profile ==
    [sensor : STRING, mode : {"pushbroom", "stare"},
     output_mode : {"frames", "product_text", "ground_cdg00"},
     backend : {"none", "mock", "lynxi"}, geometry : BOOLEAN, category_map : BOOLEAN,
     role : Roles, synthetic : BOOLEAN, images : BOOLEAN,
     max_frames : Nat, complete : BOOLEAN]

ASSUME RequestsAssumption ==
    /\ \A id \in DOMAIN Registry : Registry[id] \in Profile
    /\ Requested \subseteq Request

VARIABLES
    request,  \* what the caller sent
    command,  \* validate, dry_run or run
    on_disk,  \* what input.path names
    phase,    \* where the process stands
    exit,     \* its exit code
    started   \* the pipeline it calls, <<>> before

vars == <<request, command, on_disk, phase, exit, started>>

-----------------------------------------------------------------------------
(* validate_request() *)

Sensor_takes_mode(r) ==
    /\ ~(r.sensor = "sat-a.area-array" /\ r.mode = "pushbroom")
    /\ ~(r.sensor = "sat-c.line-array" /\ r.mode = "stare")

Profile_matches(r, p) == p.sensor = r.sensor /\ p.mode = r.mode

Product_text_complete(p) ==
    p.output_mode = "product_text" =>
        /\ p.backend \in {"mock", "lynxi"}
        /\ p.geometry
        /\ p.category_map
        /\ p.role \in {"detection", "tracking"}

\* Bug: stare mode takes any role.
RoleFitsPushbroomOnly(r, p) ==
    /\ p.output_mode = "ground_cdg00" => p.role = "parse"
    /\ (p.output_mode # "ground_cdg00" /\ r.mode = "pushbroom") =>
            p.role \in {"detection", "detection_fixture"}

\* In pushbroom mode the role has to contain "detection".
RoleFits(r, p) ==
    /\ p.output_mode = "ground_cdg00" => p.role = "parse"
    /\ (p.output_mode # "ground_cdg00" /\ r.mode = "pushbroom") =>
            p.role \in {"detection", "detection_fixture"}
    /\ r.mode = "stare" => p.role = "tracking"

\* path is looked at only where a file is needed.
Input_named(r, p) ==
    /\ ~p.synthetic => r.path = "given"
    /\ p.output_mode = "ground_cdg00" =>
            r.size_bytes # "absent" /\ r.sha256 # "absent"

Frames_allowed(r, p) ==
    r.max_frames # <<>> =>
        1 <= r.max_frames[1] /\ r.max_frames[1] <= p.max_frames

Validate_request(r) ==
    /\ r.malformed = "none"
    /\ Sensor_takes_mode(r)
    /\ r.profile \in DOMAIN Registry
    /\ LET p == Registry[r.profile]
       IN  /\ Profile_matches(r, p)
           /\ Product_text_complete(p)
           /\ RoleFits(r, p)
           /\ Input_named(r, p)
           /\ Frames_allowed(r, p)

-----------------------------------------------------------------------------
(* main() and run() *)

Init ==
    /\ request \in Requested
    /\ command \in {"validate", "dry_run", "run"}
    /\ on_disk \in {"nothing", "symlink", "file", "directory", "directory with links"}
    /\ phase = "validate"
    /\ exit = "none"
    /\ started = <<>>

Ends(code) ==
    /\ phase' = "ended"
    /\ exit' = code
    /\ UNCHANGED <<request, command, on_disk, started>>

Goes(to) ==
    /\ phase' = to
    /\ UNCHANGED <<request, command, on_disk, exit, started>>

Refuse ==
    /\ phase = "validate"
    /\ ~Validate_request(request)
    /\ Ends("VALIDATION")

ReportValid ==
    /\ phase = "validate" /\ command = "validate"
    /\ Validate_request(request)
    /\ Ends("OK")

Accept ==
    /\ phase = "validate" /\ command # "validate"
    /\ Validate_request(request)
    /\ Goes("plan")

Installed == Registry[request.profile]

\* at() of a missing member throws a json exception.
PlanThrows ==
    /\ phase = "plan"
    /\ ~Installed.complete
    /\ Ends("VALIDATION")

\* GStreamer cannot be initialised or a factory is missing.
PreflightFails ==
    /\ phase = "plan"
    /\ Installed.complete
    /\ Ends("DEPENDENCY")

DryRun ==
    /\ phase = "plan" /\ command = "dry_run"
    /\ Installed.complete
    /\ Ends("OK")

Preflight ==
    /\ phase = "plan" /\ command = "run"
    /\ Installed.complete
    /\ Goes("input")

\* create_directories() throws a filesystem_error.
WorkDirFails ==
    /\ phase = "input"
    /\ Ends("FATAL")

\* symlink_status() does not follow links; a directory is a sequence of
\* images and has no digest, whatever it holds is a file or a directory.
Verify_input_artifact ==
    IF Installed.images
    THEN /\ on_disk = "directory"
         /\ request.size_bytes = "absent" /\ request.sha256 = "absent"
    ELSE /\ on_disk = "file"
         /\ request.size_bytes # "wrong" /\ request.sha256 # "wrong"

\* An empty path names nothing.
InputReadable ==
    CASE request.path = "absent" -> TRUE
      [] request.path \in {"empty", "not a string"} -> FALSE
      [] request.path = "given" -> Verify_input_artifact

InputRefused ==
    /\ phase = "input"
    /\ ~InputReadable
    /\ Ends("VALIDATION")

Call ==
    [pipeline |-> Installed.output_mode,
     limit |-> IF request.max_frames = <<>> THEN Installed.max_frames
               ELSE request.max_frames[1],
     sink_mode |-> IF request.mode = "pushbroom" THEN "targets" ELSE "tracks",
     input |-> IF request.path = "absent" THEN "none" ELSE on_disk]

Start ==
    /\ phase = "input"
    /\ InputReadable
    /\ started' = Call
    /\ phase' = "started"
    /\ UNCHANGED <<request, command, on_disk, exit>>

Next ==
    \/ Refuse \/ ReportValid \/ Accept
    \/ PlanThrows \/ PreflightFails \/ DryRun \/ Preflight
    \/ WorkDirFails \/ InputRefused \/ Start

Spec == Init /\ [][Next]_vars
-----------------------------------------------------------------------------
(* Properties *)

\* Whatever the registry holds and the caller asks for, a pipeline is called
\* only when it can do what it is called for: the sink's mode is that of the
\* filter's role, a tracker never sees line-scan frames nor a detector staring
\* ones, no satellite works in the other's mode, an input is of the kind the
\* source reads and never a link, it is there unless the profile brings its
\* own, a ground input has been compared with both digests, and a caller can
\* lower the profile's frame limit but neither raise it nor reach zero
\* (validate_request(), verify_input_artifact() and run() together).
OnlySoundCalls ==
    phase = "started" =>
        LET p == Registry[request.profile]
        IN  /\ started.pipeline = "product_text" =>
                (started.sink_mode = "tracks" <=> p.role = "tracking")
            /\ p.role = "tracking" => request.mode = "stare"
            /\ p.role \in {"detection", "detection_fixture"} => request.mode = "pushbroom"
            /\ p.sensor = "sat-a.area-array" => p.mode = "stare"
            /\ p.sensor = "sat-c.line-array" => p.mode = "pushbroom"
            /\ started.input \in {"none", "file", "directory"}
            /\ started.input = "none" => p.synthetic
            /\ started.input = "directory" => p.images
            /\ started.input = "file" => ~p.images
            /\ (started.pipeline = "ground_cdg00" /\ started.input # "none") =>
                request.size_bytes = "right" /\ request.sha256 = "right"
            /\ started.limit <= p.max_frames
            /\ p.max_frames > 0 => started.limit > 0
-----------------------------------------------------------------------------
(* Inductive invariant: what has been looked at stays true. *)

CallsInv ==
    /\ request \in Requested
    /\ phase \in {"validate", "plan", "input", "started", "ended"}
    /\ phase \in {"plan", "input", "started"} => Validate_request(request)
    /\ phase = "started" => InputReadable /\ started = Call
=============================================================================
