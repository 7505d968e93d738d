--------------------------- MODULE RequestsProofs ---------------------------
(***************************************************************************)
(* Proof that no request and no registry, however wrong, makes run() call  *)
(* a pipeline it should not call.                                          *)
(***************************************************************************)
EXTENDS Requests, TLAPS

\* A new process has looked at nothing yet.
LEMMA InitCalls == Init => CallsInv
  BY DEF Init, CallsInv

\* Every step of main() and run() keeps what has been established: a request
\* leaves "validate" only if it is valid, and a pipeline is called only for an
\* input that was verified.
LEMMA StepCalls == CallsInv /\ [Next]_vars => CallsInv'
  <1> SUFFICES ASSUME CallsInv, [Next]_vars PROVE CallsInv'
    OBVIOUS
  <1>1. CASE Refuse \/ ReportValid \/ PlanThrows \/ PreflightFails \/ DryRun
                \/ WorkDirFails \/ InputRefused
    BY <1>1 DEF Refuse, ReportValid, PlanThrows, PreflightFails, DryRun,
                WorkDirFails, InputRefused, Ends, CallsInv
  <1>2. CASE Accept \/ Preflight
    <2>1. request' = request /\ phase' \in {"plan", "input"} /\ Validate_request(request)
      BY <1>2 DEF Accept, Preflight, Goes, CallsInv
    <2>2. Validate_request(request)' <=> Validate_request(request)
      BY <2>1 DEF Validate_request
    <2> QED
      BY <2>1, <2>2 DEF CallsInv
  <1>3. CASE Start
    <2>1. /\ phase = "input" /\ phase' = "started" /\ InputReadable
          /\ request' = request /\ on_disk' = on_disk /\ started' = Call
      BY <1>3 DEF Start
    <2>2. Validate_request(request)' <=> Validate_request(request)
      BY <2>1 DEF Validate_request
    <2>3. /\ InputReadable' <=> InputReadable
          /\ Call' = Call
      BY <2>1 DEF InputReadable, Verify_input_artifact, Installed, Call
    <2> QED
      BY <2>1, <2>2, <2>3 DEF CallsInv
  <1>4. CASE UNCHANGED vars
    <2>1. /\ request' = request /\ phase' = phase /\ on_disk' = on_disk
          /\ started' = started
      BY <1>4 DEF vars
    <2>2. Validate_request(request)' <=> Validate_request(request)
      BY <2>1 DEF Validate_request
    <2>3. /\ InputReadable' <=> InputReadable
          /\ Call' = Call
      BY <2>1 DEF InputReadable, Verify_input_artifact, Installed, Call
    <2> QED
      BY <2>1, <2>2, <2>3 DEF CallsInv
  <1> QED
    BY <1>1, <1>2, <1>3, <1>4 DEF Next

\* A frame limit that is there is an integer.
LEMMA FirstIsInt ==
  ASSUME NEW limit \in Seq(Int), limit # <<>>
  PROVE  limit[1] \in Int
  OBVIOUS

\* Whatever the registry and the request, only sound calls are made.
THEOREM SoundCallsCorrect == Spec => []OnlySoundCalls
  <1>1. CallsInv => OnlySoundCalls
    <2> SUFFICES ASSUME CallsInv, phase = "started", NEW p, p = Registry[request.profile]
                 PROVE  /\ (started.pipeline = "product_text" =>
                            (started.sink_mode = "tracks" <=> p.role = "tracking"))
                        /\ (p.role = "tracking" => request.mode = "stare")
                        /\ (p.role \in {"detection", "detection_fixture"} =>
                            request.mode = "pushbroom")
                        /\ p.sensor = "sat-a.area-array" => p.mode = "stare"
                        /\ p.sensor = "sat-c.line-array" => p.mode = "pushbroom"
                        /\ started.input \in {"none", "file", "directory"}
                        /\ started.input = "none" => p.synthetic
                        /\ started.input = "directory" => p.images
                        /\ started.input = "file" => ~p.images
                        /\ (started.pipeline = "ground_cdg00" /\ started.input # "none") =>
                            request.size_bytes = "right" /\ request.sha256 = "right"
                        /\ started.limit <= p.max_frames
                        /\ p.max_frames > 0 => started.limit > 0
      BY DEF OnlySoundCalls
    <2>1. /\ Validate_request(request) /\ InputReadable /\ started = Call
          /\ request \in Request /\ request.profile \in DOMAIN Registry
      BY RequestsAssumption DEF CallsInv, Validate_request
    <2>2. p \in Profile
      BY <2>1, RequestsAssumption
    <2>3. /\ p.mode \in {"pushbroom", "stare"} /\ p.role \in Roles
          /\ p.max_frames \in Nat
          /\ p.output_mode \in {"frames", "product_text", "ground_cdg00"}
          /\ request.path \in {"absent", "empty", "not a string", "given"}
          /\ request.mode \in {"pushbroom", "stare"}
          /\ request.size_bytes \in {"absent", "right", "wrong"}
          /\ request.sha256 \in {"absent", "right", "wrong"}
          /\ request.max_frames \in Seq(Int)
      BY <2>1, <2>2 DEF Request, Profile
    <2>4. /\ Sensor_takes_mode(request) /\ Profile_matches(request, p)
          /\ Product_text_complete(p) /\ RoleFits(request, p)
          /\ Input_named(request, p) /\ Frames_allowed(request, p)
      BY <2>1 DEF Validate_request
    <2>5. /\ started.pipeline = p.output_mode
          /\ started.limit = IF request.max_frames = <<>> THEN p.max_frames
                             ELSE request.max_frames[1]
          /\ started.sink_mode = IF request.mode = "pushbroom" THEN "targets" ELSE "tracks"
          /\ started.input = IF request.path = "absent" THEN "none" ELSE on_disk
      BY <2>1 DEF Call, Installed
    <2>6. /\ p.role = "tracking" => request.mode = "stare"
          /\ p.role \in {"detection", "detection_fixture"} => request.mode = "pushbroom"
          /\ p.output_mode = "product_text" => p.role \in {"detection", "tracking"}
      BY <2>3, <2>4 DEF RoleFits, Product_text_complete
    <2>7. /\ p.sensor = "sat-a.area-array" => p.mode = "stare"
          /\ p.sensor = "sat-c.line-array" => p.mode = "pushbroom"
      BY <2>3, <2>4 DEF Profile_matches, Sensor_takes_mode
    <2>8. request.path \in {"absent", "given"}
      BY <2>1, <2>3 DEF InputReadable
    <2>9. /\ started.input \in {"none", "file", "directory"}
          /\ started.input = "none" => p.synthetic
          /\ started.input = "directory" => p.images
          /\ started.input = "file" => ~p.images
          /\ (started.pipeline = "ground_cdg00" /\ started.input # "none") =>
                request.size_bytes = "right" /\ request.sha256 = "right"
      <3>1. CASE request.path = "given"
        <4>1. Verify_input_artifact
          BY <2>1, <3>1 DEF InputReadable
        <4>2. on_disk = IF p.images THEN "directory" ELSE "file"
          BY <4>1 DEF Verify_input_artifact, Installed
        <4>3. p.output_mode = "ground_cdg00" =>
                  request.size_bytes = "right" /\ request.sha256 = "right"
          BY <4>1, <2>3, <2>4 DEF Verify_input_artifact, Installed, Input_named
        <4> QED
          BY <2>5, <3>1, <4>2, <4>3
      <3>2. CASE request.path = "absent"
        BY <2>4, <2>5, <3>2 DEF Input_named
      <3> QED
        BY <2>8, <3>1, <3>2
    <2>10. p.max_frames \in Nat
      BY <2>3
    <2>11. started.limit <= p.max_frames /\ (p.max_frames > 0 => started.limit > 0)
      <3>1. CASE request.max_frames = <<>>
        <4>1. started.limit = p.max_frames
          BY <2>5, <3>1, Zenon
        <4> QED
          BY <2>10, <4>1
      <3>2. CASE request.max_frames # <<>>
        <4>1. request.max_frames[1] \in Int
          BY <2>3, <3>2, FirstIsInt
        <4>2. 1 <= request.max_frames[1] /\ request.max_frames[1] <= p.max_frames
          BY <2>4, <3>2, Zenon DEF Frames_allowed
        <4>3. started.limit = request.max_frames[1]
          BY <2>5, <3>2, Zenon
        <4> QED
          BY <2>10, <4>1, <4>2, <4>3
      <3> QED
        BY <3>1, <3>2
    <2>12. started.pipeline = "product_text" =>
              (started.sink_mode = "tracks" <=> p.role = "tracking")
      BY <2>3, <2>5, <2>6
    <2> QED
      BY <2>6, <2>7, <2>9, <2>11, <2>12
  <1> QED
    BY <1>1, InitCalls, StepCalls, PTL DEF Spec
=============================================================================
