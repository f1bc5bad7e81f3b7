------------------------------ MODULE K4ABackend ------------------------------
(***************************************************************************)
(* One Azure Kinect: Backends/K4A/K4ABackend.cpp.                          *)
(*                                                                         *)
(* libk4a is a pull interface, so the backend owns the two threads that    *)
(* call the host: one blocked in k4a_device_get_capture, one in            *)
(* k4a_device_get_imu_sample.  Each may give up when its camera fails, and *)
(* start and stop must cope with a thread that did.  A std::thread that is *)
(* overwritten or destroyed before it is joined ends the process.          *)
(*                                                                         *)
(* An image of libk4a is counted: the capture refers to it, the thread     *)
(* while it handles the capture, and every holder lent to the host, which  *)
(* may return it after the camera is closed.                               *)
(*                                                                         *)
(* The host calls open, start, stop and close one at a time.               *)
(***************************************************************************)
EXTENDS Naturals, FiniteSets

CONSTANTS
  Image  \* the images of libk4a's pool

VARIABLES
  opened,      \* there is a depthcam_device, with its handle
  wantImu,     \* dev->want_imu, and libk4a can start an IMU
  running,     \* dev->running
  imuRunning,  \* dev->imu_running
  imuOn,       \* k4a_device_start_imu succeeded, stop_imu was not called
  call,        \* what the host's call is doing
  closing,     \* that call is close
  capturer,    \* dev->thread
  sampler,     \* dev->imu_thread
  capture,     \* the images of the capture being handled
  todo,        \* those emitImage was not called with yet
  refs,        \* the reference count of an image
  held         \* the images the host has a holder of

callVars  == <<opened, wantImu, call, closing>>
flagVars  == <<running, imuRunning, imuOn>>
imageVars == <<capture, todo, refs, held>>
vars == <<callVars, flagVars, capturer, sampler, imageVars>>

\* "none": not joinable; "ended": returned from run, and not joined yet.
ThreadState == {"none", "test", "wait", "emit", "host", "ended"}
Call == {"idle", "startImu", "stopImu", "joinImu", "stop", "join", "delete"}

TypeOK ==
  /\ opened \in BOOLEAN /\ wantImu \in BOOLEAN /\ closing \in BOOLEAN
  /\ running \in BOOLEAN /\ imuRunning \in BOOLEAN /\ imuOn \in BOOLEAN
  /\ call \in Call
  /\ capturer \in ThreadState
  /\ sampler \in ThreadState \ {"emit"}
  /\ capture \subseteq Image /\ todo \subseteq capture
  /\ held \subseteq Image
  /\ refs \in [Image -> Nat]

Init ==
  /\ opened = FALSE /\ wantImu = FALSE /\ closing = FALSE
  /\ running = FALSE /\ imuRunning = FALSE /\ imuOn = FALSE
  /\ call = "idle" /\ capturer = "none" /\ sampler = "none"
  /\ capture = {} /\ todo = {} /\ held = {}
  /\ refs = [i \in Image |-> 0]

-----------------------------------------------------------------------------
(* What the host calls *)

\* backend_open, when it succeeds; a failed one leaves no device.
Open ==
  /\ call = "idle" /\ ~opened
  /\ opened' = TRUE
  /\ wantImu' \in BOOLEAN
  /\ UNCHANGED <<call, closing, flagVars, capturer, sampler, imageVars>>

\* backend_start of a camera that does not run: the capture thread begins.
\* Of one that does it returns 1, whatever became of its thread.
Start ==
  /\ call = "idle" /\ opened /\ ~running
  /\ running' = TRUE
  /\ capturer' = "test"
  /\ call' = IF wantImu THEN "startImu" ELSE "idle"
  /\ UNCHANGED <<opened, wantImu, closing, imuRunning, imuOn, sampler, imageVars>>

\* A camera whose IMU refuses to start still has video.
StartImu ==
  /\ call = "startImu"
  /\ call' = "idle"
  /\ \/ /\ imuOn' = TRUE /\ imuRunning' = TRUE
        /\ sampler' = "test"
     \/ UNCHANGED <<imuOn, imuRunning, sampler>>
  /\ UNCHANGED <<opened, wantImu, closing, running, capturer, imageVars>>

\* The exchange of imu_running that begins backend_stop, alone or in
\* backend_close.
Stop ==
  /\ call = "idle" /\ opened
  /\ closing' \in BOOLEAN
  /\ imuRunning' = FALSE
  /\ call' = IF imuRunning THEN "stopImu" ELSE "stop"
  /\ UNCHANGED <<opened, wantImu, running, imuOn, capturer, sampler, imageVars>>

StopImu ==
  /\ call = "stopImu"
  /\ imuOn' = FALSE
  /\ call' = "joinImu"
  /\ UNCHANGED <<opened, wantImu, closing, running, imuRunning, capturer, sampler, imageVars>>

JoinImu ==
  /\ call = "joinImu"
  /\ sampler \in {"none", "ended"}
  /\ sampler' = "none"
  /\ call' = "stop"
  /\ UNCHANGED <<opened, wantImu, closing, flagVars, capturer, imageVars>>

AfterStop == IF closing THEN "delete" ELSE "idle"

\* A slip: stop does not wait for the thread.
StopCapture_NotJoined ==
  /\ call = "stop"
  /\ running' = FALSE
  /\ call' = AfterStop
  /\ UNCHANGED <<opened, wantImu, closing, imuRunning, imuOn, capturer, sampler, imageVars>>

\* The exchange of running: nothing to join when it was false.
StopCapture ==
  /\ call = "stop"
  /\ running' = FALSE
  /\ call' = IF running THEN "join" ELSE AfterStop
  /\ UNCHANGED <<opened, wantImu, closing, imuRunning, imuOn, capturer, sampler, imageVars>>

Join ==
  /\ call = "join"
  /\ capturer \in {"none", "ended"}
  /\ capturer' = "none"
  /\ call' = AfterStop
  /\ UNCHANGED <<opened, wantImu, closing, flagVars, sampler, imageVars>>

\* The rest of backend_close: the handle is closed and the device deleted.
Delete ==
  /\ call = "delete"
  /\ opened' = FALSE /\ wantImu' = FALSE /\ closing' = FALSE
  /\ call' = "idle"
  /\ UNCHANGED <<flagVars, capturer, sampler, imageVars>>

-----------------------------------------------------------------------------
(* The capture thread: depthcam_device::run *)

TestRunning ==
  /\ capturer = "test"
  /\ capturer' = IF running THEN "wait" ELSE "ended"
  /\ UNCHANGED <<callVars, flagVars, sampler, imageVars>>

\* k4a_device_get_capture times out after a second.
CaptureTimesOut ==
  /\ capturer = "wait"
  /\ capturer' = "test"
  /\ UNCHANGED <<callVars, flagVars, sampler, imageVars>>

\* It fails: the thread ends, and running stays set.
CaptureFails ==
  /\ capturer = "wait"
  /\ capturer' = "ended"
  /\ UNCHANGED <<callVars, flagVars, sampler, imageVars>>

\* A capture has some of colour, depth and infrared.  It refers to its
\* images, and handleCapture obtains a reference of its own to each.
CaptureArrives ==
  /\ capturer = "wait"
  /\ \E images \in SUBSET {i \in Image : refs[i] = 0} :
       /\ capture' = images /\ todo' = images
       /\ refs' = [i \in Image |-> IF i \in images THEN 2 ELSE refs[i]]
  /\ capturer' = "emit"
  /\ UNCHANGED <<callVars, flagVars, sampler, held>>

\* A slip: the holder relies on the capture's reference.
EmitImage_NoReference(i) ==
  /\ capturer = "emit" /\ i \in todo
  /\ todo' = todo \ {i}
  /\ held' = held \cup {i}
  /\ capturer' = "host"
  /\ UNCHANGED <<callVars, flagVars, sampler, capture, refs>>

\* emitImage of a stream that was asked for: a reference for the holder, then
\* on_frame.
EmitImage(i) ==
  /\ capturer = "emit" /\ i \in todo
  /\ todo' = todo \ {i}
  /\ refs' = [refs EXCEPT ![i] = @ + 1]
  /\ held' = held \cup {i}
  /\ capturer' = "host"
  /\ UNCHANGED <<callVars, flagVars, sampler, capture>>

\* The stream was not asked for, or the host would not know the format.
SkipImage(i) ==
  /\ capturer = "emit" /\ i \in todo
  /\ todo' = todo \ {i}
  /\ UNCHANGED <<callVars, flagVars, capturer, sampler, capture, refs, held>>

FrameReturns ==
  /\ capturer = "host"
  /\ capturer' = "emit"
  /\ UNCHANGED <<callVars, flagVars, sampler, imageVars>>

\* handleCapture releases its references and run the capture, with the
\* capture's own.
ReleaseCapture ==
  /\ capturer = "emit" /\ todo = {}
  /\ refs' = [i \in Image |-> IF i \in capture THEN refs[i] - 2 ELSE refs[i]]
  /\ capture' = {}
  /\ capturer' = "test"
  /\ UNCHANGED <<callVars, flagVars, sampler, todo, held>>

\* release_image_holder: any thread of the host, at any time after it was lent.
ReleaseHolder(i) ==
  /\ i \in held
  /\ held' = held \ {i}
  /\ refs' = [refs EXCEPT ![i] = @ - 1]
  /\ UNCHANGED <<callVars, flagVars, capturer, sampler, capture, todo>>

-----------------------------------------------------------------------------
(* The IMU's thread: depthcam_device::runImu *)

TestImuRunning ==
  /\ sampler = "test"
  /\ sampler' = IF imuRunning THEN "wait" ELSE "ended"
  /\ UNCHANGED <<callVars, flagVars, capturer, imageVars>>

SampleTimesOut ==
  /\ sampler = "wait"
  /\ sampler' = "test"
  /\ UNCHANGED <<callVars, flagVars, capturer, imageVars>>

\* The camera failed, or k4a_device_stop_imu woke the thread up.
SampleFails ==
  /\ sampler = "wait"
  /\ sampler' = "ended"
  /\ UNCHANGED <<callVars, flagVars, capturer, imageVars>>

SampleArrives ==
  /\ sampler = "wait" /\ imuOn
  /\ sampler' = "host"
  /\ UNCHANGED <<callVars, flagVars, capturer, imageVars>>

SampleReturns ==
  /\ sampler = "host"
  /\ sampler' = "test"
  /\ UNCHANGED <<callVars, flagVars, capturer, imageVars>>

-----------------------------------------------------------------------------

CallStep == StartImu \/ StopImu \/ JoinImu \/ StopCapture \/ Join \/ Delete
WaitEnds == CaptureTimesOut \/ CaptureFails \/ CaptureArrives
CaptureStep ==
  \/ TestRunning \/ WaitEnds \/ FrameReturns \/ ReleaseCapture
  \/ \E i \in Image : EmitImage(i) \/ SkipImage(i)
SampleStep ==
  TestImuRunning \/ SampleTimesOut \/ SampleFails \/ SampleArrives \/ SampleReturns

Next ==
  \/ Open \/ Start \/ Stop \/ CallStep
  \/ CaptureStep \/ SampleStep
  \/ \E i \in Image : ReleaseHolder(i)

Spec == Init /\ [][Next]_vars

\* A call and a thread inside the code go on, libk4a's waits end within their
\* second, and on_frame returns.  Nobody has to call, or to return a holder.
Fairness == WF_vars(CallStep) /\ WF_vars(CaptureStep) /\ WF_vars(SampleStep)

-----------------------------------------------------------------------------
(* Properties *)

\* start never assigns a std::thread that is joinable, and close never
\* destroys one: both would end the process, even when a thread gave up by
\* itself long before.
ThreadsAreJoinedFirst ==
  [][/\ Start => capturer = "none"
     /\ StartImu /\ imuOn' # imuOn => sampler = "none"
     /\ Delete => capturer = "none" /\ sampler = "none"]_vars

References(i) ==
  (IF i \in capture THEN 2 ELSE 0) + (IF i \in held THEN 1 ELSE 0)

\* An image is counted once for each of its users, so it outlives the capture
\* and even the camera while the host draws it, and goes back to libk4a's pool
\* when the last of them is done.
ImagesAreCounted == \A i \in Image : refs[i] = References(i)

\* The contract of a backend, for this camera and its two threads: it streams
\* while there is a thread to join.
Contract == INSTANCE BackendContract WITH
  Camera <- {"kinect"},
  Thread <- {"capturer", "sampler"},
  Joining <- TRUE,
  open <- IF opened THEN {"kinect"} ELSE {},
  streaming <- IF capturer # "none" \/ sampler # "none" THEN {"kinect"} ELSE {},
  delivering <- [c \in {"kinect"} |->
                   {t \in {"capturer", "sampler"} :
                      (IF t = "capturer" THEN capturer ELSE sampler) = "host"}]

\* stop and close return, whatever became of the threads they join.
StopReturns == (call \in Call \ {"idle"}) ~> (call = "idle")
=============================================================================
