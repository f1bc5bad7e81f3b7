---------------------------- MODULE DepthAIBackend ----------------------------
(***************************************************************************)
(* One OAK camera: Backends/DepthAI/DepthAiBackend.cpp.                    *)
(*                                                                         *)
(* A pipeline of depthai that was stopped cannot be started again, so it   *)
(* is started once and goes on until the camera is closed: stop only makes *)
(* the callbacks drop what they get.  It does not wait for them, so a      *)
(* message whose callback found running set may reach the host after stop  *)
(* has returned.  There is one thread per output queue, depthai's own.     *)
(*                                                                         *)
(* The host calls open, start, stop and close one at a time, and           *)
(* set_control from the worker of the camera's control tree.  depthai is   *)
(* external: start may throw, and wait() waits for the callbacks.          *)
(***************************************************************************)
EXTENDS Naturals

CONSTANTS
  Queue,    \* the output queues of the pipeline
  Setting,  \* what the camera's controls may be set to
  Default,  \* ... and are to begin with
  None,
  MaxItems  \* bound: packets in a message of the IMU

VARIABLES
  opened,          \* there is a depthcam_device
  running,         \* dev->running
  started,         \* dev->started: the pipeline runs
  callbacksAdded,  \* dev->callbacks_added
  callbacks,       \* how often a callback was appended to each queue
  call,            \* what the host's call is doing
  closing,         \* that call is close
  left,            \* what remains of the message a queue's thread has taken
  inHost,          \* the queues whose thread is inside on_frame
  setting,         \* the mirrors of what was last written
  sent             \* what the camera was last told, or Lost

pipelineVars == <<started, callbacksAdded, callbacks>>
callVars     == <<opened, call, closing>>
messageVars  == <<left, inHost>>
settingVars  == <<setting, sent>>
vars == <<callVars, running, pipelineVars, messageVars, settingVars>>

Call == {"idle", "add", "start", "apply", "stop", "wait"}

\* The message threw, and applyCameraControl swallowed that.
Lost == "lost"

TypeOK ==
  /\ opened \in BOOLEAN /\ closing \in BOOLEAN /\ running \in BOOLEAN
  /\ started \in BOOLEAN /\ callbacksAdded \in BOOLEAN
  /\ callbacks \in Nat
  /\ call \in Call
  /\ left \in [Queue -> 0..MaxItems]
  /\ inHost \subseteq Queue
  /\ setting \in Setting /\ sent \in Setting \cup {None, Lost}

Fresh ==
  /\ running' = FALSE /\ started' = FALSE
  /\ callbacksAdded' = FALSE /\ callbacks' = 0
  /\ setting' = Default /\ sent' = None

Init ==
  /\ opened = FALSE /\ closing = FALSE /\ running = FALSE
  /\ started = FALSE /\ callbacksAdded = FALSE /\ callbacks = 0
  /\ call = "idle"
  /\ left = [q \in Queue |-> 0] /\ inHost = {}
  /\ setting = Default /\ sent = None

-----------------------------------------------------------------------------
(* What the host calls *)

\* backend_open, when it succeeds.
Open ==
  /\ call = "idle" /\ ~opened
  /\ opened' = TRUE
  /\ UNCHANGED <<call, closing, running, pipelineVars, messageVars, settingVars>>

\* backend_start of a camera that does not run: with sink_mutex, so that a
\* callback finds running and the sink together.
Start ==
  /\ call = "idle" /\ opened /\ ~running
  /\ running' = TRUE
  /\ call' = IF started THEN "apply" ELSE "add"
  /\ UNCHANGED <<opened, closing, pipelineVars, messageVars, settingVars>>

\* Once only: addCallback appends.
AddCallbacks ==
  /\ call = "add"
  /\ callbacksAdded' = TRUE
  /\ callbacks' = IF callbacksAdded THEN callbacks ELSE callbacks + 1
  /\ call' = "start"
  /\ UNCHANGED <<opened, closing, running, started, messageVars, settingVars>>

\* pipeline->start() may throw; start can be tried again.
StartPipeline ==
  /\ call = "start"
  /\ \/ started' = TRUE /\ call' = "apply" /\ UNCHANGED running
     \/ running' = FALSE /\ call' = "idle" /\ UNCHANGED started
  /\ UNCHANGED <<opened, closing, callbacksAdded, callbacks, messageVars, settingVars>>

\* applyCameraControl with control_lock, at every start.
ApplyControls ==
  /\ call = "apply"
  /\ sent' \in {setting, Lost}
  /\ call' = "idle"
  /\ UNCHANGED <<opened, closing, running, pipelineVars, messageVars, setting>>

\* backend_stop is one store; backend_close goes on with the destructor.
Stop ==
  /\ call = "idle" /\ opened
  /\ running' = FALSE
  /\ \E close \in BOOLEAN :
       /\ closing' = close
       /\ call' = IF close THEN "stop" ELSE "idle"
  /\ UNCHANGED <<opened, pipelineVars, messageVars, settingVars>>

\* ~depthcam_device stops the pipeline if it runs (depthai is assumed not to
\* throw here, which would skip the wait), ...
StopPipeline ==
  /\ call = "stop"
  /\ started' = FALSE
  /\ call' = "wait"
  /\ UNCHANGED <<opened, closing, running, callbacksAdded, callbacks,
                 messageVars, settingVars>>

\* ... and waits for it, since the callbacks refer to the device.
Delete ==
  /\ call = "wait"
  /\ \A q \in Queue : left[q] = 0
  /\ opened' = FALSE /\ closing' = FALSE
  /\ call' = "idle"
  /\ Fresh
  /\ UNCHANGED messageVars

\* backend_set_control, with control_lock.  A message to the camera gets there
\* once the pipeline runs.
SetControl(s) ==
  /\ opened /\ ~closing
  /\ setting' = s
  /\ sent' \in IF started THEN {s, Lost} ELSE {sent}
  /\ UNCHANGED <<callVars, running, pipelineVars, messageVars>>

-----------------------------------------------------------------------------
(* The threads of the queues: emitImage, emitPointCloud, emitImu *)

\* currentSink.  Each callback gets the message, each packet of a message of
\* the IMU is a frame of its own.  The first may come before pipeline->start()
\* has returned, or thrown.
TakeMessage(q) ==
  /\ started \/ call = "start"
  /\ running /\ left[q] = 0
  /\ \E n \in 1..MaxItems : left' = [left EXCEPT ![q] = n]
  /\ UNCHANGED <<callVars, running, pipelineVars, inHost, settingVars>>

\* on_frame, with the sink that was taken.
Give(q) ==
  /\ left[q] > 0 /\ q \notin inHost
  /\ inHost' = inHost \cup {q}
  /\ UNCHANGED <<callVars, running, pipelineVars, left, settingVars>>

FrameReturns(q) ==
  /\ q \in inHost
  /\ inHost' = inHost \ {q}
  /\ left' = [left EXCEPT ![q] = @ - 1]
  /\ UNCHANGED <<callVars, running, pipelineVars, settingVars>>

\* No data, a format the host would not know, a cloud without a point.
Skip(q) ==
  /\ left[q] > 0 /\ q \notin inHost
  /\ left' = [left EXCEPT ![q] = @ - 1]
  /\ UNCHANGED <<callVars, running, pipelineVars, inHost, settingVars>>

-----------------------------------------------------------------------------

CallStep ==
  AddCallbacks \/ StartPipeline \/ ApplyControls \/ StopPipeline \/ Delete
QueueStep(q) == Give(q) \/ FrameReturns(q) \/ Skip(q)

Next ==
  \/ Open \/ Start \/ Stop \/ CallStep
  \/ \E s \in Setting : SetControl(s)
  \/ \E q \in Queue : TakeMessage(q) \/ QueueStep(q)

Spec == Init /\ [][Next]_vars

\* Calls go on, and on_frame returns.
Fairness == WF_vars(CallStep) /\ \A q \in Queue : WF_vars(QueueStep(q))

-----------------------------------------------------------------------------
(* Properties *)

\* "Once only, even if pipeline->start() below fails and the host retries":
\* a queue gives each message to the host once, so as soon as messages can
\* come there is exactly one callback.
EachMessageOnce == callbacks <= 1 /\ (started => callbacks = 1)

\* "anything set before play is applied here rather than lost": the camera
\* obeys what was last set, before its pipeline began, while it is stopped, or
\* in between, unless the message itself failed.
SettingTakesEffect == call = "idle" /\ started => sent \in {setting, Lost}

\* The contract of a backend whose stop does not wait: a message that was
\* taken before stop is with the host until it returns, but not beyond close.
Contract == INSTANCE BackendContract WITH
  Camera <- {"oak"},
  Thread <- Queue,
  Joining <- FALSE,
  open <- IF opened THEN {"oak"} ELSE {},
  streaming <- IF running THEN {"oak"} ELSE {},
  delivering <- [c \in {"oak"} |-> {q \in Queue : left[q] > 0}]

\* start, stop and close return.
StopReturns == (call \in Call \ {"idle"}) ~> (call = "idle")
=============================================================================
