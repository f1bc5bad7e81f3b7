------------------------------ MODULE OakBackend ------------------------------
(***************************************************************************)
(* One Oak3DVision camera: Backends/Oak/OakBackend.cpp.                    *)
(*                                                                         *)
(* The SDK has one CameraSystem for the process and does not lock it, so   *)
(* the backend does, around enumeration, around the whole of backend_open  *)
(* and around the disconnection in the destructor of a device; which       *)
(* backend_open runs itself, under its own lock, when it fails.  The       *)
(* callbacks that are registered with a camera hold the address of the     *)
(* device.                                                                 *)
(*                                                                         *)
(* The host calls open, start, stop and close one at a time; enumerate may *)
(* run beside them.  libpointcloud is external: registering a callback for *)
(* a type of frame replaces the one before, start may refuse or throw,     *)
(* stop waits for the capture thread, unregisters nothing and is assumed   *)
(* not to throw, which would skip clearAllCallbacks.                       *)
(***************************************************************************)
EXTENDS Naturals

VARIABLES
  system,      \* g_system is not null
  lock,        \* who holds g_system_mutex: "free", "scan" or "call"
  connected,   \* the CameraSystem has the camera connected
  opened,      \* there is a depthcam_device, the one being built included
  wanted,      \* the types of frame that cfg.streams asks for
  registered,  \* the types of frame with a callback
  running,     \* dev->running
  capturing,   \* the camera was started: its capture thread lives
  call,        \* what the host's call is doing
  closing,     \* that call is close
  left,        \* images that remain of a callback in progress
  inHost       \* the capture thread is inside on_frame

deviceVars == <<connected, opened, wanted>>
streamVars == <<registered, running, capturing>>
callVars   == <<call, closing>>
frameVars  == <<left, inHost>>
vars == <<system, lock, deviceVars, streamVars, callVars, frameVars>>

\* Depth and infrared come in one type of frame.
FrameType == {"depth", "cloud"}
Images == [f \in FrameType |-> IF f = "depth" THEN 2 ELSE 1]

Call == {"idle", "connect", "configure", "register", "startCamera",
         "stopCamera", "clear", "halt", "forget", "disconnect"}

TypeOK ==
  /\ system \in BOOLEAN
  /\ lock \in {"free", "scan", "call"}
  /\ connected \in BOOLEAN /\ opened \in BOOLEAN
  /\ wanted \subseteq FrameType /\ registered \subseteq FrameType
  /\ running \in BOOLEAN /\ capturing \in BOOLEAN
  /\ call \in Call /\ closing \in BOOLEAN
  /\ left \in 0..2 /\ inHost \in BOOLEAN

\* After backend_init.
Init ==
  /\ system = TRUE /\ lock = "free"
  /\ connected = FALSE /\ opened = FALSE /\ wanted = {}
  /\ registered = {} /\ running = FALSE /\ capturing = FALSE
  /\ call = "idle" /\ closing = FALSE
  /\ left = 0 /\ inHost = FALSE

-----------------------------------------------------------------------------
(* The CameraSystem *)

\* backend_shutdown, which asks nobody whether a camera is open.
Shutdown ==
  /\ system /\ lock = "free" /\ call = "idle"
  /\ system' = FALSE /\ connected' = FALSE
  /\ UNCHANGED <<lock, opened, wanted, streamVars, callVars, frameVars>>

\* backend_enumerate: scan, and a call of the host's for each camera.
Enumerate ==
  /\ system /\ lock = "free"
  /\ lock' = "scan"
  /\ UNCHANGED <<system, deviceVars, streamVars, callVars, frameVars>>

EnumerateEnds ==
  /\ lock = "scan"
  /\ lock' = "free"
  /\ UNCHANGED <<system, deviceVars, streamVars, callVars, frameVars>>

-----------------------------------------------------------------------------
(* What the host calls *)

\* backend_open takes the lock, and gives up without a CameraSystem.
Open ==
  /\ call = "idle" /\ ~opened /\ lock = "free"
  /\ IF system
     THEN lock' = "call" /\ call' = "connect" /\ wanted' \in SUBSET FrameType
     ELSE UNCHANGED <<lock, call, wanted>>
  /\ UNCHANGED <<system, connected, opened, streamVars, closing, frameVars>>

\* It scans, chooses and connects; no camera, or no plug-in for it, and there
\* is nothing to take back.
Connect ==
  /\ call = "connect"
  /\ \/ connected' = TRUE /\ opened' = TRUE /\ call' = "configure"
        /\ UNCHANGED lock
     \/ call' = "idle" /\ lock' = "free"
        /\ UNCHANGED <<connected, opened>>
  /\ UNCHANGED <<system, wanted, streamVars, closing, frameVars>>

\* A camera that did not initialise, or an exception, and the destructor runs.
Configure ==
  /\ call = "configure"
  /\ \/ call' = "idle" /\ lock' = "free"
     \/ call' = "halt" /\ UNCHANGED lock
  /\ UNCHANGED <<system, deviceVars, streamVars, closing, frameVars>>

\* backend_start of a camera that does not run.  One that has nothing to give
\* of what was asked for is not started.
Start ==
  /\ call = "idle" /\ opened /\ ~running
  /\ IF wanted = {}
     THEN UNCHANGED <<running, call>>
     ELSE running' = TRUE /\ call' = "register"
  /\ UNCHANGED <<system, lock, deviceVars, registered, capturing, closing, frameVars>>

Register ==
  /\ call = "register"
  /\ registered' = registered \cup wanted
  /\ call' = "startCamera"
  /\ UNCHANGED <<system, lock, deviceVars, running, capturing, closing, frameVars>>

\* A refusal unregisters, an exception does not.
StartCamera ==
  /\ call = "startCamera"
  /\ call' = "idle"
  /\ \/ capturing' = TRUE /\ UNCHANGED <<registered, running>>
     \/ running' = FALSE /\ registered' = {} /\ UNCHANGED capturing
     \/ running' = FALSE /\ UNCHANGED <<registered, capturing>>
  /\ UNCHANGED <<system, lock, deviceVars, closing, frameVars>>

AfterStop(close) == IF close THEN "halt" ELSE "idle"

\* The exchange of running that begins backend_stop, alone or in
\* backend_close.
Stop ==
  /\ call = "idle" /\ opened
  /\ \E close \in BOOLEAN :
       /\ closing' = close
       /\ call' = IF running THEN "stopCamera" ELSE AfterStop(close)
  /\ running' = FALSE
  /\ UNCHANGED <<system, lock, deviceVars, registered, capturing, frameVars>>

\* camera->stop() joins the capture thread.
JoinCapture(at, then) ==
  /\ call = at
  /\ left = 0
  /\ capturing' = FALSE
  /\ call' = then
  /\ UNCHANGED <<system, lock, deviceVars, registered, running, closing, frameVars>>

StopCamera == JoinCapture("stopCamera", "clear")

ClearCallbacks ==
  /\ call = "clear"
  /\ registered' = {}
  /\ call' = AfterStop(closing)
  /\ UNCHANGED <<system, lock, deviceVars, running, capturing, closing, frameVars>>

\* The destructor of the device stops and unregisters whatever became of start.
Halt == JoinCapture("halt", "forget")

\* A slip: it trusts backend_stop to have unregistered.
Forget_TrustsStop ==
  /\ call = "forget"
  /\ call' = "disconnect"
  /\ UNCHANGED <<system, lock, deviceVars, streamVars, closing, frameVars>>

Forget ==
  /\ call = "forget"
  /\ registered' = {}
  /\ call' = "disconnect"
  /\ UNCHANGED <<system, lock, deviceVars, running, capturing, closing, frameVars>>

\* It takes the lock, which a failed backend_open holds already and releases
\* last, and disconnects if there is still a CameraSystem.
Disconnect ==
  /\ call = "disconnect" /\ lock # "scan"
  /\ connected' = FALSE /\ opened' = FALSE /\ closing' = FALSE
  /\ call' = "idle" /\ wanted' = {} /\ lock' = "free"
  /\ UNCHANGED <<system, streamVars, frameVars>>

-----------------------------------------------------------------------------
(* The capture thread: onDepthFrame and onPointCloudFrame *)

\* A callback while running is not set does nothing.
Callback(f) ==
  /\ capturing /\ f \in registered /\ running /\ left = 0
  /\ left' = Images[f]
  /\ UNCHANGED <<system, lock, deviceVars, streamVars, callVars, inHost>>

\* emit: the host gets a copy of the pixels and their holder.
Emit ==
  /\ left > 0 /\ ~inHost
  /\ inHost' = TRUE
  /\ UNCHANGED <<system, lock, deviceVars, streamVars, callVars, left>>

FrameReturns ==
  /\ inHost
  /\ inHost' = FALSE /\ left' = left - 1
  /\ UNCHANGED <<system, lock, deviceVars, streamVars, callVars>>

\* Not asked for, of another size, or without one point that was measured.
Skip ==
  /\ left > 0 /\ ~inHost
  /\ left' = left - 1
  /\ UNCHANGED <<system, lock, deviceVars, streamVars, callVars, inHost>>

-----------------------------------------------------------------------------

CallStep ==
  \/ Connect \/ Configure \/ Register \/ StartCamera
  \/ StopCamera \/ ClearCallbacks \/ Halt \/ Forget \/ Disconnect
FrameStep == Emit \/ FrameReturns \/ Skip

Next ==
  \/ Shutdown \/ Enumerate \/ EnumerateEnds
  \/ Open \/ Start \/ Stop \/ CallStep
  \/ FrameStep \/ \E f \in FrameType : Callback(f)

Spec == Init /\ [][Next]_vars

\* Calls go on, on_frame returns, a scan ends; and scans are far enough apart
\* for a call to get the lock in between.
Fairness == SF_vars(CallStep) /\ WF_vars(FrameStep) /\ WF_vars(EnumerateEnds)

-----------------------------------------------------------------------------
(* Properties *)

\* A callback is registered only while the device whose address it holds is
\* there, and a camera stays connected no longer than its device; between calls
\* the capture thread lives exactly while the camera runs, and has callbacks
\* for what was asked: after a start that refused or threw as well.
CallbacksHaveADevice ==
  /\ registered # {} \/ connected \/ capturing => opened
  /\ call = "idle" => /\ running <=> capturing
                      /\ running => registered = wanted

\* The contract of a backend.
Contract == INSTANCE BackendContract WITH
  Camera <- {"oak"},
  Thread <- {"capture"},
  Joining <- TRUE,
  open <- IF opened THEN {"oak"} ELSE {},
  streaming <- IF running \/ capturing THEN {"oak"} ELSE {},
  delivering <- [c \in {"oak"} |-> IF left > 0 THEN {"capture"} ELSE {}]

\* open, start, stop and close return, the open that fails included.
StopReturns == (call \in Call \ {"idle"}) ~> (call = "idle")
=============================================================================
