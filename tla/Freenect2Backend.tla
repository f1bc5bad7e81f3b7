--------------------------- MODULE Freenect2Backend ---------------------------
(***************************************************************************)
(* One Kinect v2: Backends/Freenect2/Freenect2Backend.cpp.                 *)
(*                                                                         *)
(* libfreenect2 calls the listener from two threads of its own, one for    *)
(* colour and one for depth and infrared.  A cloud needs an image of each, *)
(* so the last of each is kept, and is computed on the depth thread.  The  *)
(* exposure cannot be read back, and a camera that does not stream answers *)
(* no command: the settings are kept here and sent when it starts.         *)
(*                                                                         *)
(* The host calls open, start, stop and close one at a time, and           *)
(* set_control from the worker of the camera's control tree.  libfreenect2 *)
(* is external: start may fail, and stop waits for its two threads.        *)
(***************************************************************************)
EXTENDS FiniteSets

CONSTANTS
  Mode,      \* ExposureMode
  Auto,      \* the mode to begin with
  Param,     \* the parameters of the modes
  ModeOf,    \* the mode that a parameter belongs to
  Value,     \* what a parameter may be
  Default,   \* ... and is to begin with
  None

VARIABLES
  opened,        \* there is a depthcam_device, with its handle
  coloured,      \* color_pointcloud
  running,       \* dev->running
  streaming,     \* libfreenect2 streams
  registration,  \* dev->registration is not null
  call,          \* what the host's call is doing
  closing,       \* that call is close
  thread,        \* what a thread of libfreenect2 is doing
  kept,          \* the images kept for the cloud: last_color, last_depth
  mode,          \* dev->exposure_mode
  param,         \* the other mirrors of what was written
  applying,      \* the worker is in applyExposure, with control_lock
  sent           \* the last command sent since the camera streams, or Lost

callVars     == <<opened, coloured, call, closing>>
streamVars   == <<running, streaming>>
cloudVars    == <<registration, kept>>
exposureVars == <<mode, param, applying, sent>>
vars == <<callVars, streamVars, cloudVars, thread, exposureVars>>

Thread == {"colour", "depth"}
Call == {"idle", "start", "apply", "register", "stop", "delete"}

\* "keep": past the test of running.  "apply": inside the registration, and
\* "cloud" inside the host with a cloud; both hold pair_mutex.
ThreadState == {"idle", "keep", "give", "host", "returned", "apply", "cloud"}

\* What applyExposure sends: the mode and the parameters it takes.
Command == <<mode, [p \in {q \in Param : ModeOf[q] = mode} |-> param[p]]>>

\* It threw, and applyExposure swallowed that: "a failed setting is not worth
\* taking the stream down for".  Nothing sends it again before the next one.
Lost == <<>>

TypeOK ==
  /\ opened \in BOOLEAN /\ coloured \in BOOLEAN /\ closing \in BOOLEAN
  /\ running \in BOOLEAN /\ streaming \in BOOLEAN /\ applying \in BOOLEAN
  /\ registration \in BOOLEAN
  /\ call \in Call
  /\ thread \in [Thread -> ThreadState]
  /\ thread["colour"] \notin {"apply", "cloud"}
  /\ kept \subseteq Thread
  /\ mode \in Mode /\ param \in [Param -> Value]

Init ==
  /\ opened = FALSE /\ coloured = FALSE /\ closing = FALSE
  /\ running = FALSE /\ streaming = FALSE
  /\ registration = FALSE /\ kept = {}
  /\ call = "idle"
  /\ thread = [t \in Thread |-> "idle"]
  /\ mode = Auto /\ param = [p \in Param |-> Default]
  /\ applying = FALSE /\ sent = None

-----------------------------------------------------------------------------
(* What the host calls *)

\* backend_open, when it succeeds.  The camera has a cloud, plain or coloured;
\* one that was not asked for a cloud behaves as if all of them were empty.
Open ==
  /\ call = "idle" /\ ~opened
  /\ opened' = TRUE
  /\ coloured' \in BOOLEAN
  /\ UNCHANGED <<call, closing, streamVars, cloudVars, thread, exposureVars>>

\* backend_start of a camera that does not run.
Start ==
  /\ call = "idle" /\ opened /\ ~running
  /\ running' = TRUE
  /\ call' = "start"
  /\ UNCHANGED <<opened, coloured, closing, streaming, cloudVars, thread, exposureVars>>

StartStreams ==
  /\ call = "start"
  /\ \/ streaming' = TRUE /\ call' = "apply" /\ UNCHANGED running
     \/ running' = FALSE /\ call' = "idle" /\ UNCHANGED streaming
  /\ UNCHANGED <<opened, coloured, closing, cloudVars, thread, exposureVars>>

\* A slip: what was set while the camera was stopped is not sent.
ApplyExposure_Forgotten ==
  /\ call = "apply"
  /\ call' = "register"
  /\ UNCHANGED <<opened, coloured, closing, streamVars, cloudVars, thread, exposureVars>>

\* Whatever was set while the camera was stopped.
ApplyExposure ==
  /\ call = "apply" /\ ~applying
  /\ sent' \in {Command, Lost}
  /\ call' = "register"
  /\ UNCHANGED <<opened, coloured, closing, streamVars, cloudVars, thread,
                 mode, param, applying>>

\* The registration is made anew, frames arriving or not.
Register ==
  /\ call = "register"
  /\ registration' = TRUE
  /\ call' = "idle"
  /\ UNCHANGED <<opened, coloured, closing, streamVars, kept, thread, exposureVars>>

AfterStop(close) == IF close THEN "delete" ELSE "idle"

\* The exchange of running that begins backend_stop, alone or in
\* backend_close.
Stop ==
  /\ call = "idle" /\ opened
  /\ \E close \in BOOLEAN :
       /\ close => ~applying
       /\ closing' = close
       /\ call' = IF running THEN "stop" ELSE AfterStop(close)
  /\ running' = FALSE
  /\ UNCHANGED <<opened, coloured, streaming, cloudVars, thread, exposureVars>>

\* A camera that was stopped has been told nothing.
StopStreams ==
  /\ call = "stop"
  /\ \A t \in Thread : thread[t] = "idle"
  /\ streaming' = FALSE
  /\ sent' = None
  /\ call' = AfterStop(closing)
  /\ UNCHANGED <<opened, coloured, closing, running, cloudVars, thread,
                 mode, param, applying>>

\* ~depthcam_device.
Delete ==
  /\ call = "delete"
  /\ opened' = FALSE /\ coloured' = FALSE /\ closing' = FALSE
  /\ registration' = FALSE /\ kept' = {}
  /\ mode' = Auto /\ param' = [p \in Param |-> Default]
  /\ call' = "idle"
  /\ UNCHANGED <<streamVars, thread, applying, sent>>

-----------------------------------------------------------------------------
(* backend_set_control, on the worker's thread: the control tree is gone    *)
(* before the camera is closed.                                             *)

Set ==
  /\ opened /\ ~closing /\ ~applying
  /\ applying' = running
  /\ UNCHANGED <<callVars, streamVars, cloudVars, thread, sent>>

SetMode(m) ==
  /\ Set
  /\ mode' = m
  /\ UNCHANGED param

\* A parameter that is written selects its mode.
SetParam(p, v) ==
  /\ Set
  /\ param' = [param EXCEPT ![p] = v]
  /\ mode' = ModeOf[p]

\* The command is answered only while the camera streams; otherwise it times
\* out.
SendExposure ==
  /\ applying
  /\ applying' = FALSE
  /\ sent' \in IF streaming THEN {Command, Lost} ELSE {sent}
  /\ UNCHANGED <<callVars, streamVars, cloudVars, thread, mode, param>>

-----------------------------------------------------------------------------
(* The threads of libfreenect2: depthcam_device::onFrame *)

Goes(t, from, to) ==
  /\ thread[t] = from
  /\ thread' = [thread EXCEPT ![t] = to]
  /\ UNCHANGED <<callVars, streamVars, exposureVars>>

\* A frame that comes while running is not set is deleted.
FrameArrives(t) ==
  /\ streaming /\ running
  /\ Goes(t, "idle", "keep")
  /\ UNCHANGED cloudVars

Paired == thread["depth"] \notin {"apply", "cloud"}

\* The copy is kept for the cloud if the cloud needs it, under pair_mutex.
Keep(t) ==
  /\ IF t = "depth" \/ coloured
       THEN (t = "colour" => Paired) /\ kept' = kept \cup {t}
       ELSE UNCHANGED kept
  /\ Goes(t, "keep", "give")
  /\ UNCHANGED registration

\* The host gets a holder of the copy, if it asked for the stream.
Give(t) ==
  /\ \E next \in {"host", "returned"} : Goes(t, "give", next)
  /\ UNCHANGED cloudVars

FrameReturns(t) ==
  /\ Goes(t, "host", "returned")
  /\ UNCHANGED cloudVars

\* The frame goes back to libfreenect2; after depth, emitPointCloud.
DeleteFrame(t) ==
  /\ Goes(t, "returned",
          IF t = "depth" /\ registration /\ (coloured => "colour" \in kept)
            THEN "apply" ELSE "idle")
  /\ UNCHANGED cloudVars

\* A cloud without a point is not given.
GiveCloud ==
  /\ \E next \in {"cloud", "idle"} : Goes("depth", "apply", next)
  /\ UNCHANGED cloudVars

CloudReturns ==
  /\ Goes("depth", "cloud", "idle")
  /\ UNCHANGED cloudVars

-----------------------------------------------------------------------------

CallStep ==
  StartStreams \/ ApplyExposure \/ Register \/ StopStreams \/ Delete
SetStep == (\E m \in Mode : SetMode(m)) \/ \E p \in Param, v \in Value : SetParam(p, v)
ThreadStep(t) ==
  \/ Keep(t) \/ Give(t) \/ FrameReturns(t) \/ DeleteFrame(t)
  \/ t = "depth" /\ (GiveCloud \/ CloudReturns)

Next ==
  \/ Open \/ Start \/ Stop \/ CallStep
  \/ SetStep \/ SendExposure
  \/ \E t \in Thread : FrameArrives(t) \/ ThreadStep(t)

Spec == Init /\ [][Next]_vars

\* A call, a command and a frame go on: control_lock and pair_mutex get to
\* those who wait for them.
Fairness ==
  /\ WF_vars(StartStreams \/ Register \/ StopStreams \/ Delete)
  /\ SF_vars(ApplyExposure) /\ WF_vars(SendExposure)
  /\ \A t \in Thread : WF_vars(ThreadStep(t)) /\ SF_vars(Keep(t))

-----------------------------------------------------------------------------
(* Properties *)

\* "a setting made while the transport is stopped is not lost -- it just takes
\* effect on play": a camera that was started obeys the exposure that was last
\* set, before, during or after the call, unless the command itself failed.
ExposureTakesEffect ==
  call = "idle" /\ streaming /\ ~applying => sent \in {Command, Lost}

\* The contract of a backend: it streams while it runs, or its threads are
\* waited for.
Contract == INSTANCE BackendContract WITH
  Camera <- {"kinect2"},
  Joining <- TRUE,
  open <- IF opened THEN {"kinect2"} ELSE {},
  streaming <- IF running \/ streaming THEN {"kinect2"} ELSE {},
  delivering <- [c \in {"kinect2"} |->
                   {t \in Thread : thread[t] \in {"host", "cloud"}}]

\* start, stop and close return: a cloud on its way does not keep the other
\* thread, nor the call that waits for both.
StopReturns == (call \in Call \ {"idle"}) ~> (call = "idle")
=============================================================================
