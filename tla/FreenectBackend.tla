--------------------------- MODULE FreenectBackend ----------------------------
(***************************************************************************)
(* The Kinects v1: Backends/Freenect/FreenectBackend.cpp.                  *)
(*                                                                         *)
(* Every open camera that runs has a thread that pumps libfreenect and     *)
(* then talks to its own motor; writes to the motor from elsewhere wait in *)
(* a slot for it.  There is one context, g_ctx, for all of them: whoever   *)
(* pumps it dispatches the frames of every camera that streams.            *)
(*                                                                         *)
(* The host calls open, start, stop and close one at a time, and           *)
(* set_control from the worker of the camera's control tree.  One slot     *)
(* stands for want_tilt and for want_led, which work alike.                *)
(***************************************************************************)
EXTENDS FiniteSets

CONSTANTS
  Camera,  \* the Kinects v1 plugged in
  Tilt,    \* what the motor can be told
  None     \* nothing asked for: INT_MIN, or -1 for the LED

VARIABLES
  opened,   \* the cameras that are open
  motor,    \* has_motor: those whose motor subdevice came up
  running,  \* those with running set
  video,    \* those whose video libfreenect streams
  depth,    \* those whose depth it streams
  call,     \* what the host's call is doing: [at, cam, closing]
  pump,     \* the thread of a camera
  serving,  \* the camera whose frame that thread gives to the host
  order,    \* what the thread took out of the slot
  want,     \* the slot of a camera: want_tilt
  tilt,     \* what the motor was last told
  asked     \* what the host last asked for

usbVars    == <<opened, motor, video, depth>>
threadVars == <<pump, serving>>
motorVars  == <<order, want, tilt, asked>>
vars == <<usbVars, running, call, threadVars, motorVars>>

\* "none": not joinable; "ended": returned from run, and not joined yet.
PumpState == {"none", "test", "events", "host", "motor", "send", "state",
              "sample", "ended"}
CallState ==
  {"idle", "startVideo", "startDepth", "spawn", "join", "stopVideo", "stopDepth",
   "delete"}
Idle == [at |-> "idle", cam |-> None, closing |-> FALSE]

TypeOK ==
  /\ opened \subseteq Camera /\ motor \subseteq opened /\ running \subseteq opened
  /\ video \subseteq opened /\ depth \subseteq opened
  /\ call \in [at : CallState, cam : Camera \cup {None}, closing : BOOLEAN]
  /\ pump \in [Camera -> PumpState]
  /\ serving \in [Camera -> Camera \cup {None}]
  /\ order \in [Camera -> Tilt \cup {None}] /\ want \in [Camera -> Tilt \cup {None}]
  /\ tilt \in [Camera -> Tilt \cup {None}] /\ asked \in [Camera -> Tilt \cup {None}]

Init ==
  /\ opened = {} /\ motor = {} /\ running = {} /\ video = {} /\ depth = {}
  /\ call = Idle
  /\ pump = [c \in Camera |-> "none"]
  /\ serving = [c \in Camera |-> None]
  /\ order = [c \in Camera |-> None] /\ want = order
  /\ tilt = order /\ asked = order

-----------------------------------------------------------------------------
(* What the host calls *)

\* backend_open, when it succeeds; has_motor is whatever libfreenect brought up.
Open(c) ==
  /\ call = Idle /\ c \notin opened
  /\ opened' = opened \cup {c}
  /\ motor' \in {motor, motor \cup {c}}
  /\ UNCHANGED <<running, video, depth, call, threadVars, motorVars>>

At(op, c) == [at |-> op, cam |-> c, closing |-> call.closing]
Done == IF call.closing THEN At("delete", call.cam) ELSE Idle

\* backend_start of a camera that does not run.  Of one that does it returns
\* 1.  A camera may be asked for its colour, its depth, both or neither, which
\* leaves the acceleration.
Start(c) ==
  /\ call = Idle /\ c \in opened \ running
  /\ running' = running \cup {c}
  /\ call' \in {At(op, c) : op \in {"startVideo", "startDepth", "spawn"}}
  /\ UNCHANGED <<usbVars, threadVars, motorVars>>

\* libfreenect may refuse either stream: running is reset, and start fails
\* with what was started before still on.
Refused ==
  /\ running' = running \ {call.cam}
  /\ call' = Idle
  /\ UNCHANGED <<video, depth>>

StartVideo ==
  /\ call.at = "startVideo"
  /\ \/ /\ video' = video \cup {call.cam}
        /\ call' \in {At(op, call.cam) : op \in {"startDepth", "spawn"}}
        /\ UNCHANGED <<running, depth>>
     \/ Refused
  /\ UNCHANGED <<opened, motor, threadVars, motorVars>>

StartDepth ==
  /\ call.at = "startDepth"
  /\ \/ /\ depth' = depth \cup {call.cam}
        /\ call' = At("spawn", call.cam)
        /\ UNCHANGED <<running, video>>
     \/ Refused
  /\ UNCHANGED <<opened, motor, threadVars, motorVars>>

Spawn ==
  /\ call.at = "spawn"
  /\ pump' = [pump EXCEPT ![call.cam] = "test"]
  /\ call' = Idle
  /\ UNCHANGED <<usbVars, running, serving, motorVars>>

\* The exchange of running that begins backend_stop, alone or in
\* backend_close: nothing to stop when it was false.
Stop(c) ==
  /\ call = Idle /\ c \in opened
  /\ running' = running \ {c}
  /\ \E closing \in BOOLEAN :
       call' = IF c \in running
                 THEN [at |-> "join", cam |-> c, closing |-> closing]
                 ELSE IF closing THEN [at |-> "delete", cam |-> c, closing |-> TRUE] ELSE Idle
  /\ UNCHANGED <<usbVars, threadVars, motorVars>>

Join ==
  /\ call.at = "join"
  /\ pump[call.cam] \in {"none", "ended"}
  /\ pump' = [pump EXCEPT ![call.cam] = "none"]
  /\ call' = At("stopVideo", call.cam)
  /\ UNCHANGED <<usbVars, running, serving, motorVars>>

StopVideo ==
  /\ call.at = "stopVideo"
  /\ video' = video \ {call.cam}
  /\ call' = At("stopDepth", call.cam)
  /\ UNCHANGED <<opened, motor, depth, running, threadVars, motorVars>>

StopDepth ==
  /\ call.at = "stopDepth"
  /\ depth' = depth \ {call.cam}
  /\ call' = Done
  /\ UNCHANGED <<opened, motor, video, running, threadVars, motorVars>>

\* A slip: the camera is gone and its motor is not.
Delete_KeepsMotor ==
  /\ call.at = "delete"
  /\ opened' = opened \ {call.cam}
  /\ video' = video \ {call.cam} /\ depth' = depth \ {call.cam}
  /\ call' = Idle
  /\ UNCHANGED <<motor, running, threadVars, motorVars>>

\* ~depthcam_device stops both streams, which closes what a failed start left
\* on, and closes the handle.
Delete ==
  /\ call.at = "delete"
  /\ opened' = opened \ {call.cam} /\ motor' = motor \ {call.cam}
  /\ video' = video \ {call.cam} /\ depth' = depth \ {call.cam}
  /\ order' = [order EXCEPT ![call.cam] = None]
  /\ want' = [want EXCEPT ![call.cam] = None]
  /\ tilt' = [tilt EXCEPT ![call.cam] = None]
  /\ asked' = [asked EXCEPT ![call.cam] = None]
  /\ call' = Idle
  /\ UNCHANGED <<running, threadVars>>

\* backend_set_control, on the worker's thread: the control tree is gone
\* before the camera is closed.
SetControl(c, v) ==
  /\ c \in motor
  /\ ~(call.closing /\ call.cam = c)
  /\ want' = [want EXCEPT ![c] = v]
  /\ asked' = [asked EXCEPT ![c] = v]
  /\ UNCHANGED <<usbVars, running, call, threadVars, order, tilt>>

-----------------------------------------------------------------------------
(* The thread of a camera: depthcam_device::run *)

Goes(t, from, to) ==
  /\ pump[t] = from
  /\ pump' = [pump EXCEPT ![t] = to]

\* A slip: the thread does not look at running.
TestRunning_Ignored(t) ==
  /\ Goes(t, "test", "events")
  /\ UNCHANGED <<usbVars, running, call, serving, motorVars>>

TestRunning(t) ==
  /\ Goes(t, "test", IF t \in running THEN "events" ELSE "ended")
  /\ UNCHANGED <<usbVars, running, call, serving, motorVars>>

\* libfreenect dispatches a frame, of whichever camera; onVideo and onDepth
\* give it to the host if that camera runs.
Dispatch(t, c) ==
  /\ c \in (video \cup depth) \cap running
  /\ Goes(t, "events", "host")
  /\ serving' = [serving EXCEPT ![t] = c]
  /\ UNCHANGED <<usbVars, running, call, motorVars>>

FrameReturns(t) ==
  /\ Goes(t, "host", "events")
  /\ serving' = [serving EXCEPT ![t] = None]
  /\ UNCHANGED <<usbVars, running, call, motorVars>>

\* freenect_process_events_timeout returns, within 100 ms.
EventsHandled(t) ==
  /\ Goes(t, "events", IF t \in motor THEN "motor" ELSE "test")
  /\ UNCHANGED <<usbVars, running, call, serving, motorVars>>

\* It fails: the thread ends, and running stays set.
EventsFail(t) ==
  /\ Goes(t, "events", "ended")
  /\ UNCHANGED <<usbVars, running, call, serving, motorVars>>

\* The exchange of want_tilt.  The state of the board is read every fifth time.
TakeOrder(t) ==
  /\ \E next \in {"state", "test"} :
       Goes(t, "motor", IF want[t] = None THEN next ELSE "send")
  /\ order' = [order EXCEPT ![t] = want[t]]
  /\ want' = [want EXCEPT ![t] = None]
  /\ UNCHANGED <<usbVars, running, call, serving, tilt, asked>>

\* freenect_set_tilt_degs, a control transfer.
SendOrder(t) ==
  /\ \E next \in {"state", "test"} : Goes(t, "send", next)
  /\ tilt' = [tilt EXCEPT ![t] = order[t]]
  /\ order' = [order EXCEPT ![t] = None]
  /\ UNCHANGED <<usbVars, running, call, serving, want, asked>>

\* freenect_update_tilt_state, another one, which may fail.  The acceleration
\* goes to the host from here, if it asked for it.
ReadState(t) ==
  /\ \/ Goes(t, "state", "test") /\ UNCHANGED serving
     \/ Goes(t, "state", "sample") /\ serving' = [serving EXCEPT ![t] = t]
  /\ UNCHANGED <<usbVars, running, call, motorVars>>

SampleReturns(t) ==
  /\ Goes(t, "sample", "test")
  /\ serving' = [serving EXCEPT ![t] = None]
  /\ UNCHANGED <<usbVars, running, call, motorVars>>

-----------------------------------------------------------------------------

CallStep ==
  StartVideo \/ StartDepth \/ Spawn \/ Join \/ StopVideo \/ StopDepth \/ Delete

PumpReturns(t) == EventsHandled(t) \/ EventsFail(t)

PumpStep(t) ==
  \/ TestRunning(t) \/ FrameReturns(t) \/ PumpReturns(t)
  \/ TakeOrder(t) \/ SendOrder(t) \/ ReadState(t) \/ SampleReturns(t)

Next ==
  \/ CallStep
  \/ \E c \in Camera :
       \/ Open(c) \/ Start(c) \/ Stop(c) \/ PumpStep(c)
       \/ \E t \in Camera : Dispatch(t, c)
       \/ \E v \in Tilt : SetControl(c, v)

Spec == Init /\ [][Next]_vars

\* Calls and threads go on, and on_frame returns.  Strong fairness where
\* frames keep a thread busy: freenect_process_events has its 100 ms.
Fairness ==
  /\ WF_vars(CallStep)
  /\ \A t \in Camera : WF_vars(PumpStep(t)) /\ SF_vars(PumpReturns(t))

-----------------------------------------------------------------------------
(* Properties *)

\* The motor ends up where the host last asked: an order that is neither in
\* the slot nor in the thread's hands was sent, and no later one was
\* overtaken by it, however the host's write falls between the thread's steps
\* and whether or not the camera runs.
LastOrderWins ==
  \A c \in opened :
    asked[c] = IF want[c] # None THEN want[c]
               ELSE IF order[c] # None THEN order[c] ELSE tilt[c]

\* The way of an order to the motor of one camera, which close empties.
Slot(c) == INSTANCE LatestValue WITH
  Value   <- Tilt,
  alive   <- c \in motor,
  waiting <- want[c],
  taken   <- order[c],
  given   <- tilt[c],
  asked   <- asked[c]

\* start and stop, whose calls are control transfers, change the streams of a
\* camera only when its thread is gone.
StreamsChangeWithoutThread ==
  call.at \in {"startVideo", "startDepth", "spawn", "stopVideo", "stopDepth", "delete"}
    => pump[call.cam] = "none"

\* The contract of a backend: a camera streams while it runs, or has a thread to
\* join.  It holds as long as one Kinect streams at a time: with two, a frame of
\* the one can be with the host, on the thread of the other, when stop returns.
Contract == INSTANCE BackendContract WITH
  Thread <- Camera,
  Joining <- TRUE,
  open <- opened,
  streaming <- running \cup {c \in Camera : pump[c] # "none"},
  delivering <- [c \in Camera |-> {t \in Camera : serving[t] = c}]

\* stop and close return: a thread that is being joined notices.
StopReturns == (call # Idle) ~> (call = Idle)
=============================================================================
