--------------------------- MODULE RealSenseBackend ---------------------------
(***************************************************************************)
(* One RealSense: Backends/RealSense/RealSenseBackend.cpp.                 *)
(*                                                                         *)
(* One pipeline for everything.  When the camera refuses what was asked    *)
(* for, it is started with its own defaults.  The unit of depth is read    *)
(* once it streams, so the first frames of the first start may come with   *)
(* the one that the device object began with.                              *)
(*                                                                         *)
(* The host calls open, start, stop and close one at a time.  librealsense *)
(* is external: it calls from a thread for framesets and one for motion,   *)
(* start may throw, and stop waits for both threads.                       *)
(***************************************************************************)
EXTENDS Naturals

VARIABLES
  opened,      \* there is a depthcam_device
  running,     \* dev->running
  profile,     \* what the pipeline streams: "none", "asked" or "fallback"
  unit,        \* depth_scale_mm: "unread", "read", or "assumed" where it failed
  call,        \* what the host's call is doing
  closing,     \* that call is close
  left,        \* deliveries that remain of what a thread has taken
  inHost       \* the threads inside on_frame

callVars  == <<opened, call, closing>>
frameVars == <<left, inHost>>
vars == <<callVars, running, profile, unit, frameVars>>

Thread == {"frameset", "motion"}

\* Colour, infrared, depth and the cloud; or one sample.
Deliveries == [t \in Thread |-> IF t = "frameset" THEN 4 ELSE 1]

Call == {"idle", "start", "fallback", "unit", "stop", "delete"}

TypeOK ==
  /\ opened \in BOOLEAN /\ running \in BOOLEAN /\ closing \in BOOLEAN
  /\ profile \in {"none", "asked", "fallback"}
  /\ unit \in {"unread", "read", "assumed"}
  /\ call \in Call
  /\ \A t \in Thread : left[t] \in 0..Deliveries[t]
  /\ inHost \subseteq Thread

Init ==
  /\ opened = FALSE /\ running = FALSE /\ closing = FALSE
  /\ profile = "none" /\ unit = "unread"
  /\ call = "idle"
  /\ left = [t \in Thread |-> 0] /\ inHost = {}

-----------------------------------------------------------------------------
(* What the host calls *)

\* backend_open, when it succeeds.
Open ==
  /\ call = "idle" /\ ~opened
  /\ opened' = TRUE
  /\ UNCHANGED <<call, closing, running, profile, unit, frameVars>>

\* backend_start of a camera that does not run.
Start ==
  /\ call = "idle" /\ opened /\ ~running
  /\ running' = TRUE
  /\ call' = "start"
  /\ UNCHANGED <<opened, closing, profile, unit, frameVars>>

StartAsked ==
  /\ call = "start"
  /\ \/ profile' = "asked" /\ call' = "unit"
     \/ call' = "fallback" /\ UNCHANGED profile
  /\ UNCHANGED <<opened, closing, running, unit, frameVars>>

StartFallback ==
  /\ call = "fallback"
  /\ \/ profile' = "fallback" /\ call' = "unit" /\ UNCHANGED running
     \/ running' = FALSE /\ call' = "idle" /\ UNCHANGED profile
  /\ UNCHANGED <<opened, closing, unit, frameVars>>

\* get_depth_scale, while frames arrive.
ReadUnit ==
  /\ call = "unit"
  /\ unit' \in {"read", "assumed"}
  /\ call' = "idle"
  /\ UNCHANGED <<opened, closing, running, profile, frameVars>>

AfterStop(close) == IF close THEN "delete" ELSE "idle"

\* The exchange of running that begins backend_stop, alone or in
\* backend_close.
Stop ==
  /\ call = "idle" /\ opened
  /\ \E close \in BOOLEAN :
       /\ closing' = close
       /\ call' = IF running THEN "stop" ELSE AfterStop(close)
  /\ running' = FALSE
  /\ UNCHANGED <<opened, profile, unit, frameVars>>

StopPipeline ==
  /\ call = "stop"
  /\ \A t \in Thread : left[t] = 0
  /\ profile' = "none"
  /\ call' = AfterStop(closing)
  /\ UNCHANGED <<opened, closing, running, unit, frameVars>>

\* backend_close goes on to delete the device.
Delete ==
  /\ call = "delete"
  /\ opened' = FALSE /\ closing' = FALSE
  /\ unit' = "unread"
  /\ call' = "idle"
  /\ UNCHANGED <<running, profile, frameVars>>

-----------------------------------------------------------------------------
(* The threads of librealsense: handle and handleMotion *)

\* What comes while running is not set is ignored.
FrameArrives(t) ==
  /\ profile # "none" /\ running /\ left[t] = 0
  /\ left' = [left EXCEPT ![t] = Deliveries[t]]
  /\ UNCHANGED <<callVars, running, profile, unit, inHost>>

\* The host gets a holder of the frame, or the sample itself.
Give(t) ==
  /\ left[t] > 0 /\ t \notin inHost
  /\ inHost' = inHost \cup {t}
  /\ UNCHANGED <<callVars, running, profile, unit, left>>

FrameReturns(t) ==
  /\ t \in inHost
  /\ inHost' = inHost \ {t}
  /\ left' = [left EXCEPT ![t] = @ - 1]
  /\ UNCHANGED <<callVars, running, profile, unit>>

\* Not asked for, not in this frameset, or thrown away by an exception.
Skip(t) ==
  /\ left[t] > 0 /\ t \notin inHost
  /\ left' = [left EXCEPT ![t] = @ - 1]
  /\ UNCHANGED <<callVars, running, profile, unit, inHost>>

-----------------------------------------------------------------------------

CallStep == StartAsked \/ StartFallback \/ ReadUnit \/ StopPipeline \/ Delete
FrameStep(t) == Give(t) \/ FrameReturns(t) \/ Skip(t)

Next ==
  \/ Open \/ Start \/ Stop \/ CallStep
  \/ \E t \in Thread : FrameArrives(t) \/ FrameStep(t)

Spec == Init /\ [][Next]_vars

\* Calls go on, and on_frame returns.
Fairness == WF_vars(CallStep) /\ \A t \in Thread : WF_vars(FrameStep(t))

-----------------------------------------------------------------------------
(* Properties *)

\* A start that returned has either a pipeline that streams, with the depth
\* unit settled, or a camera that can be started again; whichever of its
\* attempts failed.
StartedOrStartable ==
  call = "idle" => /\ running <=> profile # "none"
                   /\ running => unit # "unread"

\* The contract of a backend.
Contract == INSTANCE BackendContract WITH
  Camera <- {"realsense"},
  Joining <- TRUE,
  open <- IF opened THEN {"realsense"} ELSE {},
  streaming <- IF running \/ profile # "none" THEN {"realsense"} ELSE {},
  delivering <- [c \in {"realsense"} |-> {t \in Thread : left[t] > 0}]

\* start, stop and close return.
StopReturns == (call \in Call \ {"idle"}) ~> (call = "idle")
=============================================================================
