---------------------------- MODULE OrbbecBackend -----------------------------
(***************************************************************************)
(* One Orbbec camera: Backends/Orbbec/OrbbecBackend.cpp.                   *)
(*                                                                         *)
(* The IMU has a pipeline of its own, since a frameset comes at the rate   *)
(* of its slowest stream.  A camera may have no IMU, and one that refuses  *)
(* to start costs only itself: its pipeline is given up for as long as the *)
(* camera is open.                                                         *)
(*                                                                         *)
(* The host calls open, start, stop and close one at a time.  OrbbecSDK is *)
(* external: a pipeline calls from a thread of its own, start may throw an *)
(* error of the SDK's (any other exception out of the start of the IMU     *)
(* would clear running with the video on), stop waits for that thread, and *)
(* throws if the pipeline was not started.                                 *)
(***************************************************************************)
EXTENDS Naturals

VARIABLES
  opened,     \* there is a depthcam_device
  hasImu,     \* imu_pipeline is not null
  running,    \* dev->running
  streaming,  \* the pipelines that were started
  call,       \* what the host's call is doing
  closing,    \* that call is close
  left,       \* deliveries that remain of a pipeline's frameset
  inHost      \* the pipelines whose thread is inside on_frame

frameVars == <<left, inHost>>
vars == <<opened, hasImu, running, streaming, call, closing, frameVars>>

Pipeline == {"video", "imu"}

\* Colour, infrared, depth and the cloud; or one sample.
Deliveries == [p \in Pipeline |-> IF p = "video" THEN 4 ELSE 1]

Call == {"idle", "startVideo", "startImu", "stopImu", "stopVideo", "delete"}

TypeOK ==
  /\ opened \in BOOLEAN /\ closing \in BOOLEAN /\ running \in BOOLEAN
  /\ hasImu \in BOOLEAN /\ (hasImu => opened)
  /\ streaming \subseteq Pipeline
  /\ call \in Call
  /\ \A p \in Pipeline : left[p] \in 0..Deliveries[p]
  /\ inHost \subseteq Pipeline

Init ==
  /\ opened = FALSE /\ hasImu = FALSE /\ closing = FALSE
  /\ running = FALSE /\ streaming = {}
  /\ call = "idle"
  /\ left = [p \in Pipeline |-> 0] /\ inHost = {}

-----------------------------------------------------------------------------
(* What the host calls *)

\* backend_open, when it succeeds.
Open ==
  /\ call = "idle" /\ ~opened
  /\ opened' = TRUE
  /\ hasImu' \in BOOLEAN
  /\ UNCHANGED <<running, streaming, call, closing, frameVars>>

\* backend_start of a camera that does not run.
Start ==
  /\ call = "idle" /\ opened /\ ~running
  /\ running' = TRUE
  /\ call' = "startVideo"
  /\ UNCHANGED <<opened, hasImu, streaming, closing, frameVars>>

StartVideo ==
  /\ call = "startVideo"
  /\ \/ /\ streaming' = streaming \cup {"video"}
        /\ call' = IF hasImu THEN "startImu" ELSE "idle"
        /\ UNCHANGED running
     \/ /\ running' = FALSE
        /\ call' = "idle"
        /\ UNCHANGED streaming
  /\ UNCHANGED <<opened, hasImu, closing, frameVars>>

StartImu ==
  /\ call = "startImu"
  /\ \/ streaming' = streaming \cup {"imu"} /\ UNCHANGED hasImu
     \/ hasImu' = FALSE /\ UNCHANGED streaming
  /\ call' = "idle"
  /\ UNCHANGED <<opened, running, closing, frameVars>>

AfterStop(close) == IF close THEN "delete" ELSE "idle"

\* The exchange of running that begins backend_stop, alone or in
\* backend_close.
Stop ==
  /\ call = "idle" /\ opened
  /\ \E close \in BOOLEAN :
       /\ closing' = close
       /\ call' = IF ~running THEN AfterStop(close)
                  ELSE IF hasImu THEN "stopImu" ELSE "stopVideo"
  /\ running' = FALSE
  /\ UNCHANGED <<opened, hasImu, streaming, frameVars>>

StopPipeline(p) ==
  /\ left[p] = 0
  /\ streaming' = streaming \ {p}
  /\ UNCHANGED <<opened, hasImu, running, closing, frameVars>>

StopImu ==
  /\ call = "stopImu"
  /\ StopPipeline("imu")
  /\ call' = "stopVideo"

StopVideo ==
  /\ call = "stopVideo"
  /\ StopPipeline("video")
  /\ call' = AfterStop(closing)

\* backend_close goes on to delete the device.
Delete ==
  /\ call = "delete"
  /\ opened' = FALSE /\ hasImu' = FALSE /\ closing' = FALSE
  /\ call' = "idle"
  /\ UNCHANGED <<running, streaming, frameVars>>

-----------------------------------------------------------------------------
(* The threads of the pipelines: handle and handleImu *)

\* A frameset that comes while running is not set is ignored.
FramesetArrives(p) ==
  /\ p \in streaming /\ running /\ left[p] = 0
  /\ left' = [left EXCEPT ![p] = Deliveries[p]]
  /\ UNCHANGED <<opened, hasImu, running, streaming, call, closing, inHost>>

\* The host gets a holder of the frame, or the sample itself.
Give(p) ==
  /\ left[p] > 0 /\ p \notin inHost
  /\ inHost' = inHost \cup {p}
  /\ UNCHANGED <<opened, hasImu, running, streaming, call, closing, left>>

FrameReturns(p) ==
  /\ p \in inHost
  /\ inHost' = inHost \ {p}
  /\ left' = [left EXCEPT ![p] = @ - 1]
  /\ UNCHANGED <<opened, hasImu, running, streaming, call, closing>>

\* Not asked for, not in this frameset, or nothing that can be given.
Skip(p) ==
  /\ left[p] > 0 /\ p \notin inHost
  /\ left' = [left EXCEPT ![p] = @ - 1]
  /\ UNCHANGED <<opened, hasImu, running, streaming, call, closing, inHost>>

-----------------------------------------------------------------------------

CallStep == StartVideo \/ StartImu \/ StopImu \/ StopVideo \/ Delete
FrameStep(p) == Give(p) \/ FrameReturns(p) \/ Skip(p)

Next ==
  \/ Open \/ Start \/ Stop \/ CallStep
  \/ \E p \in Pipeline : FramesetArrives(p) \/ FrameStep(p)

Spec == Init /\ [][Next]_vars

\* Calls go on, and on_frame returns.
Fairness == WF_vars(CallStep) /\ \A p \in Pipeline : WF_vars(FrameStep(p))

-----------------------------------------------------------------------------
(* Properties *)

\* "The SDK throws when stopping a pipeline that was never started": none is,
\* whatever failed to start before, and between calls those run that a stop
\* would stop.
StopsWhatWasStarted ==
  /\ call = "stopImu" => streaming = Pipeline
  /\ call = "stopVideo" => streaming = {"video"}
  /\ call = "idle" =>
       streaming = IF ~running THEN {} ELSE IF hasImu THEN Pipeline ELSE {"video"}

\* The contract of a backend.
Contract == INSTANCE BackendContract WITH
  Camera <- {"orbbec"},
  Thread <- Pipeline,
  Joining <- TRUE,
  open <- IF opened THEN {"orbbec"} ELSE {},
  streaming <- IF running \/ streaming # {} THEN {"orbbec"} ELSE {},
  delivering <- [c \in {"orbbec"} |-> {p \in Pipeline : left[p] > 0}]

\* start, stop and close return.
StopReturns == (call \in Call \ {"idle"}) ~> (call = "idle")
=============================================================================
