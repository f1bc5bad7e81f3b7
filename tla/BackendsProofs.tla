---------------------------- MODULE BackendsProofs ----------------------------
(***************************************************************************)
(* What the backends promise when they stand side by side, as MCBackends   *)
(* puts them: the theorems about the Azure Kinect, the Kinect v1 and       *)
(* Oak3DVision, carried over from their own modules, and those about       *)
(* DepthAI, Orbbec, RealSense and the Kinect v2, proved here; that a       *)
(* camera is listed under an address that leads to it, and that one opened *)
(* by its identity is that one (CameraAddresses); and that a value is the  *)
(* same in a setting's node and in the camera (ControlValues).             *)
(*                                                                         *)
(* For each backend there is an inductive invariant (DInv, OInv, RInv,     *)
(* LInv; IInv in the modules of the others), which says where each call    *)
(* has got to and what streams by then; from it follow the properties, and *)
(* that every step is a step of BackendContract or none.  That of the      *)
(* addresses is AInv, that of a setting VInv.                              *)
(***************************************************************************)
EXTENDS MCBackends, Integers, Sequences, FiniteSetTheorems, WellFoundedInduction, TLAPS

(***************************************************************************)
(* One at a time.                                                          *)
(***************************************************************************)

(* A step of the whole is a step of one backend, and none of the others.   *)
LEMMA OneMoves ==
  ASSUME [Next]_vars
  PROVE  /\ [K!Next]_(K!vars) /\ [F!Next]_(F!vars) /\ [L!Next]_(L!vars)
         /\ [D!Next]_(D!vars) /\ [O!Next]_(O!vars) /\ [R!Next]_(R!vars)
         /\ [N!Next]_(N!vars)
<1> USE DEF kvars, fvars, lvars, dvars, ovars, rvars, nvars
<1>1. UNCHANGED kvars => UNCHANGED K!vars
  BY DEF K!vars, K!callVars, K!flagVars, K!imageVars
<1>2. UNCHANGED fvars => UNCHANGED F!vars
  BY DEF F!vars, F!usbVars, F!threadVars, F!motorVars
<1>3. UNCHANGED lvars => UNCHANGED L!vars
  BY DEF L!vars, L!callVars, L!streamVars, L!cloudVars, L!exposureVars
<1>4. UNCHANGED dvars => UNCHANGED D!vars
  BY DEF D!vars, D!callVars, D!pipelineVars, D!messageVars, D!settingVars
<1>5. UNCHANGED ovars => UNCHANGED O!vars
  BY DEF O!vars, O!frameVars
<1>6. UNCHANGED rvars => UNCHANGED R!vars
  BY DEF R!vars, R!callVars, R!frameVars
<1>7. UNCHANGED nvars => UNCHANGED N!vars
  BY DEF N!vars, N!deviceVars, N!streamVars, N!callVars, N!frameVars
<1> HIDE DEF kvars, fvars, lvars, dvars, ovars, rvars, nvars
<1> QED
  BY <1>1, <1>2, <1>3, <1>4, <1>5, <1>6, <1>7
     DEF Next, vars, K4AStep, FreenectStep, Freenect2Step, DepthAIStep, OrbbecStep,
         RealSenseStep, OakStep, AddressStep, ValueStep

(***************************************************************************)
(* The backends that have a module of proofs.  Its operators, with the     *)
(* variables renamed, are those of the backend's instance.                 *)
(***************************************************************************)

KP == INSTANCE K4ABackendProofs WITH
  opened <- kOpened, wantImu <- kWantImu, running <- kRunning,
  imuRunning <- kImuRunning, imuOn <- kImuOn, call <- kCall,
  closing <- kClosing, capturer <- kCapturer, sampler <- kSampler,
  capture <- kCapture, todo <- kTodo, refs <- kRefs, held <- kHeld

FP == INSTANCE FreenectBackendProofs WITH
  Camera <- Kinect, opened <- fOpened, motor <- fMotor, running <- fRunning,
  video <- fVideo, depth <- fDepth, call <- fCall, pump <- fPump,
  serving <- fServing, order <- fOrder, want <- fWant, tilt <- fTilt,
  asked <- fAsked

NP == INSTANCE OakBackendProofs WITH
  system <- nSystem, lock <- nLock, connected <- nConnected, opened <- nOpened,
  wanted <- nWanted, registered <- nRegistered, running <- nRunning,
  capturing <- nCapturing, call <- nCall, closing <- nClosing, left <- nLeft,
  inHost <- nInHost

LEMMA SameK4A ==
  /\ K!Init <=> KP!Init
  /\ K!Next <=> KP!Next
  /\ UNCHANGED K!vars => UNCHANGED KP!vars
  BY DEF K!callVars, KP!callVars, K!flagVars, KP!flagVars, K!imageVars,
         KP!imageVars, K!vars, KP!vars, K!Init, KP!Init, K!Open, KP!Open,
         K!Start, KP!Start, K!StartImu, KP!StartImu, K!Stop, KP!Stop,
         K!StopImu, KP!StopImu, K!JoinImu, KP!JoinImu, K!AfterStop,
         KP!AfterStop, K!StopCapture, KP!StopCapture, K!Join, KP!Join,
         K!Delete, KP!Delete, K!TestRunning, KP!TestRunning,
         K!CaptureTimesOut, KP!CaptureTimesOut, K!CaptureFails,
         KP!CaptureFails, K!CaptureArrives, KP!CaptureArrives, K!EmitImage,
         KP!EmitImage, K!SkipImage, KP!SkipImage, K!FrameReturns,
         KP!FrameReturns, K!ReleaseCapture, KP!ReleaseCapture,
         K!ReleaseHolder, KP!ReleaseHolder, K!TestImuRunning,
         KP!TestImuRunning, K!SampleTimesOut, KP!SampleTimesOut,
         K!SampleFails, KP!SampleFails, K!SampleArrives, KP!SampleArrives,
         K!SampleReturns, KP!SampleReturns, K!CallStep, KP!CallStep,
         K!WaitEnds, KP!WaitEnds, K!CaptureStep, KP!CaptureStep, K!SampleStep,
         KP!SampleStep, K!Next, KP!Next

LEMMA SameFreenect ==
  /\ F!Init <=> FP!Init
  /\ F!Next <=> FP!Next
  /\ UNCHANGED F!vars => UNCHANGED FP!vars
  BY DEF F!usbVars, FP!usbVars, F!threadVars, FP!threadVars, F!motorVars,
         FP!motorVars, F!vars, FP!vars, F!Idle, FP!Idle, F!Init, FP!Init,
         F!Open, FP!Open, F!At, FP!At, F!Done, FP!Done, F!Start, FP!Start,
         F!Refused, FP!Refused, F!StartVideo, FP!StartVideo, F!StartDepth,
         FP!StartDepth, F!Spawn, FP!Spawn, F!Stop, FP!Stop, F!Join, FP!Join,
         F!StopVideo, FP!StopVideo, F!StopDepth, FP!StopDepth, F!Delete,
         FP!Delete, F!SetControl, FP!SetControl, F!Goes, FP!Goes,
         F!TestRunning, FP!TestRunning, F!Dispatch, FP!Dispatch,
         F!FrameReturns, FP!FrameReturns, F!EventsHandled, FP!EventsHandled,
         F!EventsFail, FP!EventsFail, F!TakeOrder, FP!TakeOrder, F!SendOrder,
         FP!SendOrder, F!ReadState, FP!ReadState, F!SampleReturns,
         FP!SampleReturns, F!CallStep, FP!CallStep, F!PumpReturns,
         FP!PumpReturns, F!PumpStep, FP!PumpStep, F!Next, FP!Next

LEMMA SameOak ==
  /\ N!Init <=> NP!Init
  /\ N!Next <=> NP!Next
  /\ UNCHANGED N!vars => UNCHANGED NP!vars
  BY DEF N!deviceVars, NP!deviceVars, N!streamVars, NP!streamVars, N!callVars,
         NP!callVars, N!frameVars, NP!frameVars, N!vars, NP!vars, N!FrameType,
         NP!FrameType, N!Images, NP!Images, N!Init, NP!Init, N!Shutdown,
         NP!Shutdown, N!Enumerate, NP!Enumerate, N!EnumerateEnds,
         NP!EnumerateEnds, N!Open, NP!Open, N!Connect, NP!Connect,
         N!Configure, NP!Configure, N!Start, NP!Start, N!Register,
         NP!Register, N!StartCamera, NP!StartCamera, N!AfterStop,
         NP!AfterStop, N!Stop, NP!Stop, N!JoinCapture, NP!JoinCapture,
         N!StopCamera, NP!StopCamera, N!ClearCallbacks, NP!ClearCallbacks,
         N!Halt, NP!Halt, N!Forget, NP!Forget, N!Disconnect, NP!Disconnect,
         N!Callback, NP!Callback, N!Emit, NP!Emit, N!FrameReturns,
         NP!FrameReturns, N!Skip, NP!Skip, N!CallStep, NP!CallStep,
         N!FrameStep, NP!FrameStep, N!Next, NP!Next

LEMMA K4AInvariant == Spec => []KP!IInv
<1>1. Init => KP!IInv
  BY SameK4A, KP!InitInv DEF Init
<1>2. [Next]_vars => [KP!Next]_(KP!vars)
  BY OneMoves, SameK4A
<1>3. KP!IInv /\ [KP!Next]_(KP!vars) => KP!IInv'
  BY KP!StepKeepsInv
<1> QED BY <1>1, <1>2, <1>3, PTL DEF Spec

LEMMA FreenectInvariant ==
  ASSUME None \notin Tilt
  PROVE  Spec => []FP!IInv
<1>1. Init => FP!IInv
  BY SameFreenect, FP!InitInv DEF Init
<1>2. [Next]_vars => [FP!Next]_(FP!vars)
  BY OneMoves, SameFreenect
<1>3. FP!IInv /\ [FP!Next]_(FP!vars) => FP!IInv'
  BY FP!StepKeepsInv
<1> QED BY <1>1, <1>2, <1>3, PTL DEF Spec

LEMMA OakInvariant == Spec => []NP!IInv
<1>1. Init => NP!IInv
  BY SameOak, NP!InitInv DEF Init
<1>2. [Next]_vars => [NP!Next]_(NP!vars)
  BY OneMoves, SameOak
<1>3. NP!IInv /\ [NP!Next]_(NP!vars) => NP!IInv'
  BY NP!StepInv
<1> QED BY <1>1, <1>2, <1>3, PTL DEF Spec

(***************************************************************************)
(* DepthAI.                                                                *)
(***************************************************************************)

(* Where each call has got to, and what that says of the pipeline.         *)
DCallInv ==
  /\ dCall # "idle" => dOpened
  /\ dRunning => dOpened
  /\ dCall \in {"add", "start"} => dRunning /\ ~dStarted
  /\ dCall = "start" => dAdded
  /\ dCall = "apply" => dRunning /\ dStarted
  /\ dCall \in {"stop", "wait"} => ~dRunning
  /\ dCall = "wait" => ~dStarted

(* The callbacks are appended once for all the starts that fail.           *)
DCallbackInv ==
  /\ dCallbacks = IF dAdded THEN 1 ELSE 0
  /\ dStarted => dAdded

DMessageInv ==
  /\ dLeft \in [Queue -> Nat]
  /\ \A q \in dInHost : q \in Queue /\ dLeft[q] > 0

DInv ==
  /\ D!TypeOK
  /\ DCallInv /\ DCallbackInv /\ DMessageInv /\ D!SettingTakesEffect

LEMMA DInductive ==
  ASSUME MaxItems \in Nat, Factory \in Setting
  PROVE  /\ D!Init => DInv
         /\ DInv /\ [D!Next]_(D!vars) => DInv'
<1> USE DEF DInv, D!TypeOK, D!Call, DCallInv, DCallbackInv, DMessageInv, D!SettingTakesEffect,
            D!callVars, D!pipelineVars, D!messageVars, D!settingVars
<1>1. ASSUME D!Init PROVE DInv
  <2>1. dLeft = [q \in Queue |-> 0]
    BY <1>1 DEF D!Init
  <2>2. dLeft \in [Queue -> 0..MaxItems] /\ dLeft \in [Queue -> Nat]
    BY <2>1
  <2> QED BY <1>1, <2>2 DEF D!Init
<1>2. ASSUME DInv, [D!Next]_(D!vars) PROVE DInv'
  <2> USE <1>2
  <2>1. CASE D!Open             BY <2>1 DEF D!Open
  <2>2. CASE D!Start            BY <2>2 DEF D!Start
  <2>3. CASE D!Stop             BY <2>3 DEF D!Stop
  <2>4. CASE D!AddCallbacks     BY <2>4 DEF D!AddCallbacks
  <2>5. CASE D!StartPipeline
    <3>1. CASE dStarted' = TRUE /\ dCall' = "apply" /\ dRunning' = dRunning
      BY <2>5, <3>1 DEF D!StartPipeline
    <3>2. CASE dRunning' = FALSE /\ dCall' = "idle" /\ dStarted' = dStarted
      BY <2>5, <3>2 DEF D!StartPipeline
    <3> QED BY <2>5, <3>1, <3>2 DEF D!StartPipeline
  <2>6. CASE D!ApplyControls    BY <2>6 DEF D!ApplyControls
  <2>7. CASE D!StopPipeline     BY <2>7 DEF D!StopPipeline
  <2>8. CASE D!Delete           BY <2>8 DEF D!Delete, D!Fresh
  <2>9. ASSUME NEW s \in Setting, D!SetControl(s) PROVE DInv'
    BY <2>9 DEF D!SetControl
  <2>10. ASSUME NEW q \in Queue, D!TakeMessage(q) PROVE DInv'
    <3>1. PICK n \in 1..MaxItems : dLeft' = [dLeft EXCEPT ![q] = n]
      BY <2>10 DEF D!TakeMessage
    <3> QED BY <2>10, <3>1 DEF D!TakeMessage
  <2>11. ASSUME NEW q \in Queue, D!Give(q) PROVE DInv'
    BY <2>11 DEF D!Give
  <2>12. ASSUME NEW q \in Queue, D!FrameReturns(q) PROVE DInv'
    BY <2>12 DEF D!FrameReturns
  <2>13. ASSUME NEW q \in Queue, D!Skip(q) PROVE DInv'
    BY <2>13 DEF D!Skip
  <2>14. CASE UNCHANGED D!vars
    BY <2>14 DEF D!vars
  <2> QED
    BY <2>1, <2>2, <2>3, <2>4, <2>5, <2>6, <2>7, <2>8, <2>9, <2>10, <2>11, <2>12, <2>13, <2>14
       DEF D!Next, D!CallStep, D!QueueStep
<1> QED BY <1>1, <1>2

(* The queues whose callback has a message, as the host may have it.       *)
DelOak == [c \in {"oak"} |-> {q \in Queue : dLeft[q] > 0}]

\* Steps that neither begin nor end anything the host could notice.
LEMMA DUnnoticed ==
  ASSUME dOpened' = dOpened, dRunning' = dRunning, DelOak' = DelOak
  PROVE  UNCHANGED D!Contract!vars
  BY DEF D!Contract!vars, DelOak

LEMMA DStepKeepsContract ==
  ASSUME MaxItems \in Nat
  PROVE  DInv /\ [D!Next]_(D!vars) => [D!Contract!Next]_(D!Contract!vars)
<1> SUFFICES ASSUME DInv, [D!Next]_(D!vars) PROVE [D!Contract!Next]_(D!Contract!vars)
  OBVIOUS
<1> USE DEF DInv, D!TypeOK, DCallInv, DMessageInv
<1>1. ASSUME dLeft' = dLeft PROVE DelOak' = DelOak
  BY <1>1 DEF DelOak
<1>2. CASE D!Open
  <2>1. D!Contract!Open("oak")
    BY <1>2 DEF D!Open, D!Contract!Open, D!messageVars
  <2> QED BY <2>1 DEF D!Contract!Next
<1>3. CASE D!Start
  <2>1. D!Contract!Start("oak")
    BY <1>3 DEF D!Start, D!Contract!Start, D!messageVars
  <2> QED BY <2>1 DEF D!Contract!Next
<1>4. ASSUME dRunning, ~dRunning', UNCHANGED <<dOpened, dLeft>>
      PROVE  D!Contract!Next
  <2>1. D!Contract!Stop("oak")
    BY <1>4 DEF D!Contract!Stop
  <2> QED BY <2>1 DEF D!Contract!Next
<1>5. CASE D!Stop \/ D!StartPipeline
  <2>1. UNCHANGED <<dOpened, dLeft>> /\ (dRunning' = dRunning \/ dRunning' = FALSE)
    BY <1>5 DEF D!Stop, D!StartPipeline, D!messageVars
  <2>2. CASE dRunning /\ ~dRunning'
    BY <1>4, <2>1, <2>2
  <2>3. CASE dRunning' = dRunning
    BY <1>1, <2>1, <2>3, DUnnoticed
  <2> QED BY <2>1, <2>2, <2>3
<1>6. CASE D!AddCallbacks \/ D!ApplyControls \/ D!StopPipeline \/ \E s \in Setting : D!SetControl(s)
  <2>1. UNCHANGED <<dOpened, dLeft, dRunning>>
    BY <1>6 DEF D!AddCallbacks, D!ApplyControls, D!StopPipeline, D!SetControl, D!messageVars,
       D!callVars
  <2> QED BY <1>1, <2>1, DUnnoticed
<1>7. CASE D!Delete
  <2>1. DelOak["oak"] = {}
    BY <1>7 DEF D!Delete, DelOak
  <2>2. dOpened /\ ~dOpened' /\ ~dRunning /\ ~dRunning' /\ dLeft' = dLeft
    BY <1>7 DEF D!Delete, D!Fresh, D!messageVars
  <2>3. D!Contract!Close("oak")
    BY <2>1, <2>2 DEF D!Contract!Close, DelOak
  <2> QED BY <2>3 DEF D!Contract!Next
<1>8. ASSUME NEW q \in Queue, D!TakeMessage(q) PROVE D!Contract!Next
  <2>1. PICK n \in 1..MaxItems : dLeft' = [dLeft EXCEPT ![q] = n]
    BY <1>8 DEF D!TakeMessage
  <2>2. DelOak' = [DelOak EXCEPT !["oak"] = @ \cup {q}] /\ q \notin DelOak["oak"]
    BY <1>8, <2>1 DEF D!TakeMessage, DelOak
  <2>3. dRunning /\ UNCHANGED <<dOpened, dRunning>>
    BY <1>8 DEF D!TakeMessage, D!callVars
  <2>4. D!Contract!Deliver("oak", q)
    BY <2>2, <2>3 DEF D!Contract!Deliver, DelOak
  <2> QED BY <2>4 DEF D!Contract!Next
<1>9. ASSUME NEW q \in Queue, D!Give(q) PROVE UNCHANGED D!Contract!vars
  BY <1>9, <1>1, DUnnoticed DEF D!Give, D!callVars
<1>10. ASSUME NEW q \in Queue, D!FrameReturns(q) \/ D!Skip(q)
       PROVE  [D!Contract!Next]_(D!Contract!vars)
  <2>1. dLeft[q] > 0 /\ dLeft' = [dLeft EXCEPT ![q] = @ - 1] /\ UNCHANGED <<dOpened, dRunning>>
    BY <1>10 DEF D!FrameReturns, D!Skip, D!callVars
  <2>2. CASE dLeft[q] = 1
    <3>1. DelOak' = [DelOak EXCEPT !["oak"] = @ \ {q}] /\ q \in DelOak["oak"]
      BY <2>1, <2>2 DEF DelOak
    <3>2. D!Contract!Return("oak", q)
      BY <2>1, <3>1 DEF D!Contract!Return, DelOak
    <3> QED BY <3>2 DEF D!Contract!Next
  <2>3. CASE dLeft[q] # 1
    <3>1. DelOak' = DelOak
      BY <2>1, <2>3 DEF DelOak
    <3> QED BY <2>1, <3>1, DUnnoticed
  <2> QED BY <2>2, <2>3
<1>11. CASE UNCHANGED D!vars
  BY <1>11, <1>1, DUnnoticed DEF D!vars, D!callVars, D!messageVars
<1> HIDE DEF DInv, D!TypeOK, DCallInv, DMessageInv
<1> QED
  BY <1>2, <1>3, <1>5, <1>6, <1>7, <1>8, <1>9, <1>10, <1>11
     DEF D!Next, D!CallStep, D!QueueStep

(***************************************************************************)
(* Orbbec.                                                                 *)
(***************************************************************************)

(* Where each call has got to, and which pipelines stream by then.         *)
OCallInv ==
  /\ oCall # "idle" \/ oRunning \/ oHasImu => oOpened
  /\ oCall \in {"startVideo", "startImu"} => oRunning
  /\ oCall \in {"stopImu", "stopVideo", "delete"} => ~oRunning
  /\ oCall \in {"startVideo", "delete"} => oStreaming = {}
  /\ oCall = "startImu" => oHasImu /\ oStreaming = {"video"}

OFrameInv ==
  /\ oLeft \in [O!Pipeline -> Nat]
  /\ \A p \in O!Pipeline : oLeft[p] > 0 => p \in oStreaming
  /\ \A p \in oInHost : oLeft[p] > 0

OInv == O!TypeOK /\ OCallInv /\ OFrameInv /\ O!StopsWhatWasStarted

LEMMA OInductive ==
  /\ O!Init => OInv
  /\ OInv /\ [O!Next]_(O!vars) => OInv'
<1> USE DEF OInv, O!TypeOK, O!Call, O!Pipeline, O!Deliveries, OCallInv, OFrameInv,
            O!StopsWhatWasStarted, O!frameVars
<1>1. ASSUME O!Init PROVE OInv
  <2>1. \A p \in O!Pipeline : oLeft[p] = 0 /\ oLeft[p] \in 0..O!Deliveries[p]
    BY <1>1 DEF O!Init
  <2>2. oLeft \in [O!Pipeline -> Nat]
    BY <1>1 DEF O!Init
  <2>3. O!TypeOK
    <3> HIDE DEF O!Pipeline, O!Deliveries
    <3> QED BY <1>1, <2>1 DEF O!Init
  <2>4. OCallInv /\ O!StopsWhatWasStarted
    BY <1>1 DEF O!Init
  <2>5. OFrameInv
    BY <1>1, <2>1, <2>2 DEF O!Init
  <2> QED BY <2>3, <2>4, <2>5 DEF OInv
<1>2. ASSUME OInv, [O!Next]_(O!vars) PROVE OInv'
  <2> USE <1>2
  <2>1. CASE O!Open             BY <2>1 DEF O!Open
  <2>2. CASE O!Start            BY <2>2 DEF O!Start
  <2>3. CASE O!Stop             BY <2>3 DEF O!Stop, O!AfterStop
  <2>4. CASE O!StartVideo
    <3>1. CASE oRunning' = FALSE /\ oStreaming' = oStreaming /\ oCall' = "idle"
      BY <2>4, <3>1 DEF O!StartVideo
    <3>2. CASE oStreaming' = oStreaming \cup {"video"} /\ oRunning' = oRunning
               /\ oCall' = IF oHasImu THEN "startImu" ELSE "idle"
      BY <2>4, <3>2 DEF O!StartVideo
    <3> QED BY <2>4, <3>1, <3>2 DEF O!StartVideo
  <2>5. CASE O!StartImu
    <3>1. CASE oHasImu' = FALSE /\ oStreaming' = oStreaming
      BY <2>5, <3>1 DEF O!StartImu
    <3>2. CASE oStreaming' = oStreaming \cup {"imu"} /\ oHasImu' = oHasImu
      BY <2>5, <3>2 DEF O!StartImu
    <3> QED BY <2>5, <3>1, <3>2 DEF O!StartImu
  <2>6. CASE O!StopImu          BY <2>6 DEF O!StopImu, O!StopPipeline
  <2>7. CASE O!StopVideo        BY <2>7 DEF O!StopVideo, O!StopPipeline, O!AfterStop
  <2>8. CASE O!Delete           BY <2>8 DEF O!Delete
  <2>9. ASSUME NEW p \in O!Pipeline, O!FramesetArrives(p) PROVE OInv'
    BY <2>9 DEF O!FramesetArrives
  <2>10. ASSUME NEW p \in O!Pipeline, O!Give(p) PROVE OInv'
    BY <2>10 DEF O!Give
  <2>11. ASSUME NEW p \in O!Pipeline, O!FrameReturns(p) PROVE OInv'
    BY <2>11 DEF O!FrameReturns
  <2>12. ASSUME NEW p \in O!Pipeline, O!Skip(p) PROVE OInv'
    BY <2>12 DEF O!Skip
  <2>13. CASE UNCHANGED O!vars
    BY <2>13 DEF O!vars
  <2> HIDE DEF OInv, O!TypeOK, OCallInv, OFrameInv, O!StopsWhatWasStarted
  <2> QED
    BY <2>1, <2>2, <2>3, <2>4, <2>5, <2>6, <2>7, <2>8, <2>9, <2>10, <2>11, <2>12, <2>13
       DEF O!Next, O!CallStep, O!FrameStep
<1> QED BY <1>1, <1>2

(* The pipelines that have a frameset or a sample, as the host may have it. *)
DelOrbbec == [c \in {"orbbec"} |-> {p \in O!Pipeline : oLeft[p] > 0}]

\* Steps that neither begin nor end anything the host could notice.
LEMMA OUnnoticed ==
  ASSUME oOpened' = oOpened, (oRunning \/ oStreaming # {})' = (oRunning \/ oStreaming # {}),
         DelOrbbec' = DelOrbbec
  PROVE  UNCHANGED O!Contract!vars
  BY DEF O!Contract!vars, DelOrbbec

LEMMA OStepKeepsContract ==
  OInv /\ [O!Next]_(O!vars) => [O!Contract!Next]_(O!Contract!vars)
<1> SUFFICES ASSUME OInv, [O!Next]_(O!vars) PROVE [O!Contract!Next]_(O!Contract!vars)
  OBVIOUS
<1> USE DEF OInv, O!TypeOK, O!Call, OCallInv, OFrameInv, O!StopsWhatWasStarted
<1>1. ASSUME oLeft' = oLeft PROVE DelOrbbec' = DelOrbbec
  BY <1>1 DEF DelOrbbec
<1>2. CASE O!Open
  <2>1. O!Contract!Open("orbbec")
    BY <1>2 DEF O!Open, O!Contract!Open, O!frameVars
  <2> QED BY <2>1 DEF O!Contract!Next
<1>3. CASE O!Start
  <2>1. O!Contract!Start("orbbec")
    BY <1>3 DEF O!Start, O!Contract!Start, O!frameVars
  <2> QED BY <2>1 DEF O!Contract!Next
<1>4. ASSUME oRunning \/ oStreaming # {}, ~oRunning', oStreaming' = {},
             \A p \in O!Pipeline : oLeft[p] = 0, UNCHANGED <<oOpened, oLeft>>
      PROVE  O!Contract!Next
  <2>1. DelOrbbec["orbbec"] = {}
    BY <1>4 DEF DelOrbbec
  <2>2. O!Contract!Stop("orbbec")
    BY <1>4, <2>1 DEF O!Contract!Stop, DelOrbbec
  <2> QED BY <2>2 DEF O!Contract!Next
<1>5. CASE O!Stop
  <2>1. UNCHANGED <<oOpened, oLeft, oStreaming>> /\ (oRunning <=> oStreaming # {})
    BY <1>5 DEF O!Stop, O!frameVars, O!Pipeline
  <2>2. (oRunning \/ oStreaming # {})' = (oRunning \/ oStreaming # {})
    BY <1>5, <2>1 DEF O!Stop
  <2> QED BY <1>1, <2>1, <2>2, OUnnoticed
<1>6. CASE O!StartVideo
  <2>1. UNCHANGED <<oOpened, oLeft>> /\ oRunning /\ oStreaming = {}
    BY <1>6 DEF O!StartVideo, O!frameVars
  <2>2. CASE oRunning'
    <3>1. (oRunning \/ oStreaming # {})' = (oRunning \/ oStreaming # {})
      BY <2>1, <2>2
    <3> QED BY <1>1, <2>1, <3>1, OUnnoticed
  <2>3. CASE ~oRunning'
    <3>1. oStreaming' = {}
      BY <1>6, <2>1, <2>3 DEF O!StartVideo
    <3>2. \A p \in O!Pipeline : oLeft[p] = 0
      BY <2>1
    <3> QED BY <1>4, <2>1, <2>3, <3>1, <3>2
  <2> QED BY <2>2, <2>3
<1>7. CASE O!StartImu
  <2>1. UNCHANGED <<oOpened, oLeft, oRunning>> /\ oRunning
    BY <1>7 DEF O!StartImu, O!frameVars
  <2>2. (oRunning \/ oStreaming # {})' = (oRunning \/ oStreaming # {})
    BY <2>1
  <2> QED BY <1>1, <2>1, <2>2, OUnnoticed
<1>8. CASE O!StopImu
  <2>1. UNCHANGED <<oOpened, oLeft, oRunning>> /\ oStreaming = O!Pipeline /\ "video" \in oStreaming'
    BY <1>8 DEF O!StopImu, O!StopPipeline, O!frameVars, O!Pipeline
  <2>2. (oRunning \/ oStreaming # {})' = (oRunning \/ oStreaming # {})
    BY <2>1 DEF O!Pipeline
  <2> QED BY <1>1, <2>1, <2>2, OUnnoticed
<1>9. CASE O!StopVideo
  <2>1. UNCHANGED <<oOpened, oLeft, oRunning>> /\ ~oRunning /\ oStreaming = {"video"}
        /\ oStreaming' = {} /\ oLeft["video"] = 0
    BY <1>9 DEF O!StopVideo, O!StopPipeline, O!frameVars
  <2>2. \A p \in O!Pipeline : oLeft[p] = 0
    BY <2>1 DEF O!Pipeline
  <2> QED BY <1>4, <2>1, <2>2
<1>10. CASE O!Delete
  <2>1. ~oRunning /\ oStreaming = {} /\ oOpened /\ ~oOpened'
        /\ UNCHANGED <<oLeft, oRunning, oStreaming>>
    BY <1>10 DEF O!Delete, O!frameVars
  <2>2. DelOrbbec["orbbec"] = {}
    BY <2>1 DEF DelOrbbec
  <2>3. O!Contract!Close("orbbec")
    BY <2>1, <2>2 DEF O!Contract!Close, DelOrbbec
  <2> QED BY <2>3 DEF O!Contract!Next
<1>11. ASSUME NEW p \in O!Pipeline, O!FramesetArrives(p) PROVE O!Contract!Next
  <2>1. oLeft[p] = 0 /\ oLeft' = [oLeft EXCEPT ![p] = O!Deliveries[p]] /\ O!Deliveries[p] > 0
        /\ oRunning /\ UNCHANGED <<oOpened, oRunning, oStreaming>>
    BY <1>11 DEF O!FramesetArrives, O!Deliveries
  <2>2. DelOrbbec' = [DelOrbbec EXCEPT !["orbbec"] = @ \cup {p}] /\ p \notin DelOrbbec["orbbec"]
    BY <2>1 DEF DelOrbbec
  <2>3. O!Contract!Deliver("orbbec", p)
    BY <2>1, <2>2 DEF O!Contract!Deliver, DelOrbbec
  <2> QED BY <2>3 DEF O!Contract!Next
<1>12. ASSUME NEW p \in O!Pipeline, O!Give(p) PROVE UNCHANGED O!Contract!vars
  <2>1. UNCHANGED <<oOpened, oLeft, oRunning, oStreaming>>
    BY <1>12 DEF O!Give
  <2> QED BY <1>1, <2>1, OUnnoticed
<1>13. ASSUME NEW p \in O!Pipeline, O!FrameReturns(p) \/ O!Skip(p)
       PROVE  [O!Contract!Next]_(O!Contract!vars)
  <2>1. oLeft[p] > 0 /\ oLeft' = [oLeft EXCEPT ![p] = @ - 1]
        /\ UNCHANGED <<oOpened, oRunning, oStreaming>>
    BY <1>13 DEF O!FrameReturns, O!Skip
  <2>2. CASE oLeft[p] = 1
    <3>1. DelOrbbec' = [DelOrbbec EXCEPT !["orbbec"] = @ \ {p}] /\ p \in DelOrbbec["orbbec"]
      BY <2>1, <2>2 DEF DelOrbbec
    <3>2. O!Contract!Return("orbbec", p)
      BY <2>1, <3>1 DEF O!Contract!Return, DelOrbbec
    <3> QED BY <3>2 DEF O!Contract!Next
  <2>3. CASE oLeft[p] # 1
    <3>1. DelOrbbec' = DelOrbbec
      BY <2>1, <2>3 DEF DelOrbbec
    <3> QED BY <2>1, <3>1, OUnnoticed
  <2> QED BY <2>2, <2>3
<1>14. CASE UNCHANGED O!vars
  <2>1. UNCHANGED <<oOpened, oLeft, oRunning, oStreaming>>
    BY <1>14 DEF O!vars, O!frameVars
  <2> QED BY <1>1, <2>1, OUnnoticed
<1> HIDE DEF OInv, O!TypeOK, O!Call, OCallInv, OFrameInv, O!StopsWhatWasStarted
<1> QED
  BY <1>2, <1>3, <1>5, <1>6, <1>7, <1>8, <1>9, <1>10, <1>11, <1>12, <1>13, <1>14
     DEF O!Next, O!CallStep, O!FrameStep

(***************************************************************************)
(* RealSense.                                                              *)
(***************************************************************************)

(* Where each call has got to, and what the pipeline streams by then.      *)
RCallInv ==
  /\ rCall # "idle" \/ rRunning => rOpened
  /\ rCall \in {"start", "fallback"} => rRunning /\ rProfile = "none"
  /\ rCall = "unit" => rRunning /\ rProfile # "none"
  /\ rCall = "stop" => ~rRunning /\ rProfile # "none"
  /\ rCall = "delete" => ~rRunning /\ rProfile = "none"

RFrameInv ==
  /\ rLeft \in [R!Thread -> Nat]
  /\ \A t \in R!Thread : rLeft[t] > 0 => rProfile # "none"
  /\ \A t \in rInHost : rLeft[t] > 0

RInv == R!TypeOK /\ RCallInv /\ RFrameInv /\ R!StartedOrStartable

LEMMA RInductive ==
  /\ R!Init => RInv
  /\ RInv /\ [R!Next]_(R!vars) => RInv'
<1> USE DEF RInv, R!TypeOK, R!Call, R!Thread, R!Deliveries, RCallInv, RFrameInv,
            R!StartedOrStartable, R!callVars, R!frameVars
<1>1. ASSUME R!Init PROVE RInv
  <2>1. \A t \in R!Thread : rLeft[t] = 0 /\ rLeft[t] \in 0..R!Deliveries[t]
    BY <1>1 DEF R!Init
  <2>2. rLeft \in [R!Thread -> Nat]
    BY <1>1 DEF R!Init
  <2>3. R!TypeOK
    <3> HIDE DEF R!Thread, R!Deliveries
    <3> QED BY <1>1, <2>1 DEF R!Init
  <2>4. RCallInv /\ R!StartedOrStartable
    BY <1>1 DEF R!Init
  <2>5. RFrameInv
    BY <1>1, <2>1, <2>2 DEF R!Init
  <2> QED BY <2>3, <2>4, <2>5 DEF RInv
<1>2. ASSUME RInv, [R!Next]_(R!vars) PROVE RInv'
  <2> USE <1>2
  <2>1. CASE R!Open             BY <2>1 DEF R!Open
  <2>2. CASE R!Start            BY <2>2 DEF R!Start
  <2>3. CASE R!Stop             BY <2>3 DEF R!Stop, R!AfterStop
  <2>4. CASE R!StartAsked       BY <2>4 DEF R!StartAsked
  <2>5. CASE R!StartFallback
    <3>1. CASE rProfile' = "fallback" /\ rCall' = "unit" /\ rRunning' = rRunning
      BY <2>5, <3>1 DEF R!StartFallback
    <3>2. CASE rRunning' = FALSE /\ rCall' = "idle" /\ rProfile' = rProfile
      BY <2>5, <3>2 DEF R!StartFallback
    <3> QED BY <2>5, <3>1, <3>2 DEF R!StartFallback
  <2>6. CASE R!ReadUnit         BY <2>6 DEF R!ReadUnit
  <2>7. CASE R!StopPipeline     BY <2>7 DEF R!StopPipeline, R!AfterStop
  <2>8. CASE R!Delete           BY <2>8 DEF R!Delete
  <2>9. ASSUME NEW t \in R!Thread, R!FrameArrives(t) PROVE RInv'
    BY <2>9 DEF R!FrameArrives
  <2>10. ASSUME NEW t \in R!Thread, R!Give(t) PROVE RInv'
    BY <2>10 DEF R!Give
  <2>11. ASSUME NEW t \in R!Thread, R!FrameReturns(t) PROVE RInv'
    BY <2>11 DEF R!FrameReturns
  <2>12. ASSUME NEW t \in R!Thread, R!Skip(t) PROVE RInv'
    BY <2>12 DEF R!Skip
  <2>13. CASE UNCHANGED R!vars
    BY <2>13 DEF R!vars
  <2> HIDE DEF RInv, R!TypeOK, RCallInv, RFrameInv, R!StartedOrStartable
  <2> QED
    BY <2>1, <2>2, <2>3, <2>4, <2>5, <2>6, <2>7, <2>8, <2>9, <2>10, <2>11, <2>12, <2>13
       DEF R!Next, R!CallStep, R!FrameStep
<1> QED BY <1>1, <1>2

(* The threads that have a frameset or a sample, as the host may have it.  *)
DelRealSense == [c \in {"realsense"} |-> {t \in R!Thread : rLeft[t] > 0}]

\* Steps that neither begin nor end anything the host could notice.
LEMMA RUnnoticed ==
  ASSUME rOpened' = rOpened, (rRunning \/ rProfile # "none")' = (rRunning \/ rProfile # "none"),
         DelRealSense' = DelRealSense
  PROVE  UNCHANGED R!Contract!vars
  BY DEF R!Contract!vars, DelRealSense

LEMMA RStepKeepsContract ==
  RInv /\ [R!Next]_(R!vars) => [R!Contract!Next]_(R!Contract!vars)
<1> SUFFICES ASSUME RInv, [R!Next]_(R!vars) PROVE [R!Contract!Next]_(R!Contract!vars)
  OBVIOUS
<1> USE DEF RInv, R!TypeOK, R!Call, RCallInv, RFrameInv, R!StartedOrStartable
<1>1. ASSUME rLeft' = rLeft PROVE DelRealSense' = DelRealSense
  BY <1>1 DEF DelRealSense
<1>2. CASE R!Open
  <2>1. R!Contract!Open("realsense")
    BY <1>2 DEF R!Open, R!Contract!Open, R!frameVars
  <2> QED BY <2>1 DEF R!Contract!Next
<1>3. CASE R!Start
  <2>1. R!Contract!Start("realsense")
    BY <1>3 DEF R!Start, R!Contract!Start, R!frameVars
  <2> QED BY <2>1 DEF R!Contract!Next
<1>4. ASSUME rRunning \/ rProfile # "none", ~rRunning', rProfile' = "none",
             \A t \in R!Thread : rLeft[t] = 0, UNCHANGED <<rOpened, rLeft>>
      PROVE  R!Contract!Next
  <2>1. DelRealSense["realsense"] = {}
    BY <1>4 DEF DelRealSense
  <2>2. R!Contract!Stop("realsense")
    BY <1>4, <2>1 DEF R!Contract!Stop, DelRealSense
  <2> QED BY <2>2 DEF R!Contract!Next
<1>5. CASE R!Stop
  <2>1. UNCHANGED <<rOpened, rLeft, rProfile>> /\ (rRunning <=> rProfile # "none")
    BY <1>5 DEF R!Stop, R!frameVars
  <2>2. (rRunning \/ rProfile # "none")' = (rRunning \/ rProfile # "none")
    BY <1>5, <2>1 DEF R!Stop
  <2> QED BY <1>1, <2>1, <2>2, RUnnoticed
<1>6. CASE R!StartAsked \/ R!ReadUnit
  <2>1. UNCHANGED <<rOpened, rLeft, rRunning>> /\ rRunning
    BY <1>6 DEF R!StartAsked, R!ReadUnit, R!frameVars
  <2>2. (rRunning \/ rProfile # "none")' = (rRunning \/ rProfile # "none")
    BY <2>1
  <2> QED BY <1>1, <2>1, <2>2, RUnnoticed
<1>7. CASE R!StartFallback
  <2>1. UNCHANGED <<rOpened, rLeft>> /\ rRunning /\ rProfile = "none"
    BY <1>7 DEF R!StartFallback, R!frameVars
  <2>2. CASE rRunning'
    <3>1. (rRunning \/ rProfile # "none")' = (rRunning \/ rProfile # "none")
      BY <2>1, <2>2
    <3> QED BY <1>1, <2>1, <3>1, RUnnoticed
  <2>3. CASE ~rRunning'
    <3>1. rProfile' = "none"
      BY <1>7, <2>1, <2>3 DEF R!StartFallback
    <3>2. \A t \in R!Thread : rLeft[t] = 0
      BY <2>1
    <3> QED BY <1>4, <2>1, <2>3, <3>1, <3>2
  <2> QED BY <2>2, <2>3
<1>8. CASE R!StopPipeline
  <2>1. UNCHANGED <<rOpened, rLeft, rRunning>> /\ ~rRunning /\ rProfile # "none"
        /\ rProfile' = "none" /\ \A t \in R!Thread : rLeft[t] = 0
    BY <1>8 DEF R!StopPipeline, R!frameVars
  <2> QED BY <1>4, <2>1
<1>9. CASE R!Delete
  <2>1. ~rRunning /\ rProfile = "none" /\ rOpened /\ ~rOpened'
        /\ UNCHANGED <<rLeft, rRunning, rProfile>>
    BY <1>9 DEF R!Delete, R!frameVars
  <2>2. DelRealSense["realsense"] = {}
    BY <2>1 DEF DelRealSense
  <2>3. R!Contract!Close("realsense")
    BY <2>1, <2>2 DEF R!Contract!Close, DelRealSense
  <2> QED BY <2>3 DEF R!Contract!Next
<1>10. ASSUME NEW t \in R!Thread, R!FrameArrives(t) PROVE R!Contract!Next
  <2>1. rLeft[t] = 0 /\ rLeft' = [rLeft EXCEPT ![t] = R!Deliveries[t]] /\ R!Deliveries[t] > 0
        /\ rRunning /\ UNCHANGED <<rOpened, rRunning, rProfile>>
    BY <1>10 DEF R!FrameArrives, R!Deliveries, R!callVars
  <2>2. DelRealSense' = [DelRealSense EXCEPT !["realsense"] = @ \cup {t}]
        /\ t \notin DelRealSense["realsense"]
    BY <2>1 DEF DelRealSense
  <2>3. R!Contract!Deliver("realsense", t)
    BY <2>1, <2>2 DEF R!Contract!Deliver, DelRealSense
  <2> QED BY <2>3 DEF R!Contract!Next
<1>11. ASSUME NEW t \in R!Thread, R!Give(t) PROVE UNCHANGED R!Contract!vars
  <2>1. UNCHANGED <<rOpened, rLeft, rRunning, rProfile>>
    BY <1>11 DEF R!Give, R!callVars
  <2> QED BY <1>1, <2>1, RUnnoticed
<1>12. ASSUME NEW t \in R!Thread, R!FrameReturns(t) \/ R!Skip(t)
       PROVE  [R!Contract!Next]_(R!Contract!vars)
  <2>1. rLeft[t] > 0 /\ rLeft' = [rLeft EXCEPT ![t] = @ - 1]
        /\ UNCHANGED <<rOpened, rRunning, rProfile>>
    BY <1>12 DEF R!FrameReturns, R!Skip, R!callVars
  <2>2. CASE rLeft[t] = 1
    <3>1. DelRealSense' = [DelRealSense EXCEPT !["realsense"] = @ \ {t}]
          /\ t \in DelRealSense["realsense"]
      BY <2>1, <2>2 DEF DelRealSense
    <3>2. R!Contract!Return("realsense", t)
      BY <2>1, <3>1 DEF R!Contract!Return, DelRealSense
    <3> QED BY <3>2 DEF R!Contract!Next
  <2>3. CASE rLeft[t] # 1
    <3>1. DelRealSense' = DelRealSense
      BY <2>1, <2>3 DEF DelRealSense
    <3> QED BY <2>1, <3>1, RUnnoticed
  <2> QED BY <2>2, <2>3
<1>13. CASE UNCHANGED R!vars
  <2>1. UNCHANGED <<rOpened, rLeft, rRunning, rProfile>>
    BY <1>13 DEF R!vars, R!frameVars, R!callVars
  <2> QED BY <1>1, <2>1, RUnnoticed
<1> HIDE DEF RInv, R!TypeOK, R!Call, RCallInv, RFrameInv, R!StartedOrStartable
<1> QED
  BY <1>2, <1>3, <1>5, <1>6, <1>7, <1>8, <1>9, <1>10, <1>11, <1>12, <1>13
     DEF R!Next, R!CallStep, R!FrameStep

(***************************************************************************)
(* The Kinect v2.                                                          *)
(***************************************************************************)

(* Where each call has got to, and what streams by then; libfreenect2 has  *)
(* a frame only while it streams.                                          *)
LCallInv ==
  /\ lCall # "idle" \/ lRunning => lOpened
  /\ lCall \in {"start", "apply", "register"} => lRunning
  /\ lCall \in {"stop", "delete"} => ~lRunning
  /\ lCall \in {"start", "delete"} => ~lStreaming
  /\ lCall \in {"apply", "register", "stop"} => lStreaming
  /\ lCall = "idle" => (lRunning <=> lStreaming)
  /\ \A t \in L!Thread : lThread[t] # "idle" => lStreaming

(* The registration is made after the command was sent, so what was set    *)
(* then is already with the camera or on its way.                          *)
LSentInv ==
  lCall \in {"idle", "register"} /\ lStreaming /\ ~lApplying => lSent \in {L!Command, L!Lost}

LInv == L!TypeOK /\ LCallInv /\ LSentInv

LEMMA LInductive ==
  ASSUME FirstMode \in Mode, Default \in Value, ModeOf \in [Param -> Mode]
  PROVE  /\ L!Init => LInv
         /\ LInv /\ [L!Next]_(L!vars) => LInv'
<1> USE DEF L!TypeOK, L!Call, L!Thread, L!ThreadState, LCallInv, LSentInv,
            L!callVars, L!streamVars, L!cloudVars, L!exposureVars
<1>1. ASSUME L!Init PROVE LInv
  BY <1>1 DEF L!Init, LInv
<1>2. ASSUME LInv, [L!Next]_(L!vars) PROVE LInv'
  <2>0. L!TypeOK /\ LCallInv /\ LSentInv
    BY <1>2 DEF LInv
  <2>1. ASSUME UNCHANGED <<lMode, lParam>> PROVE L!Command' = L!Command /\ L!Lost' = L!Lost
    BY <2>1 DEF L!Command, L!Lost
  <2>2. CASE L!Open \/ L!Start \/ L!Stop \/ L!StopStreams
    <3>1. L!TypeOK' /\ LCallInv'
      <4>1. CASE L!Open         BY <2>0, <4>1 DEF L!Open
      <4>2. CASE L!Start        BY <2>0, <4>2 DEF L!Start
      <4>3. CASE L!Stop         BY <2>0, <4>3 DEF L!Stop, L!AfterStop
      <4>4. CASE L!StopStreams  BY <2>0, <4>4 DEF L!StopStreams, L!AfterStop
      <4> QED BY <2>2, <4>1, <4>2, <4>3, <4>4
    <3>2. UNCHANGED <<lMode, lParam>>
      BY <2>2 DEF L!Open, L!Start, L!Stop, L!StopStreams
    <3>3. LSentInv'
      <4>1. CASE L!Open   BY <2>0, <2>1, <4>1, <3>2 DEF L!Open
      <4>2. CASE L!Start  BY <4>2 DEF L!Start
      <4>3. CASE L!Stop
        <5>1. CASE lRunning   BY <4>3, <5>1 DEF L!Stop
        <5>2. CASE ~lRunning  BY <2>0, <4>3, <5>2 DEF L!Stop
        <5> QED BY <5>1, <5>2
      <4>4. CASE L!StopStreams  BY <4>4 DEF L!StopStreams
      <4> QED BY <2>2, <4>1, <4>2, <4>3, <4>4
    <3> QED BY <3>1, <3>3 DEF LInv
  <2>3. CASE L!StartStreams
    <3>1. CASE lStreaming' = TRUE /\ lCall' = "apply" /\ lRunning' = lRunning
      BY <2>0, <2>3, <3>1 DEF L!StartStreams, LInv
    <3>2. CASE lRunning' = FALSE /\ lCall' = "idle" /\ lStreaming' = lStreaming
      BY <2>0, <2>3, <3>2 DEF L!StartStreams, LInv
    <3> QED BY <2>3, <3>1, <3>2 DEF L!StartStreams
  <2>4. CASE L!ApplyExposure
    <3>1. UNCHANGED <<lMode, lParam>> /\ lSent' \in {L!Command, L!Lost}
      BY <2>4 DEF L!ApplyExposure
    <3> QED BY <2>0, <2>1, <2>4, <3>1 DEF L!ApplyExposure, LInv
  <2>5. CASE L!Register \/ L!SendExposure
    <3>1. UNCHANGED <<lMode, lParam>>
      BY <2>5 DEF L!Register, L!SendExposure
    <3>2. L!TypeOK' /\ LCallInv'
      <4>1. CASE L!Register      BY <2>0, <4>1 DEF L!Register
      <4>2. CASE L!SendExposure  BY <2>0, <4>2 DEF L!SendExposure
      <4> QED BY <2>5, <4>1, <4>2
    <3>3. CASE L!Register
      BY <2>0, <2>1, <3>1, <3>2, <3>3 DEF L!Register, LInv
    <3>4. CASE L!SendExposure
      <4>1. lStreaming => lSent' \in {L!Command', L!Lost}
        BY <2>1, <3>1, <3>4 DEF L!SendExposure
      <4> QED BY <3>2, <3>4, <4>1 DEF L!SendExposure, LInv
    <3> QED BY <2>5, <3>3, <3>4
  <2>6. CASE L!Delete
    BY <2>0, <2>6 DEF L!Delete, LInv
  <2>7. CASE L!SetStep
    <3>1. L!Set
      BY <2>7 DEF L!SetStep, L!SetMode, L!SetParam
    <3>2. lMode' \in Mode /\ lParam' \in [Param -> Value]
      BY <2>0, <2>7 DEF L!SetStep, L!SetMode, L!SetParam
    <3>3. L!TypeOK' /\ LCallInv'
      BY <2>0, <3>1, <3>2 DEF L!Set
    <3>4. LSentInv'
      BY <2>0, <3>1 DEF L!Set
    <3> QED BY <3>3, <3>4 DEF LInv
  <2>8. ASSUME NEW t \in L!Thread, NEW from, NEW to \in L!ThreadState, L!Goes(t, from, to),
               t = "colour" => to \notin {"apply", "cloud"}, from = "idle" => lStreaming,
               lRegistration' = lRegistration, lKept' \subseteq L!Thread
        PROVE  LInv'
    <3>1. UNCHANGED <<lMode, lParam>>
      BY <2>8 DEF L!Goes
    <3>2. L!TypeOK' /\ LCallInv'
      BY <2>0, <2>8 DEF L!Goes
    <3>3. LSentInv'
      BY <2>0, <2>1, <2>8, <3>1 DEF L!Goes
    <3> QED BY <3>2, <3>3 DEF LInv
  <2>9. ASSUME NEW t \in L!Thread, L!FrameArrives(t) \/ L!ThreadStep(t) PROVE LInv'
    <3>1. CASE L!FrameArrives(t)    BY <2>0, <2>8, <3>1 DEF L!FrameArrives
    <3>2. CASE L!Keep(t)            BY <2>0, <2>8, <3>2 DEF L!Keep
    <3>3. CASE L!Give(t)            BY <2>0, <2>8, <3>3 DEF L!Give
    <3>4. CASE L!FrameReturns(t)    BY <2>0, <2>8, <3>4 DEF L!FrameReturns
    <3>5. CASE L!DeleteFrame(t)     BY <2>0, <2>8, <3>5 DEF L!DeleteFrame
    <3>6. CASE t = "depth" /\ L!GiveCloud     BY <2>0, <2>8, <3>6 DEF L!GiveCloud
    <3>7. CASE t = "depth" /\ L!CloudReturns  BY <2>0, <2>8, <3>7 DEF L!CloudReturns
    <3> QED BY <2>9, <3>1, <3>2, <3>3, <3>4, <3>5, <3>6, <3>7 DEF L!ThreadStep
  <2>10. CASE UNCHANGED L!vars
    <3>1. UNCHANGED <<lMode, lParam>>
      BY <2>10 DEF L!vars
    <3> QED BY <2>0, <2>1, <2>10, <3>1 DEF L!vars, LInv
  <2> QED
    BY <1>2, <2>2, <2>3, <2>4, <2>5, <2>6, <2>7, <2>9, <2>10 DEF L!Next, L!CallStep
<1> QED BY <1>1, <1>2

(* The threads that are inside on_frame, with a frame or with a cloud.     *)
DelKinect == [c \in {"kinect2"} |-> {t \in L!Thread : lThread[t] \in {"host", "cloud"}}]

\* Steps that neither begin nor end anything the host could notice.
LEMMA LUnnoticed ==
  ASSUME lOpened' = lOpened, (lRunning \/ lStreaming)' = (lRunning \/ lStreaming),
         DelKinect' = DelKinect
  PROVE  UNCHANGED L!Contract!vars
  BY DEF L!Contract!vars, DelKinect

LEMMA LStepKeepsContract ==
  LInv /\ [L!Next]_(L!vars) => [L!Contract!Next]_(L!Contract!vars)
<1> SUFFICES ASSUME LInv, [L!Next]_(L!vars) PROVE [L!Contract!Next]_(L!Contract!vars)
  OBVIOUS
<1> USE DEF LInv, L!TypeOK, L!Call, LCallInv, L!callVars, L!streamVars
<1>1. ASSUME lThread' = lThread PROVE DelKinect' = DelKinect
  BY <1>1 DEF DelKinect
<1>2. CASE L!Open
  <2>1. L!Contract!Open("kinect2")
    BY <1>2 DEF L!Open, L!Contract!Open
  <2> QED BY <2>1 DEF L!Contract!Next
<1>3. CASE L!Start
  <2>1. L!Contract!Start("kinect2")
    BY <1>3 DEF L!Start, L!Contract!Start
  <2> QED BY <2>1 DEF L!Contract!Next
<1>4. ASSUME lRunning \/ lStreaming, ~lRunning', ~lStreaming',
             \A t \in L!Thread : lThread[t] = "idle", UNCHANGED <<lOpened, lThread>>
      PROVE  L!Contract!Next
  <2>1. DelKinect["kinect2"] = {}
    BY <1>4 DEF DelKinect
  <2>2. L!Contract!Stop("kinect2")
    BY <1>4, <2>1 DEF L!Contract!Stop, DelKinect
  <2> QED BY <2>2 DEF L!Contract!Next
<1>5. CASE L!Stop
  <2>1. UNCHANGED <<lOpened, lThread, lStreaming>> /\ (lRunning <=> lStreaming)
    BY <1>5 DEF L!Stop
  <2>2. (lRunning \/ lStreaming)' = (lRunning \/ lStreaming)
    BY <1>5, <2>1 DEF L!Stop
  <2> QED BY <1>1, <2>1, <2>2, LUnnoticed
<1>6. CASE L!StartStreams
  <2>1. UNCHANGED <<lOpened, lThread>> /\ lRunning /\ ~lStreaming
    BY <1>6 DEF L!StartStreams
  <2>2. CASE lRunning'
    <3>1. (lRunning \/ lStreaming)' = (lRunning \/ lStreaming)
      BY <2>1, <2>2
    <3> QED BY <1>1, <2>1, <3>1, LUnnoticed
  <2>3. CASE ~lRunning'
    <3>1. ~lStreaming'
      BY <1>6, <2>1, <2>3 DEF L!StartStreams
    <3>2. \A t \in L!Thread : lThread[t] = "idle"
      BY <2>1
    <3> QED BY <1>4, <2>1, <2>3, <3>1, <3>2
  <2> QED BY <2>2, <2>3
<1>7. CASE L!ApplyExposure \/ L!Register \/ L!SetStep \/ L!SendExposure
  <2>1. UNCHANGED <<lOpened, lThread, lRunning, lStreaming>>
    BY <1>7 DEF L!ApplyExposure, L!Register, L!SetStep, L!SetMode, L!SetParam, L!Set, L!SendExposure
  <2>2. (lRunning \/ lStreaming)' = (lRunning \/ lStreaming)
    BY <2>1
  <2> QED BY <1>1, <2>1, <2>2, LUnnoticed
<1>8. CASE L!StopStreams
  <2>1. UNCHANGED <<lOpened, lThread, lRunning>> /\ ~lRunning /\ lStreaming /\ ~lStreaming'
        /\ \A t \in L!Thread : lThread[t] = "idle"
    BY <1>8 DEF L!StopStreams
  <2> QED BY <1>4, <2>1
<1>9. CASE L!Delete
  <2>1. ~lRunning /\ ~lStreaming /\ lOpened /\ ~lOpened'
        /\ UNCHANGED <<lThread, lRunning, lStreaming>>
    BY <1>9 DEF L!Delete
  <2>2. DelKinect["kinect2"] = {}
    BY <2>1 DEF DelKinect
  <2>3. L!Contract!Close("kinect2")
    BY <2>1, <2>2 DEF L!Contract!Close, DelKinect
  <2> QED BY <2>3 DEF L!Contract!Next
<1>10. ASSUME NEW t \in L!Thread, NEW from, NEW to, L!Goes(t, from, to)
       PROVE  /\ UNCHANGED <<lOpened, lRunning, lStreaming>> /\ lThread[t] = from
              /\ lThread' = [lThread EXCEPT ![t] = to]
              /\ (lRunning \/ lStreaming)' = (lRunning \/ lStreaming)
  BY <1>10 DEF L!Goes
<1>11. ASSUME NEW t \in L!Thread, NEW from, NEW to, L!Goes(t, from, to),
              (from \in {"host", "cloud"}) = (to \in {"host", "cloud"})
       PROVE  UNCHANGED L!Contract!vars
  <2>1. DelKinect' = DelKinect
    BY <1>10, <1>11 DEF DelKinect
  <2> QED BY <1>10, <1>11, <2>1, LUnnoticed
<1>12. ASSUME NEW t \in L!Thread, NEW from \in {"give", "apply"}, NEW to \in {"host", "cloud"},
              L!Goes(t, from, to)
       PROVE  L!Contract!Next
  <2>1. DelKinect' = [DelKinect EXCEPT !["kinect2"] = @ \cup {t}] /\ t \notin DelKinect["kinect2"]
    BY <1>10, <1>12 DEF DelKinect
  <2>2. lStreaming
    BY <1>10, <1>12
  <2>3. L!Contract!Deliver("kinect2", t)
    BY <1>10, <1>12, <2>1, <2>2 DEF L!Contract!Deliver, DelKinect
  <2> QED BY <2>3 DEF L!Contract!Next
<1>13. ASSUME NEW t \in L!Thread, NEW from \in {"host", "cloud"}, NEW to \in {"returned", "idle"},
              L!Goes(t, from, to)
       PROVE  L!Contract!Next
  <2>0. {u \in L!Thread : lThread'[u] \in {"host", "cloud"}} = DelKinect["kinect2"] \ {t}
    BY <1>10, <1>13 DEF DelKinect
  <2>1. DelKinect' = [DelKinect EXCEPT !["kinect2"] = @ \ {t}] /\ t \in DelKinect["kinect2"]
    BY <1>10, <1>13, <2>0 DEF DelKinect
  <2>2. L!Contract!Return("kinect2", t)
    BY <1>10, <1>13, <2>1 DEF L!Contract!Return, DelKinect
  <2> QED BY <2>2 DEF L!Contract!Next
<1>14. ASSUME NEW t \in L!Thread, L!FrameArrives(t) \/ L!ThreadStep(t)
       PROVE  [L!Contract!Next]_(L!Contract!vars)
  <2> HIDE DEF LInv, L!TypeOK, L!Call, LCallInv, L!Thread
  <2>0. "depth" \in L!Thread
    BY DEF L!Thread
  <2>1. CASE L!FrameArrives(t)    BY <1>11, <2>1 DEF L!FrameArrives
  <2>2. CASE L!Keep(t)            BY <1>11, <2>2 DEF L!Keep
  <2>3. CASE L!Give(t)
    <3>1. CASE L!Goes(t, "give", "host")      BY <1>12, <3>1
    <3>2. CASE L!Goes(t, "give", "returned")  BY <1>11, <3>2
    <3> QED BY <2>3, <3>1, <3>2 DEF L!Give
  <2>4. CASE L!FrameReturns(t)    BY <1>13, <2>4 DEF L!FrameReturns
  <2>5. CASE L!DeleteFrame(t)
    <3>1. CASE L!Goes(t, "returned", "apply")  BY <1>11, <3>1
    <3>2. CASE L!Goes(t, "returned", "idle")   BY <1>11, <3>2
    <3> QED BY <2>5, <3>1, <3>2 DEF L!DeleteFrame
  <2>6. CASE L!GiveCloud
    <3>1. CASE L!Goes("depth", "apply", "cloud")  BY <1>12, <2>0, <3>1
    <3>2. CASE L!Goes("depth", "apply", "idle")   BY <1>11, <2>0, <3>2
    <3> QED BY <2>6, <3>1, <3>2 DEF L!GiveCloud
  <2>7. CASE L!CloudReturns       BY <1>13, <2>0, <2>7 DEF L!CloudReturns
  <2> QED BY <1>14, <2>1, <2>2, <2>3, <2>4, <2>5, <2>6, <2>7 DEF L!ThreadStep
<1>15. CASE UNCHANGED L!vars
  <2>1. UNCHANGED <<lOpened, lThread, lRunning, lStreaming>>
    BY <1>15 DEF L!vars
  <2>2. (lRunning \/ lStreaming)' = (lRunning \/ lStreaming)
    BY <2>1
  <2> QED BY <1>1, <2>1, <2>2, LUnnoticed
<1> HIDE DEF LInv, L!TypeOK, L!Call, LCallInv
<1> QED
  BY <1>2, <1>3, <1>5, <1>6, <1>7, <1>8, <1>9, <1>14, <1>15 DEF L!Next, L!CallStep

-----------------------------------------------------------------------------
(* The theorems *)

LEMMA DepthAIInvariant ==
  ASSUME MaxItems \in Nat, Factory \in Setting
  PROVE  Spec => []DInv
<1>1. Init => DInv
  BY DInductive DEF Init
<1>2. DInv /\ [Next]_vars => DInv'
  BY DInductive, OneMoves
<1> QED BY <1>1, <1>2, PTL DEF Spec

LEMMA OrbbecInvariant == Spec => []OInv
<1>1. Init => OInv
  BY OInductive DEF Init
<1>2. OInv /\ [Next]_vars => OInv'
  BY OInductive, OneMoves
<1> QED BY <1>1, <1>2, PTL DEF Spec

LEMMA RealSenseInvariant == Spec => []RInv
<1>1. Init => RInv
  BY RInductive DEF Init
<1>2. RInv /\ [Next]_vars => RInv'
  BY RInductive, OneMoves
<1> QED BY <1>1, <1>2, PTL DEF Spec

LEMMA Freenect2Invariant ==
  ASSUME FirstMode \in Mode, Default \in Value, ModeOf \in [Param -> Mode]
  PROVE  Spec => []LInv
<1>1. Init => LInv
  BY LInductive DEF Init
<1>2. LInv /\ [Next]_vars => LInv'
  BY LInductive, OneMoves
<1> QED BY <1>1, <1>2, PTL DEF Spec

\* Every variable of the seven backends keeps its type.
THEOREM BackendsWellTyped ==
  ASSUME None \notin Tilt, MaxItems \in Nat, Factory \in Setting,
         FirstMode \in Mode, Default \in Value, ModeOf \in [Param -> Mode]
  PROVE  Spec => [](/\ K!TypeOK /\ F!TypeOK /\ L!TypeOK /\ D!TypeOK
                    /\ O!TypeOK /\ R!TypeOK /\ N!TypeOK)
<1>1. KP!IInv => K!TypeOK
  BY DEF KP!IInv, KP!TypeOK, K!TypeOK, KP!Call, K!Call, KP!ThreadState, K!ThreadState
<1>2. FP!IInv => F!TypeOK
  BY DEF FP!IInv, FP!TypeOK, F!TypeOK, FP!CallState, F!CallState, FP!PumpState, F!PumpState
<1>3. NP!IInv => N!TypeOK
  BY DEF NP!IInv, NP!TypeOK, N!TypeOK, NP!Call, N!Call, NP!FrameType, N!FrameType
<1>4. LInv /\ DInv /\ OInv /\ RInv => L!TypeOK /\ D!TypeOK /\ O!TypeOK /\ R!TypeOK
  BY DEF LInv, DInv, OInv, RInv
<1> QED
  BY <1>1, <1>2, <1>3, <1>4, K4AInvariant, FreenectInvariant, OakInvariant, Freenect2Invariant,
     DepthAIInvariant, OrbbecInvariant, RealSenseInvariant, PTL

\* An image of libk4a is released when its last user is done and not before,
\* and a start of DepthAI's pipeline that failed, however often, has not
\* doubled the callbacks of the one that succeeds.
THEOREM EveryFrameIsCounted ==
  ASSUME MaxItems \in Nat, Factory \in Setting
  PROVE  Spec => []FramesAreCounted
<1>1. KP!IInv => K!ImagesAreCounted
  BY DEF KP!IInv, KP!ImageInv, KP!ImagesAreCounted, KP!References,
         K!ImagesAreCounted, K!References
<1>2. DInv => D!EachMessageOnce
  BY DEF DInv, DCallbackInv, D!EachMessageOnce
<1>3. KP!IInv /\ DInv => FramesAreCounted
  BY <1>1, <1>2 DEF FramesAreCounted
<1> QED BY <1>3, K4AInvariant, DepthAIInvariant, PTL

\* Whatever the interleaving of the worker that sets, of the calls that start
\* and stop, and of the thread that sends: a camera that was started obeys what
\* it was last told.
THEOREM LastSettingWins ==
  ASSUME None \notin Tilt, MaxItems \in Nat, Factory \in Setting,
         FirstMode \in Mode, Default \in Value, ModeOf \in [Param -> Mode]
  PROVE  Spec => []SettingsTakeEffect
<1>1. FP!IInv => F!LastOrderWins
  BY DEF FP!IInv, FP!TypeOK, FP!OrderInv, F!LastOrderWins
<1>2. LInv => L!ExposureTakesEffect
  BY DEF LInv, LSentInv, L!ExposureTakesEffect
<1>3. DInv => D!SettingTakesEffect
  BY DEF DInv
<1>4. FP!IInv /\ LInv /\ DInv => SettingsTakeEffect
  BY <1>1, <1>2, <1>3 DEF SettingsTakeEffect
<1> QED BY <1>4, FreenectInvariant, Freenect2Invariant, DepthAIInvariant, PTL

\* Whatever refused to start, stop stops what streams and nothing else: see
\* StreamsMatchCalls.
THEOREM StopsFitStarts ==
  ASSUME None \notin Tilt
  PROVE  Spec => []StreamsMatchCalls
<1>1. FP!IInv => F!StreamsChangeWithoutThread
  BY DEF FP!IInv, FP!ThreadInv, FP!StreamsChangeWithoutThread, F!StreamsChangeWithoutThread
<1>2. NP!IInv => N!CallbacksHaveADevice
  BY DEF NP!IInv, NP!DeviceInv, NP!CaptureInv, NP!RegisteredInv, N!CallbacksHaveADevice
<1>3. FP!IInv /\ OInv /\ RInv /\ NP!IInv => StreamsMatchCalls
  BY <1>1, <1>2 DEF StreamsMatchCalls, OInv, RInv
<1> QED
  BY <1>3, FreenectInvariant, OrbbecInvariant, RealSenseInvariant, OakInvariant, PTL

-----------------------------------------------------------------------------
(* The contract *)

LEMMA SameContracts ==
  /\ KP!Contract!Next => K!Contract!Next
  /\ UNCHANGED KP!Contract!vars => UNCHANGED K!Contract!vars
  /\ FP!Contract!Next => F!Contract!Next
  /\ UNCHANGED FP!Contract!vars => UNCHANGED F!Contract!vars
  /\ NP!Contract!Next => N!Contract!Next
  /\ UNCHANGED NP!Contract!vars => UNCHANGED N!Contract!vars
<1>1. /\ KP!Contract!Next => K!Contract!Next
      /\ UNCHANGED KP!Contract!vars => UNCHANGED K!Contract!vars
  BY DEF K!Contract!Next, K!Contract!Open, K!Contract!Start, K!Contract!Stop,
         K!Contract!Close, K!Contract!Deliver, K!Contract!Return, K!Contract!vars,
         KP!Contract!Next, KP!Contract!Open, KP!Contract!Start, KP!Contract!Stop,
         KP!Contract!Close, KP!Contract!Deliver, KP!Contract!Return, KP!Contract!vars
<1>2. /\ FP!Contract!Next => F!Contract!Next
      /\ UNCHANGED FP!Contract!vars => UNCHANGED F!Contract!vars
  BY DEF F!Contract!Next, F!Contract!Open, F!Contract!Start, F!Contract!Stop,
         F!Contract!Close, F!Contract!Deliver, F!Contract!Return, F!Contract!vars,
         FP!Contract!Next, FP!Contract!Open, FP!Contract!Start, FP!Contract!Stop,
         FP!Contract!Close, FP!Contract!Deliver, FP!Contract!Return, FP!Contract!vars
<1>3. /\ NP!Contract!Next => N!Contract!Next
      /\ UNCHANGED NP!Contract!vars => UNCHANGED N!Contract!vars
  BY DEF N!Contract!Next, N!Contract!Open, N!Contract!Start, N!Contract!Stop,
         N!Contract!Close, N!Contract!Deliver, N!Contract!Return, N!Contract!vars,
         NP!Contract!Next, NP!Contract!Open, NP!Contract!Start, NP!Contract!Stop,
         NP!Contract!Close, NP!Contract!Deliver, NP!Contract!Return, NP!Contract!vars
<1> QED BY <1>1, <1>2, <1>3

LEMMA K4AContract == Spec => K!Contract!Spec /\ K!ThreadsAreJoinedFirst
<1>1. Init => K!Contract!Init
  BY DEF Init, K!Init, K!Contract!Init
<1>2. KP!IInv /\ [Next]_vars => [K!Contract!Next]_(K!Contract!vars)
  BY OneMoves, SameK4A, SameContracts, KP!StepKeepsContract
<1>3. KP!IInv =>
        /\ K!Start => kCapturer = "none"
        /\ K!StartImu /\ kImuOn' # kImuOn => kSampler = "none"
        /\ K!Delete => kCapturer = "none" /\ kSampler = "none"
  BY DEF KP!IInv, KP!JoinableInv, KP!CallInv, K!Start, K!StartImu, K!Delete
<1> QED
  BY <1>1, <1>2, <1>3, K4AInvariant, PTL DEF Spec, K!Contract!Spec, K!ThreadsAreJoinedFirst

LEMMA FreenectContract ==
  ASSUME None \notin Tilt, None \notin Kinect
  PROVE  Spec /\ []FP!OneStreams => F!Contract!Spec
<1>1. Init => F!Contract!Init
  BY DEF Init, F!Init, F!Contract!Init
<1>2. Init => FP!ServeInv
  BY SameFreenect, FP!ServeInductive DEF Init
<1>3. FP!IInv /\ FP!OneStreams /\ FP!ServeInv /\ [Next]_vars => FP!ServeInv'
  BY OneMoves, SameFreenect, FP!ServeInductive
<1>4. FP!IInv /\ FP!OneStreams /\ FP!ServeInv /\ [Next]_vars
        => [F!Contract!Next]_(F!Contract!vars)
  BY OneMoves, SameFreenect, SameContracts, FP!StepKeepsContract
<1> QED
  BY <1>1, <1>2, <1>3, <1>4, FreenectInvariant, PTL DEF Spec, F!Contract!Spec

LEMMA OakContract == Spec => N!Contract!Spec
<1>1. Init => N!Contract!Init
  BY DEF Init, N!Init, N!Contract!Init
<1>2. NP!IInv /\ [Next]_vars => [N!Contract!Next]_(N!Contract!vars)
  BY OneMoves, SameOak, SameContracts, NP!StepKeepsContract
<1> QED
  BY <1>1, <1>2, OakInvariant, PTL DEF Spec, N!Contract!Spec

LEMMA DepthAIContract ==
  ASSUME MaxItems \in Nat, Factory \in Setting
  PROVE  Spec => D!Contract!Spec
<1>1. Init => D!Contract!Init
  BY DEF Init, D!Init, D!Contract!Init
<1>2. DInv /\ [Next]_vars => [D!Contract!Next]_(D!Contract!vars)
  BY OneMoves, DStepKeepsContract
<1> QED
  BY <1>1, <1>2, DepthAIInvariant, PTL DEF Spec, D!Contract!Spec

LEMMA OrbbecContract == Spec => O!Contract!Spec
<1>1. Init => O!Contract!Init
  BY DEF Init, O!Init, O!Contract!Init
<1>2. OInv /\ [Next]_vars => [O!Contract!Next]_(O!Contract!vars)
  BY OneMoves, OStepKeepsContract
<1> QED
  BY <1>1, <1>2, OrbbecInvariant, PTL DEF Spec, O!Contract!Spec

LEMMA RealSenseContract == Spec => R!Contract!Spec
<1>1. Init => R!Contract!Init
  BY DEF Init, R!Init, R!Contract!Init
<1>2. RInv /\ [Next]_vars => [R!Contract!Next]_(R!Contract!vars)
  BY OneMoves, RStepKeepsContract
<1> QED
  BY <1>1, <1>2, RealSenseInvariant, PTL DEF Spec, R!Contract!Spec

LEMMA Freenect2Contract ==
  ASSUME FirstMode \in Mode, Default \in Value, ModeOf \in [Param -> Mode]
  PROVE  Spec => L!Contract!Spec
<1>1. Init => L!Contract!Init
  BY DEF Init, L!Init, L!Contract!Init
<1>2. LInv /\ [Next]_vars => [L!Contract!Next]_(L!Contract!vars)
  BY OneMoves, LStepKeepsContract
<1> QED
  BY <1>1, <1>2, Freenect2Invariant, PTL DEF Spec, L!Contract!Spec

\* Every backend implements what the host relies on: on_frame runs only
\* between start and the return of stop, or of close where stop does not wait.
\* Of the Kinects v1 no two may stream at a time, as they share a context.
THEOREM ContractsKept ==
  ASSUME None \notin Tilt, None \notin Kinect, MaxItems \in Nat, Factory \in Setting,
         FirstMode \in Mode, Default \in Value, ModeOf \in [Param -> Mode]
  PROVE  Spec /\ []FP!OneStreams => BackendsKeepContract
  BY K4AContract, FreenectContract, Freenect2Contract, DepthAIContract, OrbbecContract,
     RealSenseContract, OakContract, PTL DEF BackendsKeepContract

\* Where there is but one Kinect v1, without a condition.
COROLLARY ContractsKeptByOne ==
  ASSUME None \notin Tilt, None \notin Kinect, MaxItems \in Nat, Factory \in Setting,
         FirstMode \in Mode, Default \in Value, ModeOf \in [Param -> Mode],
         \A c, d \in Kinect : c = d
  PROVE  Spec => BackendsKeepContract
<1>1. FP!IInv => FP!OneStreams
  BY DEF FP!IInv, FP!TypeOK, FP!OneStreams, FP!Streaming
<1> QED BY <1>1, FreenectInvariant, ContractsKept, PTL

-----------------------------------------------------------------------------
(***************************************************************************)
(* An address with an identity: what it is resolved to is that camera, or  *)
(* a position at which that camera is.  What the bus does until the camera *)
(* is opened cannot change the former; the latter it can, and only two     *)
(* backends rely on it.                                                    *)
(***************************************************************************)

(* What was chosen stands for the identity: the SDK is given it, or a      *)
(* position that is the camera's.                                          *)
StandsFor(choice, named) ==
  \/ choice.by = "camera" /\ choice.is = named
  \/ /\ choice.by = "place"
     /\ choice.is \in A!Places(A!Listed) => A!At(A!Listed, choice.is) = named

\* These open by position.
ByPosition == {"k4a", "freenect"}

AOpeningInv ==
  /\ aOpening = [named |-> aOpening.named, choice |-> aOpening.choice, moved |-> aOpening.moved]
  /\ aOpening.moved \in BOOLEAN
  /\ aOpening.named # None =>
       /\ aOpening.choice.by = "place" => aMaker \in ByPosition
       /\ aOpening.moved => aOpening.choice.by = "place"
       /\ ~aOpening.moved => StandsFor(aOpening.choice, aOpening.named)

(* A position that was found for a text is that of the camera with it.     *)
LEMMA FoundByText ==
  ASSUME NEW list, NEW t, NEW i
  PROVE  /\ i \in A!WithSerial(list, t) =>
              i \in A!Places(list) /\ A!At(list, i) = t /\ aLabel[t] = "serial"
         /\ i \in A!WithIdentity(list, t) => i \in A!Places(list) /\ A!At(list, i) = t
  BY DEF A!WithSerial, A!WithIdentity, A!Find

(* parse_uri: an address names an identity only in a form that has one.    *)
LEMMA NamedByForm ==
  ASSUME NEW forms, NEW bare, NEW a, NEW choice,
         A!Named(A!Parsed(forms, bare, a), choice) # None
  PROVE  /\ A!Named(A!Parsed(forms, bare, a), choice) = A!Parsed(forms, bare, a).text
         /\ A!Parsed(forms, bare, a).kind \in (forms \cup {bare}) \ {"any", "index"}
         /\ choice.sure
  BY DEF A!Parsed, A!AnyCamera, A!Named

(* Five backends choose a camera, or leave it to the SDK, whatever address *)
(* they are given.                                                         *)
LEMMA ChosenByIdentity ==
  ASSUME NEW addr, NEW choice \in A!Choose(addr), aMaker \in A!Maker \ ByPosition
  PROVE  choice.by # "place"
<1> SUFFICES ASSUME NEW choices,
                    \/ \E c : choices = A!ByCamera(c)
                    \/ choices = A!ByChance,
                    choice \in choices
             PROVE  choice.by # "place"
  <2>1. CASE aMaker = "freenect2"
    <3>1. A!Choose(addr) = A!ChooseFreenect2(addr)
      BY <2>1, Zenon DEF A!Choose
    <3> QED BY <3>1 DEF A!ChooseFreenect2
  <2>2. CASE aMaker = "realsense"
    <3>1. A!Choose(addr) = A!ChooseRealSense(addr)
      BY <2>2, Zenon DEF A!Choose
    <3> QED BY <3>1 DEF A!ChooseRealSense
  <2>3. CASE aMaker = "orbbec"
    <3>1. A!Choose(addr) = A!ChooseOrbbec(addr)
      BY <2>3, Zenon DEF A!Choose
    <3>2. CASE addr.kind = "net"
      BY <3>1, <3>2 DEF A!ChooseOrbbec
    <3>3. CASE addr.kind # "net"
      <4>1. PICK I : choice \in UNION {A!ByCamera(A!At(aBus, i)) : i \in I}
        BY <3>1, <3>3 DEF A!ChooseOrbbec
      <4> QED BY <4>1
    <3> QED BY <3>2, <3>3
  <2>4. CASE aMaker = "depthai"
    <3>1. A!Choose(addr) = A!ChooseDepthAI(addr)
      BY <2>4, Zenon DEF A!Choose
    <3> QED BY <3>1 DEF A!ChooseDepthAI
  <2>5. CASE aMaker = "oak"
    <3>1. A!Choose(addr) = A!ChooseOak(addr)
      BY <2>5, Zenon DEF A!Choose
    <3>2. PICK I : choice \in UNION {A!ByCamera(A!At(aBus, i)) : i \in I}
      BY <3>1 DEF A!ChooseOak
    <3> QED BY <3>2
  <2> QED BY <2>1, <2>2, <2>3, <2>4, <2>5 DEF A!Maker, ByPosition
<1> QED BY DEF A!ByCamera, A!ByChance

(* What is chosen for an identity stands for it at that time.              *)
LEMMA ChoiceStandsForName ==
  ASSUME NEW a, NEW choice \in A!Choose(A!Parse(a)), aMaker \in A!Maker,
         A!Named(A!Parse(a), choice) # None
  PROVE  StandsFor(choice, A!Named(A!Parse(a), choice))
<1> DEFINE addr == A!Parse(a)
           named == A!Named(addr, choice)
<1>1. ASSUME NEW c, c = named, choice \in A!ByCamera(c) PROVE StandsFor(choice, named)
  BY <1>1 DEF A!ByCamera, StandsFor
<1>2. ASSUME NEW i, choice \in A!ByPlace(i),
             i \in A!Places(A!Listed) => A!At(A!Listed, i) = named
      PROVE  StandsFor(choice, named)
  BY <1>2 DEF A!ByPlace, StandsFor
<1>3. CASE aMaker = "k4a"
  <2>1. addr = A!ParseK4A(a) /\ A!Choose(addr) = A!ChooseK4A(addr)
    BY <1>3, Zenon DEF A!Parse, A!Choose
  <2>2. addr.kind = "sn" /\ named = addr.text
    BY <2>1, NamedByForm DEF A!ParseK4A
  <2>3. PICK i \in A!WithSerial(aBus, addr.text) : choice \in A!ByPlace(i)
    BY <2>1, <2>2 DEF A!ChooseK4A
  <2>4. A!Listed = aBus
    BY <1>3 DEF A!Listed
  <2> QED BY <1>2, <2>2, <2>3, <2>4, FoundByText
<1>4. CASE aMaker = "freenect"
  <2>1. addr = A!ParseFreenect(a) /\ A!Choose(addr) = A!ChooseFreenect(addr)
    BY <1>4, Zenon DEF A!Parse, A!Choose
  <2>2. addr.kind = "sn" /\ named = addr.text /\ choice.sure
    BY <2>1, NamedByForm DEF A!ParseFreenect
  <2>3. A!Listed = A!Unclaimed
    BY <1>4 DEF A!Listed
  <2>4. PICK i : (i \in A!WithSerial(A!Unclaimed, addr.text) /\ choice \in A!ByPlace(i))
                 \/ choice \in A!ByGuess(i)
    <3>1. choice \in IF A!WithSerial(A!Unclaimed, addr.text) # {}
                     THEN UNION {A!ByPlace(i) : i \in A!WithSerial(A!Unclaimed, addr.text)}
                     ELSE UNION {A!ByGuess(i) : i \in
                            {i \in A!Places(A!Unclaimed) :
                               Len(A!Unclaimed) = 1 /\ aLabel[A!At(A!Unclaimed, i)] # "serial"}}
      BY <2>1, <2>2, Zenon DEF A!ChooseFreenect
    <3> QED BY <3>1
  <2>5. choice \notin A!ByGuess(i)
    BY <2>2 DEF A!ByGuess
  <2> QED BY <1>2, <2>2, <2>3, <2>4, <2>5, FoundByText
<1>5. CASE aMaker = "freenect2"
  <2>1. addr = A!ParseFreenect2(a) /\ A!Choose(addr) = A!ChooseFreenect2(addr)
    BY <1>5, Zenon DEF A!Parse, A!Choose
  <2>2. addr.kind = "sn" /\ named = addr.text
    BY <2>1, NamedByForm DEF A!ParseFreenect2
  <2>3. PICK i \in A!WithSerial(aBus, addr.text) :
          choice \in UNION {A!ByCamera(c) : c \in A!SameSerial(A!At(aBus, i))}
    BY <2>1, <2>2 DEF A!ChooseFreenect2
  <2>4. PICK c \in A!SameSerial(A!At(aBus, i)) : choice \in A!ByCamera(c)
    BY <2>3
  <2>5. c = named
    BY <2>2, <2>4, FoundByText DEF A!SameSerial
  <2> QED BY <1>1, <2>4, <2>5
<1>6. CASE aMaker = "realsense"
  <2>1. addr = A!ParseRealSense(a) /\ A!Choose(addr) = A!ChooseRealSense(addr)
    BY <1>6, Zenon DEF A!Parse, A!Choose
  <2>2. addr.kind = "sn" /\ named = addr.text
    BY <2>1, NamedByForm DEF A!ParseRealSense
  <2>3. PICK i \in A!WithSerial(aBus, addr.text) :
          choice \in IF aLabel[A!At(aBus, i)] = "serial"
                     THEN A!ByCamera(A!At(aBus, i)) ELSE A!ByChance
    BY <2>1, <2>2 DEF A!ChooseRealSense
  <2> QED BY <1>1, <2>2, <2>3, FoundByText
<1>7. CASE aMaker = "orbbec"
  <2>1. addr = A!ParseOrbbec(a) /\ A!Choose(addr) = A!ChooseOrbbec(addr)
    BY <1>7, Zenon DEF A!Parse, A!Choose
  <2>2. addr.kind \in {"sn", "uid", "net"} /\ named = addr.text
    BY <2>1, NamedByForm DEF A!ParseOrbbec
  <2>3. CASE addr.kind = "net"
    BY <1>1, <2>1, <2>2, <2>3 DEF A!ChooseOrbbec
  <2>4. CASE addr.kind = "sn"
    <3>1. A!ChooseOrbbec(addr) =
            UNION {A!ByCamera(A!At(aBus, i)) : i \in A!WithSerial(aBus, addr.text)}
      BY <2>4, Zenon DEF A!ChooseOrbbec
    <3>2. PICK i \in A!WithSerial(aBus, addr.text) : choice \in A!ByCamera(A!At(aBus, i))
      BY <2>1, <3>1
    <3> QED BY <1>1, <2>2, <3>2, FoundByText
  <2>5. CASE addr.kind = "uid"
    <3>1. A!ChooseOrbbec(addr) =
            UNION {A!ByCamera(A!At(aBus, i)) : i \in A!WithIdentity(aBus, addr.text)}
      BY <2>5, Zenon DEF A!ChooseOrbbec
    <3>2. PICK i \in A!WithIdentity(aBus, addr.text) : choice \in A!ByCamera(A!At(aBus, i))
      BY <2>1, <3>1
    <3> QED BY <1>1, <2>2, <3>2, FoundByText
  <2> QED BY <2>2, <2>3, <2>4, <2>5
<1>8. CASE aMaker = "depthai"
  <2>1. addr = A!ParseDepthAI(a) /\ A!Choose(addr) = A!ChooseDepthAI(addr)
    BY <1>8, Zenon DEF A!Parse, A!Choose
  <2>2. addr.kind \in {"id", "name"} /\ named = addr.text
    BY <2>1, NamedByForm DEF A!ParseDepthAI
  <2> QED BY <1>1, <2>1, <2>2 DEF A!ChooseDepthAI
<1>9. CASE aMaker = "oak"
  <2>1. addr = A!ParseOak(a) /\ A!Choose(addr) = A!ChooseOak(addr)
    BY <1>9, Zenon DEF A!Parse, A!Choose
  <2>2. addr.kind \in {"id", "sn"} /\ named = addr.text
    BY <2>1, NamedByForm DEF A!ParseOak
  <2>3. CASE addr.kind = "id"
    <3>1. A!ChooseOak(addr) =
            UNION {A!ByCamera(A!At(aBus, i)) : i \in A!WithIdentity(aBus, addr.text)}
      BY <2>3, Zenon DEF A!ChooseOak
    <3>2. PICK i \in A!WithIdentity(aBus, addr.text) : choice \in A!ByCamera(A!At(aBus, i))
      BY <2>1, <3>1
    <3> QED BY <1>1, <2>2, <3>2, FoundByText
  <2>4. CASE addr.kind = "sn"
    <3>1. A!ChooseOak(addr) =
            UNION {A!ByCamera(A!At(aBus, i)) : i \in A!WithSerial(aBus, addr.text)}
      BY <2>4, Zenon DEF A!ChooseOak
    <3>2. PICK i \in A!WithSerial(aBus, addr.text) : choice \in A!ByCamera(A!At(aBus, i))
      BY <2>1, <3>1
    <3> QED BY <1>1, <2>2, <3>2, FoundByText
  <2> QED BY <2>2, <2>3, <2>4
<1> QED
  BY <1>3, <1>4, <1>5, <1>6, <1>7, <1>8, <1>9 DEF A!Maker

LEMMA ListingStays ==
  ASSUME UNCHANGED <<aMaker, aBus, aOpen>>
  PROVE  A!Listed' = A!Listed
<1>1. A!Held' = A!Held
  BY DEF A!Held
<1> QED BY <1>1 DEF A!Listed, A!Unclaimed

(* What was chosen goes on standing for the identity while the listing     *)
(* stays as it is.                                                         *)
LEMMA OpeningStays ==
  ASSUME AOpeningInv, UNCHANGED <<aMaker, aBus, aOpen, aOpening>>
  PROVE  AOpeningInv'
<1>1. A!Listed' = A!Listed
  BY ListingStays
<1> QED BY <1>1 DEF AOpeningInv, StandsFor, A!Places

LEMMA AddressStepKeepsInv ==
  ASSUME aMaker \in A!Maker, AOpeningInv, A!OpensWhatItFound, A!Next
  PROVE  AOpeningInv' /\ A!OpensWhatItFound'
<1>1. ASSUME aOpening' = A!Idle PROVE AOpeningInv'
  BY <1>1 DEF AOpeningInv, A!Idle
<1>2. ASSUME aOpen' \subseteq aOpen, UNCHANGED aMaker PROVE A!OpensWhatItFound'
  BY <1>2 DEF A!OpensWhatItFound
<1>3. ASSUME NEW list, A!Rearrange(list) PROVE AOpeningInv' /\ A!OpensWhatItFound'
  <2>1. A!OpensWhatItFound'
    BY <1>2, <1>3 DEF A!Rearrange
  <2>2. CASE aOpening.named = None
    <3>1. aOpening'.named = None /\ aOpening'.moved \in BOOLEAN
          /\ aOpening' = [named |-> aOpening'.named, choice |-> aOpening'.choice,
                          moved |-> aOpening'.moved]
      BY <1>3, <2>2 DEF A!Rearrange, AOpeningInv
    <3> QED BY <2>1, <3>1 DEF AOpeningInv
  <2>3. CASE aOpening.named # None
    <3>0. aOpening = [named |-> aOpening.named, choice |-> aOpening.choice,
                      moved |-> aOpening.moved] /\ aOpening.moved \in BOOLEAN
      BY DEF AOpeningInv
    <3>1. /\ aOpening'.named = aOpening.named /\ aOpening'.choice = aOpening.choice
          /\ aOpening' = [named |-> aOpening'.named, choice |-> aOpening'.choice,
                          moved |-> aOpening'.moved]
          /\ aOpening'.moved \in BOOLEAN
          /\ aOpening'.moved <=> aOpening.moved \/ aOpening.choice.by = "place"
      BY <1>3, <2>3, <3>0 DEF A!Rearrange
    <3>2. aMaker' = aMaker /\ (~aOpening'.moved => aOpening.choice.by # "place" /\ ~aOpening.moved)
      BY <1>3, <3>1 DEF A!Rearrange
    <3>3. ~aOpening'.moved => StandsFor(aOpening.choice, aOpening.named)'
      BY <2>3, <3>1, <3>2 DEF AOpeningInv, StandsFor
    <3> QED BY <2>1, <2>3, <3>1, <3>2, <3>3 DEF AOpeningInv, StandsFor
  <2> QED BY <2>1, <2>2, <2>3
<1>4. CASE A!Plug \/ A!Unplug
  BY <1>3, <1>4 DEF A!Plug, A!Unplug
<1>5. CASE A!Relabel
  BY <1>2, <1>5, OpeningStays DEF A!Relabel
<1>6. ASSUME NEW a, A!Resolve(a) PROVE AOpeningInv' /\ A!OpensWhatItFound'
  <2>1. PICK choice \in A!Choose(A!Parse(a)) :
          aOpening' = [named |-> A!Named(A!Parse(a), choice), choice |-> choice, moved |-> FALSE]
    BY <1>6 DEF A!Resolve
  <2>2. A!Listed' = A!Listed
    BY <1>6, ListingStays DEF A!Resolve
  <2>3. aOpening'.named # None =>
          /\ StandsFor(aOpening'.choice, aOpening'.named)
          /\ aOpening'.choice.by = "place" => aMaker \in ByPosition
    BY <2>1, ChoiceStandsForName, ChosenByIdentity
  <2>4. AOpeningInv'
    BY <1>6, <2>1, <2>2, <2>3 DEF A!Resolve, AOpeningInv, StandsFor, A!Places
  <2> QED BY <1>2, <1>6, <2>4 DEF A!Resolve
<1>7. CASE A!Take
  <2>1. PICK c \in A!Opened(aOpening.choice) :
          \E index : aOpen' = aOpen \cup {[camera |-> c, named |-> aOpening.named,
                                            moved |-> aOpening.moved, index |-> index]}
    BY <1>7 DEF A!Take
  <2>2. aOpening.named # None =>
          c = aOpening.named \/ (aOpening.moved /\ aMaker \in ByPosition)
    <3>1. SUFFICES ASSUME aOpening.named # None, ~aOpening.moved PROVE c = aOpening.named
      BY DEF AOpeningInv
    <3>2. CASE aOpening.choice.by = "camera"
      <4>1. c = aOpening.choice.is
        BY <2>1, <3>2, Zenon DEF A!Opened
      <4> QED BY <3>1, <3>2, <4>1 DEF AOpeningInv, StandsFor
    <3>3. CASE aOpening.choice.by = "place"
      <4>1. aOpening.choice.is \in A!Places(A!Listed) /\ A!At(A!Listed, aOpening.choice.is) = c
        BY <2>1, <3>3, Zenon DEF A!Opened
      <4> QED BY <3>1, <3>3, <4>1 DEF AOpeningInv, StandsFor
    <3> QED BY <3>1, <3>2, <3>3 DEF AOpeningInv, StandsFor
  <2>3. A!OpensWhatItFound'
    BY <1>7, <2>1, <2>2 DEF A!OpensWhatItFound, A!Take, ByPosition
  <2> QED BY <1>1, <1>7, <2>3 DEF A!Take
<1>8. CASE A!Fail
  BY <1>1, <1>2, <1>8 DEF A!Fail
<1>9. CASE A!Close
  BY <1>1, <1>2, <1>9 DEF A!Close
<1> QED BY <1>4, <1>5, <1>6, <1>7, <1>8, <1>9 DEF A!Next

\* For every backend and any number of cameras that come and go: a camera that
\* is open was asked for by its own identity or by none; but for an Azure Kinect
\* or a Kinect v1 for which the bus moved while it was being opened.
THEOREM OpensTheNamedOrNone ==
  Spec => [](which = "addresses" => A!OpensWhatItFound)
<1> DEFINE Inv == which = "addresses" => aMaker \in A!Maker /\ AOpeningInv /\ A!OpensWhatItFound
<1>1. Init => Inv
  <2>1. aOpening = A!Idle => AOpeningInv
    BY DEF AOpeningInv, A!Idle
  <2>2. aOpen = {} => A!OpensWhatItFound
    BY DEF A!OpensWhatItFound
  <2>3. Init /\ which = "addresses" => aMaker \in A!Maker /\ aOpening = A!Idle /\ aOpen = {}
    BY DEF Init, A!Init
  <2> QED BY <2>1, <2>2, <2>3
<1>2. Inv /\ [Next]_vars => Inv'
  <2> SUFFICES ASSUME which = "addresses" => aMaker \in A!Maker /\ AOpeningInv /\ A!OpensWhatItFound,
                      [Next]_vars, which' = "addresses"
               PROVE  aMaker' \in A!Maker /\ AOpeningInv' /\ A!OpensWhatItFound'
    OBVIOUS
  <2>1. CASE AddressStep
    <3>1. aMaker' = aMaker
      BY <2>1 DEF AddressStep, A!Next, A!Plug, A!Unplug, A!Rearrange, A!Relabel, A!Resolve,
         A!Take, A!Fail, A!Close
    <3> QED BY <2>1, <3>1, AddressStepKeepsInv DEF AddressStep, A!Maker
  <2>2. CASE UNCHANGED <<which, avars>>
    <3>1. aMaker \in A!Maker /\ AOpeningInv /\ A!OpensWhatItFound
      BY <2>2
    <3>2. UNCHANGED <<aMaker, aBus, aOpen, aOpening>>
      BY <2>2 DEF avars
    <3> QED BY <3>1, <3>2, OpeningStays DEF A!OpensWhatItFound, A!Maker
  <2>3. AddressStep \/ UNCHANGED <<which, avars>>
    BY DEF Next, vars, K4AStep, FreenectStep, Freenect2Step, DepthAIStep, OrbbecStep,
           RealSenseStep, OakStep, ValueStep
  <2> QED BY <2>1, <2>2, <2>3
<1> QED BY <1>1, <1>2, PTL DEF Spec

-----------------------------------------------------------------------------
(***************************************************************************)
(* A camera is listed under an address that leads to it.                   *)
(*                                                                         *)
(* The lists first: what is left of the bus without the cameras in use,    *)
(* and what it is with one more or one less.  Then the table of the Azure  *)
(* Kinect: as long as it was not left behind it has one entry for each     *)
(* camera that is held, at its position, and no other.  Then, backend by   *)
(* backend, what an announced address is resolved to and what that opens.  *)
(***************************************************************************)

(* What holds of 0 and of the successor of each holds of every number:     *)
(* where it did not there would be a least one.                            *)
LEMMA NatSetInduction ==
  ASSUME NEW S \in SUBSET Nat, 0 \in S, \A n \in S : n + 1 \in S
  PROVE  S = Nat
<1> DEFINE T == Nat \ S
<1>1. SUFFICES ASSUME T # {} PROVE FALSE
  OBVIOUS
<1>2. PICK x \in T : \A y \in T : ~ (<<y, x>> \in OpToRel(<, Nat))
  BY <1>1, NatLessThanWellFounded, WFMin
<1>3. \A y \in T : ~(y < x)
  BY <1>2 DEF OpToRel
<1>4. x # 0 /\ x - 1 \in Nat
  OBVIOUS
<1>5. x - 1 \in S
  BY <1>3, <1>4
<1> QED BY <1>5

(* Without goes through a list with FoldLeft, which the library defines by *)
(* a recursive function on the sets of places: its value at a set is that  *)
(* at the set without its greatest place, and what is at that one.         *)
Iter(list, cs, f, s) == IF s = {} THEN <<>> ELSE A!Kept(f[s \ {A!Max(s)}], list[A!Max(s)], cs)

IsIter(list, cs, n, f) == f = [s \in SUBSET (1..n) |-> Iter(list, cs, f, s)]

(* Without is the value of that function at all of the list.               *)
LEMMA Unfold ==
  ASSUME NEW list, NEW cs, NEW n \in Nat, DOMAIN list = 1..n
  PROVE A!Without(list, cs) = (CHOOSE f : IsIter(list, cs, n, f))[1..n]
BY DEF A!Without, A!FoldLeft, A!MapThenFoldSet, IsIter, Iter

(* The greatest of a set of numbers up to n + 1 that has n + 1.            *)
LEMMA MaxOf ==
  ASSUME NEW n \in Nat, NEW s \in SUBSET (1..(n+1)), n + 1 \in s
  PROVE A!Max(s) = n + 1
<1>1. n + 1 \in s /\ \A y \in s : n + 1 >= y
  OBVIOUS
<1>2. \A x \in s : (\A y \in s : x >= y) => x = n + 1
  OBVIOUS
<1> QED BY <1>1, <1>2 DEF A!Max

(* There is such a function, by induction on the length of the list.       *)
LEMMA Exists ==
  ASSUME NEW list, NEW cs, NEW n \in Nat
  PROVE \E f : IsIter(list, cs, n, f)
<1> DEFINE S == {m \in Nat : \E f : IsIter(list, cs, m, f)}
<1>1. 0 \in S
  <2> DEFINE f == [s \in SUBSET (1..0) |-> <<>>]
  <2>1. \A s \in SUBSET (1..0) : s = {}
    OBVIOUS
  <2>2. IsIter(list, cs, 0, f)
    BY <2>1 DEF IsIter, Iter
  <2> QED BY <2>2
<1>2. ASSUME NEW m \in S PROVE m + 1 \in S
  <2>1. PICK g : IsIter(list, cs, m, g)
    OBVIOUS
  <2> DEFINE f == [s \in SUBSET (1..(m+1)) |-> 
        IF m + 1 \in s THEN A!Kept(g[s \ {m+1}], list[m+1], cs) ELSE g[s]]
  <2>2. ASSUME NEW s \in SUBSET (1..(m+1)) PROVE f[s] = Iter(list, cs, f, s)
    <3>1. CASE m + 1 \in s
      <4>1. A!Max(s) = m + 1
        BY <3>1, MaxOf
      <4>2. s \ {m+1} \in SUBSET (1..m) /\ s \ {m+1} \in SUBSET (1..(m+1)) /\ m+1 \notin s \ {m+1}
        BY <3>1
      <4>3. f[s \ {m+1}] = g[s \ {m+1}]
        BY <4>2
      <4> QED BY <3>1, <4>1, <4>3 DEF Iter
    <3>2. CASE m + 1 \notin s
      <4>1. s \in SUBSET (1..m)
        BY <3>2
      <4>2. g[s] = Iter(list, cs, g, s)
        BY <4>1, <2>1 DEF IsIter
      <4>3. CASE s = {}
        BY <4>2, <4>3, <3>2 DEF Iter
      <4>4. CASE s # {}
        <5>1. s \ {A!Max(s)} \in SUBSET (1..(m+1)) /\ m + 1 \notin s \ {A!Max(s)}
          <6>0. 1..m \subseteq 1..(m+1) /\ m + 1 \notin 1..m
            OBVIOUS
          <6>1. \A x : s \ {x} \in SUBSET (1..(m+1)) /\ m + 1 \notin s \ {x}
            BY <4>1, <6>0
          <6> QED BY <6>1
        <5>2. f[s \ {A!Max(s)}] = g[s \ {A!Max(s)}]
          BY <5>1
        <5> QED BY <4>2, <4>4, <5>2, <3>2 DEF Iter
      <4> QED BY <4>3, <4>4
    <3> QED BY <3>1, <3>2
  <2> HIDE DEF f
  <2>3. f = [s \in SUBSET (1..(m+1)) |-> f[s]]
    BY DEF f
  <2>4. IsIter(list, cs, m+1, f)
    BY <2>2, <2>3 DEF IsIter
  <2> QED BY <2>4
<1>3. S = Nat
  <2> HIDE DEF S
  <2>1. S \in SUBSET Nat
    BY DEF S
  <2> QED BY <1>1, <1>2, <2>1, NatSetInduction
<1> QED BY <1>3

(* So the list is made stage by stage: each camera is kept or is not.      *)
LEMMA Stages ==
  ASSUME NEW list, NEW cs, NEW n \in Nat, DOMAIN list = 1..n
  PROVE \E st : /\ st[0] = <<>> 
                /\ \A k \in 1..n : st[k] = A!Kept(st[k-1], list[k], cs)
                /\ A!Without(list, cs) = st[n]
<1> DEFINE f == CHOOSE f : IsIter(list, cs, n, f)
           st == [k \in 0..n |-> f[1..k]]
<1>1. IsIter(list, cs, n, f)
  BY Exists
<1>2. A!Without(list, cs) = f[1..n]
  BY Unfold
<1> HIDE DEF f
<1>3. \A s \in SUBSET (1..n) : f[s] = Iter(list, cs, f, s)
  BY <1>1 DEF IsIter
<1>4. st[0] = <<>>
  <2>1. 1..0 = {} /\ 1..0 \in SUBSET (1..n)
    OBVIOUS
  <2>2. f[1..0] = <<>>
    BY <2>1, <1>3 DEF Iter
  <2> QED BY <2>2
<1>5. ASSUME NEW k \in 1..n PROVE st[k] = A!Kept(st[k-1], list[k], cs)
  <2>1. 1..k \in SUBSET (1..n) /\ 1..k # {} /\ k \in 0..n /\ k - 1 \in 0..n /\ k - 1 \in Nat
    OBVIOUS
  <2>2. A!Max(1..k) = k
    <3>1. (k - 1) + 1 \in 1..k /\ 1..k \in SUBSET (1..((k - 1)+1)) /\ (k-1)+1 = k
      OBVIOUS
    <3> QED BY <2>1, <3>1, MaxOf
  <2>3. (1..k) \ {k} = 1..(k-1)
    OBVIOUS
  <2>4. f[1..k] = A!Kept(f[1..(k-1)], list[k], cs)
    BY <2>1, <2>2, <2>3, <1>3 DEF Iter
  <2> QED BY <2>1, <2>4
<1>6. st[n] = f[1..n]
  OBVIOUS
<1> HIDE DEF st
<1> QED BY <1>2, <1>4, <1>5, <1>6

(* That of CameraAddresses is that of FiniteSets.                          *)
LEMMA SameCardinality == \A S : A!Cardinality(S) = Cardinality(S)
BY DEF A!Cardinality, Cardinality

(* What is left of a list of different cameras is one of different cameras. *)
LEMMA WhatIsLeft ==
  ASSUME NEW S, NEW list \in Seq(S), A!IsInjective(list), NEW cs
  PROVE  /\ A!Without(list, cs) \in Seq(S) /\ A!IsInjective(A!Without(list, cs))
         /\ A!Range(A!Without(list, cs)) = A!Range(list) \ cs
<1> DEFINE n == Len(list)
<1>1. PICK st : /\ st[0] = <<>>
                /\ \A k \in 1..n : st[k] = A!Kept(st[k-1], list[k], cs)
                /\ A!Without(list, cs) = st[n]
  BY Stages
<1> DEFINE Good(k) == /\ st[k] \in Seq(S) /\ A!IsInjective(st[k])
                      /\ A!Range(st[k]) = {list[j] : j \in 1..k} \ cs
           T == {k \in Nat : k <= n => Good(k)}
<1>2. 0 \in T
  <2>1. <<>> \in Seq(S) /\ DOMAIN <<>> = {} /\ 1..0 = {}
    OBVIOUS
  <2> QED BY <1>1, <2>1 DEF A!IsInjective, A!Range
<1>3. ASSUME NEW k \in T  PROVE  k + 1 \in T
  <2> SUFFICES ASSUME k + 1 <= n  PROVE  Good(k + 1)
    OBVIOUS
  <2>1. Good(k) /\ k \in Nat
    OBVIOUS
  <2>2. k + 1 \in 1..n /\ (k + 1) - 1 = k /\ 1..(k + 1) = (1..k) \cup {k + 1} /\ k + 1 \notin 1..k
    OBVIOUS
  <2>3. st[k + 1] = A!Kept(st[k], list[k + 1], cs)
    BY <1>1, <2>2
  <2>4. list[k + 1] \in S /\ \A j \in 1..k : list[j] # list[k + 1]
    BY <2>2 DEF A!IsInjective
  <2>5. {list[j] : j \in 1..(k + 1)} = {list[j] : j \in 1..k} \cup {list[k + 1]}
    BY <2>2
  <2>6. CASE list[k + 1] \in cs
    BY <2>1, <2>3, <2>5, <2>6 DEF A!Kept
  <2>7. CASE list[k + 1] \notin cs
    <3> DEFINE s == st[k]
               x == list[k + 1]
    <3>1. st[k + 1] = Append(s, x)
      BY <2>3, <2>7 DEF A!Kept
    <3>2. s \in Seq(S) /\ A!IsInjective(s) /\ x \in S /\ x \notin A!Range(s)
      BY <2>1, <2>4
    <3>3. A!Range(s) = {list[j] : j \in 1..k} \ cs
      BY <2>1
    <3> HIDE DEF s, x
    <3>4. /\ Append(s, x) \in Seq(S) /\ DOMAIN Append(s, x) = 1..(Len(s) + 1) /\ Len(s) \in Nat
          /\ \A i \in 1..(Len(s) + 1) : Append(s, x)[i] = IF i <= Len(s) THEN s[i] ELSE x
          /\ DOMAIN s = 1..Len(s)
      BY <3>2
    <3>5. A!IsInjective(Append(s, x))
      BY <3>2, <3>4 DEF A!IsInjective, A!Range
    <3>6. A!Range(Append(s, x)) = A!Range(s) \cup {x}
      <4>1. \A i \in DOMAIN s : Append(s, x)[i] = s[i] /\ i \in 1..(Len(s) + 1)
        BY <3>4
      <4>2. Append(s, x)[Len(s) + 1] = x /\ Len(s) + 1 \in 1..(Len(s) + 1)
        BY <3>4
      <4>3. \A i \in 1..(Len(s) + 1) : i \in DOMAIN s \/ i = Len(s) + 1
        BY <3>4
      <4> QED BY <3>4, <4>1, <4>2, <4>3 DEF A!Range
    <3>7. ({list[j] : j \in 1..k} \cup {x}) \ cs = ({list[j] : j \in 1..k} \ cs) \cup {x}
      BY <2>7 DEF x
    <3> QED BY <2>5, <3>1, <3>3, <3>4, <3>5, <3>6, <3>7 DEF x
  <2> QED BY <2>6, <2>7
<1>4. T = Nat
  <2> HIDE DEF T
  <2>1. T \in SUBSET Nat
    BY DEF T
  <2> QED BY <1>2, <1>3, <2>1, NatSetInduction
<1>5. Good(n)
  <2>1. n \in Nat /\ n <= n
    OBVIOUS
  <2>2. n \in T
    BY <1>4, <2>1
  <2> QED BY <2>1, <2>2
<1>6. {list[j] : j \in 1..n} = A!Range(list)
  BY DEF A!Range
<1> QED BY <1>1, <1>5, <1>6

(* A list after another.                                                   *)
LEMMA WhatIsJoined ==
  ASSUME NEW S, NEW a \in Seq(S), NEW b \in Seq(S)
  PROVE  /\ a \o b \in Seq(S) /\ Len(a \o b) = Len(a) + Len(b)
         /\ \A j \in 1..(Len(a) + Len(b)) :
              (a \o b)[j] = IF j <= Len(a) THEN a[j] ELSE b[j - Len(a)]
OBVIOUS

(* A place is made for it: what was at that place and after it moves up.   *)
LEMMA WhatIsInserted ==
  ASSUME NEW S, NEW s \in Seq(S), NEW i \in 1..(Len(s) + 1), NEW e \in S
  PROVE  /\ A!InsertAt(s, i, e) \in Seq(S) /\ Len(A!InsertAt(s, i, e)) = Len(s) + 1
         /\ \A j \in 1..(Len(s) + 1) :
              A!InsertAt(s, i, e)[j] = IF j < i THEN s[j] ELSE IF j = i THEN e ELSE s[j - 1]
<1> DEFINE a == SubSeq(s, 1, i - 1)
           b == SubSeq(s, i, Len(s))
           c == a \o <<e>>
<1>0. Len(s) \in Nat /\ i \in Nat /\ 1 <= i /\ i <= Len(s) + 1
  OBVIOUS
<1>1. a \in Seq(S) /\ Len(a) = i - 1 /\ \A j \in 1..(i - 1) : a[j] = s[j]
  OBVIOUS
<1>2. b \in Seq(S) /\ Len(b) = Len(s) - i + 1 /\ \A j \in 1..(Len(s) - i + 1) : b[j] = s[i + j - 1]
  OBVIOUS
<1> HIDE DEF a, b
<1>3. c \in Seq(S) /\ Len(c) = i
      /\ \A j \in 1..i : c[j] = IF j < i THEN s[j] ELSE e
  BY <1>0, <1>1
<1>4. A!InsertAt(s, i, e) = c \o b
  BY DEF A!InsertAt, a, b
<1> HIDE DEF c
<1>5. Len(c) + Len(b) = Len(s) + 1
  BY <1>0, <1>2, <1>3
<1>6. /\ c \o b \in Seq(S) /\ Len(c \o b) = Len(s) + 1
      /\ \A j \in 1..(Len(c) + Len(b)) :
           (c \o b)[j] = IF j <= Len(c) THEN c[j] ELSE b[j - Len(c)]
  BY <1>2, <1>3, <1>5, WhatIsJoined
<1>7. ASSUME NEW j \in 1..(Len(s) + 1)
      PROVE  (c \o b)[j] = IF j < i THEN s[j] ELSE IF j = i THEN e ELSE s[j - 1]
  <2>0. j \in Nat /\ (c \o b)[j] = IF j <= i THEN c[j] ELSE b[j - i]
    BY <1>0, <1>3, <1>5, <1>6
  <2>1. CASE j <= i
    BY <1>0, <1>3, <2>0, <2>1
  <2>2. CASE j > i
    <3>1. j - i \in 1..(Len(s) - i + 1) /\ i + (j - i) - 1 = j - 1
      BY <1>0, <2>2
    <3>2. b[j - i] = s[j - 1]
      BY <1>2, <3>1
    <3> QED BY <1>0, <2>0, <2>2, <3>2
  <2> QED BY <1>0, <2>0, <2>1, <2>2
<1> QED BY <1>4, <1>6, <1>7

(* The place is closed: what was after it moves down.                      *)
LEMMA WhatIsRemoved ==
  ASSUME NEW S, NEW s \in Seq(S), NEW i \in 1..Len(s)
  PROVE  /\ A!RemoveAt(s, i) \in Seq(S) /\ Len(A!RemoveAt(s, i)) = Len(s) - 1
         /\ \A j \in 1..(Len(s) - 1) :
              A!RemoveAt(s, i)[j] = IF j < i THEN s[j] ELSE s[j + 1]
<1> DEFINE a == SubSeq(s, 1, i - 1)
           b == SubSeq(s, i + 1, Len(s))
<1>0. Len(s) \in Nat /\ i \in Nat /\ 1 <= i /\ i <= Len(s)
  OBVIOUS
<1>1. a \in Seq(S) /\ Len(a) = i - 1 /\ \A j \in 1..(i - 1) : a[j] = s[j]
  OBVIOUS
<1>2. b \in Seq(S) /\ Len(b) = Len(s) - i /\ \A j \in 1..(Len(s) - i) : b[j] = s[i + j]
  OBVIOUS
<1>3. A!RemoveAt(s, i) = a \o b
  BY DEF A!RemoveAt
<1> HIDE DEF a, b
<1>4. Len(a) + Len(b) = Len(s) - 1
  BY <1>0, <1>1, <1>2
<1>5. /\ a \o b \in Seq(S) /\ Len(a \o b) = Len(s) - 1
      /\ \A j \in 1..(Len(a) + Len(b)) :
           (a \o b)[j] = IF j <= Len(a) THEN a[j] ELSE b[j - Len(a)]
  BY <1>1, <1>2, <1>4, WhatIsJoined
<1>6. ASSUME NEW j \in 1..(Len(s) - 1)
      PROVE  (a \o b)[j] = IF j < i THEN s[j] ELSE s[j + 1]
  <2>0. j \in Nat /\ (a \o b)[j] = IF j <= i - 1 THEN a[j] ELSE b[j - (i - 1)]
    BY <1>0, <1>1, <1>4, <1>5
  <2>1. CASE j < i
    BY <1>0, <1>1, <2>0, <2>1
  <2>2. CASE j >= i
    <3>1. j - (i - 1) \in 1..(Len(s) - i) /\ i + (j - (i - 1)) = j + 1
      BY <1>0, <2>2
    <3>2. b[j - (i - 1)] = s[j + 1]
      BY <1>2, <3>1
    <3> QED BY <1>0, <2>0, <2>2, <3>2
  <2> QED BY <1>0, <2>0, <2>1, <2>2
<1> QED BY <1>3, <1>5, <1>6

(* The bus stays a list of different cameras.                              *)
LEMMA BusStaysInjective ==
  ASSUME NEW S, NEW s \in Seq(S), A!IsInjective(s)
  PROVE  /\ \A i \in 1..(Len(s) + 1) : \A e \in S \ A!Range(s) :
              A!InsertAt(s, i, e) \in Seq(S) /\ A!IsInjective(A!InsertAt(s, i, e))
         /\ \A i \in 1..Len(s) :
              A!RemoveAt(s, i) \in Seq(S) /\ A!IsInjective(A!RemoveAt(s, i))
<1>0. /\ Len(s) \in Nat /\ DOMAIN s = 1..Len(s)
      /\ \A a, b \in 1..Len(s) : s[a] = s[b] => a = b
  BY DEF A!IsInjective
<1>1. ASSUME NEW i \in 1..(Len(s) + 1), NEW e \in S \ A!Range(s)
      PROVE  A!InsertAt(s, i, e) \in Seq(S) /\ A!IsInjective(A!InsertAt(s, i, e))
  <2> DEFINE t == A!InsertAt(s, i, e)
  <2>1. /\ t \in Seq(S) /\ Len(t) = Len(s) + 1
        /\ \A j \in 1..(Len(s) + 1) : t[j] = IF j < i THEN s[j] ELSE IF j = i THEN e ELSE s[j - 1]
    <3>1. e \in S
      OBVIOUS
    <3> QED BY <3>1, WhatIsInserted
  <2>2. \A j \in 1..Len(s) : s[j] # e
    BY <1>0 DEF A!Range
  <2> HIDE DEF t
  <2>3. ASSUME NEW a \in 1..(Len(s) + 1), NEW b \in 1..(Len(s) + 1), t[a] = t[b]
        PROVE  a = b
    BY <1>0, <2>1, <2>2, <2>3
  <2>4. DOMAIN t = 1..(Len(s) + 1)
    BY <2>1
  <2> QED BY <2>1, <2>3, <2>4 DEF A!IsInjective, t
<1>2. ASSUME NEW i \in 1..Len(s)
      PROVE  A!RemoveAt(s, i) \in Seq(S) /\ A!IsInjective(A!RemoveAt(s, i))
  <2> DEFINE t == A!RemoveAt(s, i)
  <2>1. /\ t \in Seq(S) /\ Len(t) = Len(s) - 1
        /\ \A j \in 1..(Len(s) - 1) : t[j] = IF j < i THEN s[j] ELSE s[j + 1]
    BY WhatIsRemoved
  <2> HIDE DEF t
  <2>3. ASSUME NEW a \in 1..(Len(s) - 1), NEW b \in 1..(Len(s) - 1), t[a] = t[b]
        PROVE  a = b
    BY <1>0, <2>1, <2>3
  <2>4. DOMAIN t = 1..(Len(s) - 1)
    BY <2>1
  <2> QED BY <2>1, <2>3, <2>4 DEF A!IsInjective, t
<1> QED BY <1>1, <1>2

\* There are so many cameras, and what is no text is none of theirs.
CamerasDiffer == IsFiniteSet(Camera) /\ None \notin Camera \cup Nat

ABusInv ==
  /\ aMaker \in A!Maker /\ aLabel \in [Camera -> A!Labels(aMaker)]
  /\ aBus \in Seq(Camera) /\ A!IsInjective(aBus)

\* A camera is held once.
AOpenInv ==
  /\ IsFiniteSet(aOpen)
  /\ \A g, h \in aOpen : g.camera = h.camera => g = h

\* Until it is left behind the table has an entry for each camera that is held,
\* at its position, with its serial, and no other.
ATableInv ==
  /\ aDrifted \in BOOLEAN
  /\ aTable \in Seq([index : A!Index, serial : Camera \cup {None}])
  /\ aMaker # "k4a" => aTable = <<>>
  /\ aMaker = "k4a" /\ ~aDrifted =>
       /\ \A h \in aOpen :
            /\ h.index \in A!Places(aBus) /\ A!At(aBus, h.index) = h.camera
            /\ \E k \in 1..Len(aTable) : aTable[k].index = h.index
       /\ \A k \in 1..Len(aTable) : \E h \in aOpen :
            aTable[k].index = h.index /\ aTable[k].serial = A!Serial(h.camera)
       /\ \A k, l \in 1..Len(aTable) : aTable[k].index = aTable[l].index => k = l

\* The Azure Kinect is opened by position.
AChoiceInv ==
  /\ aOpening.named \in Camera \cup {None}
  /\ aMaker = "k4a" => aOpening = A!Idle \/ aOpening.choice.by = "place"

AInv == AOpeningInv /\ ABusInv /\ AOpenInv /\ ATableInv /\ AChoiceInv

(* Every place of a list has a camera, and different ones different        *)
(* cameras.                                                                *)
LEMMA PlacesHold ==
  ASSUME CamerasDiffer, NEW list \in Seq(Camera)
  PROVE  /\ \A i \in A!Places(list) :
              /\ i \in Nat /\ i \in A!Index /\ i # None /\ i + 1 \in 1..Len(list)
              /\ A!At(list, i) \in Camera /\ A!At(list, i) \in A!Range(list)
         /\ A!IsInjective(list) =>
              \A i, j \in A!Places(list) : A!At(list, i) = A!At(list, j) => i = j
         /\ A!Index \subseteq Nat
<1>1. A!Cardinality(Camera) \in Nat
  BY SameCardinality, FS_CardinalityType DEF CamerasDiffer
<1>2. Len(list) \in Nat /\ DOMAIN list = 1..Len(list)
  OBVIOUS
<1>3. A!Index \subseteq Nat
  BY <1>1 DEF A!Index
<1>4. ASSUME NEW i \in A!Places(list)
      PROVE  /\ i \in Nat /\ i \in A!Index /\ i # None /\ i + 1 \in 1..Len(list)
             /\ A!At(list, i) \in Camera /\ A!At(list, i) \in A!Range(list)
  <2>1. i \in A!Index /\ i < Len(list) /\ i \in Nat
    BY <1>3 DEF A!Places
  <2>2. i + 1 \in 1..Len(list) /\ i # None
    BY <1>2, <2>1 DEF CamerasDiffer
  <2> QED BY <1>2, <2>1, <2>2 DEF A!At, A!Range
<1>5. ASSUME A!IsInjective(list), NEW i \in A!Places(list), NEW j \in A!Places(list),
             A!At(list, i) = A!At(list, j)
      PROVE  i = j
  <2>1. i + 1 = j + 1
    BY <1>2, <1>4, <1>5 DEF A!IsInjective, A!At
  <2> QED BY <1>4, <2>1
<1> QED BY <1>3, <1>4, <1>5

(* What is listed is a list of different cameras.                          *)
LEMMA ListedHolds ==
  ASSUME ABusInv
  PROVE  /\ A!Listed \in Seq(Camera) /\ A!IsInjective(A!Listed)
         /\ A!Range(A!Listed) \subseteq A!Plugged
         /\ aMaker = "freenect" => A!Range(A!Listed) = A!Plugged \ A!Held
         /\ aMaker # "freenect" => A!Listed = aBus
<1>1. CASE aMaker = "freenect"
  BY <1>1, WhatIsLeft DEF ABusInv, A!Listed, A!Unclaimed, A!Plugged
<1>2. CASE aMaker # "freenect"
  BY <1>2 DEF ABusInv, A!Listed, A!Plugged
<1> QED BY <1>1, <1>2

(* Nobody holds a camera and the table is empty.                           *)
LEMMA AInitially ==
  ASSUME CamerasDiffer, A!Init  PROVE  AInv
<1>1. A!Cardinality(Camera) \in Nat
  BY SameCardinality, FS_CardinalityType DEF CamerasDiffer
<1>2. \A n \in Nat : A!SeqOf(Camera, n) \subseteq Seq(Camera)
  BY DEF A!SeqOf
<1>3. /\ aMaker \in A!Maker /\ aLabel \in [Camera -> A!Labels(aMaker)]
      /\ aBus \in A!SeqOf(Camera, A!Cardinality(Camera)) /\ A!IsInjective(aBus)
      /\ aOpen = {} /\ aTable = <<>> /\ aOpening = A!Idle /\ aDrifted = FALSE
  BY DEF A!Init
<1>4. ABusInv
  BY <1>1, <1>2, <1>3 DEF ABusInv
<1>5. AOpenInv
  BY <1>3, FS_EmptySet DEF AOpenInv
<1>6. AOpeningInv /\ AChoiceInv
  BY <1>3 DEF AOpeningInv, AChoiceInv, A!Idle
<1>7. ATableInv
  <2>1. Len(aTable) = 0 /\ 1..0 = {} /\ \A T : <<>> \in Seq(T)
    BY <1>3
  <2>2. aTable \in Seq([index : A!Index, serial : Camera \cup {None}])
    BY <1>3, <2>1
  <2> QED BY <1>3, <2>1, <2>2 DEF ATableInv
<1> QED BY <1>4, <1>5, <1>6, <1>7 DEF AInv

(* The table is true as long as neither the cameras nor those who hold     *)
(* them change.                                                            *)
LEMMA ATableStays ==
  ASSUME ATableInv, UNCHANGED <<aMaker, aBus, aTable, aDrifted>>, aOpen' = aOpen,
         aMaker = "k4a" => UNCHANGED aLabel
  PROVE  ATableInv'
<1>1. aMaker = "k4a" => \A c : A!Serial(c)' = A!Serial(c)
  BY DEF A!Serial
<1>2. A!Places(aBus)' = A!Places(aBus) /\ A!Index' = A!Index
  BY DEF A!Places, A!Index
<1>3. \A i : A!At(aBus, i)' = A!At(aBus, i)
  BY DEF A!At
<1> QED BY <1>1, <1>2, <1>3 DEF ATableInv

(* The bus changes: either the table is left behind by that, or every      *)
(* camera that is held stays where it is.                                  *)
LEMMA ARearrangeStep ==
  ASSUME CamerasDiffer, AInv, NEW list \in Seq(Camera), A!IsInjective(list), A!Rearrange(list)
  PROVE  ABusInv' /\ AOpenInv' /\ ATableInv' /\ AChoiceInv'
<1>1. /\ aBus' = list /\ UNCHANGED <<aMaker, aLabel, aOpen, aTable>>
      /\ aDrifted' = (aDrifted \/ (aMaker = "k4a" /\ A!Displaced(list)))
      /\ aOpening' = [aOpening EXCEPT !.moved =
                        @ \/ (aOpening.named # None /\ aOpening.choice.by = "place")]
  BY DEF A!Rearrange
<1>2. ABusInv' /\ AOpenInv'
  BY <1>1 DEF AInv, ABusInv, AOpenInv
<1>3. AChoiceInv'
  <2>1. aOpening = [named |-> aOpening.named, choice |-> aOpening.choice, moved |-> aOpening.moved]
    BY DEF AInv, AOpeningInv
  <2>2. aOpening'.named = aOpening.named /\ aOpening'.choice = aOpening.choice
    BY <1>1, <2>1
  <2>3. aOpening = A!Idle => aOpening' = A!Idle
    <3>1. SUFFICES ASSUME aOpening = A!Idle  PROVE  aOpening' = A!Idle
      OBVIOUS
    <3>2. aOpening.named = None /\ aOpening.moved = FALSE
      BY <3>1 DEF A!Idle
    <3>3. aOpening' = [aOpening EXCEPT !.moved = FALSE]
      <4>1. (aOpening.moved \/ (aOpening.named # None /\ aOpening.choice.by = "place")) = FALSE
        BY <3>2, Zenon
      <4> QED BY <1>1, <4>1
    <3> QED BY <3>1, <3>3 DEF A!Idle
  <2> QED BY <1>1, <2>2, <2>3 DEF AInv, AChoiceInv, A!Idle
<1>4. ATableInv'
  <2>0. ATableInv
    BY DEF AInv
  <2>1. \A c : A!Serial(c)' = A!Serial(c)
    BY <1>1 DEF A!Serial
  <2>2. A!Places(aBus)' = A!Places(list) /\ A!Index' = A!Index
        /\ \A i : A!At(aBus, i)' = A!At(list, i)
    BY <1>1 DEF A!Places, A!Index, A!At
  <2>3. CASE aMaker = "k4a" /\ ~aDrifted'
    <3>1. ~aDrifted /\ aDrifted' = FALSE
          /\ \A h \in aOpen : h.index \in A!Places(list) /\ A!At(list, h.index) = h.camera
      BY <1>1, <2>0, <2>3 DEF ATableInv, A!Displaced
    <3> QED BY <1>1, <2>0, <2>1, <2>2, <2>3, <3>1 DEF ATableInv
  <2>4. CASE aMaker # "k4a" \/ aDrifted'
    <3>1. aDrifted' \in BOOLEAN
      BY <1>1, <2>0 DEF ATableInv
    <3> QED BY <1>1, <2>0, <2>2, <2>4, <3>1 DEF ATableInv
  <2> QED BY <2>3, <2>4
<1> QED BY <1>2, <1>3, <1>4

(* What can be opened is plugged in, and nobody holds it; where it was     *)
(* chosen by position, it is the one at that position.                     *)
LEMMA WhatOpens ==
  ASSUME NEW choice, NEW c \in A!Opened(choice)
  PROVE  /\ c \in A!Plugged \ A!Held
         /\ choice.by = "place" =>
              choice.is \in A!Places(A!Listed) /\ A!At(A!Listed, choice.is) = c
<1>1. c \in A!Plugged \ A!Held
  BY DEF A!Opened
<1>2. ASSUME choice.by = "place"
      PROVE  choice.is \in A!Places(A!Listed) /\ A!At(A!Listed, choice.is) = c
  BY <1>2, Zenon DEF A!Opened
<1> QED BY <1>1, <1>2

(* The identity that a choice was made by is a camera's.                   *)
LEMMA NamedIsACamera ==
  ASSUME CamerasDiffer, ABusInv, NEW a \in A!Address, NEW choice \in A!Choose(A!Parse(a))
  PROVE  A!Named(A!Parse(a), choice) \in Camera \cup {None}
<1> DEFINE addr == A!Parse(a)
<1>1. SUFFICES ASSUME A!Named(addr, choice) # None  PROVE  addr.text \in Camera
  BY DEF A!Named
<1>2. addr.kind \notin {"any", "index"}
  BY <1>1 DEF A!Named
<1>3. ASSUME NEW forms, NEW bare, addr = A!Parsed(forms, bare, a),
             a.form \in forms \/ a.form # "index"
      PROVE  addr.text \in Camera
  <2>1. a.form # "index" /\ a.text # None /\ addr.text = a.text
    BY <1>2, <1>3 DEF A!Parsed, A!AnyCamera
  <2> QED BY <2>1 DEF A!Address
<1>4. CASE aMaker = "k4a"
  <2>1. addr = A!ParseK4A(a)
    BY <1>4, Zenon DEF A!Parse
  <2> QED BY <1>3, <2>1 DEF A!ParseK4A
<1>5. CASE aMaker = "freenect"
  <2>1. addr = A!ParseFreenect(a)
    BY <1>5, Zenon DEF A!Parse
  <2> QED BY <1>3, <2>1 DEF A!ParseFreenect
<1>6. CASE aMaker = "freenect2"
  <2>1. addr = A!ParseFreenect2(a)
    BY <1>6, Zenon DEF A!Parse
  <2> QED BY <1>3, <2>1 DEF A!ParseFreenect2
<1>7. CASE aMaker = "realsense"
  <2>1. addr = A!ParseRealSense(a)
    BY <1>7, Zenon DEF A!Parse
  <2> QED BY <1>3, <2>1 DEF A!ParseRealSense
<1>8. CASE aMaker = "orbbec"
  <2>1. addr = A!ParseOrbbec(a) /\ A!Choose(addr) = A!ChooseOrbbec(addr)
    BY <1>8, Zenon DEF A!Parse, A!Choose
  <2>2. CASE a.form # "index"
    BY <1>3, <2>1, <2>2 DEF A!ParseOrbbec
  <2>3. CASE a.form = "index"
    <3>1. addr.kind = "sn"
      BY <1>2, <2>1, <2>3 DEF A!ParseOrbbec, A!Parsed, A!AnyCamera
    <3>2. A!ChooseOrbbec(addr) =
            UNION {A!ByCamera(A!At(aBus, i)) : i \in A!WithSerial(aBus, addr.text)}
      BY <3>1, Zenon DEF A!ChooseOrbbec
    <3>3. PICK i \in A!WithSerial(aBus, addr.text) : choice \in A!ByCamera(A!At(aBus, i))
      BY <2>1, <3>2
    <3>4. i \in A!Places(aBus) /\ A!At(aBus, i) = addr.text
      BY <3>3, FoundByText
    <3> QED BY <3>4, PlacesHold DEF ABusInv
  <2> QED BY <2>2, <2>3
<1>9. CASE aMaker = "depthai"
  <2>1. addr = A!ParseDepthAI(a)
    BY <1>9, Zenon DEF A!Parse
  <2> QED BY <1>3, <2>1 DEF A!ParseDepthAI
<1>10. CASE aMaker = "oak"
  <2>1. addr = A!ParseOak(a)
    BY <1>10, Zenon DEF A!Parse
  <2> QED BY <1>3, <2>1 DEF A!ParseOak
<1> QED
  BY <1>4, <1>5, <1>6, <1>7, <1>8, <1>9, <1>10 DEF ABusInv, A!Maker

(* A choice is made: by position, of an Azure Kinect.                      *)
LEMMA AResolveStep ==
  ASSUME CamerasDiffer, AInv, NEW a \in A!Address, A!Resolve(a)
  PROVE  ABusInv' /\ AOpenInv' /\ ATableInv' /\ AChoiceInv'
<1>1. UNCHANGED <<aMaker, aLabel, aBus, aOpen, aTable, aDrifted>>
  BY DEF A!Resolve
<1>2. PICK choice \in A!Choose(A!Parse(a)) :
        aOpening' = [named |-> A!Named(A!Parse(a), choice), choice |-> choice, moved |-> FALSE]
  BY DEF A!Resolve
<1>3. ABusInv' /\ AOpenInv' /\ ATableInv'
  BY <1>1, ATableStays DEF AInv, ABusInv, AOpenInv
<1>4. aOpening'.named \in Camera \cup {None} /\ aOpening'.choice = choice
  BY <1>2, NamedIsACamera DEF AInv
<1>5. aMaker = "k4a" => choice.by = "place"
  <2>1. ASSUME aMaker = "k4a"  PROVE  choice.by = "place"
    <3>1. choice \in A!ChooseK4A(A!Parse(a))
      BY <1>2, <2>1, Zenon DEF A!Choose
    <3>2. PICK i : choice \in A!ByPlace(i)
      BY <3>1 DEF A!ChooseK4A
    <3> QED BY <3>2 DEF A!ByPlace
  <2> QED BY <2>1
<1> QED BY <1>1, <1>3, <1>4, <1>5 DEF AChoiceInv

(* A Kinect v1 has no table that tells of its serial.                      *)
LEMMA ARelabelStep ==
  ASSUME AInv, A!Relabel
  PROVE  ABusInv' /\ AOpenInv' /\ ATableInv' /\ AChoiceInv'
<1>1. aMaker = "freenect" /\ UNCHANGED <<aMaker, aBus, aOpen, aTable, aOpening, aDrifted>>
  BY DEF A!Relabel
<1>2. PICK c \in Camera :
        aLabel' = [aLabel EXCEPT ![c] = IF @ = "serial" THEN "anonymous" ELSE "serial"]
  BY DEF A!Relabel
<1>3. {"serial", "anonymous"} \subseteq A!Labels(aMaker)
  BY DEF A!Labels
<1>4. aLabel' \in [Camera -> A!Labels(aMaker)]
  BY <1>2, <1>3 DEF AInv, ABusInv
<1>5. ABusInv' /\ AOpenInv'
  BY <1>1, <1>4 DEF AInv, ABusInv, AOpenInv, A!Labels
<1>6. ATableInv' /\ AChoiceInv'
  BY <1>1, ATableStays DEF AInv, AChoiceInv
<1> QED BY <1>5, <1>6

(* What the table is told of an Azure Kinect is the position it is at.     *)
LEMMA AWhatIsRemembered ==
  ASSUME CamerasDiffer, AInv, aOpening # A!Idle, NEW c \in A!Opened(aOpening.choice), A!Remember(c)
  PROVE  /\ aMaker # "k4a" => aTable' = aTable
         /\ aMaker = "k4a" =>
              /\ aTable' = Append(aTable, [index |-> aOpening.choice.is, serial |-> A!Serial(c)])
              /\ [index |-> aOpening.choice.is, serial |-> A!Serial(c)]
                   \in [index : A!Index, serial : Camera \cup {None}]
              /\ aOpening.choice.is \in A!Places(aBus) /\ A!At(aBus, aOpening.choice.is) = c
<1>1. CASE aMaker # "k4a"
  BY <1>1 DEF A!Remember
<1>2. CASE aMaker = "k4a"
  <2>1. aOpening.choice.is \in A!Places(aBus) /\ A!At(aBus, aOpening.choice.is) = c
    BY <1>2, WhatOpens, ListedHolds DEF AInv, AChoiceInv
  <2>2. c \in Camera /\ aOpening.choice.is \in A!Index
    BY <2>1, PlacesHold DEF AInv, ABusInv
  <2>3. A!Serial(c) \in Camera \cup {None}
    BY <2>2 DEF A!Serial
  <2> QED BY <1>2, <2>1, <2>2, <2>3 DEF A!Remember
<1> QED BY <1>1, <1>2

(* Where the table was told, it is now left behind.                        *)
LEMMA AFailStep ==
  ASSUME CamerasDiffer, AInv, A!Fail
  PROVE  ABusInv' /\ AOpenInv' /\ ATableInv' /\ AChoiceInv'
<1>1. aOpening # A!Idle /\ UNCHANGED <<aMaker, aLabel, aBus, aOpen>> /\ aOpening' = A!Idle
  BY DEF A!Fail
<1>2. ABusInv' /\ AOpenInv' /\ AChoiceInv'
  BY <1>1 DEF AInv, ABusInv, AOpenInv, AChoiceInv, A!Idle
<1>3. CASE UNCHANGED <<aTable, aDrifted>>
  BY <1>1, <1>2, <1>3, ATableStays DEF AInv
<1>4. ASSUME aMaker = "k4a", aDrifted' = TRUE,
             NEW c \in A!Opened(aOpening.choice), A!Remember(c)
      PROVE  ATableInv'
  <2> DEFINE Entries == [index : A!Index, serial : Camera \cup {None}]
             entry == [index |-> aOpening.choice.is, serial |-> A!Serial(c)]
  <2>1. aTable' = Append(aTable, entry) /\ entry \in Entries /\ aTable \in Seq(Entries)
    BY <1>1, <1>4, AWhatIsRemembered DEF AInv, ATableInv
  <2> HIDE DEF entry, Entries
  <2>2. aTable' \in Seq(Entries)
    BY <2>1
  <2>3. A!Index' = A!Index
    BY DEF A!Index
  <2> QED BY <1>1, <1>4, <2>2, <2>3 DEF ATableInv, Entries
<1>5. \/ UNCHANGED <<aTable, aDrifted>>
      \/ /\ aMaker = "k4a" /\ aDrifted' = TRUE
         /\ \E c \in A!Opened(aOpening.choice) : A!Remember(c)
  BY DEF A!Fail
<1> QED BY <1>2, <1>3, <1>4, <1>5 DEF AInv

(* Where nobody held the camera, the table has no entry for its position;  *)
(* it has now.                                                             *)
LEMMA ATakeStep ==
  ASSUME CamerasDiffer, AInv, A!Take
  PROVE  ABusInv' /\ AOpenInv' /\ ATableInv' /\ AChoiceInv'
<1>1. /\ aOpening # A!Idle /\ aOpening' = A!Idle
      /\ UNCHANGED <<aMaker, aLabel, aBus, aDrifted>>
  BY DEF A!Take
<1>2. PICK c \in A!Opened(aOpening.choice) :
        /\ aOpen' = aOpen \cup {[camera |-> c, named |-> aOpening.named,
                                 moved |-> aOpening.moved,
                                 index |-> IF aMaker = "k4a" THEN aOpening.choice.is ELSE 0]}
        /\ A!Remember(c)
  BY DEF A!Take
<1> DEFINE new == [camera |-> c, named |-> aOpening.named, moved |-> aOpening.moved,
                   index |-> IF aMaker = "k4a" THEN aOpening.choice.is ELSE 0]
<1>3. /\ c \in A!Plugged \ A!Held
      /\ aOpening.choice.by = "place" =>
           aOpening.choice.is \in A!Places(A!Listed) /\ A!At(A!Listed, aOpening.choice.is) = c
  BY <1>2, WhatOpens
<1>4. new.camera = c /\ (aMaker = "k4a" => new.index = aOpening.choice.is) /\ aOpen' = aOpen \cup {new}
  BY <1>2
<1>5. \A h \in aOpen : h.camera # c
  BY <1>3 DEF A!Held
<1> HIDE DEF new
<1>6. ABusInv' /\ AChoiceInv'
  BY <1>1 DEF AInv, ABusInv, AChoiceInv, A!Idle
<1>7. AOpenInv'
  BY <1>4, <1>5, FS_AddElement DEF AInv, AOpenInv
<1>8. ATableInv'
  <2>0. A!Index' = A!Index /\ aDrifted' = aDrifted /\ aDrifted \in BOOLEAN
    BY <1>1 DEF A!Index, AInv, ATableInv
  <2>1. CASE aMaker # "k4a"
    <3>1. aTable' = aTable
      BY <1>1, <1>2, <2>1, AWhatIsRemembered
    <3> QED BY <1>1, <2>0, <2>1, <3>1 DEF AInv, ATableInv
  <2>3. CASE aMaker = "k4a" /\ aDrifted
    <3> DEFINE Entries == [index : A!Index, serial : Camera \cup {None}]
               entry == [index |-> aOpening.choice.is, serial |-> A!Serial(c)]
    <3>1. aTable' = Append(aTable, entry) /\ entry \in Entries /\ aTable \in Seq(Entries)
      BY <1>1, <1>2, <2>3, AWhatIsRemembered DEF AInv, ATableInv
    <3> HIDE DEF entry, Entries
    <3>2. aTable' \in Seq(Entries)
      BY <3>1
    <3> QED BY <1>1, <2>0, <2>3, <3>2 DEF ATableInv, Entries
  <2>2. CASE aMaker = "k4a" /\ ~aDrifted
    <3> DEFINE entry == [index |-> aOpening.choice.is, serial |-> A!Serial(c)]
               n == Len(aTable)
    <3>1. aTable' = Append(aTable, entry)
      BY <1>1, <1>2, <2>2, AWhatIsRemembered
    <3>2. aOpening.choice.is \in A!Places(aBus) /\ A!At(aBus, aOpening.choice.is) = c
      BY <1>1, <1>2, <2>2, AWhatIsRemembered
    <3>3. entry \in [index : A!Index, serial : Camera \cup {None}]
      BY <1>1, <1>2, <2>2, AWhatIsRemembered
    <3>4. /\ entry.index = new.index /\ entry.serial = A!Serial(new.camera)
          /\ new.index \in A!Places(aBus) /\ A!At(aBus, new.index) = new.camera
      BY <1>4, <2>2, <3>2
    <3>5. aTable \in Seq([index : A!Index, serial : Camera \cup {None}])
      BY DEF AInv, ATableInv
    <3> HIDE DEF entry
    <3>6. /\ aTable' \in Seq([index : A!Index, serial : Camera \cup {None}])
          /\ Len(aTable') = n + 1 /\ n \in Nat /\ aTable'[n + 1] = entry
          /\ \A k \in 1..n : aTable'[k] = aTable[k]
      BY <3>1, <3>3, <3>5
    <3>7. 1..(n + 1) = (1..n) \cup {n + 1} /\ n + 1 \notin 1..n
      BY <3>6
    <3>8. /\ \A h \in aOpen :
               /\ h.index \in A!Places(aBus) /\ A!At(aBus, h.index) = h.camera
               /\ \E k \in 1..n : aTable[k].index = h.index
          /\ \A k \in 1..n : \E h \in aOpen :
               aTable[k].index = h.index /\ aTable[k].serial = A!Serial(h.camera)
          /\ \A k, l \in 1..n : aTable[k].index = aTable[l].index => k = l
      BY <2>2 DEF AInv, ATableInv
    <3>9. \A k \in 1..n : aTable[k].index # entry.index
      BY <1>4, <1>5, <3>4, <3>8
    <3> HIDE DEF n
    <3>10. \A h \in aOpen' :
             /\ h.index \in A!Places(aBus) /\ A!At(aBus, h.index) = h.camera
             /\ \E k \in 1..(n + 1) : aTable'[k].index = h.index
      BY <1>4, <3>4, <3>6, <3>7, <3>8
    <3>11. \A k \in 1..(n + 1) : \E h \in aOpen' :
             aTable'[k].index = h.index /\ aTable'[k].serial = A!Serial(h.camera)
      BY <1>4, <3>4, <3>6, <3>7, <3>8
    <3>12. \A k, l \in 1..(n + 1) : aTable'[k].index = aTable'[l].index => k = l
      BY <3>6, <3>7, <3>8, <3>9
    <3>13. /\ A!Places(aBus)' = A!Places(aBus) /\ \A i : A!At(aBus, i)' = A!At(aBus, i)
           /\ \A d : A!Serial(d)' = A!Serial(d)
      BY <1>1 DEF A!Places, A!At, A!Serial, A!Index
    <3> QED BY <1>1, <2>2, <3>6, <3>10, <3>11, <3>12, <3>13 DEF AInv, ATableInv
  <2> QED BY <2>1, <2>2, <2>3
<1> QED BY <1>6, <1>7, <1>8

(* The first entry for a position is its only entry: without it the table  *)
(* tells of the others.                                                    *)
LEMMA ACloseStep ==
  ASSUME CamerasDiffer, AInv, A!Close
  PROVE  ABusInv' /\ AOpenInv' /\ ATableInv' /\ AChoiceInv'
<1>1. PICK h \in aOpen :
        /\ aOpen' = aOpen \ {h}
        /\ aTable' = A!RemoveFirstMatch(aTable, LAMBDA e : e.index = h.index)
  BY DEF A!Close
<1>2. UNCHANGED <<aMaker, aLabel, aBus, aOpening, aDrifted>>
  BY DEF A!Close
<1>3. ABusInv' /\ AChoiceInv'
  BY <1>2 DEF AInv, ABusInv, AChoiceInv, A!Idle
<1>4. AOpenInv'
  BY <1>1, FS_Subset DEF AInv, AOpenInv
<1>5. ATableInv'
  <2>0. A!Index' = A!Index /\ aDrifted' = aDrifted /\ aDrifted \in BOOLEAN
    BY <1>2 DEF A!Index, AInv, ATableInv
  <2>1. CASE aMaker # "k4a"
    <3>1. aTable = <<>> /\ ~(\E i \in 1..Len(<<>>) : <<>>[i].index = h.index)
      BY <2>1 DEF AInv, ATableInv
    <3>2. A!RemoveFirstMatch(aTable, LAMBDA e : e.index = h.index) = <<>>
      BY <3>1 DEF A!RemoveFirstMatch
    <3>3. aTable' = aTable
      BY <1>1, <3>1, <3>2
    <3> QED BY <1>2, <2>0, <2>1, <3>3 DEF AInv, ATableInv
  <2>3. CASE aMaker = "k4a" /\ aDrifted
    <3> DEFINE Entries == [index : A!Index, serial : Camera \cup {None}]
               n == Len(aTable)
    <3>1. aTable \in Seq(Entries) /\ n \in Nat
      BY DEF AInv, ATableInv
    <3> HIDE DEF Entries
    <3>2. ASSUME \A k \in 1..n : aTable[k].index # h.index
          PROVE  aTable' \in Seq(Entries)
      <4>1. A!RemoveFirstMatch(aTable, LAMBDA e : e.index = h.index) = aTable
        BY <3>2 DEF A!RemoveFirstMatch
      <4> QED BY <1>1, <3>1, <4>1
    <3>3. ASSUME \E k \in 1..n : aTable[k].index = h.index
          PROVE  aTable' \in Seq(Entries)
      <4> DEFINE S == {k \in 1..n : aTable[k].index = h.index}
                 first == A!SelectInSeq(aTable, LAMBDA e : e.index = h.index)
      <4>1. first = A!Min(S)
        BY <3>3 DEF A!SelectInSeq
      <4>2. \E k \in S : \A l \in S : k <= l
        <5>1. S # {} /\ S \subseteq Nat
          BY <3>1, <3>3
        <5> HIDE DEF S
        <5>2. PICK k \in S : \A l \in S : ~ (<<l, k>> \in OpToRel(<, Nat))
          BY <5>1, NatLessThanWellFounded, WFMin
        <5>3. \A l \in S : ~(l < k)
          BY <5>1, <5>2 DEF OpToRel
        <5> QED BY <5>1, <5>3
      <4>3. first \in 1..n
        <5>1. first \in S
          <6> HIDE DEF S, first
          <6> QED BY <4>1, <4>2 DEF A!Min
        <5> QED BY <5>1
      <4>4. aTable' = A!RemoveAt(aTable, first)
        BY <1>1, <3>3 DEF A!RemoveFirstMatch
      <4> HIDE DEF first, S
      <4> QED BY <3>1, <4>3, <4>4, WhatIsRemoved
    <3>4. aTable' \in Seq(Entries)
      BY <3>1, <3>2, <3>3
    <3> QED BY <1>2, <2>0, <2>3, <3>4 DEF ATableInv, Entries
  <2>2. CASE aMaker = "k4a" /\ ~aDrifted
    <3> DEFINE n == Len(aTable)
    <3>1. /\ aTable \in Seq([index : A!Index, serial : Camera \cup {None}]) /\ n \in Nat
          /\ \A g \in aOpen :
               /\ g.index \in A!Places(aBus) /\ A!At(aBus, g.index) = g.camera
               /\ \E k \in 1..n : aTable[k].index = g.index
          /\ \A k \in 1..n : \E g \in aOpen :
               aTable[k].index = g.index /\ aTable[k].serial = A!Serial(g.camera)
          /\ \A k, l \in 1..n : aTable[k].index = aTable[l].index => k = l
      BY <2>2 DEF AInv, ATableInv
    <3>2. PICK k \in 1..n : aTable[k].index = h.index
      BY <3>1
    <3>3. A!SelectInSeq(aTable, LAMBDA e : e.index = h.index) = k
      <4>1. {j \in 1..Len(aTable) : aTable[j].index = h.index} = {k}
        BY <3>1, <3>2
      <4> QED BY <3>1, <4>1 DEF A!SelectInSeq, A!Min
    <3>4. A!RemoveFirstMatch(aTable, LAMBDA e : e.index = h.index) = A!RemoveAt(aTable, k)
      BY <3>2, <3>3 DEF A!RemoveFirstMatch
    <3>5. aTable' = A!RemoveAt(aTable, k)
      BY <1>1, <3>4
    <3>6. /\ aTable' \in Seq([index : A!Index, serial : Camera \cup {None}])
          /\ Len(aTable') = n - 1
          /\ \A j \in 1..(n - 1) : aTable'[j] = IF j < k THEN aTable[j] ELSE aTable[j + 1]
      <4> DEFINE Entries == [index : A!Index, serial : Camera \cup {None}]
      <4>1. aTable \in Seq(Entries) /\ k \in 1..Len(aTable)
        BY <3>1
      <4> HIDE DEF Entries
      <4>2. /\ aTable' \in Seq(Entries) /\ Len(aTable') = Len(aTable) - 1
            /\ \A j \in 1..(Len(aTable) - 1) :
                 aTable'[j] = IF j < k THEN aTable[j] ELSE aTable[j + 1]
        BY <3>5, <4>1, WhatIsRemoved
      <4> QED BY <4>2 DEF Entries
    <3> HIDE DEF n
    <3>7. \A j \in 1..(n - 1) : \E i \in (1..n) \ {k} : aTable'[j] = aTable[i] /\ i = IF j < k THEN j ELSE j + 1
      BY <3>1, <3>6
    <3>8. \A i \in (1..n) \ {k} : \E j \in 1..(n - 1) : aTable'[j] = aTable[i]
      <4> TAKE i \in (1..n) \ {k}
      <4>1. CASE i < k
        BY <3>1, <3>6, <4>1
      <4>2. CASE i > k
        <5>1. i - 1 \in 1..(n - 1) /\ ~(i - 1 < k) /\ (i - 1) + 1 = i
          BY <3>1, <4>2
        <5> QED BY <3>6, <5>1
      <4> QED BY <3>1, <4>1, <4>2
    <3>9. \A g \in aOpen' : g \in aOpen /\ g.index # h.index
      BY <1>1, <3>1 DEF AInv, AOpenInv
    <3>10. \A g \in aOpen' :
             /\ g.index \in A!Places(aBus) /\ A!At(aBus, g.index) = g.camera
             /\ \E j \in 1..(n - 1) : aTable'[j].index = g.index
      BY <3>1, <3>2, <3>8, <3>9
    <3>11. \A j \in 1..(n - 1) : \E g \in aOpen' :
             aTable'[j].index = g.index /\ aTable'[j].serial = A!Serial(g.camera)
      <4> TAKE j \in 1..(n - 1)
      <4>1. PICK i \in (1..n) \ {k} : aTable'[j] = aTable[i]
        BY <3>7
      <4>2. PICK g \in aOpen : aTable[i].index = g.index /\ aTable[i].serial = A!Serial(g.camera)
        BY <3>1
      <4>3. g # h
        BY <3>1, <3>2, <4>2
      <4> QED BY <1>1, <4>1, <4>2, <4>3
    <3>12. \A i, j \in 1..(n - 1) : aTable'[i].index = aTable'[j].index => i = j
      <4> TAKE i, j \in 1..(n - 1)
      <4>1. PICK a \in (1..n) \ {k} : aTable'[i] = aTable[a] /\ a = IF i < k THEN i ELSE i + 1
        BY <3>7
      <4>2. PICK b \in (1..n) \ {k} : aTable'[j] = aTable[b] /\ b = IF j < k THEN j ELSE j + 1
        BY <3>7
      <4>3. a = b => i = j
        BY <3>1, <4>1, <4>2
      <4> QED BY <3>1, <4>1, <4>2, <4>3
    <3>13. /\ A!Places(aBus)' = A!Places(aBus) /\ \A i : A!At(aBus, i)' = A!At(aBus, i)
           /\ \A d : A!Serial(d)' = A!Serial(d)
      BY <1>2 DEF A!Places, A!At, A!Serial, A!Index
    <3> QED BY <1>2, <2>2, <3>6, <3>10, <3>11, <3>12, <3>13 DEF AInv, ATableInv
  <2> QED BY <2>1, <2>2, <2>3
<1> QED BY <1>3, <1>4, <1>5

(* So there are as many cameras held as there are holders.                 *)
LEMMA HeldOnce ==
  ASSUME AOpenInv  PROVE  A!Cardinality(A!Held) = A!Cardinality(aOpen)
<1> DEFINE f == [h \in aOpen |-> h.camera]
<1>1. f \in Bijection(aOpen, A!Held)
  <2>1. f \in [aOpen -> A!Held] /\ \A c \in A!Held : \E h \in aOpen : f[h] = c
    BY DEF A!Held
  <2>2. \A g, h \in aOpen : f[g] = f[h] => g = h
    BY DEF AOpenInv
  <2> QED BY <2>1, <2>2 DEF Bijection, Injection, Surjection, IsInjective
<1>2. ExistsBijection(aOpen, A!Held)
  BY <1>1 DEF ExistsBijection
<1> QED BY <1>2, FS_Bijection, SameCardinality DEF AOpenInv

(* What the run checks of the types.                                       *)
LEMMA AInvGivesTypeOK ==
  ASSUME AInv  PROVE  A!TypeOK
<1>1. A!Plugged \subseteq Camera
  BY DEF AInv, ABusInv, A!Plugged, A!Range
<1>2. \A e \in A!Range(aTable) : e.index \in A!Index /\ e.serial \in Camera \cup {None}
  <2> DEFINE Entries == [index : A!Index, serial : Camera \cup {None}]
  <2>1. aTable \in Seq(Entries)
    BY DEF AInv, ATableInv
  <2>2. \A e \in Entries : e.index \in A!Index /\ e.serial \in Camera \cup {None}
    OBVIOUS
  <2> HIDE DEF Entries
  <2>3. A!Range(aTable) \subseteq Entries
    BY <2>1 DEF A!Range
  <2> QED BY <2>2, <2>3
<1> QED BY <1>1, <1>2, HeldOnce DEF AInv, ABusInv, ATableInv, AChoiceInv, AOpeningInv, A!TypeOK

(* The listing of Azure Kinects says of each what it would say itself.     *)
LEMMA AInvGivesTrueListing ==
  ASSUME CamerasDiffer, AInv, aMaker = "k4a", ~aDrifted
  PROVE  \A i \in A!Places(aBus) : A!Announce(i) = A!BySerialOrIndex(aBus, i)
<1> TAKE i \in A!Places(aBus)
<1>0. A!Announce(i) = A!AnnounceK4A(i)
  BY Zenon DEF A!Announce
<1>1. /\ aBus \in Seq(Camera) /\ A!IsInjective(aBus) /\ Len(aTable) \in Nat
      /\ \A h \in aOpen :
           /\ h.index \in A!Places(aBus) /\ A!At(aBus, h.index) = h.camera
           /\ \E k \in 1..Len(aTable) : aTable[k].index = h.index
      /\ \A k \in 1..Len(aTable) : \E h \in aOpen :
           aTable[k].index = h.index /\ aTable[k].serial = A!Serial(h.camera)
      /\ \A k, l \in 1..Len(aTable) : aTable[k].index = aTable[l].index => k = l
  BY DEF AInv, ABusInv, ATableInv
<1>2. CASE \E k \in 1..Len(aTable) : aTable[k].index = i
  <2>1. PICK k \in 1..Len(aTable) : aTable[k].index = i
    BY <1>2
  <2>2. A!Remembered(i) = k
    <3>1. {j \in 1..Len(aTable) : aTable[j].index = i} = {k} /\ k \in Nat
      BY <1>1, <2>1
    <3> QED BY <3>1 DEF A!Remembered, A!SelectInSeq, A!Min
  <2>3. k # 0
    BY <1>1
  <2>4. PICK h \in aOpen : aTable[k].index = h.index /\ aTable[k].serial = A!Serial(h.camera)
    BY <1>1
  <2>5. aTable[k].serial = A!Serial(A!At(aBus, i)) /\ A!At(aBus, i) \in Camera
    BY <1>1, <2>1, <2>4, PlacesHold
  <2>6. aTable[k].serial = None <=> aLabel[A!At(aBus, i)] # "serial"
    BY <2>5 DEF A!Serial, CamerasDiffer
  <2> QED BY <1>0, <2>2, <2>3, <2>5, <2>6 DEF A!AnnounceK4A, A!BySerialOrIndex, A!Serial
<1>3. CASE \A k \in 1..Len(aTable) : aTable[k].index # i
  <2>1. A!Remembered(i) = 0
    BY <1>3 DEF A!Remembered, A!SelectInSeq
  <2>2. A!At(aBus, i) \notin A!Held
    <3>1. SUFFICES ASSUME NEW h \in aOpen, h.camera = A!At(aBus, i)  PROVE  FALSE
      BY DEF A!Held
    <3>2. h.index = i
      BY <1>1, <3>1, PlacesHold
    <3> QED BY <1>1, <1>3, <3>2
  <2> QED BY <1>0, <2>1, <2>2 DEF A!AnnounceK4A
<1> QED BY <1>2, <1>3

(* What is chosen by the position or the identity of a camera opens it.    *)
LEMMA OpensAtPlace ==
  ASSUME NEW choice, NEW i \in A!Places(A!Listed), choice.by = "place", choice.is = i,
         A!At(A!Listed, i) \in A!Plugged \ A!Held
  PROVE  A!Opened(choice) = {A!At(A!Listed, i)}
<1>1. \A c : (CASE choice.by = "place" -> choice.is \in A!Places(A!Listed) /\ A!At(A!Listed, choice.is) = c
                [] choice.by = "camera" -> c = choice.is
                [] choice.by = "chance" -> TRUE) <=> A!At(A!Listed, i) = c
  BY Zenon
<1> QED BY <1>1 DEF A!Opened

(* The SDK looks for the camera itself.                                    *)
LEMMA OpensThatCamera ==
  ASSUME NEW choice, NEW c \in A!Plugged \ A!Held, choice.by = "camera", choice.is = c
  PROVE  A!Opened(choice) = {c}
<1>1. \A d : (CASE choice.by = "place" -> choice.is \in A!Places(A!Listed) /\ A!At(A!Listed, choice.is) = d
                [] choice.by = "camera" -> d = choice.is
                [] choice.by = "chance" -> TRUE) <=> d = c
  BY Zenon
<1> QED BY <1>1 DEF A!Opened

(* No other camera has its identity, its serial or its position.           *)
LEMMA FoundAlone ==
  ASSUME CamerasDiffer, NEW list \in Seq(Camera), A!IsInjective(list), NEW i \in A!Places(list)
  PROVE  /\ A!WithIdentity(list, A!At(list, i)) = {i}
         /\ aLabel[A!At(list, i)] = "serial" => A!WithSerial(list, A!At(list, i)) = {i}
         /\ \A addr : addr.kind # "any" /\ addr.text = i => A!PlaceOf(addr, list) = {i}
<1>1. \A j \in A!Places(list) : A!At(list, j) = A!At(list, i) => j = i
  BY PlacesHold
<1> QED BY <1>1 DEF A!WithIdentity, A!WithSerial, A!Find, A!PlaceOf

(* What is announced for a camera that nobody holds leads to it.           *)
LEMMA AnnouncementLeads ==
  ASSUME CamerasDiffer, AInv, ~aDrifted,
         NEW i \in A!Places(aBus), NEW e \in A!Announce(i),
         A!At(A!Listed, e.at) \notin A!Held,
         ~(aMaker \in {"freenect2", "realsense"} /\ aLabel[A!At(A!Listed, e.at)] = "anonymous")
  PROVE  \E choice : /\ A!Choose(A!Parse(e.address)) = {choice}
                     /\ A!Opened(choice) = {A!At(A!Listed, e.at)}
<1> DEFINE c == A!At(A!Listed, e.at)
           addr == A!Parse(e.address)
<1>1. /\ aBus \in Seq(Camera) /\ A!IsInjective(aBus) /\ aMaker \in A!Maker
      /\ aLabel \in [Camera -> A!Labels(aMaker)]
      /\ A!Listed \in Seq(Camera) /\ A!IsInjective(A!Listed)
  BY ListedHolds DEF AInv, ABusInv
<1>2. /\ i \in Nat /\ i # None /\ A!At(aBus, i) \in Camera /\ A!At(aBus, i) # None
      /\ A!At(aBus, i) \in A!Plugged
  BY <1>1, PlacesHold DEF CamerasDiffer, A!Plugged
<1>3. ASSUME NEW form, NEW text, e \in A!Entry(i, form, text)
      PROVE  e.at = i /\ e.address = [form |-> form, text |-> text]
  BY <1>3 DEF A!Entry
<1>5. ASSUME A!Listed = aBus, e.at = i, A!Choose(addr) = A!ByCamera(A!At(aBus, i))
      PROVE  \E choice : A!Choose(addr) = {choice} /\ A!Opened(choice) = {c}
  <2> DEFINE choice == [by |-> "camera", is |-> A!At(aBus, i), sure |-> TRUE]
  <2>1. A!Choose(addr) = {choice}
    BY <1>5 DEF A!ByCamera
  <2>2. c = A!At(aBus, i) /\ A!At(aBus, i) \in A!Plugged \ A!Held
    BY <1>2, <1>5
  <2>3. A!Opened(choice) = {A!At(aBus, i)}
    BY <2>2, OpensThatCamera
  <2> QED BY <2>1, <2>2, <2>3
<1>6. ASSUME e.at \in A!Places(A!Listed), A!Choose(addr) = A!ByPlace(e.at)
      PROVE  \E choice : A!Choose(addr) = {choice} /\ A!Opened(choice) = {c}
  <2> DEFINE choice == [by |-> "place", is |-> e.at, sure |-> TRUE]
  <2>1. A!Choose(addr) = {choice}
    BY <1>6 DEF A!ByPlace
  <2>2. c \in A!Plugged \ A!Held
    BY <1>1, <1>6, PlacesHold, ListedHolds DEF AInv
  <2>3. A!Opened(choice) = {c}
    BY <1>6, <2>2, OpensAtPlace
  <2> QED BY <2>1, <2>3
<1>7. CASE aMaker = "k4a"
  <2>1. A!Listed = aBus /\ e \in A!BySerialOrIndex(aBus, i)
    BY <1>1, <1>7, ListedHolds, AInvGivesTrueListing DEF AInv
  <2>2. \A a : A!Parse(a) = A!Parsed({"sn", "index"}, "sn", a) /\ A!Choose(a) = A!ChooseK4A(a)
    BY <1>7, Zenon DEF A!Parse, A!Choose, A!ParseK4A
  <2>3. CASE aLabel[A!At(aBus, i)] = "serial"
    <3>1. e.at = i /\ addr = [kind |-> "sn", text |-> A!At(aBus, i)]
      <4>1. e \in A!Entry(i, "sn", A!At(aBus, i))
        BY <2>1, <2>3 DEF A!BySerialOrIndex
      <4>2. e.at = i /\ e.address = [form |-> "sn", text |-> A!At(aBus, i)]
        BY <4>1, <1>3
      <4>3. addr = A!Parsed({"sn", "index"}, "sn", e.address)
        BY <2>2
      <4> QED BY <1>2, <4>2, <4>3 DEF A!Parsed
    <3>2. A!WithSerial(aBus, A!At(aBus, i)) = {i}
      BY <1>1, <2>3, FoundAlone
    <3>3. {j \in {i} : A!At(aBus, j) \notin A!Held} = {i}
      BY <2>1, <3>1
    <3>4. A!ChooseK4A(addr) = UNION {A!ByPlace(j) : j \in {i}}
      BY <3>1, <3>2, <3>3 DEF A!ChooseK4A
    <3> QED BY <1>6, <2>1, <2>2, <3>1, <3>4
  <2>4. CASE aLabel[A!At(aBus, i)] # "serial"
    <3>1. e.at = i /\ addr = [kind |-> "index", text |-> i]
      <4>1. e \in A!Entry(i, "index", i)
        BY <2>1, <2>4 DEF A!BySerialOrIndex
      <4>2. e.at = i /\ e.address = [form |-> "index", text |-> i]
        BY <4>1, <1>3
      <4>3. addr = A!Parsed({"sn", "index"}, "sn", e.address)
        BY <2>2
      <4> QED BY <1>2, <4>2, <4>3 DEF A!Parsed
    <3>2. A!PlaceOf(addr, aBus) = {i}
      BY <1>1, <3>1, FoundAlone
    <3>3. A!ChooseK4A(addr) = UNION {A!ByPlace(j) : j \in {i}}
      BY <3>1, <3>2 DEF A!ChooseK4A
    <3> QED BY <1>6, <2>1, <2>2, <3>1, <3>3
  <2> QED BY <2>3, <2>4
<1>8. CASE aMaker = "freenect"
  <2>0. A!Listed = A!Unclaimed /\ e \in A!AnnounceFreenect(i)
    BY <1>8, Zenon DEF A!Announce, A!Listed
  <2>1. i \in A!Places(A!Listed) /\ e \in A!BySerialOrIndex(A!Listed, i)
    BY <2>0 DEF A!AnnounceFreenect
  <2>2. \A a : A!Parse(a) = A!Parsed({"sn", "index"}, "sn", a) /\ A!Choose(a) = A!ChooseFreenect(a)
    BY <1>8, Zenon DEF A!Parse, A!Choose, A!ParseFreenect
  <2>3. A!At(A!Listed, i) \in Camera /\ A!At(A!Listed, i) # None
    BY <1>1, <2>1, PlacesHold DEF CamerasDiffer
  <2>4. CASE aLabel[A!At(A!Listed, i)] = "serial"
    <3>1. e.at = i /\ addr = [kind |-> "sn", text |-> A!At(A!Listed, i)]
      <4>1. e \in A!Entry(i, "sn", A!At(A!Listed, i))
        BY <2>1, <2>3, <2>4 DEF A!BySerialOrIndex
      <4>2. e.at = i /\ e.address = [form |-> "sn", text |-> A!At(A!Listed, i)]
        BY <4>1, <1>3
      <4>3. addr = A!Parsed({"sn", "index"}, "sn", e.address)
        BY <2>2
      <4> QED BY <1>2, <2>3, <4>2, <4>3 DEF A!Parsed
    <3>2. A!WithSerial(A!Unclaimed, A!At(A!Listed, i)) = {i}
      BY <1>1, <2>0, <2>1, <2>4, FoundAlone
    <3>3. A!ChooseFreenect(addr) = UNION {A!ByPlace(j) : j \in {i}}
      <4>1. addr.kind = "sn" /\ addr.text = A!At(A!Listed, i) /\ {i} # {}
        BY <3>1
      <4> QED BY <3>2, <4>1, Zenon DEF A!ChooseFreenect
    <3> QED BY <1>6, <2>1, <2>2, <3>1, <3>3
  <2>5. CASE aLabel[A!At(A!Listed, i)] # "serial"
    <3>1. e.at = i /\ addr = [kind |-> "index", text |-> i]
      <4>1. e \in A!Entry(i, "index", i)
        BY <2>1, <2>5 DEF A!BySerialOrIndex
      <4>2. e.at = i /\ e.address = [form |-> "index", text |-> i]
        BY <4>1, <1>3
      <4>3. addr = A!Parsed({"sn", "index"}, "sn", e.address)
        BY <2>2
      <4> QED BY <1>2, <4>2, <4>3 DEF A!Parsed
    <3>2. A!ChooseFreenect(addr) = A!ByPlace(i)
      <4>1. addr.kind = "index" /\ addr.text = i
        BY <3>1
      <4> QED BY <4>1, Zenon DEF A!ChooseFreenect
    <3> QED BY <1>6, <2>1, <2>2, <3>1, <3>2
  <2> QED BY <2>4, <2>5
<1>9. CASE aMaker = "freenect2"
  <2>1. A!Listed = aBus /\ e \in A!BySerialOrIndex(aBus, i)
    <3>1. e \in A!AnnounceFreenect2(i)
      BY <1>9, Zenon DEF A!Announce
    <3> QED BY <1>9, <3>1, ListedHolds DEF AInv, A!AnnounceFreenect2
  <2>2. \A a : A!Parse(a) = A!Parsed({"sn", "index"}, "sn", a) /\ A!Choose(a) = A!ChooseFreenect2(a)
    BY <1>9, Zenon DEF A!Parse, A!Choose, A!ParseFreenect2
  <2>3. e.at = i
    BY <1>3, <2>1 DEF A!BySerialOrIndex
  <2>4. aLabel[A!At(aBus, i)] = "serial"
    BY <1>1, <1>2, <1>9, <2>1, <2>3 DEF A!Labels
  <2>5. addr = [kind |-> "sn", text |-> A!At(aBus, i)]
    <3>1. e \in A!Entry(i, "sn", A!At(aBus, i))
      BY <2>1, <2>4 DEF A!BySerialOrIndex
    <3>2. e.at = i /\ e.address = [form |-> "sn", text |-> A!At(aBus, i)]
      BY <3>1, <1>3
    <3>3. addr = A!Parsed({"sn", "index"}, "sn", e.address)
      BY <2>2
    <3> QED BY <1>2, <3>2, <3>3 DEF A!Parsed
  <2>6. A!WithSerial(aBus, A!At(aBus, i)) = {i}
    BY <1>1, <2>4, FoundAlone
  <2>7. A!SameSerial(A!At(aBus, i)) = {A!At(aBus, i)}
    BY <1>2, <2>4 DEF A!SameSerial
  <2>8. A!ChooseFreenect2(addr) = UNION {UNION {A!ByCamera(d) : d \in A!SameSerial(A!At(aBus, j))} : j \in {i}}
    BY <2>5, <2>6 DEF A!ChooseFreenect2
  <2>9. A!ChooseFreenect2(addr) = A!ByCamera(A!At(aBus, i))
    BY <2>7, <2>8
  <2> QED BY <1>5, <2>1, <2>2, <2>3, <2>9
<1>10. CASE aMaker = "realsense"
  <2>1. A!Listed = aBus /\ e \in A!AnnounceRealSense(i)
    <3>1. e \in A!AnnounceRealSense(i)
      BY <1>10, Zenon DEF A!Announce
    <3> QED BY <1>10, <3>1, ListedHolds DEF AInv
  <2>2. \A a : A!Parse(a) = A!Parsed({"sn", "index"}, "sn", a) /\ A!Choose(a) = A!ChooseRealSense(a)
    BY <1>10, Zenon DEF A!Parse, A!Choose, A!ParseRealSense
  <2>3. e.at = i
    BY <1>3, <2>1 DEF A!AnnounceRealSense
  <2>4. aLabel[A!At(aBus, i)] = "serial"
    BY <1>1, <1>2, <1>10, <2>1, <2>3 DEF A!Labels
  <2>5. addr = [kind |-> "sn", text |-> A!At(aBus, i)]
    <3>1. e \in A!Entry(i, "sn", A!At(aBus, i))
      BY <2>1, <2>4 DEF A!AnnounceRealSense
    <3>2. e.at = i /\ e.address = [form |-> "sn", text |-> A!At(aBus, i)]
      BY <3>1, <1>3
    <3>3. addr = A!Parsed({"sn", "index"}, "sn", e.address)
      BY <2>2
    <3> QED BY <1>2, <3>2, <3>3 DEF A!Parsed
  <2>6. A!WithSerial(aBus, A!At(aBus, i)) = {i}
    BY <1>1, <2>4, FoundAlone
  <2>7. A!ChooseRealSense(addr) =
          UNION {IF aLabel[A!At(aBus, j)] = "serial" THEN A!ByCamera(A!At(aBus, j)) ELSE A!ByChance : j \in {i}}
    BY <2>5, <2>6 DEF A!ChooseRealSense
  <2>8. A!ChooseRealSense(addr) = A!ByCamera(A!At(aBus, i))
    BY <2>4, <2>7
  <2> QED BY <1>5, <2>1, <2>2, <2>3, <2>8
<1>11. CASE aMaker = "orbbec"
  <2>1. A!Listed = aBus /\ e \in A!AnnounceOrbbec(i)
    <3>1. e \in A!AnnounceOrbbec(i)
      BY <1>11, Zenon DEF A!Announce
    <3> QED BY <1>11, <3>1, ListedHolds DEF AInv
  <2>2. \A a : A!Parse(a) = A!Parsed({"sn", "uid", "net"}, "sn", a) /\ A!Choose(a) = A!ChooseOrbbec(a)
    BY <1>11, Zenon DEF A!Parse, A!Choose, A!ParseOrbbec
  <2>3. e.at = i
    BY <1>3, <2>1 DEF A!AnnounceOrbbec
  <2>4. CASE aLabel[A!At(aBus, i)] = "network"
    <3>1. e \in A!Entry(i, "net", A!At(aBus, i))
      BY <2>1, <2>4, Zenon DEF A!AnnounceOrbbec
    <3>2. addr = [kind |-> "net", text |-> A!At(aBus, i)]
      <4>1. e \in A!Entry(i, "net", A!At(aBus, i))
        BY <3>1
      <4>2. e.at = i /\ e.address = [form |-> "net", text |-> A!At(aBus, i)]
        BY <4>1, <1>3
      <4>3. addr = A!Parsed({"sn", "uid", "net"}, "sn", e.address)
        BY <2>2
      <4> QED BY <1>2, <4>2, <4>3 DEF A!Parsed
    <3>3. A!ChooseOrbbec(addr) = A!ByCamera(A!At(aBus, i))
      BY <3>2 DEF A!ChooseOrbbec
    <3> QED BY <1>5, <2>1, <2>2, <2>3, <3>3
  <2>5. CASE aLabel[A!At(aBus, i)] = "serial"
    <3>1. e \in A!Entry(i, "sn", A!At(aBus, i))
      BY <2>1, <2>5, Zenon DEF A!AnnounceOrbbec
    <3>2. addr = [kind |-> "sn", text |-> A!At(aBus, i)]
      <4>1. e \in A!Entry(i, "sn", A!At(aBus, i))
        BY <3>1
      <4>2. e.at = i /\ e.address = [form |-> "sn", text |-> A!At(aBus, i)]
        BY <4>1, <1>3
      <4>3. addr = A!Parsed({"sn", "uid", "net"}, "sn", e.address)
        BY <2>2
      <4> QED BY <1>2, <4>2, <4>3 DEF A!Parsed
    <3>3. A!WithSerial(aBus, A!At(aBus, i)) = {i}
      BY <1>1, <2>5, FoundAlone
    <3>4. A!ChooseOrbbec(addr) = UNION {A!ByCamera(A!At(aBus, j)) : j \in A!WithSerial(aBus, addr.text)}
      <4>1. addr.kind = "sn"
        BY <3>2
      <4> QED BY <4>1, Zenon DEF A!ChooseOrbbec
    <3>5. A!ChooseOrbbec(addr) = A!ByCamera(A!At(aBus, i))
      BY <3>2, <3>3, <3>4
    <3> QED BY <1>5, <2>1, <2>2, <2>3, <3>5
  <2>6. CASE aLabel[A!At(aBus, i)] = "anonymous"
    <3>1. e \in A!Entry(i, "uid", A!At(aBus, i))
      BY <2>1, <2>6, Zenon DEF A!AnnounceOrbbec
    <3>2. addr = [kind |-> "uid", text |-> A!At(aBus, i)]
      <4>1. e \in A!Entry(i, "uid", A!At(aBus, i))
        BY <3>1
      <4>2. e.at = i /\ e.address = [form |-> "uid", text |-> A!At(aBus, i)]
        BY <4>1, <1>3
      <4>3. addr = A!Parsed({"sn", "uid", "net"}, "sn", e.address)
        BY <2>2
      <4> QED BY <1>2, <4>2, <4>3 DEF A!Parsed
    <3>3. A!WithIdentity(aBus, A!At(aBus, i)) = {i}
      BY <1>1, FoundAlone
    <3>4. A!ChooseOrbbec(addr) = UNION {A!ByCamera(A!At(aBus, j)) : j \in A!WithIdentity(aBus, addr.text)}
      <4>1. addr.kind = "uid"
        BY <3>2
      <4> QED BY <4>1, Zenon DEF A!ChooseOrbbec
    <3>5. A!ChooseOrbbec(addr) = A!ByCamera(A!At(aBus, i))
      BY <3>2, <3>3, <3>4
    <3> QED BY <1>5, <2>1, <2>2, <2>3, <3>5
  <2>7. aLabel[A!At(aBus, i)] \in {"serial", "anonymous", "network"}
    BY <1>1, <1>2 DEF A!Labels
  <2> QED BY <2>4, <2>5, <2>6, <2>7
<1>12. CASE aMaker = "depthai"
  <2>1. A!Listed = aBus /\ e \in A!Entry(i, "id", A!At(aBus, i))
    <3>1. e \in A!AnnounceDepthAI(i)
      BY <1>12, Zenon DEF A!Announce
    <3> QED BY <1>12, <3>1, ListedHolds DEF AInv, A!AnnounceDepthAI
  <2>2. \A a : A!Parse(a) = A!Parsed({"id", "name", "index"}, "id", a) /\ A!Choose(a) = A!ChooseDepthAI(a)
    BY <1>12, Zenon DEF A!Parse, A!Choose, A!ParseDepthAI
  <2>3. e.at = i /\ addr = [kind |-> "id", text |-> A!At(aBus, i)]
    <3>1. e \in A!Entry(i, "id", A!At(aBus, i))
      BY <2>1
    <3>2. e.at = i /\ e.address = [form |-> "id", text |-> A!At(aBus, i)]
      BY <3>1, <1>3
    <3>3. addr = A!Parsed({"id", "name", "index"}, "id", e.address)
      BY <2>2
    <3> QED BY <1>2, <3>2, <3>3 DEF A!Parsed
  <2>4. A!ChooseDepthAI(addr) = A!ByCamera(A!At(aBus, i))
    BY <2>3 DEF A!ChooseDepthAI
  <2> QED BY <1>5, <2>1, <2>2, <2>3, <2>4
<1>13. CASE aMaker = "oak"
  <2>1. A!Listed = aBus /\ e \in A!Entry(i, "id", A!At(aBus, i))
    <3>1. e \in A!AnnounceOak(i)
      BY <1>13, Zenon DEF A!Announce
    <3> QED BY <1>13, <3>1, ListedHolds DEF AInv, A!AnnounceOak
  <2>2. \A a : A!Parse(a) = A!Parsed({"id", "sn", "index"}, "sn", a) /\ A!Choose(a) = A!ChooseOak(a)
    BY <1>13, Zenon DEF A!Parse, A!Choose, A!ParseOak
  <2>3. e.at = i /\ addr = [kind |-> "id", text |-> A!At(aBus, i)]
    <3>1. e \in A!Entry(i, "id", A!At(aBus, i))
      BY <2>1
    <3>2. e.at = i /\ e.address = [form |-> "id", text |-> A!At(aBus, i)]
      BY <3>1, <1>3
    <3>3. addr = A!Parsed({"id", "sn", "index"}, "sn", e.address)
      BY <2>2
    <3> QED BY <1>2, <3>2, <3>3 DEF A!Parsed
  <2>4. A!WithIdentity(aBus, A!At(aBus, i)) = {i}
    BY <1>1, FoundAlone
  <2>5. A!ChooseOak(addr) = UNION {A!ByCamera(A!At(aBus, j)) : j \in A!WithIdentity(aBus, addr.text)}
    <3>1. addr.kind = "id"
      BY <2>3
    <3> QED BY <3>1, Zenon DEF A!ChooseOak
  <2>6. A!ChooseOak(addr) = A!ByCamera(A!At(aBus, i))
    BY <2>3, <2>4, <2>5
  <2> QED BY <1>5, <2>1, <2>2, <2>3, <2>6
<1> QED
  BY <1>1, <1>7, <1>8, <1>9, <1>10, <1>11, <1>12, <1>13 DEF A!Maker

(* What TrueListing and AnnouncedIsFound say of the positions, they say of *)
(* the listing.                                                            *)
LEMMA AInvGivesFound ==
  ASSUME CamerasDiffer, AInv, A!OpensWhatItFound
  PROVE  A!CamerasAreFound
<1>1. A!AnnouncedIsFound
  <2> SUFFICES ASSUME ~aDrifted, NEW e \in A!Listing, A!At(A!Listed, e.at) \notin A!Held,
                      ~(aMaker \in {"freenect2", "realsense"}
                          /\ aLabel[A!At(A!Listed, e.at)] = "anonymous")
               PROVE  {A!Opened(choice) : choice \in A!Choose(A!Parse(e.address))}
                        = {{A!At(A!Listed, e.at)}}
    BY DEF A!AnnouncedIsFound
  <2>1. PICK i \in A!Places(aBus) : e \in A!Announce(i)
    BY DEF A!Listing
  <2>2. PICK choice : /\ A!Choose(A!Parse(e.address)) = {choice}
                      /\ A!Opened(choice) = {A!At(A!Listed, e.at)}
    BY <2>1, AnnouncementLeads
  <2> QED BY <2>2
<1>2. A!ListingIsTrue
  <2> SUFFICES ASSUME aMaker = "k4a", ~aDrifted
               PROVE  A!Listing = UNION {A!BySerialOrIndex(aBus, i) : i \in A!Places(aBus)}
    BY DEF A!ListingIsTrue
  <2>1. \A i \in A!Places(aBus) : A!Announce(i) = A!BySerialOrIndex(aBus, i)
    BY AInvGivesTrueListing
  <2> QED BY <2>1 DEF A!Listing
<1> QED BY <1>1, <1>2 DEF A!CamerasAreFound

(* One step per action.                                                    *)
LEMMA AInductive ==
  ASSUME CamerasDiffer, AInv, A!OpensWhatItFound, A!Next
  PROVE  AInv' /\ A!OpensWhatItFound'
<1>1. AOpeningInv' /\ A!OpensWhatItFound'
  BY AddressStepKeepsInv DEF AInv, ABusInv
<1>2. CASE A!Plug
  <2>1. PICK c \in Camera \ A!Plugged, i \in 1..(Len(aBus) + 1) : A!Rearrange(A!InsertAt(aBus, i, c))
    BY <1>2 DEF A!Plug
  <2>2. A!InsertAt(aBus, i, c) \in Seq(Camera) /\ A!IsInjective(A!InsertAt(aBus, i, c))
    BY <2>1, BusStaysInjective DEF AInv, ABusInv, A!Plugged
  <2> QED BY <1>1, <2>1, <2>2, ARearrangeStep DEF AInv
<1>3. CASE A!Unplug
  <2>1. PICK i \in 1..Len(aBus) : A!Rearrange(A!RemoveAt(aBus, i))
    BY <1>3 DEF A!Unplug
  <2>2. A!RemoveAt(aBus, i) \in Seq(Camera) /\ A!IsInjective(A!RemoveAt(aBus, i))
    BY <2>1, BusStaysInjective DEF AInv, ABusInv
  <2> QED BY <1>1, <2>1, <2>2, ARearrangeStep DEF AInv
<1>4. CASE A!Relabel
  BY <1>1, <1>4, ARelabelStep DEF AInv
<1>5. CASE \E a \in A!Address : A!Resolve(a)
  BY <1>1, <1>5, AResolveStep DEF AInv
<1>6. CASE A!Take
  BY <1>1, <1>6, ATakeStep DEF AInv
<1>7. CASE A!Fail
  BY <1>1, <1>7, AFailStep DEF AInv
<1>8. CASE A!Close
  BY <1>1, <1>8, ACloseStep DEF AInv
<1> QED BY <1>2, <1>3, <1>4, <1>5, <1>6, <1>7, <1>8 DEF A!Next

(* Where no address is in question nothing of it changes.                  *)
LEMMA OthersMove ==
  ASSUME [Next]_vars
  PROVE  /\ AddressStep \/ UNCHANGED <<which, avars>>
         /\ ValueStep \/ UNCHANGED <<which, vvars>>
  BY DEF Next, vars, K4AStep, FreenectStep, Freenect2Step, DepthAIStep, OrbbecStep,
         RealSenseStep, OakStep, AddressStep, ValueStep

(* And what was true stays.                                                *)
LEMMA AUnnoticed ==
  ASSUME AInv, A!OpensWhatItFound, UNCHANGED avars
  PROVE  AInv' /\ A!OpensWhatItFound'
<1>1. UNCHANGED <<aMaker, aLabel, aBus, aOpen, aTable, aOpening, aDrifted>>
  BY DEF avars
<1>2. AOpeningInv'
  BY <1>1, OpeningStays DEF AInv
<1>3. ABusInv' /\ AOpenInv' /\ ATableInv' /\ AChoiceInv'
  BY <1>1, ATableStays DEF AInv, ABusInv, AOpenInv, AChoiceInv, A!Idle, A!Maker, A!Labels
<1>4. A!OpensWhatItFound'
  BY <1>1 DEF A!OpensWhatItFound
<1> QED BY <1>2, <1>3, <1>4 DEF AInv

(* The invariant of the addresses, and that nothing falls back.            *)
LEMMA AddressesInvariant ==
  ASSUME CamerasDiffer
  PROVE  Spec => [](which = "addresses" => AInv /\ A!OpensWhatItFound)
<1> DEFINE Inv == which = "addresses" => AInv /\ A!OpensWhatItFound
<1>1. Init => Inv
  BY AInitially DEF Init, A!Init, A!OpensWhatItFound
<1>2. Inv /\ [Next]_vars => Inv'
  <2> SUFFICES ASSUME which = "addresses" => AInv /\ A!OpensWhatItFound,
                      [Next]_vars, which' = "addresses"
               PROVE  AInv' /\ A!OpensWhatItFound'
    OBVIOUS
  <2>1. CASE AddressStep
    BY <2>1, AInductive DEF AddressStep
  <2>2. CASE UNCHANGED <<which, avars>>
    BY <2>2, AUnnoticed
  <2> QED BY <2>1, <2>2, OthersMove
<1> QED BY <1>1, <1>2, PTL DEF Spec

\* However many cameras there are, and however often they are plugged in and
\* out, opened and closed: each is listed under an address that leads to it and
\* to no other; and so is every Azure Kinect, those that are open included, while
\* they stay where they are and no open failed late, for which the code has no
\* remedy.  The exceptions of AnnouncedIsFound and OpensWhatItFound are in it.
THEOREM EveryCameraIsFound ==
  ASSUME CamerasDiffer
  PROVE  Spec => []CamerasAreFound
<1>1. (which = "addresses" => AInv /\ A!OpensWhatItFound) => CamerasAreFound
  BY AInvGivesFound DEF CamerasAreFound
<1> QED BY <1>1, AddressesInvariant, PTL

-----------------------------------------------------------------------------
(***************************************************************************)
(* A number survives the way to the camera and back.                       *)
(*                                                                         *)
(* What a backend publishes of a setting first: a whole number where the   *)
(* setting has whole values, a menu with an entry for each of them.  Then  *)
(* the conversions: what a node shows of a value is read back as that      *)
(* value, and each backend passes it on as it is.  The invariant relates   *)
(* what the camera has, what the node shows and what was written.          *)
(***************************************************************************)

\* Names are no numbers, and there are as many as the longest menu has entries.
NamesDiffer ==
  /\ \E n \in [{0, 2, 4} -> Label] : V!IsInjective(n)
  /\ Label \cap V!Numbers = {} /\ None \notin Label \cup V!Numbers

VWhole(S) == \A v \in S : V!Whole(v)

\* What an SDK says of a setting.
VSetting(o) ==
  /\ o.lo \in {-2, 0, 2} /\ o.hi \in {2, 4} /\ o.lo <= o.hi
  /\ o.read \in BOOLEAN /\ o.write \in BOOLEAN /\ o.auto \in BOOLEAN /\ o.ranged \in BOOLEAN
  /\ DOMAIN o.names \subseteq {v \in o.lo..o.hi : V!Whole(v)}
  /\ \A v \in DOMAIN o.names : o.names[v] \in Label
  /\ \A v, w \in DOMAIN o.names : o.names[v] = o.names[w] => v = w

VPublished(o, d) ==
  /\ d.read = o.read /\ d.write = o.write
  /\ d.kind \in {"BOOL", "FLOAT", "INT", "ENUM", "ACTION"}
  /\ d.kind = "BOOL" => V!Legal(o) = {0, 2}
  /\ d.kind = "INT" => VWhole(V!Legal(o))
  /\ d.kind = "ENUM" =>
       /\ d.lo = o.lo /\ d.step = 2 /\ d.labels = V!Labels(o, 2)
       /\ V!Legal(o) = {v \in o.lo..o.hi : V!Whole(v)}
  /\ d.kind = "ACTION" => ~d.read
  /\ V!Legal(o) \subseteq V!Numbers

(* A menu gives different names to different values.                       *)
LEMMA VNames ==
  ASSUME NamesDiffer, NEW n \in V!Names \cup {<<>>}
  PROVE  /\ DOMAIN n \subseteq {0, 2, 4}
         /\ \A v \in DOMAIN n : n[v] \in Label
         /\ \A v, w \in DOMAIN n : n[v] = n[w] => v = w
<1>1. V!NameOf \in [{0, 2, 4} -> Label] /\ V!IsInjective(V!NameOf)
  BY DEF NamesDiffer, V!NameOf, V!One
<1>2. CASE n = <<>>
  BY <1>2
<1>3. CASE n \in V!Names
  <2>1. PICK S \in SUBSET {0, 2, 4} : n = [x \in S |-> V!NameOf[x]]
    BY <1>1, <1>3 DEF V!Names, V!Restrict
  <2> QED BY <1>1, <2>1 DEF V!IsInjective
<1> QED BY <1>2, <1>3

(* What the model lets an SDK say, it says of a setting.                   *)
LEMMA VSettingsTyped ==
  ASSUME NamesDiffer, NEW types, NEW steps, NEW names \in SUBSET (V!Names \cup {<<>>}),
         NEW o \in V!Settings(types, steps, names)
  PROVE  VSetting(o) /\ o.type \in types /\ o.step \in steps /\ o.names \in names
<1>1. /\ o \in [type : types, lo : {-2, 0, 2}, hi : {2, 4}, step : steps,
               names : names, read : BOOLEAN, write : BOOLEAN, auto : BOOLEAN,
               ranged : BOOLEAN]
      /\ o.lo <= o.hi /\ \A v \in DOMAIN o.names : v \in o.lo..o.hi
  BY DEF V!Settings, V!One
<1>2. o.names \in V!Names \cup {<<>>}
  BY <1>1
<1>3. /\ DOMAIN o.names \subseteq {0, 2, 4}
      /\ \A v \in DOMAIN o.names : o.names[v] \in Label
      /\ \A v, w \in DOMAIN o.names : o.names[v] = o.names[w] => v = w
  BY <1>2, VNames
<1>4. \A v \in {0, 2, 4} : v % 2 = 0
  OBVIOUS
<1> QED BY <1>1, <1>3, <1>4 DEF VSetting, V!Whole, V!One

(* A descriptor has what it is made of.                                    *)
LEMMA VDesc ==
  ASSUME NEW kind, NEW o, NEW lo, NEW hi, NEW step, NEW labels, NEW d \in V!Descriptor(kind, o, lo, hi, step, labels)
  PROVE  /\ d.kind = kind /\ d.read = o.read /\ d.write = o.write
         /\ d.lo = lo /\ d.step = step /\ d.labels = labels
BY DEF V!Descriptor

(* A setting that is no menu has no names.                                 *)
LEMMA VPlain == V!Names \subseteq V!Names \cup {<<>>} /\ {<<>>} \subseteq V!Names \cup {<<>>}
OBVIOUS

(* Which values a setting may have, by its type.                           *)
LEMMA VLegal ==
  ASSUME NEW o, VSetting(o)
  PROVE  /\ o.type = "bool" => V!Legal(o) = {0, 2}
         /\ o.type = "enum" => V!Legal(o) = DOMAIN o.names
         /\ o.type = "float" /\ o.step < 2 => V!Legal(o) = o.lo .. o.hi
         /\ o.type \notin {"bool", "enum"} /\ ~(o.type = "float" /\ o.step < 2)
              => V!Legal(o) = {v \in o.lo..o.hi : V!Whole(v)}
         /\ V!Legal(o) \subseteq V!Numbers
<1>1. /\ o.type = "bool" => V!Legal(o) = {0, 2}
      /\ o.type = "enum" => V!Legal(o) = DOMAIN o.names
      /\ o.type = "float" /\ o.step < 2 => V!Legal(o) = o.lo .. o.hi
      /\ o.type \notin {"bool", "enum"} /\ ~(o.type = "float" /\ o.step < 2)
           => V!Legal(o) = {v \in o.lo..o.hi : V!Whole(v)}
  BY DEF V!Legal, V!One
<1>2. /\ o.lo .. o.hi \subseteq V!Numbers /\ {0, 2} \subseteq V!Numbers
      /\ {v \in o.lo..o.hi : V!Whole(v)} \subseteq o.lo..o.hi
  BY DEF VSetting, V!Numbers, V!One
<1>3. DOMAIN o.names \subseteq V!Numbers
  BY <1>2 DEF VSetting
<1>4. V!Legal(o) \subseteq V!Numbers
  <2>1. CASE o.type = "bool"
    BY <1>1, <1>2, <2>1
  <2>2. CASE o.type = "enum"
    BY <1>1, <1>3, <2>2
  <2>3. CASE o.type = "float" /\ o.step < 2
    BY <1>1, <1>2, <2>3
  <2>4. CASE o.type \notin {"bool", "enum"} /\ ~(o.type = "float" /\ o.step < 2)
    <3>1. V!Legal(o) = {v \in o.lo..o.hi : V!Whole(v)}
      BY <1>1, <2>4
    <3> QED BY <1>2, <3>1
  <2> QED BY <2>1, <2>2, <2>3, <2>4
<1> QED BY <1>1, <1>4

(* Published as a number: a whole one where the values are.                *)
LEMMA PublishedNumber ==
  ASSUME NEW o, VSetting(o), NEW lo, NEW hi, NEW s, NEW d,
         \/ d \in V!Descriptor("FLOAT", o, lo, hi, s, <<>>)
         \/ /\ d \in V!Descriptor("INT", o, lo, hi, s, <<>>)
            /\ o.type \in {"int", "uint", "enum"} \/ (o.type = "float" /\ o.step = 2)
  PROVE  VPublished(o, d)
<1>1. V!Legal(o) \subseteq V!Numbers
  BY VLegal
<1>2. CASE d \in V!Descriptor("FLOAT", o, lo, hi, s, <<>>)
  BY <1>1, <1>2, VDesc DEF VPublished
<1>3. CASE /\ d \in V!Descriptor("INT", o, lo, hi, s, <<>>)
           /\ o.type \in {"int", "uint", "enum"} \/ (o.type = "float" /\ o.step = 2)
  <2>1. VWhole(V!Legal(o))
    <3>1. CASE o.type = "enum"
      BY <3>1, VLegal DEF VWhole, VSetting
    <3>2. CASE o.type \in {"int", "uint"} \/ (o.type = "float" /\ o.step = 2)
      <4>1. V!Legal(o) = {v \in o.lo..o.hi : V!Whole(v)}
        BY <3>2 DEF V!Legal, V!One
      <4> QED BY <4>1 DEF VWhole
    <3> QED BY <1>3, <3>1, <3>2
  <2> QED BY <1>1, <1>3, <2>1, VDesc DEF VPublished
<1> QED BY <1>2, <1>3

(* Published as a switch, or as an action that is not read.                *)
LEMMA PublishedSwitch ==
  ASSUME NEW o, VSetting(o), NEW d,
         \/ V!Legal(o) = {0, 2} /\ d \in V!BoolControl(o)
         \/ ~o.read /\ d \in V!Descriptor("ACTION", o, 0, 2, 2, <<>>)
  PROVE  VPublished(o, d)
<1>1. V!Legal(o) \subseteq V!Numbers
  BY VLegal
<1> QED BY <1>1, VDesc DEF VPublished, V!BoolControl

(* Published as a menu: its entries are all the values there are.          *)
LEMMA PublishedMenu ==
  ASSUME NEW o, VSetting(o), NEW d, V!Legal(o) = {v \in o.lo..o.hi : V!Whole(v)},
         d \in V!Descriptor("ENUM", o, o.lo, o.hi, 2, V!Labels(o, 2))
  PROVE  VPublished(o, d)
<1>1. V!Legal(o) \subseteq V!Numbers
  BY VLegal
<1> QED BY <1>1, VDesc DEF VPublished

(* The Azure Kinect.                                                       *)
LEMMA PublishedK4A ==
  ASSUME NamesDiffer, NEW o \in V!SettingsOf("k4a"), NEW d \in V!Describe("k4a", o)
  PROVE  VSetting(o) /\ VPublished(o, d)
<1>1. /\ o \in V!Settings({"int", "float"}, {0, 2}, {<<>>})
      /\ V!Fixed(o) /\ (o.type = "int" <=> o.write)
      /\ o.type = "float" => ~o.auto /\ o.step = 0
  BY DEF V!SettingsOf, V!One
<1>2. VSetting(o) /\ o.type \in {"int", "float"} /\ o.step \in {0, 2}
  BY <1>1, VSettingsTyped, VPlain
<1>3. d \in V!DescribeK4A(o)
  BY DEF V!Describe
<1>4. CASE o.type = "float"
  BY <1>2, <1>3, <1>4, PublishedNumber DEF V!DescribeK4A, V!Number
<1>5. CASE o.type = "int"
  <2>1. PICK s : d \in V!Descriptor("INT", o, o.lo, o.hi, s, <<>>)
    BY <1>3, <1>5 DEF V!DescribeK4A, V!Number, V!Unpublished
  <2> QED BY <1>2, <1>5, <2>1, PublishedNumber
<1> QED BY <1>2, <1>4, <1>5

(* The Kinect v1.                                                          *)
LEMMA PublishedFreenect ==
  ASSUME NamesDiffer, NEW o \in V!SettingsOf("freenect"), V!Plausible("freenect", o),
         NEW d \in V!Describe("freenect", o)
  PROVE  VSetting(o) /\ VPublished(o, d)
<1>1. /\ o \in V!Settings({"int", "enum", "float"}, {0, 2}, V!Names)
      /\ o.type = "float" <=> o.step = 0
  BY DEF V!SettingsOf, V!One
<1>2. VSetting(o) /\ o.type \in {"int", "enum", "float"} /\ o.step \in {0, 2}
  BY <1>1, VSettingsTyped, VPlain
<1>3. d \in V!DescribeFreenect(o)
  BY DEF V!Describe
<1>4. CASE o.type \in {"int", "float"}
  BY <1>2, <1>3, <1>4, PublishedNumber DEF V!DescribeFreenect, V!Number
<1>6. CASE o.type = "enum"
  <2>1. d \in V!Descriptor("ENUM", o, o.lo, o.hi, o.step, V!Labels(o, o.step))
    BY <1>3, <1>6 DEF V!DescribeFreenect
  <2>2. DOMAIN o.names = {v \in o.lo..o.hi : V!Whole(v)}
    BY <1>6 DEF V!Plausible
  <2>3. V!Legal(o) = {v \in o.lo..o.hi : V!Whole(v)} /\ o.step = 2
    BY <1>1, <1>2, <1>6, <2>2, VLegal
  <2> QED BY <1>2, <2>1, <2>3, PublishedMenu
<1> QED BY <1>2, <1>4, <1>6

(* The Kinect v2.                                                          *)
LEMMA PublishedFreenect2 ==
  ASSUME NamesDiffer, NEW o \in V!SettingsOf("freenect2"), V!Plausible("freenect2", o),
         NEW d \in V!Describe("freenect2", o)
  PROVE  VSetting(o) /\ VPublished(o, d)
<1>1. /\ o \in V!Settings({"enum", "float"}, {0, 2}, V!Names)
      /\ o.type = "float" <=> o.step = 0
  BY DEF V!SettingsOf, V!One
<1>2. VSetting(o) /\ o.type \in {"enum", "float"} /\ o.step \in {0, 2}
  BY <1>1, VSettingsTyped, VPlain
<1>3. d \in V!DescribeFreenect2(o)
  BY DEF V!Describe
<1>4. CASE o.type = "float"
  BY <1>2, <1>3, <1>4, PublishedNumber DEF V!DescribeFreenect2, V!Number
<1>6. CASE o.type = "enum"
  <2>1. d \in V!Descriptor("ENUM", o, o.lo, o.hi, o.step, V!Labels(o, o.step))
    BY <1>3, <1>6 DEF V!DescribeFreenect2
  <2>2. DOMAIN o.names = {v \in o.lo..o.hi : V!Whole(v)}
    BY <1>6 DEF V!Plausible
  <2>3. V!Legal(o) = {v \in o.lo..o.hi : V!Whole(v)} /\ o.step = 2
    BY <1>1, <1>2, <1>6, <2>2, VLegal
  <2> QED BY <1>2, <2>1, <2>3, PublishedMenu
<1> QED BY <1>2, <1>4, <1>6

(* RealSense, whose menus have an entry for every value.                   *)
LEMMA PublishedRealSense ==
  ASSUME NamesDiffer, NEW o \in V!SettingsOf("realsense"), NEW d \in V!Describe("realsense", o)
  PROVE  VSetting(o) /\ VPublished(o, d)
<1>1. o \in V!Settings({"float"}, {1, 2}, V!Names)
  BY DEF V!SettingsOf, V!One
<1>2. VSetting(o) /\ o.type = "float" /\ o.step \in {1, 2}
  BY <1>1, VSettingsTyped, VPlain
<1>3. d \in V!DescribeRealSense(o)
  BY DEF V!Describe
<1>4. o.lo % 2 = 0 /\ o.hi % 2 = 0
  BY <1>2 DEF VSetting
<1>5. CASE o.step = 1
  BY <1>2, <1>3, <1>5, PublishedNumber DEF V!DescribeRealSense, V!Number, V!One
<1>6. CASE o.step = 2
  <2>1. V!Legal(o) = {v \in o.lo..o.hi : V!Whole(v)}
    BY <1>2, <1>6, VLegal
  <2>2. CASE o.lo = 0 /\ o.hi = 2
    <3>1. d \in V!BoolControl(o)
      BY <1>3, <1>6, <2>2 DEF V!DescribeRealSense, V!One, V!Whole
    <3>2. V!Legal(o) = {0, 2}
      BY <2>1, <2>2 DEF V!Whole, V!One
    <3> QED BY <1>2, <3>1, <3>2, PublishedSwitch
  <2>3. CASE ~(o.lo = 0 /\ o.hi = 2) /\ o.names = <<>>
    <3>1. d \in V!Descriptor("INT", o, o.lo, o.hi, o.step, <<>>)
      BY <1>3, <1>4, <1>6, <2>3 DEF V!DescribeRealSense, V!Number, V!One, V!Whole
    <3> QED BY <1>2, <1>6, <3>1, PublishedNumber
  <2>4. CASE ~(o.lo = 0 /\ o.hi = 2) /\ o.names # <<>>
    <3>1. d \in V!Descriptor("ENUM", o, o.lo, o.hi, o.step, V!Labels(o, o.step))
      BY <1>3, <1>4, <1>6, <2>4 DEF V!DescribeRealSense, V!One, V!Whole
    <3> QED BY <1>2, <1>6, <2>1, <3>1, PublishedMenu
  <2> QED BY <2>2, <2>3, <2>4
<1> QED BY <1>2, <1>5, <1>6

(* Orbbec, where integers may have names.                                  *)
LEMMA PublishedOrbbec ==
  ASSUME NamesDiffer, NEW o \in V!SettingsOf("orbbec"), NEW d \in V!Describe("orbbec", o)
  PROVE  VSetting(o) /\ VPublished(o, d) /\ o.type # "struct"
<1>1. o \in V!Settings({"bool", "int", "float", "struct"}, {0, 2}, V!Names)
  BY DEF V!SettingsOf, V!One
<1>2. VSetting(o) /\ o.type \in {"bool", "int", "float", "struct"}
  BY <1>1, VSettingsTyped, VPlain
<1>3. d \in V!DescribeOrbbec(o) /\ o.type # "struct"
  BY DEF V!Describe, V!DescribeOrbbec, V!Unpublished
<1>4. CASE o.type = "bool"
  BY <1>2, <1>3, <1>4, PublishedSwitch, VLegal DEF V!DescribeOrbbec, V!Unpublished, V!One
<1>5. CASE o.type = "float"
  BY <1>2, <1>3, <1>5, PublishedNumber DEF V!DescribeOrbbec, V!Unpublished, V!Number
<1>6. CASE o.type = "int" /\ o.names = <<>>
  BY <1>2, <1>3, <1>6, PublishedNumber DEF V!DescribeOrbbec, V!Unpublished, V!Number
<1>7. CASE o.type = "int" /\ o.names # <<>>
  <2>1. d \in V!Descriptor("ENUM", o, o.lo, o.hi, 2, V!Labels(o, 2))
    BY <1>3, <1>7 DEF V!DescribeOrbbec, V!Unpublished, V!One
  <2>2. V!Legal(o) = {v \in o.lo..o.hi : V!Whole(v)}
    BY <1>2, <1>7, VLegal
  <2> QED BY <1>2, <1>3, <2>1, <2>2, PublishedMenu
<1> QED BY <1>2, <1>3, <1>4, <1>5, <1>6, <1>7

(* DepthAI.                                                                *)
LEMMA PublishedDepthAI ==
  ASSUME NamesDiffer, NEW o \in V!SettingsOf("depthai"), NEW d \in V!Describe("depthai", o)
  PROVE  VSetting(o) /\ VPublished(o, d)
<1>1. o \in V!Settings({"bool", "int", "float"}, {0, 2}, {<<>>})
  BY DEF V!SettingsOf, V!One
<1>2. VSetting(o) /\ o.type \in {"bool", "int", "float"}
  BY <1>1, VSettingsTyped, VPlain
<1>3. d \in V!DescribeDepthAI(o)
  BY DEF V!Describe
<1>4. CASE o.type = "bool"
  BY <1>2, <1>3, <1>4, PublishedSwitch, VLegal DEF V!DescribeDepthAI
<1>5. CASE o.type \in {"int", "float"}
  BY <1>2, <1>3, <1>5, PublishedNumber DEF V!DescribeDepthAI, V!Number
<1> QED BY <1>2, <1>4, <1>5

(* Oak3DVision.                                                            *)
LEMMA PublishedOak ==
  ASSUME NamesDiffer, NEW o \in V!SettingsOf("oak"), NEW d \in V!Describe("oak", o)
  PROVE  VSetting(o) /\ VPublished(o, d)
<1>1. o \in V!Settings({"bool", "int", "uint", "float", "enum", "rate"}, {2}, V!Names)
  BY DEF V!SettingsOf, V!One
<1>2. VSetting(o) /\ o.type \in {"bool", "int", "uint", "float", "enum", "rate"}
  BY <1>1, VSettingsTyped, VPlain
<1>3. d \in V!DescribeOak(o) \/ (d \in V!ProbeOak(o) /\ o.read)
  <2>1. V!Describe("oak", o) = V!DescribeOak(o) \cup V!ProbeOak(o)
    BY DEF V!Describe
  <2>2. ~o.read => V!ProbeOak(o) = {}
    BY <1>2 DEF V!ProbeOak, V!Unpublished
  <2>3. d \in V!DescribeOak(o) \cup V!ProbeOak(o)
    BY ONLY <2>1, d \in V!Describe("oak", o)
  <2> QED BY <2>2, <2>3
<1>4. CASE o.type = "bool"
  BY <1>2, <1>3, <1>4, PublishedSwitch, VLegal DEF V!DescribeOak, V!ProbeOak
<1>5. CASE o.type \in {"float", "rate"}
  BY <1>2, <1>3, <1>5, PublishedNumber DEF V!DescribeOak, V!ProbeOak, V!Ranged
<1>6. CASE o.type \in {"int", "uint"}
  BY <1>2, <1>3, <1>6, PublishedNumber DEF V!DescribeOak, V!ProbeOak, V!Ranged
<1>7. CASE o.type = "enum"
  <2>1. CASE d \in V!ProbeOak(o) /\ o.read
    BY <1>2, <1>7, <2>1, PublishedNumber DEF V!ProbeOak
  <2>2. CASE d \in V!DescribeOak(o) /\ \A v \in o.lo..o.hi : V!Whole(v) => v \in DOMAIN o.names
    <3>1. d \in V!Descriptor("ENUM", o, o.lo, o.hi, 2, V!Labels(o, 2))
      BY <1>7, <2>2 DEF V!DescribeOak, V!One
    <3>2. V!Legal(o) = {v \in o.lo..o.hi : V!Whole(v)}
      BY <1>2, <1>7, <2>2, VLegal DEF VSetting
    <3> QED BY <1>2, <3>1, <3>2, PublishedMenu
  <2>3. CASE d \in V!DescribeOak(o) /\ ~(\A v \in o.lo..o.hi : V!Whole(v) => v \in DOMAIN o.names)
    BY <1>2, <1>7, <2>3, PublishedNumber DEF V!DescribeOak, V!Number
  <2> QED BY <1>3, <2>1, <2>2, <2>3
<1> QED BY <1>2, <1>4, <1>5, <1>6, <1>7

VForm(o, d, v) ==
  /\ v \in V!Numbers
  /\ d.kind = "BOOL" => v \in {0, 2}
  /\ d.kind = "INT" => V!Whole(v)
  /\ d.kind = "ENUM" => v \in o.lo..o.hi /\ V!Whole(v)
VFace(o, d, v) == IF d.kind = "ENUM" THEN V!Called(o, v) ELSE v

(* A whole number is not rounded.                                          *)
LEMMA VHalf ==
  \A x \in -10..10 : V!Whole(x) => V!Trunc(x) = x /\ V!Round(x) = x
BY DEF V!Whole, V!Trunc, V!Round, V!One

(* Nor is it truncated.                                                    *)
LEMMA VTrunc ==
  \A x \in V!Numbers : V!Trunc(x) \in V!Numbers /\ V!Whole(V!Trunc(x))
BY DEF V!Whole, V!Trunc, V!Numbers, V!One

(* A value of a menu has a name.                                           *)
LEMMA VCalled ==
  ASSUME NamesDiffer, NEW o, VSetting(o), NEW v \in V!Numbers, NEW w \in V!Numbers
  PROVE  /\ V!Called(o, v) \in Label \cup {v}
         /\ V!Called(o, v) = V!Called(o, w) => v = w
         /\ w = V!Called(o, v) => v = w
BY DEF NamesDiffer, VSetting, V!Called

\* The labels of a menu, in the order of their values.
LEMMA VLabels ==
  ASSUME NamesDiffer, NEW o, VSetting(o)
  PROVE  LET Menu == V!Labels(o, 2)
             Values == {v \in o.lo..o.hi : V!Whole(v)}
         IN  /\ Menu # <<>> /\ DOMAIN Menu = 1..Len(Menu) /\ Len(Menu) = (o.hi - o.lo) \div 2 + 1
             /\ \A i \in DOMAIN Menu : /\ o.lo + (i - 1) * 2 \in Values
                                       /\ Menu[i] = V!Called(o, o.lo + (i - 1) * 2)
             /\ \A v \in Values : \E i \in DOMAIN Menu : i = (v - o.lo) \div 2 + 1 /\ v = o.lo + (i - 1) * 2
<1> DEFINE n == (o.hi - o.lo) \div 2 + 1
           Menu == V!Labels(o, 2)
           Values == {v \in o.lo..o.hi : V!Whole(v)}
<1>1. o.lo \in {-2, 0, 2} /\ o.hi \in {2, 4} /\ o.lo <= o.hi
  BY DEF VSetting
<1>2. n \in 1..4 /\ o.lo + (n - 1) * 2 = o.hi
  BY <1>1
<1>3. Menu = [i \in 1..n |-> V!Called(o, o.lo + (i - 1) * 2)]
  BY DEF V!Labels
<1>4. DOMAIN Menu = 1..n /\ Len(Menu) = n /\ Menu # <<>>
  BY <1>2, <1>3
<1>5. ASSUME NEW i \in 1..n
      PROVE  o.lo + (i - 1) * 2 \in Values
  BY <1>1, <1>2 DEF V!Whole, V!One
<1> HIDE DEF n
<1>6. ASSUME NEW v \in Values
      PROVE  \E i \in 1..n : i = (v - o.lo) \div 2 + 1 /\ v = o.lo + (i - 1) * 2
  <2>1. \A x \in -2..4, y \in {-2, 0, 2} : x >= y /\ x % 2 = 0 => x = y + ((x - y) \div 2) * 2
    OBVIOUS
  <2>2. v \in -2..4 /\ v >= o.lo /\ v <= o.hi /\ v % 2 = 0
    BY <1>1 DEF V!Whole, V!One
  <2>3. PICK k \in Int : k = (v - o.lo) \div 2 /\ v = o.lo + k * 2
    BY <1>1, <2>1, <2>2
  <2>4. k + 1 \in 1..n
    <3>1. v = o.lo + k * 2 /\ v >= o.lo /\ v <= o.hi
      BY <2>2, <2>3
    <3>2. o.lo \in Int /\ o.hi \in Int /\ n \in Int /\ o.lo + (n - 1) * 2 = o.hi
      BY <1>1, <1>2
    <3> HIDE DEF Values
    <3> QED BY <3>1, <3>2
  <2>5. k + 1 = (v - o.lo) \div 2 + 1 /\ v = o.lo + ((k + 1) - 1) * 2
    BY <2>3
  <2> QED BY <2>4, <2>5
<1> HIDE DEF Menu, Values
<1>7. \A i \in DOMAIN Menu : Menu[i] = V!Called(o, o.lo + (i - 1) * 2)
  BY <1>3, <1>4
<1> QED BY <1>4, <1>5, <1>6, <1>7 DEF n, Menu, Values

(* The number of a label is that of its value. *)
LEMMA VRawOfLabel ==
  ASSUME NamesDiffer, NEW o, VSetting(o), NEW d, VPublished(o, d), d.kind = "ENUM",
         NEW v \in o.lo..o.hi, V!Whole(v)
  PROVE  V!Raw(d, V!Called(o, v)) = v
<1> DEFINE Menu == V!Labels(o, 2)
           Values == {x \in o.lo..o.hi : V!Whole(x)}
           I == {j \in 1..Len(Menu) : Menu[j] = V!Called(o, v)}
<1>1. /\ DOMAIN Menu = 1..Len(Menu)
      /\ \A i \in DOMAIN Menu : /\ o.lo + (i - 1) * 2 \in Values
                                /\ Menu[i] = V!Called(o, o.lo + (i - 1) * 2)
      /\ \E i \in DOMAIN Menu : v = o.lo + (i - 1) * 2
      /\ Len(Menu) \in Nat
  BY VLabels DEF VSetting
<1>2. d.lo = o.lo /\ d.step = 2 /\ d.labels = Menu
  BY DEF VPublished
<1>3. Values \subseteq V!Numbers /\ v \in V!Numbers /\ o.lo \in Int
  BY DEF VSetting, V!Numbers, V!One
<1> HIDE DEF Menu, Values
<1>4. PICK k \in DOMAIN Menu : v = o.lo + (k - 1) * 2
  BY <1>1
<1>5. \A i \in 1..Len(Menu) : Menu[i] = V!Called(o, v) => i = k
  <2> SUFFICES ASSUME NEW i \in 1..Len(Menu), Menu[i] = V!Called(o, v)  PROVE  i = k
    OBVIOUS
  <2>1. PICK x \in Values : x = o.lo + (i - 1) * 2 /\ Menu[i] = V!Called(o, x)
    BY <1>1
  <2>2. x = v
    BY <1>3, <2>1, VCalled
  <2> QED BY <1>1, <1>3, <1>4, <2>1, <2>2
<1>6. I = {k}
  BY <1>1, <1>4, <1>5
<1>7. V!SelectInSeq(Menu, LAMBDA l : l = V!Called(o, v)) = k
  BY <1>1, <1>6 DEF V!SelectInSeq, V!Min
<1>8. V!Raw(d, V!Called(o, v)) = o.lo + (k - 1) * 2
  BY <1>2, <1>7 DEF V!Raw, V!StepOf, V!One
<1> QED BY <1>4, <1>8

(* What is written to a node becomes a number that the node would show as *)
(* what was written. *)
LEMMA VWrittenIsShown ==
  ASSUME NamesDiffer, NEW o, VSetting(o), NEW d, VPublished(o, d),
         NEW w \in V!Written(d), d.kind # "ACTION"
  PROVE  /\ VForm(o, d, V!Raw(d, w)) /\ w = VFace(o, d, V!Raw(d, w))
         /\ w \in V!Numbers \cup Label
<1>1. CASE d.kind = "BOOL"
  BY <1>1 DEF V!Written, V!Raw, V!Switch, VForm, VFace, V!Numbers, V!One
<1>2. CASE d.kind = "FLOAT"
  BY <1>2 DEF V!Written, V!Raw, VForm, VFace, V!Numbers, V!One
<1>3. CASE d.kind = "INT"
  BY <1>3 DEF V!Written, V!Raw, VForm, VFace, V!Numbers, V!One
<1>4. CASE d.kind = "ENUM"
  <2> DEFINE Menu == V!Labels(o, 2)
  <2>1. d.labels = Menu
    BY <1>4 DEF VPublished
  <2>2. PICK i \in DOMAIN Menu : w = Menu[i]
    BY <1>4, <2>1 DEF V!Written, V!Range
  <2>3. PICK v : v \in o.lo..o.hi /\ V!Whole(v) /\ w = V!Called(o, v)
    BY <2>2, VLabels
  <2>4. V!Raw(d, w) = v
    BY <1>4, <2>3, VRawOfLabel
  <2>5. v \in V!Numbers
    BY <2>3 DEF VSetting, V!Numbers, V!One
  <2> QED BY <1>4, <2>3, <2>4, <2>5, VCalled DEF VForm, VFace
<1> QED BY <1>1, <1>2, <1>3, <1>4 DEF VPublished

(* What a node shows of a number of the setting's, and the number that it  *)
(* is read back as.                                                        *)
LEMMA VShownIsRead ==
  ASSUME NamesDiffer, NEW o, VSetting(o), NEW d, VPublished(o, d),
         NEW v, VForm(o, d, v), d.kind # "ACTION"
  PROVE  /\ V!Shown(d, v) = {VFace(o, d, v)} /\ V!Raw(d, VFace(o, d, v)) = v
         /\ VFace(o, d, v) \in V!Numbers \cup Label
<1>0. v \in V!Numbers /\ v \in -10..10
  BY DEF VForm, V!Numbers, V!One
<1>1. CASE d.kind = "BOOL"
  BY <1>0, <1>1 DEF V!Shown, V!Raw, V!Switch, VForm, VFace, V!One
<1>2. CASE d.kind = "FLOAT"
  BY <1>0, <1>2 DEF V!Shown, V!Raw, VForm, VFace
<1>3. CASE d.kind = "INT"
  BY <1>0, <1>3, VHalf DEF V!Shown, V!Raw, VForm, VFace
<1>4. CASE d.kind = "ENUM"
  <2> DEFINE Menu == V!Labels(o, 2)
  <2>1. d.labels = Menu /\ d.lo = o.lo /\ d.step = 2
    BY <1>4 DEF VPublished
  <2>2. v \in o.lo..o.hi /\ V!Whole(v)
    BY <1>4 DEF VForm
  <2>3. V!Raw(d, V!Called(o, v)) = v
    BY <1>4, <2>2, VRawOfLabel
  <2>4. PICK i \in DOMAIN Menu : /\ i = (v - o.lo) \div 2 + 1 /\ v = o.lo + (i - 1) * 2
                                 /\ Menu[i] = V!Called(o, v)
    BY <2>2, VLabels
  <2>5. V!EnumIndexOf(d, v) = i
    <3>1. \A x \in -2..4, y \in {-2, 0, 2} :
            x >= y /\ x % 2 = 0 =>
              ((x - y) * 2) \div 2 = x - y /\ V!Round(x - y) = x - y
      BY DEF V!Round, V!Trunc, V!One
    <3>2. v \in -2..4 /\ o.lo \in {-2, 0, 2} /\ v >= o.lo /\ v % 2 = 0
      BY <1>0, <2>2 DEF VSetting, V!Numbers, V!Whole, V!One
    <3>3. ((v - o.lo) * 2) \div 2 = v - o.lo /\ V!Round(v - o.lo) = v - o.lo
      BY <3>1, <3>2
    <3> QED BY <2>1, <2>4, <3>3 DEF V!EnumIndexOf, V!StepOf, V!One
  <2>6. V!LabelAt(d, v) = {V!Called(o, v)}
    BY <2>1, <2>4, <2>5 DEF V!LabelAt
  <2>7. V!Named(d)
    BY <1>4, <2>1, VLabels DEF V!Named
  <2>8. V!Trunc(v) = v
    BY <1>0, <2>2, VHalf
  <2> QED BY <1>0, <1>4, <2>3, <2>6, <2>7, <2>8, VCalled DEF V!Shown, VFace
<1> QED BY <1>1, <1>2, <1>3, <1>4 DEF VPublished

(* A new node shows a number, a name or nothing.                           *)
LEMMA VFirstShown ==
  ASSUME NamesDiffer, NEW o, VSetting(o), NEW d, VPublished(o, d),
         NEW v \in V!Numbers, NEW x \in V!FirstShown(d, v)
  PROVE  x \in V!Numbers \cup Label \cup {None}
<1>0. V!Trunc(v) \in V!Numbers
  BY VTrunc
<1>1. CASE d.kind = "BOOL"
  BY <1>1 DEF V!FirstShown, V!Named, V!Shown, V!Switch, V!Numbers, V!One
<1>2. CASE d.kind = "FLOAT"
  BY <1>2 DEF V!FirstShown, V!Named, V!Shown
<1>3. CASE d.kind = "INT"
  BY <1>0, <1>3 DEF V!FirstShown, V!Named, V!Shown
<1>4. CASE d.kind = "ENUM"
  <2> DEFINE Menu == V!Labels(o, 2)
  <2>1. d.labels = Menu /\ V!Named(d)
    BY <1>4, VLabels DEF VPublished, V!Named
  <2>2. x = None \/ x \in V!LabelAt(d, V!Trunc(v))
    BY <1>4, <2>1 DEF V!FirstShown, V!Shown
  <2>3. CASE x # None
    <3>1. PICK i \in DOMAIN Menu : x = Menu[i]
      BY <2>1, <2>2, <2>3 DEF V!LabelAt
    <3>2. PICK y : y \in o.lo..o.hi /\ V!Whole(y) /\ x = V!Called(o, y)
      BY <3>1, VLabels
    <3>3. y \in V!Numbers
      BY <3>2 DEF VSetting, V!Numbers, V!One
    <3> QED BY <3>2, <3>3, VCalled
  <2> QED BY <2>3
<1>5. CASE d.kind = "ACTION"
  BY <1>5 DEF V!FirstShown, V!Named
<1> QED BY <1>1, <1>2, <1>3, <1>4, <1>5 DEF VPublished

(* Every backend passes on, unchanged, a value that the setting may have.  *)
LEMMA VSent ==
  ASSUME NamesDiffer, vMaker \in V!Maker, NEW o \in V!SettingsOf(vMaker), VSetting(o),
         o.type # "struct", o.write, NEW v \in V!Legal(o)
  PROVE  V!Send(o, v) = v
<1>1. v \in V!Numbers /\ v \in -10..10
  BY VLegal DEF V!Numbers, V!One
<1>2. o.lo \in Int /\ o.hi \in Int /\ (o.type # "bool" => v \in o.lo..o.hi)
  <2>1. o.lo \in Int /\ o.hi \in Int
    BY DEF VSetting
  <2>2. CASE o.type = "enum"
    BY <2>1, <2>2, VLegal DEF VSetting
  <2>3. CASE o.type # "enum"
    BY <2>1, <2>3, VLegal
  <2> QED BY <2>1, <2>2, <2>3
<1>3. o.type = "enum" \/ o.type \in {"int", "uint", "rate"} => V!Whole(v)
  <2>1. CASE o.type = "enum"
    BY <2>1, VLegal DEF VSetting
  <2>2. CASE o.type \in {"int", "uint", "rate"}
    <3>1. V!Legal(o) = {x \in o.lo..o.hi : V!Whole(x)}
      BY <2>2, VLegal
    <3> QED BY <3>1
  <2> QED BY <2>1, <2>2
<1>4. o.type = "bool" => v \in {0, 2}
  BY VLegal
<1>5. V!Whole(v) => V!Trunc(v) = v /\ V!Round(v) = v
  BY <1>1, VHalf
<1>6. o.type # "bool" => V!Clamp(v, o.lo, o.hi) = v
  BY <1>1, <1>2 DEF V!Clamp
<1>7. o.type = "bool" => V!Switch(v) = v
  BY <1>4 DEF V!Switch, V!One
<1>8. CASE vMaker = "k4a"
  <2>1. o.type = "int"
    BY <1>8 DEF V!SettingsOf
  <2> QED BY <1>3, <1>5, <1>8, <2>1 DEF V!Send, V!SendK4A
<1>9. CASE vMaker = "freenect"
  <2>1. o.type \in {"int", "enum"}
    BY <1>9, VPlain, VSettingsTyped DEF V!SettingsOf
  <2> QED BY <1>3, <1>5, <1>6, <1>9, <2>1 DEF V!Send, V!SendFreenect
<1>10. CASE vMaker = "freenect2"
  BY <1>2, <1>3, <1>5, <1>10 DEF V!Send, V!SendFreenect2
<1>11. CASE vMaker = "realsense"
  BY <1>11 DEF V!Send, V!SendRealSense
<1>12. CASE vMaker = "orbbec"
  <2>1. o.type \in {"bool", "int", "float"}
    BY <1>12, VPlain, VSettingsTyped DEF V!SettingsOf
  <2> QED BY <1>3, <1>5, <1>7, <1>12, <2>1 DEF V!Send, V!SendOrbbec
<1>13. CASE vMaker = "depthai"
  <2>1. o.type \in {"bool", "int", "float"}
    BY <1>13, VPlain, VSettingsTyped DEF V!SettingsOf
  <2> QED BY <1>3, <1>5, <1>6, <1>7, <1>13, <2>1 DEF V!Send, V!SendDepthAI
<1>14. CASE vMaker = "oak"
  <2>1. /\ o.type \in {"bool", "int", "uint", "float", "enum", "rate"}
        /\ o.type = "uint" => o.lo >= 0
        /\ o.type = "rate" => o.lo = 2
    BY <1>14, VPlain, VSettingsTyped DEF V!SettingsOf, V!One
  <2>2. (o.type = "uint" => v >= 0) /\ (o.type = "rate" => v >= 2)
    BY <1>1, <1>2, <2>1
  <2> QED BY <1>1, <1>3, <1>5, <1>7, <1>14, <2>1, <2>2 DEF V!Send, V!SendOak, V!One
<1> QED BY <1>8, <1>9, <1>10, <1>11, <1>12, <1>13, <1>14 DEF V!Maker

(* The backends that answer what they sent have sent one of the setting's  *)
(* values, or a number that the SDK of the Kinect v2 does not check.       *)
LEMMA VAnsweredWhatWasSent ==
  ASSUME NamesDiffer, vMaker \in V!Maker, NEW o \in V!SettingsOf(vMaker), VSetting(o),
         NEW x \in V!Numbers
  PROVE  /\ vMaker = "depthai" => V!Send(o, x) \in V!Legal(o) /\ V!Send(o, x) # None
         /\ vMaker = "freenect2" /\ V!Plausible(vMaker, o) /\ V!Send(o, x) # None =>
              \/ V!Send(o, x) \in V!Legal(o)
              \/ o.type = "float" /\ V!Send(o, x) \in V!Numbers
<1>1. V!Trunc(x) \in V!Numbers /\ V!Whole(V!Trunc(x))
  BY VTrunc
<1>2. ASSUME vMaker = "depthai"
      PROVE  V!Send(o, x) \in V!Legal(o) /\ V!Send(o, x) # None
  <2>1. /\ o.type \in {"bool", "int", "float"}
        /\ o.type = "float" => o.step = 0
    BY <1>2, VPlain, VSettingsTyped DEF V!SettingsOf, V!One
  <2>2. CASE o.type = "bool"
    <3>1. V!Send(o, x) \in {0, 2}
      BY <1>2, <2>2 DEF V!Send, V!SendDepthAI, V!Switch, V!One
    <3>2. V!Legal(o) = {0, 2}
      BY <2>2, VLegal
    <3> QED BY <3>1, <3>2, VLegal DEF NamesDiffer
  <2>3. \A y \in -2..4, l \in {-2, 0, 2}, h \in {2, 4} :
           /\ V!Clamp(y, l, h) \in l..h
           /\ V!Trunc(V!Clamp(y, l, h)) \in l..h /\ V!Whole(V!Trunc(V!Clamp(y, l, h)))
    BY DEF V!Clamp, V!Trunc, V!Whole, V!One
  <2>4. /\ V!Clamp(x, o.lo, o.hi) \in o.lo..o.hi
        /\ V!Trunc(V!Clamp(x, o.lo, o.hi)) \in o.lo..o.hi
        /\ V!Whole(V!Trunc(V!Clamp(x, o.lo, o.hi)))
    BY <2>3 DEF VSetting, V!Numbers, V!One
  <2>5. CASE o.type = "int"
    <3>1. V!Send(o, x) = V!Trunc(V!Clamp(x, o.lo, o.hi))
      BY <1>2, <2>5 DEF V!Send, V!SendDepthAI
    <3>2. V!Legal(o) = {v \in o.lo..o.hi : V!Whole(v)}
      BY <2>5, VLegal
    <3> QED BY <2>4, <3>1, <3>2, VLegal DEF NamesDiffer
  <2>6. CASE o.type = "float"
    <3>1. V!Send(o, x) = V!Clamp(x, o.lo, o.hi)
      BY <1>2, <2>6 DEF V!Send, V!SendDepthAI
    <3>2. V!Legal(o) = o.lo..o.hi
      BY <2>1, <2>6, VLegal
    <3> QED BY <2>4, <3>1, <3>2, VLegal DEF NamesDiffer
  <2> QED BY <2>1, <2>2, <2>5, <2>6
<1>3. ASSUME vMaker = "freenect2", V!Plausible(vMaker, o), V!Send(o, x) # None
      PROVE  \/ V!Send(o, x) \in V!Legal(o)
             \/ o.type = "float" /\ V!Send(o, x) \in V!Numbers
  <2>1. o.type \in {"enum", "float"}
    BY <1>3, VPlain, VSettingsTyped DEF V!SettingsOf
  <2>2. CASE o.type = "enum"
    <3>1. V!Send(o, x) = V!Trunc(x) /\ V!Trunc(x) \in o.lo..o.hi
      BY <1>3, <2>2 DEF V!Send, V!SendFreenect2
    <3>2. V!Legal(o) = {v \in o.lo..o.hi : V!Whole(v)}
      BY <1>3, <2>2, VLegal DEF V!Plausible
    <3> QED BY <1>1, <3>1, <3>2
  <2>3. CASE o.type = "float"
    BY <1>3, <2>3 DEF V!Send, V!SendFreenect2
  <2> QED BY <2>1, <2>2, <2>3
<1> QED BY <1>2, <1>3

VToldInv ==
  \/ vTold \in V!Legal(vOption)
  \/ vMaker = "freenect2" /\ vOption.type = "float" /\ vTold \in V!Numbers

VNodeInv ==
  /\ vLast # None /\ vDescriptor.kind # "ACTION" =>
       VForm(vOption, vDescriptor, vLast) /\ vNode = VFace(vOption, vDescriptor, vLast)
  /\ vFresh => vDescriptor.read /\ vLast = vTold

VWrittenInv ==
  /\ vPending = "write" =>
       /\ vDescriptor.write /\ vLast # None
       /\ vWritten # None => /\ vWritten \in V!Written(vDescriptor)
                             /\ vLast = V!Raw(vDescriptor, vWritten)
  /\ vPending = "read" => vDescriptor.read
  /\ vPending # "write" =>
       /\ vWritten # None /\ V!Meant(vWritten) # {} => vCamera \in V!Meant(vWritten)
       /\ vMode = "auto" \/ ~vDescriptor.write => vWritten = None
  /\ vMode = "auto" => vOption.auto

VFixed ==
  /\ vMaker \in V!Maker /\ vOption \in V!SettingsOf(vMaker)
  /\ V!Plausible(vMaker, vOption) /\ vDescriptor \in V!Describe(vMaker, vOption)

VInv == V!TypeOK /\ VFixed /\ VToldInv /\ VNodeInv /\ VWrittenInv

(* Whatever the backend, a published setting can carry its values.         *)
LEMMA VPublishedByAll ==
  ASSUME NamesDiffer, VFixed
  PROVE  /\ VSetting(vOption) /\ VPublished(vOption, vDescriptor) /\ vOption.type # "struct"
         /\ vOption.auto => vMaker \in {"k4a", "depthai"}
<1> USE DEF VFixed
<1>1. CASE vMaker = "k4a"
  <2>1. vOption.type # "struct"
    BY <1>1, VPlain, VSettingsTyped DEF V!SettingsOf
  <2> QED BY <1>1, <2>1, PublishedK4A
<1>2. CASE vMaker = "freenect"
  <2>1. vOption.type # "struct" /\ ~vOption.auto
    BY <1>2, VPlain, VSettingsTyped DEF V!SettingsOf
  <2> QED BY <1>2, <2>1, PublishedFreenect
<1>3. CASE vMaker = "freenect2"
  <2>1. vOption.type # "struct" /\ ~vOption.auto
    BY <1>3, VPlain, VSettingsTyped DEF V!SettingsOf
  <2> QED BY <1>3, <2>1, PublishedFreenect2
<1>4. CASE vMaker = "realsense"
  <2>1. vOption.type # "struct" /\ ~vOption.auto
    BY <1>4, VPlain, VSettingsTyped DEF V!SettingsOf
  <2> QED BY <1>4, <2>1, PublishedRealSense
<1>5. CASE vMaker = "orbbec"
  <2>1. ~vOption.auto
    BY <1>5 DEF V!SettingsOf
  <2> QED BY <1>5, <2>1, PublishedOrbbec
<1>6. CASE vMaker = "depthai"
  <2>1. vOption.type # "struct"
    BY <1>6, VPlain, VSettingsTyped DEF V!SettingsOf
  <2> QED BY <1>6, <2>1, PublishedDepthAI
<1>7. CASE vMaker = "oak"
  <2>1. vOption.type # "struct" /\ ~vOption.auto
    BY <1>7, VPlain, VSettingsTyped DEF V!SettingsOf
  <2> QED BY <1>7, <2>1, PublishedOak
<1> QED BY <1>1, <1>2, <1>3, <1>4, <1>5, <1>6, <1>7 DEF V!Maker

(* Who writes a value of the setting, or its name, means that one.         *)
LEMMA VMeantIsSent ==
  ASSUME NamesDiffer, VFixed, NEW w \in V!Written(vDescriptor),
         vDescriptor.kind # "ACTION", V!Meant(w) # {}
  PROVE  /\ V!Raw(vDescriptor, w) \in V!Legal(vOption)
         /\ V!Raw(vDescriptor, w) \in V!Meant(w)
<1> DEFINE r == V!Raw(vDescriptor, w)
<1>1. VSetting(vOption) /\ VPublished(vOption, vDescriptor)
  BY VPublishedByAll
<1>2. VForm(vOption, vDescriptor, r) /\ w = VFace(vOption, vDescriptor, r)
  BY <1>1, VWrittenIsShown
<1>3. PICK v \in V!Legal(vOption) : w = v \/ w = V!Called(vOption, v)
  BY DEF V!Meant
<1>4. v \in V!Numbers
  BY <1>1, <1>3, VLegal
<1>5. CASE vDescriptor.kind = "ENUM"
  <2>1. w = V!Called(vOption, r) /\ r \in vOption.lo..vOption.hi /\ V!Whole(r)
    BY <1>2, <1>5 DEF VForm, VFace
  <2>2. r \in V!Legal(vOption)
    BY <1>1, <1>5, <2>1 DEF VPublished
  <2> QED BY <2>1, <2>2 DEF V!Meant
<1>6. CASE vDescriptor.kind # "ENUM"
  <2>1. w = r /\ r \in V!Numbers
    BY <1>2, <1>6 DEF VForm, VFace
  <2>2. r = v
    BY <1>1, <1>3, <1>4, <2>1, VCalled
  <2> QED BY <2>1, <2>2 DEF V!Meant
<1> QED BY <1>5, <1>6

(* Initially the camera has a value of the setting.                        *)
LEMMA VInitially ==
  ASSUME NamesDiffer, V!Init  PROVE  VInv
<1>1. VFixed
  BY DEF V!Init, VFixed
<1>2. /\ VSetting(vOption) /\ VPublished(vOption, vDescriptor)
      /\ V!Legal(vOption) \subseteq V!Numbers
  BY <1>1, VPublishedByAll, VLegal
<1>3. PICK def \in V!Legal(vOption) \cup {0} : vNode \in V!FirstShown(vDescriptor, def)
  BY DEF V!Init
<1>4. vNode \in V!Numbers \cup Label \cup {None}
  <2>1. def \in V!Numbers
    BY <1>2 DEF V!Numbers, V!One
  <2> QED BY <1>2, <1>3, <2>1, VFirstShown
<1>5. /\ vPending = IF vDescriptor.read THEN "read" ELSE "none"
      /\ vMode \in (IF vOption.auto THEN {"manual", "auto"} ELSE {"manual"})
      /\ vCamera \in V!Legal(vOption) /\ vTold = vCamera
      /\ vLast = None /\ vFresh = FALSE /\ vWritten = None
  BY DEF V!Init
<1>6. V!TypeOK
  BY <1>1, <1>2, <1>4, <1>5 DEF VFixed, V!TypeOK
<1>7. VNodeInv /\ VToldInv /\ VWrittenInv
  BY <1>5 DEF VNodeInv, VToldInv, VWrittenInv
<1> QED BY <1>1, <1>6, <1>7 DEF VInv

(* What the backend may answer can be shown.                               *)
LEMMA VAnswerHasForm ==
  ASSUME NamesDiffer, VFixed, vDescriptor.kind # "ACTION",
         NEW v, \/ v \in V!Legal(vOption)
                \/ vMaker = "freenect2" /\ vOption.type = "float" /\ v \in V!Numbers
  PROVE  VForm(vOption, vDescriptor, v)
<1>1. VSetting(vOption) /\ VPublished(vOption, vDescriptor)
  BY VPublishedByAll
<1>2. CASE v \in V!Legal(vOption)
  BY <1>1, <1>2, VLegal DEF VPublished, VForm, VWhole
<1>3. CASE vMaker = "freenect2" /\ vOption.type = "float" /\ v \in V!Numbers
  <2>1. vDescriptor \in V!Descriptor("FLOAT", vOption, vOption.lo, vOption.hi, vOption.step, <<>>)
    <3>1. vDescriptor \in V!DescribeFreenect2(vOption)
      BY <1>3 DEF VFixed, V!Describe
    <3> QED BY <1>3, <3>1 DEF V!DescribeFreenect2, V!Number
  <2>2. vDescriptor.kind = "FLOAT"
    BY <2>1, VDesc
  <2> QED BY <1>3, <2>2 DEF VForm
<1> QED BY <1>2, <1>3

(* Once it is told, the node shows the answer.                             *)
LEMMA VPublishShows ==
  ASSUME NamesDiffer, VFixed, VNodeInv, vDescriptor.read, NEW v, V!Publish(v),
         \/ v \in V!Legal(vOption)
         \/ vMaker = "freenect2" /\ vOption.type = "float" /\ v \in V!Numbers
  PROVE  /\ vFresh' = TRUE /\ vLast' = v /\ vLast' \in V!Numbers
         /\ VForm(vOption, vDescriptor, vLast') /\ vNode' = VFace(vOption, vDescriptor, vLast')
         /\ vNode' \in V!Numbers \cup Label
<1>1. /\ VSetting(vOption) /\ VPublished(vOption, vDescriptor)
      /\ vDescriptor.kind # "ACTION"
  BY VPublishedByAll DEF VPublished
<1>2. VForm(vOption, vDescriptor, v)
  BY <1>1, VAnswerHasForm
<1>3. /\ V!Shown(vDescriptor, v) = {VFace(vOption, vDescriptor, v)}
      /\ VFace(vOption, vDescriptor, v) \in V!Numbers \cup Label
  BY <1>1, <1>2, VShownIsRead
<1>4. v \in V!Numbers /\ v # None
  BY <1>2 DEF VForm, NamesDiffer
<1>5. vFresh' = TRUE /\ vLast' = v
  BY DEF V!Publish
<1>6. vNode' = VFace(vOption, vDescriptor, v)
  <2>1. CASE vLast = v
    BY <1>1, <1>3, <1>4, <2>1 DEF V!Publish, VNodeInv
  <2>2. CASE vLast # v
    BY <1>3, <2>2 DEF V!Publish
  <2> QED BY <2>1, <2>2
<1> QED BY <1>2, <1>3, <1>4, <1>5, <1>6

(* The setting and how it was published stay.                              *)
LEMMA VFixedStays ==
  ASSUME VFixed, UNCHANGED <<vMaker, vOption, vDescriptor>>
  PROVE  VFixed'
BY DEF VFixed

(* A write to the node: its number is queued.                              *)
LEMMA VWriteStep ==
  ASSUME NamesDiffer, VInv, V!Write  PROVE  VInv'
<1>1. PICK w \in V!Written(vDescriptor) :
        /\ vDescriptor.write /\ vNode' = w /\ vLast' = V!Raw(vDescriptor, w)
        /\ vPending' = "write" /\ vWritten' = w
  BY DEF V!Write
<1>2. /\ vFresh' = FALSE
      /\ UNCHANGED <<vMaker, vOption, vDescriptor, vMode, vCamera, vTold>>
  BY DEF V!Write
<1>3. VFixed /\ VSetting(vOption) /\ VPublished(vOption, vDescriptor)
  BY VPublishedByAll DEF VInv
<1>4. vDescriptor.kind # "ACTION" =>
        /\ VForm(vOption, vDescriptor, vLast') /\ vNode' = VFace(vOption, vDescriptor, vLast')
        /\ vNode' \in V!Numbers \cup Label /\ vLast' \in V!Numbers
  BY <1>1, <1>3, VWrittenIsShown DEF VForm
<1>5. vDescriptor.kind = "ACTION" => vNode' = None /\ vLast' = 2
  BY <1>1 DEF V!Written, V!Raw, V!One
<1>6. vLast' \in V!Numbers /\ vLast' # None /\ vNode' \in V!Numbers \cup Label \cup {None}
  <2>1. 2 \in V!Numbers
    BY DEF V!Numbers, V!One
  <2> QED BY <1>4, <1>5, <2>1 DEF NamesDiffer
<1>7. VFixed' /\ VToldInv'
  BY <1>2, VFixedStays DEF VInv, VToldInv
<1>8. V!TypeOK'
  BY <1>1, <1>2, <1>6 DEF VInv, V!TypeOK
<1>9. VNodeInv'
  BY <1>2, <1>4, <1>6 DEF VNodeInv
<1>10. VWrittenInv'
  BY <1>1, <1>2, <1>6 DEF VInv, VWrittenInv
<1> QED BY <1>7, <1>8, <1>9, <1>10 DEF VInv

(* A read of the node, which shows what was answered last.                 *)
LEMMA VReadStep ==
  ASSUME NamesDiffer, VInv, V!Read  PROVE  VInv'
<1>1. /\ vDescriptor.read /\ vPending = "none" /\ vPending' = "read"
      /\ UNCHANGED <<vMaker, vOption, vDescriptor, vMode, vCamera, vTold, vNode, vLast,
                     vFresh, vWritten>>
  BY DEF V!Read
<1>2. VFixed' /\ VToldInv' /\ VNodeInv' /\ V!TypeOK'
  BY <1>1, VFixedStays DEF VInv, VToldInv, VNodeInv, V!TypeOK
<1>3. VWrittenInv'
  <2>1. vWritten # None /\ V!Meant(vWritten) # {} => vCamera \in V!Meant(vWritten)
    BY <1>1 DEF VInv, VWrittenInv
  <2>2. V!Meant(vWritten)' = V!Meant(vWritten)
    BY <1>1 DEF V!Meant
  <2> QED BY <1>1, <2>1, <2>2 DEF VInv, VWrittenInv
<1> QED BY <1>2, <1>3 DEF VInv

(* Where neither what was written nor the setting changes, what it meant   *)
(* does not.                                                               *)
LEMMA VMeansTheSame ==
  ASSUME UNCHANGED vOption  PROVE  \A w : V!Meant(w)' = V!Meant(w)
BY DEF V!Meant

(* The backend answers what the camera has.                                *)
LEMMA VAnswerStep ==
  ASSUME NamesDiffer, VInv, V!Answer  PROVE  VInv'
<1>1. /\ vPending = "read" /\ vPending' = "none" /\ V!Publish(vTold)
      /\ UNCHANGED <<vMaker, vOption, vDescriptor, vMode, vCamera, vTold, vWritten>>
  BY DEF V!Answer
<1>2. vDescriptor.read
  BY <1>1 DEF VInv, VWrittenInv
<1>3. /\ vFresh' = TRUE /\ vLast' = vTold /\ vLast' \in V!Numbers
      /\ VForm(vOption, vDescriptor, vLast') /\ vNode' = VFace(vOption, vDescriptor, vLast')
      /\ vNode' \in V!Numbers \cup Label
  BY <1>1, <1>2, VPublishShows DEF VInv, VToldInv
<1>4. VFixed' /\ VToldInv' /\ V!TypeOK'
  BY <1>1, <1>3, VFixedStays DEF VInv, VToldInv, V!TypeOK
<1>5. VNodeInv'
  BY <1>1, <1>2, <1>3 DEF VNodeInv
<1>6. VWrittenInv'
  BY <1>1, VMeansTheSame DEF VInv, VWrittenInv
<1> QED BY <1>4, <1>5, <1>6 DEF VInv

(* What the backend answers after it sent a number is a value that the     *)
(* setting may have, but of a Kinect v2.                                   *)
LEMMA VAnsweredIsLegal ==
  ASSUME NamesDiffer, VInv, vLast # None, NEW c \in V!Legal(vOption)
  PROVE  LET a == V!Answered(V!Send(vOption, vLast), c)
         IN  \/ a \in V!Legal(vOption)
             \/ vMaker = "freenect2" /\ vOption.type = "float" /\ a \in V!Numbers
<1> DEFINE x == V!Send(vOption, vLast)
           a == V!Answered(x, c)
<1>0. VFixed /\ VSetting(vOption) /\ vLast \in V!Numbers
  BY VPublishedByAll DEF VInv, V!TypeOK
<1>1. CASE vMaker = "freenect" \/ (vMaker \in {"freenect2", "depthai"} /\ x = None)
  <2>1. a = vTold
    BY <1>1 DEF V!Answered
  <2> QED BY <2>1 DEF VInv, VToldInv
<1>2. CASE vMaker \in {"freenect2", "depthai"} /\ x # None
  <2>1. a = x
    BY <1>2 DEF V!Answered
  <2> QED BY <1>0, <1>2, <2>1, VAnsweredWhatWasSent DEF VFixed
<1>3. CASE vMaker \notin {"freenect", "freenect2", "depthai"}
  BY <1>3 DEF V!Answered
<1> QED BY <1>1, <1>2, <1>3

(* The queued number is sent, and the answer shown.                        *)
LEMMA VSendStep ==
  ASSUME NamesDiffer, VInv, V!SendWrite  PROVE  VInv'
<1> DEFINE x == V!Send(vOption, vLast)
<1>0. /\ VFixed /\ VToldInv /\ VNodeInv /\ VWrittenInv
      /\ VSetting(vOption) /\ VPublished(vOption, vDescriptor) /\ vOption.type # "struct"
      /\ vCamera \in V!Legal(vOption) /\ V!Legal(vOption) \subseteq V!Numbers
  BY VPublishedByAll, VLegal DEF VInv, V!TypeOK
<1>1. /\ vPending = "write" /\ vPending' = "none"
      /\ UNCHANGED <<vMaker, vOption, vDescriptor>>
      /\ IF vDescriptor.read THEN V!Publish(vTold') ELSE UNCHANGED <<vFresh, vNode, vLast>>
  BY DEF V!SendWrite
<1>2. /\ vDescriptor.write /\ vLast # None /\ vLast \in V!Numbers
      /\ vWritten # None => vWritten \in V!Written(vDescriptor) /\ vLast = V!Raw(vDescriptor, vWritten)
  BY <1>0, <1>1 DEF VWrittenInv, VInv, V!TypeOK
<1>3. \/ /\ vCamera' \in V!Settled(x) /\ vTold' = V!Answered(x, vCamera')
         /\ vMode' = "manual" /\ vWritten' = vWritten
      \/ /\ vTold' \in {vTold} \cup (IF vMaker = "depthai" THEN {x} ELSE {})
         /\ vWritten' = None /\ vCamera' = vCamera /\ vMode' = vMode
  BY DEF V!SendWrite
<1>4. vCamera' \in V!Legal(vOption)
  BY <1>0, <1>3 DEF V!Settled
<1>5. \/ vTold' \in V!Legal(vOption)
      \/ vMaker = "freenect2" /\ vOption.type = "float" /\ vTold' \in V!Numbers
  <2>1. CASE vTold' = V!Answered(x, vCamera')
    BY <1>2, <1>4, <2>1, VAnsweredIsLegal
  <2>2. CASE vTold' = vTold
    BY <1>0, <2>2 DEF VToldInv
  <2>3. CASE vMaker = "depthai" /\ vTold' = x
    BY <1>0, <1>2, <2>3, VAnsweredWhatWasSent DEF VFixed
  <2> QED BY <1>3, <2>1, <2>2, <2>3
<1>6. vDescriptor.read =>
        /\ vFresh' = TRUE /\ vLast' = vTold' /\ vLast' \in V!Numbers
        /\ VForm(vOption, vDescriptor, vLast') /\ vNode' = VFace(vOption, vDescriptor, vLast')
        /\ vNode' \in V!Numbers \cup Label
  BY <1>0, <1>1, <1>5, VPublishShows
<1>7. ~vDescriptor.read => UNCHANGED <<vFresh, vNode, vLast>>
  BY <1>1
<1>8. VFixed' /\ VToldInv'
  BY <1>0, <1>1, <1>5, VFixedStays DEF VToldInv
<1>9. VNodeInv'
  BY <1>0, <1>1, <1>6, <1>7 DEF VNodeInv
<1>10. V!TypeOK'
  <2>1. vTold' \in V!Numbers
    BY <1>0, <1>5
  <2>2. V!Legal(vOption)' = V!Legal(vOption)
    BY <1>1 DEF V!Legal
  <2> QED BY <1>1, <1>3, <1>4, <1>6, <1>7, <2>1, <2>2 DEF VInv, V!TypeOK
<1>11. vWritten' # None /\ V!Meant(vWritten') # {} => vCamera' \in V!Meant(vWritten')
  <2> SUFFICES ASSUME vWritten' # None, V!Meant(vWritten') # {}
               PROVE  vCamera' \in V!Meant(vWritten')
    OBVIOUS
  <2>1. /\ vWritten' = vWritten /\ vCamera' \in V!Settled(x)
        /\ vWritten \in V!Written(vDescriptor) /\ vLast = V!Raw(vDescriptor, vWritten)
    BY <1>2, <1>3
  <2>2. vDescriptor.kind # "ACTION"
    BY <2>1 DEF V!Written
  <2>3. vLast \in V!Legal(vOption) /\ vLast \in V!Meant(vWritten)
    BY <1>0, <2>1, <2>2, VMeantIsSent
  <2>4. x = vLast
    BY <1>0, <1>2, <2>3, VSent DEF VFixed, VPublished
  <2>5. vCamera' = vLast
    BY <1>2, <2>1, <2>3, <2>4 DEF V!Settled
  <2> QED BY <2>1, <2>3, <2>5
<1>12. VWrittenInv'
  <2>1. vMode' = "auto" => vWritten' = None /\ vOption.auto
    BY <1>0, <1>3 DEF VWrittenInv
  <2> QED BY <1>1, <1>2, <1>11, <2>1, VMeansTheSame DEF VWrittenInv
<1> QED BY <1>8, <1>9, <1>10, <1>12 DEF VInv

(* The automatic mode is switched.                                         *)
LEMMA VSetAutoStep ==
  ASSUME NamesDiffer, VInv, V!SetAuto  PROVE  VInv'
<1>0. VFixed /\ vCamera \in V!Legal(vOption) /\ VToldInv
  BY DEF VInv, V!TypeOK
<1>1. /\ vOption.auto /\ vPending = "none"
      /\ UNCHANGED <<vMaker, vOption, vDescriptor, vTold, vNode, vLast, vPending, vFresh>>
  BY DEF V!SetAuto
<1>2. \/ vMode' = "auto" /\ vWritten' = None /\ vCamera' = vCamera
      \/ /\ vMode = "auto" /\ vMode' = "manual" /\ vWritten' = vWritten
         /\ vCamera' = IF vMaker = "k4a" THEN vCamera ELSE vTold
  BY DEF V!SetAuto
<1>3. vMaker \in {"k4a", "depthai"}
  BY <1>0, <1>1, VPublishedByAll
<1>4. vCamera' \in V!Legal(vOption)
  BY <1>0, <1>2, <1>3 DEF VToldInv
<1>5. vWritten' = None
  BY <1>1, <1>2 DEF VInv, VWrittenInv
<1>6. VFixed' /\ VToldInv' /\ VNodeInv'
  BY <1>1, VFixedStays DEF VInv, VToldInv, VNodeInv
<1>7. V!TypeOK'
  <2>1. V!Legal(vOption)' = V!Legal(vOption)
    BY <1>1 DEF V!Legal
  <2> QED BY <1>1, <1>2, <1>4, <1>5, <2>1 DEF VInv, V!TypeOK
<1>8. VWrittenInv'
  BY <1>1, <1>2, <1>5 DEF VWrittenInv
<1> QED BY <1>6, <1>7, <1>8 DEF VInv

(* In the automatic mode the camera changes the value by itself.           *)
LEMMA VCameraMovesStep ==
  ASSUME NamesDiffer, VInv, V!Drift \/ V!ReadTilt  PROVE  VInv'
<1>0. /\ VFixed /\ VSetting(vOption) /\ VPublished(vOption, vDescriptor)
      /\ vCamera \in V!Legal(vOption) /\ V!Legal(vOption) \subseteq V!Numbers
  BY VPublishedByAll, VLegal DEF VInv, V!TypeOK
<1>1. /\ vCamera' \in V!Legal(vOption)
      /\ vTold' = vTold \/ (vTold' \in V!Legal(vOption) /\ vFresh' = FALSE)
      /\ vFresh' \in BOOLEAN /\ (vFresh' => vFresh)
      /\ vCamera' = vCamera \/ vMode = "auto" \/ ~vOption.write
      /\ UNCHANGED <<vMaker, vOption, vDescriptor, vMode, vNode, vLast, vPending, vWritten>>
  <2>1. CASE V!Drift
    BY <2>1 DEF V!Drift, V!Remembers, VInv, V!TypeOK
  <2>2. CASE V!ReadTilt
    BY <1>0, <2>2 DEF V!ReadTilt
  <2> QED BY <2>1, <2>2
<1>2. VFixed' /\ VToldInv'
  BY <1>1, VFixedStays DEF VInv, VToldInv
<1>3. VNodeInv'
  BY <1>1 DEF VInv, VNodeInv
<1>4. V!TypeOK'
  <2>1. V!Legal(vOption)' = V!Legal(vOption) /\ vTold' \in V!Numbers
    BY <1>0, <1>1 DEF V!Legal, VInv, V!TypeOK
  <2> QED BY <1>1, <2>1 DEF VInv, V!TypeOK
<1>5. VWrittenInv'
  <2>1. vDescriptor.write = vOption.write
    BY <1>0 DEF VPublished
  <2> QED BY <1>1, <2>1, VMeansTheSame DEF VInv, VWrittenInv
<1> QED BY <1>2, <1>3, <1>4, <1>5 DEF VInv

(* One step per action.                                                    *)
LEMMA VInductive ==
  ASSUME NamesDiffer, VInv, [V!Next]_(V!vars)  PROVE  VInv'
<1>1. CASE UNCHANGED V!vars
  <2>1. UNCHANGED <<vMaker, vOption, vDescriptor, vMode, vCamera, vTold, vNode, vLast,
                    vPending, vFresh, vWritten>>
    BY <1>1 DEF V!vars
  <2>2. V!Legal(vOption)' = V!Legal(vOption)
    BY <2>1 DEF V!Legal
  <2>3. VFixed' /\ VToldInv' /\ VNodeInv' /\ V!TypeOK'
    BY <2>1, <2>2, VFixedStays DEF VInv, VToldInv, VNodeInv, V!TypeOK
  <2>4. VWrittenInv'
    BY <2>1, VMeansTheSame DEF VInv, VWrittenInv
  <2> QED BY <2>3, <2>4 DEF VInv
<1> QED
  BY <1>1, VWriteStep, VReadStep, VSendStep, VAnswerStep, VSetAutoStep, VCameraMovesStep
     DEF V!Next

(* What the property asks of a state.                                      *)
LEMMA VInvGivesValues ==
  ASSUME NamesDiffer, VInv  PROVE  V!ValuesSurvive
<1>0. /\ VFixed /\ VSetting(vOption) /\ VPublished(vOption, vDescriptor)
      /\ vOption.type # "struct" /\ vTold \in V!Numbers /\ vTold # None
  BY VPublishedByAll DEF VInv, V!TypeOK, NamesDiffer
<1>1. ASSUME vFresh, vDescriptor.kind # "ACTION"
      PROVE  vNode = VFace(vOption, vDescriptor, vTold) /\ VForm(vOption, vDescriptor, vTold)
  BY <1>0, <1>1 DEF VInv, VNodeInv
<1>2. V!NodeShowsAnswer
  BY <1>1 DEF V!NodeShowsAnswer, VFace
<1>3. V!WrittenArrives
  BY DEF V!WrittenArrives, VInv, VWrittenInv
<1>4. V!PresetRestores
  <2> SUFFICES ASSUME vFresh, vDescriptor.read, vDescriptor.write
               PROVE  V!Send(vOption, V!Raw(vDescriptor, vNode)) = vTold
    BY DEF V!PresetRestores
  <2>1. vDescriptor.kind # "ACTION"
    BY <1>0 DEF VPublished
  <2>2. V!Raw(vDescriptor, vNode) = vTold
    BY <1>0, <1>1, <2>1, VShownIsRead
  <2>3. CASE vTold \in V!Legal(vOption)
    BY <1>0, <2>2, <2>3, VSent DEF VFixed, VPublished
  <2>4. CASE vMaker = "freenect2" /\ vOption.type = "float"
    BY <2>2, <2>4 DEF V!Send, V!SendFreenect2
  <2> QED BY <2>3, <2>4 DEF VInv, VToldInv
<1> QED BY <1>2, <1>3, <1>4 DEF V!ValuesSurvive

(* The invariant of the settings.                                          *)
LEMMA ValuesInvariant ==
  ASSUME NamesDiffer
  PROVE  Spec => [](which = "values" => VInv)
<1> DEFINE Inv == which = "values" => VInv
<1>1. Init => Inv
  BY VInitially DEF Init
<1>2. Inv /\ [Next]_vars => Inv'
  <2> SUFFICES ASSUME which = "values" => VInv, [Next]_vars, which' = "values"
               PROVE  VInv'
    OBVIOUS
  <2>1. CASE ValueStep
    BY <2>1, VInductive DEF ValueStep
  <2>2. CASE UNCHANGED <<which, vvars>>
    BY <2>2, VInductive DEF vvars, V!vars
  <2> QED BY <2>1, <2>2, OthersMove
<1> QED BY <1>1, <1>2, PTL DEF Spec

\* Whatever a setting is, and whatever of it an SDK says: what is written to its
\* node, read from it and answered by the camera is one value, through the
\* labels, the queue and the conversions of each of the seven backends.
THEOREM EveryValueSurvives ==
  ASSUME NamesDiffer
  PROVE  Spec => []ValuesSurvive
<1>1. Spec => [](which = "values" => VInv)
  BY ValuesInvariant
<1>2. (which = "values" => VInv) => ValuesSurvive
  BY VInvGivesValues DEF ValuesSurvive
<1> QED BY <1>1, <1>2, PTL

\* Every variable of the backends keeps its type, those of an address and of a
\* setting as well.
THEOREM WellTyped ==
  ASSUME None \notin Tilt, MaxItems \in Nat, Factory \in Setting,
         FirstMode \in Mode, Default \in Value, ModeOf \in [Param -> Mode],
         CamerasDiffer, NamesDiffer
  PROVE  Spec => []TypeOK
<1>1. Spec => [](/\ K!TypeOK /\ F!TypeOK /\ L!TypeOK /\ D!TypeOK
                 /\ O!TypeOK /\ R!TypeOK /\ N!TypeOK)
  BY BackendsWellTyped
<1>2. Spec => [](which \in Chosen)
  <2>1. Init => which \in Chosen
    BY DEF Init
  <2>2. which \in Chosen /\ [Next]_vars => (which \in Chosen)'
    BY DEF Next, vars, K4AStep, FreenectStep, Freenect2Step, DepthAIStep, OrbbecStep,
           RealSenseStep, OakStep, AddressStep, ValueStep
  <2> QED BY <2>1, <2>2, PTL DEF Spec
<1>3. Spec => [](which = "addresses" => AInv /\ A!OpensWhatItFound)
  BY AddressesInvariant
<1>4. Spec => [](which = "values" => VInv)
  BY ValuesInvariant
<1>5. (which = "addresses" => AInv /\ A!OpensWhatItFound) => (which = "addresses" => A!TypeOK)
  BY AInvGivesTypeOK
<1>6. (which = "values" => VInv) => (which = "values" => V!TypeOK)
  BY DEF VInv
<1>7. /\ K!TypeOK /\ F!TypeOK /\ L!TypeOK /\ D!TypeOK
      /\ O!TypeOK /\ R!TypeOK /\ N!TypeOK
      /\ which \in Chosen
      /\ which = "addresses" => A!TypeOK
      /\ which = "values" => V!TypeOK
      => TypeOK
  BY DEF TypeOK
<1> QED BY <1>1, <1>2, <1>3, <1>4, <1>5, <1>6, <1>7, PTL
===============================================================================
