------------------------------ MODULE MCBackends ------------------------------
(***************************************************************************)
(* One camera of each backend, how any of them is found by its address,    *)
(* and one of its settings.  These share nothing, so a behaviour is chosen *)
(* at the start to be about one of them: the states of the run are the sum *)
(* of theirs and not the product.                                          *)
(***************************************************************************)
EXTENDS Naturals

CONSTANTS
  Chosen,  \* the backends to check, "addresses" and "values" among them
  Image,   \* K4ABackend
  Kinect, Tilt, None, \* FreenectBackend
  Mode, FirstMode, Param, ModeOf, Value, Default, \* Freenect2Backend
  Queue, Setting, Factory, MaxItems, \* DepthAIBackend
  Camera, MaxLeft, \* CameraAddresses
  Label    \* ControlValues

CONSTANTS auto, manual, integration
MCModeOf == [p \in {integration} |-> manual]

VARIABLES
  which,
  kOpened, kWantImu, kRunning, kImuRunning, kImuOn, kCall, kClosing, kCapturer,
  kSampler, kCapture, kTodo, kRefs, kHeld,
  fOpened, fMotor, fRunning, fVideo, fDepth, fCall, fPump, fServing, fOrder,
  fWant, fTilt, fAsked,
  lOpened, lColoured, lRunning, lStreaming, lRegistration, lCall, lClosing,
  lThread, lKept, lMode, lParam, lApplying, lSent,
  dOpened, dRunning, dStarted, dAdded, dCallbacks, dCall, dClosing, dLeft,
  dInHost, dSetting, dSent,
  oOpened, oHasImu, oRunning, oStreaming, oCall, oClosing, oLeft, oInHost,
  rOpened, rRunning, rProfile, rUnit, rCall, rClosing, rLeft, rInHost,
  nSystem, nLock, nConnected, nOpened, nWanted, nRegistered, nRunning,
  nCapturing, nCall, nClosing, nLeft, nInHost,
  aMaker, aLabel, aBus, aOpen, aTable, aOpening, aDrifted,
  vMaker, vOption, vDescriptor, vMode, vCamera, vTold, vNode, vLast, vPending,
  vFresh, vWritten

K == INSTANCE K4ABackend WITH
  opened <- kOpened, wantImu <- kWantImu, running <- kRunning,
  imuRunning <- kImuRunning, imuOn <- kImuOn, call <- kCall,
  closing <- kClosing, capturer <- kCapturer, sampler <- kSampler,
  capture <- kCapture, todo <- kTodo, refs <- kRefs, held <- kHeld

F == INSTANCE FreenectBackend WITH
  Camera <- Kinect, opened <- fOpened, motor <- fMotor, running <- fRunning,
  video <- fVideo, depth <- fDepth, call <- fCall, pump <- fPump,
  serving <- fServing, order <- fOrder, want <- fWant, tilt <- fTilt,
  asked <- fAsked

L == INSTANCE Freenect2Backend WITH
  Auto <- FirstMode, opened <- lOpened, coloured <- lColoured, running <- lRunning,
  streaming <- lStreaming, registration <- lRegistration, call <- lCall,
  closing <- lClosing, thread <- lThread, kept <- lKept, mode <- lMode,
  param <- lParam, applying <- lApplying, sent <- lSent

D == INSTANCE DepthAIBackend WITH
  Default <- Factory, opened <- dOpened, running <- dRunning,
  started <- dStarted, callbacksAdded <- dAdded, callbacks <- dCallbacks,
  call <- dCall, closing <- dClosing, left <- dLeft, inHost <- dInHost,
  setting <- dSetting, sent <- dSent

O == INSTANCE OrbbecBackend WITH
  opened <- oOpened, hasImu <- oHasImu, running <- oRunning,
  streaming <- oStreaming, call <- oCall, closing <- oClosing, left <- oLeft,
  inHost <- oInHost

R == INSTANCE RealSenseBackend WITH
  opened <- rOpened, running <- rRunning, profile <- rProfile, unit <- rUnit,
  call <- rCall, closing <- rClosing, left <- rLeft, inHost <- rInHost

N == INSTANCE OakBackend WITH
  system <- nSystem, lock <- nLock, connected <- nConnected, opened <- nOpened,
  wanted <- nWanted, registered <- nRegistered, running <- nRunning,
  capturing <- nCapturing, call <- nCall, closing <- nClosing, left <- nLeft,
  inHost <- nInHost

A == INSTANCE CameraAddresses WITH
  maker <- aMaker, label <- aLabel, bus <- aBus, open <- aOpen, table <- aTable,
  opening <- aOpening, drifted <- aDrifted

V == INSTANCE ControlValues WITH
  maker <- vMaker, option <- vOption, descriptor <- vDescriptor, mode <- vMode,
  camera <- vCamera, told <- vTold, node <- vNode, last <- vLast,
  pending <- vPending, fresh <- vFresh, written <- vWritten

kvars == <<kOpened, kWantImu, kRunning, kImuRunning, kImuOn, kCall, kClosing,
           kCapturer, kSampler, kCapture, kTodo, kRefs, kHeld>>
fvars == <<fOpened, fMotor, fRunning, fVideo, fDepth, fCall, fPump, fServing,
           fOrder, fWant, fTilt, fAsked>>
lvars == <<lOpened, lColoured, lRunning, lStreaming, lRegistration, lCall,
           lClosing, lThread, lKept, lMode, lParam, lApplying, lSent>>
dvars == <<dOpened, dRunning, dStarted, dAdded, dCallbacks, dCall, dClosing,
           dLeft, dInHost, dSetting, dSent>>
ovars == <<oOpened, oHasImu, oRunning, oStreaming, oCall, oClosing, oLeft, oInHost>>
rvars == <<rOpened, rRunning, rProfile, rUnit, rCall, rClosing, rLeft, rInHost>>
nvars == <<nSystem, nLock, nConnected, nOpened, nWanted, nRegistered, nRunning,
           nCapturing, nCall, nClosing, nLeft, nInHost>>
avars == <<aMaker, aLabel, aBus, aOpen, aTable, aOpening, aDrifted>>
vvars == <<vMaker, vOption, vDescriptor, vMode, vCamera, vTold, vNode, vLast,
           vPending, vFresh, vWritten>>
vars == <<which, kvars, fvars, lvars, dvars, ovars, rvars, nvars, avars, vvars>>

Init ==
  /\ which \in Chosen
  /\ K!Init /\ F!Init /\ L!Init /\ D!Init /\ O!Init /\ R!Init /\ N!Init
  /\ IF which = "addresses" THEN A!Init
          ELSE /\ aMaker = None /\ aLabel = None /\ aBus = None /\ aOpen = None
               /\ aTable = None /\ aOpening = None /\ aDrifted = None
  /\ IF which = "values" THEN V!Init
          ELSE /\ vMaker = None /\ vOption = None /\ vDescriptor = None
               /\ vMode = None /\ vCamera = None /\ vTold = None /\ vNode = None
               /\ vLast = None /\ vPending = None /\ vFresh = None
               /\ vWritten = None

K4AStep ==
  /\ which = "k4a" /\ K!Next
  /\ UNCHANGED <<which, fvars, lvars, dvars, ovars, rvars, nvars, avars, vvars>>
FreenectStep ==
  /\ which = "freenect" /\ F!Next
  /\ UNCHANGED <<which, kvars, lvars, dvars, ovars, rvars, nvars, avars, vvars>>
Freenect2Step ==
  /\ which = "freenect2" /\ L!Next
  /\ UNCHANGED <<which, kvars, fvars, dvars, ovars, rvars, nvars, avars, vvars>>
DepthAIStep ==
  /\ which = "depthai" /\ D!Next
  /\ UNCHANGED <<which, kvars, fvars, lvars, ovars, rvars, nvars, avars, vvars>>
OrbbecStep ==
  /\ which = "orbbec" /\ O!Next
  /\ UNCHANGED <<which, kvars, fvars, lvars, dvars, rvars, nvars, avars, vvars>>
RealSenseStep ==
  /\ which = "realsense" /\ R!Next
  /\ UNCHANGED <<which, kvars, fvars, lvars, dvars, ovars, nvars, avars, vvars>>
OakStep ==
  /\ which = "oak" /\ N!Next
  /\ UNCHANGED <<which, kvars, fvars, lvars, dvars, ovars, rvars, avars, vvars>>
AddressStep ==
  /\ which = "addresses" /\ A!Next
  /\ UNCHANGED <<which, kvars, fvars, lvars, dvars, ovars, rvars, nvars, vvars>>
ValueStep ==
  /\ which = "values" /\ V!Next
  /\ UNCHANGED <<which, kvars, fvars, lvars, dvars, ovars, rvars, nvars, avars>>
Next ==
  \/ K4AStep \/ FreenectStep \/ Freenect2Step \/ DepthAIStep
  \/ OrbbecStep \/ RealSenseStep \/ OakStep
  \/ AddressStep \/ ValueStep

Spec ==
  /\ Init /\ [][Next]_vars
  /\ K!Fairness /\ F!Fairness /\ L!Fairness /\ D!Fairness /\ O!Fairness
  /\ R!Fairness /\ N!Fairness

\* The properties of a backend hold where another one was chosen: nothing moves.

\* Types of every variable.
TypeOK == /\ which \in Chosen
          /\ K!TypeOK /\ F!TypeOK /\ L!TypeOK /\ D!TypeOK
          /\ O!TypeOK /\ R!TypeOK /\ N!TypeOK
          /\ which = "addresses" => A!TypeOK
          /\ which = "values" => V!TypeOK

\* No thread delivers after stop, or after close where stop does not wait:
\* each implements the contract, and a std::thread is assigned or destroyed
\* only after it was joined.
BackendsKeepContract ==
  /\ K!Contract!Spec /\ F!Contract!Spec /\ L!Contract!Spec
  /\ D!Contract!Spec /\ O!Contract!Spec /\ R!Contract!Spec /\ N!Contract!Spec
  /\ K!ThreadsAreJoinedFirst

\* Every frame is accounted for: an image of libk4a lives exactly as long as
\* someone uses it, and a start of DepthAI that fails and is tried again does
\* not double the frames.
FramesAreCounted == K!ImagesAreCounted /\ D!EachMessageOnce

\* The camera does what it was last told, though it hears of it later: the
\* motor's thread takes orders when it has the time, an exposure is sent when
\* the camera starts, a control when the pipeline does.
SettingsTakeEffect ==
  F!LastOrderWins /\ L!ExposureTakesEffect /\ D!SettingTakesEffect

\* What streams is what was started, and is stopped once and in time, though
\* some of it refuses to start: a pipeline that was not started is not stopped,
\* a start that returned streams or can be tried again, the streams of a Kinect
\* v1 change only while its thread is gone, and an Oak3DVision camera has
\* callbacks only while the device that they were made for exists.
StreamsMatchCalls ==
  /\ F!StreamsChangeWithoutThread /\ O!StopsWhatWasStarted /\ R!StartedOrStartable
  /\ N!CallbacksHaveADevice

\* stop and close return, whatever became of the threads they join and of those
\* that hold a lock they need.
StopReturns ==
  /\ K!StopReturns /\ F!StopReturns /\ L!StopReturns /\ D!StopReturns
  /\ O!StopReturns /\ R!StopReturns /\ N!StopReturns

\* A camera is listed under an address that leads to it, and opened under one
\* that names it or not at all; but for what NoSilentFallback is about.
CamerasAreFound == which = "addresses" => A!CamerasAreFound

\* A number survives the way from the node through the label, the queue, the
\* backend's conversions and the SDK, and back.
ValuesSurvive == which = "values" => V!ValuesSurvive

\* "No silent fallback: streaming from a different camera than the document
\* names is worse than failing to connect" (K4ABackend.cpp:1040), of the Azure
\* Kinect: its backend finds the index of a serial, closes that camera and opens
\* what is at the index by then.
NoSilentFallback == which = "addresses" /\ aMaker = "k4a" => A!OpensTheNamedCamera
=============================================================================
