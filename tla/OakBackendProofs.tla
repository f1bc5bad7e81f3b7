--------------------------- MODULE OakBackendProofs ---------------------------
(***************************************************************************)
(* Theorems about OakBackend: a callback never outlives the device whose   *)
(* address it holds, whatever start did, and the backend implements the    *)
(* contract the host relies on.                                            *)
(***************************************************************************)
EXTENDS OakBackend, TLAPS

(***************************************************************************)
(* The inductive invariant: where each call has got to, and what that says *)
(* of the device, the callbacks and the capture thread.                    *)
(***************************************************************************)

\* Between the calls, and in those after the connection, there is a device.
DeviceInv ==
  /\ call \notin {"idle", "connect"} => opened
  /\ call = "connect" => ~opened
  /\ ~opened => ~connected /\ ~running /\ registered = {}

\* The capture thread lives from the end of start to that of camera->stop().
CaptureInv ==
  /\ running => call \in {"idle", "register", "startCamera"}
  /\ capturing => (running /\ call = "idle") \/ call = "stopCamera"
  /\ running /\ call = "idle" => capturing
  /\ call \in {"register", "startCamera"} => running

\* What an earlier start left registered was asked for too.
RegisteredInv ==
  /\ registered \subseteq wanted
  /\ call = "startCamera" \/ capturing => registered = wanted
  /\ call = "disconnect" => registered = {}

FrameInv ==
  /\ left > 0 => capturing
  /\ inHost => left > 0

IInv == TypeOK /\ DeviceInv /\ CaptureInv /\ RegisteredInv /\ FrameInv

LEMMA InitInv == Init => IInv
<1>1. Init => TypeOK
  <2>1. Init => left \in 0..2
    BY DEF Init
  <2> QED BY <2>1, Zenon DEF Init, TypeOK, Call, FrameType
<1>2. Init => DeviceInv /\ CaptureInv /\ RegisteredInv /\ FrameInv
  BY DEF Init, DeviceInv, CaptureInv, RegisteredInv, FrameInv
<1> QED BY <1>1, <1>2 DEF IInv

-----------------------------------------------------------------------------
(* Each step keeps the invariant *)

\* The CameraSystem comes and goes without the device.
LEMMA SystemKeepsInv ==
  ASSUME IInv, Shutdown \/ Enumerate \/ EnumerateEnds
  PROVE  IInv'
<1>1. TypeOK'
  BY DEF IInv, TypeOK, Call, FrameType, Shutdown, Enumerate, EnumerateEnds,
         deviceVars, streamVars, callVars, frameVars
<1>2. (DeviceInv /\ CaptureInv /\ RegisteredInv /\ FrameInv)'
  BY DEF IInv, DeviceInv, CaptureInv, RegisteredInv, FrameInv, Shutdown, Enumerate,
         EnumerateEnds, deviceVars, streamVars, callVars, frameVars
<1> QED BY <1>1, <1>2 DEF IInv

LEMMA OpenKeepsInv ==
  ASSUME IInv, Open \/ Connect \/ Configure
  PROVE  IInv'
<1> USE DEF IInv, DeviceInv, CaptureInv, RegisteredInv, FrameInv,
            deviceVars, streamVars, callVars, frameVars
<1>1. CASE Open
  <2>1. TypeOK' BY <1>1 DEF Open, TypeOK, Call, FrameType
  <2>2. (DeviceInv /\ CaptureInv /\ RegisteredInv /\ FrameInv)'
    BY <1>1 DEF Open
  <2> QED BY <2>1, <2>2
<1>2. CASE Connect
  <2>1. TypeOK' BY <1>2 DEF Connect, TypeOK, Call, FrameType
  <2>2. (DeviceInv /\ CaptureInv /\ RegisteredInv /\ FrameInv)'
    BY <1>2 DEF Connect
  <2> QED BY <2>1, <2>2
<1>3. CASE Configure
  <2>1. TypeOK' BY <1>3 DEF Configure, TypeOK, Call, FrameType
  <2>2. (DeviceInv /\ CaptureInv /\ RegisteredInv /\ FrameInv)'
    BY <1>3 DEF Configure
  <2> QED BY <2>1, <2>2
<1> QED BY <1>1, <1>2, <1>3

LEMMA StartKeepsInv ==
  ASSUME IInv, Start \/ Register \/ StartCamera
  PROVE  IInv'
<1> USE DEF IInv, DeviceInv, CaptureInv, RegisteredInv, FrameInv,
            deviceVars, streamVars, callVars, frameVars
<1>1. CASE Start
  <2>1. TypeOK' BY <1>1 DEF Start, TypeOK, Call, FrameType
  <2>2. (DeviceInv /\ CaptureInv /\ RegisteredInv /\ FrameInv)'
    BY <1>1 DEF Start
  <2> QED BY <2>1, <2>2
<1>2. CASE Register
  <2>1. TypeOK' BY <1>2 DEF Register, TypeOK, Call, FrameType
  <2>2. (DeviceInv /\ CaptureInv /\ RegisteredInv /\ FrameInv)'
    BY <1>2 DEF Register
  <2> QED BY <2>1, <2>2
<1>3. CASE StartCamera
  <2>1. TypeOK' BY <1>3 DEF StartCamera, TypeOK, Call, FrameType
  <2>2. /\ call' = "idle" /\ opened /\ opened' /\ running /\ ~capturing
        /\ ~(left > 0) /\ ~inHost /\ registered = wanted
        /\ left' = left /\ ~inHost' /\ wanted' = wanted
    BY <1>3 DEF StartCamera
  <2>3. \/ capturing' /\ running' /\ registered' = registered
        \/ ~capturing' /\ ~running' /\ (registered' = {} \/ registered' = registered)
    BY <1>3, <2>2 DEF StartCamera
  <2>4. (DeviceInv /\ CaptureInv /\ RegisteredInv /\ FrameInv)'
    BY <2>2, <2>3
  <2> QED BY <2>1, <2>4
<1> QED BY <1>1, <1>2, <1>3

LEMMA StopKeepsInv ==
  ASSUME IInv, Stop \/ StopCamera \/ ClearCallbacks
  PROVE  IInv'
<1> USE DEF IInv, DeviceInv, CaptureInv, RegisteredInv, FrameInv, AfterStop,
            deviceVars, streamVars, callVars, frameVars
<1>1. CASE Stop
  <2>1. TypeOK' BY <1>1 DEF Stop, TypeOK, Call, FrameType
  <2>2. (DeviceInv /\ CaptureInv /\ RegisteredInv /\ FrameInv)'
    BY <1>1 DEF Stop
  <2> QED BY <2>1, <2>2
<1>2. CASE StopCamera
  <2>1. TypeOK' BY <1>2 DEF StopCamera, JoinCapture, TypeOK, Call, FrameType
  <2>2. (DeviceInv /\ CaptureInv /\ RegisteredInv /\ FrameInv)'
    BY <1>2 DEF StopCamera, JoinCapture
  <2> QED BY <2>1, <2>2
<1>3. CASE ClearCallbacks
  <2>1. TypeOK' BY <1>3 DEF ClearCallbacks, TypeOK, Call, FrameType
  <2>2. (DeviceInv /\ CaptureInv /\ RegisteredInv /\ FrameInv)'
    BY <1>3 DEF ClearCallbacks
  <2> QED BY <2>1, <2>2
<1> QED BY <1>1, <1>2, <1>3

\* The destructor of the device.
LEMMA DestructionKeepsInv ==
  ASSUME IInv, Halt \/ Forget \/ Disconnect
  PROVE  IInv'
<1> USE DEF IInv, DeviceInv, CaptureInv, RegisteredInv, FrameInv,
            deviceVars, streamVars, callVars, frameVars
<1>1. CASE Halt
  <2>1. TypeOK' BY <1>1 DEF Halt, JoinCapture, TypeOK, Call, FrameType
  <2>2. (DeviceInv /\ CaptureInv /\ RegisteredInv /\ FrameInv)'
    BY <1>1 DEF Halt, JoinCapture
  <2> QED BY <2>1, <2>2
<1>2. CASE Forget
  <2>1. TypeOK' BY <1>2 DEF Forget, TypeOK, Call, FrameType
  <2>2. (DeviceInv /\ CaptureInv /\ RegisteredInv /\ FrameInv)'
    BY <1>2 DEF Forget
  <2> QED BY <2>1, <2>2
<1>3. CASE Disconnect
  <2>1. TypeOK' BY <1>3 DEF Disconnect, TypeOK, Call, FrameType
  <2>2. (DeviceInv /\ CaptureInv /\ RegisteredInv /\ FrameInv)'
    BY <1>3 DEF Disconnect
  <2> QED BY <2>1, <2>2
<1> QED BY <1>1, <1>2, <1>3

LEMMA FrameKeepsInv ==
  ASSUME IInv, FrameStep \/ \E f \in FrameType : Callback(f)
  PROVE  IInv'
<1> USE DEF IInv, DeviceInv, CaptureInv, RegisteredInv, FrameInv,
            deviceVars, streamVars, callVars, frameVars
<1>1. ASSUME NEW f \in FrameType, Callback(f) PROVE IInv'
  <2>1. left' \in 1..2
    BY <1>1 DEF Callback, Images, FrameType
  <2>2. TypeOK' BY <1>1, <2>1 DEF Callback, TypeOK, Call, FrameType
  <2>3. (DeviceInv /\ CaptureInv /\ RegisteredInv /\ FrameInv)'
    BY <1>1, <2>1 DEF Callback, TypeOK
  <2> QED BY <2>2, <2>3
<1>2. CASE FrameStep
  <2>1. TypeOK'
    <3>1. left' \in 0..2
      BY <1>2 DEF FrameStep, Emit, FrameReturns, Skip, TypeOK
    <3> QED BY <1>2, <3>1, Zenon DEF FrameStep, Emit, FrameReturns, Skip, TypeOK
  <2>2. (DeviceInv /\ CaptureInv /\ RegisteredInv)'
    BY <1>2 DEF FrameStep, Emit, FrameReturns, Skip
  <2>3. FrameInv'
    BY <1>2 DEF FrameStep, Emit, FrameReturns, Skip, TypeOK
  <2> QED BY <2>1, <2>2, <2>3
<1> QED BY <1>1, <1>2

LEMMA StutterKeepsInv ==
  ASSUME IInv, UNCHANGED vars
  PROVE  IInv'
<1>1. TypeOK'
  BY DEF IInv, TypeOK, vars, deviceVars, streamVars, callVars, frameVars
<1>2. (DeviceInv /\ CaptureInv /\ RegisteredInv /\ FrameInv)'
  BY DEF IInv, DeviceInv, CaptureInv, RegisteredInv, FrameInv, vars, deviceVars,
         streamVars, callVars, frameVars
<1> QED BY <1>1, <1>2 DEF IInv

LEMMA StepInv == IInv /\ [Next]_vars => IInv'
  BY SystemKeepsInv, OpenKeepsInv, StartKeepsInv, StopKeepsInv,
     DestructionKeepsInv, FrameKeepsInv, StutterKeepsInv
     DEF Next, CallStep

LEMMA Invariance == Spec => []IInv
  BY InitInv, StepInv, PTL DEF Spec

\* Types of every variable.
THEOREM TypeCorrect == Spec => []TypeOK
<1>1. IInv => TypeOK BY DEF IInv
<1> QED BY <1>1, Invariance, PTL

\* A callback that is registered holds the address of a device that exists, and
\* a camera is connected no longer than its device, after every refusal and
\* exception; between the calls the capture thread lives exactly while the
\* camera runs, with callbacks for all that was asked for.
THEOREM CallbacksOutliveNothing == Spec => []CallbacksHaveADevice
<1>1. IInv => CallbacksHaveADevice
  BY DEF IInv, DeviceInv, CaptureInv, RegisteredInv, CallbacksHaveADevice
<1> QED BY <1>1, Invariance, PTL

-----------------------------------------------------------------------------
(* The contract *)

\* The host sees what is open, what streams, and whether it is called.
LEMMA Unnoticed ==
  ASSUME opened' = opened, (running \/ capturing)' = (running \/ capturing),
         (left > 0)' = (left > 0)
  PROVE  [Contract!Next]_(Contract!vars)
  BY DEF Contract!vars

LEMMA StepKeepsContract ==
  IInv /\ [Next]_vars => [Contract!Next]_(Contract!vars)
<1> SUFFICES ASSUME IInv, [Next]_vars PROVE [Contract!Next]_(Contract!vars)
  OBVIOUS
<1> USE DEF deviceVars, streamVars, callVars, frameVars
<1>1. CASE Shutdown \/ Enumerate \/ EnumerateEnds \/ Open \/ Configure \/ Register
           \/ ClearCallbacks \/ Forget \/ Emit \/ UNCHANGED vars
  BY <1>1, Unnoticed
     DEF Shutdown, Enumerate, EnumerateEnds, Open, Configure, Register,
         ClearCallbacks, Forget, Emit, vars
<1>2. CASE Connect
  <2>1. CASE opened' = opened
    BY <1>2, <2>1, Unnoticed DEF Connect
  <2>2. CASE opened' # opened
    <3>1. ~opened /\ opened'
      BY <1>2, <2>2 DEF Connect, IInv, TypeOK
    <3>2. Contract!Open("oak")
      BY <1>2, <3>1 DEF Connect, Contract!Open
    <3> QED BY <3>2 DEF Contract!Next
  <2> QED BY <2>1, <2>2
<1>3. CASE Start
  <2>1. CASE wanted = {}
    BY <1>3, <2>1, Unnoticed DEF Start
  <2>2. CASE wanted # {}
    <3>1. opened /\ ~running /\ ~capturing /\ running'
      BY <1>3, <2>2 DEF Start, IInv, CaptureInv
    <3>2. Contract!Start("oak")
      BY <1>3, <3>1 DEF Start, Contract!Start
    <3> QED BY <3>2 DEF Contract!Next
  <2> QED BY <2>1, <2>2
<1>4. CASE StartCamera
  <2>1. running /\ ~capturing /\ ~(left > 0)
    BY <1>4 DEF StartCamera, IInv, CaptureInv, FrameInv
  <2>2. CASE capturing'
    <3>1. running'
      BY <1>4, <2>1, <2>2 DEF StartCamera
    <3> QED BY <1>4, <2>1, <2>2, <3>1, Unnoticed DEF StartCamera
  <2>3. CASE ~capturing'
    <3>1. ~running'
      BY <1>4, <2>1, <2>3 DEF StartCamera
    <3>2. Contract!Stop("oak")
      BY <1>4, <2>1, <2>3, <3>1 DEF StartCamera, Contract!Stop
    <3> QED BY <3>2 DEF Contract!Next
  <2> QED BY <2>2, <2>3
<1>5. CASE Stop
  <2>1. running => capturing
    BY <1>5 DEF Stop, IInv, CaptureInv
  <2> QED BY <1>5, <2>1, Unnoticed DEF Stop
<1>6. CASE StopCamera
  <2>1. ~running /\ left = 0
    BY <1>6 DEF StopCamera, JoinCapture, IInv, CaptureInv
  <2>2. CASE ~capturing
    BY <1>6, <2>1, <2>2, Unnoticed DEF StopCamera, JoinCapture
  <2>3. CASE capturing
    <3>1. Contract!Stop("oak")
      BY <1>6, <2>1, <2>3 DEF StopCamera, JoinCapture, Contract!Stop
    <3> QED BY <3>1 DEF Contract!Next
  <2> QED BY <2>2, <2>3
<1>7. CASE Halt
  <2>1. ~running /\ ~capturing
    BY <1>7 DEF Halt, JoinCapture, IInv, CaptureInv
  <2> QED BY <1>7, <2>1, Unnoticed DEF Halt, JoinCapture
<1>8. CASE Disconnect
  <2>1. opened /\ ~running /\ ~capturing /\ ~(left > 0)
    BY <1>8 DEF Disconnect, IInv, DeviceInv, CaptureInv, FrameInv
  <2>2. Contract!Close("oak")
    BY <1>8, <2>1 DEF Disconnect, Contract!Close
  <2> QED BY <2>2 DEF Contract!Next
<1>9. ASSUME NEW f \in FrameType, Callback(f)
      PROVE  [Contract!Next]_(Contract!vars)
  <2>1. left = 0 /\ left' > 0
    BY <1>9 DEF Callback, Images, FrameType
  <2>2. Contract!Deliver("oak", "capture")
    BY <1>9, <2>1 DEF Callback, Contract!Deliver
  <2> QED BY <2>2 DEF Contract!Next
<1>10. CASE FrameReturns \/ Skip
  <2>1. left > 0 /\ left' = left - 1 /\ left \in 0..2
    BY <1>10 DEF FrameReturns, Skip, IInv, TypeOK, FrameInv
  <2>2. CASE left' > 0
    BY <1>10, <2>1, <2>2, Unnoticed DEF FrameReturns, Skip
  <2>3. CASE ~(left' > 0)
    <3>1. Contract!Return("oak", "capture")
      BY <1>10, <2>1, <2>3 DEF FrameReturns, Skip, Contract!Return
    <3> QED BY <3>1 DEF Contract!Next
  <2> QED BY <2>2, <2>3
<1> QED
  BY <1>1, <1>2, <1>3, <1>4, <1>5, <1>6, <1>7, <1>8, <1>9, <1>10
     DEF Next, CallStep, FrameStep

\* Oak3DVision implements what the host relies on: no frame is with the host
\* once stop has returned, and close leaves neither a stream nor a thread.
THEOREM KeepsContract == Spec => Contract!Spec
<1>1. Init => Contract!Init
  BY DEF Init, Contract!Init
<1> QED BY <1>1, Invariance, StepKeepsContract, PTL DEF Spec, Contract!Spec
=============================================================================
