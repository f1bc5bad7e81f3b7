--------------------------- MODULE K4ABackendProofs ---------------------------
(***************************************************************************)
(* Theorems about K4ABackend, for a pool of any images: the images are     *)
(* counted, no joinable thread is overwritten or destroyed, and the        *)
(* backend implements the contract the host relies on.                     *)
(***************************************************************************)
EXTENDS K4ABackend, TLAPS

(***************************************************************************)
(* The inductive invariant.  Where each call has got to, and what that     *)
(* says of the flags and the threads.                                      *)
(***************************************************************************)

\* A thread can be joined, by the flag its owner sets, or is being joined.
JoinableInv ==
  /\ capturer # "none" => running \/ call = "join"
  /\ running => opened /\ capturer # "none"
  /\ sampler # "none" => imuRunning \/ call \in {"stopImu", "joinImu"}
  /\ imuRunning => call = "idle" /\ running

CallInv ==
  /\ call # "idle" => opened
  /\ call \in {"startImu", "stopImu", "joinImu"} => running
  /\ call \in {"join", "delete"} => ~running
  /\ call = "join" => capturer # "none"

\* What a capture refers to was free, and is emitted once.
ImageInv ==
  /\ capturer \notin {"emit", "host"} => capture = {} /\ todo = {}
  /\ todo \cap held = {}
  /\ ImagesAreCounted

IInv == TypeOK /\ JoinableInv /\ CallInv /\ ImageInv

LEMMA InitInv == Init => IInv
<1>1. Init => ImageInv
  BY DEF Init, ImageInv, ImagesAreCounted, References
<1>2. Init => JoinableInv /\ CallInv
  BY DEF Init, JoinableInv, CallInv
<1>3. Init => TypeOK
  <2>1. Init => refs \in [Image -> Nat]
    BY DEF Init
  <2> QED BY <2>1, Zenon DEF Init, TypeOK, Call, ThreadState
<1> QED BY <1>1, <1>2, <1>3 DEF IInv

-----------------------------------------------------------------------------
(* The steps that leave the images alone *)

LEMMA ImagesUntouched ==
  ASSUME ImageInv, UNCHANGED imageVars,
         capturer' \in {"emit", "host"} <=> capturer \in {"emit", "host"}
  PROVE  ImageInv'
  BY DEF ImageInv, imageVars, ImagesAreCounted, References

\* A call of the host moves neither thread through the images.
LEMMA CallKeepsInv ==
  ASSUME IInv, Open \/ Start \/ Stop \/ CallStep
  PROVE  IInv'
<1> USE DEF IInv, TypeOK, JoinableInv, CallInv, Call, ThreadState
<1>1. CASE Open
  <2>1. ImageInv' BY <1>1, ImagesUntouched DEF Open
  <2> QED BY <1>1, <2>1 DEF Open, flagVars, imageVars
<1>2. CASE Start
  <2>1. ImageInv' BY <1>2, ImagesUntouched DEF Start
  <2> QED BY <1>2, <2>1 DEF Start, imageVars
<1>3. CASE Stop
  <2>1. ImageInv' BY <1>3, ImagesUntouched DEF Stop
  <2> QED BY <1>3, <2>1 DEF Stop, imageVars
<1>4. CASE StartImu
  <2>1. ImageInv' BY <1>4, ImagesUntouched DEF StartImu
  <2> QED BY <1>4, <2>1 DEF StartImu, imageVars
<1>5. CASE StopImu
  <2>1. ImageInv' BY <1>5, ImagesUntouched DEF StopImu
  <2> QED BY <1>5, <2>1 DEF StopImu, imageVars
<1>6. CASE JoinImu
  <2>1. ImageInv' BY <1>6, ImagesUntouched DEF JoinImu
  <2> QED BY <1>6, <2>1 DEF JoinImu, flagVars, imageVars
<1>7. CASE StopCapture
  <2>1. ImageInv' BY <1>7, ImagesUntouched DEF StopCapture
  <2> QED BY <1>7, <2>1 DEF StopCapture, AfterStop, imageVars
<1>8. CASE Join
  <2>1. ImageInv' BY <1>8, ImagesUntouched DEF Join
  <2> QED BY <1>8, <2>1 DEF Join, AfterStop, flagVars, imageVars
<1>9. CASE Delete
  <2>1. ImageInv' BY <1>9, ImagesUntouched DEF Delete
  <2> QED BY <1>9, <2>1 DEF Delete, flagVars, imageVars
<1> QED BY <1>1, <1>2, <1>3, <1>4, <1>5, <1>6, <1>7, <1>8, <1>9 DEF CallStep

LEMMA SampleKeepsInv ==
  ASSUME IInv, SampleStep
  PROVE  IInv'
<1>1. ImageInv'
  BY ImagesUntouched DEF IInv, SampleStep, TestImuRunning, SampleTimesOut,
     SampleFails, SampleArrives, SampleReturns
<1> QED
  BY <1>1 DEF IInv, TypeOK, JoinableInv, CallInv, ThreadState, Call, SampleStep,
     TestImuRunning, SampleTimesOut, SampleFails, SampleArrives, SampleReturns,
     callVars, flagVars, imageVars

-----------------------------------------------------------------------------
(* The steps of the capture thread, and a holder that comes back *)

\* Neither the flags nor the call change while the thread goes on.
LEMMA ThreadGoesOn ==
  ASSUME IInv, UNCHANGED <<callVars, flagVars, sampler>>,
         capturer # "none", capturer' # "none"
  PROVE  JoinableInv' /\ CallInv'
  BY DEF IInv, JoinableInv, CallInv, callVars, flagVars

LEMMA ThreadKeepsImages ==
  ASSUME IInv, TestRunning \/ CaptureTimesOut \/ CaptureFails \/ FrameReturns
  PROVE  IInv'
<1>1. JoinableInv' /\ CallInv'
  BY ThreadGoesOn DEF TestRunning, CaptureTimesOut, CaptureFails, FrameReturns
<1>2. ImageInv'
  BY ImagesUntouched DEF IInv, TestRunning, CaptureTimesOut, CaptureFails, FrameReturns
<1> QED
  BY <1>1, <1>2 DEF IInv, TypeOK, ThreadState, TestRunning, CaptureTimesOut,
     CaptureFails, FrameReturns, callVars, flagVars, imageVars

LEMMA ArrivalKeepsInv ==
  ASSUME IInv, CaptureArrives
  PROVE  IInv'
<1>1. JoinableInv' /\ CallInv'  BY ThreadGoesOn DEF CaptureArrives
<1>2. PICK images \in SUBSET {i \in Image : refs[i] = 0} :
        /\ capture' = images /\ todo' = images
        /\ refs' = [i \in Image |-> IF i \in images THEN 2 ELSE refs[i]]
  BY DEF CaptureArrives
<1>3. TypeOK'
  BY <1>2 DEF IInv, TypeOK, ThreadState, CaptureArrives, callVars, flagVars
<1>4. images \cap held = {} /\ capture = {}
  <2>1. \A i \in held : refs[i] # 0
    BY DEF IInv, TypeOK, ImageInv, ImagesAreCounted, References
  <2> QED BY <1>2, <2>1 DEF IInv, ImageInv, CaptureArrives
<1>5. ImagesAreCounted'
  BY <1>2, <1>4 DEF IInv, TypeOK, ImageInv, ImagesAreCounted, References, CaptureArrives
<1> QED BY <1>1, <1>2, <1>3, <1>4, <1>5 DEF IInv, ImageInv, CaptureArrives

LEMMA EmitKeepsInv ==
  ASSUME IInv, NEW i \in Image, EmitImage(i) \/ SkipImage(i)
  PROVE  IInv'
<1>1. JoinableInv' /\ CallInv'  BY ThreadGoesOn DEF EmitImage, SkipImage
<1>2. CASE EmitImage(i)
  <2>1. TypeOK'
    BY <1>2 DEF IInv, TypeOK, ThreadState, EmitImage, callVars, flagVars
  <2>2. i \notin held BY <1>2 DEF IInv, ImageInv, EmitImage
  <2>3. ImagesAreCounted'
    BY <1>2, <2>2 DEF IInv, TypeOK, ImageInv, ImagesAreCounted, References, EmitImage
  <2> QED BY <1>1, <1>2, <2>1, <2>2, <2>3 DEF IInv, ImageInv, EmitImage
<1>3. CASE SkipImage(i)
  <2>1. TypeOK'
    BY <1>3 DEF IInv, TypeOK, SkipImage, callVars, flagVars
  <2>2. ImagesAreCounted'
    BY <1>3 DEF IInv, ImageInv, ImagesAreCounted, References, SkipImage
  <2> QED BY <1>1, <1>3, <2>1, <2>2 DEF IInv, ImageInv, SkipImage
<1> QED BY <1>2, <1>3

LEMMA ReleaseCaptureKeepsInv ==
  ASSUME IInv, ReleaseCapture
  PROVE  IInv'
<1>1. JoinableInv' /\ CallInv'  BY ThreadGoesOn DEF ReleaseCapture
<1>2. \A i \in capture : refs[i] - 2 = (IF i \in held THEN 1 ELSE 0)
  BY DEF IInv, TypeOK, ImageInv, ImagesAreCounted, References
<1>3. TypeOK'
  BY <1>2 DEF IInv, TypeOK, ThreadState, ReleaseCapture, callVars, flagVars
<1>4. ImagesAreCounted'
  BY <1>2 DEF IInv, TypeOK, ImageInv, ImagesAreCounted, References, ReleaseCapture
<1> QED BY <1>1, <1>3, <1>4 DEF IInv, ImageInv, ReleaseCapture

LEMMA HolderKeepsInv ==
  ASSUME IInv, NEW i \in Image, ReleaseHolder(i)
  PROVE  IInv'
<1>1. refs[i] - 1 = (IF i \in capture THEN 2 ELSE 0)
  BY DEF IInv, TypeOK, ImageInv, ImagesAreCounted, References, ReleaseHolder
<1>2. TypeOK'
  BY <1>1 DEF IInv, TypeOK, ReleaseHolder, callVars, flagVars
<1>3. ImagesAreCounted'
  BY <1>1 DEF IInv, TypeOK, ImageInv, ImagesAreCounted, References, ReleaseHolder
<1>4. JoinableInv' /\ CallInv'
  BY DEF IInv, JoinableInv, CallInv, ReleaseHolder, callVars, flagVars
<1> QED BY <1>2, <1>3, <1>4 DEF IInv, ImageInv, ReleaseHolder

LEMMA StepKeepsInv == IInv /\ [Next]_vars => IInv'
<1> SUFFICES ASSUME IInv, [Next]_vars PROVE IInv'
  OBVIOUS
<1>1. CASE Open \/ Start \/ Stop \/ CallStep  BY <1>1, CallKeepsInv
<1>2. CASE CaptureStep
  BY <1>2, ThreadKeepsImages, ArrivalKeepsInv, EmitKeepsInv, ReleaseCaptureKeepsInv
     DEF CaptureStep, WaitEnds
<1>3. CASE SampleStep  BY <1>3, SampleKeepsInv
<1>4. CASE \E i \in Image : ReleaseHolder(i)  BY <1>4, HolderKeepsInv
<1>5. CASE UNCHANGED vars
  BY <1>5 DEF IInv, TypeOK, JoinableInv, CallInv, ImageInv, ImagesAreCounted,
     References, vars, callVars, flagVars, imageVars
<1> QED BY <1>1, <1>2, <1>3, <1>4, <1>5 DEF Next

THEOREM Invariance == Spec => []IInv
  BY InitInv, StepKeepsInv, PTL DEF Spec

-----------------------------------------------------------------------------
(* The theorems *)

\* Types, whatever the pool: no reference count ever goes below zero.
THEOREM TypeCorrect == Spec => []TypeOK
<1>1. IInv => TypeOK BY DEF IInv
<1> QED BY <1>1, Invariance, PTL

\* An image of libk4a lives exactly as long as the capture, its thread or the
\* host uses it (emitImage, handleCapture, release_image_holder).
THEOREM ImagesCounted == Spec => []ImagesAreCounted
<1>1. IInv => ImagesAreCounted BY DEF IInv, ImageInv
<1> QED BY <1>1, Invariance, PTL

\* backend_start and backend_close never meet a thread that nobody joined,
\* even one that gave up by itself.
THEOREM JoinedFirst == Spec => ThreadsAreJoinedFirst
<1>1. IInv /\ [Next]_vars =>
        [/\ Start => capturer = "none"
         /\ StartImu /\ imuOn' # imuOn => sampler = "none"
         /\ Delete => capturer = "none" /\ sampler = "none"]_vars
  BY DEF IInv, JoinableInv, CallInv, Start, StartImu, Delete
<1> QED BY <1>1, Invariance, PTL DEF Spec, ThreadsAreJoinedFirst

-----------------------------------------------------------------------------
(* The contract.  A joined capture thread ends the streaming, since the IMU's *)
(* thread was joined before it; on_frame is entered and left by one step.     *)

Delivering == [c \in {"kinect"} |->
                 {t \in {"capturer", "sampler"} :
                    (IF t = "capturer" THEN capturer ELSE sampler) = "host"}]

Streaming == IF capturer # "none" \/ sampler # "none" THEN {"kinect"} ELSE {}

\* Steps that neither begin nor end anything the host could notice.
LEMMA Unnoticed ==
  ASSUME opened' = opened,
         (capturer # "none" \/ sampler # "none")' <=> (capturer # "none" \/ sampler # "none"),
         (capturer = "host")' <=> (capturer = "host"),
         (sampler = "host")' <=> (sampler = "host")
  PROVE  UNCHANGED Contract!vars
<1>1. Delivering' = Delivering
  <2>1. {t \in {"capturer", "sampler"} :
           (IF t = "capturer" THEN capturer ELSE sampler)' = "host"}
        = {t \in {"capturer", "sampler"} :
             (IF t = "capturer" THEN capturer ELSE sampler) = "host"}
    OBVIOUS
  <2> QED BY <2>1 DEF Delivering
<1>2. Streaming' = Streaming  BY DEF Streaming
<1> QED BY <1>1, <1>2 DEF Contract!vars, Delivering, Streaming

LEMMA CallsKeepContract ==
  ASSUME IInv, Open \/ Start \/ Stop \/ CallStep
  PROVE  [Contract!Next]_(Contract!vars)
<1> USE DEF IInv, JoinableInv, CallInv
<1>1. CASE Open
  <2>1. Contract!Open("kinect")
    BY <1>1 DEF Open, Contract!Open
  <2> QED BY <2>1 DEF Contract!Next
<1>2. CASE Start
  <2>1. Contract!Start("kinect")
    BY <1>2 DEF Start, Contract!Start
  <2> QED BY <2>1 DEF Contract!Next
<1>3. CASE Stop \/ StartImu \/ StopImu \/ JoinImu \/ StopCapture
  BY <1>3, Unnoticed DEF Stop, StartImu, StopImu, JoinImu, StopCapture, flagVars
<1>4. CASE Join
  <2>1. sampler = "none" /\ sampler' = "none" /\ capturer # "none" /\ capturer # "host"
    BY <1>4 DEF Join, TypeOK, ThreadState
  <2>2. Delivering["kinect"] = {} /\ Delivering' = Delivering
    BY <1>4, <2>1 DEF Join, Delivering
  <2>3. Contract!Stop("kinect")
    BY <1>4, <2>1, <2>2 DEF Join, Contract!Stop, Delivering
  <2> QED BY <2>3 DEF Contract!Next
<1>5. CASE Delete
  <2>1. Contract!Close("kinect")
    BY <1>5 DEF Delete, Contract!Close
  <2> QED BY <2>1 DEF Contract!Next
<1> QED BY <1>1, <1>2, <1>3, <1>4, <1>5 DEF CallStep

\* A thread is with the host in the states "host", and nowhere else.
LEMMA CapturerKeepsContract ==
  ASSUME IInv, CaptureStep
  PROVE  [Contract!Next]_(Contract!vars)
<1>1. CASE TestRunning \/ WaitEnds \/ ReleaseCapture
  BY <1>1, Unnoticed DEF TestRunning, WaitEnds, CaptureTimesOut, CaptureFails,
     CaptureArrives, ReleaseCapture, callVars
<1>2. ASSUME NEW i \in Image, SkipImage(i)
      PROVE  [Contract!Next]_(Contract!vars)
  BY <1>2, Unnoticed DEF SkipImage, callVars
<1>3. ASSUME NEW i \in Image, EmitImage(i)
      PROVE  [Contract!Next]_(Contract!vars)
  <2>1. "capturer" \notin Delivering["kinect"]
    BY <1>3 DEF EmitImage, Delivering
  <2>2. Delivering' = [Delivering EXCEPT !["kinect"] = @ \cup {"capturer"}]
    BY <1>3 DEF EmitImage, Delivering
  <2>3. Contract!Deliver("kinect", "capturer")
    BY <1>3, <2>1, <2>2 DEF EmitImage, Contract!Deliver, Delivering, callVars
  <2> QED BY <2>3 DEF Contract!Next
<1>4. CASE FrameReturns
  <2>1. "capturer" \in Delivering["kinect"]
    BY <1>4 DEF FrameReturns, Delivering
  <2>2. Delivering' = [Delivering EXCEPT !["kinect"] = @ \ {"capturer"}]
    BY <1>4 DEF FrameReturns, Delivering
  <2>3. Contract!Return("kinect", "capturer")
    BY <1>4, <2>1, <2>2 DEF FrameReturns, Contract!Return, Delivering, callVars
  <2> QED BY <2>3 DEF Contract!Next
<1> QED BY <1>1, <1>2, <1>3, <1>4 DEF CaptureStep

LEMMA SamplerKeepsContract ==
  ASSUME IInv, SampleStep
  PROVE  [Contract!Next]_(Contract!vars)
<1>1. CASE TestImuRunning \/ SampleTimesOut \/ SampleFails
  BY <1>1, Unnoticed DEF TestImuRunning, SampleTimesOut, SampleFails, callVars
<1>2. CASE SampleArrives
  <2>1. "sampler" \notin Delivering["kinect"]
    BY <1>2 DEF SampleArrives, Delivering
  <2>2. Delivering' = [Delivering EXCEPT !["kinect"] = @ \cup {"sampler"}]
    BY <1>2 DEF SampleArrives, Delivering
  <2>3. Contract!Deliver("kinect", "sampler")
    BY <1>2, <2>1, <2>2 DEF SampleArrives, Contract!Deliver, Delivering, callVars
  <2> QED BY <2>3 DEF Contract!Next
<1>3. CASE SampleReturns
  <2>1. "sampler" \in Delivering["kinect"]
    BY <1>3 DEF SampleReturns, Delivering
  <2>2. Delivering' = [Delivering EXCEPT !["kinect"] = @ \ {"sampler"}]
    BY <1>3 DEF SampleReturns, Delivering
  <2>3. Contract!Return("kinect", "sampler")
    BY <1>3, <2>1, <2>2 DEF SampleReturns, Contract!Return, Delivering, callVars
  <2> QED BY <2>3 DEF Contract!Next
<1> QED BY <1>1, <1>2, <1>3 DEF SampleStep

LEMMA StepKeepsContract ==
  IInv /\ [Next]_vars => [Contract!Next]_(Contract!vars)
<1> SUFFICES ASSUME IInv, [Next]_vars PROVE [Contract!Next]_(Contract!vars)
  OBVIOUS
<1>1. CASE \E i \in Image : ReleaseHolder(i)
  BY <1>1, Unnoticed DEF ReleaseHolder, callVars
<1>2. CASE UNCHANGED vars
  BY <1>2, Unnoticed DEF vars, callVars
<1> QED
  BY <1>1, <1>2, CallsKeepContract, CapturerKeepsContract, SamplerKeepsContract
     DEF Next

\* backend_start, backend_stop and backend_close implement what the host relies
\* on: on_frame runs only between start and the end of stop, and close leaves
\* neither a stream nor a thread behind.
THEOREM KeepsContract == Spec => Contract!Spec
<1>1. Init => Contract!Init
  BY DEF Init, Contract!Init
<1> QED BY <1>1, Invariance, StepKeepsContract, PTL DEF Spec, Contract!Spec
=============================================================================
