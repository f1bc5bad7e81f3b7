------------------------ MODULE FreenectBackendProofs -------------------------
(***************************************************************************)
(* Theorems about FreenectBackend, for any number of cameras on the one    *)
(* context of libfreenect: the last order to a motor wins, no call touches *)
(* the streams of a camera whose thread is alive, and while no two of them *)
(* stream the backend keeps its contract.                                  *)
(***************************************************************************)
EXTENDS FreenectBackend, TLAPS

\* A camera's thread ends before anything else of the camera does.
ThreadInv ==
  /\ \A c \in Camera :
       pump[c] # "none" => c \in running \/ (call.at = "join" /\ call.cam = c)
  /\ StreamsChangeWithoutThread

CallInv ==
  /\ call.at = "idle" => call = Idle
  /\ call.at # "idle" => call.cam \in opened
  /\ call.at \in {"startVideo", "startDepth", "spawn"} => call.cam \in running
  /\ call.at \in {"join", "stopVideo", "stopDepth", "delete"} => call.cam \notin running

\* An order is in the thread's hands until it is sent.
OrderInv ==
  \A c \in Camera :
    /\ order[c] # None <=> pump[c] = "send"
    /\ asked[c] = IF want[c] # None THEN want[c]
                  ELSE IF order[c] # None THEN order[c] ELSE tilt[c]

IInv == TypeOK /\ ThreadInv /\ CallInv /\ OrderInv

LEMMA InitInv == Init => IInv
<1> SUFFICES ASSUME Init PROVE IInv
  OBVIOUS
<1>1. TypeOK  BY DEF Init, TypeOK, Idle, PumpState, CallState
<1>2. ThreadInv /\ CallInv
  BY DEF Init, ThreadInv, CallInv, StreamsChangeWithoutThread, Idle
<1>3. OrderInv  BY DEF Init, OrderInv
<1> QED BY <1>1, <1>2, <1>3 DEF IInv

-----------------------------------------------------------------------------
(* The calls of the host *)

HostStep ==
  \/ CallStep
  \/ \E c \in Camera : Open(c) \/ Start(c) \/ Stop(c)

LEMMA HostKeepsTypes ==
  ASSUME IInv, HostStep
  PROVE  TypeOK'
<1> USE DEF IInv, TypeOK, CallInv, CallState, PumpState, Idle, At, Done,
            usbVars, threadVars, motorVars
<1>1. ASSUME NEW c \in Camera, Open(c) PROVE TypeOK'
  BY <1>1 DEF Open
<1>2. ASSUME NEW c \in Camera, Start(c) PROVE TypeOK'
  <2>1. PICK op \in {"startVideo", "startDepth", "spawn"} : call' = At(op, c)
    BY <1>2 DEF Start
  <2>2. call' \in [at : CallState, cam : Camera \cup {None}, closing : BOOLEAN]
    BY <1>2, <2>1 DEF Start
  <2> QED BY <1>2, <2>2 DEF Start
<1>3. ASSUME NEW c \in Camera, Stop(c) PROVE TypeOK'
  BY <1>3 DEF Stop
<1>4. CASE StartVideo \/ StartDepth
  <2>1. \A op \in CallState :
          At(op, call.cam) \in [at : CallState, cam : Camera \cup {None}, closing : BOOLEAN]
    OBVIOUS
  <2>2. call' \in [at : CallState, cam : Camera \cup {None}, closing : BOOLEAN]
    <3>1. (\E op \in {"startDepth", "spawn"} : call' = At(op, call.cam)) \/ call' = Idle
      BY <1>4 DEF StartVideo, StartDepth, Refused
    <3>2. CASE call' = Idle
      BY <3>2
    <3>3. ASSUME NEW op \in {"startDepth", "spawn"}, call' = At(op, call.cam)
          PROVE  call' \in [at : CallState, cam : Camera \cup {None}, closing : BOOLEAN]
      <4>1. op \in CallState  BY <3>3
      <4> HIDE DEF At, CallState
      <4> QED BY <2>1, <3>3, <4>1
    <3> QED BY <3>1, <3>2, <3>3
  <2>3. call.cam \in opened
    BY <1>4 DEF StartVideo, StartDepth
  <2> QED BY <1>4, <2>2, <2>3 DEF StartVideo, StartDepth, Refused
<1>6. CASE Spawn       BY <1>6 DEF Spawn
<1>7. CASE Join        BY <1>7 DEF Join
<1>8. CASE StopVideo   BY <1>8 DEF StopVideo
<1>9. CASE StopDepth   BY <1>9 DEF StopDepth
<1>10. CASE Delete     BY <1>10 DEF Delete
<1> QED
  BY <1>1, <1>2, <1>3, <1>4, <1>6, <1>7, <1>8, <1>9, <1>10
     DEF HostStep, CallStep

\* The flags and the call, of which the thread's steps change nothing.
LEMMA HostKeepsThreads ==
  ASSUME IInv, HostStep
  PROVE  ThreadInv' /\ CallInv'
<1> USE DEF IInv, TypeOK, ThreadInv, CallInv, StreamsChangeWithoutThread, Idle,
            At, Done, usbVars, threadVars, motorVars
<1>1. ASSUME NEW c \in Camera, Open(c) PROVE ThreadInv' /\ CallInv'
  BY <1>1 DEF Open
<1>2. ASSUME NEW c \in Camera, Start(c) PROVE ThreadInv' /\ CallInv'
  BY <1>2 DEF Start
<1>3. ASSUME NEW c \in Camera, Stop(c) PROVE ThreadInv' /\ CallInv'
  <2>1. call = Idle /\ call.at = "idle" /\ running' = running \ {c} /\ opened' = opened
        /\ pump' = pump
    BY <1>3 DEF Stop
  <2>2. c \notin running => pump[c] = "none"
    BY <2>1
  <2>3. CASE c \in running
    <3>1. call'.at = "join" /\ call'.cam = c
      BY <1>3, <2>3 DEF Stop
    <3> QED BY <1>3, <2>1, <3>1 DEF Stop
  <2>4. CASE c \notin running
    <3>1. call' = Idle \/ (call'.at = "delete" /\ call'.cam = c)
      BY <1>3, <2>4 DEF Stop
    <3> QED BY <1>3, <2>1, <2>2, <2>4, <3>1 DEF Stop
  <2> QED BY <2>3, <2>4
<1>4. CASE StartVideo  BY <1>4 DEF StartVideo, Refused
<1>5. CASE StartDepth  BY <1>5 DEF StartDepth, Refused
<1>6. CASE Spawn       BY <1>6 DEF Spawn
<1>7. CASE Join        BY <1>7 DEF Join
<1>8. CASE StopVideo   BY <1>8 DEF StopVideo
<1>9. CASE StopDepth   BY <1>9 DEF StopDepth
<1>10. CASE Delete     BY <1>10 DEF Delete
<1> QED
  BY <1>1, <1>2, <1>3, <1>4, <1>5, <1>6, <1>7, <1>8, <1>9, <1>10
     DEF HostStep, CallStep

\* Only delete touches an order, and the thread that may hold one is gone.
LEMMA HostKeepsOrders ==
  ASSUME IInv, HostStep
  PROVE  OrderInv'
<1> USE DEF IInv, TypeOK, ThreadInv, CallInv, OrderInv, StreamsChangeWithoutThread,
            usbVars, threadVars, motorVars
<1>1. ASSUME NEW c \in Camera, Open(c) \/ Start(c) \/ Stop(c) PROVE OrderInv'
  BY <1>1 DEF Open, Start, Stop
<1>2. CASE StartVideo \/ StartDepth \/ StopVideo \/ StopDepth
  BY <1>2 DEF StartVideo, StartDepth, StopVideo, StopDepth
<1>3. CASE Spawn \/ Join
  BY <1>3 DEF Spawn, Join
<1>4. CASE Delete
  BY <1>4 DEF Delete
<1> QED BY <1>1, <1>2, <1>3, <1>4 DEF HostStep, CallStep

-----------------------------------------------------------------------------
(* The threads, and the order of a motor *)

ThreadStep == \E t \in Camera : PumpStep(t) \/ \E c \in Camera : Dispatch(t, c)

LEMMA ThreadsKeepTypes ==
  ASSUME IInv, NEW t \in Camera, PumpStep(t) \/ \E c \in Camera : Dispatch(t, c)
  PROVE  TypeOK'
<1> USE DEF IInv, TypeOK, PumpState, Goes, usbVars, motorVars
<1>1. ASSUME NEW c \in Camera, Dispatch(t, c) PROVE TypeOK'
  BY <1>1 DEF Dispatch
<1>2. CASE TestRunning(t) \/ FrameReturns(t)  BY <1>2 DEF TestRunning, FrameReturns
<1>3. CASE PumpReturns(t)  BY <1>3 DEF PumpReturns, EventsHandled, EventsFail
<1>4. CASE TakeOrder(t)  BY <1>4 DEF TakeOrder
<1>5. CASE SendOrder(t)  BY <1>5 DEF SendOrder
<1>6. CASE ReadState(t) \/ SampleReturns(t)  BY <1>6 DEF ReadState, SampleReturns
<1> QED BY <1>1, <1>2, <1>3, <1>4, <1>5, <1>6 DEF PumpStep

\* A thread neither begins nor is joined by its own steps.
LEMMA ThreadsGoOn ==
  ASSUME IInv, NEW t \in Camera, NEW from, NEW to,
         Goes(t, from, to), from # "none", to # "none",
         UNCHANGED <<opened, running, call>>
  PROVE  ThreadInv' /\ CallInv'
<1> USE DEF IInv, TypeOK, Goes
<1>1. \A c \in Camera : pump'[c] # "none" <=> pump[c] # "none"
  OBVIOUS
<1>2. call.at # "idle" => call.cam \in Camera
  BY DEF CallInv
<1> QED
  BY <1>1, <1>2 DEF ThreadInv, CallInv, StreamsChangeWithoutThread, Idle

LEMMA ThreadsKeepThreads ==
  ASSUME IInv, NEW t \in Camera, PumpStep(t) \/ \E c \in Camera : Dispatch(t, c)
  PROVE  ThreadInv' /\ CallInv'
<1> USE DEF usbVars, motorVars
<1>1. ASSUME NEW c \in Camera, Dispatch(t, c) PROVE ThreadInv' /\ CallInv'
  BY <1>1, ThreadsGoOn DEF Dispatch
<1>2. CASE TestRunning(t)  BY <1>2, ThreadsGoOn DEF TestRunning
<1>3. CASE FrameReturns(t)  BY <1>3, ThreadsGoOn DEF FrameReturns
<1>4. CASE EventsHandled(t)  BY <1>4, ThreadsGoOn DEF EventsHandled
<1>5. CASE EventsFail(t)  BY <1>5, ThreadsGoOn DEF EventsFail
<1>6. CASE TakeOrder(t)
  <2> PICK next \in {"state", "test"} :
        Goes(t, "motor", IF want[t] = None THEN next ELSE "send")
    BY <1>6 DEF TakeOrder
  <2> QED BY <1>6, ThreadsGoOn DEF TakeOrder
<1>7. CASE SendOrder(t)  BY <1>7, ThreadsGoOn DEF SendOrder
<1>8. CASE ReadState(t)  BY <1>8, ThreadsGoOn DEF ReadState
<1>9. CASE SampleReturns(t)  BY <1>9, ThreadsGoOn DEF SampleReturns
<1> QED
  BY <1>1, <1>2, <1>3, <1>4, <1>5, <1>6, <1>7, <1>8, <1>9 DEF PumpStep, PumpReturns

\* The steps in between leave the orders alone.
LEMMA ThreadsKeepOrders ==
  ASSUME IInv, NEW t \in Camera, PumpStep(t) \/ \E c \in Camera : Dispatch(t, c)
  PROVE  OrderInv'
<1> USE DEF IInv, TypeOK, OrderInv, Goes
<1>1. ASSUME NEW c \in Camera, Dispatch(t, c) PROVE OrderInv'
  BY <1>1 DEF Dispatch, motorVars
<1>2. CASE TestRunning(t) \/ FrameReturns(t)
  BY <1>2 DEF TestRunning, FrameReturns, motorVars
<1>3. CASE PumpReturns(t)
  BY <1>3 DEF PumpReturns, EventsHandled, EventsFail, motorVars
<1>4. CASE ReadState(t) \/ SampleReturns(t)
  BY <1>4 DEF ReadState, SampleReturns, motorVars
<1>5. CASE TakeOrder(t)
  <2>1. order[t] = None  BY <1>5 DEF TakeOrder
  <2>2. want'[t] = None /\ order'[t] = want[t] /\ tilt' = tilt /\ asked' = asked
        /\ (order'[t] # None <=> pump'[t] = "send")
    BY <1>5 DEF TakeOrder
  <2>3. \A c \in Camera \ {t} :
          want'[c] = want[c] /\ order'[c] = order[c] /\ pump'[c] = pump[c]
    BY <1>5 DEF TakeOrder
  <2> QED BY <2>1, <2>2, <2>3
<1>6. CASE SendOrder(t)
  <2>1. order[t] # None  BY <1>6 DEF SendOrder
  <2>2. tilt'[t] = order[t] /\ order'[t] = None /\ want' = want /\ asked' = asked
        /\ pump'[t] # "send"
    BY <1>6 DEF SendOrder
  <2>3. \A c \in Camera \ {t} :
          tilt'[c] = tilt[c] /\ order'[c] = order[c] /\ pump'[c] = pump[c]
    BY <1>6 DEF SendOrder
  <2> QED BY <2>1, <2>2, <2>3
<1> QED BY <1>1, <1>2, <1>3, <1>4, <1>5, <1>6 DEF PumpStep

-----------------------------------------------------------------------------

\* An order asked for is in the slot at once; it must be something.
LEMMA SettingKeepsInv ==
  ASSUME None \notin Tilt, IInv, NEW c \in Camera, NEW v \in Tilt, SetControl(c, v)
  PROVE  IInv'
<1> USE DEF IInv, SetControl, usbVars, threadVars
<1>1. TypeOK'  BY DEF TypeOK
<1>2. ThreadInv' /\ CallInv'
  BY DEF ThreadInv, CallInv, StreamsChangeWithoutThread
<1>3. OrderInv'  BY DEF TypeOK, OrderInv
<1> QED BY <1>1, <1>2, <1>3

LEMMA StepKeepsInv ==
  ASSUME None \notin Tilt
  PROVE  IInv /\ [Next]_vars => IInv'
<1> SUFFICES ASSUME IInv, [Next]_vars PROVE IInv'
  OBVIOUS
<1>1. CASE HostStep
  BY <1>1, HostKeepsTypes, HostKeepsThreads, HostKeepsOrders DEF IInv
<1>2. ASSUME NEW t \in Camera, PumpStep(t) \/ \E c \in Camera : Dispatch(t, c)
      PROVE  IInv'
  BY <1>2, ThreadsKeepTypes, ThreadsKeepThreads, ThreadsKeepOrders DEF IInv
<1>3. ASSUME NEW c \in Camera, NEW v \in Tilt, SetControl(c, v) PROVE IInv'
  BY <1>3, SettingKeepsInv
<1>4. CASE UNCHANGED vars
  BY <1>4 DEF IInv, TypeOK, ThreadInv, CallInv, OrderInv,
     StreamsChangeWithoutThread, vars, usbVars, threadVars, motorVars
<1> QED BY <1>1, <1>2, <1>3, <1>4 DEF Next, HostStep

THEOREM Invariance ==
  ASSUME None \notin Tilt
  PROVE  Spec => []IInv
  BY InitInv, StepKeepsInv, PTL DEF Spec

-----------------------------------------------------------------------------
(* The theorems *)

\* Types, whatever the cameras: a motor and a stream belong to an open camera.
THEOREM TypeCorrect ==
  ASSUME None \notin Tilt
  PROVE  Spec => []TypeOK
<1>1. IInv => TypeOK BY DEF IInv
<1> QED BY <1>1, Invariance, PTL

\* The exchange of want_tilt neither loses nor reorders what the worker of the
\* control tree writes while the thread runs, ends or is started again.
THEOREM LastOrderIsLast ==
  ASSUME None \notin Tilt
  PROVE  Spec => []LastOrderWins
<1>1. IInv => LastOrderWins BY DEF IInv, TypeOK, OrderInv, LastOrderWins
<1> QED BY <1>1, Invariance, PTL

\* backend_start and backend_stop tell libfreenect to change the streams of a
\* camera only when that camera's own thread is gone.
THEOREM StreamsChangeAlone ==
  ASSUME None \notin Tilt
  PROVE  Spec => []StreamsChangeWithoutThread
<1>1. IInv => StreamsChangeWithoutThread BY DEF IInv, ThreadInv
<1> QED BY <1>1, Invariance, PTL

-----------------------------------------------------------------------------
(* The slot of a motor: a latest value, emptied by close. *)

\* Whoever has no motor was asked nothing.
MotorInv ==
  \A c \in Camera \ motor : want[c] = None /\ order[c] = None /\ tilt[c] = None /\ asked[c] = None

LEMMA MotorInductive ==
  /\ Init => MotorInv
  /\ IInv /\ MotorInv /\ [Next]_vars => MotorInv'
<1> USE DEF MotorInv, IInv, TypeOK
<1>1. Init => MotorInv
  BY DEF Init
<1>2. ASSUME IInv, MotorInv, [Next]_vars PROVE MotorInv'
  <2> USE <1>2
  <2>1. CASE CallStep
    <3>1. CASE Delete
      BY <3>1 DEF Delete
    <3>2. CASE StartVideo \/ StartDepth \/ Spawn \/ Join \/ StopVideo \/ StopDepth
      BY <3>2 DEF StartVideo, StartDepth, Spawn, Join, StopVideo, StopDepth, usbVars, motorVars
    <3> QED BY <2>1, <3>1, <3>2 DEF CallStep
  <2>2. ASSUME NEW c \in Camera, Open(c) \/ Start(c) \/ Stop(c) PROVE MotorInv'
    BY <2>2 DEF Open, Start, Stop, usbVars, motorVars
  <2>3. ASSUME NEW c \in Camera, NEW v \in Tilt, SetControl(c, v) PROVE MotorInv'
    BY <2>3 DEF SetControl, usbVars
  <2>4. ASSUME NEW t \in Camera, NEW c \in Camera, Dispatch(t, c) PROVE MotorInv'
    BY <2>4 DEF Dispatch, usbVars, motorVars
  <2>5. ASSUME NEW t \in Camera, PumpStep(t) PROVE MotorInv'
    <3>1. CASE TakeOrder(t)
      BY <3>1 DEF TakeOrder, usbVars
    <3>2. CASE SendOrder(t)
      BY <3>2 DEF SendOrder, usbVars
    <3>3. CASE TestRunning(t) \/ FrameReturns(t) \/ PumpReturns(t) \/ ReadState(t) \/ SampleReturns(t)
      BY <3>3 DEF TestRunning, FrameReturns, PumpReturns, EventsHandled, EventsFail, ReadState,
         SampleReturns, usbVars, motorVars
    <3> QED BY <2>5, <3>1, <3>2, <3>3 DEF PumpStep
  <2>6. CASE UNCHANGED vars
    BY <2>6 DEF vars, usbVars, motorVars
  <2> QED BY <2>1, <2>2, <2>3, <2>4, <2>5, <2>6 DEF Next
<1> QED BY <1>1, <1>2

\* Steps that concern another camera's motor, or none.
LEMMA SlotUntouched ==
  ASSUME NEW c \in Camera, (c \in motor') = (c \in motor),
         want'[c] = want[c], order'[c] = order[c], tilt'[c] = tilt[c], asked'[c] = asked[c]
  PROVE  UNCHANGED Slot(c)!vars
  BY DEF Slot!vars

\* An open and a close of the camera are the beginning and the end of a slot.
LEMMA CallsKeepSlot ==
  ASSUME IInv, MotorInv, NEW c \in Camera,
         CallStep \/ \E d \in Camera : Open(d) \/ Start(d) \/ Stop(d)
  PROVE  [Slot(c)!Next \/ Slot(c)!Reset]_(Slot(c)!vars)
<1> USE DEF IInv, TypeOK
<1>1. CASE Delete
  <2>1. CASE call.cam = c
    BY <1>1, <2>1 DEF Delete, Slot!Reset, Slot!Empty
  <2>2. CASE call.cam # c
    BY <1>1, <2>2, SlotUntouched DEF Delete
  <2> QED BY <2>1, <2>2
<1>2. ASSUME NEW d \in Camera, Open(d) PROVE [Slot(c)!Next \/ Slot(c)!Reset]_(Slot(c)!vars)
  <2>1. UNCHANGED motorVars /\ motor' \in {motor, motor \cup {d}} /\ d \notin motor
    BY <1>2 DEF Open
  <2>2. CASE (c \in motor') = (c \in motor)
    BY <2>1, <2>2, SlotUntouched DEF motorVars
  <2>3. CASE (c \in motor') # (c \in motor)
    <3>1. c \notin motor
      BY <2>1, <2>3
    <3> QED BY <2>1, <3>1 DEF MotorInv, motorVars, Slot!Reset, Slot!Empty
  <2> QED BY <2>2, <2>3
<1>3. CASE UNCHANGED <<motor, motorVars>>
  BY <1>3, SlotUntouched DEF motorVars
<1> QED
  BY <1>1, <1>2, <1>3 DEF CallStep, StartVideo, StartDepth, Spawn, Join, StopVideo, StopDepth,
     Start, Stop, usbVars

\* The worker writes, the thread takes and sends.
LEMMA ThreadsKeepSlot ==
  ASSUME None \notin Tilt, IInv, NEW c \in Camera, NEW t \in Camera,
         \/ PumpStep(t) \/ \E d \in Camera : Dispatch(t, d)
         \/ \E v \in Tilt : SetControl(t, v)
  PROVE  [Slot(c)!Next]_(Slot(c)!vars)
<1> USE DEF IInv, TypeOK
<1>1. CASE \E v \in Tilt : SetControl(t, v)
  <2>1. PICK v \in Tilt : SetControl(t, v)
    BY <1>1
  <2>2. CASE t = c
    <3>1. Slot(c)!Put(v)
      BY <2>1, <2>2 DEF SetControl, usbVars, Slot!Put
    <3> QED BY <3>1 DEF Slot!Next
  <2>3. CASE t # c
    BY <2>1, <2>3, SlotUntouched DEF SetControl, usbVars
  <2> QED BY <2>2, <2>3
<1>2. CASE TakeOrder(t)
  <2>1. order[t] = None /\ motor' = motor /\ tilt' = tilt /\ asked' = asked
        /\ want' = [want EXCEPT ![t] = None] /\ order' = [order EXCEPT ![t] = want[t]]
    BY <1>2 DEF TakeOrder, Goes, OrderInv, usbVars
  <2>2. CASE t = c /\ want[t] # None
    <3>1. Slot(c)!Take
      BY <2>1, <2>2 DEF Slot!Take
    <3> QED BY <3>1 DEF Slot!Next
  <2>3. CASE t # c \/ want[t] = None
    BY <2>1, <2>3, SlotUntouched
  <2> QED BY <2>2, <2>3
<1>3. CASE SendOrder(t)
  <2>1. order[t] # None /\ motor' = motor /\ want' = want /\ asked' = asked
        /\ tilt' = [tilt EXCEPT ![t] = order[t]] /\ order' = [order EXCEPT ![t] = None]
    BY <1>3 DEF SendOrder, Goes, OrderInv, usbVars
  <2>2. CASE t = c
    <3>1. Slot(c)!Give
      BY <2>1, <2>2 DEF Slot!Give
    <3> QED BY <3>1 DEF Slot!Next
  <2>3. CASE t # c
    BY <2>1, <2>3, SlotUntouched
  <2> QED BY <2>2, <2>3
<1>4. CASE UNCHANGED <<motor, motorVars>>
  BY <1>4, SlotUntouched DEF motorVars
<1> QED
  BY <1>1, <1>2, <1>3, <1>4 DEF PumpStep, PumpReturns, TestRunning, FrameReturns, EventsHandled,
     EventsFail, ReadState, SampleReturns, Dispatch, usbVars

\* Any number of cameras, opened and closed as often as one likes, while the
\* context they share has any of them pumped on any thread: the orders to the
\* motor of each arrive in the order they were given in, and the last one does,
\* unless the camera is closed before.
THEOREM OrdersArriveInOrder ==
  ASSUME None \notin Tilt
  PROVE  Spec => \A c \in Camera : Slot(c)!SpecOfMany
<1>1. Spec => [](IInv /\ MotorInv)
  BY Invariance, InitInv, StepKeepsInv, MotorInductive, PTL DEF Spec
<1>2. ASSUME NEW c \in Camera
      PROVE  Spec => Slot(c)!SpecOfMany
  <2>1. Init => Slot(c)!Init
    BY DEF Init, Slot!Init, Slot!Empty
  <2>2. IInv /\ MotorInv /\ [Next]_vars => [Slot(c)!Next \/ Slot(c)!Reset]_(Slot(c)!vars)
    <3> SUFFICES ASSUME IInv, MotorInv, [Next]_vars
                 PROVE  [Slot(c)!Next \/ Slot(c)!Reset]_(Slot(c)!vars)
      OBVIOUS
    <3>1. CASE UNCHANGED vars
      BY <3>1, SlotUntouched DEF vars, usbVars, motorVars
    <3> QED BY <3>1, CallsKeepSlot, ThreadsKeepSlot DEF Next
  <2> QED BY <1>1, <2>1, <2>2, PTL DEF Spec, Slot!SpecOfMany
<1> QED BY <1>2

-----------------------------------------------------------------------------
(* The contract, for as long as one Kinect streams at a time: open may be   *)
(* as many as there are.                                                    *)

Streaming == running \cup {c \in Camera : pump[c] # "none"}
OneStreams == \A c, d \in Streaming : c = d

Delivering == [c \in Camera |-> {t \in Camera : serving[t] = c}]

\* A thread that is with the host is there with a frame of its own camera: it
\* pumps every camera that streams, and there is no other.
ServeInv ==
  \A t \in Camera : serving[t] = IF pump[t] \in {"host", "sample"} THEN t ELSE None

LEMMA ServeInductive ==
  ASSUME None \notin Camera
  PROVE  /\ Init => ServeInv
         /\ IInv /\ OneStreams /\ ServeInv /\ [Next]_vars => ServeInv'
<1> USE DEF ServeInv, IInv, TypeOK
<1>1. Init => ServeInv
  BY DEF Init
<1>2. ASSUME IInv, OneStreams, ServeInv, [Next]_vars PROVE ServeInv'
  <2> USE <1>2
  <2>1. CASE Spawn \/ Join
    <3>1. call.cam \in Camera
      BY <2>1 DEF CallInv, Spawn, Join
    <3>2. call.at \in {"spawn", "join"} /\ serving' = serving
          /\ \E state \in {"test", "none"} : pump' = [pump EXCEPT ![call.cam] = state]
      BY <2>1 DEF Spawn, Join
    <3>3. pump[call.cam] \in {"none", "ended"}
      BY <2>1, <3>2 DEF ThreadInv, StreamsChangeWithoutThread, Join, Spawn
    <3> QED BY <3>1, <3>2, <3>3
  <2>2. CASE StartVideo \/ StartDepth \/ StopVideo \/ StopDepth \/ Delete
    BY <2>2 DEF StartVideo, StartDepth, StopVideo, StopDepth, Delete, threadVars
  <2>3. CASE \E c \in Camera : Open(c) \/ Start(c) \/ Stop(c) \/ \E v \in Tilt : SetControl(c, v)
    BY <2>3 DEF Open, Start, Stop, SetControl, threadVars
  <2>4. ASSUME NEW t \in Camera, NEW c \in Camera, Dispatch(t, c) PROVE ServeInv'
    <3>1. t \in Streaming /\ c \in Streaming
      BY <2>4 DEF Dispatch, Goes, Streaming
    <3>2. c = t
      BY <3>1 DEF OneStreams
    <3> QED BY <2>4, <3>2 DEF Dispatch, Goes
  <2>5. ASSUME NEW t \in Camera, PumpStep(t) PROVE ServeInv'
    BY <2>5 DEF PumpStep, PumpReturns, TestRunning, FrameReturns, EventsHandled, EventsFail,
       TakeOrder, SendOrder, ReadState, SampleReturns, Goes
  <2>6. CASE UNCHANGED vars
    BY <2>6 DEF vars, threadVars
  <2> QED BY <2>1, <2>2, <2>3, <2>4, <2>5, <2>6 DEF Next, CallStep
<1> QED BY <1>1, <1>2

\* Steps that neither begin nor end anything the host could notice.
LEMMA Unnoticed ==
  ASSUME opened' = opened, Streaming' = Streaming, serving' = serving
  PROVE  UNCHANGED Contract!vars
  BY DEF Contract!vars, Streaming

\* The thread goes from one state to another, as long as it lives.
LEMMA StillStreams ==
  ASSUME IInv, NEW t \in Camera, NEW from, NEW to,
         Goes(t, from, to), from # "none", to # "none", running' = running
  PROVE  Streaming' = Streaming
  BY DEF IInv, TypeOK, Goes, Streaming

LEMMA CallsKeepContract ==
  ASSUME None \notin Camera, IInv, ServeInv,
         CallStep \/ \E c \in Camera : Open(c) \/ Start(c) \/ Stop(c)
  PROVE  [Contract!Next]_(Contract!vars)
<1> USE DEF IInv
<1>1. ASSUME NEW c \in Camera, Open(c) PROVE Contract!Next
  <2>1. Contract!Open(c)
    BY <1>1 DEF Open, Contract!Open, threadVars
  <2> QED BY <2>1 DEF Contract!Next
<1>2. ASSUME NEW c \in Camera, Start(c) PROVE Contract!Next
  <2>1. pump[c] = "none"
    BY <1>2 DEF Start, ThreadInv, Idle
  <2>2. Contract!Start(c)
    BY <1>2, <2>1 DEF Start, Contract!Start, usbVars, threadVars
  <2> QED BY <2>2 DEF Contract!Next
<1>3. ASSUME NEW c \in Camera, pump[c] \in {"none", "ended"}
      PROVE  Delivering[c] = {}
  BY <1>3 DEF Delivering, ServeInv
<1>4. ASSUME NEW c \in Streaming, c \in Camera, pump[c] \in {"none", "ended"},
             Streaming' = Streaming \ {c}, UNCHANGED <<opened, serving>>
      PROVE  Contract!Next
  <2>1. Delivering[c] = {}
    BY <1>3, <1>4
  <2>2. Contract!Stop(c)
    BY <1>4, <2>1 DEF Contract!Stop, Streaming, Delivering
  <2> QED BY <1>4, <2>2 DEF Contract!Next
<1>5. ASSUME NEW c \in Camera, Stop(c) PROVE [Contract!Next]_(Contract!vars)
  <2>1. running' = running \ {c} /\ UNCHANGED <<opened, pump, serving>> /\ call = Idle
    BY <1>5 DEF Stop, usbVars, threadVars
  <2>2. CASE c \in running /\ pump[c] = "none"
    <3>1. c \in Streaming /\ Streaming' = Streaming \ {c}
      BY <2>1, <2>2 DEF Streaming
    <3> QED BY <1>4, <2>1, <2>2, <3>1
  <2>3. CASE c \notin running \/ pump[c] # "none"
    <3>1. Streaming' = Streaming
      BY <2>1, <2>3 DEF Streaming
    <3> QED BY <2>1, <3>1, Unnoticed
  <2> QED BY <2>2, <2>3
<1>6. CASE StartVideo \/ StartDepth
  <2>1. call.cam \in Camera /\ call.cam \in running /\ pump[call.cam] = "none"
    BY <1>6 DEF StartVideo, StartDepth, CallInv, ThreadInv, StreamsChangeWithoutThread, TypeOK
  <2>2. UNCHANGED <<opened, pump, serving>> /\ (running' = running \/ running' = running \ {call.cam})
    BY <1>6 DEF StartVideo, StartDepth, Refused, threadVars
  <2>3. CASE running' = running
    <3>1. Streaming' = Streaming
      BY <2>2, <2>3 DEF Streaming
    <3> QED BY <2>2, <3>1, Unnoticed
  <2>4. CASE running' = running \ {call.cam}
    <3>1. call.cam \in Streaming /\ Streaming' = Streaming \ {call.cam}
      BY <2>1, <2>2, <2>4 DEF Streaming
    <3> QED BY <1>4, <2>1, <2>2, <3>1
  <2> QED BY <2>2, <2>3, <2>4
<1>7. CASE Spawn
  <2>1. call.cam \in running /\ pump' = [pump EXCEPT ![call.cam] = "test"]
        /\ UNCHANGED <<opened, running, serving>>
    BY <1>7 DEF Spawn, CallInv, usbVars
  <2>2. Streaming' = Streaming
    BY <2>1 DEF Streaming, TypeOK
  <2> QED BY <2>1, <2>2, Unnoticed
<1>8. CASE Join
  <2>1. call.cam \in Camera /\ call.cam \notin running /\ pump[call.cam] \in {"none", "ended"}
        /\ pump' = [pump EXCEPT ![call.cam] = "none"] /\ UNCHANGED <<opened, running, serving>>
    BY <1>8 DEF Join, CallInv, TypeOK, usbVars
  <2>2. Streaming' = Streaming \ {call.cam}
    BY <2>1 DEF Streaming, TypeOK
  <2>3. CASE call.cam \in Streaming
    BY <1>4, <2>1, <2>2, <2>3
  <2>4. CASE call.cam \notin Streaming
    BY <2>1, <2>2, <2>4, Unnoticed
  <2> QED BY <2>3, <2>4
<1>9. CASE StopVideo \/ StopDepth
  <2>1. UNCHANGED <<opened, running, pump, serving>>
    BY <1>9 DEF StopVideo, StopDepth, threadVars
  <2>2. Streaming' = Streaming
    BY <2>1 DEF Streaming
  <2> QED BY <2>1, <2>2, Unnoticed
<1>10. CASE Delete
  <2>1. call.cam \in opened /\ call.cam \in Camera /\ call.cam \notin running
        /\ pump[call.cam] = "none" /\ opened' = opened \ {call.cam}
        /\ UNCHANGED <<running, pump, serving>>
    BY <1>10 DEF Delete, CallInv, ThreadInv, StreamsChangeWithoutThread, TypeOK, threadVars
  <2>2. Delivering[call.cam] = {}
    BY <1>3, <2>1
  <2>3. Contract!Close(call.cam)
    BY <2>1, <2>2 DEF Contract!Close, Delivering
  <2> QED BY <2>1, <2>3 DEF Contract!Next
<1> QED
  BY <1>1, <1>2, <1>5, <1>6, <1>7, <1>8, <1>9, <1>10 DEF CallStep

\* A thread is with the host in the states "host" and "sample".
LEMMA ThreadsKeepContract ==
  ASSUME None \notin Camera, IInv, OneStreams, ServeInv, NEW t \in Camera,
         PumpStep(t) \/ \E c \in Camera : Dispatch(t, c)
  PROVE  [Contract!Next]_(Contract!vars)
<1> USE DEF IInv
<1>1. running' = running /\ opened' = opened
  BY DEF PumpStep, PumpReturns, TestRunning, FrameReturns, EventsHandled, EventsFail,
     TakeOrder, SendOrder, ReadState, SampleReturns, Dispatch, usbVars
<1>2. PICK from, to : Goes(t, from, to) /\ from # "none" /\ to # "none"
  BY DEF PumpStep, PumpReturns, TestRunning, FrameReturns, EventsHandled, EventsFail,
     TakeOrder, SendOrder, ReadState, SampleReturns, Dispatch
<1>3. Streaming' = Streaming /\ t \in Streaming
  BY <1>1, <1>2, StillStreams DEF Goes, Streaming
<1>4. CASE serving' = serving
  BY <1>1, <1>3, <1>4, Unnoticed
<1>5. CASE serving' = [serving EXCEPT ![t] = t] /\ serving[t] = None
  <2>1. \A c \in Camera : t \notin Delivering[c]
    BY <1>5 DEF Delivering
  <2>2. Delivering' = [Delivering EXCEPT ![t] = @ \cup {t}]
    <3>1. \A u \in Camera : serving'[u] = IF u = t THEN t ELSE serving[u]
      BY <1>5 DEF TypeOK
    <3>2. \A c \in Camera :
            {u \in Camera : serving'[u] = c} = IF c = t THEN Delivering[t] \cup {t} ELSE Delivering[c]
      BY <1>5, <3>1 DEF Delivering
    <3> QED BY <3>2 DEF Delivering
  <2>3. Contract!Deliver(t, t)
    BY <1>1, <1>3, <2>1, <2>2 DEF Contract!Deliver, Delivering, Streaming
  <2> QED BY <2>3 DEF Contract!Next
<1>6. CASE serving' = [serving EXCEPT ![t] = None] /\ serving[t] = t
  <2>1. t \in Delivering[t]
    BY <1>6 DEF Delivering
  <2>2. Delivering' = [Delivering EXCEPT ![t] = @ \ {t}]
    <3>1. \A u \in Camera : serving'[u] = IF u = t THEN None ELSE serving[u]
      BY <1>6 DEF TypeOK
    <3>2. \A c \in Camera :
            {u \in Camera : serving'[u] = c} = IF c = t THEN Delivering[t] \ {t} ELSE Delivering[c]
      BY <1>6, <3>1 DEF Delivering
    <3> QED BY <3>2 DEF Delivering
  <2>3. Contract!Return(t, t)
    BY <1>1, <1>3, <2>1, <2>2 DEF Contract!Return, Delivering, Streaming
  <2> QED BY <2>3 DEF Contract!Next
<1>7. ASSUME NEW c \in Camera, Dispatch(t, c)
      PROVE  serving' = [serving EXCEPT ![t] = t] /\ serving[t] = None
  <2>1. c \in Streaming
    BY <1>7 DEF Dispatch, Streaming
  <2>2. c = t
    BY <1>3, <2>1 DEF OneStreams
  <2> QED BY <1>7, <2>2 DEF Dispatch, Goes, ServeInv
<1>8. CASE PumpStep(t)
  <2>1. serving' = serving \/ (serving' = [serving EXCEPT ![t] = t] /\ pump[t] = "state")
          \/ (serving' = [serving EXCEPT ![t] = None] /\ pump[t] \in {"host", "sample"})
    BY <1>8 DEF PumpStep, PumpReturns, TestRunning, FrameReturns, EventsHandled, EventsFail,
       TakeOrder, SendOrder, ReadState, SampleReturns, Goes
  <2> QED BY <1>4, <1>5, <1>6, <2>1 DEF ServeInv
<1> QED BY <1>5, <1>7, <1>8

LEMMA StepKeepsContract ==
  ASSUME None \notin Camera
  PROVE  IInv /\ OneStreams /\ ServeInv /\ [Next]_vars => [Contract!Next]_(Contract!vars)
<1> SUFFICES ASSUME IInv, OneStreams, ServeInv, [Next]_vars PROVE [Contract!Next]_(Contract!vars)
  OBVIOUS
<1>1. CASE UNCHANGED vars
  BY <1>1, Unnoticed DEF vars, usbVars, threadVars, Streaming
<1>2. ASSUME NEW c \in Camera, NEW v \in Tilt, SetControl(c, v)
      PROVE  UNCHANGED Contract!vars
  BY <1>2, Unnoticed DEF SetControl, usbVars, threadVars, Streaming
<1> QED BY <1>1, <1>2, CallsKeepContract, ThreadsKeepContract DEF Next

\* However many Kinects are open, while no two of them stream the backend
\* implements what the host relies on: the frame with the host when stop is
\* called was dispatched by the thread that stop joins.  Where two stream, the
\* other's thread may have it.
THEOREM KeepsContractAlone ==
  ASSUME None \notin Tilt, None \notin Camera
  PROVE  Spec /\ []OneStreams => Contract!Spec
<1>1. Init => Contract!Init
  BY DEF Init, Contract!Init
<1>2. Init => ServeInv
  BY ServeInductive
<1>3. IInv /\ OneStreams /\ ServeInv /\ [Next]_vars => ServeInv'
  BY ServeInductive
<1>4. IInv /\ OneStreams /\ ServeInv /\ [Next]_vars => [Contract!Next]_(Contract!vars)
  BY StepKeepsContract
<1>5. Spec => []IInv
  BY Invariance
<1> QED BY <1>1, <1>2, <1>3, <1>4, <1>5, PTL DEF Spec, Contract!Spec
=============================================================================
