-------------------------- MODULE InputStreamProofs --------------------------
(***************************************************************************)
(* What InputStream guarantees for every number of callers, producers,     *)
(* buffers, outputs and renderers, and for every backend.  Only the last   *)
(* section depends on how calls are ordered and on whether stop() joins.   *)
(***************************************************************************)
EXTENDS InputStream, FiniteSetTheorems, TLAPS

(* A producer inside onFrame has a buffer in hand, of a stream it serves,  *)
(* and only an image or a cloud is ever filled into a queue.               *)
FrameInHand ==
  \A p \in Producer :
    /\ at[p] = "idle" => frame[p].buf = None
    /\ at[p] # "idle" => frame[p].buf \in Buffer /\ frame[p].stream \in Serves[p]
    /\ at[p] = "fill" => frame[p].stream \in Output

TypeInv == TypeOK /\ FrameInHand

(* Handing buffers back changes counts, never the type of the counter. *)
LEMMA HandBackType ==
  ASSUME lent \in [Buffer -> Int], NEW S, HandBack(S)
  PROVE  lent' \in [Buffer -> Int]
BY DEF HandBack

(* Leaving onFrame keeps the types and leaves the thread empty-handed. *)
LEMMA LeaveType ==
  ASSUME TypeInv, NEW p \in Producer, LeaveOnFrame(p)
  PROVE  /\ at' \in [Producer -> ProducerAt]
         /\ frame' \in [Producer -> Frame]
         /\ FrameInHand'
<1> USE DEF TypeInv, TypeOK, LeaveOnFrame
<1>1. at' \in [Producer -> ProducerAt]
  BY DEF ProducerAt
<1>2. frame' \in [Producer -> Frame]
  BY DEF NoFrame, Frame, Stream, Kind
<1>3. FrameInHand'
  BY DEF FrameInHand, NoFrame
<1> QED BY <1>1, <1>2, <1>3

(* Enqueueing a frame keeps a queue a queue of frames. *)
LEMMA EnqueueType ==
  ASSUME queue \in [Output -> Seq(Item)], NEW o \in Output, NEW i \in Item,
         queue' = [queue EXCEPT ![o] = Append(@, i)]
  PROVE  queue' \in [Output -> Seq(Item)]
<1>1. Append(queue[o], i) \in Seq(Item)
  OBVIOUS
<1> QED BY <1>1

(* newFrame() leaves only buffers in a pool. *)
LEMMA NewFrameType ==
  ASSUME pool \in [Output -> SUBSET Buffer], NEW o, NEW freed, NewFrame(o, freed)
  PROVE  pool' \in [Output -> SUBSET Buffer]
BY DEF NewFrame

(* A frame that a renderer returns goes to a pool only if it is a buffer. *)
LEMMA ReleaseToType ==
  ASSUME pool \in [Output -> SUBSET Buffer], NEW o, NEW item, ReleaseTo(o, item)
  PROVE  pool' \in [Output -> SUBSET Buffer]
BY DEF ReleaseTo

LEMMA TypeInit == Init => TypeInv
<1> SUFFICES ASSUME Init PROVE TypeInv
  OBVIOUS
<1> USE DEF Init
<1>1. /\ running \in BOOLEAN /\ votes \in Nat /\ device \in BOOLEAN
      /\ handle \in {"open", "closed"} /\ streaming \in BOOLEAN /\ misused \in BOOLEAN
      /\ imuCb \in BOOLEAN /\ rendering \subseteq Voter
  OBVIOUS
<1>2. pc \in [Caller -> CallerAt] /\ op \in [Caller -> {"none", "start", "stop", "close"}]
  BY DEF CallerAt
<1>3. at \in [Producer -> ProducerAt] /\ frame \in [Producer -> Frame]
  BY DEF ProducerAt, NoFrame, Frame, Stream, Kind
<1>4. lent \in [Buffer -> Int] /\ pool \in [Output -> SUBSET Buffer]
  OBVIOUS
<1>5. queue \in [Output -> Seq(Item)]
  OBVIOUS
<1>6. held \in [Extractor -> Item \cup {None}]
  OBVIOUS
<1>7. FrameInHand
  BY DEF FrameInHand, NoFrame
<1> QED BY <1>1, <1>2, <1>3, <1>4, <1>5, <1>6, <1>7 DEF TypeInv, TypeOK

(* The callers' steps. *)
LEMMA TypeCaller ==
  ASSUME TypeInv, NEW c \in Caller, CallerCall(c) \/ CallerStep(c)
  PROVE  TypeInv'
<1> USE StreamAssumption
    DEF TypeInv, TypeOK, ctlVars, sdkVars, frameVars, Goto, Return, AfterStop, CallerAt,
        FrameInHand
<1>1. ASSUME NEW ext \in Voter \cup {None}, Start(c, ext) PROVE TypeInv'
  BY <1>1 DEF Start
<1>2. ASSUME NEW what \in {"stop", "close"}, Stop(c, what) PROVE TypeInv'
  BY <1>2 DEF Stop
<1>3. ASSUME NEW ext \in Voter, RequestStop(c, ext) PROVE TypeInv'
  <2>1. votes' \in Nat
    BY <1>3 DEF RequestStop
  <2>2. /\ pc' \in [Caller -> CallerAt]
        /\ op' \in [Caller -> {"none", "start", "stop", "close"}]
    <3>1. CASE UNCHANGED <<pc, op>>
      BY <3>1
    <3>2. CASE Goto(c, "exchange") /\ op' = [op EXCEPT ![c] = "stop"]
      BY <3>2
    <3> QED BY <1>3, <3>1, <3>2 DEF RequestStop
  <2>3. rendering' \subseteq Voter
    BY <1>3 DEF RequestStop
  <2> QED BY <1>3, <2>1, <2>2, <2>3 DEF RequestStop
<1>4. ASSUME NEW cb \in BOOLEAN, SetImuCallback(c, cb) PROVE TypeInv'
  BY <1>4 DEF SetImuCallback
<1>5. CASE ResetVotes(c) BY <1>5 DEF ResetVotes
<1>6. CASE SetRunning(c) BY <1>6 DEF SetRunning
<1>7. CASE BackendStart(c) BY <1>7 DEF BackendStart
<1>8. CASE Exchange(c) BY <1>8 DEF Exchange
<1>9. CASE BackendStop(c) BY <1>9 DEF BackendStop
<1>10. CASE Join(c) BY <1>10 DEF Join
<1>11. CASE Drain(c)
  <2>1. lent' \in [Buffer -> Int]
    BY <1>11, HandBackType DEF Drain
  <2>2. queue' \in [Output -> Seq(Item)] /\ pool' \in [Output -> SUBSET Buffer]
    BY <1>11 DEF Drain
  <2> QED BY <1>11, <2>1, <2>2 DEF Drain
<1>12. CASE BackendClose(c) BY <1>12 DEF BackendClose
<1>13. CASE ClearDevice(c) BY <1>13 DEF ClearDevice
<1> QED BY <1>1, <1>2, <1>3, <1>4, <1>5, <1>6, <1>7, <1>8, <1>9, <1>10, <1>11, <1>12, <1>13
        DEF CallerCall, CallerStep, StartStep, StopStep, CloseStep

(* The producers' steps. *)
LEMMA TypeProducer ==
  ASSUME TypeInv, NEW p \in Producer, ProducerDeliver(p) \/ ProducerStep(p)
  PROVE  TypeInv'
<1> USE StreamAssumption, ItemAssumption
    DEF TypeInv, TypeOK, ctlVars, sdkVars, frameVars
<1>1. ASSUME NEW b \in Buffer, NEW s \in Serves[p], NEW k \in Kind, Deliver(p, b, s, k)
      PROVE TypeInv'
  <2>1. at' \in [Producer -> ProducerAt]
    BY <1>1 DEF Deliver, ProducerAt
  <2>2. frame' \in [Producer -> Frame]
    BY <1>1 DEF Deliver, Frame, Stream
  <2>3. FrameInHand'
    BY <1>1 DEF Deliver, FrameInHand
  <2>4. lent' \in [Buffer -> Int]
    BY <1>1 DEF Deliver
  <2> QED BY <1>1, <2>1, <2>2, <2>3, <2>4 DEF Deliver
<1>2. ASSUME OnFrameIgnored(p) PROVE TypeInv'
  BY <1>2, LeaveType DEF OnFrameIgnored
<1>3. ASSUME OnFrameTaken(p) PROVE TypeInv'
  BY <1>3 DEF OnFrameTaken, ProducerAt, FrameInHand
<1>4. ASSUME UnknownStream(p) PROVE TypeInv'
  BY <1>4, LeaveType, HandBackType DEF UnknownStream
<1>5. ASSUME RefuseFrame(p) PROVE TypeInv'
  BY <1>5, LeaveType, HandBackType DEF RefuseFrame
<1>6. ASSUME AcceptFrame(p) PROVE TypeInv'
  BY <1>6 DEF AcceptFrame, ProducerAt, FrameInHand
<1>7. ASSUME NEW freed \in SUBSET Buffer, EnqueueRaw(p, freed) PROVE TypeInv'
  <2>1. frame[p].buf \in Item /\ frame[p].stream \in Output
    BY <1>7 DEF EnqueueRaw, FrameInHand, Item
  <2>2. queue' \in [Output -> Seq(Item)]
    BY <1>7, <2>1, EnqueueType DEF EnqueueRaw
  <2> QED BY <1>7, <2>2, LeaveType, HandBackType, NewFrameType DEF EnqueueRaw
<1>8. ASSUME NEW freed \in SUBSET Buffer, WrapFails(p, freed) PROVE TypeInv'
  BY <1>8, LeaveType, HandBackType, NewFrameType DEF WrapFails
<1>9. ASSUME NEW produced \in BOOLEAN, DecodeCompressed(p, produced) PROVE TypeInv'
  <2>1. Decoded \in Item /\ frame[p].stream \in Output
    BY <1>9 DEF DecodeCompressed, FrameInHand, Item
  <2>2. queue' \in [Output -> Seq(Item)]
    BY <1>9, <2>1, EnqueueType DEF DecodeCompressed
  <2> QED BY <1>9, <2>2, LeaveType, HandBackType DEF DecodeCompressed
<1>10. ASSUME ImuEnter(p) PROVE TypeInv'
  BY <1>10 DEF ImuEnter, ProducerAt, FrameInHand
<1>11. ASSUME ImuLeave(p) PROVE TypeInv'
  BY <1>11 DEF ImuLeave, ProducerAt, FrameInHand
<1>12. ASSUME ImuRelease(p) PROVE TypeInv'
  BY <1>12, LeaveType, HandBackType DEF ImuRelease
<1> QED BY <1>1, <1>2, <1>3, <1>4, <1>5, <1>6, <1>7, <1>8, <1>9, <1>10, <1>11, <1>12
        DEF ProducerDeliver, ProducerStep

(* The renderers' steps. *)
LEMMA TypeRenderer ==
  ASSUME TypeInv, NEW x \in Extractor, RendererStep(x)
  PROVE  TypeInv'
<1> USE StreamAssumption DEF TypeInv, TypeOK, ctlVars, sdkVars, FrameInHand
<1>1. ASSUME RenderPass(x) PROVE TypeInv'
  <2>1. pool' \in [Output -> SUBSET Buffer]
    BY <1>1, ReleaseToType DEF RenderPass
  <2>2. Reads[x] \in Output /\ queue[Reads[x]] \in Seq(Item) /\ queue[Reads[x]] # <<>>
    BY <1>1 DEF RenderPass
  <2>3. Head(queue[Reads[x]]) \in Item /\ Tail(queue[Reads[x]]) \in Seq(Item)
    BY <2>2
  <2>4. held' \in [Extractor -> Item \cup {None}] /\ queue' \in [Output -> Seq(Item)]
    BY <1>1, <2>3 DEF RenderPass
  <2> QED BY <1>1, <2>1, <2>4 DEF RenderPass
<1>2. ASSUME ReleaseRenderer(x) PROVE TypeInv'
  <2>1. pool' \in [Output -> SUBSET Buffer]
    BY <1>2, ReleaseToType DEF ReleaseRenderer
  <2>2. held' \in [Extractor -> Item \cup {None}]
    BY <1>2 DEF ReleaseRenderer
  <2> QED BY <1>2, <2>1, <2>2 DEF ReleaseRenderer
<1> QED BY <1>1, <1>2 DEF RendererStep

LEMMA TypeNext == TypeInv /\ [Next]_vars => TypeInv'
<1> SUFFICES ASSUME TypeInv, [Next]_vars PROVE TypeInv'
  OBVIOUS
<1>1. CASE UNCHANGED vars
  BY <1>1 DEF TypeInv, TypeOK, FrameInHand, vars, ctlVars, sdkVars, frameVars
<1> QED BY <1>1, TypeCaller, TypeProducer, TypeRenderer DEF Next

LEMMA TypeInvariant == Spec => []TypeInv
BY TypeInit, TypeNext, PTL DEF Spec

(* The variables keep their types: a pool never holds anything but         *)
(* buffers of the backend, and a queue nothing but frames.                 *)
THEOREM TypeCorrect == Spec => []TypeOK
BY TypeInvariant, PTL DEF TypeInv

-----------------------------------------------------------------------------
(***************************************************************************)
(* The inertial callback.                                                  *)
(***************************************************************************)

(* setImuCallback({}) returns only once no call is in flight: whenever the *)
(* callback is cleared, no backend thread is inside it, so the node tree   *)
(* it writes into can be freed.                                            *)
THEOREM ImuTeardownSafe == Spec => []ImuClearedIsQuiet
<1>1. Init => ImuClearedIsQuiet
  BY DEF Init, ImuClearedIsQuiet
<1>2. TypeOK /\ ImuClearedIsQuiet /\ [Next]_vars => ImuClearedIsQuiet'
  <2> SUFFICES ASSUME TypeOK, ImuClearedIsQuiet, [Next]_vars PROVE ImuClearedIsQuiet'
    OBVIOUS
  <2> USE DEF ImuClearedIsQuiet
  <2>1. ASSUME NEW c \in Caller, CallerCall(c) PROVE ImuClearedIsQuiet'
    BY <2>1 DEF CallerCall, Start, Stop, RequestStop, SetImuCallback, ImuMutexFree
  <2>2. ASSUME NEW c \in Caller, CallerStep(c) PROVE ImuClearedIsQuiet'
    BY <2>2 DEF CallerStep, StartStep, StopStep, CloseStep, ResetVotes, SetRunning, BackendStart,
                Exchange, BackendStop, Join, Drain, BackendClose, ClearDevice
  <2>3. ASSUME NEW p \in Producer, ProducerDeliver(p) PROVE ImuClearedIsQuiet'
    BY <2>3 DEF ProducerDeliver, Deliver, TypeOK
  <2>4. ASSUME NEW p \in Producer, ProducerStep(p) PROVE ImuClearedIsQuiet'
    <3>1. UNCHANGED imuCb
      BY <2>4 DEF ProducerStep, OnFrameIgnored, OnFrameTaken, UnknownStream, RefuseFrame,
                  AcceptFrame, EnqueueRaw, WrapFails, DecodeCompressed, ImuEnter, ImuLeave,
                  ImuRelease
    <3>2. PICK label \in ProducerAt : at' = [at EXCEPT ![p] = label]
      BY <2>4 DEF ProducerStep, LeaveOnFrame, ProducerAt, OnFrameIgnored, OnFrameTaken,
                  UnknownStream, RefuseFrame, AcceptFrame, EnqueueRaw, WrapFails,
                  DecodeCompressed, ImuEnter, ImuLeave, ImuRelease
    <3>3. at'[p] = "callback" => imuCb
      BY <2>4 DEF ProducerStep, LeaveOnFrame, OnFrameIgnored, OnFrameTaken,
                  UnknownStream, RefuseFrame, AcceptFrame, EnqueueRaw, WrapFails,
                  DecodeCompressed, ImuEnter, ImuLeave, ImuRelease, TypeOK
    <3> QED BY <3>1, <3>2, <3>3 DEF TypeOK
  <2>5. ASSUME NEW x \in Extractor, RendererStep(x) PROVE ImuClearedIsQuiet'
    BY <2>5 DEF RendererStep, RenderPass, ReleaseRenderer
  <2>6. CASE UNCHANGED vars
    BY <2>6 DEF vars
  <2> QED BY <2>1, <2>2, <2>3, <2>4, <2>5, <2>6 DEF Next
<1> QED BY <1>1, <1>2, TypeCorrect, PTL DEF Spec

-----------------------------------------------------------------------------
(***************************************************************************)
(* The queues.                                                             *)
(***************************************************************************)

(* A producer that found room still has it when it enqueues: it is the     *)
(* only one to add to that queue.                                          *)
RoomToFill ==
  \A p \in Producer :
    at[p] = "fill" => Len(queue[frame[p].stream]) < Capacity[frame[p].stream]

QueueInv == QueueBounded /\ RoomToFill

(* The queues change only by the steps named here. *)
LEMMA QueueCaller ==
  ASSUME TypeInv, QueueInv, NEW c \in Caller, CallerCall(c) \/ CallerStep(c)
  PROVE  QueueInv'
<1> USE CapacityAssumption DEF TypeInv, TypeOK, QueueInv, QueueBounded, RoomToFill, FrameInHand
<1>1. CASE Drain(c)
  <2>1. \A o \in Output : Len(queue'[o]) = 0
    BY <1>1 DEF Drain
  <2> QED BY <1>1, <2>1 DEF Drain
<1>2. CASE ~Drain(c)
  <2>1. UNCHANGED <<queue, at, frame>>
    BY <1>2 DEF CallerCall, CallerStep, StartStep, StopStep, CloseStep, Start, Stop, RequestStop,
                SetImuCallback, ResetVotes, SetRunning, BackendStart, Exchange, BackendStop,
                Join, BackendClose, ClearDevice, frameVars
  <2> QED BY <2>1
<1> QED BY <1>1, <1>2

LEMMA QueueProducer ==
  ASSUME TypeInv, QueueInv, NEW p \in Producer, ProducerDeliver(p) \/ ProducerStep(p)
  PROVE  QueueInv'
<1> USE CapacityAssumption DEF TypeInv, TypeOK, QueueInv, QueueBounded, RoomToFill, FrameInHand
<1>1. ASSUME NEW o \in Output, NEW i \in Item, o = frame[p].stream, at[p] = "fill",
             queue' = [queue EXCEPT ![o] = Append(@, i)], LeaveOnFrame(p)
      PROVE  QueueInv'
  <2>1. Len(queue[o]) < Capacity[o]
    BY <1>1
  <2>2. Len(queue'[o]) = Len(queue[o]) + 1
    BY <1>1
  <2>3. QueueBounded'
    BY <1>1, <2>1, <2>2
  <2>4. \A q \in Producer : at'[q] = "fill" =>
          /\ q # p /\ frame'[q] = frame[q] /\ at[q] = "fill"
          /\ frame[q].stream # o
    BY <1>1, OneProducerPerOutput DEF LeaveOnFrame
  <2>5. \A u \in Output : u # o => queue'[u] = queue[u]
    BY <1>1
  <2> QED BY <2>3, <2>4, <2>5
<1>2. ASSUME NEW freed \in SUBSET Buffer, EnqueueRaw(p, freed) PROVE QueueInv'
  BY <1>1, <1>2 DEF EnqueueRaw, Item
<1>3. ASSUME NEW produced \in BOOLEAN, DecodeCompressed(p, produced) PROVE QueueInv'
  <2>1. CASE produced
    BY <1>1, <1>3, <2>1 DEF DecodeCompressed, Item
  <2>2. CASE ~produced
    BY <1>3, <2>2 DEF DecodeCompressed, LeaveOnFrame
  <2> QED BY <2>1, <2>2
<1>4. CASE AcceptFrame(p)
  BY <1>4 DEF AcceptFrame, QueueFull, frameVars
<1>5. ASSUME NEW b \in Buffer, NEW s \in Serves[p], NEW k \in Kind, Deliver(p, b, s, k)
      PROVE QueueInv'
  BY <1>5 DEF Deliver
<1>6. CASE \/ OnFrameIgnored(p) \/ UnknownStream(p) \/ RefuseFrame(p) \/ ImuRelease(p)
           \/ \E freed \in SUBSET Buffer : WrapFails(p, freed)
  BY <1>6 DEF OnFrameIgnored, UnknownStream, RefuseFrame, ImuRelease, WrapFails, LeaveOnFrame,
              frameVars
<1>7. CASE OnFrameTaken(p) \/ ImuEnter(p) \/ ImuLeave(p)
  BY <1>7 DEF OnFrameTaken, ImuEnter, ImuLeave, frameVars
<1> QED BY <1>2, <1>3, <1>4, <1>5, <1>6, <1>7 DEF ProducerDeliver, ProducerStep

LEMMA QueueRenderer ==
  ASSUME TypeInv, QueueInv, NEW x \in Extractor, RendererStep(x)
  PROVE  QueueInv'
<1> USE CapacityAssumption, StreamAssumption
    DEF TypeInv, TypeOK, QueueInv, QueueBounded, RoomToFill, FrameInHand
<1>1. CASE RenderPass(x)
  <2>1. \A o \in Output : Len(queue'[o]) <= Len(queue[o]) /\ Len(queue[o]) \in Nat
    BY <1>1 DEF RenderPass
  <2>2. UNCHANGED <<at, frame>>
    BY <1>1 DEF RenderPass
  <2> QED BY <2>1, <2>2
<1>2. CASE ReleaseRenderer(x)
  BY <1>2 DEF ReleaseRenderer
<1> QED BY <1>1, <1>2 DEF RendererStep

(* No queue outgrows max_queued_frames or max_queued_pointclouds, although *)
(* the size is tested in one step and the frame enqueued in a later one:   *)
(* it rests on each stream having a single producing thread.               *)
THEOREM QueuesStayBounded == Spec => []QueueBounded
<1>1. Init => QueueInv
  BY CapacityAssumption DEF Init, QueueInv, QueueBounded, RoomToFill
<1>2. TypeInv /\ QueueInv /\ [Next]_vars => QueueInv'
  <2>1. CASE UNCHANGED vars
    BY <2>1 DEF QueueInv, QueueBounded, RoomToFill, vars, frameVars
  <2> QED BY <2>1, QueueCaller, QueueProducer, QueueRenderer DEF Next
<1>3. QueueInv => QueueBounded
  BY DEF QueueInv
<1> QED BY <1>1, <1>2, <1>3, TypeInvariant, PTL DEF Spec

-----------------------------------------------------------------------------
(***************************************************************************)
(* Who holds a buffer.                                                     *)
(***************************************************************************)

LentOnce == \A b \in Buffer : lent[b] \in {0, 1}

(* Whatever the host can reach was lent and not handed back. *)
LentIfReached ==
  /\ \A p \in Producer : frame[p].buf \in Buffer => lent[frame[p].buf] = 1
  /\ \A o \in Output : \A b \in pool[o] : lent[b] = 1
  /\ \A x \in Extractor : held[x] \in Buffer => lent[held[x]] = 1
  /\ \A o \in Output : \A i \in DOMAIN queue[o] : queue[o][i] \in Buffer => lent[queue[o][i]] = 1

(* Two places of the same kind never share a buffer, ... *)
ApartWithin ==
  /\ \A p, q \in Producer : frame[p].buf \in Buffer /\ frame[p].buf = frame[q].buf => p = q
  /\ \A o, u \in Output : \A b \in pool[o] : b \in pool[u] => o = u
  /\ \A x, y \in Extractor : held[x] \in Buffer /\ held[x] = held[y] => x = y
  /\ \A o, u \in Output : \A i \in DOMAIN queue[o], j \in DOMAIN queue[u] :
       queue[o][i] \in Buffer /\ queue[o][i] = queue[u][j] => o = u /\ i = j

(* ... nor do a producer and a place it may move its buffer to, ... *)
ApartFromProducer ==
  \A p \in Producer : frame[p].buf \in Buffer =>
    /\ \A o \in Output : frame[p].buf \notin pool[o]
    /\ \A x \in Extractor : held[x] # frame[p].buf
    /\ \A o \in Output : \A i \in DOMAIN queue[o] : queue[o][i] # frame[p].buf

(* ... nor do a queue, a renderer and a pool. *)
ApartBetween ==
  /\ \A o \in Output, x \in Extractor : held[x] \notin pool[o]
  /\ \A o, u \in Output : \A i \in DOMAIN queue[o] : queue[o][i] \notin pool[u]
  /\ \A o \in Output, x \in Extractor : \A i \in DOMAIN queue[o] :
       queue[o][i] \in Buffer => held[x] # queue[o][i]

Apart == ApartWithin /\ ApartFromProducer /\ ApartBetween

OwnInv == LentOnce /\ LentIfReached /\ Apart

(* What stands where after a frame is appended, ... *)
LEMMA AppendElements ==
  ASSUME NEW S, NEW s \in Seq(S), NEW e \in S, NEW t, t = Append(s, e)
  PROVE  /\ Len(s) + 1 \in DOMAIN t /\ t[Len(s) + 1] = e
         /\ \A i \in DOMAIN t : i = Len(s) + 1 \/ (i \in DOMAIN s /\ t[i] = s[i])
<1>1. /\ Len(s) \in Nat /\ DOMAIN s = 1 .. Len(s)
      /\ DOMAIN t = 1 .. (Len(s) + 1)
      /\ \A i \in 1 .. Len(s) : t[i] = s[i]
      /\ t[Len(s) + 1] = e
  OBVIOUS
<1> QED BY <1>1

(* ... and after one is taken from the front. *)
LEMMA TailElements ==
  ASSUME NEW S, NEW s \in Seq(S), s # <<>>, NEW t, t = Tail(s)
  PROVE  /\ 1 \in DOMAIN s /\ Head(s) = s[1]
         /\ \A i \in DOMAIN t : i + 1 \in DOMAIN s /\ i + 1 # 1 /\ t[i] = s[i + 1]
         /\ \A i, j \in DOMAIN t : i + 1 = j + 1 => i = j
<1>1. /\ Len(s) \in Nat \ {0} /\ DOMAIN s = 1 .. Len(s)
      /\ DOMAIN t = 1 .. (Len(s) - 1)
      /\ \A i \in 1 .. (Len(s) - 1) : t[i] = s[i + 1]
      /\ Head(s) = s[1]
  OBVIOUS
<1> QED BY <1>1

(* Places only become empty: they stay apart. *)
LEMMA ApartShrinks ==
  ASSUME TypeInv, Apart,
         \A p \in Producer : frame'[p].buf \in Buffer => frame'[p].buf = frame[p].buf,
         \A o \in Output : pool'[o] \subseteq pool[o],
         held' = held,
         \A o \in Output : \A i \in DOMAIN queue'[o] : queue'[o][i] \in Buffer =>
           i \in DOMAIN queue[o] /\ queue[o][i] = queue'[o][i],
         pool' \in [Output -> SUBSET Buffer]
  PROVE  Apart'
<1>1. ApartWithin'
  BY DEF Apart, ApartWithin
<1>2. ApartFromProducer'
  BY DEF Apart, ApartFromProducer
<1>3. ApartBetween'
  BY DEF Apart, ApartBetween, TypeInv, TypeOK
<1> QED BY <1>1, <1>2, <1>3 DEF Apart
(* A frame that goes back: the buffer in p's hand and those freed with a   *)
(* reused pool frame are counted back once, and nothing reaches them.      *)
LEMMA OwnGoesBack ==
  ASSUME TypeInv, OwnInv, TypeInv', NEW p \in Producer, at[p] # "idle",
         NEW freed \in SUBSET Buffer,
         \A b \in freed : \E o \in Output : b \in pool[o],
         LeaveOnFrame(p), HandBack(freed \cup {frame[p].buf}), held' = held,
         \A u \in Output : pool'[u] = pool[u] \ freed,
         \A o \in Output : \A i \in DOMAIN queue'[o] : queue'[o][i] \in Buffer =>
           i \in DOMAIN queue[o] /\ queue[o][i] = queue'[o][i]
  PROVE  OwnInv'
<1> DEFINE back == freed \cup {frame[p].buf}
<1>1. frame[p].buf \in Buffer /\ lent[frame[p].buf] = 1
  BY DEF TypeInv, FrameInHand, OwnInv, LentIfReached
<1>2. \A b \in back : b \in Buffer /\ lent[b] = 1
  BY <1>1 DEF OwnInv, LentIfReached
<1>3. \A b \in Buffer : lent'[b] = IF b \in back THEN lent[b] - 1 ELSE lent[b]
  BY DEF HandBack
<1>4. /\ \A q \in Producer : frame'[q].buf \in Buffer => q # p /\ frame'[q].buf = frame[q].buf
      /\ frame'[p].buf \notin Buffer
  BY ItemAssumption DEF LeaveOnFrame, NoFrame, TypeInv, TypeOK
<1>5. Apart'
  BY <1>4, ApartShrinks DEF OwnInv, TypeInv, TypeOK
<1>6. LentOnce'
  BY <1>2, <1>3 DEF OwnInv, LentOnce
<1>7. LentIfReached'
  <2>1. \A q \in Producer : frame'[q].buf \in Buffer => frame'[q].buf \notin back
    BY <1>1, <1>4 DEF OwnInv, Apart, ApartWithin, ApartFromProducer
  <2>2. \A o \in Output : \A b \in pool'[o] : b \in Buffer /\ b \in pool[o] /\ b \notin back
    BY <1>1 DEF OwnInv, Apart, ApartFromProducer, TypeInv, TypeOK
  <2>3. \A x \in Extractor : held[x] \in Buffer => held[x] \notin back
    BY <1>1 DEF OwnInv, Apart, ApartFromProducer, ApartBetween
  <2>4. \A o \in Output : \A i \in DOMAIN queue'[o] :
          queue'[o][i] \in Buffer => queue'[o][i] \notin back
    BY <1>1 DEF OwnInv, Apart, ApartFromProducer, ApartBetween
  <2> QED BY <1>3, <1>4, <2>1, <2>2, <2>3, <2>4 DEF OwnInv, LentIfReached
<1> QED BY <1>5, <1>6, <1>7 DEF OwnInv

(* What newFrame() frees comes out of that output's pool only. *)
LEMMA NewFrameFrees ==
  ASSUME TypeInv, OwnInv, NEW o \in Output, NEW freed \in SUBSET Buffer, NewFrame(o, freed)
  PROVE  /\ \A b \in freed : \E u \in Output : b \in pool[u]
         /\ \A u \in Output : pool'[u] = pool[u] \ freed
<1>1. freed \subseteq pool[o]
  BY DEF NewFrame
<1>2. \A u \in Output : u # o => pool[u] \cap freed = {}
  BY <1>1 DEF OwnInv, Apart, ApartWithin
<1> QED BY <1>1, <1>2 DEF NewFrame, TypeInv, TypeOK

(* Appending a frame that is not a buffer adds no reference. *)
LEMMA AppendDecoded ==
  ASSUME TypeInv, NEW o \in Output, queue' = [queue EXCEPT ![o] = Append(@, Decoded)]
  PROVE  \A u \in Output : \A i \in DOMAIN queue'[u] : queue'[u][i] \in Buffer =>
           i \in DOMAIN queue[u] /\ queue[u][i] = queue'[u][i]
<1>1. queue[o] \in Seq(Item)
  BY DEF TypeInv, TypeOK
<1>2. \A i \in DOMAIN queue'[o] : queue'[o][i] \in Buffer =>
        i \in DOMAIN queue[o] /\ queue[o][i] = queue'[o][i]
  BY <1>1, ItemAssumption DEF TypeInv, TypeOK
<1> QED BY <1>2 DEF TypeInv, TypeOK

(* The buffer in p's hand moves to the end of a queue. *)
LEMMA OwnEnqueue ==
  ASSUME TypeInv, OwnInv, TypeInv', NEW p \in Producer, NEW freed \in SUBSET Buffer,
         EnqueueRaw(p, freed)
  PROVE  OwnInv'
<1> DEFINE o == frame[p].stream
           b == frame[p].buf
           n == Len(queue[o]) + 1
<1>1. o \in Output /\ b \in Buffer /\ lent[b] = 1 /\ queue[o] \in Seq(Item)
  BY DEF EnqueueRaw, TypeInv, TypeOK, FrameInHand, OwnInv, LentIfReached
<1>2. /\ \A c \in freed : \E u \in Output : c \in pool[u]
      /\ \A u \in Output : pool'[u] = pool[u] \ freed
  BY <1>1, NewFrameFrees DEF EnqueueRaw
<1>3. /\ \A c \in freed : lent[c] = 1
      /\ b \notin freed
      /\ \A c \in Buffer : lent'[c] = IF c \in freed THEN lent[c] - 1 ELSE lent[c]
  BY <1>1, <1>2 DEF EnqueueRaw, HandBack, OwnInv, LentIfReached, Apart, ApartFromProducer
<1>4. /\ \A q \in Producer : frame'[q].buf \in Buffer => q # p /\ frame'[q].buf = frame[q].buf
      /\ held' = held
  BY ItemAssumption DEF EnqueueRaw, LeaveOnFrame, NoFrame, TypeInv, TypeOK
<1>5. /\ n \in DOMAIN queue'[o] /\ queue'[o][n] = b
      /\ \A u \in Output : \A i \in DOMAIN queue'[u] :
           \/ u = o /\ i = n
           \/ i \in DOMAIN queue[u] /\ queue'[u][i] = queue[u][i]
  <2>1. /\ queue'[o] = Append(queue[o], b)
        /\ \A u \in Output : u # o => queue'[u] = queue[u]
    BY <1>1 DEF EnqueueRaw, TypeInv, TypeOK
  <2>2. b \in Item
    BY <1>1 DEF Item
  <2>3. /\ n \in DOMAIN queue'[o] /\ queue'[o][n] = b
        /\ \A i \in DOMAIN queue'[o] :
             i = n \/ (i \in DOMAIN queue[o] /\ queue'[o][i] = queue[o][i])
    BY <1>1, <2>1, <2>2, AppendElements
  <2> QED BY <2>1, <2>3
<1>6. LentOnce'
  BY <1>3 DEF OwnInv, LentOnce
<1>7. LentIfReached'
  <2>1. \A q \in Producer : frame'[q].buf \in Buffer => frame'[q].buf \notin freed
    BY <1>2, <1>4 DEF OwnInv, Apart, ApartFromProducer
  <2>2. \A x \in Extractor : held[x] \notin freed
    BY <1>2 DEF OwnInv, Apart, ApartBetween
  <2>3. \A u \in Output : \A i \in DOMAIN queue'[u] : queue'[u][i] \notin freed
    BY <1>2, <1>3, <1>5 DEF OwnInv, Apart, ApartBetween
  <2>4. \A u \in Output : \A c \in pool'[u] : c \in pool[u] /\ c \notin freed /\ c \in Buffer
    BY <1>2 DEF TypeInv, TypeOK
  <2> QED BY <1>1, <1>3, <1>4, <1>5, <2>1, <2>2, <2>3, <2>4 DEF OwnInv, LentIfReached
<1>8. ApartWithin'
  <2>1. \A u \in Output : \A i \in DOMAIN queue[u] : queue[u][i] # b
    BY <1>1 DEF OwnInv, Apart, ApartFromProducer
  <2>2. \A u, v \in Output : \A i \in DOMAIN queue'[u], j \in DOMAIN queue'[v] :
          queue'[u][i] \in Buffer /\ queue'[u][i] = queue'[v][j] => u = v /\ i = j
    BY <1>5, <2>1 DEF OwnInv, Apart, ApartWithin
  <2> QED BY <1>2, <1>4, <2>2 DEF OwnInv, Apart, ApartWithin
<1>9. ApartFromProducer'
  <2>1. \A q \in Producer : frame'[q].buf \in Buffer => frame'[q].buf # b
    BY <1>1, <1>4 DEF OwnInv, Apart, ApartWithin
  <2> QED BY <1>2, <1>4, <1>5, <2>1 DEF OwnInv, Apart, ApartFromProducer
<1>10. ApartBetween'
  BY <1>1, <1>2, <1>4, <1>5 DEF OwnInv, Apart, ApartFromProducer, ApartBetween
<1> QED BY <1>6, <1>7, <1>8, <1>9, <1>10 DEF OwnInv, Apart

(* A buffer is lent to the one producer that delivers it. *)
LEMMA OwnDeliver ==
  ASSUME TypeInv, OwnInv, TypeInv', NEW p \in Producer, NEW b \in Buffer,
         NEW s \in Stream, NEW k \in Kind, Deliver(p, b, s, k)
  PROVE  OwnInv'
<1>1. lent[b] = 0 /\ lent' = [lent EXCEPT ![b] = 1] /\ queue' = queue /\ pool' = pool /\ held' = held
  BY DEF Deliver
<1>2. /\ frame'[p].buf = b
      /\ \A q \in Producer : q # p => frame'[q].buf = frame[q].buf
  BY DEF Deliver, TypeInv, TypeOK
<1>3. /\ \A q \in Producer : frame[q].buf # b
      /\ \A o \in Output : b \notin pool[o]
      /\ \A x \in Extractor : held[x] # b
      /\ \A o \in Output : \A i \in DOMAIN queue[o] : queue[o][i] # b
  BY <1>1 DEF OwnInv, LentIfReached
<1>4. lent'[b] = 1 /\ \A c \in Buffer : c # b => lent'[c] = lent[c]
  BY <1>1 DEF TypeInv, TypeOK
<1>5. LentOnce'
  BY <1>4 DEF OwnInv, LentOnce
<1>6. LentIfReached'
  <2>1. \A c \in Buffer : lent[c] = 1 => lent'[c] = 1
    BY <1>4
  <2>2. \A q \in Producer : frame'[q].buf \in Buffer => lent'[frame'[q].buf] = 1
    BY <1>2, <1>4, <2>1 DEF OwnInv, LentIfReached
  <2>3. \A o \in Output : \A c \in pool'[o] : lent'[c] = 1
    BY <1>1, <2>1 DEF OwnInv, LentIfReached, TypeInv, TypeOK
  <2>4. \A x \in Extractor : held'[x] \in Buffer => lent'[held'[x]] = 1
    BY <1>1, <2>1 DEF OwnInv, LentIfReached
  <2>5. \A o \in Output : \A i \in DOMAIN queue'[o] :
          queue'[o][i] \in Buffer => lent'[queue'[o][i]] = 1
    BY <1>1, <2>1 DEF OwnInv, LentIfReached
  <2> QED BY <2>2, <2>3, <2>4, <2>5 DEF LentIfReached
<1>7. Apart'
  BY <1>1, <1>2, <1>3 DEF OwnInv, Apart, ApartWithin, ApartFromProducer, ApartBetween
<1> QED BY <1>5, <1>6, <1>7 DEF OwnInv

(* Moving along onFrame with the same frame changes no owner. *)
LEMMA OwnUnchanged ==
  ASSUME OwnInv, UNCHANGED <<lent, frame, queue, pool, held>>
  PROVE  OwnInv'
BY DEF OwnInv, LentOnce, LentIfReached, Apart, ApartWithin, ApartFromProducer, ApartBetween

LEMMA OwnProducer ==
  ASSUME TypeInv, OwnInv, TypeInv', NEW p \in Producer, ProducerDeliver(p) \/ ProducerStep(p)
  PROVE  OwnInv'
<1>1. CASE ProducerDeliver(p)
  BY <1>1, OwnDeliver, StreamAssumption DEF ProducerDeliver, Stream
<1>2. CASE OnFrameIgnored(p)
  <2>1. \A q \in Producer : frame'[q].buf \in Buffer => frame'[q].buf = frame[q].buf
    BY <1>2, ItemAssumption DEF OnFrameIgnored, LeaveOnFrame, NoFrame, TypeInv, TypeOK
  <2>2. UNCHANGED <<lent, queue, pool, held>>
    BY <1>2 DEF OnFrameIgnored, frameVars
  <2>3. Apart'
    BY <2>1, <2>2, ApartShrinks DEF OwnInv, TypeInv, TypeOK
  <2> QED BY <2>1, <2>2, <2>3 DEF OwnInv, LentOnce, LentIfReached
<1>3. CASE OnFrameTaken(p) \/ AcceptFrame(p) \/ ImuEnter(p) \/ ImuLeave(p)
  BY <1>3, OwnUnchanged DEF OnFrameTaken, AcceptFrame, ImuEnter, ImuLeave, frameVars
<1>4. CASE UnknownStream(p) \/ RefuseFrame(p) \/ ImuRelease(p)
  <2>1. at[p] # "idle" /\ LeaveOnFrame(p) /\ HandBack({} \cup {frame[p].buf})
    BY <1>4 DEF UnknownStream, RefuseFrame, ImuRelease
  <2>2. UNCHANGED <<queue, pool, held>>
    BY <1>4 DEF UnknownStream, RefuseFrame, ImuRelease
  <2>3. \A u \in Output : pool'[u] = pool[u] \ {}
    BY <2>2
  <2> QED BY <2>1, <2>2, <2>3, OwnGoesBack
<1>5. ASSUME NEW freed \in SUBSET Buffer, EnqueueRaw(p, freed) PROVE OwnInv'
  BY <1>5, OwnEnqueue
<1>6. ASSUME NEW freed \in SUBSET Buffer, WrapFails(p, freed) PROVE OwnInv'
  <2>1. frame[p].stream \in Output
    BY <1>6 DEF WrapFails, TypeInv, FrameInHand
  <2>2. /\ \A b \in freed : \E u \in Output : b \in pool[u]
        /\ \A u \in Output : pool'[u] = pool[u] \ freed
    BY <1>6, <2>1, NewFrameFrees DEF WrapFails
  <2>3. /\ at[p] # "idle" /\ LeaveOnFrame(p) /\ HandBack(freed \cup {frame[p].buf})
        /\ held' = held /\ queue' = queue
    BY <1>6 DEF WrapFails
  <2> QED BY <2>2, <2>3, OwnGoesBack
<1>7. ASSUME NEW produced \in BOOLEAN, DecodeCompressed(p, produced) PROVE OwnInv'
  <2>1. frame[p].stream \in Output
    BY <1>7 DEF DecodeCompressed, TypeInv, FrameInHand
  <2>2. \A u \in Output : \A i \in DOMAIN queue'[u] : queue'[u][i] \in Buffer =>
          i \in DOMAIN queue[u] /\ queue[u][i] = queue'[u][i]
    BY <1>7, <2>1, AppendDecoded DEF DecodeCompressed
  <2>3. /\ at[p] # "idle" /\ LeaveOnFrame(p) /\ HandBack({} \cup {frame[p].buf})
        /\ held' = held /\ \A u \in Output : pool'[u] = pool[u] \ {}
    BY <1>7 DEF DecodeCompressed
  <2> QED BY <2>2, <2>3, OwnGoesBack
<1> QED BY <1>1, <1>2, <1>3, <1>4, <1>5, <1>6, <1>7 DEF ProducerStep

(* drain() hands back what the queues and pools hold, and nothing else. *)
LEMMA OwnCaller ==
  ASSUME TypeInv, OwnInv, TypeInv', NEW c \in Caller, CallerCall(c) \/ CallerStep(c)
  PROVE  OwnInv'
<1>1. CASE Drain(c)
  <2>0. PICK back : back = UNION {Queued(o) \cup pool[o] : o \in Output}
    OBVIOUS
  <2>1. /\ UNCHANGED <<frame, held>>
        /\ \A o \in Output : pool'[o] = {} /\ DOMAIN queue'[o] = {}
        /\ \A b \in Buffer : lent'[b] = IF b \in back THEN lent[b] - 1 ELSE lent[b]
    BY <1>1, <2>0 DEF Drain, HandBack
  <2>2. \A b \in back :
          /\ b \in Buffer
          /\ \/ \E o \in Output : b \in pool[o]
             \/ \E o \in Output : \E i \in DOMAIN queue[o] : queue[o][i] = b
    <3>1. \A o \in Output : pool[o] \subseteq Buffer
      BY DEF TypeInv, TypeOK
    <3>2. \A o \in Output : \A b \in Queued(o) :
            b \in Buffer /\ \E i \in DOMAIN queue[o] : queue[o][i] = b
      BY DEF Queued
    <3> SUFFICES ASSUME NEW b \in back
                 PROVE  /\ b \in Buffer
                        /\ \/ \E o \in Output : b \in pool[o]
                           \/ \E o \in Output : \E i \in DOMAIN queue[o] : queue[o][i] = b
      OBVIOUS
    <3>3. PICK o \in Output : b \in Queued(o) \cup pool[o]
      BY <2>0
    <3>4. CASE b \in pool[o]
      BY <3>1, <3>4
    <3>5. CASE b \in Queued(o)
      BY <3>2, <3>5
    <3> QED BY <3>3, <3>4, <3>5
  <2>3. \A b \in back : lent[b] = 1
    BY <2>2 DEF OwnInv, LentIfReached
  <2>4. LentOnce'
    BY <2>1, <2>3 DEF OwnInv, LentOnce
  <2>5. /\ \A p \in Producer : frame[p].buf \in Buffer => frame[p].buf \notin back
        /\ \A x \in Extractor : held[x] \in Buffer => held[x] \notin back
    BY <2>2 DEF OwnInv, Apart, ApartFromProducer, ApartBetween
  <2>6. LentIfReached'
    BY <2>1, <2>5 DEF OwnInv, LentIfReached
  <2>7. Apart'
    BY <2>1, ApartShrinks DEF OwnInv, TypeInv, TypeOK
  <2> QED BY <2>4, <2>6, <2>7 DEF OwnInv
<1>2. CASE CallerCall(c)
  BY <1>2, OwnUnchanged DEF CallerCall, Start, Stop, RequestStop, SetImuCallback, frameVars
<1>3. CASE CallerStep(c) /\ ~Drain(c)
  BY <1>3, OwnUnchanged
  DEF CallerStep, StartStep, StopStep, CloseStep, ResetVotes, SetRunning, BackendStart,
      Exchange, BackendStop, Join, BackendClose, ClearDevice, frameVars
<1> QED BY <1>1, <1>2, <1>3

(* A renderer takes the head of its queue and returns what it held. *)
LEMMA OwnRenderer ==
  ASSUME TypeInv, OwnInv, TypeInv', NEW x \in Extractor, RendererStep(x)
  PROVE  OwnInv'
<1> DEFINE o == Reads[x]
<1>1. /\ o \in Output /\ UNCHANGED <<frame, lent>>
      /\ \A u \in Output : \A b \in pool'[u] :
           b \in Buffer /\ (b \in pool[u] \/ (u = o /\ b = held[x]))
      /\ \A y \in Extractor : y # x => held'[y] = held[y]
  <2>1. o \in Output /\ UNCHANGED <<frame, lent>> /\ ReleaseTo(o, held[x])
    BY StreamAssumption DEF RendererStep, RenderPass, ReleaseRenderer
  <2>2. \A u \in Output : \A b \in pool'[u] : b \in Buffer /\ (b \in pool[u] \/ (u = o /\ b = held[x]))
    BY <2>1 DEF ReleaseTo, TypeInv, TypeOK
  <2>3. \A y \in Extractor : y # x => held'[y] = held[y]
    BY DEF RendererStep, RenderPass, ReleaseRenderer, TypeInv, TypeOK
  <2> QED BY <2>1, <2>2, <2>3
<1>2. LentOnce'
  BY <1>1 DEF OwnInv, LentOnce
<1>3. CASE ReleaseRenderer(x)
  <2>1. held'[x] = None /\ queue' = queue
    BY <1>3 DEF ReleaseRenderer, TypeInv, TypeOK
  <2>2. LentIfReached'
    BY <1>1, <2>1, ItemAssumption DEF OwnInv, LentIfReached
  <2>3. ApartWithin'
    BY <1>1, <2>1, ItemAssumption DEF OwnInv, Apart, ApartWithin, ApartBetween
  <2>4. ApartFromProducer'
    BY <1>1, <2>1, ItemAssumption DEF OwnInv, Apart, ApartFromProducer
  <2>5. ApartBetween'
    BY <1>1, <2>1, ItemAssumption DEF OwnInv, Apart, ApartWithin, ApartBetween
  <2> QED BY <1>2, <2>2, <2>3, <2>4, <2>5 DEF OwnInv, Apart
<1>4. CASE RenderPass(x)
  <2>1. /\ 1 \in DOMAIN queue[o] /\ held'[x] = queue[o][1]
        /\ \A i \in DOMAIN queue'[o] : i + 1 \in DOMAIN queue[o] /\ i + 1 # 1
                                       /\ queue'[o][i] = queue[o][i + 1]
        /\ \A i, j \in DOMAIN queue'[o] : i + 1 = j + 1 => i = j
        /\ \A u \in Output : u # o => queue'[u] = queue[u]
    <3>1. queue[o] \in Seq(Item) /\ queue[o] # <<>> /\ queue'[o] = Tail(queue[o])
      BY <1>1, <1>4 DEF RenderPass, TypeInv, TypeOK
    <3>2. held'[x] = Head(queue[o]) /\ \A u \in Output : u # o => queue'[u] = queue[u]
      BY <1>1, <1>4 DEF RenderPass, TypeInv, TypeOK
    <3> QED BY <3>1, <3>2, TailElements
  <2>2. LentIfReached'
    BY <1>1, <2>1 DEF OwnInv, LentIfReached
  <2>3. ApartWithin'
    BY <1>1, <2>1 DEF OwnInv, Apart, ApartWithin, ApartBetween
  <2>4. ApartFromProducer'
    BY <1>1, <2>1 DEF OwnInv, Apart, ApartFromProducer
  <2>5. ApartBetween'
    BY <1>1, <2>1 DEF OwnInv, Apart, ApartWithin, ApartBetween
  <2> QED BY <1>2, <2>2, <2>3, <2>4, <2>5 DEF OwnInv, Apart
<1> QED BY <1>3, <1>4 DEF RendererStep

LEMMA OwnInvariant == Spec => []OwnInv
<1>1. Init => OwnInv
  BY ItemAssumption
  DEF Init, NoFrame, OwnInv, LentOnce, LentIfReached, Apart, ApartWithin, ApartFromProducer,
      ApartBetween
<1>2. TypeInv /\ OwnInv /\ TypeInv' /\ [Next]_vars => OwnInv'
  <2>1. CASE UNCHANGED vars
    BY <2>1, OwnUnchanged DEF vars, frameVars
  <2> QED BY <2>1, OwnCaller, OwnProducer, OwnRenderer DEF Next
<1> QED BY <1>1, <1>2, TypeInvariant, PTL DEF Spec

(* A buffer is handed back once for every time it was lent, the host can   *)
(* reach it in at most one way, and in none after it went back: however    *)
(* starts, stops, closes, deliveries and render passes interleave, on any  *)
(* number of threads, and whether or not backend->stop joins.              *)
THEOREM BuffersOwnedOnce == Spec => []OwnedOnce
<1>1. TypeInv /\ OwnInv => OwnedOnce
  <2> SUFFICES ASSUME TypeInv, OwnInv, NEW b \in Buffer
               PROVE  /\ lent[b] \in {0, 1}
                      /\ References(b) # {} => lent[b] = 1
                      /\ Cardinality(References(b)) <= 1
    BY DEF OwnedOnce
  <2>1. \A r \in References(b) :
          \/ \E p \in Producer : r = <<"producer", p>> /\ frame[p].buf = b
          \/ \E o \in Output : r = <<"pool", o>> /\ b \in pool[o]
          \/ \E x \in Extractor : r = <<"renderer", x>> /\ held[x] = b
          \/ \E o \in Output : \E i \in DOMAIN queue[o] : r = <<"queue", o, i>> /\ queue[o][i] = b
    BY DEF References
  <2>2. lent[b] \in {0, 1}
    BY DEF OwnInv, LentOnce
  <2>3. References(b) # {} => lent[b] = 1
    BY <2>1 DEF OwnInv, LentIfReached
  <2>4. \A r, s \in References(b) : r = s
    <3> SUFFICES ASSUME NEW r \in References(b), NEW s \in References(b) PROVE r = s
      OBVIOUS
    <3>1. CASE \E p \in Producer : r = <<"producer", p>> /\ frame[p].buf = b
      BY <2>1, <3>1 DEF OwnInv, Apart, ApartWithin, ApartFromProducer
    <3>2. CASE \E o \in Output : r = <<"pool", o>> /\ b \in pool[o]
      BY <2>1, <3>2 DEF OwnInv, Apart, ApartWithin, ApartFromProducer, ApartBetween
    <3>3. CASE \E x \in Extractor : r = <<"renderer", x>> /\ held[x] = b
      BY <2>1, <3>3 DEF OwnInv, Apart, ApartWithin, ApartFromProducer, ApartBetween
    <3>4. CASE \E o \in Output : \E i \in DOMAIN queue[o] :
                 r = <<"queue", o, i>> /\ queue[o][i] = b
      BY <2>1, <3>4 DEF OwnInv, Apart, ApartWithin, ApartFromProducer, ApartBetween
    <3> QED BY <2>1, <3>1, <3>2, <3>3, <3>4
  <2>5. Cardinality(References(b)) <= 1
    <3>1. CASE References(b) = {}
      BY <3>1, FS_EmptySet
    <3>2. CASE References(b) # {}
      <4>1. PICK r \in References(b) : TRUE
        BY <3>2
      <4>2. References(b) = {r}
        BY <2>4, <4>1
      <4>3. Cardinality({r}) = 1
        BY FS_Singleton
      <4> QED BY <4>2, <4>3
    <3> QED BY <3>1, <3>2
  <2> QED BY <2>2, <2>3, <2>5
<1> QED BY <1>1, TypeInvariant, OwnInvariant, PTL

-----------------------------------------------------------------------------
(***************************************************************************)
(* Where a buffer can be lost.                                             *)
(***************************************************************************)

Reached(b) ==
  \/ \E p \in Producer : frame[p].buf = b
  \/ \E o \in Output : b \in pool[o]
  \/ \E x \in Extractor : held[x] = b
  \/ \E o \in Output : \E i \in DOMAIN queue[o] : queue[o][i] = b

LEMMA ReachedByReference ==
  ASSUME NEW b
  PROVE  References(b) = {} <=> ~Reached(b)
<1> DEFINE P == {<<"producer", p>> : p \in {q \in Producer : frame[q].buf = b}}
           O == {<<"pool", o>> : o \in {u \in Output : b \in pool[u]}}
           X == {<<"renderer", x>> : x \in {y \in Extractor : held[y] = b}}
           S(o) == {<<"queue", o, i>> : i \in {j \in DOMAIN queue[o] : queue[o][j] = b}}
           Q == UNION {S(o) : o \in Output}
<1>1. References(b) = P \cup O \cup X \cup Q
  BY DEF References
<1>2. P = {} <=> ~\E p \in Producer : frame[p].buf = b
  OBVIOUS
<1>3. O = {} <=> ~\E o \in Output : b \in pool[o]
  OBVIOUS
<1>4. X = {} <=> ~\E x \in Extractor : held[x] = b
  OBVIOUS
<1>5. Q = {} <=> ~\E o \in Output : \E i \in DOMAIN queue[o] : queue[o][i] = b
  <2>1. \A o \in Output : S(o) = {} <=> ~\E i \in DOMAIN queue[o] : queue[o][i] = b
    OBVIOUS
  <2>2. Q = {} <=> \A o \in Output : S(o) = {}
    OBVIOUS
  <2> QED BY <2>1, <2>2
<1> HIDE DEF P, O, X, Q
<1> QED BY <1>1, <1>2, <1>3, <1>4, <1>5 DEF Reached

(* A buffer that goes back is not lost, nor is one that stays in reach. *)
Kept(b) == lent'[b] # 1 \/ Reached(b)'

(* The early returns of onFrame are the only way to lose a buffer. *)
Exempt(b) ==
  \/ ~running
  \/ \E p \in Producer : frame[p].buf = b /\ frame[p].kind = "empty"

LEMMA LeavingReaches ==
  ASSUME TypeInv, NEW p \in Producer, LeaveOnFrame(p), NEW b \in Buffer, b # frame[p].buf,
         \A o \in Output : b \in pool[o] => b \in pool'[o],
         held' = held,
         \A o \in Output : \A i \in DOMAIN queue[o] :
           queue[o][i] = b => i \in DOMAIN queue'[o] /\ queue'[o][i] = b,
         Reached(b)
  PROVE  Reached(b)'
<1>1. \A q \in Producer : frame[q].buf = b => frame'[q].buf = b
  BY DEF LeaveOnFrame, TypeInv, TypeOK
<1> QED BY <1>1 DEF Reached

(* What stands in a queue stays there when a frame is appended. *)
LEMMA AppendKeeps ==
  ASSUME TypeInv, NEW o \in Output, NEW e, e \in Item, queue' = [queue EXCEPT ![o] = Append(@, e)]
  PROVE  \A u \in Output : \A i \in DOMAIN queue[u] :
           i \in DOMAIN queue'[u] /\ queue'[u][i] = queue[u][i]
<1>1. queue[o] \in Seq(Item)
  BY DEF TypeInv, TypeOK
<1>2. \A i \in DOMAIN queue[o] : i \in DOMAIN queue'[o] /\ queue'[o][i] = queue[o][i]
  BY <1>1 DEF TypeInv, TypeOK
<1> QED BY <1>2 DEF TypeInv, TypeOK

LEMMA KeptByProducer ==
  ASSUME TypeInv, OwnInv, NEW p \in Producer, ProducerDeliver(p) \/ ProducerStep(p),
         NEW b \in Buffer, ~Exempt(b), lent[b] # 1 \/ Reached(b)
  PROVE  Kept(b)
<1>1. CASE ProducerDeliver(p)
  <2>1. PICK d \in Buffer, s \in Serves[p], k \in Kind : Deliver(p, d, s, k)
    BY <1>1 DEF ProducerDeliver
  <2>2. /\ UNCHANGED <<queue, pool, held>> /\ frame'[p].buf = d /\ at[p] = "idle"
        /\ \A q \in Producer : q # p => frame'[q] = frame[q]
        /\ lent' = [lent EXCEPT ![d] = 1]
    BY <2>1 DEF Deliver, TypeInv, TypeOK
  <2>3. frame[p].buf = None
    BY <2>2 DEF TypeInv, FrameInHand
  <2>4. CASE b = d
    BY <2>2, <2>4 DEF Kept, Reached
  <2>5. CASE b # d
    BY <2>2, <2>3, <2>5, ItemAssumption DEF Kept, Reached, TypeInv, TypeOK
  <2> QED BY <2>4, <2>5
<1>2. CASE OnFrameIgnored(p)
  <2>1. frame[p].buf # b
    BY <1>2 DEF Exempt, OnFrameIgnored
  <2> QED BY <1>2, <2>1, LeavingReaches DEF OnFrameIgnored, frameVars, Kept
<1>3. CASE OnFrameTaken(p) \/ AcceptFrame(p) \/ ImuEnter(p) \/ ImuLeave(p)
  BY <1>3 DEF OnFrameTaken, AcceptFrame, ImuEnter, ImuLeave, frameVars, Kept, Reached
<1>4. ASSUME NEW freed \in SUBSET Buffer, at[p] # "idle", LeaveOnFrame(p), held' = held,
             HandBack(freed \cup {frame[p].buf}),
             \A c \in freed : \E u \in Output : c \in pool[u],
             \A u \in Output : pool'[u] = pool[u] \ freed,
             \A o \in Output : \A i \in DOMAIN queue[o] :
               i \in DOMAIN queue'[o] /\ queue'[o][i] = queue[o][i]
      PROVE  Kept(b)
  <2>1. lent[b] \in {0, 1} /\ (Reached(b) => lent[b] = 1)
    BY DEF OwnInv, LentOnce, LentIfReached, Reached
  <2>2. CASE b \in freed \cup {frame[p].buf} \/ lent[b] # 1
    BY <1>4, <2>1, <2>2 DEF HandBack, Kept
  <2>3. CASE b \notin freed \cup {frame[p].buf} /\ lent[b] = 1
    BY <1>4, <2>3, LeavingReaches DEF Kept
  <2> QED BY <2>2, <2>3
<1>5. CASE UnknownStream(p) \/ RefuseFrame(p) \/ ImuRelease(p)
  <2>1. /\ at[p] # "idle" /\ LeaveOnFrame(p) /\ held' = held
        /\ HandBack({} \cup {frame[p].buf}) /\ queue' = queue /\ pool' = pool
    BY <1>5 DEF UnknownStream, RefuseFrame, ImuRelease
  <2>2. \A u \in Output : pool'[u] = pool[u] \ {}
    BY <2>1
  <2> QED BY <1>4, <2>1, <2>2
<1>6. ASSUME NEW freed \in SUBSET Buffer, WrapFails(p, freed) PROVE Kept(b)
  <2>1. frame[p].stream \in Output
    BY <1>6 DEF WrapFails, TypeInv, FrameInHand
  <2>2. /\ \A c \in freed : \E u \in Output : c \in pool[u]
        /\ \A u \in Output : pool'[u] = pool[u] \ freed
    BY <1>6, <2>1, NewFrameFrees DEF WrapFails
  <2> QED BY <1>4, <1>6, <2>2 DEF WrapFails
<1>7. ASSUME NEW produced \in BOOLEAN, DecodeCompressed(p, produced) PROVE Kept(b)
  <2>1. frame[p].stream \in Output /\ Decoded \in Item
    BY <1>7 DEF DecodeCompressed, TypeInv, FrameInHand, Item
  <2>2. \A u \in Output : \A i \in DOMAIN queue[u] :
          i \in DOMAIN queue'[u] /\ queue'[u][i] = queue[u][i]
    BY <1>7, <2>1, AppendKeeps DEF DecodeCompressed
  <2>3. /\ at[p] # "idle" /\ LeaveOnFrame(p) /\ HandBack({} \cup {frame[p].buf})
        /\ held' = held /\ \A u \in Output : pool'[u] = pool[u] \ {}
    BY <1>7 DEF DecodeCompressed
  <2> QED BY <1>4, <2>2, <2>3
<1>8. ASSUME NEW freed \in SUBSET Buffer, EnqueueRaw(p, freed) PROVE Kept(b)
  <2> DEFINE o == frame[p].stream
  <2>1. o \in Output /\ frame[p].buf \in Item /\ frame[p].buf \in Buffer
    BY <1>8 DEF EnqueueRaw, TypeInv, FrameInHand, Item
  <2>2. /\ \A c \in freed : \E u \in Output : c \in pool[u]
        /\ \A u \in Output : pool'[u] = pool[u] \ freed
    BY <1>8, <2>1, NewFrameFrees DEF EnqueueRaw
  <2>3. queue' = [queue EXCEPT ![o] = Append(@, frame[p].buf)] /\ held' = held
        /\ LeaveOnFrame(p) /\ HandBack(freed)
    BY <1>8 DEF EnqueueRaw
  <2>4. \A u \in Output : \A i \in DOMAIN queue[u] :
          i \in DOMAIN queue'[u] /\ queue'[u][i] = queue[u][i]
    BY <2>1, <2>3, AppendKeeps
  <2>5. CASE b = frame[p].buf
    <3>1. queue[o] \in Seq(Item) /\ queue'[o] = Append(queue[o], b)
      BY <2>1, <2>3, <2>5 DEF TypeInv, TypeOK
    <3>2. Len(queue[o]) + 1 \in DOMAIN queue'[o] /\ queue'[o][Len(queue[o]) + 1] = b
      BY <2>1, <2>5, <3>1, AppendElements
    <3> QED BY <2>1, <3>2 DEF Kept, Reached
  <2>6. CASE b # frame[p].buf
    <3>1. lent[b] \in {0, 1} /\ (Reached(b) => lent[b] = 1)
      BY DEF OwnInv, LentOnce, LentIfReached, Reached
    <3>2. CASE b \in freed \/ lent[b] # 1
      BY <2>3, <3>1, <3>2 DEF HandBack, Kept
    <3>3. CASE b \notin freed /\ lent[b] = 1
      BY <2>2, <2>3, <2>4, <2>6, <3>3, LeavingReaches DEF Kept
    <3> QED BY <3>2, <3>3
  <2> QED BY <2>5, <2>6
<1> QED BY <1>1, <1>2, <1>3, <1>5, <1>6, <1>7, <1>8 DEF ProducerStep

LEMMA KeptByCaller ==
  ASSUME TypeInv, OwnInv, NEW c \in Caller, CallerCall(c) \/ CallerStep(c),
         NEW b \in Buffer, lent[b] # 1 \/ Reached(b)
  PROVE  Kept(b)
<1>1. CASE Drain(c)
  <2>1. lent[b] \in {0, 1} /\ (Reached(b) => lent[b] = 1)
    BY DEF OwnInv, LentOnce, LentIfReached, Reached
  <2>2. UNCHANGED <<frame, held>>
    BY <1>1 DEF Drain
  <2>3. CASE \E o \in Output : b \in pool[o] \/ \E i \in DOMAIN queue[o] : queue[o][i] = b
    <3>1. PICK o \in Output : b \in Queued(o) \cup pool[o]
      BY <2>3 DEF Queued
    <3>2. b \in UNION {Queued(u) \cup pool[u] : u \in Output}
      BY <3>1
    <3>3. PICK back : back = UNION {Queued(u) \cup pool[u] : u \in Output}
      OBVIOUS
    <3>4. b \in back /\ HandBack(back)
      BY <1>1, <3>2, <3>3 DEF Drain
    <3> QED BY <2>1, <3>4 DEF HandBack, Kept
  <2>4. CASE lent[b] # 1
    <3>1. \E back : HandBack(back)
      BY <1>1 DEF Drain
    <3> QED BY <2>1, <2>4, <3>1 DEF HandBack, Kept
  <2>5. CASE \/ \E p \in Producer : frame[p].buf = b
             \/ \E x \in Extractor : held[x] = b
    BY <2>2, <2>5 DEF Kept, Reached
  <2> QED BY <2>3, <2>4, <2>5 DEF Reached
<1>2. CASE ~Drain(c)
  <2>1. UNCHANGED <<lent, queue, pool, frame, held>>
    BY <1>2 DEF CallerCall, CallerStep, StartStep, StopStep, CloseStep, Start, Stop, RequestStop,
                SetImuCallback, ResetVotes, SetRunning, BackendStart, Exchange, BackendStop,
                Join, BackendClose, ClearDevice, frameVars
  <2> QED BY <2>1 DEF Kept, Reached
<1> QED BY <1>1, <1>2

LEMMA KeptByRenderer ==
  ASSUME TypeInv, NEW x \in Extractor, RendererStep(x), NEW b \in Buffer, lent[b] # 1 \/ Reached(b)
  PROVE  Kept(b)
<1> DEFINE o == Reads[x]
<1>1. /\ o \in Output /\ UNCHANGED <<frame, lent>>
      /\ \A u \in Output : b \in pool[u] => b \in pool'[u]
      /\ held[x] = b => b \in pool'[o]
      /\ \A y \in Extractor : y # x => held'[y] = held[y]
  <2>1. o \in Output /\ UNCHANGED <<frame, lent>> /\ ReleaseTo(o, held[x])
    BY StreamAssumption DEF RendererStep, RenderPass, ReleaseRenderer
  <2>2. \A u \in Output : b \in pool[u] => b \in pool'[u]
    BY <2>1 DEF ReleaseTo, TypeInv, TypeOK
  <2>3. held[x] = b => b \in pool'[o]
    BY <2>1 DEF ReleaseTo, TypeInv, TypeOK
  <2>4. \A y \in Extractor : y # x => held'[y] = held[y]
    BY DEF RendererStep, RenderPass, ReleaseRenderer, TypeInv, TypeOK
  <2> QED BY <2>1, <2>2, <2>3, <2>4
<1>2. ASSUME NEW u \in Output, NEW i \in DOMAIN queue[u], queue[u][i] = b PROVE Reached(b)'
  <2>1. CASE ReleaseRenderer(x) \/ u # o
    <3>1. queue'[u] = queue[u]
      BY <1>1, <2>1 DEF RendererStep, ReleaseRenderer, RenderPass, TypeInv, TypeOK
    <3> QED BY <1>2, <3>1 DEF Reached
  <2>2. CASE RenderPass(x) /\ u = o
    <3>1. queue[o] \in Seq(Item) /\ queue[o] # <<>> /\ queue'[o] = Tail(queue[o])
          /\ held'[x] = Head(queue[o])
      BY <1>1, <2>2 DEF RenderPass, TypeInv, TypeOK
    <3>2. CASE i = 1
      BY <1>2, <2>2, <3>1, <3>2 DEF Reached
    <3>3. CASE i # 1
      <4>1. i - 1 \in DOMAIN queue'[o] /\ queue'[o][i - 1] = b
        BY <1>2, <2>2, <3>1, <3>3
      <4> QED BY <1>1, <4>1 DEF Reached
    <3> QED BY <3>2, <3>3
  <2> QED BY <2>1, <2>2 DEF RendererStep
<1>3. Reached(b) => Reached(b)'
  BY <1>1, <1>2 DEF Reached
<1> QED BY <1>1, <1>3 DEF Kept

(* While the stream runs, a frame with data never costs the backend its    *)
(* buffer: on every path a frame can take through the host and at every    *)
(* interleaving, whatever is dropped, refused, decoded or drawn goes back  *)
(* or stays within reach.  Only the two early returns of onFrame lose one. *)
THEOREM OnlyStoppedOrEmptyIsLost == Spec => LostOnlyOutsideRunning
<1> DEFINE Act == \A b \in Buffer : Lost(b)' /\ ~Lost(b) =>
                    \/ ~running
                    \/ \E p \in Producer : frame[p].buf = b /\ frame[p].kind = "empty"
<1>1. TypeInv /\ OwnInv /\ [Next]_vars => [Act]_vars
  <2> SUFFICES ASSUME TypeInv, OwnInv, [Next]_vars, ~UNCHANGED vars, NEW b \in Buffer,
                      Lost(b)', ~Lost(b)
               PROVE  Exempt(b)
    BY DEF Exempt
  <2>1. lent[b] # 1 \/ Reached(b)
    BY ReachedByReference DEF Lost
  <2>2. ~Kept(b)
    <3>1. (References(b) = {})' <=> ~Reached(b)'
      BY ReachedByReference, PTL
    <3> QED BY <3>1 DEF Lost, Kept
  <2>3. Next
    OBVIOUS
  <2> QED BY <2>1, <2>2, <2>3, KeptByCaller, KeptByProducer, KeptByRenderer DEF Next
<1> QED BY <1>1, TypeInvariant, OwnInvariant, PTL DEF Spec, LostOnlyOutsideRunning

-----------------------------------------------------------------------------
(***************************************************************************)
(* What calls may assume of each other.  start(), stop() and close() take  *)
(* no lock: two of them at once may start a camera the other is closing.   *)
(* What follows holds for any number of threads whose calls do not overlap *)
(* in time, which one calling thread is an instance of.                    *)
(***************************************************************************)

OneCallAtATime == \A c, d \in Caller : c # d => pc[c] = "idle" \/ pc[d] = "idle"

(* m_device is the backend's open device, but for the step in close()      *)
(* between the two; the camera runs or streams only while it is open.      *)
DeviceInv ==
  /\ ~device => handle = "closed"
  /\ handle = "closed" => ~device \/ \E c \in Caller : pc[c] = "clearDevice"
  /\ running \/ streaming => handle = "open"
  /\ streaming => running \/ \E c \in Caller : pc[c] = "backendStop"
  /\ running => streaming \/ \E c \in Caller : pc[c] = "backendStart"

(* What a call has established by the time it gets to each of its steps. *)
CallInv ==
  \A c \in Caller :
    /\ pc[c] \in {"resetVotes", "setRunning", "backendStart", "backendStop"} => handle = "open"
    /\ pc[c] \in {"resetVotes", "setRunning", "backendStop", "join", "drain", "backendClose",
                  "clearDevice"} => ~running
    /\ pc[c] \in {"join", "drain", "backendClose", "clearDevice"} => ~streaming
    /\ pc[c] = "backendStart" => running
    /\ pc[c] = "backendStop" => streaming
    /\ pc[c] = "clearDevice" => handle = "closed"

HandleInv == DeviceInv /\ CallInv /\ NoUseAfterClose

(* If backend->stop joins: a thread in onFrame has a camera that streams,  *)
(* or a stop() that waits for it; a frame waits in a queue only so long as *)
(* that, or until the drain() that follows.                                *)
QuietInv ==
  /\ ~ProducersIdle => streaming \/ \E c \in Caller : pc[c] = "join"
  /\ \A o \in Output : queue[o] # <<>> =>
       streaming \/ \E c \in Caller : pc[c] \in {"join", "drain"}

(* A step of a call finds every other caller idle, and leaves it so. *)
LEMMA Alone ==
  ASSUME TypeInv, OneCallAtATime, OneCallAtATime', NEW c \in Caller, NEW label \in CallerAt,
         pc' = [pc EXCEPT ![c] = label], label # "idle" \/ pc[c] # "idle"
  PROVE  /\ pc'[c] = label
         /\ \A d \in Caller : d # c => pc[d] = "idle" /\ pc'[d] = "idle"
BY DEF OneCallAtATime, TypeInv, TypeOK

LEMMA HandleCall ==
  ASSUME TypeInv, HandleInv, OneCallAtATime, OneCallAtATime', NEW c \in Caller, CallerCall(c)
  PROVE  HandleInv'
<1>1. UNCHANGED <<running, device, handle, streaming, misused>>
  BY DEF CallerCall, Start, Stop, RequestStop, SetImuCallback, ctlVars, sdkVars
<1>2. CASE UNCHANGED pc
  BY <1>1, <1>2 DEF HandleInv, DeviceInv, CallInv, NoUseAfterClose
<1>3. CASE Goto(c, "exchange")
  <2>1. pc'[c] = "exchange" /\ \A d \in Caller : d # c => pc[d] = "idle" /\ pc'[d] = "idle"
    BY <1>3, Alone DEF Goto, CallerAt
  <2>2. pc[c] = "idle"
    BY <1>3, <2>1 DEF CallerCall, Start, Stop, RequestStop, SetImuCallback, ctlVars
  <2> QED BY <1>1, <2>1, <2>2 DEF HandleInv, DeviceInv, CallInv, NoUseAfterClose
<1>4. CASE pc[c] = "idle" /\ Goto(c, "resetVotes") /\ device /\ ~running
  <2>1. pc'[c] = "resetVotes" /\ \A d \in Caller : d # c => pc[d] = "idle" /\ pc'[d] = "idle"
    BY <1>4, Alone DEF Goto, CallerAt
  <2> QED BY <1>1, <1>4, <2>1 DEF HandleInv, DeviceInv, CallInv, NoUseAfterClose, TypeInv, TypeOK
<1> QED BY <1>2, <1>3, <1>4 DEF CallerCall, Start, Stop, RequestStop, SetImuCallback, ctlVars

LEMMA HandleStep ==
  ASSUME TypeInv, HandleInv, OneCallAtATime, OneCallAtATime', NEW c \in Caller, CallerStep(c)
  PROVE  HandleInv'
<1>0. PICK label \in CallerAt : pc' = [pc EXCEPT ![c] = label]
  BY DEF CallerStep, StartStep, StopStep, CloseStep, ResetVotes, SetRunning, BackendStart,
         Exchange, BackendStop, Join, Drain, BackendClose, ClearDevice, AfterStop, Goto, Return,
         CallerAt
<1>1. /\ pc[c] # "idle" /\ pc'[c] = label
      /\ \A d \in Caller : d # c => pc[d] = "idle" /\ pc'[d] = "idle"
  <2>1. pc[c] # "idle"
    BY DEF CallerStep, StartStep, StopStep, CloseStep, ResetVotes, SetRunning, BackendStart,
           Exchange, BackendStop, Join, Drain, BackendClose, ClearDevice
  <2> QED BY <1>0, <2>1, Alone
<1> USE <1>0, <1>1 DEF HandleInv, DeviceInv, CallInv, NoUseAfterClose, TypeInv, TypeOK, Goto, Return
<1>2. CASE ResetVotes(c) BY <1>2 DEF ResetVotes, sdkVars
<1>3. CASE SetRunning(c) BY <1>3 DEF SetRunning, sdkVars
<1>4. CASE BackendStart(c)
  <2>1. pc[c] = "backendStart" /\ handle = "open" /\ ~misused
    BY <1>4 DEF BackendStart
  <2>2. pc'[c] = "idle" /\ ~misused' /\ handle' = "open" /\ device' = device
    BY <1>4, <2>1 DEF BackendStart
  <2>3. streaming' = running'
    BY <1>4, <2>1 DEF BackendStart
  <2> QED BY <2>1, <2>2, <2>3
<1>5. CASE Exchange(c) BY <1>5 DEF Exchange, AfterStop, sdkVars
<1>6. CASE BackendStop(c) BY <1>6 DEF BackendStop
<1>7. CASE Join(c) BY <1>7 DEF Join, sdkVars
<1>8. CASE Drain(c) BY <1>8 DEF Drain, AfterStop, sdkVars
<1>9. CASE BackendClose(c) BY <1>9 DEF BackendClose, sdkVars
<1>10. CASE ClearDevice(c) BY <1>10 DEF ClearDevice, sdkVars
<1> QED BY <1>2, <1>3, <1>4, <1>5, <1>6, <1>7, <1>8, <1>9, <1>10
        DEF CallerStep, StartStep, StopStep, CloseStep

(* Nothing else touches the camera's state. *)
LEMMA HandleElsewhere ==
  ASSUME HandleInv, UNCHANGED <<running, device, handle, streaming, misused, pc>>
  PROVE  HandleInv'
BY DEF HandleInv, DeviceInv, CallInv, NoUseAfterClose

LEMMA OthersKeepControl ==
  ASSUME \/ \E p \in Producer : ProducerDeliver(p) \/ ProducerStep(p)
         \/ \E x \in Extractor : RendererStep(x)
  PROVE  UNCHANGED <<ctlVars, sdkVars>>
BY DEF ProducerDeliver, Deliver, ProducerStep, OnFrameIgnored, OnFrameTaken, UnknownStream,
       RefuseFrame, AcceptFrame, EnqueueRaw, WrapFails, DecodeCompressed, ImuEnter, ImuLeave,
       ImuRelease, RendererStep, RenderPass, ReleaseRenderer

LEMMA HandleNext ==
  TypeInv /\ HandleInv /\ OneCallAtATime /\ OneCallAtATime' /\ [Next]_vars => HandleInv'
<1> SUFFICES ASSUME TypeInv, HandleInv, OneCallAtATime, OneCallAtATime', [Next]_vars
             PROVE  HandleInv'
  OBVIOUS
<1>1. CASE UNCHANGED vars
  BY <1>1, HandleElsewhere DEF vars, ctlVars, sdkVars
<1>2. CASE \/ \E p \in Producer : ProducerDeliver(p) \/ ProducerStep(p)
           \/ \E x \in Extractor : RendererStep(x)
  BY <1>2, OthersKeepControl, HandleElsewhere DEF ctlVars, sdkVars
<1> QED BY <1>1, <1>2, HandleCall, HandleStep DEF Next

LEMMA HandleInvariant == Spec /\ []OneCallAtATime => []HandleInv
<1>1. Init => HandleInv
  BY DEF Init, HandleInv, DeviceInv, CallInv, NoUseAfterClose
<1> QED BY <1>1, HandleNext, TypeInvariant, PTL DEF Spec

(* What a call does to the camera, BackendContract allows.  start() finds  *)
(* it open, or it streams already; the end of stop() is the end of the     *)
(* joining; close() finds it stopped, and waits for those in onFrame.      *)
LEMMA CallKeepsContract ==
  ASSUME TypeInv, HandleInv, OneCallAtATime, OneCallAtATime', NEW c \in Caller,
         CallerCall(c) \/ CallerStep(c)
  PROVE  [Contract!Next]_(Contract!vars)
<1> DEFINE joining == \E d \in Caller : pc[d] = "join"
           inside == {p \in Producer : at[p] # "idle"}
<1>1. CASE UNCHANGED <<handle, streaming, joining, at>>
  <2>1. inside' = inside
    BY <1>1
  <2> QED BY <1>1, <2>1 DEF Contract!vars
<1>2. CASE CallerCall(c)
  <2>1. UNCHANGED <<handle, streaming, at>>
    BY <1>2 DEF CallerCall, Start, Stop, RequestStop, SetImuCallback, ctlVars, sdkVars
  <2>2. UNCHANGED joining
    BY <1>2 DEF CallerCall, Start, Stop, RequestStop, SetImuCallback, ctlVars, Goto, TypeInv, TypeOK
  <2> QED BY <1>1, <2>1, <2>2
<1>3. CASE CallerStep(c)
  <2>0. PICK label \in CallerAt : pc' = [pc EXCEPT ![c] = label]
    BY <1>3 DEF CallerStep, StartStep, StopStep, CloseStep, ResetVotes, SetRunning, BackendStart,
           Exchange, BackendStop, Join, Drain, BackendClose, ClearDevice, AfterStop, Goto, Return,
           CallerAt
  <2>1. pc[c] # "idle"
    BY <1>3 DEF CallerStep, StartStep, StopStep, CloseStep, ResetVotes, SetRunning,
           BackendStart, Exchange, BackendStop, Join, Drain, BackendClose, ClearDevice
  <2>2. /\ pc'[c] = label
        /\ \A d \in Caller : d # c => pc[d] = "idle" /\ pc'[d] = "idle"
    BY <2>0, <2>1, Alone
  <2>3. joining = (pc[c] = "join") /\ joining' = (label = "join")
    BY <2>2
  <2>4. CASE ResetVotes(c) \/ SetRunning(c) \/ Exchange(c) \/ Drain(c) \/ ClearDevice(c)
    <3>1. UNCHANGED <<handle, streaming, at>> /\ pc[c] # "join"
      BY <2>4 DEF ResetVotes, SetRunning, Exchange, Drain, ClearDevice, sdkVars
    <3>2. label # "join"
      BY <2>2, <2>4 DEF ResetVotes, SetRunning, Exchange, Drain, ClearDevice, AfterStop, Goto,
             Return, TypeInv, TypeOK
    <3> QED BY <1>1, <2>3, <3>1, <3>2
  <2>5. CASE BackendStart(c)
    <3>1. handle = "open" /\ UNCHANGED <<handle, at>> /\ pc[c] = "backendStart"
      BY <2>5 DEF BackendStart, HandleInv, CallInv
    <3>2. ~joining /\ ~joining'
      BY <2>2, <2>3, <2>5 DEF BackendStart, Return, TypeInv, TypeOK
    <3>3. CASE streaming' = streaming
      BY <1>1, <3>1, <3>2, <3>3
    <3>4. CASE streaming' /\ ~streaming
      <4>1. Contract!Start("camera")
        BY <3>1, <3>2, <3>4 DEF Contract!Start
      <4> QED BY <4>1 DEF Contract!Next
    <3> QED BY <2>5, <3>1, <3>3, <3>4 DEF BackendStart, TypeInv, TypeOK
  <2>6. CASE BackendStop(c)
    <3>1. /\ device /\ handle = "open" /\ UNCHANGED <<handle, at>>
          /\ streaming /\ ~streaming' /\ ~joining
      BY <2>3, <2>6 DEF BackendStop, HandleInv, DeviceInv, CallInv
    <3>2. joining' = Joining
      BY <2>2, <2>3, <2>6, <3>1, StreamAssumption DEF BackendStop, Goto, TypeInv, TypeOK
    <3>3. CASE ~Joining
      <4>1. Contract!Stop("camera")
        BY <3>1, <3>2, <3>3 DEF Contract!Stop
      <4> QED BY <4>1 DEF Contract!Next
    <3>4. CASE Joining
      BY <3>1, <3>2, <3>4 DEF Contract!vars
    <3> QED BY <3>3, <3>4
  <2>7. CASE Join(c)
    <3>1. /\ UNCHANGED <<handle, streaming, at>> /\ ~streaming /\ joining /\ ~joining'
          /\ ProducersIdle
      BY <2>2, <2>3, <2>7 DEF Join, sdkVars, HandleInv, CallInv, Goto, TypeInv, TypeOK
    <3>2. inside = {}
      BY <3>1 DEF ProducersIdle
    <3>3. Contract!Stop("camera")
      BY <3>1, <3>2 DEF Contract!Stop
    <3> QED BY <3>3 DEF Contract!Next
  <2>8. CASE BackendClose(c)
    <3>1. ~streaming /\ ~joining /\ ~joining' /\ ~streaming' /\ at' = at
      BY <2>2, <2>3, <2>8 DEF BackendClose, sdkVars, HandleInv, CallInv, Goto, TypeInv, TypeOK
    <3>2. CASE handle' = handle
      <4>1. joining' = joining /\ streaming' = streaming
        BY <2>8, <3>1 DEF BackendClose, sdkVars, TypeInv, TypeOK
      <4> QED BY <1>1, <3>1, <3>2, <4>1
    <3>3. CASE handle' # handle
      <4>1. handle = "open" /\ handle' = "closed" /\ ProducersIdle
        BY <2>8, <3>3 DEF BackendClose, sdkVars, TypeInv, TypeOK
      <4>2. inside = {} /\ inside' = inside
        BY <3>1, <4>1 DEF ProducersIdle
      <4>3. Contract!Close("camera")
        BY <3>1, <4>1, <4>2 DEF Contract!Close
      <4> QED BY <4>3 DEF Contract!Next
    <3> QED BY <3>2, <3>3
  <2> QED BY <1>3, <2>4, <2>5, <2>6, <2>7, <2>8 DEF CallerStep, StartStep, StopStep, CloseStep
<1> QED BY <1>2, <1>3

(* A thread goes to onFrame only while the camera streams, and returns.    *)
LEMMA FrameKeepsContract ==
  ASSUME TypeInv, \E p \in Producer : ProducerDeliver(p) \/ ProducerStep(p)
  PROVE  [Contract!Next]_(Contract!vars)
<1> DEFINE inside == {p \in Producer : at[p] # "idle"}
           delivering == [c \in {"camera"} |-> inside]
<1>1. UNCHANGED <<handle, streaming, pc>>
  BY OthersKeepControl DEF ctlVars, sdkVars
<1>2. PICK p \in Producer : ProducerDeliver(p) \/ ProducerStep(p)
  OBVIOUS
<1>3. CASE ProducerDeliver(p)
  <2>1. streaming /\ at[p] = "idle" /\ at' = [at EXCEPT ![p] = "onFrame"]
    BY <1>3 DEF ProducerDeliver, Deliver
  <2>2. p \notin inside /\ inside' = inside \cup {p}
    BY <2>1 DEF TypeInv, TypeOK
  <2>3. UNION {delivering[d] : d \in {"camera"}} = inside
    OBVIOUS
  <2>4. delivering' = [delivering EXCEPT !["camera"] = @ \cup {p}]
    BY <2>2
  <2>5. Contract!Deliver("camera", p)
    BY <1>1, <2>1, <2>2, <2>3, <2>4 DEF Contract!Deliver
  <2> QED BY <2>5 DEF Contract!Next
<1>4. CASE ProducerStep(p)
  <2>1. PICK next \in ProducerAt : at' = [at EXCEPT ![p] = next]
    BY <1>4 DEF ProducerStep, OnFrameIgnored, OnFrameTaken, UnknownStream, RefuseFrame,
                AcceptFrame, EnqueueRaw, WrapFails, DecodeCompressed, ImuEnter, ImuLeave,
                ImuRelease, LeaveOnFrame, ProducerAt
  <2>2. at[p] # "idle"
    BY <1>4 DEF ProducerStep, OnFrameIgnored, OnFrameTaken, UnknownStream, RefuseFrame,
                AcceptFrame, EnqueueRaw, WrapFails, DecodeCompressed, ImuEnter, ImuLeave,
                ImuRelease
  <2>3. CASE next # "idle"
    <3>1. inside' = inside
      BY <2>1, <2>2, <2>3 DEF TypeInv, TypeOK
    <3> QED BY <1>1, <3>1 DEF Contract!vars
  <2>4. CASE next = "idle"
    <3>1. p \in inside /\ inside' = inside \ {p}
      BY <2>1, <2>2, <2>4 DEF TypeInv, TypeOK
    <3>2. delivering' = [delivering EXCEPT !["camera"] = @ \ {p}]
      BY <3>1
    <3>3. Contract!Return("camera", p)
      BY <1>1, <3>1, <3>2 DEF Contract!Return
    <3> QED BY <3>3 DEF Contract!Next
  <2> QED BY <2>3, <2>4
<1> QED BY <1>2, <1>3, <1>4

(* close() leaves the object "alive but inert": however the extractors     *)
(* that outlive it go on calling start(), stop() and requestStop(), one    *)
(* call at a time, the backend is never called on a handle it closed; and  *)
(* what the host does with the camera, and assumes of it, is what          *)
(* BackendContract says, which the backends are shown to implement.        *)
THEOREM ClosedIsInert ==
  Spec /\ []OneCallAtATime => []NoUseAfterClose /\ UsesTheContract
<1>1. HandleInv => NoUseAfterClose
  BY DEF HandleInv
<1>2. TypeInv /\ HandleInv /\ OneCallAtATime /\ OneCallAtATime' /\ [Next]_vars
        => [Contract!Next]_(Contract!vars)
  <2> SUFFICES ASSUME TypeInv, HandleInv, OneCallAtATime, OneCallAtATime', [Next]_vars
               PROVE  [Contract!Next]_(Contract!vars)
    OBVIOUS
  <2>1. CASE UNCHANGED vars
    BY <2>1 DEF vars, ctlVars, sdkVars, Contract!vars
  <2>2. CASE \E x \in Extractor : RendererStep(x)
    <3>1. at' = at
      BY <2>2 DEF RendererStep, RenderPass, ReleaseRenderer
    <3> QED BY <2>2, <3>1, OthersKeepControl DEF ctlVars, sdkVars, Contract!vars
  <2> QED BY <2>1, <2>2, CallKeepsContract, FrameKeepsContract DEF Next
<1> QED BY <1>1, <1>2, HandleInvariant, TypeInvariant, PTL DEF Spec, UsesTheContract

(* A step that keeps the producers where they are, the queues as they are  *)
(* and the camera in the same state keeps the stream quiet.                *)
LEMMA QuietCaller ==
  ASSUME Joining, TypeInv, HandleInv, QuietInv, OneCallAtATime, OneCallAtATime',
         NEW c \in Caller, CallerCall(c) \/ CallerStep(c)
  PROVE  QuietInv'
<1>1. CASE CallerCall(c)
  <2>1. UNCHANGED <<streaming, at, queue>>
    BY <1>1 DEF CallerCall, Start, Stop, RequestStop, SetImuCallback, ctlVars, sdkVars, frameVars
  <2>2. \A d \in Caller : pc[d] # "idle" => pc'[d] = pc[d]
    BY <1>1 DEF CallerCall, Start, Stop, RequestStop, SetImuCallback, ctlVars, Goto, TypeInv, TypeOK
  <2> QED BY <2>1, <2>2 DEF QuietInv, ProducersIdle
<1>2. CASE CallerStep(c)
  <2>0. PICK label \in CallerAt : pc' = [pc EXCEPT ![c] = label]
    BY <1>2 DEF CallerStep, StartStep, StopStep, CloseStep, ResetVotes, SetRunning, BackendStart,
           Exchange, BackendStop, Join, Drain, BackendClose, ClearDevice, AfterStop, Goto, Return,
           CallerAt
  <2>1. /\ pc[c] # "idle" /\ pc'[c] = label
        /\ \A d \in Caller : d # c => pc[d] = "idle" /\ pc'[d] = "idle"
    <3>1. pc[c] # "idle"
      BY <1>2 DEF CallerStep, StartStep, StopStep, CloseStep, ResetVotes, SetRunning,
             BackendStart, Exchange, BackendStop, Join, Drain, BackendClose, ClearDevice
    <3> QED BY <2>0, <3>1, Alone
  <2>2. CASE Drain(c)
    <3>1. ProducersIdle /\ at' = at
      BY <2>1, <2>2 DEF Drain, HandleInv, CallInv, QuietInv
    <3>2. \A o \in Output : queue'[o] = <<>>
      BY <2>2 DEF Drain
    <3> QED BY <3>1, <3>2 DEF QuietInv, ProducersIdle
  <2>3. CASE BackendStop(c)
    <3>1. device /\ pc'[c] = "join"
      BY <2>1, <2>3 DEF BackendStop, HandleInv, DeviceInv, CallInv, Goto, TypeInv, TypeOK
    <3> QED BY <2>3, <3>1 DEF BackendStop, QuietInv, ProducersIdle, frameVars
  <2>4. CASE Join(c)
    <3>1. ProducersIdle /\ UNCHANGED <<at, queue, streaming>> /\ pc'[c] = "drain"
      BY <2>1, <2>4 DEF Join, sdkVars, frameVars, Goto, TypeInv, TypeOK
    <3> QED BY <2>1, <3>1 DEF QuietInv, ProducersIdle
  <2>5. CASE BackendStart(c)
    <3>1. UNCHANGED <<at, queue>> /\ (streaming => streaming')
      BY <2>5 DEF BackendStart, HandleInv, CallInv, frameVars
    <3>2. pc[c] = "backendStart"
      BY <2>5 DEF BackendStart
    <3> QED BY <2>1, <3>1, <3>2 DEF QuietInv, ProducersIdle
  <2>6. CASE ResetVotes(c) \/ SetRunning(c) \/ Exchange(c) \/ BackendClose(c) \/ ClearDevice(c)
    <3>1. UNCHANGED <<at, queue>> /\ pc[c] \notin {"join", "drain"}
      BY <2>6 DEF ResetVotes, SetRunning, Exchange, BackendClose, ClearDevice, frameVars
    <3>2. streaming' = streaming
      <4>1. CASE BackendClose(c)
        BY <4>1 DEF BackendClose, sdkVars, HandleInv, CallInv, TypeInv, TypeOK
      <4>2. CASE ~BackendClose(c)
        BY <2>6, <4>2 DEF ResetVotes, SetRunning, Exchange, ClearDevice, sdkVars
      <4> QED BY <4>1, <4>2
    <3> QED BY <2>1, <3>1, <3>2 DEF QuietInv, ProducersIdle
  <2> QED BY <1>2, <2>2, <2>3, <2>4, <2>5, <2>6 DEF CallerStep, StartStep, StopStep, CloseStep
<1> QED BY <1>1, <1>2

(* A frame enters a queue only from a thread in onFrame, and such a thread *)
(* only starts while the camera streams.                                   *)
LEMMA QuietOthers ==
  ASSUME TypeInv, QuietInv,
         \/ \E p \in Producer : ProducerDeliver(p) \/ ProducerStep(p)
         \/ \E x \in Extractor : RendererStep(x)
  PROVE  QuietInv'
<1>1. UNCHANGED <<pc, streaming>>
  BY OthersKeepControl DEF ctlVars, sdkVars
<1>2. ASSUME NEW p \in Producer, ProducerDeliver(p) PROVE QuietInv'
  BY <1>1, <1>2 DEF ProducerDeliver, Deliver, QuietInv
<1>3. ASSUME NEW p \in Producer, ProducerStep(p) PROVE QuietInv'
  <2>1. at[p] # "idle"
    BY <1>3 DEF ProducerStep, OnFrameIgnored, OnFrameTaken, UnknownStream, RefuseFrame,
                AcceptFrame, EnqueueRaw, WrapFails, DecodeCompressed, ImuEnter, ImuLeave,
                ImuRelease
  <2> QED BY <1>1, <2>1 DEF QuietInv, ProducersIdle
<1>4. ASSUME NEW x \in Extractor, RendererStep(x) PROVE QuietInv'
  <2>1. at' = at /\ \A o \in Output : queue'[o] # <<>> => queue[o] # <<>>
    <3>1. CASE RenderPass(x)
      BY <3>1 DEF RenderPass, TypeInv, TypeOK
    <3>2. CASE ReleaseRenderer(x)
      BY <3>2 DEF ReleaseRenderer
    <3> QED BY <1>4, <3>1, <3>2 DEF RendererStep
  <2> QED BY <1>1, <2>1 DEF QuietInv, ProducersIdle
<1> QED BY <1>2, <1>3, <1>4

(* A stop that joins is complete: when every call has returned and the     *)
(* stream does not run, the camera delivers nothing, no frame is on its    *)
(* way into a queue and no stale frame waits in one; after close() the     *)
(* camera is handed back as well.                                          *)
THEOREM StopIsComplete ==
  ASSUME Joining
  PROVE  Spec /\ []OneCallAtATime => []StoppedIsQuiet
<1>1. Init => QuietInv
  BY DEF Init, QuietInv, ProducersIdle
<1>2. TypeInv /\ HandleInv /\ QuietInv /\ OneCallAtATime /\ OneCallAtATime' /\ [Next]_vars
        => QuietInv'
  <2> SUFFICES ASSUME TypeInv, HandleInv, QuietInv, OneCallAtATime, OneCallAtATime',
                      [Next]_vars
               PROVE  QuietInv'
    OBVIOUS
  <2>1. CASE UNCHANGED vars
    BY <2>1 DEF vars, ctlVars, sdkVars, frameVars, QuietInv, ProducersIdle
  <2> QED BY <2>1, QuietCaller, QuietOthers DEF Next
<1>3. HandleInv /\ QuietInv => StoppedIsQuiet
  BY DEF HandleInv, DeviceInv, QuietInv, StoppedIsQuiet
<1> QED BY <1>1, <1>2, <1>3, HandleInvariant, TypeInvariant, PTL DEF Spec

(* Calls from a single thread never overlap, so with one thread both hold  *)
(* of every behaviour.                                                     *)
COROLLARY OneThread ==
  ASSUME \A c, d \in Caller : c = d, Joining
  PROVE  Spec => UsesTheContract /\ []StoppedIsQuiet
<1>1. OneCallAtATime
  BY DEF OneCallAtATime
<1> QED BY <1>1, ClosedIsInert, StopIsComplete, PTL
=============================================================================
