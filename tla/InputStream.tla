----------------------------- MODULE InputStream -----------------------------
(***************************************************************************)
(* One open camera, as the host sees it: Gfx::DepthCamera::InputStream and *)
(* its extractors (src/DepthCamera/DepthCameraStream.cpp and .hpp).        *)
(*                                                                         *)
(* Three kinds of thread meet here.                                        *)
(*   - A Caller runs start(), stop(), requestStop(), setImuCallback() and  *)
(*     close(): the GUI thread for the transport and the device, and the   *)
(*     thread that creates and destroys the renderers of a camera node.    *)
(*   - A Producer is a thread of the backend: it calls onFrame() once per  *)
(*     frame and lends the buffer that carries it.                         *)
(*   - A renderer dequeues from its extractor's queue, holds the frame     *)
(*     while it draws, and returns it to the queue's pool.                 *)
(*                                                                         *)
(* A frame is abstracted to its buffer, the stream it is tagged with, and  *)
(* the kind of treatment its contents get.  What matters of a buffer is    *)
(* who may still read it and how often it was handed back.                 *)
(***************************************************************************)
EXTENDS Integers, Sequences, FiniteSets

CONSTANTS
  Caller,      \* host threads that start, stop and close the stream
  Producer,    \* backend threads that deliver frames
  Buffer,      \* buffers of the backend's pool
  Output,      \* the StreamOutputs of the settings: rgb, ir, depth, cloud
  Cloud,       \* the outputs filled by handlePointCloud, not handleImage
  Serves,      \* the streams a producer delivers for
  Capacity,    \* max_queued_frames, or max_queued_pointclouds for a cloud
  Extractor,   \* one per output with a node in the device tree
  Reads,       \* the output an extractor dequeues from
  Voter,       \* extractors a CameraNode starts and stops
  Joining,     \* TRUE if backend->stop waits for callbacks in flight
  Decoded,     \* a frame that owns its pixels: no backend buffer behind it
  None

ASSUME CapacityAssumption == Capacity \in [Output -> Nat \ {0}]

ASSUME StreamAssumption ==
  /\ Cloud \subseteq Output
  /\ Serves \in [Producer -> SUBSET (Output \cup {"imu", "unknown"})]
  /\ {"imu", "unknown"} \cap Output = {}
  /\ Reads \in [Extractor -> Output]
  /\ Voter \subseteq Extractor
  /\ Joining \in BOOLEAN

(* Every SDK delivers one stream from one thread. *)
ASSUME OneProducerPerOutput ==
  \A p, q \in Producer : p # q => Serves[p] \cap Serves[q] \cap Output = {}

ASSUME ItemAssumption == None \notin Buffer /\ Decoded \notin Buffer \cup {None}

VARIABLES
  running,     \* m_running
  votes,       \* m_stopVotes
  device,      \* m_device # nullptr
  pc, op,      \* where each caller is, and in which call
  handle,      \* the backend's side of the device: "open" or "closed"
  streaming,   \* the backend is delivering frames
  misused,     \* the backend was called on a handle it had closed
  at, frame,   \* where each producer is in onFrame, and with which frame
  imuCb,       \* m_imu_cb is set
  lent,        \* times a buffer was lent, less the times it was handed back
  queue, pool, \* FrameQueue: frames available, frames released for reuse
  held,        \* the frame the renderer of an extractor is drawing from
  rendering    \* the voters between start() and stop()

ctlVars   == <<running, votes, device, pc, op, rendering>>
sdkVars   == <<handle, streaming, misused>>
frameVars == <<lent, queue, pool>>
vars == <<ctlVars, sdkVars, frameVars, at, frame, imuCb, held>>

Stream == Output \cup {"imu", "unknown"}

(* raw: a pixel format or points the host wraps; compressed: decoded, so   *)
(* copied; rejected: unknown format, no points or a malformed sample;      *)
(* failed: wrapping or initFrameFromRawData fails; empty: no data at all.  *)
Kind == {"raw", "compressed", "rejected", "failed", "empty"}

Frame == [buf : Buffer \cup {None}, stream : Stream, kind : Kind]

NoFrame == [buf |-> None, stream |-> "unknown", kind |-> "empty"]

Item == Buffer \cup {Decoded}

CallerAt == {"idle", "resetVotes", "setRunning", "backendStart",
             "exchange", "backendStop", "join", "drain",
             "backendClose", "clearDevice"}

ProducerAt == {"idle", "onFrame", "handle", "fill", "callback", "release"}

TypeOK ==
  /\ running \in BOOLEAN
  /\ votes \in Nat
  /\ device \in BOOLEAN
  /\ pc \in [Caller -> CallerAt]
  /\ op \in [Caller -> {"none", "start", "stop", "close"}]
  /\ handle \in {"open", "closed"}
  /\ streaming \in BOOLEAN
  /\ misused \in BOOLEAN
  /\ at \in [Producer -> ProducerAt]
  /\ frame \in [Producer -> Frame]
  /\ imuCb \in BOOLEAN
  /\ lent \in [Buffer -> Int]
  /\ queue \in [Output -> Seq(Item)]
  /\ pool \in [Output -> SUBSET Buffer]
  /\ held \in [Extractor -> Item \cup {None}]
  /\ rendering \subseteq Voter

Init ==
  /\ running = FALSE
  /\ votes = 0
  /\ device = TRUE
  /\ pc = [c \in Caller |-> "idle"]
  /\ op = [c \in Caller |-> "none"]
  /\ handle = "open"
  /\ streaming = FALSE
  /\ misused = FALSE
  /\ at = [p \in Producer |-> "idle"]
  /\ frame = [p \in Producer |-> NoFrame]
  /\ imuCb = FALSE
  /\ lent = [b \in Buffer |-> 0]
  /\ queue = [o \in Output |-> <<>>]
  /\ pool = [o \in Output |-> {}]
  /\ held = [x \in Extractor |-> None]
  /\ rendering = {}

(***************************************************************************)
(* The callers.                                                            *)
(***************************************************************************)

(* The release hooks of the buffers in S run. *)
HandBack(S) == lent' = [b \in Buffer |-> IF b \in S THEN lent[b] - 1 ELSE lent[b]]

Goto(c, label) == pc' = [pc EXCEPT ![c] = label]

Return(c) ==
  /\ pc' = [pc EXCEPT ![c] = "idle"]
  /\ op' = [op EXCEPT ![c] = "none"]

(* start() up to its second early return.  ext is the extractor it is      *)
(* called through, or None for depthcam_protocol::start_execution.         *)
Start(c, ext) ==
  /\ pc[c] = "idle"
  /\ ext \notin rendering
  /\ rendering' = IF ext = None THEN rendering ELSE rendering \cup {ext}
  /\ IF device /\ ~running
       THEN Goto(c, "resetVotes") /\ op' = [op EXCEPT ![c] = "start"]
       ELSE UNCHANGED <<pc, op>>
  /\ UNCHANGED <<running, votes, device, sdkVars, frameVars, at, frame, imuCb, held>>

ResetVotes(c) ==
  /\ pc[c] = "resetVotes"
  /\ votes' = 0
  /\ Goto(c, "setRunning")
  /\ UNCHANGED <<running, device, op, rendering, sdkVars, frameVars, at, frame, imuCb, held>>

SetRunning(c) ==
  /\ pc[c] = "setRunning"
  /\ running' = TRUE
  /\ Goto(c, "backendStart")
  /\ UNCHANGED <<votes, device, op, rendering, sdkVars, frameVars, at, frame, imuCb, held>>

(* backend->start: either it streams from here on, or it fails and start() *)
(* takes the flag back.  A second start of a streaming device succeeds.    *)
BackendStart(c) ==
  /\ pc[c] = "backendStart"
  /\ misused' = (misused \/ handle = "closed")
  /\ \/ streaming' = (handle = "open") /\ UNCHANGED running
     \/ ~streaming /\ running' = FALSE /\ UNCHANGED streaming
  /\ Return(c)
  /\ UNCHANGED <<votes, device, rendering, handle, frameVars, at, frame, imuCb, held>>

(* stop_execution(), and the stop() inside close(). *)
Stop(c, what) ==
  /\ pc[c] = "idle"
  /\ what \in {"stop", "close"}
  /\ Goto(c, "exchange")
  /\ op' = [op EXCEPT ![c] = what]
  /\ UNCHANGED <<running, votes, device, rendering, sdkVars, frameVars, at, frame, imuCb, held>>

(* m_extractors: registration is never undone. *)
Registered == Cardinality(Extractor)

(* requestStop(): counts votes against every registered extractor.  Votes  *)
(* beyond that number are not told apart, so the counter saturates there.  *)
RequestStop(c, ext) ==
  /\ pc[c] = "idle"
  /\ ext \in rendering
  /\ rendering' = rendering \ {ext}
  /\ votes' = IF votes < Registered THEN votes + 1 ELSE votes
  /\ IF votes + 1 >= Registered
       THEN Goto(c, "exchange") /\ op' = [op EXCEPT ![c] = "stop"]
       ELSE UNCHANGED <<pc, op>>
  /\ UNCHANGED <<running, device, sdkVars, frameVars, at, frame, imuCb, held>>

(* Where stop() returns to: its caller, or the rest of close(). *)
AfterStop(c) ==
  IF op[c] = "close" THEN Goto(c, "backendClose") /\ UNCHANGED op ELSE Return(c)

Exchange(c) ==
  /\ pc[c] = "exchange"
  /\ running' = FALSE
  /\ IF running THEN Goto(c, "backendStop") /\ UNCHANGED op ELSE AfterStop(c)
  /\ UNCHANGED <<votes, device, rendering, sdkVars, frameVars, at, frame, imuCb, held>>

(* Slip: the queues are drained while callbacks are still in flight. *)
BackendStop_NoJoin(c) ==
  /\ pc[c] = "backendStop"
  /\ streaming' = (streaming /\ ~device)
  /\ Goto(c, "drain")
  /\ UNCHANGED <<running, votes, device, op, rendering, handle, misused, frameVars, at, frame,
                 imuCb, held>>

BackendStop(c) ==
  /\ pc[c] = "backendStop"
  /\ misused' = (misused \/ (device /\ handle = "closed"))
  /\ streaming' = (streaming /\ ~device)
  /\ Goto(c, IF device /\ Joining THEN "join" ELSE "drain")
  /\ UNCHANGED <<running, votes, device, op, rendering, handle, frameVars, at, frame, imuCb, held>>

ProducersIdle == \A p \in Producer : at[p] = "idle"

(* Slip: stop() waits until no renderer is holding a frame. *)
Join_WaitsForRenderers(c) ==
  /\ pc[c] = "join"
  /\ ProducersIdle /\ \A x \in Extractor : held[x] = None
  /\ Goto(c, "drain")
  /\ UNCHANGED <<running, votes, device, op, rendering, sdkVars, frameVars, at, frame, imuCb, held>>

Join(c) ==
  /\ pc[c] = "join"
  /\ ProducersIdle
  /\ Goto(c, "drain")
  /\ UNCHANGED <<running, votes, device, op, rendering, sdkVars, frameVars, at, frame, imuCb, held>>

Queued(o) == {b \in Buffer : \E i \in DOMAIN queue[o] : queue[o][i] = b}

(* The four drain() calls: every frame in a queue or its pool is freed. *)
Drain(c) ==
  /\ pc[c] = "drain"
  /\ queue' = [o \in Output |-> <<>>]
  /\ pool' = [o \in Output |-> {}]
  /\ HandBack(UNION {Queued(o) \cup pool[o] : o \in Output})
  /\ AfterStop(c)
  /\ UNCHANGED <<running, votes, device, rendering, sdkVars, at, frame, imuCb, held>>

(* close() after its stop(): backend->close joins the SDK's threads. *)
BackendClose(c) ==
  /\ pc[c] = "backendClose"
  /\ IF device
       THEN /\ ProducersIdle
            /\ misused' = (misused \/ handle = "closed")
            /\ handle' = "closed"
            /\ streaming' = FALSE
       ELSE UNCHANGED sdkVars
  /\ Goto(c, "clearDevice")
  /\ UNCHANGED <<running, votes, device, op, rendering, frameVars, at, frame, imuCb, held>>

(* Slip: close() leaves m_device set. *)
ClearDevice_KeepsPointer(c) ==
  /\ pc[c] = "clearDevice"
  /\ Return(c)
  /\ UNCHANGED <<running, votes, device, rendering, sdkVars, frameVars, at, frame, imuCb, held>>

ClearDevice(c) ==
  /\ pc[c] = "clearDevice"
  /\ device' = FALSE
  /\ Return(c)
  /\ UNCHANGED <<running, votes, rendering, sdkVars, frameVars, at, frame, imuCb, held>>

(* m_imu_mutex is held for the whole of a callback, so this waits for it. *)
ImuMutexFree == \A p \in Producer : at[p] # "callback"

(* Slip: the callback is replaced without m_imu_mutex. *)
SetImuCallback_Unlocked(c, cb) ==
  /\ pc[c] = "idle"
  /\ imuCb' = cb
  /\ UNCHANGED <<ctlVars, sdkVars, frameVars, at, frame, held>>

SetImuCallback(c, cb) ==
  /\ pc[c] = "idle"
  /\ ImuMutexFree
  /\ imuCb' = cb
  /\ UNCHANGED <<ctlVars, sdkVars, frameVars, at, frame, held>>

(***************************************************************************)
(* The producers: onFrame and its handlers.                                *)
(***************************************************************************)


(* The producer returns from onFrame into the SDK. *)
LeaveOnFrame(p) ==
  /\ at' = [at EXCEPT ![p] = "idle"]
  /\ frame' = [frame EXCEPT ![p] = NoFrame]

Deliver(p, b, s, k) ==
  /\ streaming
  /\ at[p] = "idle"
  /\ lent[b] = 0
  /\ lent' = [lent EXCEPT ![b] = 1]
  /\ at' = [at EXCEPT ![p] = "onFrame"]
  /\ frame' = [frame EXCEPT ![p] = [buf |-> b, stream |-> s, kind |-> k]]
  /\ UNCHANGED <<ctlVars, sdkVars, queue, pool, imuCb, held>>

(* The two early returns of onFrame keep the buffer. *)
OnFrameIgnored(p) ==
  /\ at[p] = "onFrame"
  /\ ~running \/ frame[p].kind = "empty"
  /\ LeaveOnFrame(p)
  /\ UNCHANGED <<ctlVars, sdkVars, frameVars, imuCb, held>>

OnFrameTaken(p) ==
  /\ at[p] = "onFrame"
  /\ running /\ frame[p].kind # "empty"
  /\ at' = [at EXCEPT ![p] = "handle"]
  /\ UNCHANGED <<ctlVars, sdkVars, frameVars, frame, imuCb, held>>

UnknownStream(p) ==
  /\ at[p] = "handle"
  /\ frame[p].stream = "unknown"
  /\ HandBack({frame[p].buf})
  /\ LeaveOnFrame(p)
  /\ UNCHANGED <<ctlVars, sdkVars, queue, pool, imuCb, held>>

(* Slip: one too many. *)
QueueFull_OffByOne(o) == Len(queue[o]) > Capacity[o]

QueueFull(o) == Len(queue[o]) >= Capacity[o]

(* Slip: a frame that does not fit is dropped without its release hook. *)
RefuseFrame_Drops(p) ==
  /\ at[p] = "handle"
  /\ frame[p].stream \in Output
  /\ QueueFull(frame[p].stream) \/ frame[p].kind = "rejected"
  /\ LeaveOnFrame(p)
  /\ UNCHANGED <<ctlVars, sdkVars, frameVars, imuCb, held>>

(* handleImage and handlePointCloud: a full queue, a format that is not a  *)
(* picture or a cloud without points gives the buffer straight back.       *)
RefuseFrame(p) ==
  /\ at[p] = "handle"
  /\ frame[p].stream \in Output
  /\ QueueFull(frame[p].stream) \/ frame[p].kind = "rejected"
  /\ HandBack({frame[p].buf})
  /\ LeaveOnFrame(p)
  /\ UNCHANGED <<ctlVars, sdkVars, queue, pool, imuCb, held>>

AcceptFrame(p) ==
  /\ at[p] = "handle"
  /\ frame[p].stream \in Output
  /\ ~QueueFull(frame[p].stream)
  /\ frame[p].kind # "rejected"
  /\ at' = [at EXCEPT ![p] = "fill"]
  /\ UNCHANGED <<ctlVars, sdkVars, frameVars, frame, imuCb, held>>

(* newFrame(): reuses a frame of the pool, if there is one, which frees    *)
(* what it still refers to; freed is the set of buffers that go back.      *)
NewFrame(o, freed) ==
  /\ IF pool[o] = {} THEN freed = {} ELSE \E b \in pool[o] : freed = {b}
  /\ pool' = [pool EXCEPT ![o] = @ \ freed]

EnqueueRaw(p, freed) ==
  LET o == frame[p].stream IN
  /\ at[p] = "fill"
  /\ frame[p].kind = "raw"
  /\ NewFrame(o, freed)
  /\ HandBack(freed)
  /\ queue' = [queue EXCEPT ![o] = Append(@, frame[p].buf)]
  /\ LeaveOnFrame(p)
  /\ UNCHANGED <<ctlVars, sdkVars, imuCb, held>>

(* Slip: the buffer is released by hand and again by the frame that wraps  *)
(* it.                                                                     *)
WrapFails_Twice(p, freed) ==
  /\ at[p] = "fill"
  /\ frame[p].kind = "failed"
  /\ NewFrame(frame[p].stream, freed)
  /\ lent' = [b \in Buffer |->
       IF b = frame[p].buf THEN lent[b] - 2 ELSE IF b \in freed THEN lent[b] - 1 ELSE lent[b]]
  /\ LeaveOnFrame(p)
  /\ UNCHANGED <<ctlVars, sdkVars, queue, imuCb, held>>

(* Wrapping fails and the buffer is released, or the frame that already    *)
(* wraps it is freed on the way out: handed back once in both cases.       *)
WrapFails(p, freed) ==
  /\ at[p] = "fill"
  /\ frame[p].kind = "failed"
  /\ NewFrame(frame[p].stream, freed)
  /\ HandBack(freed \cup {frame[p].buf})
  /\ LeaveOnFrame(p)
  /\ UNCHANGED <<ctlVars, sdkVars, queue, imuCb, held>>

(* The decoder copies, so the buffer goes back before the decoded frame,   *)
(* if libav produced one, is queued.                                       *)
DecodeCompressed(p, produced) ==
  LET o == frame[p].stream IN
  /\ at[p] = "fill"
  /\ frame[p].kind = "compressed"
  /\ HandBack({frame[p].buf})
  /\ queue' = IF produced THEN [queue EXCEPT ![o] = Append(@, Decoded)] ELSE queue
  /\ LeaveOnFrame(p)
  /\ UNCHANGED <<ctlVars, sdkVars, pool, imuCb, held>>

(* handleImu: a well-formed sample is delivered under m_imu_mutex. *)
ImuEnter(p) ==
  /\ at[p] = "handle"
  /\ frame[p].stream = "imu"
  /\ \/ frame[p].kind # "raw" /\ at' = [at EXCEPT ![p] = "release"]
     \/ /\ frame[p].kind = "raw"
        /\ ImuMutexFree
        /\ at' = [at EXCEPT ![p] = IF imuCb THEN "callback" ELSE "release"]
  /\ UNCHANGED <<ctlVars, sdkVars, frameVars, frame, imuCb, held>>

ImuLeave(p) ==
  /\ at[p] = "callback"
  /\ at' = [at EXCEPT ![p] = "release"]
  /\ UNCHANGED <<ctlVars, sdkVars, frameVars, frame, imuCb, held>>

ImuRelease(p) ==
  /\ at[p] = "release"
  /\ HandBack({frame[p].buf})
  /\ LeaveOnFrame(p)
  /\ UNCHANGED <<ctlVars, sdkVars, queue, pool, imuCb, held>>

(***************************************************************************)
(* The renderers: DeviceRenderer (Protocol.cpp) for the cloud; a           *)
(* score::gfx::CameraNode pulls a texture the same way.                    *)
(***************************************************************************)

(* Slip: released without looking whether there is a frame. *)
ReleaseTo_Unchecked(o, item) == pool' = [pool EXCEPT ![o] = @ \cup {item}]

(* release_frame(): the frame goes to the pool with whatever it wraps. *)
ReleaseTo(o, item) ==
  pool' = [pool EXCEPT ![o] = IF item \in Buffer THEN @ \cup {item} ELSE @]

(* A render pass: the next frame is taken before the previous one goes. *)
RenderPass(x) ==
  LET o == Reads[x] IN
  /\ queue[o] # <<>>
  /\ held' = [held EXCEPT ![x] = Head(queue[o])]
  /\ queue' = [queue EXCEPT ![o] = Tail(@)]
  /\ ReleaseTo(o, held[x])
  /\ UNCHANGED <<ctlVars, sdkVars, lent, at, frame, imuCb>>

(* DeviceRenderer::release and its destructor. *)
ReleaseRenderer(x) ==
  /\ held[x] # None
  /\ held' = [held EXCEPT ![x] = None]
  /\ ReleaseTo(Reads[x], held[x])
  /\ UNCHANGED <<ctlVars, sdkVars, lent, queue, at, frame, imuCb>>

(***************************************************************************)
(* The specification.                                                      *)
(***************************************************************************)

StartStep(c) == ResetVotes(c) \/ SetRunning(c) \/ BackendStart(c)

StopStep(c) == Exchange(c) \/ BackendStop(c) \/ Join(c) \/ Drain(c)

CloseStep(c) == BackendClose(c) \/ ClearDevice(c)

CallerCall(c) ==
  \/ \E ext \in Voter \cup {None} : Start(c, ext)
  \/ \E what \in {"stop", "close"} : Stop(c, what)
  \/ \E ext \in Voter : RequestStop(c, ext)
  \/ \E cb \in BOOLEAN : SetImuCallback(c, cb)

CallerStep(c) == StartStep(c) \/ StopStep(c) \/ CloseStep(c)

ProducerStep(p) ==
  \/ OnFrameIgnored(p) \/ OnFrameTaken(p)
  \/ UnknownStream(p) \/ RefuseFrame(p) \/ AcceptFrame(p)
  \/ \E freed \in SUBSET Buffer : EnqueueRaw(p, freed) \/ WrapFails(p, freed)
  \/ \E produced \in BOOLEAN : DecodeCompressed(p, produced)
  \/ ImuEnter(p) \/ ImuLeave(p) \/ ImuRelease(p)

(* Only an image stream can be compressed. *)
Deliverable(s, k) == k = "compressed" => s \in Output \ Cloud

ProducerDeliver(p) ==
  \E b \in Buffer, s \in Serves[p], k \in Kind :
    Deliverable(s, k) /\ Deliver(p, b, s, k)

RendererStep(x) == RenderPass(x) \/ ReleaseRenderer(x)

Next ==
  \/ \E c \in Caller : CallerCall(c) \/ CallerStep(c)
  \/ \E p \in Producer : ProducerDeliver(p) \/ ProducerStep(p)
  \/ \E x \in Extractor : RendererStep(x)

Spec == Init /\ [][Next]_vars

(* A thread inside a call keeps executing it.  Nothing obliges a host to   *)
(* call, a camera to deliver, or a renderer to draw.                       *)
Fairness ==
  /\ \A c \in Caller : WF_vars(CallerStep(c))
  /\ \A p \in Producer : WF_vars(ProducerStep(p))

FairSpec == Spec /\ Fairness

(***************************************************************************)
(* Properties.                                                             *)
(***************************************************************************)

(* Everything through which the host can still reach buffer b. *)
References(b) ==
  {<<"producer", p>> : p \in {q \in Producer : frame[q].buf = b}}
    \cup {<<"pool", o>> : o \in {u \in Output : b \in pool[u]}}
    \cup {<<"renderer", x>> : x \in {y \in Extractor : held[y] = b}}
    \cup UNION {{<<"queue", o, i>> : i \in {j \in DOMAIN queue[o] : queue[o][j] = b}}
                : o \in Output}

(* The rule of handleImage, "take ownership of the buffer or release it,   *)
(* exactly once", for every path through the host: no buffer is handed     *)
(* back twice, none is reachable in two ways, and none is reachable after  *)
(* it went back, whether it left by a queue, a pool, a renderer or drain.  *)
OwnedOnce ==
  \A b \in Buffer :
    /\ lent[b] \in {0, 1}
    /\ References(b) # {} => lent[b] = 1
    /\ Cardinality(References(b)) <= 1

(* The size test of handleImage and handlePointCloud is separate from the  *)
(* enqueue that relies on it, yet no queue outgrows its maximum.           *)
QueueBounded == \A o \in Output : Len(queue[o]) <= Capacity[o]

(* setImuCallback({}) returns only once no call is in flight, so the tree  *)
(* the callback writes into can be freed when it has returned.             *)
ImuClearedIsQuiet ==
  ~imuCb => \A p \in Producer : at[p] # "callback"

(* When every call has returned and the stream does not run, the camera    *)
(* delivers nothing, no frame is on its way into a queue and no stale      *)
(* frame waits in one; after close() the camera is handed back as well.    *)
StoppedIsQuiet ==
  (~running /\ \A c \in Caller : pc[c] = "idle") =>
    /\ ~streaming
    /\ ProducersIdle
    /\ \A o \in Output : queue[o] = <<>>
    /\ ~device => handle = "closed"

NoUseAfterClose == ~misused

(* The camera, as BackendContract has it: a stop that joins ends when the  *)
(* threads are joined.                                                     *)
Contract == INSTANCE BackendContract WITH
  Camera <- {"camera"},
  Thread <- Producer,
  open <- IF handle = "open" THEN {"camera"} ELSE {},
  streaming <- IF streaming \/ \E c \in Caller : pc[c] = "join" THEN {"camera"} ELSE {},
  delivering <- [c \in {"camera"} |-> {p \in Producer : at[p] # "idle"}]

(* close() leaves the object "alive but inert": extractors outlive it and  *)
(* still call start() and requestStop(), but the camera is never called    *)
(* once it was closed.  While it is open the host calls it in the order    *)
(* that the backends are shown to serve, and assumes nothing else of it:   *)
(* it is closed when it was stopped, and no thread is in onFrame then.     *)
UsesTheContract == [][NoUseAfterClose' /\ [Contract!Next]_(Contract!vars)]_vars

Lost(b) == lent[b] = 1 /\ References(b) = {}

(* While the stream runs, a frame with data never costs the backend its    *)
(* buffer: whatever is dropped, refused or decoded, goes back.             *)
LostOnlyOutsideRunning ==
  [][\A b \in Buffer : Lost(b)' /\ ~Lost(b) =>
       \/ ~running
       \/ \E p \in Producer : frame[p].buf = b /\ frame[p].kind = "empty"]_vars

(* depthcam_abi.h: frame buffers are "handed back through the frame's own *)
(* release hook".  Whatever arrives with data in it, whenever it arrives,  *)
(* does not cost the backend its buffer.                                   *)
FilledBufferReturns ==
  [][\A b \in Buffer : Lost(b)' /\ ~Lost(b) =>
       \E p \in Producer : frame[p].buf = b /\ frame[p].kind = "empty"]_vars

(* "the first to go idle must not stop it": requestStop() stops the camera *)
(* only when no extractor that was started is still rendering.             *)
VotesStopIdleOnly ==
  [][\A c \in Caller, ext \in Voter :
       RequestStop(c, ext) /\ pc'[c] = "exchange" => rendering' = {}]_vars

(* start(), stop() and close() return: backend->stop does not wait for a   *)
(* producer that waits for the caller.                                     *)
CallsReturn == \A c \in Caller : pc[c] # "idle" ~> pc[c] = "idle"
=============================================================================
