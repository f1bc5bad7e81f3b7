# Verification of the depth-camera add-on

This directory holds TLA+ specifications of the `score-addon-orbbec` depth-camera
device, the TLC configurations that check them on small instances, and TLAPS
proofs of what holds for every instance. File names are relative to
`DepthCamera/` or `Backends/` of the source tree.

## The system

The add-on publishes depth cameras (Orbbec, RealSense, Azure Kinect, Kinect v1
and v2, OAK, Oak3DVision) as devices of ossia score. The host part knows only a C interface,
`depthcam_abi.h`; each SDK sits behind it in a shared library of its own.

| Part | State it keeps | Operations | Talks to |
|---|---|---|---|
| **Stream** `DepthCameraStream` | `m_device`, `m_running`, `m_stopVotes`, `m_extractors`, four frame queues, the IMU callback | `start` `stop` `requestStop` `close` `setImuCallback`, `onFrame` from the SDK's threads, `dequeue_frame`/`release_frame` from renderers | the backend (calls down, frames up), renderers |
| **Controls** `DepthCameraControls` | `m_pending`, `m_polled`, per entry `observers` and `last`, a worker thread, closures posted to Qt | `write` `read` `refresh` `observe` `run` `publish`, the destructor | the backend (`get_control`, `set_control`), ossia parameters |
| **Protocol and device tree** `DepthCameraProtocol` | the stream, the extractors, `m_controls` | `push` `pull` `observe` `update` `start_execution` `stop_execution`, building and releasing the nodes | stream, controls, score's graphics |
| **Device** `DepthCameraDevice` | `m_dev`, the settings | `reconnect` `disconnect` `refresh`, enumeration for the dialog | registry, protocol |
| **Inertial nodes** `DepthCameraImu` | the parameters | `attach`, the callback | stream |
| **Discovery** `ApplicationPlugin`, `DepthCameraEnumerator` | known cameras, the names given to them | `rescan`, hot-plug notification, device added or removed | registry, the device dialog |
| **Registry** `BackendRegistry` | the loaded libraries and whether each is initialised | load, `find`, `enumerate`, shutdown | backends |
| **Backends**, seven | one open camera: SDK handle, threads, `running`, slots of pending settings; for the process: a context or system with its lock, the table of open cameras | the functions of `depthcam_backend_v1` | the SDK |

### What is hard about it

* **Threads.** The SDK's threads call `onFrame` while the GUI thread stops and
  closes the camera and the render thread dequeues; a worker thread per camera
  carries the settings; OSC and the execution engine write parameters from
  threads of their own.
* **Ownership.** Frames are not copied. Each one pins a buffer of the SDK's pool
  until its release hook is called, exactly once, on whichever of a dozen paths
  it takes: refused, decoded, queued, pooled, held by a renderer, drained.
* **Lifetimes.** Extractors outlive the device (nodes are destroyed on a 100 ms
  timer), so `close()` leaves a stream "alive but inert"; the tree of controls
  must be gone before the nodes and the camera it refers to.
* **Sleeping and waking.** The worker sleeps on a condition variable with or
  without a timeout depending on a counter that another thread changes.
* **Identity.** A camera is named by a serial, an id, an address of the network or a
  position; SDKs open by one of these, and positions move when a cable does.
* **Partial failure.** A start may fail half way, a read may fail after its
  write, a queue may be full, a decoder may produce nothing.

The hazards are listed one by one, at their lines, in `PROJECT.json`.

### What makes each part correct

* Stream: a buffer has one owner and comes home once; queues are bounded; after
  `stop()` nothing is delivered and nothing stale is queued; after `close()` the
  camera is not called; a cleared callback is not running; the calls return.
* Controls: the last value written wins and arrives; the tree shows what the
  camera has; the queue is bounded; an unobserved camera is left alone; nothing
  touches the tree or the camera after the destructor.
* Device: at most one handle per camera is open; nodes, callbacks and handles go
  in an order in which nobody uses what is gone; `reconnect` can be retried.
* Discovery and registry: what the dialog lists is what is plugged in, under
  distinct names; a library is not called before its `init` or after its
  `shutdown`.
* Backends: `start` and `stop` pair up whatever fails in between; a thread that
  ended can be started again; every frame handed up stays valid until released; an
  address leads to the camera it names or to none; a number means the same in the node
  and in the camera.

## Modules

| Module | Models |
|---|---|
| `InputStream` | one open camera and its extractors: `DepthCameraStream`, the renderer of `DepthCameraProtocol` |
| `ControlTree` | the settings: `DepthCameraControls`, `push` and `releaseControls` of `DepthCameraProtocol` |
| `CameraDevice` | connecting, disconnecting and destroying devices: `DepthCameraDevice`, the building and releasing in `DepthCameraProtocol`, the lives of `DepthCameraImu`'s tree and of the control tree |
| `Discovery` | `BackendRegistry`, `ApplicationPlugin`, `DepthCameraEnumerator`: which cameras there are, under which names |
| `BackendContract` | abstract: what the host relies on when it calls a backend |
| `LatestValue` | abstract: a value handed to another thread, of which only the latest matters |
| `K4ABackend` | one Azure Kinect: `Backends/K4A` |
| `FreenectBackend` | the Kinects v1 on libfreenect's one context: `Backends/Freenect` |
| `Freenect2Backend` | one Kinect v2: `Backends/Freenect2` |
| `DepthAIBackend` | one OAK camera: `Backends/DepthAI` |
| `OrbbecBackend` | one Orbbec camera: `Backends/Orbbec` |
| `RealSenseBackend` | one RealSense: `Backends/RealSense` |
| `OakBackend` | one Oak3DVision camera and the system it is opened from: `Backends/Oak` |
| `CameraAddresses` | listing cameras and finding them again: `backend_enumerate`, `parse_uri` and the first half of `backend_open` of all seven |
| `ControlValues` | one setting of one camera from the SDK's description to the node and back: the descriptors of all seven, the conversions of `DepthCameraControls.cpp`, `backend_set_control` and `backend_get_control` |
| `MCInputStream`, `MCControlTree`, `MCControls`, `MCCameraDevice`, `MCDiscovery`, `MCBackends` | instances for TLC |
| `InputStreamProofs`, `ControlTreeProofs`, `CameraDeviceProofs`, `DiscoveryProofs`, `K4ABackendProofs`, `FreenectBackendProofs`, `OakBackendProofs` | theorems, each about the module it is named for |
| `BackendsProofs` | theorems about the composition `MCBackends`: the seven backends, `CameraAddresses` and `ControlValues` |

They meet in what they assume of each other. What `InputStream` does with its camera, and what it assumes of it, is
`BackendContract` (`UsesTheContract`), with a `stop` that waits for the producers or not (`Joining`). It is what
`K4ABackend`, `Freenect2Backend`, `OrbbecBackend`, `RealSenseBackend`, `OakBackend` and, for one Kinect
at a time, `FreenectBackend` implement. `DepthAIBackend` implements it without `Joining`: its threads are gone when
`close` returns, not when `stop` does. The proofs about `InputStream` cover both.

A value on its way to a camera changes threads in the queue of `ControlTree`, and for the motor of a Kinect v1
once more in a slot of `FreenectBackend`. Both implement `LatestValue`, once for each control and once for each motor.

`CameraDevice` reduces the stream and the control tree to the calls it makes of
them: that the backend's `stop` waits for a sample in flight, that the control tree's
destructor joins its worker. `ControlTree` is about when a value travels and takes it as it is;
`ControlValues` is about what becomes of it on the way, one request at a time. `Discovery` gives a
camera a name and leaves its address to `CameraAddresses`.

A definition named `Action_Slip` is the action with a mistake somebody could make;
no specification uses it. It documents what the property it breaks is about.

### `InputStream`

Every shared variable of `InputStream` is a variable of the module, and every
access to one that another thread may interleave with is an action: `start()` is
`Start` (both early returns), `ResetVotes`, `SetRunning`, `BackendStart`;
`stop()` is `Exchange`, `BackendStop`, `Join`, `Drain`; `close()` is that
followed by `BackendClose` and `ClearDevice`. A producer goes through `onFrame`
in steps: the test of `m_running`, the dispatch, the test of the queue's size,
the wrapping, the enqueue; a sample of the IMU is delivered while `m_imu_mutex`
is held (`at = "callback"`).

A frame is its buffer, its stream and the *kind* of treatment its contents
cause (`raw`, `compressed`, `rejected`, `failed`, `empty`): the pixel formats
that lead to each are in `to_av_format` and `to_codec_id`. `lent[b]` counts how
often buffer `b` was lent less how often its release hook ran. A frame in the
queue's pool (`Video::FrameQueue` recycles frames) still refers to its buffer,
and gives it back when `newFrame()` reuses it or `drain()` frees it; the queue
and the renderer of the textures belong to score and are modelled from how this
code uses them. Each extractor stands for one renderer.

`backend->stop` is two steps, so that a producer can be inside `onFrame` when it
begins; with `Joining` it waits for the producers, as `backend_stop` of K4A and
most others do; without, as DepthAI's does, it does not. `votes` saturates at
the number of registered extractors, beyond which the code does not tell votes
apart.

### `ControlTree`

`post()` runs under `m_queue_lock` and is one step; everything around it is
separate: the store of the parameter, the test of `m_controls` in `push()`, the
post, the assignment of `e.last`; on the worker the test of `m_running`, the
locked test of the queue and start of the wait, the wake-up and swap, the second
test, each request, each control of the polling pass (`StartScan`, `PollEntry`), the post of
what was read (`Deliver`); on the Qt thread the running of a closure,
the comparison with `last`, the store. `observe()` counts the listener and then the polled
control, two atomics and two steps (`Observe` and `Count`, `Unobserve` and `Uncount`). The tree begins as
its constructor leaves it, with the worker started and nobody routing to it: `refresh()` comes
first, then `Route`, and a value pushed before that only reaches the parameter. A wait without timeout and one with are
different states (`wait`, `timedWait`), and both may end by notification only,
by timeout or, for the first, spuriously. A control settles on any value, since
cameras round and refuse; `get_control` of a `Faulty` control may fail.
`MaxEvents` bounds the closures the Qt thread is behind with.

### `CameraDevice`

All of `reconnect()`, `disconnect()` and the destructor runs on the GUI thread, so
`gui` is one program counter: `Call` begins one of the three, each of which
disconnects first. The steps of `disconnect()` are `Unroute` (the protocol's
pointer to the controls), `DropTree` (the worker is joined), `DropImu` (the
mutex of the callback), `ClearNodes`, and `~depthcam_protocol`, which closes the stream: `ResetStops` tests and clears
`m_running`, `ResetWaits` is the backend's `stop`, `Reset` hands the camera back; those of building are `Open`, `Publish`, `AddImu`, `AddTree`, `Route`,
`Assign`, with `GiveUp`, `OpenFails` and `Throw` for what returns early, fails or
throws, and the `Unwind` steps for the members' destructors, in their order.
Around it, at any moment: samples of the camera's thread, calls of the worker,
and the graphics nodes, which keep a stream (`viewed`) until `GfxContext`'s timer
comes round and may start or stop it meanwhile. Which thread they do that on the
code does not say; so `start()` and `stop()` are steps of their own (`StartCalled`, `SetRunning`, `StartCamera`;
`StopCalled`, `StopReturns`), which fall anywhere between those of a `close()`. A `start()` that a `close()` overtakes asks a camera that
is no longer there, which refuses; the stream may say for a moment that it runs. What a camera does (`streaming`) is
therefore apart from what its stream believes (`running`). A stream object is used again
when nobody refers to it. The worker's calls (`AskBegins`) end with the destructor's
clearing of `m_running`. That this destructor returns is taken from
`ControlTree`, where it holds except for the lost notification of
`controls_join`.

### `Discovery`

The GUI thread loads the libraries, sets the registry's callback, scans, shows the
browser, and quits by `aboutToQuit` and the destructor, or by the destructor alone.
A rescan asks one backend after the other (`EnumerateBackend`) and announces the
differences (`Announce`); cameras come and go in between. A watcher thread of an
SDK tests `m_changed` (`OnChanged`) and calls it (`Changed`) in two steps, which
posts a rescan. The browser's rows are a bag of names under the headers of the
backends, for a row is removed by its name alone. External, and modelled from how this
code uses them: an SDK notices each change some time after it, its `shutdown` joins
its watcher, the browser removes the row it is told. `touched` and `changes` are
there for a property and for the bound `MaxChanges`.

### `K4ABackend`

A `std::thread` is *none* (not joinable), somewhere in its loop, or *ended*
(returned, not joined yet): overwriting or destroying one that is not *none* ends
the process. `call` is where the host's call is: `start` is `Start` and
`StartImu`; `stop` is `Stop`, `StopImu`, `JoinImu`, `StopCapture`, `Join`, each
exchange of a flag and each join a step, and `close` the same followed by
`Delete`. Either thread may time out, fail and end by itself, or be inside the host.
`refs` counts an image as libk4a does: the capture's reference and the one
`handleCapture` obtains, and one for each holder lent to the host, which comes back
at any time. The host makes one such call at a time; `InputStream` and
`CameraDevice` are about who makes them.

### `FreenectBackend`

`Camera` is every Kinect v1 on `g_ctx`. The thread of a camera pumps the context
and dispatches the frames of *every* camera that streams (`Dispatch(t, c)`), then
takes the order out of its own motor's slot (`TakeOrder`), sends it (`SendOrder`) and
now and then reads the board (`ReadState`). One slot stands for `want_tilt` and
`want_led`. `start` may be refused half way and leaves what it had started
(`Refused`), which the destructor of the device undoes (`Delete`).

### `Freenect2Backend`

libfreenect2 calls the listener from a thread for colour and one for depth. `thread` is where
each is in `onFrame`: past the test of `running` (`keep`), past the copy kept for the cloud (`give`),
in the host, past it (`returned`), and for depth in the registration (`apply`) or in the host with
a cloud (`cloud`); the last two hold `pair_mutex`. `start` is `Start`, `StartStreams`,
`ApplyExposure`, `Register`; `stop` is `Stop`, `StopStreams`, which waits for both threads, as
libfreenect2's own does. `set_control` sets the mirrors and sends them when `running`; `control_lock`
is held between `Set` and `SendExposure` (`applying`). `sent` is the last command that reached a
camera that streams: one issued before it streams times out, and stopping forgets it; a send that fails is swallowed
(`Lost`), and the exposure is then whatever the camera makes of the rest. The test of `running` is part of `Set`, as
`control_lock` is held around both.
Both kinds of cloud are there, plain and coloured; a camera that was not asked for one behaves as
if all its clouds were empty.

### `DepthAIBackend`

depthai runs a thread per output queue, which calls what was appended to the queue. `started` and
`callbacks` survive `stop`, which only clears `running`; `close` stops the pipeline and waits for the
threads. `left[q]` is what remains to be given of the message that thread `q` took while `running` was
set: several frames for a message of the IMU, one otherwise (`MaxItems` bounds them). The controls
are one `setting`, since every write sends all of them; the laser and the flood light, which go to
the device directly, are not told apart from them. A send that depthai refuses is swallowed too (`Lost`). Messages come
as soon as the callbacks are there, so also while `pipeline->start()` has not returned.

### `OrbbecBackend`, `RealSenseBackend`

An Orbbec camera has a pipeline for video and, perhaps, one for the IMU (`hasImu`); `start` is
`Start`, `StartVideo`, `StartImu`, each of which may fail: the first ends the call, the second gives up
the IMU's pipeline. A RealSense has one pipeline, `start` is `Start`, `StartAsked`, `StartFallback`,
`ReadUnit`. In both, `left[t]` is what remains to be delivered of what a thread has taken: a
frameset is up to four deliveries, colour, infrared, depth and the cloud, one after the other. Both
SDKs wait for their threads in `stop`. Settings are passed to the SDK as they come and keep no state here.

### `OakBackend`

The SDK has one `CameraSystem` and no lock, so `g_system_mutex` is a variable: `lock` says whether a
scan has it or a call. `open` is `Open`, which takes it, `Connect` and `Configure`; `start` is `Start`,
`Register`, `StartCamera`; `stop` is `Stop`, `StopCamera`, `ClearCallbacks`; the destructor of the device is
`Halt`, `Forget`, `Disconnect`, after `stop` in `close`, and inside `open`, under its lock, when a camera that is
connected turns out not to work; the mutex is recursive, and `Disconnect` may proceed when `call` has it.
A start that is refused unregisters its callbacks (`registered`), one that throws leaves them, and the SDK's
`stop` leaves them too. A callback delivers up to two images (`left`), depth and infrared or a cloud.
`Shutdown` asks nobody whether a camera is open; the calls that come after it find no system.

### `CameraAddresses`

`maker` is the backend, chosen at the start, and each of its four operators has seven forms:
`Parse`, `Announce`, `Choose`, and what the SDK does with the choice (`Opened`). A choice is a place in the list, a
camera that the SDK finds by its identity, or, of a RealSense without a serial, whichever there is. `Resolve` and
`Take` or `Fail` are two steps, because the bus may change in between (`Plug`, `Unplug`); what is chosen by place is
then perhaps another camera. `named` keeps the identity that a place was chosen for, and `moved` that the bus changed before it was
opened: the Azure Kinect and the Kinect v1 look for a serial and then open by its place without looking again
(`OpensTheNamedCamera`, which `cameras_fallback` refutes), the five others hand the identity to their SDK. The serials that `backend_open` of the Azure Kinect remembers are
`table`; `Fail` may leave one behind, and `Close` takes out the first entry with its position, whoever's it is. `drifted` says
that the table is not to be trusted: an open failed after it told the table (`K4ABackend.cpp:1112`), or a camera that is open has another
place now than it was opened at. The code repairs neither. The model follows the table all the same, but what is listed
is then not required to be true. `Relabel` is a later Kinect v1, which answers with the serial of its audio
device or with nothing. `label` is what a camera tells of itself.

### `ControlValues`

Numbers are in halves: an integer is even, so truncation and rounding differ from the identity and from
each other. `option` is what an SDK says of a setting, from the fixed tables of some backends
and the scans of others (`SettingsOf`); `descriptor` is what the backend makes of it (`Describe...`), which of
Oak3DVision has a second form where the parameter's types are not recognised (`ProbeOak`). `Shown` and
`Raw` are the host's conversions, `Send` the backend's. `told` is what `get_control` will answer, which is the camera's
value where the backend asks it, and otherwise what was written (DepthAI, Kinect v2) or what the motor's thread last
heard (Kinect v1). The camera may round, refuse, and move by itself what is left to it (`mode`, `Drift`).
How a menu is shown by ossia, and a clipping to the domain, are external.

### `MCBackends`

The backends share nothing, nor do `CameraAddresses` and `ControlValues` with them. So a behaviour is about one of these, chosen in the
initial state (`which`, of `Chosen`): the states are the sum of theirs instead of the
product, and a property is the conjunction of theirs.

## Runs

| Run | Shows |
|---|---|
| `stream` | everything listed for the stream above, on one caller, two producers (images and cloud on one thread, IMU on another, as libk4a delivers), two buffers, queues of two and one |
| `stream_leak` | **fails as the code does**: a frame delivered between `m_running = false` and the end of `backend->stop` keeps its buffer for ever |
| `stream_votes` | **fails**: one renderer restarted while another draws casts both votes |
| `controls` | from the end of the constructor to the end of the destructor, every call on the Qt thread: a control that is set and read, whose reading may fail, and a sensor with up to two listeners, one of them at a time. Writes reach the camera in their order, through a `LatestValue` each (`WritesArriveInOrder`), the tree comes to show what the camera has, an observed sensor is tracked, the worker sleeps when nobody listens, and nothing of the tree is left when it is gone (`NothingOutlivesTree`) |
| `controls_join` | **fails**: the destructor's notification can fall between the worker's test and its wait |
| `controls_stale` | **fails**: a write from another thread marks as published a value the tree does not show |
| `controls_dying` | **fails**: a thread other than Qt's that has read `m_controls` is still inside the tree when `releaseControls()` has destroyed it |
| `device` | two devices, one of which takes any camera, over two cameras and three streams, with every failure: no handle is left open, nothing points at nodes that are gone, a device that says it is connected is usable, the calls return, though graphics nodes start and stop the streams between any two steps of that |
| `discovery` | two cameras of one model with hot-plug and one camera without, three changes at any moment, from loading to quitting: the list converges to what is plugged in, the browser shows the list, nobody is called who is gone |
| `discovery_names` | **fails**: a camera gets the number its place in the present list gives it, which an earlier one may already have |
| `backends` | an Azure Kinect with two images, one Kinect v1 with two orders, one Kinect v2 with two exposure modes, an OAK with two queues, an Orbbec camera, a RealSense or an Oak3DVision camera: each implements `BackendContract` and no joinable thread is lost, images are counted and no frame is doubled by a start that is tried again (`FramesAreCounted`), what streams is what was started and no callback outlives its device (`StreamsMatchCalls`), the camera does what it was last told, `stop` and `close` return; or two cameras of any backend on a bus that changes: what is listed leads to the camera that was listed, and a camera asked for by identity is that one or none, unless its backend opens by position and the bus moved in between (`CamerasAreFound`); or one setting of any backend: the node shows what the camera answered, what is written arrives, and writing back what is shown asks for what was answered (`ValuesSurvive`) |
| `cameras_fallback` | **fails**: a document names an Azure Kinect; the bus changes between the probe that finds its index and the open by that index, and another camera is opened |

The failing runs are disagreements between the code and a comment in it, quoted
under "findings" in `PROJECT.json`. Each has its own configuration, so that the other
properties are checked on the same code without an exception for it. What the passing runs
leave out is a second thread that writes a control (`controls`) and a second Kinect v1 (`backends`); that `DestructorReturnsWhilePolling`
is about a destructor with something observed, `OpensWhatItFound` about a bus that did not move; and of `LostOnlyOutsideRunning`, a frame
that comes while the stream stops.

Bounds. Two buffers make a full queue (decoded frames own their pixels and fill a
queue without keeping a buffer), a frame in hand beside a queued one, and a
buffer in every place at once with one elsewhere; one and two are the least
capacities for which full and not full differ by more than empty. The
proofs cover the rest: they hold for any number of each. In `ControlTree` two
values make "the last one" and "an older one" differ, two posted closures let
one be stale (`controls` makes do with one beside the one that is running), and two listeners make the count of listeners differ from the
count of polled controls. In `CameraDevice` two devices compete for a camera, and
the third stream is one that lingers in a graphics node while both have theirs. In
`Discovery` a removal and two arrivals are what it takes to reorder a list and meet an
old name; names are per model and headers per backend, so one pair of equal cameras and one
other suffice. In `MCBackends` one camera of each kind is all that the host's calls
distinguish; two images put one with the host while the other is captured, and
two orders, and two values of an exposure parameter, make an older and a newer one; two packets in a
message of the IMU put `stop` between them. Two cameras on the bus, with or without a serial and in any order, make a
position stand for the other one and a lone camera be taken for another; one entry left behind (`MaxLeft`) puts two in the table for one camera,
so that the wrong one may be the first. One parameter of the Kinect v2, of the manual mode, is enough beside the automatic one to be the mode's own or not. Three values with names, the numbers from
-1 to 2 in halves, and steps of a half, one and none make a domain that begins below, at and above zero, a value outside it,
one between two steps and one without a name. With two Kinects v1 the contract itself
fails: they share a context, and a frame of one camera may be in the
host on the thread of the other when `stop` returns. The proofs say so (`OneStreams`); see also the differences below.

`MCControls` turns a behaviour to one of its two controls, so that the states of `controls` are the sum of those of two small
trees. Both are read when the tree is built; then calls are about the one in `focus`, and only its value moves. `refresh()` is called
again on a tree with nothing under way, where it does what it does elsewhere, with fewer interleavings.

`device`, `discovery` and `discovery_names` do not check for deadlock: the devices may
all be destroyed, and the process may end.

Fairness. A thread inside a call keeps executing (weak fairness of each
thread's steps); a timed wait ends; the Qt loop gets to each posted closure
(strong fairness, because calls on the Qt thread disable it again and again).
`~ImuTree` gets the mutex it shares with the samples, though
there may always be another sample (strong fairness of `DropImu` and `UnwindImu`). The event
loop is a queue, so a posted rescan has its turn between the user's actions (strong fairness
of `Rescan`). `freenect_process_events_timeout` returns after its 100 ms however
many frames there are (strong fairness of `PumpReturns`), and libk4a's waits after their
second. Scans of the Oak3DVision's system are far enough apart for a call to get its lock (strong fairness of
`CallStep`). `control_lock` and `pair_mutex` of the Kinect v2 get to those who wait for them (strong
fairness of `ApplyExposure` and `Keep`). Nothing obliges a host to call, a camera to deliver, a renderer to draw, or a
condition variable to wake up by itself.

## Proofs

`InputStreamProofs` proves, for any sets of callers, producers, buffers, outputs
and extractors, any capacities and any backend, joining or not:

* `TypeCorrect`. Strengthened by `FrameInHand`: a producer inside `onFrame` has a
  buffer of a stream it serves.
* `ImuTeardownSafe`: `ImuClearedIsQuiet` follows from the lock alone.
* `QueuesStayBounded`. The size test and the enqueue are separate steps, so the
  bound needs `RoomToFill`: a producer past the test still finds room, which
  holds since no other thread appends to the same output
  (`OneProducerPerOutput`).
* `BuffersOwnedOnce`. `OwnedOnce` is about the set of everything that refers to a
  buffer; it follows from `OwnInv`: counts are 0 or 1, whatever is reached is
  lent, and any two places, of the same or different kinds, hold different
  buffers. Every step either moves a buffer between two places, or removes it
  from the places it is in while its count goes back.
* `OnlyStoppedOrEmptyIsLost`, from the same invariant: no step loses a buffer but that of
  a producer that finds `m_running` cleared, or whose frame is empty.
* `ClosedIsInert` and `StopIsComplete`: nothing is called on a handle after `close()`, the calls come in the order of
  `BackendContract` (a start of an open camera, a close of a stopped one), and
  when `stop()` has returned no producer is in `onFrame` and the queues are empty. `HandleInv` (of `DeviceInv`
  and `CallInv`) says which point of a call needs the handle or finds it cleared;
  `QuietInv` where the producers can be from the join on. Both suppose that the host's calls on one stream do not overlap
  (`OneCallAtATime`): `start()` tests `m_running` and sets it later, so that a `stop()`
  between the two is undone. `OneThread` replaces the condition by there being one caller, as in
  the run `stream`. `StopIsComplete` also needs a backend whose `stop` joins
  (`Joining`), which DepthAI's does not.

`ControlTreeProofs` proves, for any controls, values and writers:

* `PollCounterExact`: `m_polled` is the number of observed controls without a
  set. Inductive with the argument of each observation in flight (`PhaseOK`).
* `QueueCollapsed`: at most one write and one read of a control wait. `PostCollapses`
  is the lemma: `post()` replaces what is there.
* `LastValueIsSent`: the newest value queued for a control is in the queue, in the
  worker's batch, or was the last the camera was given. The invariant is about that
  chain (`Newest`); its lemmas say what a post, a swap and a served request do to it. The theorem also says how the values
  get there: for each control, what waits (`WriteIn` of the queue), what the worker holds (`WriteIn` of its batch),
  what the camera was given and what was asked are a `LatestValue`, step by step. All controls share the queue with
  the reads, so each step of the tree is a step of one control and none of the others: `ChannelInv`, that a write is
  in the queue once, makes `WriteIn` the one there is; `PutOrKept`, `TakenOrGiven` and `LeftOrKept` are the three
  kinds of steps. A batch that is dropped at the end is `Drop`, which `LatestValue` allows only when the tree is going.
* `NothingIsLeft`: once the tree is gone its worker has ended, with nothing in its hands, the Qt thread publishes nothing, and no
  closure of it is posted. `LifeInv` says what the destructor has finished at each of its places. This holds for writers of any
  thread; that none of these is inside the tree by then does not hold (`controls_dying`).
* `SettledTreeShowsCamera`: a tree with nothing under way shows what the camera answered last.
  `FlowInv` and `FreshInv` follow a reading from the worker through the posted closure to the parameter, and say
  what is still under way for a control whose parameter is behind.

The last supposes that only the Qt thread writes (`QtWritesOnly`), as the run `controls`
does: the value that another writer stores may cross a reading, which is what `controls_stale` shows.

`CameraDeviceProofs` proves, for any devices, cameras and streams,
`DismantledInOrder`, `WorkerJoinedFirst` (no worker of a control tree outlives its camera), `NoHandleLeftBehind` and
`ConnectedMeansUsable`, with `start()` and `stop()` of the graphics nodes between any two steps.
None is inductive. `IInv` adds what each place in a call has already released or built
(`ReleasedOK`, `BuiltOK`), that a stream's layers sit on each other (`LayersOK`), and that a claim,
a stream's camera and a device's stream name each other (`HandlesOK`).

`DiscoveryProofs` proves, for any cameras, backends and number of changes:

* `NothingLeftBehind` and `TestedIsCalled`: after quitting no watcher runs and nothing is posted, and a watcher
  that tested the callback finds it still set when it calls, if the application quits through `aboutToQuit`. Both follow from `QuitInv`: `PlaceInv` says where
  `shutdown()` has got to, `WatcherInv` that a watcher in the middle of its test and call is one that is not joined yet.
* `OpensOnFreshList`: the browser opens on a list no older than the request, for backends without hot-plug.
  `AnsweredInv` says it of the list a rescan is collecting, for the backends it has asked already.
* `BrowserIsTrue`: an open browser has one row for each camera the plug-in knows, under the name it was announced by, and
  no other. `ShownInv` says so of the enumerator's names and rows together, with what `TypeOK` says of them;
  `DifferentInv` that no camera is in a list twice, which holds because no library is loaded twice and each is asked once in a
  rescan. The steps of an announcement are `RemovalFindsItsRow` (a row is taken away under the name it was added
  under, whatever number the camera would have now) and `AdditionAddsItsRow`; `TellShows` puts them together.
* `DiscoveryWellTyped`: with the same invariants and `CountsInv`.

An announcement folds `Told` over the cameras that were and are listed, so `TellShows` is an induction over how many of them
were told. The library states induction for an operator given as a parameter; here it is got from what is stated
of sets: of the numbers of cameras after which the browser would be wrong there is no least one, since the next
step keeps it right, so there is none (`NatSetInduction`, from `WFMin`). What a fold is after each step is shown in the
same way (`Stages`), once and for any list.

`K4ABackendProofs` proves, for any number of images, `ImagesCounted`,
`JoinedFirst` and `KeepsContract`: that the backend implements
`BackendContract`, initial states to initial states and each step to a step of it or a
stutter. The invariant says which flag or call keeps a thread joinable
(`JoinableInv`): a thread that gave up leaves its flag set, which is what makes the next
`stop` join it. `FreenectBackendProofs` proves, for any number of cameras,
`LastOrderIsLast` (an order is in the slot, in the thread's hands, or sent: `OrderInv`),
`OrdersArriveInOrder` (each motor's slot implements `LatestValue`, which `close` begins anew, `Reset`: `MotorInv` says a camera
without a motor was asked nothing) and `StreamsChangeAlone`. `OakBackendProofs` proves `CallbacksOutliveNothing`, that a callback is registered only while
its device exists, and `KeepsContract`. `DeviceInv` and `CaptureInv` say of each place in a call whether there is a
device and a capture thread; `RegisteredInv` that what an exception left registered is part of what the next
start registers, and is gone before the device is. `KeepsContractAlone` of `FreenectBackendProofs` is
the contract for the Kinect v1, as long as no two of them stream (`OneStreams`): they share a context, and a
frame of one can be in the host on the thread of the other when `stop` returns.

`BackendsProofs` is about all seven side by side, as the run `backends` has them. `OneMoves`, that a step of the whole is a
step of one backend and leaves the others alone, carries over what the three modules above prove, and lets
the others be treated one by one. Their invariants (`LInv` of the Kinect v2, `DInv` of DepthAI, `OInv` of Orbbec, `RInv` of
RealSense) say where each call has got to, what streams by then, and which thread may be where.

* `BackendsWellTyped`: the types of the seven.
* `EveryFrameIsCounted`: an image is released when its last user is done, and a pipeline of DepthAI that failed to start has not
  doubled the callbacks of the one that does (`DCallbackInv`).
* `LastSettingWins`: a camera that was started obeys what it was last told. For the Kinect v2 this is
  `LSentInv`: while it streams and nobody is sending, what was sent last is the command that the settings make now.
* `StopsFitStarts`: what streams is what was started, and no callback outlives its device.
* `ContractsKept`: each of the seven implements `BackendContract`, step by step; for Kinects v1 with `OneStreams`.
  `ContractsKeptByOne` needs no such condition where there is one Kinect v1, as in the run.
* `OpensTheNamedOrNone`: for every backend and however cameras come and go, a camera that is open was asked for by
  its own identity or by none; of the Azure Kinect and the Kinect v1, unless the bus moved between the choice of its place and the
  opening, which is the case that `cameras_fallback` shows. `AOpeningInv` says that a camera in the hands of an open call
  still stands for the address (`StandsFor`), a place as long as the bus has not moved.
* `EveryCameraIsFound` adds what is listed: an address leads to the camera it was announced for and to no other, and
  the Azure Kinect lists every camera as what it is. `ABusInv` and `AOpenInv` say that a camera is in the list and is held
  once; `ATableInv` that the table of serials has an entry for every open camera, at its place, and no other, until an open
  failed late or an open camera has moved (`drifted`). `AnnouncementLeads` follows an address back for each of the seven. What is left of the
  list when those in use are left out of it (`Without`, a fold) is `WhatIsLeft`, by induction over the list as above.
* `EveryValueSurvives`: what was written, what the camera was sent and what the node shows of its answer are one value.
  The invariant has four parts: what the SDK says of a setting does not change (`VFixed`), a backend answers with
  a value the setting may have (`VToldInv`), the node shows the last value by its label, number or text (`VNodeInv`), and a
  value on its way is the one that was written (`VWrittenInv`). The lemmas before it say of each backend's
  descriptor, and of each conversion, that what one side makes of a value the other takes back.
* `WellTyped`: the types of all of them.

The hypotheses in these theorems' ASSUME are that "none" is no order and no camera (`None \notin Tilt`, `None \notin Kinect`) and
that the constants of the exposure and of DepthAI's settings have their types (`FirstMode \in Mode`, `Default \in Value`,
`ModeOf \in [Param -> Mode]`, `Factory \in Setting`, `MaxItems \in Nat`). `CamerasDiffer` is that there are finitely many
cameras and that "no text" is neither a camera nor a position; `NamesDiffer` that there are three different labels, as
many as a menu has entries, that none of them is a number, and that "no value" is neither. The run `backends` has constants of
this kind. The other assumptions are the named ASSUMEs of the modules.
Those of `InputStream`: queues
have room for at least one frame, streams have distinct names, one thread per
stream. That of `Discovery`: there are finitely many cameras, and the libraries form a sequence without repetitions, as
`BackendRegistry::load` makes it (`BackendRegistry.cpp:141`: a file seen in an earlier directory is passed over).

Checked by TLC only: liveness, which rests on fairness and so on ENABLED. That is `CallsReturn`, `StopReturns`, `WriteReachesCamera`,
`ListConverges`, `ShutdownReturns`, `IdleWorkerSleeps`, `ObservedSensorTracked` and `DestructorReturnsWhilePolling`. Every invariant
and every action property of the runs that pass, and that the backends implement the contract, is a theorem.

## Not modelled

What is assumed of the SDKs, each at the place in the modules where it matters:

* `pipeline->stop()` of depthai does not throw. If it did, the destructor would go on without waiting for the threads
  (`DepthAiBackend.cpp:395`), and whether those still run depthai alone knows.
* `stop()` of the Oak3DVision camera does not throw, neither in `backend_stop` (`OakBackend.cpp:1135`) nor in the destructor
  (`490`); if it did, the callbacks would stay registered (`clearAllCallbacks` is in the same `try`).
* An Orbbec IMU that cannot be started says so by an `ob::Error`, the one exception that libobsensor documents. Any
  other would end the call with `running` cleared and the video pipeline going on (`OrbbecBackend.cpp:1204`).
* How ossia clips a value to the domain of a node that is published with bounding CLIP (`DepthCameraControls.cpp:193`): it is a
  library this code only parameterises. A parameter of Oak3DVision without a range would be held at 0.

Left out:


* Of the host: the pixel formats, sizes and rates published along with a frame; the
  codec contexts; `depth_unit_mm`; which of the three inertial nodes a sample updates; the
  names and addresses of nodes; the settings widget and their serialization; the
  registry's search path. These are wording and layout, without a state that another step depends on.
* Of the backends: the arithmetic of a cloud, the pairing of colour and depth of the
  Kinect v1, the pool of packets of libfreenect2, the building of depthai's pipeline, the choice of
  profiles and modes.
* That `backend_start` of the Kinect v2 replaces the registration while the depth thread may be
  using it: the steps are in the model (`Register`, `GiveCloud`), but no text of the repository says
  anything that a run could refute.
* Three hazards of their own kind, not among those listed: `backend_start` of the Azure Kinect answers 1 though the
  capture thread gave up (`K4ABackend.cpp:1141`); frames of a RealSense that arrive before its unit is read
  carry 1.0, where `depthcam_abi.h` says 0 for an unknown one (`RealSenseBackend.cpp:1007`); the callback for
  changes of Orbbec is tested and then read again on the SDK's thread (`OrbbecBackend.cpp:833`), which `Discovery` has
  for the host's own callback.
* The SDKs, the vendored headers of libk4a, build and packaging, the test programs.

### Where the code and its comments differ, beside the findings

Seen while modelling and kept in the model as the code does it:

* The transfers to the motor of a Kinect v1 must not "be issued from another thread while freenect_process_events is running"
  (`FreenectBackend.cpp:143-147`); but each open camera has a thread of its own, and all of them pump the one `g_ctx` (`420`) and
  send or read (`429`, `439`) meanwhile. It takes two Kinects; with one, as in `backends`, it cannot occur.
* The Kinect v1 is also looked for by serial and opened by index, as the Azure Kinect is; the comment that promises "no silent
  fallback" is the Azure Kinect's. `OpensTheNamedCamera` has both.
* An Azure Kinect whose open fails after `remember_open` stays in `g_open_serials` (`K4ABackend.cpp:1112`), and `forget_open` removes the
  first entry with an index, which after a change of the bus may be that of another camera.
* `start()` of a stream tests `m_device` (`DepthCameraStream.cpp:185`) before it passes it on (`193`), and `close()` may come in between:
  the backend is then given null, which each refuses, and this is `StartCamera`. That `close()` falls between the reading of
  `m_device` and the call it is read for is not followed, since that would be undefined. No text of the repository says on which threads
  these may be called.
* A parameter of Oak3DVision without a range, or one that was probed, is published with the range 0 to 0, although
  the comment says it is published unbounded (`OakBackend.cpp:356`, `396`).
* Setting the tilt of a Kinect v1 queues an order, and the read-back that "what the camera settled on" is made for
  (`DepthCameraControls.cpp:365`) gets the angle of before; nothing reads it again, since a control that can be
  written is not polled. In `ControlValues` this is `Answered` and `ReadTilt`.
* Writing a value turns its automatic mode off in the camera (Azure Kinect, DepthAI, Kinect v2), while the node of that
  mode is not read again (`DepthCameraControls.cpp:203`).
* Back from automatic, DepthAI sends the value written last, the Azure Kinect the value that the camera holds.
* An ENUM without labels is given a type and a domain (`DepthCameraControls.cpp:38`) but never a value
  (`508`).

## Plan

Done: the parts of the system that keep state. In this order:

1. **Abstractions**: the exposure of `Freenect2Backend`, which is kept and sent again at every start, as a
   `LatestValue` that survives its receiver.
2. **Compositions**: `ControlTree` over the slot of `FreenectBackend`, two `LatestValue` in a row.
3. **Two Kinects v1**: a run that shows the motor transfer of one during the other's pass over the context, and who may
   be in the host when one of them has stopped.
4. **What is left of the hazards**: the unit of depth of the first frames of a RealSense; the callback for changes of
   Orbbec, in `Discovery`.

To keep model checking short, backends share the run `backends` and extend its properties; where a new
property says more than an old one, it takes its place.
