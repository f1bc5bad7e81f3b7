----------------------------- MODULE CameraDevice -----------------------------
(***************************************************************************)
(* The life of the devices that publish cameras: InputDevice::reconnect    *)
(* and disconnect (DepthCameraDevice.cpp), what depthcam_device_impl       *)
(* builds and releases (DepthCameraProtocol.cpp), the inertial nodes       *)
(* (DepthCameraImu.cpp), and who may still be using them.                  *)
(*                                                                         *)
(* All of it runs on the GUI thread.  Meanwhile the camera's thread writes *)
(* samples into the inertial nodes, the worker of the control tree calls   *)
(* the camera, and the graphics nodes keep the stream of a device that is  *)
(* gone: GfxContext destroys them on a timer.  The code does not say which *)
(* thread those nodes call start() and stop() on: here they do at any      *)
(* time, between any two steps of close().                                 *)
(*                                                                         *)
(* The stream and the control tree are reduced to what this code relies    *)
(* on: InputStream and ControlTree have the details.                       *)
(***************************************************************************)
EXTENDS Naturals, FiniteSets

CONSTANTS
  Device,       \* InputDevices of the document
  Camera,       \* cameras plugged in
  Address,      \* the camera a device's settings name, or None for any
  HasImu,       \* cameras with an inertial sensor
  HasControls,  \* cameras with settings to publish
  Stream,       \* InputStreams, each with the depthcam_device_impl around it
  None

ASSUME AddressAssumption ==
  /\ Address \in [Device -> Camera \cup {None}]
  /\ HasImu \subseteq Camera /\ HasControls \subseteq Camera
  /\ None \notin Camera \cup Stream

VARIABLES
  dev,      \* InputDevice::m_dev
  present,  \* the devices that have not been destroyed
  gui,      \* what the GUI thread is doing: [op, dev, at, stream]
  claim,    \* the stream that has a camera open
  inner,    \* the camera of a stream, None when m_device is null
  running,  \* the streams whose m_running is set
  streaming, \* the streams whose camera was started
  call,     \* what a graphics node has called on a stream, and how far it is
  nodes,    \* the streams with a node tree
  sampling, \* the streams with an IMU callback
  inCall,   \* the streams whose camera is inside that callback
  tree,     \* the streams with a control tree, so with a worker
  asking,   \* the streams whose worker is inside a call to the camera
  routed,   \* the streams whose protocol has m_controls set
  viewed    \* the streams some graphics node still refers to

deviceVars == <<dev, present>>
cameraVars == <<claim, inner, running, streaming, call>>
nodeVars   == <<nodes, viewed>>
imuVars    == <<sampling, inCall>>
treeVars   == <<tree, asking, routed>>
vars == <<deviceVars, gui, cameraVars, nodeVars, imuVars, treeVars>>

Step == {"idle", "unroute", "dropTree", "dropImu", "clearNodes",
         "reset", "resetStop", "resetClose",
         "open", "publish", "addImu", "addTree", "route", "assign",
         "unwindImu", "unwindNodes", "unwindStream", "unwindStop", "unwindClose"}

Idle == [op |-> "none", dev |-> None, at |-> "idle", stream |-> None]

TypeOK ==
  /\ dev \in [Device -> Stream \cup {None}]
  /\ present \subseteq Device
  /\ gui \in [op : {"none", "reconnect", "disconnect", "destroy"},
              dev : Device \cup {None}, at : Step, stream : Stream \cup {None}]
  /\ claim \in [Camera -> Stream \cup {None}]
  /\ inner \in [Stream -> Camera \cup {None}]
  /\ running \subseteq Stream /\ streaming \subseteq Stream
  /\ call \in [Stream -> {"none", "start", "startCamera", "stop"}]
  /\ nodes \subseteq Stream /\ viewed \subseteq Stream
  /\ sampling \subseteq Stream /\ inCall \subseteq Stream
  /\ tree \subseteq Stream /\ asking \subseteq Stream /\ routed \subseteq Stream

Init ==
  /\ dev = [d \in Device |-> None]
  /\ present = Device
  /\ gui = Idle
  /\ claim = [c \in Camera |-> None]
  /\ inner = [s \in Stream |-> None]
  /\ running = {} /\ streaming = {}
  /\ call = [s \in Stream |-> "none"]
  /\ nodes = {} /\ viewed = {}
  /\ sampling = {} /\ inCall = {}
  /\ tree = {} /\ asking = {} /\ routed = {}

(* The GUI thread goes on with the call it is in. *)
At(label) == gui.at = label
Goto(label) == gui' = [gui EXCEPT !.at = label]
Finish == gui' = Idle

(***************************************************************************)
(* disconnect()                                                            *)
(***************************************************************************)

(* Where disconnect() starts: without a device there is nothing to do. *)
Dismantle(d) == IF dev[d] = None THEN "reset" ELSE "unroute"

(* reconnect(), disconnect() and ~InputDevice all begin by disconnecting. *)
Call(d, op) ==
  /\ At("idle")
  /\ d \in present
  /\ gui' = [op |-> op, dev |-> d, at |-> Dismantle(d), stream |-> dev[d]]
  /\ UNCHANGED <<deviceVars, cameraVars, nodeVars, imuVars, treeVars>>

(* releaseControls(): the protocol stops routing, ... *)
Unroute ==
  /\ At("unroute")
  /\ routed' = routed \ {gui.stream}
  /\ Goto("dropTree")
  /\ UNCHANGED <<deviceVars, cameraVars, nodeVars, imuVars, tree, asking>>

(* Slip: the tree is destroyed while its worker is still calling. *)
DropTree_NotJoined ==
  /\ At("dropTree")
  /\ tree' = tree \ {gui.stream}
  /\ Goto("dropImu")
  /\ UNCHANGED <<deviceVars, cameraVars, nodeVars, imuVars, asking, routed>>

(* ... the control tree is destroyed, which joins its worker, ... *)
DropTree ==
  /\ At("dropTree")
  /\ gui.stream \notin asking
  /\ tree' = tree \ {gui.stream}
  /\ Goto("dropImu")
  /\ UNCHANGED <<deviceVars, cameraVars, nodeVars, imuVars, asking, routed>>

(* Slip: the callback is left to the stream's destructor. *)
DropImu_Forgotten ==
  /\ At("dropImu")
  /\ Goto("clearNodes")
  /\ UNCHANGED <<deviceVars, cameraVars, nodeVars, imuVars, treeVars>>

(* ... and ~ImuTree waits for a sample in flight. *)
DropImu ==
  /\ At("dropImu")
  /\ gui.stream \notin inCall
  /\ sampling' = sampling \ {gui.stream}
  /\ Goto("clearNodes")
  /\ UNCHANGED <<deviceVars, cameraVars, nodeVars, inCall, treeVars>>

(* GfxInputDevice::disconnect() clears the children of the root node. *)
ClearNodes ==
  /\ At("clearNodes")
  /\ nodes' = nodes \ {gui.stream}
  /\ Goto("reset")
  /\ UNCHANGED <<deviceVars, cameraVars, viewed, imuVars, treeVars>>

(* InputStream::close() begins with stop(), which tests and clears         *)
(* m_running, ...                                                          *)
StopRunning(wait, close) ==
  /\ running' = running \ {gui.stream}
  /\ Goto(IF gui.stream \in running THEN wait ELSE close)
  /\ UNCHANGED <<deviceVars, claim, inner, streaming, call, nodeVars, imuVars, treeVars>>

(* ... has a camera that ran stop, and waits for a callback in flight; ... *)
StopCamera(close) ==
  /\ gui.stream \notin inCall
  /\ streaming' = streaming \ {gui.stream}
  /\ Goto(close)
  /\ UNCHANGED <<deviceVars, claim, inner, running, call, nodeVars, imuVars, treeVars>>

(* ... then the camera is handed back.                                     *)
HandBack(s) ==
  /\ s \notin inCall
  /\ streaming' = streaming \ {s}
  /\ inner' = [inner EXCEPT ![s] = None]
  /\ claim' = [c \in Camera |-> IF claim[c] = s THEN None ELSE claim[c]]
  /\ UNCHANGED <<running, call>>

(* m_dev.reset(): ~depthcam_device_impl finds its trees released already,  *)
(* ~depthcam_protocol closes the stream.                                   *)
ResetStops == At("reset") /\ gui.stream # None /\ StopRunning("resetStop", "resetClose")

ResetWaits == At("resetStop") /\ StopCamera("resetClose")

(* What follows disconnect() in the call that made it. *)
AfterReset ==
  IF gui.op = "reconnect"
    THEN gui' = [gui EXCEPT !.at = "open", !.stream = None] /\ UNCHANGED present
    ELSE Finish /\ present' = IF gui.op = "destroy" THEN present \ {gui.dev} ELSE present

(* Without a device there was nothing to close. *)
Closed ==
  \/ At("reset") /\ gui.stream = None /\ UNCHANGED cameraVars
  \/ At("resetClose") /\ HandBack(gui.stream)

(* Slip: m_dev is kept, as the base class does. *)
Reset_KeepsDevice ==
  /\ gui.at \in {"reset", "resetClose"}
  /\ AfterReset
  /\ UNCHANGED <<dev, cameraVars, nodeVars, imuVars, treeVars>>

(* Slip: it waits until no renderer can be holding a frame. *)
Reset_WaitsForViews ==
  /\ gui.stream \notin viewed
  /\ Closed
  /\ dev' = [dev EXCEPT ![gui.dev] = None]
  /\ AfterReset
  /\ UNCHANGED <<nodeVars, imuVars, treeVars>>

Reset ==
  /\ Closed
  /\ dev' = [dev EXCEPT ![gui.dev] = None]
  /\ AfterReset
  /\ UNCHANGED <<nodeVars, imuVars, treeVars>>

(***************************************************************************)
(* The rest of reconnect()                                                 *)
(***************************************************************************)

(* No document plug-in, no camera, or no backend of that name. *)
GiveUp ==
  /\ At("open")
  /\ Finish
  /\ UNCHANGED <<deviceVars, cameraVars, nodeVars, imuVars, treeVars>>

(* A stream nobody refers to any more; each is used again when it is free. *)
Free(s) ==
  /\ \A d \in Device : dev[d] # s
  /\ s \notin viewed

(* An empty address takes whatever is enumerated first. *)
Named(d) == IF Address[d] = None THEN Camera ELSE {Address[d]}

(* depthcam_protocol's constructor opens the camera.  A camera this        *)
(* process has open cannot be opened again.                                *)
Open(s, c) ==
  /\ At("open")
  /\ Free(s)
  /\ c \in Named(gui.dev)
  /\ claim[c] = None
  /\ claim' = [claim EXCEPT ![c] = s]
  /\ inner' = [inner EXCEPT ![s] = c]
  /\ running' = running \ {s}
  /\ gui' = [gui EXCEPT !.at = "publish", !.stream = s]
  /\ UNCHANGED <<deviceVars, streaming, call, nodeVars, imuVars, treeVars>>

(* Slip: nobody asks whether the stream is valid. *)
OpenFails_Unnoticed ==
  /\ At("open")
  /\ Goto("publish")
  /\ UNCHANGED <<deviceVars, cameraVars, nodeVars, imuVars, treeVars>>

(* The backend refuses: the stream is not valid and goes away. *)
OpenFails ==
  /\ At("open")
  /\ Finish
  /\ UNCHANGED <<deviceVars, cameraVars, nodeVars, imuVars, treeVars>>

(* The nodes of the streams; each registers a graphics node that holds an  *)
(* extractor.                                                              *)
Publish ==
  /\ At("publish")
  /\ nodes' = nodes \cup {gui.stream}
  /\ viewed' = viewed \cup {gui.stream}
  /\ Goto("addImu")
  /\ UNCHANGED <<deviceVars, cameraVars, imuVars, treeVars>>

AddImu ==
  /\ At("addImu")
  /\ sampling' = IF inner[gui.stream] \in HasImu THEN sampling \cup {gui.stream} ELSE sampling
  /\ Goto("addTree")
  /\ UNCHANGED <<deviceVars, cameraVars, nodeVars, inCall, treeVars>>

(* ControlTree's constructor starts the worker if there are controls. *)
AddTree ==
  /\ At("addTree")
  /\ IF inner[gui.stream] \in HasControls
       THEN tree' = tree \cup {gui.stream} /\ Goto("route")
       ELSE Goto("assign") /\ UNCHANGED tree
  /\ UNCHANGED <<deviceVars, cameraVars, nodeVars, imuVars, asking, routed>>

Route ==
  /\ At("route")
  /\ routed' = routed \cup {gui.stream}
  /\ Goto("assign")
  /\ UNCHANGED <<deviceVars, cameraVars, nodeVars, imuVars, tree, asking>>

Assign ==
  /\ At("assign")
  /\ dev' = [dev EXCEPT ![gui.dev] = gui.stream]
  /\ Finish
  /\ UNCHANGED <<present, cameraVars, nodeVars, imuVars, treeVars>>

(* Building a node, the inertial tree or the control tree throws:          *)
(* reconnect() catches it after the members (m_imu last), the node tree    *)
(* and the protocol have been destroyed.                                   *)
Throw ==
  /\ gui.at \in {"publish", "addImu", "addTree"}
  /\ Goto("unwindImu")
  /\ UNCHANGED <<deviceVars, cameraVars, nodeVars, imuVars, treeVars>>

UnwindImu ==
  /\ At("unwindImu")
  /\ gui.stream \notin inCall
  /\ sampling' = sampling \ {gui.stream}
  /\ Goto("unwindNodes")
  /\ UNCHANGED <<deviceVars, cameraVars, nodeVars, inCall, treeVars>>

UnwindNodes ==
  /\ At("unwindNodes")
  /\ nodes' = nodes \ {gui.stream}
  /\ Goto("unwindStream")
  /\ UNCHANGED <<deviceVars, cameraVars, viewed, imuVars, treeVars>>

(* Slip: the stream is left to whoever still holds it. *)
UnwindStream_LeftOpen ==
  /\ At("unwindStream")
  /\ Finish
  /\ UNCHANGED <<deviceVars, cameraVars, nodeVars, imuVars, treeVars>>

UnwindStream == At("unwindStream") /\ StopRunning("unwindStop", "unwindClose")

UnwindWaits == At("unwindStop") /\ StopCamera("unwindClose")

UnwindClose ==
  /\ At("unwindClose")
  /\ HandBack(gui.stream)
  /\ Finish
  /\ UNCHANGED <<deviceVars, nodeVars, imuVars, treeVars>>

(***************************************************************************)
(* The others.                                                             *)
(***************************************************************************)

streamKeeps == <<deviceVars, gui, claim, inner, nodeVars, imuVars, treeVars>>

(* start() on a stream: its graphics nodes call it, through its            *)
(* extractors, and the device's start_execution(), which also has nodes as *)
(* long as it is there.  One of them at a time.  On a stream that was      *)
(* closed there is no device to start; m_running says it runs already.     *)
StartCalled(s) ==
  /\ s \in viewed /\ call[s] = "none"
  /\ inner[s] # None /\ s \notin running
  /\ call' = [call EXCEPT ![s] = "start"]
  /\ UNCHANGED <<streamKeeps, running, streaming>>

SetRunning(s) ==
  /\ call[s] = "start"
  /\ running' = running \cup {s}
  /\ call' = [call EXCEPT ![s] = "startCamera"]
  /\ UNCHANGED <<streamKeeps, streaming>>

(* The backend starts the camera, or refuses, as it does without one: by   *)
(* now close() may have put null in its place.                             *)
StartCamera(s) ==
  /\ call[s] = "startCamera"
  /\ \/ inner[s] # None /\ streaming' = streaming \cup {s} /\ UNCHANGED running
     \/ running' = running \ {s} /\ UNCHANGED streaming
  /\ call' = [call EXCEPT ![s] = "none"]
  /\ UNCHANGED streamKeeps

(* stop(): stop_execution() or the last vote. *)
StopCalled(s) ==
  /\ s \in viewed /\ call[s] = "none"
  /\ s \in running
  /\ running' = running \ {s}
  /\ call' = [call EXCEPT ![s] = "stop"]
  /\ UNCHANGED <<streamKeeps, streaming>>

(* The camera's stop, if it is there still, waits for a sample in flight. *)
StopReturns(s) ==
  /\ call[s] = "stop"
  /\ IF inner[s] = None THEN UNCHANGED streaming
     ELSE s \notin inCall /\ streaming' = streaming \ {s}
  /\ call' = [call EXCEPT ![s] = "none"]
  /\ UNCHANGED <<streamKeeps, running>>

(* The timer of GfxContext destroys the nodes that were unregistered. *)
DropViews(s) ==
  /\ At("idle")
  /\ s \in viewed \ nodes /\ call[s] = "none"
  /\ viewed' = viewed \ {s}
  /\ UNCHANGED <<deviceVars, gui, cameraVars, nodes, imuVars, treeVars>>

(* ImuTree::onSample on the camera's thread. *)
SampleBegins(s) ==
  /\ s \in (streaming \cap sampling) \ inCall
  /\ inCall' = inCall \cup {s}
  /\ UNCHANGED <<deviceVars, gui, cameraVars, nodeVars, sampling, treeVars>>

SampleEnds(s) ==
  /\ s \in inCall
  /\ inCall' = inCall \ {s}
  /\ UNCHANGED <<deviceVars, gui, cameraVars, nodeVars, sampling, treeVars>>

(* The worker of the control tree calls the camera for the requests it has *)
(* taken; it takes no more once the destructor has cleared m_running.      *)
AskBegins(s) ==
  /\ s \in tree \ asking
  /\ ~(At("dropTree") /\ gui.stream = s)
  /\ asking' = asking \cup {s}
  /\ UNCHANGED <<deviceVars, gui, cameraVars, nodeVars, imuVars, tree, routed>>

AskEnds(s) ==
  /\ s \in asking
  /\ asking' = asking \ {s}
  /\ UNCHANGED <<deviceVars, gui, cameraVars, nodeVars, imuVars, tree, routed>>

(***************************************************************************)
(* The specification.                                                      *)
(***************************************************************************)

DisconnectStep == Unroute \/ DropTree \/ DropImu \/ ClearNodes
                  \/ ResetStops \/ ResetWaits \/ Reset

ReconnectStep ==
  \/ GiveUp \/ OpenFails
  \/ \E s \in Stream, c \in Camera : Open(s, c)
  \/ Publish \/ AddImu \/ AddTree \/ Route \/ Assign
  \/ Throw \/ UnwindImu \/ UnwindNodes
  \/ UnwindStream \/ UnwindWaits \/ UnwindClose

GuiStep == DisconnectStep \/ ReconnectStep

OtherStep ==
  \E s \in Stream :
    \/ StartCalled(s) \/ SetRunning(s) \/ StartCamera(s)
    \/ StopCalled(s) \/ StopReturns(s) \/ DropViews(s)
    \/ SampleBegins(s) \/ SampleEnds(s) \/ AskBegins(s) \/ AskEnds(s)

Next ==
  \/ \E d \in Device, op \in {"reconnect", "disconnect", "destroy"} : Call(d, op)
  \/ GuiStep
  \/ OtherStep

Spec == Init /\ [][Next]_vars

(* The GUI thread goes on, samples and calls to the camera end.  ~ImuTree  *)
(* takes the mutex that each sample takes: it gets its turn.               *)
Fairness ==
  /\ WF_vars(GuiStep)
  /\ SF_vars(DropImu) /\ SF_vars(UnwindImu)
  /\ \A s \in Stream : WF_vars(SampleEnds(s)) /\ WF_vars(AskEnds(s))

FairSpec == Spec /\ Fairness

(***************************************************************************)
(* Properties.                                                             *)
(***************************************************************************)

(* The trees point at parameters that the nodes own: they are gone, and    *)
(* nobody is inside them, before the nodes are cleared.                    *)
NodesOutliveTheirTrees ==
  /\ tree \cup asking \subseteq nodes
  /\ sampling \cup inCall \subseteq nodes
  /\ routed \subseteq tree

(* The worker "reads through m_backend at a device that is closed as soon  *)
(* as" the control tree is destroyed: while a worker may call, its camera  *)
(* is open, and open for it.                                               *)
CameraOutlivesItsWorker ==
  \A s \in tree \cup asking : inner[s] # None /\ claim[inner[s]] = s

Building == IF gui.op = "reconnect" THEN {gui.stream} ELSE {}

(* A camera is open for a device that is connected, or is just being       *)
(* connected or disconnected.  So a reconnect never meets a handle of its  *)
(* own: not an earlier one, not one that a failure or an exception left.   *)
HandlesAreOwned ==
  \A c \in Camera : claim[c] # None =>
    \/ \E d \in Device : dev[d] = claim[c]
    \/ claim[c] \in Building

(* connected() is getDevice() # nullptr: a device that says so has its     *)
(* nodes, its camera, and its settings if the camera has any.              *)
ConnectedIsUsable ==
  \A d \in Device : At("idle") /\ dev[d] # None =>
    LET s == dev[d] IN
    /\ s \in nodes
    /\ inner[s] # None /\ claim[inner[s]] = s
    /\ inner[s] \in HasControls => s \in tree /\ s \in routed
    /\ inner[s] \in HasImu => s \in sampling

(* reconnect(), disconnect() and the destructor return, given that calls   *)
(* to the camera and samples do: the joins do not wait for the GUI thread. *)
CallsReturn == ~At("idle") ~> At("idle")
=============================================================================
