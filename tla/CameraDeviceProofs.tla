-------------------------- MODULE CameraDeviceProofs --------------------------
(***************************************************************************)
(* What CameraDevice guarantees for every number of devices, cameras and   *)
(* streams.  The invariants checked by TLC are not inductive: they follow  *)
(* from IInv, which also says, for each step of the GUI thread, what has   *)
(* been released or built so far.                                          *)
(***************************************************************************)
EXTENDS CameraDevice, TLAPS

Dismantling == {"unroute", "dropTree", "dropImu", "clearNodes", "reset", "resetStop", "resetClose"}
Constructing == {"publish", "addImu", "addTree", "route", "assign",
                 "unwindImu", "unwindNodes", "unwindStream", "unwindStop", "unwindClose"}

(* What the GUI thread works on. *)
GuiOK ==
  /\ gui.at = "idle" => gui = Idle
  /\ gui.at # "idle" => gui.dev \in Device /\ gui.op # "none"
  /\ gui.at \in Dismantling =>
       gui.stream = dev[gui.dev] /\ (gui.at = "reset" \/ gui.stream # None)
  /\ gui.at \in Constructing \cup {"open"} => gui.op = "reconnect" /\ dev[gui.dev] = None
  /\ gui.at = "open" => gui.stream = None
  /\ gui.at \in Constructing => gui.stream # None /\ \A d \in Device : dev[d] # gui.stream

(* A stream that belongs to a device, or to the one being built. *)
Live(s) == (\E d \in Device : dev[d] = s) \/ (gui.at \in Constructing /\ gui.stream = s)

(* The live streams are those with a camera; no two share anything. *)
HandlesOK ==
  /\ \A d, e \in Device : dev[d] # None /\ dev[d] = dev[e] => d = e
  /\ \A s \in Stream : inner[s] # None <=> Live(s)
  /\ \A s \in Stream : inner[s] # None => claim[inner[s]] = s
  /\ \A c \in Camera : claim[c] # None => inner[claim[c]] = c

(* Each thing needs the one below it. *)
LayersOK ==
  /\ asking \subseteq tree /\ routed \subseteq tree /\ tree \subseteq nodes
  /\ inCall \subseteq sampling /\ sampling \subseteq nodes
  /\ \A s \in nodes : inner[s] # None

(* What is gone, or not there yet, at each step. *)
ReleasedOK ==
  /\ gui.at = "dropTree" => gui.stream \notin routed
  /\ gui.at \in {"dropImu", "clearNodes", "publish", "addImu", "addTree", "unwindImu"} =>
       gui.stream \notin tree
  /\ gui.at \in {"clearNodes", "unwindNodes"} => gui.stream \notin tree \cup sampling
  /\ gui.at \in {"reset", "resetStop", "resetClose", "publish",
                "unwindStream", "unwindStop", "unwindClose"} => gui.stream \notin nodes

(* A stream with everything its camera offers. *)
Complete(s) ==
  /\ s \in nodes
  /\ inner[s] \in HasControls => s \in routed
  /\ inner[s] \in HasImu => s \in sampling

(* What is there already, or still. *)
BuiltOK ==
  /\ \A d \in Device : dev[d] # None /\ ~(gui.at \in Dismantling /\ gui.dev = d) =>
       Complete(dev[d])
  /\ gui.at \in {"addImu", "addTree", "route"} => gui.stream \in nodes
  /\ gui.at \in {"addTree", "route"} =>
       (inner[gui.stream] \in HasImu => gui.stream \in sampling)
  /\ gui.at = "route" => gui.stream \in tree
  /\ gui.at = "assign" => Complete(gui.stream)

IInv == TypeOK /\ GuiOK /\ HandlesOK /\ LayersOK /\ ReleasedOK /\ BuiltOK

LEMMA InitIInv == Init => IInv
<1> SUFFICES ASSUME Init PROVE IInv
  OBVIOUS
<1> USE AddressAssumption DEF Init, Idle
<1>1. TypeOK
  BY DEF TypeOK, Step
<1>2. GuiOK
  BY DEF GuiOK, Dismantling, Constructing
<1>3. HandlesOK
  BY DEF HandlesOK, Live, Constructing
<1>4. LayersOK /\ ReleasedOK /\ BuiltOK
  BY DEF LayersOK, ReleasedOK, BuiltOK, Complete, Dismantling
<1> QED
  BY <1>1, <1>2, <1>3, <1>4 DEF IInv

LEMMA NextIInv == IInv /\ [Next]_vars => IInv'
<1> SUFFICES ASSUME IInv, [Next]_vars PROVE IInv'
  OBVIOUS
<1> USE AddressAssumption DEF IInv, TypeOK, Step, GuiOK, HandlesOK, LayersOK, ReleasedOK, BuiltOK,
        Complete, Live, Dismantling, Constructing, At, Goto, Finish, Idle, cameraVars, deviceVars, nodeVars, imuVars, treeVars
<1>1. ASSUME NEW d \in Device, NEW op \in {"reconnect", "disconnect", "destroy"}, Call(d, op) PROVE IInv'
  BY <1>1 DEF Call, Dismantle
<1>2. CASE Unroute
  BY <1>2 DEF Unroute
<1>3. CASE DropTree
  BY <1>3 DEF DropTree
<1>4. CASE DropImu
  BY <1>4 DEF DropImu
<1>5. CASE ClearNodes
  BY <1>5 DEF ClearNodes
<1>6. CASE Reset
  <2>1. /\ gui.at \in {"reset", "resetClose"} /\ gui.dev \in Device /\ gui.stream = dev[gui.dev]
        /\ dev' = [dev EXCEPT ![gui.dev] = None]
        /\ UNCHANGED <<nodes, viewed, sampling, inCall, tree, asking, routed>>
    BY <1>6 DEF Reset, Closed
  <2>2. AfterReset
    BY <1>6 DEF Reset
  <2>3. \/ gui' = [op |-> "reconnect", dev |-> gui.dev, at |-> "open", stream |-> None]
        \/ gui' = Idle
    <3>1. CASE gui.op = "reconnect"
      <4>1. gui' = [gui EXCEPT !.at = "open", !.stream = None]
        BY <2>2, <3>1 DEF AfterReset
      <4> QED
        BY <3>1, <4>1
    <3>2. CASE gui.op # "reconnect"
      BY <2>2, <3>2 DEF AfterReset
    <3> QED
      BY <3>1, <3>2
  <2>4. gui' \in [op : {"none", "reconnect", "disconnect", "destroy"},
                 dev : Device \cup {None}, at : Step, stream : Stream \cup {None}]
    BY <2>1, <2>3
  <2>5. present' \subseteq Device
    BY <2>1, <2>2 DEF AfterReset
  <2>6. CASE gui.stream = None
    <3>1. dev' \in [Device -> Stream \cup {None}] /\ \A d \in Device : dev'[d] = dev[d]
      BY <2>1, <2>6
    <3>2. UNCHANGED <<claim, inner, running, streaming, call>>
      BY <1>6, <2>6 DEF Reset, Closed
    <3> QED
      BY <2>1, <2>3, <2>4, <2>5, <2>6, <3>1, <3>2
  <2>7. CASE gui.stream # None
    <3>1. HandBack(gui.stream)
      BY <1>6, <2>7 DEF Reset, Closed
    <3>2. \A s \in Stream : Live(s)' <=> (Live(s) /\ s # gui.stream)
      BY <2>1, <2>3, <2>7
    <3> QED
      BY <2>1, <2>3, <2>4, <2>5, <2>7, <3>1, <3>2 DEF HandBack
  <2> QED
    BY <2>6, <2>7
<1>20. CASE ResetStops \/ UnwindStream
  BY <1>20 DEF ResetStops, UnwindStream, StopRunning
<1>21. CASE ResetWaits \/ UnwindWaits
  BY <1>21 DEF ResetWaits, UnwindWaits, StopCamera
<1>7. CASE GiveUp \/ OpenFails
  BY <1>7 DEF GiveUp, OpenFails
<1>8. ASSUME NEW s \in Stream, NEW c \in Camera, Open(s, c) PROVE IInv'
  <2> USE <1>8 DEF Open, Free, Named
  <2>1. TypeOK'
    OBVIOUS
  <2>2. GuiOK'
    OBVIOUS
  <2>3. HandlesOK'
    <3>1. ~Live(s) /\ inner[s] = None
      OBVIOUS
    <3>2. \A t \in Stream : Live(t)' <=> (Live(t) \/ t = s)
      BY <3>1
    <3> QED
      BY <3>1, <3>2
  <2>4. LayersOK'
    OBVIOUS
  <2>5. ReleasedOK'
    OBVIOUS
  <2>6. BuiltOK'
    OBVIOUS
  <2> QED
    BY <2>1, <2>2, <2>3, <2>4, <2>5, <2>6
<1>9. CASE Publish
  BY <1>9 DEF Publish
<1>10. CASE AddImu
  BY <1>10 DEF AddImu
<1>11. CASE AddTree
  BY <1>11 DEF AddTree
<1>12. CASE Route
  BY <1>12 DEF Route
<1>13. CASE Assign
  BY <1>13 DEF Assign
<1>14. CASE Throw
  BY <1>14 DEF Throw
<1>15. CASE UnwindImu
  BY <1>15 DEF UnwindImu
<1>16. CASE UnwindNodes
  BY <1>16 DEF UnwindNodes
<1>17. CASE UnwindClose
  BY <1>17 DEF UnwindClose, HandBack
<1>18. ASSUME NEW s \in Stream,
              \/ StartCalled(s) \/ SetRunning(s) \/ StartCamera(s) \/ StopCalled(s)
              \/ StopReturns(s) \/ DropViews(s) \/ SampleBegins(s) \/ SampleEnds(s)
              \/ AskBegins(s) \/ AskEnds(s)
       PROVE IInv'
  <2>1. CASE StartCalled(s) \/ SetRunning(s) \/ StartCamera(s)
    BY <2>1 DEF StartCalled, SetRunning, StartCamera, streamKeeps
  <2>2. CASE StopCalled(s) \/ StopReturns(s)
    BY <2>2 DEF StopCalled, StopReturns, streamKeeps
  <2>3. CASE DropViews(s)
    BY <2>3 DEF DropViews
  <2>4. CASE SampleBegins(s)
    BY <2>4 DEF SampleBegins
  <2>5. CASE SampleEnds(s)
    BY <2>5 DEF SampleEnds
  <2>6. CASE AskBegins(s)
    BY <2>6 DEF AskBegins
  <2>7. CASE AskEnds(s)
    BY <2>7 DEF AskEnds
  <2> QED BY <1>18, <2>1, <2>2, <2>3, <2>4, <2>5, <2>6, <2>7
<1>19. CASE UNCHANGED vars
  BY <1>19 DEF vars
<1> HIDE DEF IInv, TypeOK, Step, GuiOK, HandlesOK, LayersOK, ReleasedOK, BuiltOK,
   Complete, Live, Dismantling, Constructing, At, Goto, Finish, Idle, cameraVars, deviceVars, nodeVars, imuVars, treeVars
<1> QED
  BY <1>1, <1>2, <1>3, <1>4, <1>5, <1>6, <1>7, <1>8, <1>9, <1>10, <1>11, <1>12, <1>13,
     <1>14, <1>15, <1>16, <1>17, <1>18, <1>19, <1>20, <1>21
  DEF Next, GuiStep, DisconnectStep, ReconnectStep, OtherStep

LEMMA Invariance == Spec => []IInv
BY InitIInv, NextIInv, PTL DEF Spec

(* CameraDevice's variables have their types. *)
THEOREM TypeCorrect == Spec => []TypeOK
<1>1. IInv => TypeOK
  BY DEF IInv
<1> QED
  BY Invariance, <1>1, PTL

(* Whatever reconnects, fails, throws or goes: the parameters that the     *)
(* trees point at are freed after the trees, with nobody inside them.      *)
THEOREM DismantledInOrder == Spec => []NodesOutliveTheirTrees
<1>1. IInv => NodesOutliveTheirTrees
  BY DEF IInv, LayersOK, NodesOutliveTheirTrees
<1> QED
  BY Invariance, <1>1, PTL

(* A worker's camera is open, and open for it, until the worker is joined. *)
THEOREM WorkerJoinedFirst == Spec => []CameraOutlivesItsWorker
<1>1. IInv => CameraOutlivesItsWorker
  BY DEF IInv, TypeOK, LayersOK, HandlesOK, CameraOutlivesItsWorker
<1> QED
  BY Invariance, <1>1, PTL

(* No camera stays open without a device that has it or is being built     *)
(* around it: a reconnect never fails on a handle of this process that     *)
(* nobody can close any more.                                              *)
THEOREM NoHandleLeftBehind == Spec => []HandlesAreOwned
<1>1. IInv => HandlesAreOwned
  <2> SUFFICES ASSUME IInv, NEW c \in Camera, claim[c] # None
               PROVE  (\E d \in Device : dev[d] = claim[c]) \/ claim[c] \in Building
    BY DEF HandlesAreOwned
  <2>1. claim[c] \in Stream /\ inner[claim[c]] # None
    BY AddressAssumption DEF IInv, TypeOK, HandlesOK
  <2>2. Live(claim[c])
    BY <2>1 DEF IInv, HandlesOK
  <2>3. gui.at \in Constructing => gui.op = "reconnect"
    BY DEF IInv, GuiOK
  <2> QED
    BY <2>2, <2>3 DEF Live, Building
<1> QED
  BY Invariance, <1>1, PTL

(* A device that says it is connected has its nodes, its camera and what   *)
(* the camera publishes.                                                   *)
THEOREM ConnectedMeansUsable == Spec => []ConnectedIsUsable
<1>1. IInv => ConnectedIsUsable
  <2> SUFFICES ASSUME IInv, NEW d \in Device, At("idle"), dev[d] # None
               PROVE  /\ dev[d] \in nodes
                      /\ inner[dev[d]] # None /\ claim[inner[dev[d]]] = dev[d]
                      /\ inner[dev[d]] \in HasControls => dev[d] \in tree /\ dev[d] \in routed
                      /\ inner[dev[d]] \in HasImu => dev[d] \in sampling
    BY DEF ConnectedIsUsable
  <2>1. dev[d] \in Stream /\ inner[dev[d]] # None /\ claim[inner[dev[d]]] = dev[d]
    BY DEF IInv, TypeOK, HandlesOK, Live
  <2>2. Complete(dev[d])
    BY DEF IInv, BuiltOK, At, Dismantling
  <2> QED
    BY <2>1, <2>2 DEF IInv, LayersOK, Complete
<1> QED
  BY Invariance, <1>1, PTL
=============================================================================
