---------------------------- MODULE ControlValues -----------------------------
(***************************************************************************)
(* One setting of one camera, from the SDK's description of it to the node *)
(* and back: what the backend publishes of it (list_controls and the scans *)
(* behind it), the type, domain and value that DepthCameraControls.cpp     *)
(* gives the node, and the conversions that a value goes through when it   *)
(* is written, sent, read back and shown.  When that happens, and on which *)
(* thread, is ControlTree's subject; here the worker does one thing at a   *)
(* time.                                                                   *)
(*                                                                         *)
(* Numbers are counted in halves, so that an integer (an even number) and  *)
(* a floating-point one differ.  A switch is 0 or One.  External: an SDK   *)
(* may refuse, and takes no value that is not one of the setting's, but    *)
(* perhaps another one that is; a camera in manual keeps what it was       *)
(* given.  Numbers outside the domain are written too, whether ossia clips *)
(* them or not; a menu is written by its labels.                           *)
(***************************************************************************)
EXTENDS Integers, SequencesExt

CONSTANTS
  Label,  \* names that an SDK has for values
  None    \* no value

VARIABLES
  maker,    \* the backend
  option,   \* the setting as the SDK describes it
  descriptor,  \* what the backend published of it
  mode,     \* who moves it: "manual", or the camera itself: "auto"
  camera,   \* its value in the camera
  told,     \* the value that get_control answers
  node,     \* what the node shows
  last,     \* Entry::last
  pending,  \* the worker's request: to write (the number is last), to read
  fresh,    \* nothing moved since the node was told
  written   \* what was written to the node, until the camera may move it

vars ==
  <<maker, option, descriptor, mode, camera, told, node, last, pending, fresh, written>>

Maker == {"k4a", "freenect", "freenect2", "realsense", "orbbec", "depthai", "oak"}

One == 2
Whole(x) == x % One = 0
Trunc(x) == IF x >= 0 THEN x - (x % One) ELSE x + (x % One)  \* int(x)
Round(x) == IF x >= 0 THEN Trunc(x + 1) ELSE Trunc(x - 1)  \* std::lround
Clamp(x, lo, hi) == IF x < lo THEN lo ELSE IF x > hi THEN hi ELSE x
Switch(x) == IF x # 0 THEN One ELSE 0

-----------------------------------------------------------------------------
(* What an SDK tells of a setting                                           *)

\* Names of some of the values.  They differ, and that is all that matters.
NameOf == CHOOSE n \in [{0, One, 2 * One} -> Label] : IsInjective(n)
Names == {Restrict(NameOf, S) : S \in SUBSET DOMAIN NameOf}

\* "names": what the SDK calls values, or the values that it allows at all;
\* "ranged": whether the SDK tells the range; "auto": there is a switch beside.
Settings(types, steps, names) ==
  {o \in [type : types, lo : {-One, 0, One}, hi : {One, 2 * One}, step : steps,
          names : names, read : BOOLEAN, write : BOOLEAN, auto : BOOLEAN,
          ranged : BOOLEAN] :
     o.lo <= o.hi /\ \A v \in DOMAIN o.names : v \in o.lo..o.hi}

\* The values the camera can have.
Legal(o) ==
  CASE o.type = "bool" -> {0, One}
    [] o.type = "enum" -> DOMAIN o.names
    [] o.type = "float" /\ o.step < One -> o.lo..o.hi
    [] OTHER -> {v \in o.lo..o.hi : Whole(v)}

Fixed(o) == o.ranged /\ o.read

\* The fixed lists of the backends that have one, their ranges made small: the
\* colour controls and a temperature; a tilt, an LED, a status and a sensor; a
\* mode and its parameters; a switch, a number that leaves automatic behind, a
\* laser and a sensor.
SettingsOf(m) ==
  CASE m = "k4a" ->
         {o \in Settings({"int", "float"}, {0, One}, {<<>>}) :
            /\ Fixed(o) /\ (o.type = "int" <=> o.write)
            /\ o.type = "float" => ~o.auto /\ o.step = 0}
    [] m = "freenect" ->
         {o \in Settings({"int", "enum", "float"}, {0, One}, Names) :
            /\ o.ranged /\ ~o.auto /\ (o.type = "float" <=> o.step = 0)
            /\ o.type = "int" => o.read /\ o.write
            /\ o.type = "enum" => o.read # o.write
            /\ o.type = "float" => o.read /\ ~o.write}
    [] m = "freenect2" ->
         {o \in Settings({"enum", "float"}, {0, One}, Names) :
            Fixed(o) /\ o.write /\ ~o.auto /\ (o.type = "float" <=> o.step = 0)}
    [] m = "realsense" ->
         {o \in Settings({"float"}, {1, One}, Names) : Fixed(o) /\ ~o.auto}
    [] m = "orbbec" ->
         {o \in Settings({"bool", "int", "float", "struct"}, {0, One}, Names) :
            o.ranged /\ ~o.auto}
    [] m = "depthai" ->
         {o \in Settings({"bool", "int", "float"}, {0, One}, {<<>>}) :
            /\ Fixed(o) /\ (o.type = "float" <=> o.step = 0)
            /\ o.type # "float" => o.write
            /\ o.auto => o.type = "int"}
    [] m = "oak" ->
         {o \in Settings({"bool", "int", "uint", "float", "enum", "rate"}, {One}, Names) :
            /\ ~o.auto /\ (o.read \/ o.write)
            /\ o.type = "uint" => o.lo >= 0
            /\ o.type = "rate" => Fixed(o) /\ o.write /\ o.lo = One}

\* Settings whose values are named are given names for all of them, but where
\* an SDK or a table leaves some out; others have none.
Plausible(m, o) ==
  /\ o.type = "enum" /\ m # "oak" => DOMAIN o.names = {v \in o.lo..o.hi : Whole(v)}
  /\ o.type = "enum" /\ m = "oak" => {o.lo, o.hi} \subseteq DOMAIN o.names
  /\ o.type # "enum" =>
       \/ m = "realsense"
       \/ m = "orbbec" /\ o.type = "int"
       \/ o.names = <<>>

-----------------------------------------------------------------------------
(* What a backend publishes of it: a descriptor of the ABI, if any          *)

Unpublished == {}
Descriptor(kind, o, lo, hi, step, labels) ==
  {[kind |-> kind, read |-> o.read, write |-> o.write,
    lo |-> lo, hi |-> hi, step |-> step, labels |-> labels]}

\* A value that has no name is called by its number.
Called(o, v) == IF v \in DOMAIN o.names THEN o.names[v] ELSE v

\* One label for each value from lo to hi.
Labels(o, step) == [i \in 1..((o.hi - o.lo) \div step + 1) |-> Called(o, o.lo + (i - 1) * step)]

BoolControl(o) == Descriptor("BOOL", o, 0, One, One, <<>>)
Number(kind, o, step) == Descriptor(kind, o, o.lo, o.hi, step, <<>>)

\* A colour control with an empty range is none.
DescribeK4A(o) ==
  IF o.type = "float" THEN Number("FLOAT", o, o.step)
  ELSE IF o.hi <= o.lo THEN Unpublished
  ELSE Number("INT", o, IF o.step > 0 THEN o.step ELSE One)

DescribeFreenect(o) ==
  CASE o.type = "int"   -> Number("INT", o, o.step)
    [] o.type = "enum"  -> Descriptor("ENUM", o, o.lo, o.hi, o.step, Labels(o, o.step))
    [] o.type = "float" -> Number("FLOAT", o, o.step)

DescribeFreenect2(o) ==
  CASE o.type = "enum"  -> Descriptor("ENUM", o, o.lo, o.hi, o.step, Labels(o, o.step))
    [] o.type = "float" -> Number("FLOAT", o, o.step)

\* Every option is a float; the range tells a switch, a menu or a number.
DescribeRealSense(o) ==
  LET integral == o.step >= One /\ Whole(o.lo) /\ Whole(o.hi)
  IN  IF ~integral THEN Number("FLOAT", o, o.step)
      ELSE IF o.lo = 0 /\ o.hi = One THEN BoolControl(o)
      ELSE IF o.names = <<>> THEN Number("INT", o, o.step)
      ELSE Descriptor("ENUM", o, o.lo, o.hi, o.step, Labels(o, o.step))

\* A property that is no scalar, or denied, is left out; a bool that can only
\* be written is a trigger; an integer whose values have names is an enum, with
\* a label for each value, and those have a step of one.
DescribeOrbbec(o) ==
  IF o.type = "struct" \/ ~(o.read \/ o.write) THEN Unpublished
  ELSE CASE o.type = "bool" ->
              IF o.read THEN BoolControl(o) ELSE Descriptor("ACTION", o, 0, One, One, <<>>)
         [] o.type = "int" ->
              IF o.names = <<>> THEN Number("INT", o, One)
              ELSE Descriptor("ENUM", o, o.lo, o.hi, One, Labels(o, One))
         [] o.type = "float" -> Number("FLOAT", o, o.step)

DescribeDepthAI(o) ==
  CASE o.type = "bool"  -> BoolControl(o)
    [] o.type = "int"   -> Number("INT", o, o.step)
    [] o.type = "float" -> Number("FLOAT", o, o.step)

\* A type that has no range is published without one.
Ranged(kind, o) ==
  Descriptor(kind, o, IF o.ranged THEN o.lo ELSE 0, IF o.ranged THEN o.hi ELSE 0, One, <<>>)

\* Allowed values with a hole in them cannot be an enum of the ABI.
DescribeOak(o) ==
  CASE o.type = "bool" -> BoolControl(o)
    [] o.type = "enum" ->
         IF \A v \in o.lo..o.hi : Whole(v) => v \in DOMAIN o.names
         THEN Descriptor("ENUM", o, o.lo, o.hi, One, Labels(o, One))
         ELSE Number("INT", o, One)
    [] o.type \in {"int", "uint"} -> Ranged("INT", o)
    [] o.type \in {"float", "rate"} -> Ranged("FLOAT", o)

\* Where the types of the SDK are not recognised, what can be read is tried as
\* each in turn, and the range and the names are lost.
ProbeOak(o) ==
  CASE ~o.read -> Unpublished
    [] o.read /\ o.type = "bool" -> BoolControl(o)
    [] o.read /\ o.type = "float" -> Descriptor("FLOAT", o, 0, 0, 0, <<>>)
    [] o.read /\ o.type \in {"int", "uint", "enum"} -> Descriptor("INT", o, 0, 0, One, <<>>)
    [] o.read /\ o.type = "rate" -> Ranged("FLOAT", o)

Describe(m, o) ==
  CASE m = "k4a"       -> DescribeK4A(o)
    [] m = "freenect"  -> DescribeFreenect(o)
    [] m = "freenect2" -> DescribeFreenect2(o)
    [] m = "realsense" -> DescribeRealSense(o)
    [] m = "orbbec"    -> DescribeOrbbec(o)
    [] m = "depthai"   -> DescribeDepthAI(o)
    [] m = "oak"       -> DescribeOak(o) \cup ProbeOak(o)

-----------------------------------------------------------------------------
(* What the host makes of a descriptor                                      *)

Named(d) == d.kind = "ENUM" /\ d.labels # <<>>

StepOf(d) == IF d.step > 0 THEN d.step ELSE One

\* The label of a value, if there is one: they are counted from lo in steps.
EnumIndexOf(d, v) == Round(((v - d.lo) * One) \div StepOf(d)) \div One + 1
LabelAt(d, v) ==
  LET i == EnumIndexOf(d, v) IN IF i \in DOMAIN d.labels THEN {d.labels[i]} ELSE {}

\* What a node shows for a number of the camera's, if it is shown at all.
Shown(d, v) ==
  CASE d.kind = "BOOL"   -> {Switch(v)}
    [] d.kind = "FLOAT"  -> {v}
    [] d.kind = "INT"    -> {Trunc(v)}
    [] d.kind = "ENUM"   -> IF Named(d) THEN LabelAt(d, Trunc(v)) ELSE {}
    [] d.kind = "ACTION" -> {}

\* A new node shows the default; a label that is not there is an empty one.
FirstShown(d, def) ==
  CASE Named(d) /\ LabelAt(d, Trunc(def)) = {} -> {None}
    [] d.kind = "ACTION" -> {None}
    [] OTHER -> Shown(d, def)

\* What is written to a node of its type.
Written(d) ==
  CASE d.kind = "BOOL"   -> {0, One}
    [] d.kind = "FLOAT"  -> -One..(2 * One)
    [] d.kind = "INT"    -> {v \in -One..(2 * One) : Whole(v)}
    [] d.kind = "ENUM"   -> Range(d.labels)
    [] d.kind = "ACTION" -> {None}

\* A slip: the labels are counted from zero.
Raw_IndexOnly(d, v) ==
  CASE d.kind = "ACTION" -> One
    [] d.kind = "BOOL"   -> Switch(v)
    [] d.kind = "FLOAT"  -> v
    [] d.kind = "INT"    -> v
    [] d.kind = "ENUM"   -> (SelectInSeq(d.labels, LAMBDA l : l = v) - 1) * StepOf(d)

\* The number that a write queues.
Raw(d, v) ==
  CASE d.kind = "ACTION" -> One
    [] d.kind = "BOOL"   -> Switch(v)
    [] d.kind = "FLOAT"  -> v
    [] d.kind = "INT"    -> v
    [] d.kind = "ENUM"   -> d.lo + (SelectInSeq(d.labels, LAMBDA l : l = v) - 1) * StepOf(d)

-----------------------------------------------------------------------------
(* What set_control gives the SDK for a number, or None if it refuses       *)

SendK4A(o, x) == Trunc(x)
SendFreenect(o, x) == Trunc(Clamp(x, o.lo, o.hi))
SendFreenect2(o, x) ==
  IF o.type # "enum" THEN x ELSE IF Trunc(x) \in o.lo..o.hi THEN Trunc(x) ELSE None
SendRealSense(o, x) == x
SendOrbbec(o, x) ==
  CASE o.type = "bool"  -> Switch(x)
    [] o.type = "int"   -> Trunc(x)
    [] o.type = "float" -> x
SendDepthAI(o, x) ==
  CASE o.type = "bool"  -> Switch(x)
    [] o.type = "int"   -> Trunc(Clamp(x, o.lo, o.hi))
    [] o.type = "float" -> Clamp(x, o.lo, o.hi)
SendOak(o, x) ==
  CASE o.type = "bool"            -> Switch(x)
    [] o.type \in {"int", "enum"} -> Round(x)
    [] o.type = "uint"            -> IF x < 0 THEN None ELSE Round(x)
    [] o.type = "float"           -> x
    [] o.type = "rate"            -> IF x < One THEN None ELSE Round(x)

Send(o, x) ==
  CASE maker = "k4a"       -> SendK4A(o, x)
    [] maker = "freenect"  -> SendFreenect(o, x)
    [] maker = "freenect2" -> SendFreenect2(o, x)
    [] maker = "realsense" -> SendRealSense(o, x)
    [] maker = "orbbec"    -> SendOrbbec(o, x)
    [] maker = "depthai"   -> SendDepthAI(o, x)
    [] maker = "oak"       -> SendOak(o, x)

-----------------------------------------------------------------------------
(* Steps *)

Init ==
  /\ maker \in Maker
  /\ \E o \in {x \in SettingsOf(maker) : Plausible(maker, x)} :
       \E d \in Describe(maker, o), def \in Legal(o) \cup {0} :
         /\ option = o /\ descriptor = d
         /\ node \in FirstShown(d, def)
         /\ pending = IF d.read THEN "read" ELSE "none"
  /\ mode \in (IF option.auto THEN {"manual", "auto"} ELSE {"manual"})
  /\ camera \in Legal(option) /\ told = camera
  /\ last = None /\ fresh = FALSE /\ written = None

\* Somebody writes to the node.
Write ==
  /\ descriptor.write
  /\ \E v \in Written(descriptor) :
       /\ node' = v
       /\ last' = Raw(descriptor, v) /\ pending' = "write"
       /\ written' = v
  /\ fresh' = FALSE
  /\ UNCHANGED <<maker, option, descriptor, mode, camera, told>>

\* Somebody asks for a fresher value.
Read ==
  /\ descriptor.read /\ pending = "none"
  /\ pending' = "read"
  /\ UNCHANGED <<maker, option, descriptor, mode, camera, told, node, last, fresh, written>>

\* External: what the camera becomes when it is given a number.
Settled(x) == IF x = None THEN {camera}
              ELSE IF x \in Legal(option) THEN {x}
              ELSE {camera} \cup Legal(option)

\* The node is told what the backend answers, unless it shows it already.
Publish(answer) ==
  /\ fresh' = TRUE
  /\ last' = answer
  /\ IF last = answer \/ Shown(descriptor, answer) = {} THEN node' = node
     ELSE node' \in Shown(descriptor, answer)

\* What get_control answers after x was sent and the camera holds c.  A Kinect
\* v1 answers what it last heard of its motor; two SDKs tell nothing, and their
\* backends answer what was written.
Answered(x, c) ==
  CASE maker = "freenect" -> told
    [] maker \in {"freenect2", "depthai"} -> IF x = None THEN told ELSE x
    [] OTHER -> c

\* The worker sends the number and reads back.  A value that is set leaves
\* automatic behind.  A DepthAI message that the camera ignored was written all
\* the same.
SendWrite ==
  LET x == Send(option, last) IN
  /\ pending = "write" /\ pending' = "none"
  /\ \/ /\ camera' \in Settled(x) /\ told' = Answered(x, camera')
        /\ mode' = "manual" /\ UNCHANGED written
     \/ /\ maker \notin {"freenect", "freenect2"}  \* the SDK refuses
        /\ told' \in {told} \cup (IF maker = "depthai" THEN {x} ELSE {})
        /\ written' = None /\ UNCHANGED <<camera, mode>>
  /\ IF descriptor.read THEN Publish(told') ELSE UNCHANGED <<fresh, node, last>>
  /\ UNCHANGED <<maker, option, descriptor>>

Answer ==
  /\ pending = "read"
  /\ pending' = "none"
  /\ Publish(told)
  /\ UNCHANGED <<maker, option, descriptor, mode, camera, told, written>>

\* The switch beside the setting.  Back in manual, an Azure Kinect is given the
\* value that it holds, and DepthAI the one that was written last.
SetAuto ==
  /\ option.auto /\ pending = "none"
  /\ \/ mode = "manual" /\ mode' = "auto" /\ written' = None /\ camera' = camera
     \/ /\ mode = "auto" /\ mode' = "manual"
        /\ camera' = IF maker = "k4a" THEN camera ELSE told
        /\ UNCHANGED written
  /\ UNCHANGED <<maker, option, descriptor, told, node, last, pending, fresh>>

\* External: the camera moves a setting that it looks after, or a sensor.
\* DepthAI remembers what was written; a Kinect v1 hears of it later.
Remembers == maker = "freenect" \/ (maker = "depthai" /\ option.write)
Drift ==
  /\ mode = "auto" \/ ~option.write
  /\ camera' \in Legal(option) \ {camera}
  /\ told' = IF Remembers THEN told ELSE camera'
  /\ fresh' = (fresh /\ Remembers)
  /\ UNCHANGED <<maker, option, descriptor, mode, node, last, pending, written>>

\* The Kinect v1's thread reads the motor's state.
ReadTilt ==
  /\ maker = "freenect" /\ told # camera
  /\ told' = camera /\ fresh' = FALSE
  /\ UNCHANGED <<maker, option, descriptor, mode, camera, node, last, pending, written>>

Next == Write \/ Read \/ SendWrite \/ Answer \/ SetAuto \/ Drift \/ ReadTilt

Spec == Init /\ [][Next]_vars

-----------------------------------------------------------------------------
(* Properties *)

Numbers == -One..(2 * One)

TypeOK ==
  /\ maker \in Maker /\ mode \in {"manual", "auto"}
  /\ camera \in Legal(option) /\ told \in Numbers
  /\ node \in Numbers \cup Label \cup {None}
  /\ last \in Numbers \cup {None} /\ pending \in {"none", "read", "write"}
  /\ fresh \in BOOLEAN /\ written \in Numbers \cup Label \cup {None}

\* Once it was told, the node shows what the camera answered: its number, or
\* the SDK's name of it.
NodeShowsAnswer ==
  fresh /\ descriptor.kind # "ACTION" =>
    node = IF descriptor.kind = "ENUM" THEN Called(option, told) ELSE told

\* The values of the setting that somebody means who writes w.
Meant(w) == {v \in Legal(option) : w = v \/ w = Called(option, v)}

\* What is written to a node, if it is one of the setting's values, is what the
\* camera comes to hold, through the label's index and the backend's clamps, and
\* it keeps it until it is let free.
WrittenArrives ==
  written # None /\ pending = "none" /\ Meant(written) # {} => camera \in Meant(written)

\* Writing back what a node shows, as a preset does, asks the camera for what
\* it had answered.
PresetRestores ==
  fresh /\ descriptor.read /\ descriptor.write =>
    Send(option, Raw(descriptor, node)) = told

ValuesSurvive == NodeShowsAnswer /\ WrittenArrives /\ PresetRestores
=============================================================================
