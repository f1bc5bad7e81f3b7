--------------------------- MODULE CameraAddresses ----------------------------
(***************************************************************************)
(* How a camera that was listed, or that a document names, is found again: *)
(* backend_enumerate, parse_uri and the first half of backend_open of the  *)
(* seven backends.  Each announces a camera under an address of its own    *)
(* and resolves an address against what is plugged in at that time; some   *)
(* then open by position, which may by now be another camera's.            *)
(*                                                                         *)
(* libk4a opens a camera once, and reads a serial from an open camera      *)
(* only: its backend keeps the serials of those it holds in a table, by    *)
(* position.                                                               *)
(*                                                                         *)
(* External: the SDKs number cameras in the order of the bus, and refuse   *)
(* to open one that is open.  An identity is modelled by the camera it     *)
(* belongs to.                                                             *)
(***************************************************************************)
EXTENDS Naturals, FiniteSets, SequencesExt

CONSTANTS
  Camera,  \* what can be plugged in
  None,    \* no text in an address
  MaxLeft  \* bound on the entries that failed opens leave in the table

VARIABLES
  maker,    \* the backend this behaviour is about
  label,    \* what each camera tells of itself
  bus,      \* the cameras that are plugged in, in the order of the SDK
  open,     \* the open cameras, with the identity that each was chosen by and
            \* whether the bus moved between that choice and the opening
  table,    \* g_open_serials of the Azure Kinect: [index, serial]
  opening,  \* the call of backend_open in progress
  drifted   \* an open failed after it told the table, or an open camera is
            \* no longer where the table says

vars == <<maker, label, bus, open, table, opening, drifted>>

Maker == {"k4a", "freenect", "freenect2", "realsense", "orbbec", "depthai", "oak"}

\* "anonymous": no serial; of depthai, no id but a name.
Labels(m) == {"serial", "anonymous"} \cup (IF m = "orbbec" THEN {"network"} ELSE {})

Index == 0..(Cardinality(Camera) - 1)
At(list, i) == list[i + 1]
Places(list) == {i \in Index : i < Len(list)}
Plugged == Range(bus)
Held == {h.camera : h \in open}

-----------------------------------------------------------------------------
(* Addresses *)

\* A form with its text; "bare" is a text alone.
Address ==
  [form : {"sn", "id", "uid", "net", "name", "bare"}, text : Camera \cup {None}]
    \cup [form : {"index"}, text : Index \cup {None}]

AnyCamera == [kind |-> "any", text |-> None]

\* What is common to parse_uri everywhere: no text, or an index that is no
\* number, is any camera; a form the backend does not know is a bare text.
Parsed(forms, bare, a) ==
  IF a.text = None
  THEN AnyCamera
  ELSE [kind |-> IF a.form \in forms THEN a.form ELSE bare, text |-> a.text]

ParseK4A(a)       == Parsed({"sn", "index"}, "sn", a)
ParseFreenect(a)  == Parsed({"sn", "index"}, "sn", a)
ParseFreenect2(a) == Parsed({"sn", "index"}, "sn", a)
ParseRealSense(a) == Parsed({"sn", "index"}, "sn", a)
ParseOrbbec(a)    == Parsed({"sn", "uid", "net"}, "sn", a)
ParseDepthAI(a)   == Parsed({"id", "name", "index"}, "id", a)
ParseOak(a)       == Parsed({"id", "sn", "index"}, "sn", a)

Parse(a) ==
  CASE maker = "k4a"       -> ParseK4A(a)
    [] maker = "freenect"  -> ParseFreenect(a)
    [] maker = "freenect2" -> ParseFreenect2(a)
    [] maker = "realsense" -> ParseRealSense(a)
    [] maker = "orbbec"    -> ParseOrbbec(a)
    [] maker = "depthai"   -> ParseDepthAI(a)
    [] maker = "oak"       -> ParseOak(a)

-----------------------------------------------------------------------------
(* What enumeration announces: an address for each position it can list *)

Entry(i, form, text) == {[at |-> i, address |-> [form |-> form, text |-> text]]}

BySerialOrIndex(list, i) ==
  IF label[At(list, i)] = "serial"
  THEN Entry(i, "sn", At(list, i))
  ELSE Entry(i, "index", i)

\* The first entry of the table for a position.
Remembered(i) == SelectInSeq(table, LAMBDA e : e.index = i)

\* A camera this process has open is read from the table, since it cannot be
\* opened to be asked; one that cannot be opened is left out.
AnnounceK4A(i) ==
  IF Remembered(i) # 0
  THEN LET serial == table[Remembered(i)].serial
       IN  IF serial = None THEN Entry(i, "index", i) ELSE Entry(i, "sn", serial)
  ELSE IF At(bus, i) \in Held THEN {} ELSE BySerialOrIndex(bus, i)

\* A camera that is in use drops out of the listing of libfreenect.
Kept(list, c, cameras) == IF c \in cameras THEN list ELSE Append(list, c)
Without(list, cameras) == FoldLeft(LAMBDA l, c : Kept(l, c, cameras), <<>>, list)
Unclaimed == Without(bus, Held)
AnnounceFreenect(i) == IF i \in Places(Unclaimed) THEN BySerialOrIndex(Unclaimed, i) ELSE {}

AnnounceFreenect2(i) == BySerialOrIndex(bus, i)

\* Without a serial, each is announced as the first.
AnnounceRealSense(i) ==
  IF label[At(bus, i)] = "serial" THEN Entry(i, "sn", At(bus, i)) ELSE Entry(i, "index", 0)

AnnounceOrbbec(i) ==
  Entry(i, CASE label[At(bus, i)] = "network"   -> "net"
             [] label[At(bus, i)] = "serial"    -> "sn"
             [] label[At(bus, i)] = "anonymous" -> "uid",
        At(bus, i))

\* The id, or else the name in its place.
AnnounceDepthAI(i) == Entry(i, "id", At(bus, i))

AnnounceOak(i) == Entry(i, "id", At(bus, i))

Announce(i) ==
  CASE maker = "k4a"       -> AnnounceK4A(i)
    [] maker = "freenect"  -> AnnounceFreenect(i)
    [] maker = "freenect2" -> AnnounceFreenect2(i)
    [] maker = "realsense" -> AnnounceRealSense(i)
    [] maker = "orbbec"    -> AnnounceOrbbec(i)
    [] maker = "depthai"   -> AnnounceDepthAI(i)
    [] maker = "oak"       -> AnnounceOak(i)

\* The positions in an announcement are those of this list.
Listed == IF maker = "freenect" THEN Unclaimed ELSE bus
Listing == UNION {Announce(i) : i \in Places(bus)}

-----------------------------------------------------------------------------
(* What an address resolves to: a position, a camera that the SDK will find *)
(* by its identity, any camera, or nothing                                  *)

ByPlace(i)  == {[by |-> "place", is |-> i, sure |-> TRUE]}
ByGuess(i)  == {[by |-> "place", is |-> i, sure |-> FALSE]}
ByCamera(c) == {[by |-> "camera", is |-> c, sure |-> TRUE]}
ByChance    == {[by |-> "chance", is |-> None, sure |-> FALSE]}

Find(list, Test(_)) == {i \in Places(list) : Test(At(list, i))}
WithSerial(list, t) == Find(list, LAMBDA c : c = t /\ label[c] = "serial")
WithIdentity(list, t) == Find(list, LAMBDA c : c = t)

\* A position within the list, the first one for any camera.
PlaceOf(addr, list) ==
  {i \in Places(list) : i = IF addr.kind = "any" THEN 0 ELSE addr.text}

\* It looks at each camera by opening it, so it does not see one that is open.
ChooseK4A(addr) ==
  UNION {ByPlace(i) :
           i \in IF addr.kind = "sn"
                 THEN {j \in WithSerial(bus, addr.text) : At(bus, j) \notin Held}
                 ELSE PlaceOf(addr, bus)}

\* One camera that cannot say who it is, alone, is taken for the one asked
\* for.  An index is passed on without a look.
ChooseFreenect(addr) ==
  LET found == WithSerial(Unclaimed, addr.text)
      lone  == {i \in Places(Unclaimed) :
                  Len(Unclaimed) = 1 /\ label[At(Unclaimed, i)] # "serial"}
  IN  CASE addr.kind = "any"   -> ByPlace(0)
        [] addr.kind = "index" -> ByPlace(addr.text)
        [] addr.kind = "sn"    -> IF found # {}
                                  THEN UNION {ByPlace(i) : i \in found}
                                  ELSE UNION {ByGuess(i) : i \in lone}

\* It passes on a serial, and those that have none have the same.
SameSerial(c) ==
  {d \in Plugged : d = c \/ (label[c] = "anonymous" /\ label[d] = "anonymous")}
ChooseFreenect2(addr) ==
  UNION {UNION {ByCamera(c) : c \in SameSerial(At(bus, i))} :
           i \in IF addr.kind = "sn" THEN WithSerial(bus, addr.text) ELSE PlaceOf(addr, bus)}

\* Without a serial to pass on, the pipeline takes what it finds.
ChooseRealSense(addr) ==
  UNION {IF label[At(bus, i)] = "serial" THEN ByCamera(At(bus, i)) ELSE ByChance :
           i \in IF addr.kind = "sn" THEN WithSerial(bus, addr.text) ELSE PlaceOf(addr, bus)}

\* An address of the network is not looked for in the list.
ChooseOrbbec(addr) ==
  IF addr.kind = "net"
  THEN ByCamera(addr.text)
  ELSE UNION {ByCamera(At(bus, i)) :
                i \in CASE addr.kind = "any" -> PlaceOf(addr, bus)
                        [] addr.kind = "sn"  -> WithSerial(bus, addr.text)
                        [] addr.kind = "uid" -> WithIdentity(bus, addr.text)}

\* What is not listed may still be reached under its id or its name.
ChooseDepthAI(addr) ==
  IF addr.kind \in {"id", "name"}
  THEN ByCamera(addr.text)
  ELSE UNION {ByCamera(At(bus, i)) : i \in PlaceOf(addr, bus)}

ChooseOak(addr) ==
  UNION {ByCamera(At(bus, i)) :
           i \in CASE addr.kind = "id" -> WithIdentity(bus, addr.text)
                   [] addr.kind = "sn" -> WithSerial(bus, addr.text)
                   [] addr.kind \in {"any", "index"} -> PlaceOf(addr, bus)}

Choose(addr) ==
  CASE maker = "k4a"       -> ChooseK4A(addr)
    [] maker = "freenect"  -> ChooseFreenect(addr)
    [] maker = "freenect2" -> ChooseFreenect2(addr)
    [] maker = "realsense" -> ChooseRealSense(addr)
    [] maker = "orbbec"    -> ChooseOrbbec(addr)
    [] maker = "depthai"   -> ChooseDepthAI(addr)
    [] maker = "oak"       -> ChooseOak(addr)

-----------------------------------------------------------------------------
(* Steps *)

Idle == [named |-> None, choice |-> None, moved |-> FALSE]

\* The identity an address asks for, if it does and the choice is made by it.
Named(addr, choice) ==
  IF addr.kind \in {"any", "index"} \/ ~choice.sure THEN None ELSE addr.text

Init ==
  /\ maker \in Maker
  /\ label \in [Camera -> Labels(maker)]
  /\ bus \in {s \in SeqOf(Camera, Cardinality(Camera)) : IsInjective(s)}
  /\ open = {} /\ table = <<>> /\ opening = Idle /\ drifted = FALSE

\* An open camera is not where it was opened.
Displaced(list) ==
  \E h \in open : ~(h.index \in Places(list) /\ At(list, h.index) = h.camera)

\* External: a camera is plugged in, at any place of the SDK's list, or out,
\* open or not.  The positions after it are others then; a position that was
\* chosen goes on meaning what is there.
Rearrange(list) ==
  /\ bus' = list
  /\ opening' = [opening EXCEPT !.moved = @ \/ (opening.named # None /\ opening.choice.by = "place")]
  /\ drifted' = (drifted \/ (maker = "k4a" /\ Displaced(list)))
  /\ UNCHANGED <<maker, label, open, table>>

Plug ==
  \E c \in Camera \ Plugged : \E i \in 1..(Len(bus) + 1) : Rearrange(InsertAt(bus, i, c))

Unplug == \E i \in 1..Len(bus) : Rearrange(RemoveAt(bus, i))

\* External: a Kinect v1 of the later models has the serial of its audio
\* device in one listing and none in the next.
Relabel ==
  /\ maker = "freenect"
  /\ \E c \in Camera :
       label' = [label EXCEPT ![c] = IF @ = "serial" THEN "anonymous" ELSE "serial"]
  /\ UNCHANGED <<maker, bus, open, table, opening, drifted>>

\* backend_open: the address becomes a choice.
Resolve(a) ==
  /\ opening = Idle
  /\ \E choice \in Choose(Parse(a)) :
       opening' = [named |-> Named(Parse(a), choice), choice |-> choice, moved |-> FALSE]
  /\ UNCHANGED <<maker, label, bus, open, table, drifted>>

\* What the SDK opens for the choice.
Opened(choice) ==
  {c \in Plugged \ Held :
     CASE choice.by = "place"  -> choice.is \in Places(Listed) /\ At(Listed, choice.is) = c
       [] choice.by = "camera" -> c = choice.is
       [] choice.by = "chance" -> TRUE}

Serial(c) == IF label[c] = "serial" THEN c ELSE None

\* remember_open
Remember(c) ==
  table' = IF maker = "k4a"
           THEN Append(table, [index |-> opening.choice.is, serial |-> Serial(c)])
           ELSE table

\* The camera is opened.
Take ==
  /\ opening # Idle
  /\ \E c \in Opened(opening.choice) :
       /\ open' = open \cup {[camera |-> c, named |-> opening.named, moved |-> opening.moved,
                              index |-> IF maker = "k4a" THEN opening.choice.is ELSE 0]}
       /\ Remember(c)
  /\ opening' = Idle
  /\ UNCHANGED <<maker, label, bus, drifted>>

\* It is not, or backend_open fails later, after the table was told: nothing
\* takes that entry out again but the close of a camera with the same position.
\* Bound: MaxLeft.
Fail ==
  /\ opening # Idle
  /\ opening' = Idle
  /\ \/ UNCHANGED <<table, drifted>>
     \/ /\ maker = "k4a" /\ Len(table) < Cardinality(open) + MaxLeft /\ drifted' = TRUE
        /\ \E c \in Opened(opening.choice) : Remember(c)
  /\ UNCHANGED <<maker, label, bus, open>>

\* A slip: the table keeps what is closed.
Close_Remembers ==
  \E h \in open :
    /\ opening = Idle
    /\ open' = open \ {h}
    /\ UNCHANGED <<maker, label, bus, table, opening, drifted>>

\* backend_close, and forget_open: the first entry with that position.
Close ==
  \E h \in open :
    /\ opening = Idle
    /\ open' = open \ {h}
    /\ table' = RemoveFirstMatch(table, LAMBDA e : e.index = h.index)
    /\ UNCHANGED <<maker, label, bus, opening, drifted>>

Next ==
  \/ Plug \/ Unplug \/ Relabel
  \/ \E a \in Address : Resolve(a)
  \/ Take \/ Fail \/ Close

Spec == Init /\ [][Next]_vars

-----------------------------------------------------------------------------
(* Properties *)

TypeOK ==
  /\ maker \in Maker /\ label \in [Camera -> Labels(maker)]
  /\ Plugged \subseteq Camera /\ IsInjective(bus)
  /\ Cardinality(Held) = Cardinality(open)
  /\ \A e \in Range(table) : e.index \in Index /\ e.serial \in Camera \cup {None}
  /\ opening.named \in Camera \cup {None} /\ opening.moved \in BOOLEAN
  /\ drifted \in BOOLEAN

\* "No silent fallback: streaming from a different camera than the document
\* names is worse than failing to connect": a camera asked for by an identity is
\* that one or none.  The Azure Kinect and the Kinect v1 do not keep this: they
\* look for the identity, and then open by the position at which they found it.
\* One case that is no violation here is what the code intends: a Kinect v1 that
\* does not know its serial, alone, is taken for the one asked for.
OpensTheNamedCamera == \A h \in open : h.named # None => h.camera = h.named

\* What does hold: five backends open the camera that was named or none, while
\* cameras come and go during backend_open; and so do the two others, unless
\* the bus moved between the choice and the opening.
OpensWhatItFound ==
  \A h \in open :
    h.named # None => h.camera = h.named \/ (h.moved /\ maker \in {"k4a", "freenect"})

\* What is announced for a camera leads to that camera and to no other, if
\* nobody has it open; only those Kinects v2 and RealSenses that have no serial
\* are not told apart.
AnnouncedIsFound ==
  ~drifted =>
    \A e \in Listing :
      \/ At(Listed, e.at) \in Held
      \/ maker \in {"freenect2", "realsense"} /\ label[At(Listed, e.at)] = "anonymous"
      \/ {Opened(choice) : choice \in Choose(Parse(e.address))} = {{At(Listed, e.at)}}

\* Every Azure Kinect is listed as what it is, those that are open as well,
\* after any number of opens, closes and changes of the bus; as long as those
\* that are open stay at their positions and no open failed after it told the
\* table, for which the code has no remedy.
ListingIsTrue ==
  maker = "k4a" /\ ~drifted =>
    Listing = UNION {BySerialOrIndex(bus, i) : i \in Places(bus)}

CamerasAreFound == OpensWhatItFound /\ AnnouncedIsFound /\ ListingIsTrue
=============================================================================
