------------------------------- MODULE Discovery -------------------------------
(***************************************************************************)
(* How score knows which cameras there are: the life of the backend        *)
(* libraries (BackendRegistry.cpp), the list of cameras and its rescans    *)
(* (ApplicationPlugin.cpp), and the browser that shows them                *)
(* (DepthCameraEnumerator in DepthCameraDevice.cpp).                       *)
(*                                                                         *)
(* The GUI thread runs all of it except BackendRegistry::onChanged, which  *)
(* the watcher thread of an SDK calls when it notices a change.  Cameras   *)
(* come and go at any time, in the middle of a rescan too.                 *)
(*                                                                         *)
(* The SDKs and the browser are external: a watcher notices each change    *)
(* some time after it, shutdown() joins it, and the browser removes the    *)
(* row that has the name it is told.                                       *)
(***************************************************************************)
EXTENDS Naturals, Sequences, FiniteSets, SequencesExt

CONSTANTS
  Camera,
  Library,     \* sequence of the backends on the search path
  BackendOf,   \* the backend that lists a camera
  Model,       \* what a camera calls itself: displayName()
  Hotplug,     \* backends with set_changed_callback
  MaxChanges   \* bound: cameras plugged or unplugged

ASSUME DiscoveryAssumption ==
  /\ IsFiniteSet(Camera)
  /\ Library \in Seq(ToSet(Library)) /\ IsInjective(Library)
  /\ BackendOf \in [Camera -> ToSet(Library)]
  /\ DOMAIN Model = Camera
  /\ Hotplug \subseteq ToSet(Library)
  /\ MaxChanges \in Nat

VARIABLES
  plugged,      \* cameras that are connected
  noticed,      \* backends whose watcher has seen a change
  calling,      \* backends whose watcher is about to call m_changed
  backends,     \* BackendRegistry::m_backends
  initialized,  \* Backend::initialized
  registered,   \* backends that were given onChanged
  changed,      \* whether m_changed holds a function
  queued,       \* rescans posted to the GUI thread
  devices,      \* ApplicationPlugin::m_devices
  gui,          \* what the GUI thread is doing: [at, todo, current, after]
  open,         \* whether the browser shows the cameras
  names,        \* DepthCameraEnumerator::m_names
  rows,         \* what the browser shows, a bag of names per backend
  changes,      \* how many times a camera came or went
  touched       \* cameras that did since the browser asked for enumerators

sdkVars      == <<plugged, noticed, calling, changes>>
registryVars == <<backends, initialized, registered, changed>>
browserVars  == <<open, names, rows>>
vars == <<sdkVars, registryVars, queued, devices, gui, browserVars, touched>>

(* A display name and the number that follows it, 1 for none. *)
Name == {Model[c] : c \in Camera} \X (1..Cardinality(Camera))

Place == {"load", "callback", "scan", "idle", "show", "shutdown", "destroy", "gone"}

TypeOK ==
  /\ plugged \subseteq Camera /\ touched \subseteq Camera
  /\ noticed \subseteq Hotplug /\ calling \subseteq Hotplug
  /\ backends \in Seq(ToSet(Library))
  /\ initialized \subseteq ToSet(backends) /\ registered \subseteq ToSet(backends)
  /\ changed \in BOOLEAN /\ open \in BOOLEAN
  /\ queued \in Nat /\ changes \in 0..MaxChanges
  /\ devices \in Seq(Camera)
  /\ gui.at \in Place /\ gui.after \in Place
  /\ gui.todo \in Seq(ToSet(Library)) /\ gui.current \in Seq(Camera)
  /\ DOMAIN names \subseteq Camera /\ \A c \in DOMAIN names : names[c] \in Name
  /\ IsABag(rows)

Init ==
  /\ plugged \in SUBSET Camera
  /\ noticed = {} /\ calling = {}
  /\ backends = <<>> /\ initialized = {} /\ registered = {} /\ changed = FALSE
  /\ queued = 0
  /\ devices = <<>>
  /\ gui = [at |-> "load", todo |-> Library, current |-> <<>>, after |-> "idle"]
  /\ open = FALSE /\ names = <<>> /\ rows = EmptyBag
  /\ changes = 0 /\ touched = {}

At(place) == gui.at = place

(***************************************************************************)
(* Names.                                                                  *)
(***************************************************************************)

(* Slip: numbered from zero. *)
UniqueName_FromZero(list, c) ==
  LET i == CHOOSE k \in DOMAIN list : list[k] = c
  IN <<Model[c], Cardinality({k \in 1..(i - 1) : Model[list[k]] = Model[c]})>>

(* uniqueName(): the cameras of the same name that come before it count. *)
UniqueName(list, c) ==
  LET i == IF \E k \in DOMAIN list : list[k] = c
             THEN CHOOSE k \in DOMAIN list : list[k] = c
             ELSE Len(list) + 1
  IN <<Model[c], Cardinality({k \in 1..(i - 1) : Model[list[k]] = Model[c]}) + 1>>

(* A row is found by the name it shows, under the header of its backend. *)
Row(c, name) == <<BackendOf[c], name>>

(* Slip: the name is worked out again when the camera has gone. *)
Removed_Recomputed(shown, list, c) ==
  [names |-> [d \in DOMAIN shown.names \ {c} |-> shown.names[d]],
   rows  |-> shown.rows (-) SetToBag({Row(c, UniqueName(list, c))})]

(* deviceRemoved: by the name that was announced. *)
Removed(shown, list, c) ==
  IF c \notin DOMAIN shown.names THEN shown
  ELSE [names |-> [d \in DOMAIN shown.names \ {c} |-> shown.names[d]],
        rows  |-> shown.rows (-) SetToBag({Row(c, shown.names[c])})]

(* deviceAdded, and enumerate() for a camera that is known already. *)
Added(shown, list, c) ==
  LET name == UniqueName(list, c) IN
  [names |-> [d \in DOMAIN shown.names \cup {c} |->
                IF d = c THEN name ELSE shown.names[d]],
   rows  |-> shown.rows (+) SetToBag({Row(c, name)})]

(* The enumerators are told of a camera that is in one list only, when the *)
(* new list takes the place of the old one.                                *)
Told(shown, old, new, c) ==
  IF c \in ToSet(old) <=> c \in ToSet(new) THEN shown
  ELSE IF c \in ToSet(new) THEN Added(shown, new, c) ELSE Removed(shown, new, c)

(* Of those that went first, then of those that came.                      *)
Tell(shown, old, new) ==
  FoldLeft(LAMBDA s, c : Told(s, old, new, c), shown, old \o new)

Show(shown) == names' = shown.names /\ rows' = shown.rows

(***************************************************************************)
(* Loading and rescanning, on the GUI thread.                              *)
(***************************************************************************)

(* A library is loaded and initialised, and given a callback if it takes   *)
(* one; or it is left out.                                                 *)
LoadBackend ==
  /\ At("load") /\ gui.todo # <<>>
  /\ LET b == Head(gui.todo) IN
     \/ /\ backends' = Append(backends, b)
        /\ initialized' = initialized \cup {b}
        /\ registered' = registered \cup ({b} \cap Hotplug)
     \/ UNCHANGED <<backends, initialized, registered>>
  /\ gui' = [gui EXCEPT !.todo = Tail(@)]
  /\ UNCHANGED <<sdkVars, changed, queued, devices, browserVars, touched>>

Loaded ==
  /\ At("load") /\ gui.todo = <<>>
  /\ gui' = [gui EXCEPT !.at = "callback"]
  /\ UNCHANGED <<sdkVars, registryVars, queued, devices, browserVars, touched>>

(* rescan() begins: what follows it is after. *)
Scan(after) == gui' = [at |-> "scan", todo |-> backends, current |-> <<>>, after |-> after]

(* The constructor sets the callback, then scans. *)
SetCallback ==
  /\ At("callback")
  /\ changed' = TRUE
  /\ Scan("idle")
  /\ UNCHANGED <<sdkVars, backends, initialized, registered, queued, devices,
                 browserVars, touched>>

(* A rescan that a watcher has posted. *)
Rescan ==
  /\ At("idle") /\ queued > 0
  /\ queued' = queued - 1
  /\ Scan("idle")
  /\ UNCHANGED <<sdkVars, registryVars, devices, browserVars, touched>>

(* One backend lists its cameras, in whatever order it finds them. *)
EnumerateBackend ==
  /\ At("scan") /\ gui.todo # <<>>
  /\ LET b == Head(gui.todo)
         found == {c \in plugged : BackendOf[c] = b}
     IN \E list \in SetToSeqs(found) :
          gui' = [gui EXCEPT !.todo = Tail(@),
                             !.current = IF b \in initialized THEN @ \o list ELSE @]
  /\ UNCHANGED <<sdkVars, registryVars, queued, devices, browserVars, touched>>

(* The rest of rescan(): m_devices is replaced, and the cameras that went, *)
(* then those that came, are announced to the enumerators there are.       *)
Announce ==
  /\ At("scan") /\ gui.todo = <<>>
  /\ IF open THEN Show(Tell([names |-> names, rows |-> rows], devices, gui.current))
             ELSE UNCHANGED <<names, rows>>
  /\ devices' = gui.current
  /\ gui' = [gui EXCEPT !.at = gui.after, !.current = <<>>]
  /\ UNCHANGED <<sdkVars, registryVars, queued, open, touched>>

(***************************************************************************)
(* The browser.                                                            *)
(***************************************************************************)

(* Slip: it is enough that one backend reports its changes. *)
NeedsRescanOnDemand_Any == initialized \cap Hotplug = {}

(* Some loaded backend has no hot-plug. *)
NeedsRescanOnDemand == initialized \ Hotplug # {}

(* getEnumerators(). *)
GetEnumerators ==
  /\ At("idle") /\ ~open
  /\ touched' = {}
  /\ IF NeedsRescanOnDemand THEN Scan("show") ELSE gui' = [gui EXCEPT !.at = "show"]
  /\ UNCHANGED <<sdkVars, registryVars, queued, devices, browserVars>>

(* The new enumerators list what is known: enumerate(). *)
Enumerate ==
  /\ At("show")
  /\ open' = TRUE
  /\ Show(Tell([names |-> <<>>, rows |-> EmptyBag], <<>>, devices))
  /\ gui' = [gui EXCEPT !.at = "idle"]
  /\ UNCHANGED <<sdkVars, registryVars, queued, devices, touched>>

CloseBrowser ==
  /\ At("idle") /\ open
  /\ open' = FALSE /\ names' = <<>> /\ rows' = EmptyBag
  /\ UNCHANGED <<sdkVars, registryVars, queued, devices, gui, touched>>

(***************************************************************************)
(* Quitting.                                                               *)
(***************************************************************************)

Shutdown(after) ==
  gui' = [at |-> "shutdown", todo |-> backends, current |-> <<>>, after |-> after]

(* Slip: m_changed goes first, as in the destructor. *)
AboutToQuit_CallbackFirst ==
  /\ At("idle") /\ ~open
  /\ changed' = FALSE
  /\ Shutdown("destroy")
  /\ UNCHANGED <<sdkVars, backends, initialized, registered, queued, devices,
                 browserVars, touched>>

(* aboutToQuit: shutdown() comes before the destructor. *)
AboutToQuit ==
  /\ At("idle") /\ ~open
  /\ Shutdown("destroy")
  /\ UNCHANGED <<sdkVars, registryVars, queued, devices, browserVars, touched>>

(* The paths that never reach aboutToQuit. *)
TearDown ==
  /\ At("idle") /\ ~open
  /\ gui' = [gui EXCEPT !.at = "destroy"]
  /\ UNCHANGED <<sdkVars, registryVars, queued, devices, browserVars, touched>>

(* ~ApplicationPlugin clears the callback, then shuts down what still is   *)
(* there.                                                                  *)
Destroy ==
  /\ At("destroy")
  /\ changed' = FALSE
  /\ Shutdown("gone")
  /\ UNCHANGED <<sdkVars, backends, initialized, registered, queued, devices,
                 browserVars, touched>>

(* set_changed_callback(nullptr): no call begins after this one. *)
Unregister ==
  /\ At("shutdown") /\ gui.todo # <<>>
  /\ Head(gui.todo) \in registered
  /\ registered' = registered \ {Head(gui.todo)}
  /\ UNCHANGED <<sdkVars, backends, initialized, changed, queued, devices, gui,
                 browserVars, touched>>

(* Slip: the SDK is left to its static destructor. *)
ShutdownBackend_Detached ==
  /\ At("shutdown") /\ gui.todo # <<>>
  /\ Head(gui.todo) \notin registered
  /\ gui' = [gui EXCEPT !.todo = Tail(@)]
  /\ UNCHANGED <<sdkVars, registryVars, queued, devices, browserVars, touched>>

(* The SDK's context is destroyed, which joins its watcher. *)
ShutdownBackend ==
  /\ At("shutdown") /\ gui.todo # <<>>
  /\ Head(gui.todo) \notin registered
  /\ Head(gui.todo) \in initialized => Head(gui.todo) \notin calling
  /\ initialized' = initialized \ {Head(gui.todo)}
  /\ gui' = [gui EXCEPT !.todo = Tail(@)]
  /\ UNCHANGED <<sdkVars, backends, registered, changed, queued, devices,
                 browserVars, touched>>

(* Every backend is down.  With the plug-in go the rescans posted to it. *)
ShutDone ==
  /\ At("shutdown") /\ gui.todo = <<>>
  /\ changed' = FALSE
  /\ gui' = [gui EXCEPT !.at = gui.after]
  /\ queued' = IF gui.after = "gone" THEN 0 ELSE queued
  /\ UNCHANGED <<sdkVars, backends, initialized, registered, devices,
                 browserVars, touched>>

(***************************************************************************)
(* The cameras and the watchers.                                           *)
(***************************************************************************)

(* A camera is plugged in or unplugged. *)
Change(c) ==
  /\ changes < MaxChanges
  /\ changes' = changes + 1
  /\ plugged' = IF c \in plugged THEN plugged \ {c} ELSE plugged \cup {c}
  /\ noticed' = noticed \cup ({BackendOf[c]} \cap Hotplug \cap initialized)
  /\ touched' = touched \cup {c}
  /\ UNCHANGED <<calling, registryVars, queued, devices, gui, browserVars>>

(* onChanged(): m_changed is tested, ... *)
OnChanged(b) ==
  /\ b \in noticed
  /\ noticed' = noticed \ {b}
  /\ calling' = IF b \in registered /\ changed THEN calling \cup {b} ELSE calling
  /\ UNCHANGED <<plugged, changes, registryVars, queued, devices, gui,
                 browserVars, touched>>

(* Slip: one rescan in the queue is taken to be enough, scanning or not. *)
Changed_Coalesced(b) ==
  /\ b \in calling
  /\ calling' = calling \ {b}
  /\ queued' = IF At("scan") THEN queued ELSE queued + 1
  /\ UNCHANGED <<plugged, noticed, changes, registryVars, devices, gui,
                 browserVars, touched>>

(* Slip: the watcher waits for the rescan to have run. *)
Changed_Blocking(b) ==
  /\ b \in calling /\ At("idle")
  /\ calling' = calling \ {b}
  /\ queued' = IF changed THEN queued + 1 ELSE queued
  /\ UNCHANGED <<plugged, noticed, changes, registryVars, devices, gui,
                 browserVars, touched>>

(* ... then called: it posts a rescan.  An empty function throws. *)
Changed(b) ==
  /\ b \in calling
  /\ calling' = calling \ {b}
  /\ queued' = IF changed THEN queued + 1 ELSE queued
  /\ UNCHANGED <<plugged, noticed, changes, registryVars, devices, gui,
                 browserVars, touched>>

(***************************************************************************)
(* The specification.                                                      *)
(***************************************************************************)

GuiStep ==
  \/ LoadBackend \/ Loaded \/ SetCallback
  \/ EnumerateBackend \/ Announce \/ Enumerate
  \/ Destroy \/ Unregister \/ ShutdownBackend \/ ShutDone

UserStep == GetEnumerators \/ CloseBrowser \/ AboutToQuit \/ TearDown

SdkStep ==
  \/ \E c \in Camera : Change(c)
  \/ \E b \in Hotplug : OnChanged(b) \/ Changed(b)

Next == GuiStep \/ Rescan \/ UserStep \/ SdkStep

Spec == Init /\ [][Next]_vars

(* The GUI thread goes on with what it has begun, and its event loop, a    *)
(* queue, comes to every rescan posted to it; the watchers go on.          *)
Fairness ==
  /\ WF_vars(GuiStep) /\ SF_vars(Rescan)
  /\ \A b \in Hotplug : WF_vars(OnChanged(b)) /\ WF_vars(Changed(b))

FairSpec == Spec /\ Fairness

(***************************************************************************)
(* Properties.                                                             *)
(***************************************************************************)

(* "displayName() with a ' - 2', ' - 3' ... suffix where two connected     *)
(* cameras would otherwise be called the same thing": the cameras listed   *)
(* have different names.                                                   *)
NamesDistinct ==
  \A c, d \in DOMAIN names : c # d => names[c] # names[d]

Copies(row, bag) == IF BagIn(row, bag) THEN bag[row] ELSE 0

(* There is a row for each name that was announced, and no other.          *)
OneRowPerName(shown) ==
  \A row \in BagToSet(shown.rows) \cup {Row(c, shown.names[c]) : c \in DOMAIN shown.names} :
    Copies(row, shown.rows)
      = Cardinality({c \in DOMAIN shown.names : Row(c, shown.names[c]) = row})

(* An open browser shows the cameras the plug-in knows, each once, under   *)
(* the name it was announced by: whatever the numbering did meanwhile, no  *)
(* removal misses its row.                                                 *)
BrowserShowsDevices ==
  /\ open => DOMAIN names = ToSet(devices)
  /\ IsInjective(devices)
  /\ OneRowPerName([names |-> names, rows |-> rows])

(* A backend without hot-plug is asked again each time the browser is      *)
(* opened: it never opens on a list older than the request.                *)
BrowserOpensFresh ==
  At("show") => \A c \in Camera \ touched :
    BackendOf[c] \in initialized \ Hotplug => (c \in ToSet(devices) <=> c \in plugged)

(* A watcher that found m_changed set still finds it set when it calls it, *)
(* if the application quits through aboutToQuit.  In the other paths the   *)
(* destructor clears it before the watchers are stopped.                   *)
CallsWhatItTested ==
  calling # {} /\ gui.after # "gone" /\ ~At("destroy") => changed

(* The contexts "must be destroyed before the backend libraries' globals   *)
(* are": once the plug-in is gone no watcher is in its callback, and none  *)
(* will be.                                                                *)
GoneIsQuiet ==
  At("gone") => calling = {} /\ registered = {} /\ initialized = {}

Running == gui.at \in {"load", "callback", "scan", "idle", "show"}

Known(c) == c \in ToSet(devices)

(* However the changes, the notifications and the rescans interleave, the  *)
(* plug-in ends up with the cameras that are there, for the backends that  *)
(* report their changes.                                                   *)
ListConverges ==
  <>[]Running => <>[](\A c \in Camera :
    BackendOf[c] \in registered => (Known(c) <=> c \in plugged))

(* Quitting ends: no join waits for the thread that joins. *)
ShutdownReturns == At("shutdown") \/ At("destroy") ~> At("gone")
=============================================================================
