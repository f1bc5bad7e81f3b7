---------------------------- MODULE DiscoveryProofs ----------------------------
(***************************************************************************)
(* What Discovery promises, for any cameras, any backends and any number   *)
(* of changes: that quitting leaves no watcher behind, that a watcher      *)
(* calls what it tested, that the browser opens on a fresh list, and that  *)
(* it shows what is listed, whatever it was told in between.               *)
(***************************************************************************)
EXTENDS Discovery, FiniteSetTheorems, WellFoundedInduction, TLAPS

(***************************************************************************)
(* The sequences.                                                          *)
(***************************************************************************)

Libraries == ToSet(Library)

(* The lists hold backends and cameras.  gui.current is a list of cameras  *)
(* because each backend gives one.                                         *)
ListsOK ==
  /\ backends \in Seq(Libraries)
  /\ devices \in Seq(Camera)
  /\ plugged \subseteq Camera
  /\ gui \in [at : Place, todo : Seq(Libraries), current : Seq(Camera), after : Place]

(* The head and the tail of a list that is not empty hold what it held.    *)
LEMMA HeadAndTail ==
  ASSUME NEW S, NEW s \in Seq(S), s # <<>>
  PROVE  /\ Head(s) \in S /\ Tail(s) \in Seq(S)
         /\ ToSet(s) = {Head(s)} \cup ToSet(Tail(s))
<1>1. Len(s) \in Nat /\ Len(s) > 0
  OBVIOUS
<1>2. Head(s) = s[1] /\ Head(s) \in S /\ Tail(s) \in Seq(S)
  OBVIOUS
<1>3. Len(Tail(s)) = Len(s) - 1 /\ DOMAIN Tail(s) = 1..(Len(s) - 1)
  OBVIOUS
<1>4. \A i \in 1..(Len(s) - 1) : Tail(s)[i] = s[i + 1]
  OBVIOUS
<1>5. ToSet(Tail(s)) = {Tail(s)[i] : i \in 1..(Len(s) - 1)}
  BY <1>1, <1>2, <1>3 DEF ToSet
<1>6. ToSet(s) = {s[i] : i \in 1..Len(s)}
  BY <1>1 DEF ToSet
<1>7. \A i \in 1..Len(s) : i = 1 \/ (i - 1 \in 1..(Len(s) - 1) /\ s[i] = Tail(s)[i - 1])
  BY <1>1, <1>4
<1>8. \A i \in 1..(Len(s) - 1) : i + 1 \in 1..Len(s)
  BY <1>1
<1>9. ToSet(s) \subseteq {Head(s)} \cup ToSet(Tail(s))
  BY <1>2, <1>5, <1>6, <1>7
<1>10. {Head(s)} \cup ToSet(Tail(s)) \subseteq ToSet(s)
  BY <1>1, <1>2, <1>4, <1>5, <1>6, <1>8
<1> QED
  BY <1>2, <1>9, <1>10

LEMMA EmptyHoldsNothing == ToSet(<<>>) = {}
  BY DEF ToSet

(* A list with one more at its end holds that one too.                     *)
LEMMA AppendHolds ==
  ASSUME NEW S, NEW s \in Seq(S), NEW e \in S
  PROVE  /\ Append(s, e) \in Seq(S)
         /\ ToSet(Append(s, e)) = ToSet(s) \cup {e}
<1>1. Len(s) \in Nat /\ DOMAIN Append(s, e) = 1..(Len(s) + 1) /\ DOMAIN s = 1..Len(s)
  OBVIOUS
<1>2. \A i \in 1..(Len(s) + 1) : Append(s, e)[i] = IF i = Len(s) + 1 THEN e ELSE s[i]
  OBVIOUS
<1>3. /\ ToSet(s) = {s[i] : i \in 1..Len(s)}
      /\ ToSet(Append(s, e)) = {Append(s, e)[i] : i \in 1..(Len(s) + 1)}
  BY <1>1 DEF ToSet
<1>4. ToSet(Append(s, e)) \subseteq ToSet(s) \cup {e}
  BY <1>1, <1>2, <1>3
<1>5. ToSet(s) \subseteq ToSet(Append(s, e))
  <2> SUFFICES ASSUME NEW i \in 1..Len(s) PROVE s[i] \in ToSet(Append(s, e))
    BY <1>3
  <2>1. i \in 1..(Len(s) + 1) /\ Append(s, e)[i] = s[i]
    BY <1>1, <1>2
  <2> QED
    BY <2>1, <1>3
<1>6. e \in ToSet(Append(s, e))
  <2>1. Len(s) + 1 \in 1..(Len(s) + 1) /\ Append(s, e)[Len(s) + 1] = e
    BY <1>1, <1>2
  <2> QED
    BY <2>1, <1>3
<1>7. Append(s, e) \in Seq(S)
  OBVIOUS
<1> QED
  BY <1>4, <1>5, <1>6, <1>7

(* Lists one after the other hold what each of them held.                  *)
LEMMA ConcatHolds ==
  ASSUME NEW S, NEW s \in Seq(S), NEW t \in Seq(S)
  PROVE  /\ s \o t \in Seq(S)
         /\ ToSet(s \o t) = ToSet(s) \cup ToSet(t)
<1>1. s \o t \in Seq(S) /\ Len(s \o t) = Len(s) + Len(t) /\ Len(s) \in Nat /\ Len(t) \in Nat
  OBVIOUS
<1>2. \A i \in 1..(Len(s) + Len(t)) :
        (s \o t)[i] = IF i <= Len(s) THEN s[i] ELSE t[i - Len(s)]
  OBVIOUS
<1>3. /\ ToSet(s) = {s[i] : i \in 1..Len(s)}
      /\ ToSet(t) = {t[i] : i \in 1..Len(t)}
      /\ ToSet(s \o t) = {(s \o t)[i] : i \in 1..(Len(s) + Len(t))}
  BY <1>1 DEF ToSet
<1>4. ToSet(s \o t) \subseteq ToSet(s) \cup ToSet(t)
  <2> SUFFICES ASSUME NEW i \in 1..(Len(s) + Len(t))
               PROVE  (s \o t)[i] \in ToSet(s) \cup ToSet(t)
    BY <1>3
  <2>1. CASE i <= Len(s)
    BY <2>1, <1>1, <1>2, <1>3
  <2>2. CASE i > Len(s)
    <3>1. i - Len(s) \in 1..Len(t) /\ (s \o t)[i] = t[i - Len(s)]
      BY <2>2, <1>1, <1>2
    <3> QED
      BY <3>1, <1>3
  <2> QED
    BY <2>1, <2>2, <1>1
<1>5. ToSet(s) \subseteq ToSet(s \o t)
  <2> SUFFICES ASSUME NEW i \in 1..Len(s) PROVE s[i] \in ToSet(s \o t)
    BY <1>3
  <2>1. i \in 1..(Len(s) + Len(t)) /\ (s \o t)[i] = s[i]
    BY <1>1, <1>2
  <2> QED
    BY <2>1, <1>3
<1>6. ToSet(t) \subseteq ToSet(s \o t)
  <2> SUFFICES ASSUME NEW i \in 1..Len(t) PROVE t[i] \in ToSet(s \o t)
    BY <1>3
  <2>1. Len(s) + i \in 1..(Len(s) + Len(t)) /\ (s \o t)[Len(s) + i] = t[i]
    BY <1>1, <1>2
  <2> QED
    BY <2>1, <1>3
<1> QED
  BY <1>1, <1>4, <1>5, <1>6

(* A list of the cameras found is one, and leaves none of them out: as     *)
(* many different entries as there are cameras.                            *)
LEMMA ListingIsComplete ==
  ASSUME NEW S, IsFiniteSet(S), NEW list \in SetToSeqs(S)
  PROVE  list \in Seq(S) /\ ToSet(list) = S
<1> DEFINE n == Cardinality(S)
<1>1. n \in Nat
  BY FS_CardinalityType
<1>2. list \in [1..n -> S] /\ \A i, j \in 1..n : i # j => list[i] # list[j]
  BY DEF SetToSeqs
<1>3. IsFiniteSet(1..n) /\ Cardinality(1..n) = n
  BY <1>1, FS_Interval
<1>4. list \in Injection(1..n, S)
  BY <1>2 DEF Injection, IsInjective
<1>5. list \in Surjection(1..n, S)
  BY <1>3, <1>4, FS_Injection
<1>6. \A c \in S : \E i \in 1..n : list[i] = c
  BY <1>5 DEF Surjection
<1>7. ToSet(list) = {list[i] : i \in 1..n}
  BY <1>2 DEF ToSet
<1>8. list \in Seq(S)
  BY <1>1, <1>2
<1> QED
  BY <1>2, <1>6, <1>7, <1>8

(* What the plug-in lists are cameras, and what it asks for them are its   *)
(* backends.                                                               *)
LEMMA ListsInductive ==
  /\ Init => ListsOK
  /\ ListsOK /\ [Next]_vars => ListsOK'
<1> USE DEF ListsOK, Place, At, Libraries
<1>1. Init => ListsOK
  <2>1. <<>> \in Seq(Libraries) /\ <<>> \in Seq(Camera) /\ Library \in Seq(Libraries)
    BY DiscoveryAssumption
  <2> QED
    BY <2>1 DEF Init
<1>2. ASSUME ListsOK, [Next]_vars PROVE ListsOK'
  <2> USE <1>2
  <2>0. <<>> \in Seq(Camera)
    OBVIOUS
  <2>1. CASE LoadBackend
    <3>1. Head(gui.todo) \in Libraries /\ Tail(gui.todo) \in Seq(Libraries)
      BY <2>1, HeadAndTail DEF LoadBackend
    <3>2. backends' \in Seq(Libraries)
      <4>1. backends' = backends \/ backends' = Append(backends, Head(gui.todo))
        BY <2>1 DEF LoadBackend
      <4>2. backends \in Seq(Libraries)
        OBVIOUS
      <4>3. Append(backends, Head(gui.todo)) \in Seq(Libraries)
        BY <3>1, <4>2, AppendHolds
      <4> QED
        BY <4>1, <4>2, <4>3
    <3>3. gui' = [gui EXCEPT !.todo = Tail(gui.todo)]
      BY <2>1 DEF LoadBackend
    <3> QED
      BY <2>1, <3>1, <3>2, <3>3 DEF LoadBackend, sdkVars
  <2>2. CASE Loaded
    BY <2>2 DEF Loaded, sdkVars, registryVars
  <2>3. CASE SetCallback
    BY <2>3, <2>0 DEF SetCallback, Scan, sdkVars
  <2>4. CASE EnumerateBackend
    <3>1. Tail(gui.todo) \in Seq(Libraries)
      BY <2>4, HeadAndTail DEF EnumerateBackend
    <3> DEFINE found == {c \in plugged : BackendOf[c] = Head(gui.todo)}
    <3>2. IsFiniteSet(found) /\ found \subseteq Camera
      BY DiscoveryAssumption, FS_Subset
    <3>3. PICK list \in SetToSeqs(found) :
            gui' = [gui EXCEPT !.todo = Tail(gui.todo),
                               !.current = IF Head(gui.todo) \in initialized
                                             THEN gui.current \o list ELSE gui.current]
      BY <2>4 DEF EnumerateBackend
    <3>4. list \in Seq(Camera)
      <4>1. list \in Seq(found)
        BY <3>2, ListingIsComplete
      <4> QED
        BY <4>1, <3>2
    <3>5. gui.current \o list \in Seq(Camera)
      BY <3>4
    <3> QED
      BY <2>4, <3>1, <3>3, <3>5 DEF EnumerateBackend, sdkVars, registryVars
  <2>5. CASE Announce
    <3>1. devices' = gui.current /\ gui' = [gui EXCEPT !.at = gui.after, !.current = <<>>]
      BY <2>5 DEF Announce
    <3>2. UNCHANGED <<plugged, backends>>
      BY <2>5 DEF Announce, sdkVars, registryVars
    <3> QED
      BY <2>0, <3>1, <3>2
  <2>6. CASE Enumerate
    <3>1. gui' = [gui EXCEPT !.at = "idle"] /\ UNCHANGED <<plugged, backends, devices>>
      BY <2>6 DEF Enumerate, sdkVars, registryVars
    <3> QED
      BY <3>1
  <2>7. CASE Destroy
    BY <2>7, <2>0 DEF Destroy, Shutdown, sdkVars
  <2>8. CASE Unregister
    BY <2>8 DEF Unregister, sdkVars
  <2>9. CASE ShutdownBackend
    BY <2>9, HeadAndTail DEF ShutdownBackend, sdkVars
  <2>10. CASE ShutDone
    BY <2>10 DEF ShutDone, sdkVars
  <2>11. CASE Rescan
    BY <2>11, <2>0 DEF Rescan, Scan, sdkVars, registryVars
  <2>12. CASE GetEnumerators
    <3>1. UNCHANGED <<plugged, backends, devices>>
      BY <2>12 DEF GetEnumerators, sdkVars, registryVars
    <3>2. gui' = [gui EXCEPT !.at = "show"]
            \/ gui' = [at |-> "scan", todo |-> backends, current |-> <<>>, after |-> "show"]
      BY <2>12 DEF GetEnumerators, Scan
    <3>3. gui' \in [at : Place, todo : Seq(Libraries), current : Seq(Camera), after : Place]
      <4>1. CASE gui' = [gui EXCEPT !.at = "show"]
        BY <4>1
      <4>2. CASE gui' = [at |-> "scan", todo |-> backends, current |-> <<>>, after |-> "show"]
        BY <4>2, <2>0
      <4> QED
        BY <3>2, <4>1, <4>2
    <3> QED
      BY <3>1, <3>3
  <2>13. CASE CloseBrowser
    BY <2>13 DEF CloseBrowser, sdkVars, registryVars
  <2>14. CASE AboutToQuit
    BY <2>14, <2>0 DEF AboutToQuit, Shutdown, sdkVars, registryVars
  <2>15. CASE TearDown
    BY <2>15 DEF TearDown, sdkVars, registryVars
  <2>16. CASE \E c \in Camera : Change(c)
    BY <2>16 DEF Change, registryVars
  <2>17. CASE \E b \in Hotplug : OnChanged(b) \/ Changed(b)
    BY <2>17 DEF OnChanged, Changed, registryVars
  <2>18. CASE UNCHANGED vars
    BY <2>18 DEF vars, sdkVars, registryVars
  <2> QED
    BY <2>1, <2>2, <2>3, <2>4, <2>5, <2>6, <2>7, <2>8, <2>9, <2>10, <2>11, <2>12, <2>13,
       <2>14, <2>15, <2>16, <2>17, <2>18 DEF Next, GuiStep, UserStep, SdkStep
<1> QED
  BY <1>1, <1>2

(***************************************************************************)
(* Quitting.                                                               *)
(***************************************************************************)

(* What can follow what the GUI thread is doing.                           *)
PlaceInv ==
  /\ gui.at \in {"load", "callback"} => gui.after = "idle"
  /\ gui.at \in {"scan", "idle", "show"} => gui.after \in {"idle", "show"}
  /\ At("shutdown") => gui.after \in {"destroy", "gone"}
  /\ At("destroy") => gui.after # "gone"
  /\ At("gone") => gui.after = "gone"

(* A watcher calls only into a backend that is up: it is given onChanged   *)
(* no sooner, and shutdown() joins it.  While the plug-in shuts down, what *)
(* is up is still to be shut down.                                         *)
WatcherInv ==
  /\ calling \subseteq initialized
  /\ registered \subseteq initialized
  /\ initialized \subseteq ToSet(backends)
  /\ At("shutdown") => initialized \subseteq ToSet(gui.todo)
  /\ At("gone") => initialized = {}
  /\ calling # {} /\ gui.after # "gone" /\ ~At("destroy") => changed

QuitInv == ListsOK /\ PlaceInv /\ WatcherInv

LEMMA PlaceInductive ==
  /\ Init => PlaceInv
  /\ PlaceInv /\ ListsOK /\ [Next]_vars => PlaceInv'
<1> USE DEF PlaceInv, ListsOK, At
<1>1. Init => PlaceInv
  BY DEF Init
<1>2. ASSUME PlaceInv, ListsOK, [Next]_vars PROVE PlaceInv'
  <2> USE <1>2
  <2>1. CASE LoadBackend \/ Loaded \/ SetCallback
    BY <2>1 DEF LoadBackend, Loaded, SetCallback, Scan
  <2>2. CASE EnumerateBackend
    BY <2>2 DEF EnumerateBackend
  <2>3. CASE Announce
    <3>1. gui' = [gui EXCEPT !.at = gui.after, !.current = <<>>] /\ At("scan")
      BY <2>3 DEF Announce
    <3> QED
      BY <3>1
  <2>4. CASE Enumerate
    <3>1. gui' = [gui EXCEPT !.at = "idle"] /\ At("show")
      BY <2>4 DEF Enumerate
    <3> QED
      BY <3>1
  <2>5. CASE Destroy \/ Unregister \/ ShutdownBackend \/ ShutDone
    BY <2>5 DEF Destroy, Unregister, ShutdownBackend, ShutDone, Shutdown
  <2>6. CASE Rescan \/ GetEnumerators \/ CloseBrowser
    BY <2>6 DEF Rescan, GetEnumerators, CloseBrowser, Scan
  <2>7. CASE AboutToQuit \/ TearDown
    BY <2>7 DEF AboutToQuit, TearDown, Shutdown
  <2>8. CASE SdkStep
    BY <2>8 DEF SdkStep, Change, OnChanged, Changed
  <2>9. CASE UNCHANGED vars
    BY <2>9 DEF vars
  <2> QED
    BY <2>1, <2>2, <2>3, <2>4, <2>5, <2>6, <2>7, <2>8, <2>9 DEF Next, GuiStep, UserStep
<1> QED
  BY <1>1, <1>2

(* Each backend is taken off the list of those to shut down in the step    *)
(* that takes it down.                                                     *)
LEMMA WatcherInductive ==
  /\ Init => WatcherInv
  /\ WatcherInv /\ PlaceInv /\ ListsOK /\ [Next]_vars => WatcherInv'
<1> USE DEF WatcherInv, PlaceInv, ListsOK, At
<1>1. Init => WatcherInv
  BY DEF Init
<1>2. ASSUME WatcherInv, PlaceInv, ListsOK, [Next]_vars PROVE WatcherInv'
  <2> USE <1>2
  <2>1. CASE LoadBackend
    <3> DEFINE b == Head(gui.todo)
    <3>1. b \in Libraries
      BY <2>1, HeadAndTail DEF LoadBackend
    <3>2. gui' = [gui EXCEPT !.todo = Tail(gui.todo)] /\ UNCHANGED <<calling, changed>>
      BY <2>1 DEF LoadBackend, sdkVars
    <3>3. CASE UNCHANGED <<backends, initialized, registered>>
      BY <2>1, <3>2, <3>3 DEF LoadBackend
    <3>4. CASE /\ backends' = Append(backends, b)
               /\ initialized' = initialized \cup {b}
               /\ registered' = registered \cup ({b} \cap Hotplug)
      <4>1. ToSet(backends') = ToSet(backends) \cup {b}
        BY <3>1, <3>4, AppendHolds
      <4> QED
        BY <2>1, <3>2, <3>4, <4>1 DEF LoadBackend
    <3> QED
      BY <2>1, <3>3, <3>4 DEF LoadBackend
  <2>2. CASE Loaded \/ SetCallback
    BY <2>2 DEF Loaded, SetCallback, Scan, sdkVars, registryVars
  <2>3. CASE EnumerateBackend
    BY <2>3 DEF EnumerateBackend, sdkVars, registryVars
  <2>4. CASE Announce
    <3>1. gui' = [gui EXCEPT !.at = gui.after, !.current = <<>>] /\ At("scan")
      BY <2>4 DEF Announce
    <3>2. UNCHANGED <<calling, backends, initialized, registered, changed>>
      BY <2>4 DEF Announce, sdkVars, registryVars
    <3> QED
      BY <3>1, <3>2
  <2>5. CASE Enumerate
    <3>1. gui' = [gui EXCEPT !.at = "idle"] /\ At("show")
      BY <2>5 DEF Enumerate
    <3>2. UNCHANGED <<calling, backends, initialized, registered, changed>>
      BY <2>5 DEF Enumerate, sdkVars, registryVars
    <3> QED
      BY <3>1, <3>2
  <2>6. CASE Destroy
    BY <2>6 DEF Destroy, Shutdown, sdkVars
  <2>7. CASE Unregister
    BY <2>7 DEF Unregister, sdkVars
  <2>8. CASE ShutdownBackend
    <3> DEFINE b == Head(gui.todo)
    <3>1. ToSet(gui.todo) = {b} \cup ToSet(Tail(gui.todo))
      BY <2>8, HeadAndTail DEF ShutdownBackend
    <3>2. /\ initialized' = initialized \ {b} /\ b \notin registered
          /\ b \in initialized => b \notin calling
          /\ gui' = [gui EXCEPT !.todo = Tail(gui.todo)] /\ At("shutdown")
          /\ UNCHANGED <<calling, registered, backends, changed>>
      BY <2>8 DEF ShutdownBackend, sdkVars
    <3> QED
      BY <3>1, <3>2
  <2>9. CASE ShutDone
    <3>1. ToSet(gui.todo) = {}
      BY <2>9, EmptyHoldsNothing DEF ShutDone
    <3>2. initialized = {} /\ calling = {}
      BY <2>9, <3>1 DEF ShutDone
    <3> QED
      BY <2>9, <3>2 DEF ShutDone, sdkVars
  <2>10. CASE Rescan \/ GetEnumerators \/ CloseBrowser
    BY <2>10 DEF Rescan, GetEnumerators, CloseBrowser, Scan, sdkVars, registryVars
  <2>11. CASE AboutToQuit \/ TearDown
    BY <2>11 DEF AboutToQuit, TearDown, Shutdown, sdkVars, registryVars
  <2>12. CASE \E c \in Camera : Change(c)
    BY <2>12 DEF Change, registryVars
  <2>13. CASE \E b \in Hotplug : OnChanged(b)
    BY <2>13 DEF OnChanged, registryVars
  <2>14. CASE \E b \in Hotplug : Changed(b)
    BY <2>14 DEF Changed, registryVars
  <2>15. CASE UNCHANGED vars
    BY <2>15 DEF vars, sdkVars, registryVars
  <2> QED
    BY <2>1, <2>2, <2>3, <2>4, <2>5, <2>6, <2>7, <2>8, <2>9, <2>10, <2>11, <2>12, <2>13,
       <2>14, <2>15 DEF Next, GuiStep, UserStep, SdkStep
<1> QED
  BY <1>1, <1>2

LEMMA QuitInvariant == Spec => []QuitInv
<1>1. Init => QuitInv
  BY ListsInductive, PlaceInductive, WatcherInductive DEF QuitInv
<1>2. QuitInv /\ [Next]_vars => QuitInv'
  BY ListsInductive, PlaceInductive, WatcherInductive DEF QuitInv
<1> QED
  BY <1>1, <1>2, PTL DEF Spec

(* Once the plug-in is gone no backend is up, none has onChanged and no    *)
(* watcher is in its callback, by whichever path the application quit: the *)
(* destructor shuts down what BackendRegistry::shutdown left, in each.     *)
THEOREM NothingLeftBehind == Spec => []GoneIsQuiet
<1>1. QuitInv => GoneIsQuiet
  BY DEF QuitInv, WatcherInv, GoneIsQuiet
<1> QED
  BY <1>1, QuitInvariant, PTL

(* A watcher between testing m_changed and calling it finds it still set,  *)
(* until the destructor runs: shutdown() clears it only once the watchers  *)
(* are joined.                                                             *)
THEOREM TestedIsCalled == Spec => []CallsWhatItTested
<1>1. QuitInv => CallsWhatItTested
  BY DEF QuitInv, WatcherInv, CallsWhatItTested
<1> QED
  BY <1>1, QuitInvariant, PTL

(***************************************************************************)
(* Opening the browser.                                                    *)
(***************************************************************************)

(* A camera that has not changed since the request, of a backend that has  *)
(* answered, is in the list if and only if it is plugged in.  One that is  *)
(* listed already is plugged in, whatever is still to be asked.            *)
AnsweredInv ==
  At("scan") /\ gui.after = "show" =>
    \A c \in Camera \ touched :
      /\ c \in ToSet(gui.current) => c \in plugged
      /\ c \in plugged /\ BackendOf[c] \in initialized /\ BackendOf[c] \notin ToSet(gui.todo)
           => c \in ToSet(gui.current)

FreshInv == AnsweredInv /\ BrowserOpensFresh

LEMMA FreshInductive ==
  /\ Init => FreshInv
  /\ FreshInv /\ QuitInv /\ [Next]_vars => FreshInv'
<1> USE DEF FreshInv, AnsweredInv, BrowserOpensFresh, At
<1>1. Init => FreshInv
  BY DEF Init
<1>2. ASSUME FreshInv, QuitInv, [Next]_vars PROVE FreshInv'
  <2> USE <1>2
  <2>0. ListsOK /\ PlaceInv /\ WatcherInv
    BY DEF QuitInv
  <2>1. CASE LoadBackend \/ Loaded
    BY <2>1, <2>0 DEF LoadBackend, Loaded, ListsOK
  <2>2. CASE SetCallback \/ Rescan
    BY <2>2, <2>0 DEF SetCallback, Rescan, Scan
  <2>3. CASE EnumerateBackend
    <3> DEFINE b == Head(gui.todo)
               found == {c \in plugged : BackendOf[c] = b}
    <3>1. ToSet(gui.todo) = {b} \cup ToSet(Tail(gui.todo))
      BY <2>3, <2>0, HeadAndTail DEF EnumerateBackend, ListsOK
    <3>2. IsFiniteSet(found) /\ found \subseteq Camera
      BY <2>0, DiscoveryAssumption, FS_Subset DEF ListsOK
    <3>3. PICK list \in SetToSeqs(found) :
            gui' = [gui EXCEPT !.todo = Tail(gui.todo),
                               !.current = IF b \in initialized THEN gui.current \o list
                                                                ELSE gui.current]
      BY <2>3 DEF EnumerateBackend
    <3>4. list \in Seq(found) /\ ToSet(list) = found
      BY <3>2, ListingIsComplete
    <3>5. list \in Seq(Camera)
      BY <3>2, <3>4
    <3>6. ToSet(gui.current \o list) = ToSet(gui.current) \cup found
      BY <2>0, <3>4, <3>5, ConcatHolds DEF ListsOK
    <3>7. UNCHANGED <<plugged, initialized, devices, touched>> /\ At("scan")
      BY <2>3 DEF EnumerateBackend, sdkVars, registryVars
    <3>8. /\ gui'.at = "scan" /\ gui'.after = gui.after /\ gui'.todo = Tail(gui.todo)
          /\ gui'.current = IF b \in initialized THEN gui.current \o list ELSE gui.current
      BY <2>0, <3>3, <3>7 DEF ListsOK
    <3> HIDE DEF b
    <3>9. ToSet(gui'.current) = IF b \in initialized THEN ToSet(gui.current) \cup found
                                                     ELSE ToSet(gui.current)
      BY <3>6, <3>8
    <3> QED
      BY <3>1, <3>7, <3>8, <3>9
  <2>4. CASE Announce
    <3>1. ToSet(gui.todo) = {} /\ At("scan")
      BY <2>4, EmptyHoldsNothing DEF Announce
    <3>2. devices' = gui.current /\ gui' = [gui EXCEPT !.at = gui.after, !.current = <<>>]
      BY <2>4 DEF Announce
    <3>3. UNCHANGED <<plugged, initialized, touched>>
      BY <2>4 DEF Announce, sdkVars, registryVars
    <3>4. gui'.at = gui.after /\ gui.after \in {"idle", "show"}
      BY <2>0, <3>1, <3>2 DEF ListsOK, PlaceInv, At
    <3> QED
      BY <3>1, <3>2, <3>3, <3>4
  <2>5. CASE Enumerate
    <3>1. gui'.at = "idle"
      BY <2>5, <2>0 DEF Enumerate, ListsOK
    <3> QED
      BY <3>1
  <2>6. CASE Destroy \/ AboutToQuit
    BY <2>6 DEF Destroy, AboutToQuit, Shutdown
  <2>7. CASE Unregister \/ ShutdownBackend
    BY <2>7, <2>0 DEF Unregister, ShutdownBackend, ListsOK
  <2>8. CASE ShutDone
    BY <2>8, <2>0 DEF ShutDone, ListsOK, PlaceInv
  <2>9. CASE GetEnumerators
    <3>1. UNCHANGED <<plugged, initialized, devices>> /\ backends' = backends
      BY <2>9 DEF GetEnumerators, sdkVars, registryVars
    <3>2. CASE NeedsRescanOnDemand
      <4>1. gui' = [at |-> "scan", todo |-> backends, current |-> <<>>, after |-> "show"]
        BY <2>9, <3>2 DEF GetEnumerators, Scan
      <4>2. ToSet(gui'.current) = {} /\ ToSet(gui'.todo) = ToSet(backends)
        BY <4>1, EmptyHoldsNothing
      <4> QED
        BY <2>0, <3>1, <4>1, <4>2 DEF WatcherInv
    <3>3. CASE ~NeedsRescanOnDemand
      <4>1. gui'.at = "show"
        BY <2>9, <2>0, <3>3 DEF GetEnumerators, ListsOK
      <4>2. initialized \ Hotplug = {}
        BY <3>3 DEF NeedsRescanOnDemand
      <4> QED
        BY <3>1, <4>1, <4>2
    <3> QED
      BY <3>2, <3>3
  <2>10. CASE CloseBrowser
    BY <2>10 DEF CloseBrowser, sdkVars, registryVars
  <2>11. CASE TearDown
    BY <2>11, <2>0 DEF TearDown, ListsOK
  <2>12. ASSUME NEW d \in Camera, Change(d) PROVE FreshInv'
    <3>1. touched' = touched \cup {d} /\ \A c : c # d => (c \in plugged' <=> c \in plugged)
      BY <2>12 DEF Change
    <3>2. UNCHANGED <<initialized, devices, gui>>
      BY <2>12 DEF Change, registryVars
    <3> QED
      BY <3>1, <3>2
  <2>13. CASE \E b \in Hotplug : OnChanged(b) \/ Changed(b)
    BY <2>13 DEF OnChanged, Changed, registryVars
  <2>14. CASE UNCHANGED vars
    BY <2>14 DEF vars, sdkVars, registryVars
  <2> QED
    BY <2>1, <2>2, <2>3, <2>4, <2>5, <2>6, <2>7, <2>8, <2>9, <2>10, <2>11, <2>12, <2>13,
       <2>14 DEF Next, GuiStep, UserStep, SdkStep
<1> QED
  BY <1>1, <1>2

(* Whatever comes and goes while the backends are asked, the browser opens *)
(* with every camera of a backend without hot-plug that has been plugged   *)
(* in since it asked, and none that has not.                               *)
THEOREM OpensOnFreshList == Spec => []BrowserOpensFresh
<1>1. Init => QuitInv /\ FreshInv
  BY FreshInductive, ListsInductive, PlaceInductive, WatcherInductive DEF QuitInv
<1>2. QuitInv /\ FreshInv /\ [Next]_vars => (QuitInv /\ FreshInv)'
  BY FreshInductive, ListsInductive, PlaceInductive, WatcherInductive DEF QuitInv
<1>3. FreshInv => BrowserOpensFresh
  BY DEF FreshInv
<1> QED
  BY <1>1, <1>2, <1>3, PTL DEF Spec

(***************************************************************************)
(* The rows.                                                               *)
(***************************************************************************)

(* The cameras that are shown by a row.                                    *)
ShownBy(row, shown) == {c \in DOMAIN shown.names : Row(c, shown.names[c]) = row}

(* What the browser shows, with a row for each name.                       *)
RowsInv(shown) ==
  /\ IsFiniteSet(DOMAIN shown.names)
  /\ IsABag(shown.rows)
  /\ OneRowPerName(shown)

(* A row that is neither there nor wanted is there as often as wanted.     *)
LEMMA EveryRowCounted ==
  ASSUME NEW shown, IsABag(shown.rows), IsFiniteSet(DOMAIN shown.names)
  PROVE  OneRowPerName(shown)
           <=> \A row : Copies(row, shown.rows) = Cardinality(ShownBy(row, shown))
<1> DEFINE wanted == {Row(c, shown.names[c]) : c \in DOMAIN shown.names}
<1>1. OneRowPerName(shown)
        <=> \A row \in BagToSet(shown.rows) \cup wanted :
              Copies(row, shown.rows) = Cardinality(ShownBy(row, shown))
  BY DEF OneRowPerName, ShownBy
<1>2. ASSUME NEW row, row \notin BagToSet(shown.rows) \cup wanted
      PROVE  Copies(row, shown.rows) = Cardinality(ShownBy(row, shown))
  <2>1. Copies(row, shown.rows) = 0
    BY <1>2 DEF Copies, BagIn
  <2>2. ShownBy(row, shown) = {}
    BY <1>2 DEF ShownBy
  <2> QED
    BY <2>1, <2>2, FS_EmptySet
<1> QED
  BY <1>1, <1>2

(* One copy more, and one less.                                            *)
LEMMA CopiesAdded ==
  ASSUME NEW bag, IsABag(bag), NEW e
  PROVE  /\ IsABag(bag (+) SetToBag({e}))
         /\ \A row : Copies(row, bag (+) SetToBag({e}))
                      = IF row = e THEN Copies(row, bag) + 1 ELSE Copies(row, bag)
<1> DEFINE more == bag (+) SetToBag({e})
<1>1. \A row \in DOMAIN bag : bag[row] \in Nat /\ bag[row] > 0
  BY DEF IsABag
<1>2. more = [row \in DOMAIN bag \cup {e} |->
                (IF row \in DOMAIN bag THEN bag[row] ELSE 0) + (IF row \in {e} THEN 1 ELSE 0)]
  BY DEF (+), SetToBag
<1> HIDE DEF more
<1>3. DOMAIN more = DOMAIN bag \cup {e}
  BY <1>2
<1>4. \A row \in DOMAIN bag \cup {e} :
        more[row] = (IF row \in DOMAIN bag THEN bag[row] ELSE 0) + (IF row \in {e} THEN 1 ELSE 0)
  BY <1>2
<1>5. \A row \in DOMAIN more : more[row] \in Nat /\ more[row] > 0
  BY <1>1, <1>3, <1>4
<1>6. IsABag(more)
  BY <1>2, <1>3, <1>5 DEF IsABag
<1>7. ASSUME NEW row
      PROVE  Copies(row, more) = IF row = e THEN Copies(row, bag) + 1 ELSE Copies(row, bag)
  BY <1>1, <1>3, <1>4 DEF Copies, BagIn, BagToSet
<1> QED
  BY <1>6, <1>7 DEF more

LEMMA CopiesRemoved ==
  ASSUME NEW bag, IsABag(bag), NEW e, BagIn(e, bag)
  PROVE  /\ IsABag(bag (-) SetToBag({e}))
         /\ \A row : Copies(row, bag (-) SetToBag({e}))
                      = IF row = e THEN Copies(row, bag) - 1 ELSE Copies(row, bag)
<1> DEFINE less == bag (-) SetToBag({e})
           left == [row \in DOMAIN bag |-> IF row \in {e} THEN bag[row] - 1 ELSE bag[row]]
<1>1. e \in DOMAIN bag /\ \A row \in DOMAIN bag : bag[row] \in Nat /\ bag[row] > 0
  BY DEF IsABag, BagIn, BagToSet
<1>2. less = [row \in {r \in DOMAIN left : left[r] > 0} |-> left[row]]
  BY DEF (-), SetToBag
<1>3. DOMAIN left = DOMAIN bag
      /\ \A row \in DOMAIN bag : left[row] = IF row = e THEN bag[row] - 1 ELSE bag[row]
  OBVIOUS
<1> HIDE DEF less, left
<1>4. DOMAIN less = {r \in DOMAIN bag : left[r] > 0} /\ \A row \in DOMAIN less : less[row] = left[row]
  BY <1>2, <1>3
<1>5. \A row \in DOMAIN less : less[row] \in Nat /\ less[row] > 0
  BY <1>1, <1>3, <1>4
<1>6. IsABag(less)
  BY <1>2, <1>4, <1>5 DEF IsABag
<1>7. ASSUME NEW row
      PROVE  Copies(row, less) = IF row = e THEN Copies(row, bag) - 1 ELSE Copies(row, bag)
  BY <1>1, <1>3, <1>4 DEF Copies, BagIn, BagToSet
<1> QED
  BY <1>6, <1>7 DEF less

(* A camera that goes takes its row with it, and no other, under whatever  *)
(* name it was announced and whatever the list is now: deviceRemoved.      *)
THEOREM RemovalFindsItsRow ==
  ASSUME NEW shown, NEW list, NEW c, RowsInv(shown)
  PROVE  RowsInv(Removed(shown, list, c))
<1>1. CASE c \notin DOMAIN shown.names
  BY <1>1 DEF Removed
<1>2. CASE c \in DOMAIN shown.names
  <2> DEFINE then == Removed(shown, list, c)
             gone == Row(c, shown.names[c])
  <2>1. then.rows = shown.rows (-) SetToBag({gone})
    BY <1>2 DEF Removed
  <2>2. DOMAIN then.names = DOMAIN shown.names \ {c}
        /\ \A d \in DOMAIN shown.names \ {c} : then.names[d] = shown.names[d]
    BY <1>2 DEF Removed
  <2>3. IsFiniteSet(DOMAIN shown.names) /\ IsABag(shown.rows)
        /\ \A row : Copies(row, shown.rows) = Cardinality(ShownBy(row, shown))
    BY EveryRowCounted DEF RowsInv
  <2>4. IsFiniteSet(DOMAIN then.names)
    BY <2>2, <2>3, FS_RemoveElement
  <2>5. \A row : IsFiniteSet(ShownBy(row, shown)) /\ Cardinality(ShownBy(row, shown)) \in Nat
    <3> SUFFICES ASSUME NEW row
                 PROVE  IsFiniteSet(ShownBy(row, shown)) /\ Cardinality(ShownBy(row, shown)) \in Nat
      OBVIOUS
    <3>1. ShownBy(row, shown) \subseteq DOMAIN shown.names
      BY DEF ShownBy
    <3>2. IsFiniteSet(ShownBy(row, shown))
      BY <2>3, <3>1, FS_Subset
    <3> QED
      BY <3>2, FS_CardinalityType
  <2>6. c \in ShownBy(gone, shown)
    BY <1>2 DEF ShownBy
  <2>7. Cardinality(ShownBy(gone, shown)) # 0
    BY <2>5, <2>6, FS_EmptySet
  <2>8. BagIn(gone, shown.rows)
    BY <2>3, <2>7 DEF Copies
  <2>9. /\ IsABag(then.rows)
        /\ \A row : Copies(row, then.rows)
                     = IF row = gone THEN Copies(row, shown.rows) - 1 ELSE Copies(row, shown.rows)
    BY <2>1, <2>3, <2>8, CopiesRemoved
  <2> HIDE DEF then, gone
  <2>10. ASSUME NEW row
         PROVE  Copies(row, then.rows) = Cardinality(ShownBy(row, then))
    <3>1. CASE row = gone
      <4>1. ShownBy(row, then) = ShownBy(row, shown) \ {c}
        BY <2>2, <3>1 DEF ShownBy
      <4>2. Cardinality(ShownBy(row, then)) = Cardinality(ShownBy(row, shown)) - 1
        BY <2>5, <2>6, <3>1, <4>1, FS_RemoveElement
      <4> QED
        BY <2>3, <2>9, <3>1, <4>2
    <3>2. CASE row # gone
      <4>1. ShownBy(row, then) = ShownBy(row, shown)
        BY <2>2, <3>2 DEF ShownBy, gone
      <4> QED
        BY <2>3, <2>9, <3>2, <4>1
    <3> QED
      BY <3>1, <3>2
  <2>11. OneRowPerName(then)
    BY <2>4, <2>9, <2>10, EveryRowCounted
  <2> QED
    BY <2>4, <2>9, <2>11 DEF RowsInv, then
<1> QED
  BY <1>1, <1>2

(* A camera that comes gets one row more, though another may have its name *)
(* already: deviceAdded.                                                   *)
THEOREM AdditionAddsItsRow ==
  ASSUME NEW shown, NEW list, NEW c, RowsInv(shown), c \notin DOMAIN shown.names
  PROVE  RowsInv(Added(shown, list, c))
<1> DEFINE then == Added(shown, list, c)
           new == Row(c, UniqueName(list, c))
<1>1. then.rows = shown.rows (+) SetToBag({new})
  BY DEF Added
<1>2. DOMAIN then.names = DOMAIN shown.names \cup {c} /\ then.names[c] = UniqueName(list, c)
      /\ \A d \in DOMAIN shown.names : then.names[d] = shown.names[d]
  BY DEF Added
<1>3. IsFiniteSet(DOMAIN shown.names) /\ IsABag(shown.rows)
      /\ \A row : Copies(row, shown.rows) = Cardinality(ShownBy(row, shown))
  BY EveryRowCounted DEF RowsInv
<1>4. IsFiniteSet(DOMAIN then.names)
  BY <1>2, <1>3, FS_AddElement
<1> HIDE DEF then, new
<1>5. /\ IsABag(then.rows)
      /\ \A row : Copies(row, then.rows)
                   = IF row = new THEN Copies(row, shown.rows) + 1 ELSE Copies(row, shown.rows)
  <2> DEFINE more == shown.rows (+) SetToBag({new})
  <2>1. /\ IsABag(more)
        /\ \A row : Copies(row, more)
                     = IF row = new THEN Copies(row, shown.rows) + 1 ELSE Copies(row, shown.rows)
    BY <1>3, CopiesAdded
  <2>2. then.rows = more
    BY <1>1
  <2> HIDE DEF more
  <2> QED
    BY <2>1, <2>2
<1>6. ASSUME NEW row
      PROVE  Copies(row, then.rows) = Cardinality(ShownBy(row, then))
  <2>1. ShownBy(row, shown) \subseteq DOMAIN shown.names
    BY DEF ShownBy
  <2>2. IsFiniteSet(ShownBy(row, shown))
    BY <1>3, <2>1, FS_Subset
  <2>3. CASE row = new
    <3>1. ShownBy(row, then) = ShownBy(row, shown) \cup {c}
      BY <1>2, <2>3 DEF ShownBy, new
    <3>2. Cardinality(ShownBy(row, then)) = Cardinality(ShownBy(row, shown)) + 1
      BY <2>1, <2>2, <3>1, FS_AddElement
    <3> QED
      BY <1>3, <1>5, <2>3, <3>2
  <2>4. CASE row # new
    <3>1. ShownBy(row, then) = ShownBy(row, shown)
      BY <1>2, <2>4 DEF ShownBy, new
    <3> QED
      BY <1>3, <1>5, <2>4, <3>1
  <2> QED
    BY <2>3, <2>4
<1>7. OneRowPerName(then)
  BY <1>4, <1>5, <1>6, EveryRowCounted
<1> QED
  BY <1>4, <1>5, <1>7 DEF RowsInv, then

(***************************************************************************)
(* What the browser is told.                                               *)
(*                                                                         *)
(* A rescan tells the enumerators of one camera after the other.  By       *)
(* induction on how many they were told of, they show the old list without *)
(* those that went so far and with those that came so far; a row is found  *)
(* for each that goes, and one is made for each that comes, as above.      *)
(***************************************************************************)

(* What holds of 0 and of the successor of each holds of every number:     *)
(* where it did not there would be a least one.                            *)
LEMMA NatSetInduction ==
  ASSUME NEW S \in SUBSET Nat, 0 \in S, \A n \in S : n + 1 \in S
  PROVE  S = Nat
<1> DEFINE T == Nat \ S
<1>1. SUFFICES ASSUME T # {} PROVE FALSE
  OBVIOUS
<1>2. PICK x \in T : \A y \in T : ~ (<<y, x>> \in OpToRel(<, Nat))
  BY <1>1, NatLessThanWellFounded, WFMin
<1>3. \A y \in T : ~(y < x)
  BY <1>2 DEF OpToRel
<1>4. x # 0 /\ x - 1 \in Nat
  OBVIOUS
<1>5. x - 1 \in S
  BY <1>3, <1>4
<1> QED BY <1>5

(* Tell goes through the lists with FoldLeft, which the library defines by *)
(* a recursive function on the sets of places: its value at a set is that  *)
(* at the set without its greatest place, told of what is at that one.     *)
Iter(shown, old, new, f, s) ==
  IF s = {} THEN shown ELSE Told(f[s \ {Max(s)}], old, new, (old \o new)[Max(s)])

IsIter(shown, old, new, n, f) ==
  f = [s \in SUBSET (1..n) |-> Iter(shown, old, new, f, s)]

(* Tell is the value of that function at all of the lists.                 *)
LEMMA Unfold ==
  ASSUME NEW shown, NEW old, NEW new, NEW n \in Nat, DOMAIN (old \o new) = 1..n
  PROVE  Tell(shown, old, new) = (CHOOSE f : IsIter(shown, old, new, n, f))[1..n]
BY DEF Tell, FoldLeft, MapThenFoldSet, IsIter, Iter

(* The greatest of a set of numbers up to n + 1 that has n + 1.            *)
LEMMA MaxOf ==
  ASSUME NEW n \in Nat, NEW s \in SUBSET (1..(n + 1)), n + 1 \in s
  PROVE  Max(s) = n + 1
<1>1. n + 1 \in s /\ \A y \in s : n + 1 >= y
  OBVIOUS
<1>2. \A x \in s : (\A y \in s : x >= y) => x = n + 1
  OBVIOUS
<1> QED BY <1>1, <1>2 DEF Max

(* There is such a function, by induction on the length of the lists.      *)
LEMMA Exists ==
  ASSUME NEW shown, NEW old, NEW new, NEW n \in Nat
  PROVE  \E f : IsIter(shown, old, new, n, f)
<1> DEFINE S == {m \in Nat : \E f : IsIter(shown, old, new, m, f)}
<1>1. 0 \in S
  <2> DEFINE f == [s \in SUBSET (1..0) |-> shown]
  <2>1. \A s \in SUBSET (1..0) : s = {}
    OBVIOUS
  <2>2. IsIter(shown, old, new, 0, f)
    BY <2>1 DEF IsIter, Iter
  <2> QED BY <2>2
<1>2. ASSUME NEW m \in S PROVE m + 1 \in S
  <2>1. PICK g : IsIter(shown, old, new, m, g)
    OBVIOUS
  <2> DEFINE f == [s \in SUBSET (1..(m + 1)) |->
                     IF m + 1 \in s THEN Told(g[s \ {m + 1}], old, new, (old \o new)[m + 1])
                                    ELSE g[s]]
  <2>2. ASSUME NEW s \in SUBSET (1..(m + 1)) PROVE f[s] = Iter(shown, old, new, f, s)
    <3>1. CASE m + 1 \in s
      <4>1. Max(s) = m + 1
        BY <3>1, MaxOf
      <4>2. /\ s \ {m + 1} \in SUBSET (1..m) /\ s \ {m + 1} \in SUBSET (1..(m + 1))
            /\ m + 1 \notin s \ {m + 1}
        BY <3>1
      <4>3. f[s \ {m + 1}] = g[s \ {m + 1}]
        BY <4>2
      <4> QED BY <3>1, <4>1, <4>3 DEF Iter
    <3>2. CASE m + 1 \notin s
      <4>1. s \in SUBSET (1..m)
        BY <3>2
      <4>2. g[s] = Iter(shown, old, new, g, s)
        BY <4>1, <2>1 DEF IsIter
      <4>3. CASE s = {}
        BY <4>2, <4>3, <3>2 DEF Iter
      <4>4. CASE s # {}
        <5>1. s \ {Max(s)} \in SUBSET (1..(m + 1)) /\ m + 1 \notin s \ {Max(s)}
          <6>0. 1..m \subseteq 1..(m + 1) /\ m + 1 \notin 1..m
            OBVIOUS
          <6>1. \A x : s \ {x} \in SUBSET (1..(m + 1)) /\ m + 1 \notin s \ {x}
            BY <4>1, <6>0
          <6> QED BY <6>1
        <5>2. f[s \ {Max(s)}] = g[s \ {Max(s)}]
          BY <5>1
        <5> QED BY <4>2, <4>4, <5>2, <3>2 DEF Iter
      <4> QED BY <4>3, <4>4
    <3> QED BY <3>1, <3>2
  <2> HIDE DEF f
  <2>3. f = [s \in SUBSET (1..(m + 1)) |-> f[s]]
    BY DEF f
  <2>4. IsIter(shown, old, new, m + 1, f)
    BY <2>2, <2>3 DEF IsIter
  <2> QED BY <2>4
<1>3. S = Nat
  <2> HIDE DEF S
  <2>1. S \in SUBSET Nat
    BY DEF S
  <2> QED BY <1>1, <1>2, <2>1, NatSetInduction
<1> QED BY <1>3

(* So the enumerators are told stage by stage, of one camera at each.      *)
LEMMA Stages ==
  ASSUME NEW shown, NEW old, NEW new, NEW n \in Nat, DOMAIN (old \o new) = 1..n
  PROVE  \E st : /\ st[0] = shown
                 /\ \A k \in 1..n : st[k] = Told(st[k - 1], old, new, (old \o new)[k])
                 /\ Tell(shown, old, new) = st[n]
<1> DEFINE f == CHOOSE f : IsIter(shown, old, new, n, f)
           st == [k \in 0..n |-> f[1..k]]
<1>1. IsIter(shown, old, new, n, f)
  BY Exists
<1>2. Tell(shown, old, new) = f[1..n]
  BY Unfold
<1> HIDE DEF f
<1>3. \A s \in SUBSET (1..n) : f[s] = Iter(shown, old, new, f, s)
  BY <1>1 DEF IsIter
<1>4. st[0] = shown
  <2>1. 1..0 = {} /\ 1..0 \in SUBSET (1..n)
    OBVIOUS
  <2>2. f[1..0] = shown
    BY <2>1, <1>3 DEF Iter
  <2> QED BY <2>2
<1>5. ASSUME NEW k \in 1..n PROVE st[k] = Told(st[k - 1], old, new, (old \o new)[k])
  <2>0. k \in Nat /\ 1 <= k /\ k <= n /\ k - 1 \in Nat /\ k - 1 <= n
    OBVIOUS
  <2>1. 1..k \in SUBSET (1..n) /\ 1..k # {} /\ k \in 0..n /\ k - 1 \in 0..n /\ k - 1 \in Nat
    BY <2>0
  <2>2. Max(1..k) = k
    <3>1. (k - 1) + 1 \in 1..k /\ 1..k \in SUBSET (1..((k - 1) + 1)) /\ (k - 1) + 1 = k
      OBVIOUS
    <3> QED BY <2>1, <3>1, MaxOf
  <2>3. (1..k) \ {k} = 1..(k - 1)
    OBVIOUS
  <2>4. f[1..k] = Told(f[1..(k - 1)], old, new, (old \o new)[k])
    BY <2>1, <2>2, <2>3, <1>3 DEF Iter
  <2> QED BY <2>1, <2>4
<1>6. st[n] = f[1..n]
  OBVIOUS
<1> HIDE DEF st
<1> QED BY <1>2, <1>4, <1>5, <1>6

(* A step to a following number at a time, up to n.                        *)
LEMMA StepByStep ==
  ASSUME NEW n \in Nat, NEW S, 0 \in S, \A k \in 1..n : k - 1 \in S => k \in S
  PROVE  n \in S
<1> DEFINE T == {m \in Nat : m <= n => m \in S}
<1>1. 0 \in T
  OBVIOUS
<1>2. ASSUME NEW m \in T PROVE m + 1 \in T
  <2> SUFFICES ASSUME m + 1 <= n PROVE m + 1 \in S
    OBVIOUS
  <2>1. m \in S /\ m + 1 \in 1..n /\ (m + 1) - 1 = m
    OBVIOUS
  <2> QED BY <2>1
<1>3. T = Nat
  <2> HIDE DEF T
  <2>1. T \in SUBSET Nat
    BY DEF T
  <2> QED BY <1>1, <1>2, <2>1, NatSetInduction
<1> QED BY <1>3

(* The place of a camera in a list of different cameras is at most their   *)
(* number, and so is the number that its name gets.                        *)
LEMMA NameIsInRange ==
  ASSUME NEW list \in Seq(Camera), IsInjective(list), NEW c \in ToSet(list)
  PROVE  UniqueName(list, c) \in Name
<1>0. Len(list) \in Nat /\ DOMAIN list = 1..Len(list) /\ IsFiniteSet(Camera)
  BY DiscoveryAssumption
<1>1. \E k \in DOMAIN list : list[k] = c
  BY DEF ToSet
<1> DEFINE i == CHOOSE k \in DOMAIN list : list[k] = c
           same == {k \in 1..(i - 1) : Model[list[k]] = Model[c]}
<1>2. UniqueName(list, c) = <<Model[c], Cardinality(same) + 1>>
  BY <1>1 DEF UniqueName
<1>3. i \in 1..Len(list)
  BY <1>0, <1>1
<1> HIDE DEF i
<1>4. IsFiniteSet(1..(i - 1)) /\ Cardinality(1..(i - 1)) = i - 1
  <2>1. i - 1 \in Nat /\ 1 \in Int
    BY <1>0, <1>3
  <2> QED BY <2>1, FS_Interval
<1>5. Cardinality(same) \in Nat /\ Cardinality(same) <= i - 1
  <2>1. same \subseteq 1..(i - 1)
    OBVIOUS
  <2> QED BY <1>4, <2>1, FS_Subset, FS_CardinalityType
<1>6. Cardinality(Camera) \in Nat /\ Len(list) <= Cardinality(Camera)
  <2>1. list \in Injection(1..Len(list), Camera)
    BY <1>0 DEF Injection
  <2>2. IsFiniteSet(1..Len(list)) /\ Cardinality(1..Len(list)) = Len(list)
    BY <1>0, FS_Interval
  <2> QED BY <1>0, <2>1, <2>2, FS_Injection, FS_CardinalityType
<1>7. c \in Camera
  BY <1>0, <1>1
<1> HIDE DEF same
<1>8. Cardinality(same) + 1 \in 1..Cardinality(Camera)
  BY <1>0, <1>3, <1>5, <1>6
<1> QED BY <1>2, <1>7, <1>8 DEF Name

(* What the enumerators show of the cameras, for a list of them.           *)
ShownOf(shown, cameras) ==
  /\ RowsInv(shown)
  /\ DOMAIN shown.names = cameras
  /\ \A c \in cameras : shown.names[c] \in Name

(* Of every camera that came they are told that it came, once, and of      *)
(* every one that went that it went: they end up with the new list.        *)
LEMMA TellShows ==
  ASSUME NEW shown, NEW old \in Seq(Camera), IsInjective(old), ShownOf(shown, ToSet(old)),
         NEW new \in Seq(Camera), IsInjective(new)
  PROVE  ShownOf(Tell(shown, old, new), ToSet(new))
<1> DEFINE list == old \o new
           n == Len(old) + Len(new)
           Before(k) == {list[j] : j \in 1..k}
           Gone(k) == ToSet(old) \ (Before(k) \ ToSet(new))
           Here(k) == (Before(k) \cap ToSet(new)) \ ToSet(old)
<1>1. /\ Len(old) \in Nat /\ Len(new) \in Nat /\ n \in Nat /\ DOMAIN list = 1..n
      /\ \A j \in 1..n : list[j] = IF j <= Len(old) THEN old[j] ELSE new[j - Len(old)]
      /\ DOMAIN old = 1..Len(old) /\ DOMAIN new = 1..Len(new)
  OBVIOUS
<1> HIDE DEF n
<1>2. PICK st : /\ st[0] = shown
                /\ \A k \in 1..n : st[k] = Told(st[k - 1], old, new, list[k])
                /\ Tell(shown, old, new) = st[n]
  BY <1>1, Stages
<1>3. ToSet(list) = ToSet(old) \cup ToSet(new) /\ ToSet(list) = Before(n)
  <2>1. ToSet(list) = ToSet(old) \cup ToSet(new)
    BY ConcatHolds
  <2>2. ToSet(list) = {list[j] : j \in 1..n}
    BY <1>1 DEF ToSet
  <2> QED BY <2>1, <2>2
<1>4. ToSet(old) = {old[j] : j \in 1..Len(old)} /\ ToSet(new) = {new[j] : j \in 1..Len(new)}
  BY <1>1 DEF ToSet
<1>5. \A j, k \in 1..n : j < k /\ list[j] = list[k] => list[j] \in ToSet(old) \cap ToSet(new)
  <2> SUFFICES ASSUME NEW j \in 1..n, NEW k \in 1..n, j < k, list[j] = list[k]
               PROVE  list[j] \in ToSet(old) \cap ToSet(new)
    OBVIOUS
  <2>0. j \in Nat /\ k \in Nat /\ 1 <= j /\ k <= Len(old) + Len(new)
    BY <1>1 DEF n
  <2>1. CASE k <= Len(old)
    <3>1. j \in DOMAIN old /\ k \in DOMAIN old /\ list[j] = old[j] /\ list[k] = old[k]
      BY <1>1, <2>0, <2>1
    <3>2. j = k
      BY <3>1 DEF IsInjective
    <3> QED BY <2>0, <3>2
  <2>2. CASE j > Len(old)
    <3>1. /\ j - Len(old) \in DOMAIN new /\ k - Len(old) \in DOMAIN new
          /\ list[j] = new[j - Len(old)] /\ list[k] = new[k - Len(old)]
      BY <1>1, <2>0, <2>2
    <3>2. j - Len(old) = k - Len(old)
      BY <3>1 DEF IsInjective
    <3> QED BY <1>1, <2>0, <3>2
  <2>3. CASE j <= Len(old) /\ k > Len(old)
    <3>1. /\ j \in 1..Len(old) /\ list[j] = old[j]
          /\ k - Len(old) \in 1..Len(new) /\ list[k] = new[k - Len(old)]
      BY <1>1, <2>0, <2>3
    <3> QED BY <1>4, <3>1
  <2> QED BY <1>1, <2>0, <2>1, <2>2, <2>3
<1> DEFINE S == {k \in 0..n : ShownOf(st[k], Gone(k) \cup Here(k))}
<1>6. 0 \in S
  <2>1. Before(0) = {} /\ 0 \in 0..n
    BY <1>1
  <2>2. Gone(0) \cup Here(0) = ToSet(old)
    BY <2>1
  <2> QED BY <1>2, <2>1, <2>2
<1>7. ASSUME NEW k \in 1..n, k - 1 \in S PROVE k \in S
  <2> DEFINE c == list[k]
             s == st[k - 1]
             cs == Gone(k - 1) \cup Here(k - 1)
  <2>0. k \in 0..n /\ k \in Nat /\ k - 1 \in Nat /\ 1..k = (1..(k - 1)) \cup {k}
    BY <1>1
  <2>1. Before(k) = Before(k - 1) \cup {c}
    BY <2>0
  <2>2. st[k] = Told(s, old, new, c) /\ ShownOf(s, cs)
    BY <1>2, <1>7
  <2>3. c \in Before(k - 1) => c \in ToSet(old) \cap ToSet(new)
    <3> SUFFICES ASSUME NEW j \in 1..(k - 1), c = list[j]
                 PROVE  c \in ToSet(old) \cap ToSet(new)
      OBVIOUS
    <3>1. j \in 1..n /\ j < k
      BY <1>1, <2>0
    <3> QED BY <1>5, <3>1
  <2>4. c \in ToSet(old) \cup ToSet(new)
    BY <1>1, <1>3 DEF ToSet
  <2>5. c \in Camera
    BY <1>1
  <2> DEFINE b == Before(k - 1)
             bk == Before(k)
  <2>6. /\ cs = (ToSet(old) \ (b \ ToSet(new))) \cup ((b \cap ToSet(new)) \ ToSet(old))
        /\ Gone(k) \cup Here(k) = (ToSet(old) \ (bk \ ToSet(new))) \cup ((bk \cap ToSet(new)) \ ToSet(old))
    OBVIOUS
  <2> HIDE DEF c, s, cs, b, bk, Before
  <2>7. CASE c \in ToSet(old) <=> c \in ToSet(new)
    <3>1. st[k] = s
      BY <2>2, <2>7 DEF Told
    <3>2. Gone(k) \cup Here(k) = cs
      BY <2>1, <2>4, <2>6, <2>7 DEF b, bk
    <3> QED BY <2>0, <2>2, <3>1, <3>2
  <2>8. CASE c \in ToSet(new) /\ c \notin ToSet(old)
    <3>1. st[k] = Added(s, new, c)
      BY <2>2, <2>8 DEF Told
    <3>2. Gone(k) \cup Here(k) = cs \cup {c} /\ c \notin cs
      BY <2>1, <2>3, <2>6, <2>8 DEF b, bk
    <3>3. RowsInv(st[k])
      BY <2>2, <3>1, <3>2, AdditionAddsItsRow DEF ShownOf
    <3>4. /\ DOMAIN st[k].names = cs \cup {c}
          /\ \A d \in cs \cup {c} : st[k].names[d] = IF d = c THEN UniqueName(new, c) ELSE s.names[d]
      BY <2>2, <3>1 DEF Added, ShownOf
    <3>5. UniqueName(new, c) \in Name
      BY <2>8, NameIsInRange
    <3>6. \A d \in cs \cup {c} : st[k].names[d] \in Name
      BY <2>2, <3>4, <3>5 DEF ShownOf
    <3> QED BY <2>0, <3>2, <3>3, <3>4, <3>6 DEF ShownOf
  <2>9. CASE c \in ToSet(old) /\ c \notin ToSet(new)
    <3>1. st[k] = Removed(s, new, c)
      BY <2>2, <2>9 DEF Told
    <3>2. Gone(k) \cup Here(k) = cs \ {c} /\ c \in cs
      BY <2>1, <2>3, <2>6, <2>9 DEF b, bk
    <3>3. RowsInv(st[k])
      BY <2>2, <3>1, RemovalFindsItsRow DEF ShownOf
    <3>4. /\ DOMAIN st[k].names = cs \ {c}
          /\ \A d \in cs \ {c} : st[k].names[d] = s.names[d]
      BY <2>2, <3>1, <3>2 DEF Removed, ShownOf
    <3>5. \A d \in cs \ {c} : st[k].names[d] \in Name
      BY <2>2, <3>4 DEF ShownOf
    <3> QED BY <2>0, <3>2, <3>3, <3>4, <3>5 DEF ShownOf
  <2> QED BY <2>4, <2>7, <2>8, <2>9
<1>8. n \in S
  <2> HIDE DEF S, n
  <2> QED BY <1>1, <1>6, <1>7, StepByStep
<1>9. Gone(n) \cup Here(n) = ToSet(new)
  <2> HIDE DEF Before
  <2> QED BY <1>3
<1> QED BY <1>2, <1>8, <1>9

(* Of no camera.                                                           *)
NoRows == [names |-> <<>>, rows |-> EmptyBag]

(* A browser that shows nothing.                                           *)
LEMMA NothingShown == ShownOf(NoRows, {})
<1>1. DOMAIN <<>> = {} /\ DOMAIN NoRows.names = {} /\ NoRows.rows = EmptyBag
  BY DEF NoRows
<1>2. EmptyBag = [e \in {} |-> 1] /\ DOMAIN EmptyBag = {}
  BY DEF EmptyBag, SetToBag
<1>3. IsABag(EmptyBag)
  BY <1>2 DEF IsABag
<1>4. OneRowPerName(NoRows)
  BY <1>1, <1>2 DEF OneRowPerName, BagToSet
<1> QED BY <1>1, <1>3, <1>4, FS_EmptySet DEF ShownOf, RowsInv

(* An open browser shows the cameras that are listed, a closed one none.   *)
ShownInv ==
  /\ open => ShownOf([names |-> names, rows |-> rows], ToSet(devices))
  /\ ~open => names = <<>> /\ rows = EmptyBag

(* No backend is loaded twice, so that none is asked twice in a rescan and *)
(* no camera is listed twice: the cameras listed so far are of backends    *)
(* that are not asked any more.                                            *)
DifferentInv ==
  /\ IsInjective(devices) /\ IsInjective(backends)
  /\ At("load") => IsInjective(gui.todo) /\ ToSet(gui.todo) \cap ToSet(backends) = {}
  /\ At("scan") =>
       /\ IsInjective(gui.todo) /\ IsInjective(gui.current)
       /\ \A c \in ToSet(gui.current) : BackendOf[c] \notin ToSet(gui.todo)

(* What is counted, and who noticed what.                                   *)
CountsInv ==
  /\ queued \in Nat /\ changes \in 0..MaxChanges
  /\ noticed \subseteq Hotplug /\ calling \subseteq Hotplug /\ touched \subseteq Camera
  /\ changed \in BOOLEAN /\ open \in BOOLEAN

(* Of the list, the browser and the rest.                                  *)
BrowserInv == ShownInv /\ DifferentInv /\ CountsInv

(* What is left of a list of different ones when its head is gone.         *)
LEMMA TailIsDifferent ==
  ASSUME NEW S, NEW s \in Seq(S), s # <<>>, IsInjective(s)
  PROVE  IsInjective(Tail(s)) /\ Head(s) \notin ToSet(Tail(s))
<1>1. /\ Len(s) \in Nat /\ Len(s) > 0 /\ DOMAIN s = 1..Len(s) /\ Head(s) = s[1]
      /\ DOMAIN Tail(s) = 1..(Len(s) - 1)
      /\ \A i \in 1..(Len(s) - 1) : Tail(s)[i] = s[i + 1] /\ i + 1 \in 1..Len(s) /\ i + 1 # 1
  OBVIOUS
<1>2. \A i, j \in 1..Len(s) : s[i] = s[j] => i = j
  BY <1>1 DEF IsInjective
<1>3. \A i, j \in 1..(Len(s) - 1) : Tail(s)[i] = Tail(s)[j] => i = j
  BY <1>1, <1>2
<1>4. \A i \in 1..(Len(s) - 1) : Tail(s)[i] # Head(s)
  BY <1>1, <1>2
<1> QED BY <1>1, <1>3, <1>4 DEF IsInjective, ToSet

(* A list of different ones with one more that was not in it.              *)
LEMMA AppendIsDifferent ==
  ASSUME NEW S, NEW s \in Seq(S), NEW e \in S, IsInjective(s), e \notin ToSet(s)
  PROVE  IsInjective(Append(s, e))
<1>1. /\ Len(s) \in Nat /\ DOMAIN s = 1..Len(s) /\ DOMAIN Append(s, e) = 1..(Len(s) + 1)
      /\ \A i \in 1..(Len(s) + 1) :
            Append(s, e)[i] = (IF i = Len(s) + 1 THEN e ELSE s[i])
              /\ (i # Len(s) + 1 => i \in 1..Len(s))
  OBVIOUS
<1>2. \A i \in 1..Len(s) : s[i] # e
  BY <1>1 DEF ToSet
<1>3. \A i, j \in 1..Len(s) : s[i] = s[j] => i = j
  BY <1>1 DEF IsInjective
<1>4. \A i, j \in 1..(Len(s) + 1) : Append(s, e)[i] = Append(s, e)[j] => i = j
  BY <1>1, <1>2, <1>3
<1> QED BY <1>1, <1>4 DEF IsInjective

(* Lists of different ones that share none.                                *)
LEMMA ConcatIsDifferent ==
  ASSUME NEW S, NEW s \in Seq(S), NEW t \in Seq(S), IsInjective(s), IsInjective(t),
         ToSet(s) \cap ToSet(t) = {}
  PROVE  IsInjective(s \o t)
<1>1. /\ Len(s) \in Nat /\ Len(t) \in Nat /\ DOMAIN s = 1..Len(s) /\ DOMAIN t = 1..Len(t)
      /\ DOMAIN (s \o t) = 1..(Len(s) + Len(t))
      /\ \A i \in 1..(Len(s) + Len(t)) : (s \o t)[i] = IF i <= Len(s) THEN s[i] ELSE t[i - Len(s)]
  OBVIOUS
<1>2. \A i \in DOMAIN s, j \in DOMAIN t : s[i] # t[j]
  BY DEF ToSet
<1> SUFFICES ASSUME NEW i \in 1..(Len(s) + Len(t)), NEW j \in 1..(Len(s) + Len(t)),
                    (s \o t)[i] = (s \o t)[j]
             PROVE  i = j
  BY <1>1 DEF IsInjective
<1>3. CASE i <= Len(s) /\ j <= Len(s)
  <2>1. i \in DOMAIN s /\ j \in DOMAIN s /\ s[i] = s[j]
    BY <1>1, <1>3
  <2> QED BY <2>1 DEF IsInjective
<1>4. CASE i > Len(s) /\ j > Len(s)
  <2>1. i - Len(s) \in DOMAIN t /\ j - Len(s) \in DOMAIN t /\ t[i - Len(s)] = t[j - Len(s)]
    BY <1>1, <1>4
  <2>2. i - Len(s) = j - Len(s)
    BY <2>1 DEF IsInjective
  <2> QED BY <1>1, <2>2
<1>5. CASE i <= Len(s) /\ j > Len(s)
  <2>1. i \in DOMAIN s /\ j - Len(s) \in DOMAIN t /\ s[i] = t[j - Len(s)]
    BY <1>1, <1>5
  <2> QED BY <1>2, <2>1
<1>6. CASE j <= Len(s) /\ i > Len(s)
  <2>1. j \in DOMAIN s /\ i - Len(s) \in DOMAIN t /\ s[j] = t[i - Len(s)]
    BY <1>1, <1>6
  <2> QED BY <1>2, <2>1
<1> QED BY <1>1, <1>3, <1>4, <1>5, <1>6

(* A closed browser, and nothing that is listed.                           *)
LEMMA BrowserInitially ==
  Init => BrowserInv
<1> SUFFICES ASSUME Init PROVE BrowserInv
  OBVIOUS
<1>1. IsInjective(<<>>) /\ ToSet(<<>>) = {}
  BY DEF IsInjective, ToSet
<1>2. ShownInv
  BY DEF Init, ShownInv
<1>3. DifferentInv
  BY <1>1, DiscoveryAssumption DEF Init, DifferentInv, At
<1>4. CountsInv
  <2>1. MaxChanges \in Nat
    BY DiscoveryAssumption
  <2>2. 0 \in 0..MaxChanges
    BY <2>1
  <2> QED BY <2>2 DEF Init, CountsInv
<1> QED BY <1>2, <1>3, <1>4 DEF BrowserInv

(* Each action keeps them.                                                 *)
LEMMA CountsInductive ==
  ASSUME CountsInv, [Next]_vars  PROVE  CountsInv'
<1> USE DEF CountsInv
<1>1. CASE GuiStep
  <2>1. CASE LoadBackend \/ Loaded \/ SetCallback \/ EnumerateBackend
    BY <2>1 DEF LoadBackend, Loaded, SetCallback, EnumerateBackend, sdkVars, registryVars, browserVars
  <2>2. CASE Announce
    <3>1. UNCHANGED <<sdkVars, registryVars, queued, open, touched>>
      BY <2>2 DEF Announce
    <3> QED BY <3>1 DEF sdkVars, registryVars
  <2>3. CASE Enumerate
    <3>1. open' = TRUE /\ UNCHANGED <<sdkVars, registryVars, queued, touched>>
      BY <2>3 DEF Enumerate
    <3> QED BY <3>1 DEF sdkVars, registryVars
  <2>4. CASE Destroy \/ Unregister \/ ShutdownBackend
    BY <2>4 DEF Destroy, Unregister, ShutdownBackend, sdkVars, browserVars
  <2>5. CASE ShutDone
    BY <2>5 DEF ShutDone, sdkVars, browserVars
  <2> QED BY <1>1, <2>1, <2>2, <2>3, <2>4, <2>5 DEF GuiStep
<1>2. CASE Rescan
  BY <1>2 DEF Rescan, sdkVars, registryVars, browserVars
<1>3. CASE UserStep
  BY <1>3 DEF UserStep, GetEnumerators, CloseBrowser, AboutToQuit, TearDown, sdkVars,
              registryVars, browserVars
<1>4. CASE \E c \in Camera : Change(c)
  BY <1>4, DiscoveryAssumption DEF Change, registryVars, browserVars
<1>5. CASE \E b \in Hotplug : OnChanged(b) \/ Changed(b)
  BY <1>5 DEF OnChanged, Changed, registryVars, browserVars
<1>6. CASE UNCHANGED vars
  BY <1>6 DEF vars, sdkVars, registryVars, browserVars
<1> QED BY <1>1, <1>2, <1>3, <1>4, <1>5, <1>6 DEF Next, SdkStep

(* A backend is loaded once, and a rescan asks each backend once.          *)
LEMMA DifferentInductive ==
  ASSUME DifferentInv, ListsOK, PlaceInv, [Next]_vars  PROVE  DifferentInv'
<1> USE DEF DifferentInv, ListsOK, At
<1>0. IsInjective(<<>>) /\ ToSet(<<>>) = {}
  BY DEF IsInjective, ToSet
<1>1. CASE LoadBackend
  <2> DEFINE b == Head(gui.todo)
  <2>1. /\ At("load") /\ gui.todo # <<>> /\ UNCHANGED devices
        /\ gui' = [gui EXCEPT !.todo = Tail(gui.todo)]
        /\ backends' = backends \/ backends' = Append(backends, b)
    BY <1>1 DEF LoadBackend
  <2>2. /\ b \in Libraries /\ ToSet(gui.todo) = {b} \cup ToSet(Tail(gui.todo))
        /\ IsInjective(Tail(gui.todo)) /\ b \notin ToSet(Tail(gui.todo))
    BY <2>1, HeadAndTail, TailIsDifferent
  <2>3. gui'.at = "load" /\ gui'.todo = Tail(gui.todo)
    BY <2>1
  <2>4. CASE backends' = backends
    BY <2>1, <2>2, <2>3, <2>4
  <2>5. CASE backends' = Append(backends, b)
    <3>1. ToSet(backends') = ToSet(backends) \cup {b}
      BY <2>2, <2>5, AppendHolds
    <3>2. b \notin ToSet(backends)
      BY <2>1, <2>2
    <3>3. IsInjective(backends')
      <4>1. backends \in Seq(Libraries) /\ IsInjective(backends)
        OBVIOUS
      <4> QED BY <2>2, <2>5, <3>2, <4>1, AppendIsDifferent
    <3> QED BY <2>1, <2>2, <2>3, <3>1, <3>3
  <2> QED BY <2>1, <2>4, <2>5
<1>2. CASE Loaded
  BY <1>2 DEF Loaded, registryVars
<1>3. CASE SetCallback \/ Rescan
  BY <1>0, <1>3 DEF SetCallback, Rescan, Scan, registryVars
<1>4. CASE EnumerateBackend
  <2> DEFINE b == Head(gui.todo)
             found == {c \in plugged : BackendOf[c] = b}
  <2>1. PICK list \in SetToSeqs(found) :
          gui' = [gui EXCEPT !.todo = Tail(gui.todo),
                             !.current = IF b \in initialized THEN gui.current \o list
                                                              ELSE gui.current]
    BY <1>4 DEF EnumerateBackend
  <2>2. At("scan") /\ gui.todo # <<>> /\ UNCHANGED <<devices, backends>>
    BY <1>4 DEF EnumerateBackend, registryVars
  <2>3. IsFiniteSet(found) /\ found \subseteq Camera
    BY DiscoveryAssumption, FS_Subset
  <2>4. list \in Seq(found) /\ ToSet(list) = found
    BY <2>3, ListingIsComplete
  <2>5. list \in Seq(Camera)
    BY <2>3, <2>4
  <2>6. IsInjective(list)
    BY DEF SetToSeqs, IsInjective
  <2>7. /\ ToSet(gui.todo) = {b} \cup ToSet(Tail(gui.todo))
        /\ IsInjective(Tail(gui.todo)) /\ b \notin ToSet(Tail(gui.todo))
    BY <2>2, HeadAndTail, TailIsDifferent
  <2>8. ToSet(gui.current) \cap ToSet(list) = {}
    BY <2>2, <2>4, <2>7
  <2>9. /\ IsInjective(gui.current \o list)
        /\ ToSet(gui.current \o list) = ToSet(gui.current) \cup found
    BY <2>2, <2>4, <2>5, <2>6, <2>8, ConcatIsDifferent, ConcatHolds
  <2>10. /\ gui'.at = "scan" /\ gui'.todo = Tail(gui.todo)
         /\ gui'.current = IF b \in initialized THEN gui.current \o list ELSE gui.current
    BY <2>1, <2>2
  <2> HIDE DEF b
  <2>11. /\ IsInjective(gui'.current)
         /\ \A c \in ToSet(gui'.current) : c \in ToSet(gui.current) \/ BackendOf[c] = b
    BY <2>2, <2>9, <2>10
  <2> QED BY <2>2, <2>7, <2>10, <2>11
<1>5. CASE Announce
  <2>1. /\ devices' = gui.current /\ gui' = [gui EXCEPT !.at = gui.after, !.current = <<>>]
        /\ At("scan") /\ UNCHANGED backends
    BY <1>5 DEF Announce, registryVars
  <2>2. gui'.at \in {"idle", "show"}
    BY <2>1 DEF PlaceInv
  <2> QED BY <2>1, <2>2
<1>6. CASE Enumerate
  <2>1. gui' = [gui EXCEPT !.at = "idle"] /\ UNCHANGED <<backends, devices>>
    BY <1>6 DEF Enumerate, registryVars
  <2> QED BY <2>1
<1>7. CASE Destroy \/ AboutToQuit
  BY <1>7 DEF Destroy, AboutToQuit, Shutdown, registryVars
<1>8. CASE Unregister \/ ShutdownBackend
  BY <1>8 DEF Unregister, ShutdownBackend
<1>9. CASE ShutDone
  BY <1>9 DEF ShutDone, PlaceInv
<1>10. CASE GetEnumerators
  <2>1. UNCHANGED <<backends, devices>>
    BY <1>10 DEF GetEnumerators, registryVars
  <2>2. \/ gui' = [gui EXCEPT !.at = "show"]
        \/ gui' = [at |-> "scan", todo |-> backends, current |-> <<>>, after |-> "show"]
    BY <1>10 DEF GetEnumerators, Scan
  <2> QED BY <1>0, <2>1, <2>2
<1>11. CASE CloseBrowser \/ TearDown
  BY <1>11 DEF CloseBrowser, TearDown, registryVars
<1>12. CASE SdkStep
  BY <1>12 DEF SdkStep, Change, OnChanged, Changed, registryVars
<1>13. CASE UNCHANGED vars
  BY <1>13 DEF vars, registryVars
<1> QED
  BY <1>1, <1>2, <1>3, <1>4, <1>5, <1>6, <1>7, <1>8, <1>9, <1>10, <1>11, <1>12, <1>13
  DEF Next, GuiStep, UserStep

(* Rows change when a rescan is announced, and when the browser opens or   *)
(* closes.                                                                 *)
LEMMA ShownInductive ==
  ASSUME ShownInv, DifferentInv, ListsOK, [Next]_vars  PROVE  ShownInv'
<1>1. CASE Announce
  <2>1. devices' = gui.current /\ open' = open /\ IsInjective(gui.current) /\ IsInjective(devices)
    BY <1>1 DEF Announce, DifferentInv
  <2>2. CASE open
    <3> DEFINE before == [names |-> names, rows |-> rows]
               then == Tell(before, devices, gui.current)
    <3>1. names' = then.names /\ rows' = then.rows
      BY <1>1, <2>2 DEF Announce, Show
    <3>2. ShownOf(then, ToSet(gui.current))
      <4>1. ShownOf(before, ToSet(devices))
        BY <2>2 DEF ShownInv
      <4>2. devices \in Seq(Camera) /\ gui.current \in Seq(Camera)
        BY DEF ListsOK
      <4> HIDE DEF before
      <4> QED BY <2>1, <4>1, <4>2, TellShows
    <3> HIDE DEF then
    <3>3. ShownOf([names |-> names', rows |-> rows'], ToSet(devices'))
      BY <2>1, <3>1, <3>2 DEF ShownOf, RowsInv, OneRowPerName
    <3> QED BY <2>1, <2>2, <3>3 DEF ShownInv
  <2>3. CASE ~open
    BY <1>1, <2>1, <2>3 DEF Announce, ShownInv
  <2> QED BY <2>2, <2>3
<1>2. CASE Enumerate
  <2>1. open' = TRUE /\ devices' = devices
    BY <1>2 DEF Enumerate
  <2> DEFINE then == Tell(NoRows, <<>>, devices)
  <2>2. names' = then.names /\ rows' = then.rows
    BY <1>2 DEF Enumerate, Show, NoRows
  <2>3. ShownOf(then, ToSet(devices))
    <3>1. <<>> \in Seq(Camera) /\ IsInjective(<<>>) /\ ToSet(<<>>) = {}
      BY DEF IsInjective, ToSet
    <3>2. devices \in Seq(Camera) /\ IsInjective(devices)
      BY DEF ListsOK, DifferentInv
    <3> QED BY <3>1, <3>2, NothingShown, TellShows
  <2> HIDE DEF then
  <2>4. ShownOf([names |-> names', rows |-> rows'], ToSet(devices'))
    BY <2>1, <2>2, <2>3 DEF ShownOf, RowsInv, OneRowPerName
  <2> QED BY <2>1, <2>4 DEF ShownInv
<1>3. CASE CloseBrowser
  BY <1>3 DEF CloseBrowser, ShownInv
<1>4. CASE UNCHANGED <<open, names, rows, devices>>
  BY <1>4 DEF ShownInv, ShownOf, RowsInv, OneRowPerName
<1>5. Announce \/ Enumerate \/ CloseBrowser \/ UNCHANGED <<open, names, rows, devices>>
  <2>1. CASE GuiStep
    BY <2>1 DEF GuiStep, LoadBackend, Loaded, SetCallback, EnumerateBackend, Destroy, Unregister,
                ShutdownBackend, ShutDone, browserVars
  <2>2. CASE Rescan \/ UserStep
    BY <2>2 DEF Rescan, UserStep, GetEnumerators, AboutToQuit, TearDown, browserVars
  <2>3. CASE SdkStep
    BY <2>3 DEF SdkStep, Change, OnChanged, Changed, browserVars
  <2>4. CASE UNCHANGED vars
    BY <2>4 DEF vars, browserVars
  <2> QED BY <2>1, <2>2, <2>3, <2>4 DEF Next
<1> QED BY <1>1, <1>2, <1>3, <1>4, <1>5

(* The two together, with that of quitting.                                *)
LEMMA BrowserInvariant == Spec => [](QuitInv /\ BrowserInv)
<1>1. Init => QuitInv /\ BrowserInv
  BY BrowserInitially, ListsInductive, PlaceInductive, WatcherInductive DEF QuitInv
<1>2. QuitInv /\ BrowserInv /\ [Next]_vars => (QuitInv /\ BrowserInv)'
  BY CountsInductive, DifferentInductive, ShownInductive,
     ListsInductive, PlaceInductive, WatcherInductive DEF QuitInv, BrowserInv
<1> QED BY <1>1, <1>2, PTL DEF Spec

(* Any number of cameras, backends, changes and rescans later, an open     *)
(* browser shows the cameras that are listed, each once and under the name *)
(* it was announced by.                                                    *)
THEOREM BrowserIsTrue == Spec => []BrowserShowsDevices
<1>1. BrowserInv => BrowserShowsDevices
  <2> SUFFICES ASSUME BrowserInv PROVE BrowserShowsDevices
    OBVIOUS
  <2> DEFINE shown == [names |-> names, rows |-> rows]
  <2>1. IsInjective(devices) /\ ShownInv
    BY DEF BrowserInv, DifferentInv
  <2>2. CASE open
    BY <2>1, <2>2 DEF ShownInv, ShownOf, RowsInv, BrowserShowsDevices
  <2>3. CASE ~open
    <3>1. shown = NoRows
      BY <2>1, <2>3 DEF ShownInv, NoRows
    <3>2. OneRowPerName(shown)
      BY <3>1, NothingShown DEF ShownOf, RowsInv
    <3> QED BY <2>1, <2>3, <3>2 DEF BrowserShowsDevices
  <2> QED BY <2>2, <2>3
<1> QED BY <1>1, BrowserInvariant, PTL

(* Every variable keeps its type: a name has a number no higher than there *)
(* are cameras.                                                            *)
THEOREM DiscoveryWellTyped == Spec => []TypeOK
<1>1. QuitInv /\ BrowserInv => TypeOK
  <2> SUFFICES ASSUME QuitInv, BrowserInv PROVE TypeOK
    OBVIOUS
  <2>1. ListsOK /\ WatcherInv /\ CountsInv /\ ShownInv
    BY DEF QuitInv, BrowserInv
  <2>2. /\ DOMAIN names \subseteq Camera /\ \A c \in DOMAIN names : names[c] \in Name
        /\ IsABag(rows)
    <3>1. CASE open
      <4>1. ToSet(devices) \subseteq Camera
        BY <2>1 DEF ListsOK, ToSet
      <4> QED BY <2>1, <3>1, <4>1 DEF ShownInv, ShownOf, RowsInv
    <3>2. CASE ~open
      <4>1. names = NoRows.names /\ rows = NoRows.rows
        BY <2>1, <3>2 DEF ShownInv, NoRows
      <4> QED BY <4>1, NothingShown DEF ShownOf, RowsInv
    <3> QED BY <3>1, <3>2
  <2> QED BY <2>1, <2>2 DEF ListsOK, WatcherInv, CountsInv, TypeOK, Libraries
<1> QED BY <1>1, BrowserInvariant, PTL
===============================================================================
