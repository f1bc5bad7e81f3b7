----------------------------- MODULE ControlTree -----------------------------
(***************************************************************************)
(* The camera's settings, mirrored into the node tree:                     *)
(* Gfx::DepthCamera::ControlTree (src/DepthCamera/DepthCameraControls.cpp  *)
(* and .hpp) and the routing of writes by depthcam_protocol.               *)
(*                                                                         *)
(* A Writer is a thread that pushes values into the tree: the Qt thread,   *)
(* the execution engine, the thread an OSC message arrived on.  The worker *)
(* carries the requests to the camera, reads back what it settled on, and  *)
(* posts the readings to the Qt thread, which publishes them.              *)
(*                                                                         *)
(* Conversions between ossia values and the backend's doubles are in       *)
(* ControlValues: here a value is a value.                                 *)
(***************************************************************************)
EXTENDS Integers, Sequences, FiniteSets, SequencesExt

CONSTANTS
  Entry,        \* the published controls
  Readable,     \* access & DEPTHCAM_ACCESS_READ
  Writable,     \* access & DEPTHCAM_ACCESS_WRITE
  Value,        \* what a control can be set to and read as
  Default,      \* the descriptor's default
  Faulty,       \* controls whose get_control may fail
  Writer,       \* threads that push values into the tree
  Qt,           \* the Qt thread; it may be one of the writers
  MaxListeners, \* bound: listeners on one parameter
  MaxEvents,    \* bound: posted closures the Qt thread has not finished
  None

ASSUME EntryAssumption ==
  /\ Readable \subseteq Entry /\ Writable \subseteq Entry
  /\ Faulty \subseteq Entry
  /\ IsFiniteSet(Entry)
  /\ Default \in Value
  /\ None \notin Value

ASSUME BoundAssumption == MaxListeners \in Nat \ {0} /\ MaxEvents \in Nat \ {0}

(* Entry::pollable; an action can be written, so it never is. *)
Pollable == Readable \ Writable

VARIABLES
  running,      \* m_running
  routed,       \* depthcam_protocol::m_controls # nullptr
  destroyed,    \* ~ControlTree has returned
  pending,      \* m_pending
  polled,       \* m_polled
  observers,    \* Entry::observers
  last,         \* Entry::last, None until has_last
  worker,       \* where run() is
  batch,        \* the requests run() swapped out and has not served
  results,      \* readings run() has not posted
  scan,         \* the controls the polling pass has not come to
  events,       \* closures posted to m_context
  qt,           \* where the Qt thread is
  closure,      \* the readings the Qt thread is publishing
  todo,         \* the entries refresh() has not posted
  at, arg,      \* where each writer is, with which entry and value
  param,        \* the value a parameter shows
  cam,          \* the value the camera has
  sent,         \* the last value given to set_control, None before
  unread,       \* the entries whose last request ended without a reading
  asked         \* the last value whose write was queued, None before

queueVars   == <<pending, asked>>
workerVars  == <<worker, batch, results, scan>>
qtVars      == <<qt, closure, todo>>
writerVars  == <<at, arg>>
cameraVars  == <<cam, sent, unread>>
observeVars == <<polled, observers>>
lifeVars    == <<running, routed, destroyed>>
vars == <<queueVars, workerVars, qtVars, writerVars, cameraVars, observeVars,
          lifeVars, last, events, param>>

Request == [entry : Entry, value : Value \cup {None}, write : BOOLEAN]

Reading == [entry : Entry, value : Value]

NoArg == [entry |-> None, value |-> None]

TypeOK ==
  /\ running \in BOOLEAN /\ routed \in BOOLEAN /\ destroyed \in BOOLEAN
  /\ pending \in Seq(Request)
  /\ polled \in Nat
  /\ observers \in [Entry -> 0 .. MaxListeners]
  /\ last \in [Entry -> Value \cup {None}]
  /\ worker \in {"test", "lock", "wait", "timedWait", "swap", "check", "serve", "poll", "done"}
  /\ batch \in Seq(Request)
  /\ results \in Seq(Reading)
  /\ scan \subseteq Pollable
  /\ events \in Seq(Seq(Reading))
  /\ qt \in {"idle", "refresh", "route", "count", "uncount", "wake", "publish", "set",
            "exchange", "dtorWake", "join", "gone"}
  /\ closure \in Seq(Reading)
  /\ todo \subseteq Entry
  /\ at \in [Writer -> {"idle", "post", "last"}]
  /\ arg \in [Writer -> Reading \cup {NoArg}]
  /\ param \in [Entry -> Value]
  /\ cam \in [Entry -> Value]
  /\ sent \in [Entry -> Value \cup {None}]
  /\ unread \subseteq Entry
  /\ asked \in [Entry -> Value \cup {None}]

(* The constructor has started the worker and is about to refresh(); the   *)
(* protocol does not know the tree yet.                                    *)
Init ==
  /\ running = TRUE /\ routed = FALSE /\ destroyed = FALSE
  /\ pending = <<>>
  /\ polled = 0
  /\ observers = [e \in Entry |-> 0]
  /\ last = [e \in Entry |-> None]
  /\ worker = "test"
  /\ batch = <<>>
  /\ results = <<>>
  /\ scan = {}
  /\ events = <<>>
  /\ qt = "refresh"
  /\ closure = <<>>
  /\ todo = Readable
  /\ at = [w \in Writer |-> "idle"]
  /\ arg = [w \in Writer |-> NoArg]
  /\ param = [e \in Entry |-> Default]
  /\ cam \in [Entry -> Value]
  /\ sent = [e \in Entry |-> None]
  /\ unread = {}
  /\ asked = [e \in Entry |-> None]

(***************************************************************************)
(* The queue between the callers and the worker.                           *)
(***************************************************************************)

Waiting == worker \in {"wait", "timedWait"}

(* Slip: nobody is notified. *)
Notify_Missing == UNCHANGED worker

(* notify_one: the only waiter wakes up. *)
Notify == worker' = IF Waiting THEN "swap" ELSE worker

Same(r, q) == r.entry = q.entry /\ r.write = q.write

(* Slip: a repeat is dropped, and the queue keeps the first value. *)
Post_KeepsFirst(r) ==
  IF ~running \/ \E i \in DOMAIN pending : Same(pending[i], r) THEN UNCHANGED <<pending, worker>>
  ELSE pending' = Append(pending, r) /\ Notify

(* Slip: repeats are not collapsed.  The bound keeps the queue finite. *)
Post_Appends(r) ==
  IF ~running \/ Len(pending) > 4 THEN UNCHANGED <<pending, worker>>
  ELSE pending' = Append(pending, r) /\ Notify

(* post(): refused once the tree stops; a repeat replaces the value of the *)
(* queued request and wakes nobody.                                        *)
Post(r) ==
  IF ~running THEN UNCHANGED <<pending, worker>>
  ELSE IF \E i \in DOMAIN pending : Same(pending[i], r)
  THEN /\ pending' = [i \in DOMAIN pending |->
                        IF Same(pending[i], r)
                          THEN [pending[i] EXCEPT !.value = r.value] ELSE pending[i]]
       /\ UNCHANGED worker
  ELSE pending' = Append(pending, r) /\ Notify

ReadRequest(e) == [entry |-> e, value |-> None, write |-> FALSE]

WriteRequest(e, v) == [entry |-> e, value |-> v, write |-> TRUE]

(***************************************************************************)
(* The writers.  A Qt writer cannot be interrupted by a publication.       *)
(***************************************************************************)

QtIdle == qt = "idle" /\ (Qt \in Writer => at[Qt] = "idle")

(* ossia stores the value in the parameter, then calls the protocol's      *)
(* push(), which reads m_controls; write() refuses what is not writable,   *)
(* and nothing offers that.                                                *)
Push(w, e, v) ==
  /\ at[w] = "idle" /\ ~destroyed
  /\ w = Qt => qt = "idle"
  /\ e \in Writable
  /\ param' = [param EXCEPT ![e] = v]
  /\ IF routed
       THEN /\ at' = [at EXCEPT ![w] = "post"]
            /\ arg' = [arg EXCEPT ![w] = [entry |-> e, value |-> v]]
       ELSE UNCHANGED writerVars
  /\ UNCHANGED <<queueVars, workerVars, qtVars, cameraVars, observeVars, lifeVars, last, events>>

PostWrite(w) ==
  /\ at[w] = "post"
  /\ Post(WriteRequest(arg[w].entry, arg[w].value))
  /\ asked' = IF running THEN [asked EXCEPT ![arg[w].entry] = arg[w].value] ELSE asked
  /\ at' = [at EXCEPT ![w] = "last"]
  /\ UNCHANGED <<arg, batch, results, scan, qtVars, cameraVars, observeVars, lifeVars, last, events, param>>

(* e.last = raw *)
RecordLast(w) ==
  /\ at[w] = "last"
  /\ last' = [last EXCEPT ![arg[w].entry] = arg[w].value]
  /\ at' = [at EXCEPT ![w] = "idle"]
  /\ arg' = [arg EXCEPT ![w] = NoArg]
  /\ UNCHANGED <<queueVars, workerVars, qtVars, cameraVars, observeVars, lifeVars, events, param>>

(***************************************************************************)
(* The other calls, made on the Qt thread.                                 *)
(***************************************************************************)

Read(e) ==
  /\ QtIdle /\ routed
  /\ e \in Readable
  /\ Post(ReadRequest(e))
  /\ UNCHANGED <<asked, batch, results, scan, qtVars, writerVars, cameraVars, observeVars, lifeVars,
                 last, events, param>>

(* refresh(): one post per readable control. *)
Refresh ==
  /\ QtIdle /\ routed
  /\ qt' = "refresh"
  /\ todo' = Readable
  /\ UNCHANGED <<queueVars, workerVars, closure, writerVars, cameraVars, observeVars, lifeVars,
                 last, events, param>>

RefreshPost ==
  /\ qt = "refresh"
  /\ \/ \E e \in todo :
          Post(ReadRequest(e)) /\ todo' = todo \ {e} /\ UNCHANGED qt
     \/ /\ todo = {}
        /\ qt' = IF routed THEN "idle" ELSE "route"
        /\ UNCHANGED <<pending, worker, todo>>
  /\ UNCHANGED <<asked, batch, results, scan, closure, writerVars, cameraVars, observeVars, lifeVars,
                 last, events, param>>

(* depthcam_device_impl's constructor: setControls() makes the protocol    *)
(* route to the finished tree.                                             *)
Route ==
  /\ qt = "route"
  /\ routed' = TRUE
  /\ qt' = "idle"
  /\ UNCHANGED <<queueVars, workerVars, closure, todo, writerVars, cameraVars, observeVars,
                 running, destroyed, last, events, param>>

(* Slip: every listener that comes is counted as a polled control. *)
Observe_EveryTime(e) ==
  /\ QtIdle /\ routed
  /\ e \in Pollable
  /\ observers[e] < MaxListeners
  /\ observers' = [observers EXCEPT ![e] = @ + 1]
  /\ qt' = "count"
  /\ UNCHANGED <<queueVars, workerVars, closure, todo, writerVars, cameraVars, polled, lifeVars,
                 last, events, param>>

(* observe(): the listeners of the control are counted first, ... *)
Observe(e) ==
  /\ QtIdle /\ routed
  /\ e \in Pollable
  /\ observers[e] < MaxListeners
  /\ observers' = [observers EXCEPT ![e] = @ + 1]
  /\ qt' = IF observers[e] = 0 THEN "count" ELSE "idle"
  /\ UNCHANGED <<queueVars, workerVars, closure, todo, writerVars, cameraVars, polled, lifeVars,
                 last, events, param>>

(* Slip: the number of listeners is not held at zero, and a control that   *)
(* nobody watches can be left once more.                                   *)
Unobserve_BelowZero(e) ==
  /\ QtIdle /\ routed
  /\ e \in Pollable
  /\ observers' = [observers EXCEPT ![e] = @ - 1]
  /\ qt' = IF observers[e] = 1 THEN "uncount" ELSE "idle"
  /\ UNCHANGED <<queueVars, workerVars, closure, todo, writerVars, cameraVars, polled, lifeVars,
                 last, events, param>>

(* Without a listener nothing changes: the number is held at zero.         *)
Unobserve(e) ==
  /\ QtIdle /\ routed
  /\ e \in Pollable
  /\ observers[e] > 0
  /\ observers' = [observers EXCEPT ![e] = @ - 1]
  /\ qt' = IF observers[e] = 1 THEN "uncount" ELSE "idle"
  /\ UNCHANGED <<queueVars, workerVars, closure, todo, writerVars, cameraVars, polled, lifeVars,
                 last, events, param>>

(* Slip: the first observer does not wake the worker up. *)
Count_NoWake ==
  /\ qt = "count"
  /\ polled' = polled + 1
  /\ qt' = "idle"
  /\ UNCHANGED <<queueVars, workerVars, closure, todo, writerVars, cameraVars, observers,
                 lifeVars, last, events, param>>

(* ... then m_polled, a second atomic, follows: the worker may come in     *)
(* between.  The first control that is watched wakes it.                   *)
Count ==
  /\ qt = "count"
  /\ polled' = polled + 1
  /\ qt' = IF polled = 0 THEN "wake" ELSE "idle"
  /\ UNCHANGED <<queueVars, workerVars, closure, todo, writerVars, cameraVars, observers,
                 lifeVars, last, events, param>>

Uncount ==
  /\ qt = "uncount"
  /\ polled' = polled - 1
  /\ qt' = "idle"
  /\ UNCHANGED <<queueVars, workerVars, closure, todo, writerVars, cameraVars, observers,
                 lifeVars, last, events, param>>

Wake ==
  /\ qt \in {"wake", "dtorWake"}
  /\ Notify
  /\ qt' = IF qt = "wake" THEN "idle" ELSE "join"
  /\ UNCHANGED <<queueVars, batch, results, scan, closure, todo, writerVars, cameraVars,
                 observeVars, lifeVars, last, events, param>>

(***************************************************************************)
(* depthcam_device_impl::releaseControls and ~ControlTree.                 *)
(***************************************************************************)

ReleaseControls ==
  /\ QtIdle /\ routed
  /\ routed' = FALSE
  /\ qt' = "exchange"
  /\ UNCHANGED <<queueVars, workerVars, closure, todo, writerVars, cameraVars, observeVars,
                 running, destroyed, last, events, param>>

Exchange ==
  /\ qt = "exchange"
  /\ running' = FALSE
  /\ qt' = "dtorWake"
  /\ UNCHANGED <<queueVars, workerVars, closure, todo, writerVars, cameraVars, observeVars,
                 routed, destroyed, last, events, param>>

(* Slip: signalled, not joined. *)
JoinWorker_NotJoined ==
  /\ qt = "join"
  /\ destroyed' = TRUE
  /\ events' = <<>>
  /\ qt' = "gone"
  /\ UNCHANGED <<queueVars, workerVars, closure, todo, writerVars, cameraVars, observeVars,
                 running, routed, last, param>>

(* join() returns; ~QObject drops the closures that have not run. *)
JoinWorker ==
  /\ qt = "join"
  /\ worker = "done"
  /\ destroyed' = TRUE
  /\ events' = <<>>
  /\ qt' = "gone"
  /\ UNCHANGED <<queueVars, workerVars, closure, todo, writerVars, cameraVars, observeVars,
                 running, routed, last, param>>

(***************************************************************************)
(* The worker: run().                                                      *)
(***************************************************************************)

workerKeeps == <<asked, qtVars, writerVars, observeVars, lifeVars, last, param>>

TestRunning ==
  /\ worker = "test"
  /\ worker' = IF running THEN "lock" ELSE "done"
  /\ UNCHANGED <<workerKeeps, pending, batch, results, scan, events, cameraVars>>

TakeBatch ==
  /\ batch' = pending
  /\ pending' = <<>>
  /\ worker' = "check"

(* Slip: the wait never has a timeout. *)
Lock_NeverTimed ==
  /\ worker = "lock"
  /\ IF pending # <<>> THEN TakeBatch ELSE worker' = "wait" /\ UNCHANGED <<pending, batch>>
  /\ UNCHANGED <<workerKeeps, results, scan, events, cameraVars>>

(* Slip: the wait always has a timeout. *)
Lock_AlwaysTimed ==
  /\ worker = "lock"
  /\ IF pending # <<>> THEN TakeBatch ELSE worker' = "timedWait" /\ UNCHANGED <<pending, batch>>
  /\ UNCHANGED <<workerKeeps, results, scan, events, cameraVars>>

(* With nothing queued the mutex is released into a wait, without timeout  *)
(* unless something is observed.  The wait has no predicate.               *)
Lock ==
  /\ worker = "lock"
  /\ IF pending # <<>> THEN TakeBatch
     ELSE worker' = (IF polled > 0 THEN "timedWait" ELSE "wait") /\ UNCHANGED <<pending, batch>>
  /\ UNCHANGED <<workerKeeps, results, scan, events, cameraVars>>

Timeout ==
  /\ worker = "timedWait"
  /\ worker' = "swap"
  /\ UNCHANGED <<workerKeeps, pending, batch, results, scan, events, cameraVars>>

(* A condition variable may wake up for no reason. *)
SpuriousWakeup ==
  /\ worker = "wait"
  /\ worker' = "swap"
  /\ UNCHANGED <<workerKeeps, pending, batch, results, scan, events, cameraVars>>

(* A waiter that was notified or timed out has taken the mutex again. *)
Swap ==
  /\ worker = "swap"
  /\ TakeBatch
  /\ UNCHANGED <<workerKeeps, results, scan, events, cameraVars>>

(* The second test drops the batch. *)
CheckRunning ==
  /\ worker = "check"
  /\ IF running THEN worker' = "serve" /\ UNCHANGED batch
                ELSE worker' = "done" /\ batch' = <<>>
  /\ UNCHANGED <<workerKeeps, pending, results, scan, events, cameraVars>>

(* get_control: a reading of e, or none if it fails. *)
Readings(e, value) ==
  (IF e \in Readable THEN {<<[entry |-> e, value |-> value]>>} ELSE {<<>>})
    \cup (IF e \in Faulty THEN {<<>>} ELSE {})

ReadBack(e, value) ==
  \E got \in Readings(e, value) :
    /\ results' = results \o got
    /\ unread' = IF got = <<>> THEN unread \cup {e} ELSE unread \ {e}

(* Slip: the write is trusted, nothing is read back. *)
ServeWrite_Trusting(v) ==
  LET r == Head(batch) IN
  /\ worker = "serve"
  /\ batch # <<>> /\ r.write
  /\ cam' = [cam EXCEPT ![r.entry] = v]
  /\ sent' = [sent EXCEPT ![r.entry] = r.value]
  /\ batch' = Tail(batch)
  /\ UNCHANGED <<workerKeeps, pending, worker, results, scan, events, unread>>

(* set_control: the camera takes the value, or settles elsewhere -- it     *)
(* rounds to a step, or refuses while an automatic mode is on.             *)
ServeWrite(v) ==
  LET r == Head(batch) IN
  /\ worker = "serve"
  /\ batch # <<>> /\ r.write
  /\ cam' = [cam EXCEPT ![r.entry] = v]
  /\ sent' = [sent EXCEPT ![r.entry] = r.value]
  /\ ReadBack(r.entry, v)
  /\ batch' = Tail(batch)
  /\ UNCHANGED <<workerKeeps, pending, worker, scan, events>>

ServeRead ==
  LET e == Head(batch).entry IN
  /\ worker = "serve"
  /\ batch # <<>> /\ ~Head(batch).write
  /\ ReadBack(e, cam[e])
  /\ batch' = Tail(batch)
  /\ UNCHANGED <<workerKeeps, pending, worker, scan, events, cam, sent>>

Observed == {e \in Pollable : observers[e] > 0}

(* Then the sensors: the pass goes over the controls only if some are      *)
(* watched.                                                                *)
StartScan ==
  /\ worker = "serve"
  /\ batch = <<>>
  /\ scan' = IF polled > 0 THEN Pollable ELSE {}
  /\ worker' = "poll"
  /\ UNCHANGED <<workerKeeps, pending, batch, results, events, cameraVars>>

(* One control of the pass: it is read if somebody listens to it now.  The *)
(* order, that of the entries in the code, is left open.                   *)
PollEntry(e) ==
  /\ worker = "poll"
  /\ e \in scan
  /\ scan' = scan \ {e}
  /\ IF e \in Observed
       THEN \E got \in Readings(e, cam[e]) : results' = results \o got
       ELSE UNCHANGED results
  /\ UNCHANGED <<workerKeeps, pending, worker, batch, events, cameraVars>>

(* Everything that was read is posted to the Qt thread, in one closure.    *)
(* The bound holds the worker back while that thread can still make room.  *)
Deliver ==
  /\ worker = "poll"
  /\ scan = {}
  /\ Len(events) + (IF qt \in {"publish", "set"} THEN 1 ELSE 0) < MaxEvents \/ ~running
  /\ events' = IF results = <<>> THEN events ELSE Append(events, results)
  /\ results' = <<>>
  /\ worker' = "test"
  /\ UNCHANGED <<workerKeeps, pending, batch, scan, cameraVars>>

(***************************************************************************)
(* Publication, on the Qt thread.                                          *)
(***************************************************************************)

RunEvent ==
  /\ QtIdle /\ events # <<>>
  /\ closure' = Head(events)
  /\ events' = Tail(events)
  /\ qt' = "publish"
  /\ UNCHANGED <<queueVars, workerVars, todo, writerVars, cameraVars, observeVars, lifeVars,
                 last, param>>

(* publish(): nothing to do if this is the value last published or asked.  *)
PublishTest ==
  /\ qt = "publish"
  /\ IF closure = <<>> THEN qt' = "idle" /\ UNCHANGED <<closure, last>>
     ELSE LET r == Head(closure) IN
          IF last[r.entry] = r.value
          THEN closure' = Tail(closure) /\ UNCHANGED <<qt, last>>
          ELSE /\ last' = [last EXCEPT ![r.entry] = r.value]
               /\ qt' = "set"
               /\ UNCHANGED closure
  /\ UNCHANGED <<queueVars, workerVars, todo, writerVars, cameraVars, observeVars, lifeVars,
                 events, param>>

PublishSet ==
  /\ qt = "set"
  /\ param' = [param EXCEPT ![Head(closure).entry] = Head(closure).value]
  /\ closure' = Tail(closure)
  /\ qt' = "publish"
  /\ UNCHANGED <<queueVars, workerVars, todo, writerVars, cameraVars, observeVars, lifeVars,
                 last, events>>

(* The world moves: a temperature drifts. *)
SensorChanges(e, v) ==
  /\ e \in Pollable
  /\ cam' = [cam EXCEPT ![e] = v]
  /\ UNCHANGED <<queueVars, workerVars, qtVars, writerVars, sent, unread, observeVars, lifeVars,
                 last, events, param>>

(* The tree is gone: nothing is left to happen to it. *)
Destroyed == destroyed /\ UNCHANGED vars

(***************************************************************************)
(* The specification.                                                      *)
(***************************************************************************)

WriterCall(w) == \E e \in Entry, v \in Value : Push(w, e, v)

WriterStep(w) == PostWrite(w) \/ RecordLast(w)

QtCall ==
  \/ \E e \in Entry : Read(e) \/ Observe(e) \/ Unobserve(e)
  \/ Refresh
  \/ ReleaseControls

QtStep ==
  \/ RefreshPost \/ Route \/ Count \/ Uncount \/ Wake
  \/ Exchange \/ JoinWorker
  \/ PublishTest \/ PublishSet

WorkerStep ==
  \/ TestRunning \/ Lock \/ Timeout \/ Swap \/ CheckRunning
  \/ \E v \in Value : ServeWrite(v)
  \/ ServeRead \/ StartScan \/ Deliver
  \/ \E e \in Entry : PollEntry(e)

Next ==
  \/ \E w \in Writer : WriterCall(w) \/ WriterStep(w)
  \/ QtCall \/ QtStep \/ RunEvent
  \/ WorkerStep \/ SpuriousWakeup
  \/ \E e \in Entry, v \in Value : SensorChanges(e, v)
  \/ Destroyed

Spec == Init /\ [][Next]_vars

(* The threads run, the Qt event loop gets to every posted closure however *)
(* often it is called in between, a timed wait ends.  A condition variable *)
(* need not wake up by itself.                                             *)
Fairness ==
  /\ \A w \in Writer : WF_vars(WriterStep(w))
  /\ WF_vars(QtStep)
  /\ SF_vars(RunEvent)
  /\ WF_vars(WorkerStep)

FairSpec == Spec /\ Fairness

(***************************************************************************)
(* Properties.                                                             *)
(***************************************************************************)

(* "Collapse repeats": the queue holds at most one write and one read of   *)
(* each control, however fast an automation curve writes, so it is bounded *)
(* by twice the number of controls.                                        *)
PendingCollapsed ==
  \A i, j \in DOMAIN pending : Same(pending[i], pending[j]) => i = j

WritesOf(seq, e) == {i \in DOMAIN seq : seq[i].write /\ seq[i].entry = e}

(* The value last queued for a control is the one the camera is given      *)
(* last: it is in the queue, or else in the batch, or else it was the last *)
(* one sent.  Collapsing replaces a value only by a later one, and a batch *)
(* in the worker's hands never overtakes the queue.                        *)
LastWriteWins ==
  worker # "done" => \A e \in Entry :
    IF WritesOf(pending, e) # {} THEN \A i \in WritesOf(pending, e) : pending[i].value = asked[e]
    ELSE IF WritesOf(batch, e) # {} THEN \A i \in WritesOf(batch, e) : batch[i].value = asked[e]
    ELSE sent[e] = asked[e]

WriteIn(seq, e) ==
  IF WritesOf(seq, e) = {} THEN None ELSE seq[CHOOSE i \in WritesOf(seq, e) : TRUE].value

(* The way of a value to one control: it waits in the queue, and is taken  *)
(* with the batch.                                                         *)
Channel(e) == INSTANCE LatestValue WITH
  alive   <- running,
  waiting <- WriteIn(pending, e),
  taken   <- WriteIn(batch, e),
  given   <- sent[e],
  asked   <- asked[e]

(* However the writers and the worker interleave, the writes of a control  *)
(* reach the camera in the order they were queued in, whichever were       *)
(* collapsed, and the last one does last: each control has a LatestValue   *)
(* of its own, though all of them share one queue with the reads.          *)
WritesArriveInOrder ==
  [][LastWriteWins' /\ \A e \in Entry : [Channel(e)!Next]_(Channel(e)!vars)]_vars

(* m_polled, which decides whether the worker sleeps with or without a     *)
(* timeout, is the number of read-only controls with a listener.  While    *)
(* the Qt thread is between the two counters it is off by that one change, *)
(* and never by more.                                                      *)
PolledCountsObserved ==
  Cardinality(Observed) =
    CASE qt = "count"   -> polled + 1
      [] qt = "uncount" -> polled - 1
      [] OTHER          -> polled

Quiet ==
  /\ Waiting /\ pending = <<>>
  /\ events = <<>> /\ QtIdle /\ routed
  /\ \A w \in Writer : at[w] = "idle"

(* "If the camera clamps or rounds it, the worker's read-back corrects     *)
(* it": once everything has settled, a control that can be set and read    *)
(* shows the value the camera really has, unless reading it failed.        *)
QuietTreeMatchesCamera ==
  Quiet => \A e \in (Readable \cap Writable) \ unread : param[e] = cam[e]

(* "A write arriving in between cannot reach a dying object": a tree that  *)
(* has been destroyed has no writer inside write().                        *)
DeadTreeUntouched == destroyed => \A w \in Writer : at[w] = "idle"

(* "The worker first, and joined, not just signalled": once ~ControlTree   *)
(* has returned, whoever was writing, the worker is past its last use of   *)
(* the tree and of the camera, which is closed next, and no closure that   *)
(* points into the tree is left for the Qt thread or being run by it.      *)
NothingOutlivesTree ==
  destroyed => worker = "done" /\ events = <<>> /\ closure = <<>>

(* The value last queued for a control gets to the camera, unless another  *)
(* replaces it or the tree is taken down first.                            *)
WriteReachesCamera ==
  \A e \in Entry, v \in Value :
    asked[e] = v /\ sent[e] # v ~> sent[e] = v \/ asked[e] # v \/ ~running

(* A read-only control that stays observed is tracked: if its value stops  *)
(* changing, the tree comes to show it and keeps showing it.               *)
ObservedSensorTracked ==
  \A e \in Pollable \ Faulty, v \in Value :
    <>[](routed /\ observers[e] > 0 /\ cam[e] = v) => <>[](param[e] = v)

(* "With nothing observed there is no timeout at all, so an idle camera is *)
(* not touched": when no requests come, the worker is found asleep, for    *)
(* good, again and again.                                                  *)
IdleWorkerSleeps ==
  <>[](routed /\ polled = 0 /\ pending = <<>>) => []<>(worker = "wait")

(* The destructor returns when a sensor is observed: the worker is then    *)
(* never in a wait without a timeout for long.                             *)
DestructorReturnsWhilePolling ==
  qt = "exchange" /\ polled > 0 ~> destroyed

(* "The worker first, and joined, not just signalled": the destructor of   *)
(* the tree, on the Qt thread, returns.                                    *)
DestructorReturns == qt = "exchange" ~> destroyed
=============================================================================
