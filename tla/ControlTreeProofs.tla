-------------------------- MODULE ControlTreeProofs ---------------------------
(***************************************************************************)
(* What ControlTree guarantees for every set of controls, values and       *)
(* writers: the poll counter is exact, the queue stays collapsed, the last *)
(* value queued for a control is the last one the camera is given, and a   *)
(* tree that is gone leaves neither a worker nor a closure behind; where   *)
(* only the Qt thread writes, a tree that has settled shows what the       *)
(* camera answered.                                                        *)
(***************************************************************************)
EXTENDS ControlTree, FiniteSetTheorems, SequenceTheorems, TLAPS

(* A writer that is inside write() holds a value for a control. *)
ArgsOK == \A w \in Writer : at[w] # "idle" => arg[w] \in Reading

(* The worker has no batch until it has swapped one out; the Qt thread     *)
(* sets a parameter from the reading at the head of its closure.           *)
PhaseOK ==
  /\ worker \in {"test", "lock", "wait", "timedWait", "swap", "poll"} => batch = <<>>
  /\ qt = "set" => closure # <<>>

TypeInv == TypeOK /\ ArgsOK /\ PhaseOK /\ PolledCountsObserved

IInv == TypeInv /\ PendingCollapsed /\ LastWriteWins

(***************************************************************************)
(* The queue.                                                              *)
(***************************************************************************)

(* post() keeps the queue a queue of requests, and only wakes the worker. *)
LEMMA PostType ==
  ASSUME pending \in Seq(Request), NEW r \in Request, Post(r)
  PROVE  /\ pending' \in Seq(Request)
         /\ worker' = worker \/ (Waiting /\ worker' = "swap")
<1>1. CASE ~running
  BY <1>1 DEF Post
<1>2. CASE running /\ \E i \in DOMAIN pending : Same(pending[i], r)
  <2>1. /\ pending' = [i \in DOMAIN pending |->
                        IF Same(pending[i], r)
                          THEN [pending[i] EXCEPT !.value = r.value] ELSE pending[i]]
        /\ UNCHANGED worker
    BY <1>2 DEF Post
  <2>2. \A i \in DOMAIN pending : pending[i] \in Request
    OBVIOUS
  <2>3. \A i \in DOMAIN pending : [pending[i] EXCEPT !.value = r.value] \in Request
    BY <2>2 DEF Request
  <2>4. DOMAIN pending = 1..Len(pending) /\ Len(pending) \in Nat
    OBVIOUS
  <2> QED
    BY <2>1, <2>2, <2>3, <2>4
<1>3. CASE running /\ ~\E i \in DOMAIN pending : Same(pending[i], r)
  BY <1>3 DEF Post, Notify
<1> QED
  BY <1>1, <1>2, <1>3

(* A repeat replaces, so there are never two requests of one kind for one  *)
(* control.                                                                *)
LEMMA PostCollapses ==
  ASSUME pending \in Seq(Request), NEW r \in Request, Post(r), PendingCollapsed
  PROVE  PendingCollapsed'
<1>1. CASE ~running
  BY <1>1 DEF Post, PendingCollapsed
<1>2. CASE running /\ \E i \in DOMAIN pending : Same(pending[i], r)
  <2>1. /\ DOMAIN pending' = DOMAIN pending
        /\ \A i \in DOMAIN pending :
             pending'[i].entry = pending[i].entry /\ pending'[i].write = pending[i].write
    <3>1. pending' = [i \in DOMAIN pending |->
                        IF Same(pending[i], r)
                          THEN [pending[i] EXCEPT !.value = r.value] ELSE pending[i]]
      BY <1>2 DEF Post
    <3>2. \A i \in DOMAIN pending : pending[i] \in Request
      OBVIOUS
    <3> QED
      BY <3>1, <3>2 DEF Request
  <2> QED
    BY <2>1 DEF PendingCollapsed, Same
<1>3. CASE running /\ ~\E i \in DOMAIN pending : Same(pending[i], r)
  <2>1. pending' = Append(pending, r)
    BY <1>3 DEF Post
  <2>2. /\ DOMAIN pending = 1..Len(pending) /\ Len(pending) \in Nat
        /\ DOMAIN pending' = 1..(Len(pending) + 1)
        /\ \A i \in DOMAIN pending : pending'[i] = pending[i]
        /\ pending'[Len(pending) + 1] = r
    BY <2>1
  <2> SUFFICES ASSUME NEW i \in DOMAIN pending', NEW j \in DOMAIN pending',
                      Same(pending'[i], pending'[j])
               PROVE  i = j
    BY DEF PendingCollapsed
  <2>3. CASE i \in DOMAIN pending /\ j \in DOMAIN pending
    BY <2>2, <2>3 DEF PendingCollapsed
  <2>4. CASE i = Len(pending) + 1 \/ j = Len(pending) + 1
    BY <1>3, <2>2, <2>4 DEF Same
  <2> QED
    BY <2>2, <2>3, <2>4
<1> QED
  BY <1>1, <1>2, <1>3

(* What a write leaves in the queue for each control: its own value for    *)
(* its own control, and the others as they were.                           *)
LEMMA PostWrites ==
  ASSUME pending \in Seq(Request), NEW e \in Entry, NEW v, v \in Value \cup {None},
         running, Post(WriteRequest(e, v))
  PROVE  /\ WritesOf(pending', e) # {}
         /\ \A i \in WritesOf(pending', e) : pending'[i].value = v
         /\ \A f \in Entry \ {e} :
              /\ WritesOf(pending', f) = WritesOf(pending, f)
              /\ \A i \in WritesOf(pending, f) : pending'[i] = pending[i]
<1> DEFINE r == WriteRequest(e, v)
<1>0. r \in Request /\ r.entry = e /\ r.write = TRUE /\ r.value = v
  BY DEF WriteRequest, Request
<1>1. /\ DOMAIN pending = 1..Len(pending) /\ Len(pending) \in Nat
      /\ \A i \in DOMAIN pending : pending[i] \in Request
  OBVIOUS
<1> HIDE DEF r
<1>2. CASE \E i \in DOMAIN pending : Same(pending[i], r)
  <2>1. /\ DOMAIN pending' = DOMAIN pending
        /\ \A i \in DOMAIN pending :
             pending'[i] = IF Same(pending[i], r)
                             THEN [pending[i] EXCEPT !.value = r.value] ELSE pending[i]
    BY <1>2 DEF Post, r
  <2> QED
    BY <1>0, <1>1, <1>2, <2>1 DEF WritesOf, Same, Request
<1>3. CASE ~\E i \in DOMAIN pending : Same(pending[i], r)
  <2>1. pending' = Append(pending, r)
    BY <1>3 DEF Post, r
  <2>2. /\ DOMAIN pending' = 1..(Len(pending) + 1)
        /\ \A i \in DOMAIN pending : pending'[i] = pending[i]
        /\ pending'[Len(pending) + 1] = r
    BY <1>0, <1>1, <2>1
  <2>3. Len(pending) + 1 \in WritesOf(pending', e)
    BY <1>0, <1>1, <2>2 DEF WritesOf
  <2>4. \A i \in WritesOf(pending', e) : i = Len(pending) + 1
    BY <1>0, <1>1, <1>3, <2>2 DEF WritesOf, Same, Request
  <2>5. \A f \in Entry \ {e} : /\ WritesOf(pending', f) = WritesOf(pending, f)
                               /\ \A i \in WritesOf(pending, f) : pending'[i] = pending[i]
    BY <1>0, <1>1, <2>2 DEF WritesOf
  <2> QED
    BY <1>0, <2>2, <2>3, <2>4, <2>5
<1> QED
  BY <1>2, <1>3

(* A read leaves the writes alone, and so does a call that is refused. *)
LEMMA PostReads ==
  ASSUME pending \in Seq(Request), NEW r \in Request, Post(r), ~r.write \/ ~running
  PROVE  \A f \in Entry : /\ WritesOf(pending', f) = WritesOf(pending, f)
                          /\ \A i \in WritesOf(pending, f) : pending'[i] = pending[i]
<1>1. /\ DOMAIN pending = 1..Len(pending) /\ Len(pending) \in Nat
      /\ \A i \in DOMAIN pending : pending[i] \in Request
  OBVIOUS
<1>2. CASE ~running
  BY <1>2 DEF Post
<1>3. CASE running /\ \E i \in DOMAIN pending : Same(pending[i], r)
  <2>1. /\ DOMAIN pending' = DOMAIN pending
        /\ \A i \in DOMAIN pending :
             pending'[i] = IF Same(pending[i], r)
                             THEN [pending[i] EXCEPT !.value = r.value] ELSE pending[i]
    BY <1>3 DEF Post
  <2> QED
    BY <1>1, <1>3, <2>1 DEF WritesOf, Same, Request
<1>4. CASE running /\ ~\E i \in DOMAIN pending : Same(pending[i], r)
  <2>1. pending' = Append(pending, r)
    BY <1>4 DEF Post
  <2>2. /\ DOMAIN pending' = 1..(Len(pending) + 1)
        /\ \A i \in DOMAIN pending : pending'[i] = pending[i]
        /\ pending'[Len(pending) + 1] = r
    BY <1>1, <2>1
  <2> QED
    BY <1>1, <1>4, <2>2 DEF WritesOf
<1> QED
  BY <1>2, <1>3, <1>4

(***************************************************************************)
(* Types, the poll counter and the phases.                                 *)
(***************************************************************************)

LEMMA InitType == Init => TypeInv
<1> SUFFICES ASSUME Init PROVE TypeInv
  OBVIOUS
<1> USE EntryAssumption, BoundAssumption DEF Init
<1>1. TypeOK
  <2>1. /\ pending \in Seq(Request) /\ batch \in Seq(Request) /\ results \in Seq(Reading)
        /\ events \in Seq(Seq(Reading)) /\ closure \in Seq(Reading)
    OBVIOUS
  <2>2. /\ at \in [Writer -> {"idle", "post", "last"}]
        /\ arg \in [Writer -> Reading \cup {NoArg}]
    OBVIOUS
  <2>3. /\ observers \in [Entry -> 0 .. MaxListeners]
        /\ last \in [Entry -> Value \cup {None}] /\ sent \in [Entry -> Value \cup {None}]
        /\ asked \in [Entry -> Value \cup {None}]
        /\ param \in [Entry -> Value] /\ cam \in [Entry -> Value]
    OBVIOUS
  <2>4. scan \subseteq Pollable /\ todo \subseteq Entry
    OBVIOUS
  <2> QED
    BY <2>1, <2>2, <2>3, <2>4 DEF TypeOK
<1>2. ArgsOK /\ PhaseOK
  BY DEF ArgsOK, PhaseOK
<1>3. PolledCountsObserved
  <2>1. Observed = {}
    BY DEF Observed, Pollable
  <2> QED
    BY <2>1, FS_EmptySet DEF PolledCountsObserved
<1> QED
  BY <1>1, <1>2, <1>3 DEF TypeInv

(* The observed controls are finitely many. *)
LEMMA ObservedFinite == IsFiniteSet(Observed) /\ Cardinality(Observed) \in Nat
<1>1. Observed \in SUBSET Entry
  BY EntryAssumption DEF Observed, Pollable
<1> QED
  BY <1>1, EntryAssumption, FS_Subset, FS_CardinalityType

(* One listener more or less changes the number of observed controls       *)
(* exactly when it is the first or the last, and then the Qt thread goes   *)
(* on to the counter.                                                      *)
LEMMA ListenerCounted ==
  ASSUME TypeOK, PolledCountsObserved, NEW e \in Entry, Observe(e) \/ Unobserve(e)
  PROVE  PolledCountsObserved'
<1> USE EntryAssumption, BoundAssumption DEF TypeOK
<1>0. qt = "idle" /\ Cardinality(Observed) = polled /\ polled' = polled
  BY DEF Observe, Unobserve, QtIdle, PolledCountsObserved
<1>1. CASE Observe(e)
  <2>1. Observed' = Observed \cup {e} /\ (e \in Observed <=> observers[e] # 0)
    BY <1>1 DEF Observe, Observed
  <2>2. Cardinality(Observed') = IF observers[e] = 0 THEN Cardinality(Observed) + 1
                                                     ELSE Cardinality(Observed)
    BY <2>1, ObservedFinite, FS_AddElement
  <2>3. qt' = IF observers[e] = 0 THEN "count" ELSE "idle"
    BY <1>1 DEF Observe
  <2> QED
    BY <1>0, <2>2, <2>3 DEF PolledCountsObserved
<1>2. CASE Unobserve(e)
  <2>1. Observed' = IF observers[e] = 1 THEN Observed \ {e} ELSE Observed
    BY <1>2 DEF Unobserve, Observed
  <2>2. e \in Observed
    BY <1>2 DEF Unobserve, Observed
  <2>3. Cardinality(Observed \ {e}) = Cardinality(Observed) - 1
    BY <2>2, ObservedFinite, FS_RemoveElement
  <2>4. qt' = IF observers[e] = 1 THEN "uncount" ELSE "idle"
    BY <1>2 DEF Unobserve
  <2> QED
    BY <1>0, <2>1, <2>3, <2>4 DEF PolledCountsObserved
<1> QED
  BY <1>1, <1>2

(* The counter follows the listeners. *)
LEMMA CounterFollows ==
  ASSUME TypeOK, PolledCountsObserved, Count \/ Uncount
  PROVE  PolledCountsObserved' /\ polled' \in Nat /\ qt' \in {"idle", "wake"}
<1>1. Observed' = Observed
  BY DEF Count, Uncount, Observed
<1>2. CASE Count
  BY <1>1, <1>2 DEF Count, PolledCountsObserved, TypeOK
<1>3. CASE Uncount
  <2>1. Cardinality(Observed) = polled - 1
    BY <1>3 DEF Uncount, PolledCountsObserved
  <2> QED
    BY <1>1, <1>3, <2>1, ObservedFinite DEF Uncount, PolledCountsObserved
<1> QED
  BY <1>2, <1>3

(* A poll of one control adds at most its reading. *)
LEMMA PollEntryAdds ==
  ASSUME TypeOK, NEW e \in Entry, PollEntry(e)
  PROVE  \E got \in Seq(Reading) :
           /\ results' = results \o got
           /\ \A i \in DOMAIN got : got[i].entry = e
<1>1. results = results \o <<>> /\ <<>> \in Seq(Reading)
  BY DEF TypeOK
<1>2. CASE UNCHANGED results
  <2>1. \A i \in DOMAIN <<>> : <<>>[i].entry = e
    OBVIOUS
  <2> QED
    BY <1>1, <1>2, <2>1
<1>3. ASSUME NEW got \in Readings(e, cam[e]), results' = results \o got
      PROVE  got \in Seq(Reading) /\ \A i \in DOMAIN got : got[i].entry = e
  <2>1. [entry |-> e, value |-> cam[e]] \in Reading
    BY DEF Reading, TypeOK
  <2>2. <<[entry |-> e, value |-> cam[e]]>> \in Seq(Reading)
    BY <2>1
  <2>3. got = <<>> \/ got = <<[entry |-> e, value |-> cam[e]]>>
    BY <1>3 DEF Readings
  <2>4. CASE got = <<>>
    BY <1>1, <2>4
  <2>5. CASE got = <<[entry |-> e, value |-> cam[e]]>>
    BY <2>2, <2>5
  <2> QED
    BY <2>3, <2>4, <2>5
<1> QED
  BY <1>2, <1>3 DEF PollEntry

(* What get_control returned is added to the readings. *)
LEMMA ReadBackType ==
  ASSUME results \in Seq(Reading), unread \subseteq Entry,
         NEW e \in Entry, NEW v \in Value, ReadBack(e, v)
  PROVE  results' \in Seq(Reading) /\ unread' \subseteq Entry
<1>1. PICK got \in Readings(e, v) :
        /\ results' = results \o got
        /\ unread' = IF got = <<>> THEN unread \cup {e} ELSE unread \ {e}
  BY DEF ReadBack
<1>2. got = <<>> \/ got = <<[entry |-> e, value |-> v]>>
  BY DEF Readings
<1>3. got \in Seq(Reading)
  <2>1. [entry |-> e, value |-> v] \in Reading
    BY DEF Reading
  <2>2. <<[entry |-> e, value |-> v]>> \in Seq(Reading)
    BY <2>1
  <2>3. <<>> \in Seq(Reading)
    OBVIOUS
  <2> QED
    BY <1>2, <2>2, <2>3
<1> QED
  BY <1>1, <1>3, ConcatProperties

LEMMA TypeWriter ==
  ASSUME TypeInv, NEW w \in Writer, WriterCall(w) \/ WriterStep(w)
  PROVE  TypeInv'
<1> USE EntryAssumption DEF TypeInv, TypeOK, ArgsOK, PhaseOK, queueVars, workerVars, qtVars,
        writerVars, cameraVars, observeVars, lifeVars
<1>1. PolledCountsObserved'
  <2>1. UNCHANGED <<polled, observers, qt>>
    BY DEF WriterCall, WriterStep, Push, PostWrite, RecordLast
  <2> QED
    BY <2>1 DEF PolledCountsObserved, Observed
<1>2. ASSUME NEW e \in Entry, NEW v \in Value, Push(w, e, v) PROVE TypeInv'
  <2>1. [entry |-> e, value |-> v] \in Reading
    BY DEF Reading
  <2> QED
    BY <1>1, <1>2, <2>1 DEF Push
<1>3. CASE PostWrite(w)
  <2>1. arg[w] \in Reading
    BY <1>3 DEF PostWrite
  <2>2. /\ arg[w].entry \in Entry /\ arg[w].value \in Value
        /\ WriteRequest(arg[w].entry, arg[w].value) \in Request
    BY <2>1 DEF Reading, Request, WriteRequest
  <2>3. /\ pending' \in Seq(Request)
        /\ worker' = worker \/ (Waiting /\ worker' = "swap")
    BY <1>3, <2>2, PostType DEF PostWrite
  <2> QED
    BY <1>1, <1>3, <2>1, <2>2, <2>3 DEF PostWrite, Waiting
<1>4. CASE RecordLast(w)
  <2>1. arg[w] \in Reading
    BY <1>4 DEF RecordLast
  <2>2. arg[w].entry \in Entry /\ arg[w].value \in Value
    BY <2>1 DEF Reading
  <2> QED
    BY <1>1, <1>4, <2>2 DEF RecordLast
<1> QED
  BY <1>2, <1>3, <1>4 DEF WriterCall, WriterStep

LEMMA TypeQt ==
  ASSUME TypeInv, QtCall \/ QtStep \/ RunEvent
  PROVE  TypeInv'
<1> USE EntryAssumption, BoundAssumption
    DEF TypeInv, TypeOK, ArgsOK, PhaseOK, queueVars, workerVars, qtVars,
        writerVars, cameraVars, observeVars, lifeVars
<1>0. ASSUME UNCHANGED <<polled, observers>>,
             UNCHANGED qt \/ {qt, qt'} \cap {"count", "uncount"} = {}
      PROVE  PolledCountsObserved'
  BY <1>0 DEF PolledCountsObserved, Observed
<1>1. ASSUME NEW e \in Entry, Read(e) PROVE TypeInv'
  <2>1. ReadRequest(e) \in Request
    BY DEF ReadRequest, Request
  <2>2. /\ pending' \in Seq(Request)
        /\ worker' = worker \/ (Waiting /\ worker' = "swap")
    BY <1>1, <2>1, PostType DEF Read
  <2> QED
    BY <1>0, <1>1, <2>2 DEF Read, Waiting
<1>2. ASSUME NEW e \in Entry, Observe(e) \/ Unobserve(e) PROVE TypeInv'
  <2>1. PolledCountsObserved'
    BY <1>2, ListenerCounted
  <2>2. CASE Observe(e)
    BY <2>1, <2>2 DEF Observe
  <2>3. CASE Unobserve(e)
    BY <2>1, <2>3 DEF Unobserve
  <2> QED
    BY <1>2, <2>2, <2>3
<1>3. CASE Refresh
  BY <1>0, <1>3 DEF Refresh, QtIdle
<1>4. CASE RefreshPost
  <2>1. CASE UNCHANGED <<pending, worker>>
    BY <1>0, <1>4, <2>1 DEF RefreshPost
  <2>2. ASSUME NEW e \in todo, Post(ReadRequest(e)), todo' = todo \ {e}, UNCHANGED qt
        PROVE  TypeInv'
    <3>1. ReadRequest(e) \in Request
      BY DEF ReadRequest, Request
    <3>2. /\ pending' \in Seq(Request)
          /\ worker' = worker \/ (Waiting /\ worker' = "swap")
      BY <2>2, <3>1, PostType
    <3> QED
      BY <1>0, <1>4, <2>2, <3>2 DEF RefreshPost, Waiting
  <2> QED
    BY <1>4, <2>1, <2>2 DEF RefreshPost
<1>5. CASE Wake
  BY <1>0, <1>5 DEF Wake, Notify, Waiting
<1>6. CASE ReleaseControls \/ Exchange \/ Route
  BY <1>0, <1>6 DEF ReleaseControls, Exchange, Route, QtIdle
<1>10. CASE Count \/ Uncount
  <2>1. PolledCountsObserved' /\ polled' \in Nat /\ qt' \in {"idle", "wake"}
    BY <1>10, CounterFollows
  <2>2. /\ qt \in {"count", "uncount"}
        /\ UNCHANGED <<queueVars, workerVars, closure, todo, writerVars, cameraVars, observers,
                       lifeVars, last, events, param>>
    BY <1>10 DEF Count, Uncount
  <2> QED
    BY <2>1, <2>2
<1>7. CASE JoinWorker
  <2>1. <<>> \in Seq(Seq(Reading))
    OBVIOUS
  <2> QED
    BY <1>0, <1>7, <2>1 DEF JoinWorker
<1>8. CASE RunEvent
  <2>1. Head(events) \in Seq(Reading) /\ Tail(events) \in Seq(Seq(Reading))
    BY <1>8 DEF RunEvent
  <2> QED
    BY <1>0, <1>8, <2>1 DEF RunEvent, QtIdle
<1>9. CASE PublishTest \/ PublishSet
  <2>1. CASE closure = <<>>
    BY <1>0, <1>9, <2>1 DEF PublishTest, PublishSet
  <2>2. CASE closure # <<>>
    <3>1. Head(closure) \in Reading /\ Tail(closure) \in Seq(Reading)
      BY <2>2
    <3>2. Head(closure).entry \in Entry /\ Head(closure).value \in Value
      BY <3>1 DEF Reading
    <3>3. CASE PublishTest
      BY <1>0, <2>2, <3>1, <3>2, <3>3 DEF PublishTest
    <3>4. CASE PublishSet
      BY <1>0, <2>2, <3>1, <3>2, <3>4 DEF PublishSet
    <3> QED
      BY <1>9, <3>3, <3>4
  <2> QED
    BY <2>1, <2>2
<1> QED
  BY <1>1, <1>2, <1>3, <1>4, <1>5, <1>6, <1>7, <1>8, <1>9, <1>10 DEF QtCall, QtStep

LEMMA TypeWorker ==
  ASSUME TypeInv, WorkerStep \/ SpuriousWakeup
  PROVE  TypeInv'
<1> USE EntryAssumption, BoundAssumption
    DEF TypeInv, TypeOK, ArgsOK, PhaseOK, workerKeeps, qtVars, writerVars, cameraVars,
        observeVars, lifeVars
<1>0. PolledCountsObserved'
  <2>1. UNCHANGED <<polled, observers, qt>>
    BY DEF WorkerStep, TestRunning, Lock, Timeout, Swap, CheckRunning, ServeWrite, ServeRead,
           StartScan, PollEntry, Deliver, SpuriousWakeup
  <2> QED
    BY <2>1 DEF PolledCountsObserved, Observed
<1>1. CASE TestRunning \/ Timeout \/ CheckRunning \/ SpuriousWakeup
  <2>1. CASE TestRunning
    BY <1>0, <2>1 DEF TestRunning
  <2>2. CASE Timeout \/ SpuriousWakeup
    BY <1>0, <2>2 DEF Timeout, SpuriousWakeup
  <2>3. CASE CheckRunning
    <3>1. CASE running
      BY <1>0, <2>3, <3>1 DEF CheckRunning
    <3>2. CASE ~running
      <4>1. batch' = <<>> /\ worker' = "done"
        BY <2>3, <3>2 DEF CheckRunning
      <4>2. <<>> \in Seq(Request)
        OBVIOUS
      <4> QED
        BY <1>0, <2>3, <4>1, <4>2 DEF CheckRunning
    <3> QED
      BY <3>1, <3>2
  <2> QED
    BY <1>1, <2>1, <2>2, <2>3
<1>2. CASE Lock \/ Swap
  BY <1>0, <1>2 DEF Lock, Swap, TakeBatch
<1>3. ASSUME NEW v \in Value, ServeWrite(v) PROVE TypeInv'
  <2>1. Head(batch) \in Request /\ Tail(batch) \in Seq(Request)
    BY <1>3 DEF ServeWrite
  <2>2. Head(batch).entry \in Entry /\ Head(batch).value \in Value \cup {None}
    BY <2>1 DEF Request
  <2>3. results' \in Seq(Reading) /\ unread' \subseteq Entry
    BY <1>3, <2>2, ReadBackType DEF ServeWrite
  <2> QED
    BY <1>0, <1>3, <2>1, <2>2, <2>3 DEF ServeWrite
<1>4. CASE ServeRead
  <2>1. Head(batch) \in Request /\ Tail(batch) \in Seq(Request)
    BY <1>4 DEF ServeRead
  <2>2. Head(batch).entry \in Entry /\ cam[Head(batch).entry] \in Value
    BY <2>1 DEF Request
  <2>3. results' \in Seq(Reading) /\ unread' \subseteq Entry
    BY <1>4, <2>2, ReadBackType DEF ServeRead
  <2> QED
    BY <1>0, <1>4, <2>1, <2>2, <2>3 DEF ServeRead
<1>5. CASE StartScan
  BY <1>0, <1>5 DEF StartScan
<1>6. ASSUME NEW e \in Entry, PollEntry(e) PROVE TypeInv'
  <2>1. PICK got \in Seq(Reading) : results' = results \o got
    BY <1>6, PollEntryAdds
  <2>2. results' \in Seq(Reading)
    BY <2>1, ConcatProperties
  <2> QED
    BY <1>0, <1>6, <2>2 DEF PollEntry
<1>7. CASE Deliver
  <2>1. events' \in Seq(Seq(Reading)) /\ results' \in Seq(Reading)
    BY <1>7 DEF Deliver
  <2> QED
    BY <1>0, <1>7, <2>1 DEF Deliver
<1> QED
  BY <1>1, <1>2, <1>3, <1>4, <1>5, <1>6, <1>7 DEF WorkerStep

LEMMA NextType == TypeInv /\ [Next]_vars => TypeInv'
<1> SUFFICES ASSUME TypeInv, [Next]_vars PROVE TypeInv'
  OBVIOUS
<1>1. ASSUME NEW e \in Entry, NEW v \in Value, SensorChanges(e, v) PROVE TypeInv'
  BY <1>1 DEF TypeInv, TypeOK, ArgsOK, PhaseOK, SensorChanges, queueVars, workerVars, qtVars,
     writerVars, observeVars, lifeVars, PolledCountsObserved, Observed
<1>2. CASE UNCHANGED vars
  BY <1>2 DEF TypeInv, TypeOK, ArgsOK, PhaseOK, vars, queueVars, workerVars, qtVars,
     writerVars, cameraVars, observeVars, lifeVars, PolledCountsObserved, Observed
<1> QED
  BY <1>1, <1>2, TypeWriter, TypeQt, TypeWorker DEF Next, Destroyed

(***************************************************************************)
(* The queue stays collapsed.                                              *)
(***************************************************************************)

(* Every step leaves the queue alone, empties it, or posts one request.    *)
LEMMA QueueSteps ==
  ASSUME TypeInv, [Next]_vars
  PROVE  \/ UNCHANGED pending
         \/ pending' = <<>>
         \/ \E r \in Request : Post(r) /\ (r.write => r.value \in Value)
<1> USE DEF TypeInv, TypeOK, queueVars, workerVars, workerKeeps
<1>1. ASSUME NEW w \in Writer, WriterCall(w) \/ WriterStep(w)
      PROVE  \/ UNCHANGED pending
             \/ \E r \in Request : Post(r) /\ (r.write => r.value \in Value)
  <2>1. CASE PostWrite(w)
    <3>1. arg[w] \in Reading
      BY <2>1 DEF PostWrite, ArgsOK
    <3>2. /\ WriteRequest(arg[w].entry, arg[w].value) \in Request
          /\ WriteRequest(arg[w].entry, arg[w].value).value \in Value
      BY <3>1 DEF Reading, Request, WriteRequest
    <3> QED
      BY <2>1, <3>2 DEF PostWrite
  <2>2. CASE ~PostWrite(w)
    BY <1>1, <2>2 DEF WriterCall, WriterStep, Push, RecordLast
  <2> QED
    BY <2>1, <2>2
<1>2. ASSUME QtCall \/ QtStep \/ RunEvent
      PROVE  \/ UNCHANGED pending
             \/ \E r \in Request : Post(r) /\ (r.write => r.value \in Value)
  <2>1. \A e \in Entry : ReadRequest(e) \in Request /\ ~ReadRequest(e).write
    BY DEF ReadRequest, Request
  <2>2. ASSUME NEW e \in Entry, Read(e) PROVE \E r \in Request : Post(r) /\ ~r.write
    BY <2>1, <2>2 DEF Read
  <2>3. CASE RefreshPost
    BY <2>1, <2>3 DEF RefreshPost
  <2>4. CASE ~RefreshPost /\ ~\E e \in Entry : Read(e)
    BY <1>2, <2>4 DEF QtCall, QtStep, Observe, Unobserve, Refresh, ReleaseControls, Route, Count,
       Uncount, Wake, Exchange, JoinWorker, PublishTest, PublishSet, RunEvent
  <2> QED
    BY <2>2, <2>3, <2>4
<1>3. CASE WorkerStep \/ SpuriousWakeup
  BY <1>3 DEF WorkerStep, TestRunning, Lock, Timeout, Swap, TakeBatch, CheckRunning, ServeWrite,
     ServeRead, StartScan, PollEntry, Deliver, SpuriousWakeup
<1>4. ASSUME NEW e \in Entry, NEW v \in Value, SensorChanges(e, v) PROVE UNCHANGED pending
  BY <1>4 DEF SensorChanges
<1>5. CASE UNCHANGED vars
  BY <1>5 DEF vars
<1> QED
  BY <1>1, <1>2, <1>3, <1>4, <1>5 DEF Next, Destroyed

LEMMA NextCollapsed == TypeInv /\ PendingCollapsed /\ [Next]_vars => PendingCollapsed'
<1> SUFFICES ASSUME TypeInv, PendingCollapsed, [Next]_vars PROVE PendingCollapsed'
  OBVIOUS
<1>1. CASE UNCHANGED pending
  BY <1>1 DEF PendingCollapsed
<1>2. CASE pending' = <<>>
  BY <1>2 DEF PendingCollapsed
<1>3. ASSUME NEW r \in Request, Post(r) PROVE PendingCollapsed'
  BY <1>3, PostCollapses DEF TypeInv, TypeOK
<1> QED
  BY <1>1, <1>2, <1>3, QueueSteps

(***************************************************************************)
(* The last write wins.                                                    *)
(***************************************************************************)

(* LastWriteWins for one control: the newest write of e is in the queue,   *)
(* else in the batch, else the camera was given it.                        *)
Newest(e) ==
  IF WritesOf(pending, e) # {} THEN \A i \in WritesOf(pending, e) : pending[i].value = asked[e]
  ELSE IF WritesOf(batch, e) # {} THEN \A i \in WritesOf(batch, e) : batch[i].value = asked[e]
  ELSE sent[e] = asked[e]

(* Serving the head of a batch leaves the writes that follow it.           *)
LEMMA TailWrites ==
  ASSUME NEW seq \in Seq(Request), seq # <<>>, NEW e \in Entry, NEW v,
         \A i \in WritesOf(seq, e) : seq[i].value = v
  PROVE  /\ \A i \in WritesOf(Tail(seq), e) : Tail(seq)[i].value = v
         /\ WritesOf(Tail(seq), e) # {} => WritesOf(seq, e) # {}
         /\ WritesOf(seq, e) # {} /\ WritesOf(Tail(seq), e) = {} =>
              Head(seq).write /\ Head(seq).entry = e /\ Head(seq).value = v
         /\ Head(seq).write /\ Head(seq).entry = e => Head(seq).value = v
<1>1. /\ Len(seq) \in Nat \ {0} /\ DOMAIN seq = 1..Len(seq) /\ Head(seq) = seq[1]
      /\ DOMAIN Tail(seq) = 1..(Len(seq) - 1)
      /\ \A i \in 1..(Len(seq) - 1) : Tail(seq)[i] = seq[i + 1]
  OBVIOUS
<1>2. \A i \in WritesOf(Tail(seq), e) : i + 1 \in WritesOf(seq, e)
  BY <1>1 DEF WritesOf
<1>3. \A i \in WritesOf(seq, e) : i = 1 \/ i - 1 \in WritesOf(Tail(seq), e)
  BY <1>1 DEF WritesOf
<1>4. \A i \in WritesOf(Tail(seq), e) : i \in 1..(Len(seq) - 1)
  BY <1>1 DEF WritesOf
<1>5. 1 \in WritesOf(seq, e) <=> Head(seq).write /\ Head(seq).entry = e
  BY <1>1 DEF WritesOf
<1> QED
  BY <1>1, <1>2, <1>3, <1>4, <1>5

LEMMA NewestKept ==
  ASSUME NEW e \in Entry, Newest(e), UNCHANGED <<batch, sent, asked>>,
         WritesOf(pending', e) = WritesOf(pending, e),
         \A i \in WritesOf(pending, e) : pending'[i] = pending[i]
  PROVE  Newest(e)'
<1>1. WritesOf(batch', e) = WritesOf(batch, e)
  BY DEF WritesOf
<1> QED
  BY <1>1 DEF Newest

(* Queueing a write makes it the newest of its control and of no other.    *)
LEMMA NewestPosted ==
  ASSUME TypeInv, NEW w \in Writer, PostWrite(w), NEW e \in Entry, Newest(e)
  PROVE  Newest(e)'
<1> USE DEF TypeInv, TypeOK
<1>1. arg[w].entry \in Entry /\ arg[w].value \in Value
  <2>1. arg[w] \in Reading
    BY DEF PostWrite, ArgsOK
  <2> QED
    BY <2>1 DEF Reading
<1>2. /\ Post(WriteRequest(arg[w].entry, arg[w].value))
      /\ UNCHANGED <<batch, sent>>
  BY DEF PostWrite, cameraVars
<1>3. CASE ~running
  <2>1. WriteRequest(arg[w].entry, arg[w].value) \in Request
    BY <1>1 DEF WriteRequest, Request
  <2>2. UNCHANGED asked
    BY <1>3 DEF PostWrite
  <2>3. \A f \in Entry : /\ WritesOf(pending', f) = WritesOf(pending, f)
                         /\ \A i \in WritesOf(pending, f) : pending'[i] = pending[i]
    BY <1>2, <1>3, <2>1, PostReads
  <2> QED
    BY <1>2, <2>2, <2>3, NewestKept
<1>4. CASE running
  <2>1. /\ WritesOf(pending', arg[w].entry) # {}
        /\ \A i \in WritesOf(pending', arg[w].entry) : pending'[i].value = arg[w].value
        /\ \A f \in Entry \ {arg[w].entry} :
              /\ WritesOf(pending', f) = WritesOf(pending, f)
              /\ \A i \in WritesOf(pending, f) : pending'[i] = pending[i]
    BY <1>1, <1>2, <1>4, PostWrites
  <2>2. asked' = [asked EXCEPT ![arg[w].entry] = arg[w].value]
    BY <1>4 DEF PostWrite
  <2>3. CASE e = arg[w].entry
    BY <2>1, <2>2, <2>3 DEF Newest
  <2>4. CASE e # arg[w].entry
    <3>1. asked'[e] = asked[e]
      BY <2>2, <2>4
    <3>2. WritesOf(batch', e) = WritesOf(batch, e)
      BY <1>2 DEF WritesOf
    <3> QED
      BY <1>2, <2>1, <2>4, <3>1, <3>2 DEF Newest
  <2> QED
    BY <2>3, <2>4
<1> QED
  BY <1>3, <1>4

(* A batch in hand is served before the queue is looked at again.          *)
LEMMA NewestServed ==
  ASSUME TypeInv, NEW e \in Entry, Newest(e),
         (\E v \in Value : ServeWrite(v)) \/ ServeRead
  PROVE  Newest(e)'
<1> USE DEF TypeInv, TypeOK
<1> DEFINE r == Head(batch)
<1>1. /\ batch # <<>> /\ batch' = Tail(batch) /\ UNCHANGED <<pending, asked>>
      /\ \/ r.write /\ sent' = [sent EXCEPT ![r.entry] = r.value]
         \/ ~r.write /\ sent' = sent
  BY DEF ServeWrite, ServeRead, workerKeeps
<1>2. r \in Request /\ r.entry \in Entry
  <2>1. r \in Request
    BY <1>1
  <2> QED
    BY <2>1 DEF Request
<1>3. CASE WritesOf(pending, e) # {}
  <2>1. WritesOf(pending', e) = WritesOf(pending, e)
    BY <1>1 DEF WritesOf
  <2> QED
    BY <1>1, <1>3, <2>1 DEF Newest
<1>4. CASE WritesOf(pending, e) = {} /\ WritesOf(batch, e) # {}
  <2>1. WritesOf(pending', e) = {}
    BY <1>1, <1>4 DEF WritesOf
  <2>2. \A i \in WritesOf(batch, e) : batch[i].value = asked[e]
    BY <1>4 DEF Newest
  <2>3. /\ \A i \in WritesOf(Tail(batch), e) : Tail(batch)[i].value = asked[e]
        /\ WritesOf(Tail(batch), e) = {} => r.write /\ r.entry = e /\ r.value = asked[e]
    BY <1>1, <1>4, <2>2, TailWrites
  <2>4. WritesOf(Tail(batch), e) = {} => sent'[e] = asked[e]
    BY <1>1, <1>2, <2>3
  <2> QED
    BY <1>1, <2>1, <2>3, <2>4 DEF Newest
<1>5. CASE WritesOf(pending, e) = {} /\ WritesOf(batch, e) = {}
  <2>1. WritesOf(pending', e) = {}
    BY <1>1, <1>5 DEF WritesOf
  <2>2. sent[e] = asked[e]
    BY <1>5 DEF Newest
  <2>3. \A i \in WritesOf(batch, e) : batch[i].value = asked[e]
    BY <1>5
  <2>4. WritesOf(Tail(batch), e) = {}
    BY <1>1, <1>5, <2>3, TailWrites
  <2>5. ~(r.write /\ r.entry = e)
    <3>1. 1 \in DOMAIN batch /\ r = batch[1]
      BY <1>1
    <3> QED
      BY <1>5, <3>1 DEF WritesOf
  <2>6. sent'[e] = sent[e]
    BY <1>1, <1>2, <2>5
  <2> QED
    BY <1>1, <2>1, <2>2, <2>4, <2>6 DEF Newest
<1> QED
  BY <1>3, <1>4, <1>5

(* Taking a batch moves the writes from the queue to an empty batch.       *)
LEMMA NewestTaken ==
  ASSUME TypeInv, NEW e \in Entry, Newest(e), batch = <<>>,
         batch' = pending, pending' = <<>>, UNCHANGED <<sent, asked>>
  PROVE  Newest(e)'
<1>1. WritesOf(pending', e) = {} /\ WritesOf(batch, e) = {}
  BY DEF WritesOf
<1>2. WritesOf(batch', e) = WritesOf(pending, e)
  BY DEF WritesOf
<1> QED
  BY <1>1, <1>2 DEF Newest

LEMMA NextLastWriteWins == TypeInv /\ LastWriteWins /\ [Next]_vars => LastWriteWins'
<1> SUFFICES ASSUME TypeInv, LastWriteWins, [Next]_vars, worker' # "done", NEW e \in Entry
             PROVE  Newest(e)'
  BY DEF LastWriteWins, Newest
<1> USE DEF TypeInv, TypeOK
<1>1. CASE worker = "done"
  BY <1>1 DEF Next, vars, workerVars, workerKeeps, WriterCall, WriterStep, Push, PostWrite,
     RecordLast, QtCall, QtStep, Read, Observe, Unobserve, Refresh, ReleaseControls, RefreshPost,
     Route, Count, Uncount, Wake, Exchange, JoinWorker, PublishTest, PublishSet, RunEvent, Post,
     Notify, Waiting, WorkerStep, TestRunning, Lock, Timeout, Swap, CheckRunning, ServeWrite,
     ServeRead, StartScan, PollEntry, Deliver, SpuriousWakeup, SensorChanges, Destroyed
<1>2. CASE worker # "done"
  <2>0. Newest(e)
    BY <1>2 DEF LastWriteWins, Newest
  <2>1. ASSUME UNCHANGED <<pending, batch, sent, asked>> PROVE Newest(e)'
    BY <2>0, <2>1, NewestKept
  <2>2. ASSUME NEW r \in Request, Post(r), ~r.write, UNCHANGED <<batch, sent, asked>>
        PROVE  Newest(e)'
    BY <2>0, <2>2, PostReads, NewestKept
  <2>3. \A f \in Entry : ReadRequest(f) \in Request /\ ~ReadRequest(f).write
    BY DEF ReadRequest, Request
  <2>4. ASSUME NEW w \in Writer, WriterCall(w) \/ WriterStep(w) PROVE Newest(e)'
    <3>1. CASE PostWrite(w)
      BY <2>0, <3>1, NewestPosted
    <3>2. CASE ~PostWrite(w)
      BY <2>1, <2>4, <3>2 DEF WriterCall, WriterStep, Push, RecordLast, queueVars, workerVars,
         cameraVars
    <3> QED
      BY <3>1, <3>2
  <2>5. ASSUME NEW f \in Entry, Read(f) PROVE Newest(e)'
    BY <2>2, <2>3, <2>5 DEF Read, cameraVars
  <2>6. CASE RefreshPost
    <3>1. UNCHANGED <<batch, sent, asked>>
      BY <2>6 DEF RefreshPost, cameraVars
    <3> QED
      BY <2>1, <2>2, <2>3, <2>6, <3>1 DEF RefreshPost
  <2>7. ASSUME QtCall \/ QtStep \/ RunEvent, ~RefreshPost, ~\E f \in Entry : Read(f)
        PROVE  Newest(e)'
    BY <2>1, <2>7 DEF QtCall, QtStep, Observe, Unobserve, Refresh, ReleaseControls, Route, Count,
       Uncount, Wake, Exchange, JoinWorker, PublishTest, PublishSet, RunEvent, queueVars,
       workerVars, cameraVars
  <2>8. CASE Lock \/ Swap
    <3>1. UNCHANGED <<pending, batch, sent, asked>> \/ TakeBatch
      BY <2>8 DEF Lock, Swap, workerKeeps, cameraVars
    <3>2. batch = <<>> /\ UNCHANGED <<sent, asked>>
      BY <2>8 DEF Lock, Swap, workerKeeps, cameraVars, PhaseOK
    <3> QED
      BY <2>0, <2>1, <3>1, <3>2, NewestTaken DEF TakeBatch
  <2>9. CASE (\E v \in Value : ServeWrite(v)) \/ ServeRead
    BY <2>0, <2>9, NewestServed
  <2>10. CASE \/ TestRunning \/ Timeout \/ CheckRunning \/ SpuriousWakeup
              \/ StartScan \/ (\E f \in Entry : PollEntry(f)) \/ Deliver
    BY <2>1, <2>10 DEF TestRunning, Timeout, CheckRunning, StartScan, PollEntry, Deliver,
       SpuriousWakeup, workerKeeps, cameraVars
  <2>11. ASSUME NEW f \in Entry, NEW v \in Value, SensorChanges(f, v) PROVE Newest(e)'
    BY <2>1, <2>11 DEF SensorChanges, queueVars, workerVars
  <2>12. CASE UNCHANGED vars
    BY <2>1, <2>12 DEF vars, queueVars, workerVars, cameraVars
  <2> QED
    BY <2>4, <2>5, <2>6, <2>7, <2>8, <2>9, <2>10, <2>11, <2>12 DEF Next, WorkerStep, Destroyed
<1> QED
  BY <1>1, <1>2

(***************************************************************************)
(* Each control has a LatestValue of its own.                              *)
(***************************************************************************)

(* One write of a control at a time, and with a value.                     *)
PlainWrites(seq) ==
  /\ \A i, j \in DOMAIN seq : Same(seq[i], seq[j]) => i = j
  /\ \A i \in DOMAIN seq : seq[i].write => seq[i].value \in Value

ChannelInv == PlainWrites(pending) /\ PlainWrites(batch)

(* The write of a control in a sequence is the one there is.               *)
LEMMA TheWrite ==
  ASSUME NEW seq \in Seq(Request), PlainWrites(seq), NEW e \in Entry
  PROVE  /\ \A i \in WritesOf(seq, e) : WriteIn(seq, e) = seq[i].value /\ seq[i].value \in Value
         /\ WritesOf(seq, e) = {} => WriteIn(seq, e) = None
         /\ WritesOf(seq, e) # {} <=> WriteIn(seq, e) # None
<1>1. ASSUME NEW i \in WritesOf(seq, e)
      PROVE  WriteIn(seq, e) = seq[i].value /\ seq[i].value \in Value
  <2>1. \A j \in WritesOf(seq, e) : j = i
    BY DEF WritesOf, PlainWrites, Same
  <2>2. (CHOOSE j \in WritesOf(seq, e) : TRUE) = i
    BY <2>1
  <2>3. seq[i].value \in Value
    BY DEF WritesOf, PlainWrites
  <2> QED BY <2>2, <2>3 DEF WriteIn
<1>2. WritesOf(seq, e) = {} => WriteIn(seq, e) = None
  BY DEF WriteIn
<1> QED BY <1>1, <1>2, EntryAssumption

LEMMA SameWrite ==
  ASSUME NEW s, NEW t, NEW e \in Entry, WritesOf(t, e) = WritesOf(s, e),
         \A i \in WritesOf(s, e) : t[i] = s[i]
  PROVE  WriteIn(t, e) = WriteIn(s, e)
BY DEF WriteIn

(* Serving the head of a batch.                                            *)
LEMMA WriteAtHead ==
  ASSUME NEW seq \in Seq(Request), PlainWrites(seq), seq # <<>>, NEW e \in Entry
  PROVE  /\ PlainWrites(Tail(seq))
         /\ IF Head(seq).write /\ Head(seq).entry = e
              THEN WriteIn(seq, e) = Head(seq).value /\ WriteIn(Tail(seq), e) = None
              ELSE WriteIn(Tail(seq), e) = WriteIn(seq, e)
<1>1. /\ Len(seq) \in Nat \ {0} /\ DOMAIN seq = 1..Len(seq) /\ Head(seq) = seq[1]
      /\ Tail(seq) \in Seq(Request) /\ DOMAIN Tail(seq) = 1..(Len(seq) - 1)
      /\ \A i \in 1..(Len(seq) - 1) : Tail(seq)[i] = seq[i + 1]
  OBVIOUS
<1>2. \A i \in 1..(Len(seq) - 1) : i + 1 \in 1..Len(seq) /\ i + 1 # 1
  BY <1>1
<1>3. PlainWrites(Tail(seq))
  <2>1. \A i, j \in DOMAIN Tail(seq) : Same(Tail(seq)[i], Tail(seq)[j]) => i = j
    BY <1>1, <1>2 DEF PlainWrites
  <2>2. \A i \in DOMAIN Tail(seq) : Tail(seq)[i].write => Tail(seq)[i].value \in Value
    BY <1>1, <1>2 DEF PlainWrites
  <2> QED BY <2>1, <2>2 DEF PlainWrites
<1>4. \A i \in WritesOf(Tail(seq), e) : i + 1 \in WritesOf(seq, e) /\ i + 1 # 1
                                      /\ Tail(seq)[i] = seq[i + 1]
  BY <1>1, <1>2 DEF WritesOf
<1>5. CASE Head(seq).write /\ Head(seq).entry = e
  <2>1. 1 \in WritesOf(seq, e)
    BY <1>1, <1>5 DEF WritesOf
  <2>2. \A i \in WritesOf(seq, e) : i = 1
    BY <2>1 DEF WritesOf, PlainWrites, Same
  <2>3. WritesOf(Tail(seq), e) = {}
    BY <1>4, <2>2
  <2>4. WriteIn(seq, e) = Head(seq).value
    BY <1>1, <2>1, TheWrite
  <2>5. WriteIn(Tail(seq), e) = None
    BY <2>3 DEF WriteIn
  <2> QED BY <1>3, <1>5, <2>4, <2>5
<1>6. CASE ~(Head(seq).write /\ Head(seq).entry = e)
  <2>1. 1 \notin WritesOf(seq, e)
    BY <1>1, <1>6 DEF WritesOf
  <2>2. CASE WritesOf(seq, e) = {}
    <3>1. WritesOf(Tail(seq), e) = {}
      BY <1>4, <2>2
    <3> QED BY <1>3, <1>6, <2>2, <3>1 DEF WriteIn
  <2>3. CASE WritesOf(seq, e) # {}
    <3>1. PICK i \in WritesOf(seq, e) : i \in 2..Len(seq)
      BY <1>1, <2>1, <2>3 DEF WritesOf
    <3>2. i - 1 \in 1..(Len(seq) - 1) /\ (i - 1) + 1 = i
      BY <1>1, <3>1
    <3>3. Tail(seq)[i - 1] = seq[i] /\ i - 1 \in WritesOf(Tail(seq), e)
      BY <1>1, <3>1, <3>2 DEF WritesOf
    <3> QED BY <1>1, <1>3, <1>6, <3>1, <3>3, TheWrite
  <2> QED BY <2>2, <2>3
<1> QED BY <1>5, <1>6

(* A post leaves one write of each control, with a value.                  *)
LEMMA PlainPosted ==
  ASSUME TypeInv, PlainWrites(pending), NEW r \in Request, r.write => r.value \in Value, Post(r)
  PROVE  PlainWrites(pending')
<1>1. /\ DOMAIN pending = 1..Len(pending) /\ Len(pending) \in Nat
      /\ \A i \in DOMAIN pending : pending[i] \in Request
  BY DEF TypeInv, TypeOK
<1>2. \A i, j \in DOMAIN pending' : Same(pending'[i], pending'[j]) => i = j
  <2>1. PendingCollapsed
    BY DEF PlainWrites, PendingCollapsed
  <2>2. PendingCollapsed'
    BY <2>1, PostCollapses DEF TypeInv, TypeOK
  <2> QED BY <2>2 DEF PendingCollapsed
<1>3. \A i \in DOMAIN pending' : pending'[i].write => pending'[i].value \in Value
  <2>1. CASE UNCHANGED pending
    BY <2>1 DEF PlainWrites
  <2>2. CASE pending' = Append(pending, r)
    <3>1. /\ DOMAIN pending' = 1..(Len(pending) + 1)
          /\ \A i \in DOMAIN pending : pending'[i] = pending[i]
          /\ pending'[Len(pending) + 1] = r
      BY <1>1, <2>2
    <3>2. \A i \in DOMAIN pending' : i \in DOMAIN pending \/ i = Len(pending) + 1
      BY <1>1, <3>1
    <3> QED BY <3>1, <3>2 DEF PlainWrites
  <2>3. CASE pending' = [i \in DOMAIN pending |->
                           IF Same(pending[i], r)
                             THEN [pending[i] EXCEPT !.value = r.value] ELSE pending[i]]
    <3>1. /\ DOMAIN pending' = DOMAIN pending
          /\ \A i \in DOMAIN pending :
               pending'[i] = IF Same(pending[i], r)
                               THEN [pending[i] EXCEPT !.value = r.value] ELSE pending[i]
      BY <2>3
    <3>2. ASSUME NEW i \in DOMAIN pending, pending'[i].write PROVE pending'[i].value \in Value
      <4>1. pending[i].write
        BY <1>1, <3>1, <3>2 DEF Request
      <4>2. CASE Same(pending[i], r)
        BY <1>1, <3>1, <4>1, <4>2 DEF Same, Request
      <4>3. CASE ~Same(pending[i], r)
        BY <3>1, <4>1, <4>3 DEF PlainWrites
      <4> QED BY <4>2, <4>3
    <3> QED BY <3>1, <3>2
  <2> QED BY <2>1, <2>2, <2>3 DEF Post
<1> QED BY <1>2, <1>3 DEF PlainWrites

LEMMA NextChannel ==
  ASSUME TypeInv, ChannelInv, [Next]_vars
  PROVE  ChannelInv'
<1>1. PlainWrites(<<>>)
  BY DEF PlainWrites
<1>2. PlainWrites(pending')
  BY <1>1, QueueSteps, PlainPosted DEF ChannelInv
<1>3. PlainWrites(batch')
  <2>1. \/ UNCHANGED batch \/ batch' = pending \/ batch' = <<>>
        \/ batch # <<>> /\ batch' = Tail(batch)
    BY DEF Next, vars, workerVars, workerKeeps, WriterCall, WriterStep, Push, PostWrite,
       RecordLast, QtCall, QtStep, Read, Observe, Unobserve, Refresh, ReleaseControls,
       RefreshPost, Route, Count, Uncount, Wake, Exchange, JoinWorker, PublishTest, PublishSet,
       RunEvent, WorkerStep, TestRunning, Lock, Timeout, Swap, TakeBatch, CheckRunning, ServeWrite,
       ServeRead, StartScan, PollEntry, Deliver, SpuriousWakeup, SensorChanges, Destroyed
  <2>2. ASSUME batch # <<>>, batch' = Tail(batch) PROVE PlainWrites(batch')
    <3>1. CASE Entry = {}
      <4>1. \A r \in Request : FALSE
        BY <3>1 DEF Request
      <4>2. Head(batch) \in Request
        BY <2>2 DEF TypeInv, TypeOK
      <4> QED BY <4>1, <4>2
    <3>2. CASE Entry # {}
      BY <2>2, <3>2, WriteAtHead DEF TypeInv, TypeOK, ChannelInv
    <3> QED BY <3>1, <3>2
  <2> QED BY <1>1, <2>1, <2>2 DEF ChannelInv
<1> QED BY <1>2, <1>3 DEF ChannelInv

(* What waits, what the worker holds and what was sent and asked for one   *)
(* control stay as they are.                                               *)
ChannelKept(e) ==
  UNCHANGED <<running, WriteIn(pending, e), WriteIn(batch, e), sent[e], asked[e]>>

LEMMA KeptIsStutter ==
  ASSUME NEW e \in Entry, ChannelKept(e)
  PROVE  [Channel(e)!Next]_(Channel(e)!vars)
BY DEF ChannelKept, Channel!vars

(* What the writers do to a channel.                                       *)
LEMMA PutOrKept ==
  ASSUME TypeInv, ChannelInv, NEW e \in Entry, NEW w \in Writer, PostWrite(w), ChannelInv'
  PROVE  [Channel(e)!Next]_(Channel(e)!vars)
<1> USE DEF TypeInv, TypeOK
<1>1. arg[w].entry \in Entry /\ arg[w].value \in Value
  <2>1. arg[w] \in Reading
    BY DEF PostWrite, ArgsOK
  <2> QED BY <2>1 DEF Reading
<1>2. /\ Post(WriteRequest(arg[w].entry, arg[w].value))
      /\ UNCHANGED <<batch, sent, running>>
  BY DEF PostWrite, cameraVars, lifeVars
<1>3. WriteRequest(arg[w].entry, arg[w].value) \in Request
  BY <1>1 DEF WriteRequest, Request
<1>4. WriteIn(batch, e)' = WriteIn(batch, e)
  BY <1>2 DEF WriteIn, WritesOf
<1>5. CASE ~running
  <2>1. UNCHANGED asked
    BY <1>5 DEF PostWrite
  <2>2. UNCHANGED pending
    BY <1>2, <1>5 DEF Post
  <2>3. WriteIn(pending, e)' = WriteIn(pending, e)
    BY <2>2 DEF WriteIn, WritesOf
  <2> QED BY <1>2, <1>4, <2>1, <2>3, KeptIsStutter DEF ChannelKept
<1>6. CASE running
  <2>1. /\ WritesOf(pending', arg[w].entry) # {}
        /\ \A i \in WritesOf(pending', arg[w].entry) : pending'[i].value = arg[w].value
        /\ \A f \in Entry \ {arg[w].entry} :
              /\ WritesOf(pending', f) = WritesOf(pending, f)
              /\ \A i \in WritesOf(pending, f) : pending'[i] = pending[i]
    BY <1>1, <1>2, <1>6, PostWrites
  <2>2. asked' = [asked EXCEPT ![arg[w].entry] = arg[w].value]
    BY <1>6 DEF PostWrite
  <2>3. CASE e = arg[w].entry
    <3>1. WriteIn(pending', e) = arg[w].value
      BY <2>1, <2>3 DEF WriteIn
    <3>2. Channel(e)!Put(arg[w].value)
      BY <1>1, <1>2, <1>4, <1>6, <2>2, <2>3, <3>1 DEF Channel!Put
    <3> QED BY <1>1, <3>2 DEF Channel!Next
  <2>4. CASE e # arg[w].entry
    <3>1. asked'[e] = asked[e]
      BY <2>2, <2>4
    <3>2. WriteIn(pending', e) = WriteIn(pending, e)
      BY <2>1, <2>4, SameWrite
    <3> QED BY <1>2, <1>4, <3>1, <3>2, KeptIsStutter DEF ChannelKept
  <2> QED BY <2>3, <2>4
<1> QED BY <1>5, <1>6

(* What the worker does to a channel.                                      *)
LEMMA TakenOrGiven ==
  ASSUME TypeInv, ChannelInv, NEW e \in Entry, WorkerStep \/ SpuriousWakeup
  PROVE  [Channel(e)!Next]_(Channel(e)!vars)
<1> USE DEF TypeInv, TypeOK
<1>0. UNCHANGED <<running, asked>>
  BY DEF WorkerStep, TestRunning, Lock, Timeout, Swap, CheckRunning, ServeWrite, ServeRead,
     StartScan, PollEntry, Deliver, SpuriousWakeup, workerKeeps, lifeVars
<1>1. ASSUME UNCHANGED <<pending, batch, sent>> PROVE [Channel(e)!Next]_(Channel(e)!vars)
  <2>1. WriteIn(pending, e)' = WriteIn(pending, e) /\ WriteIn(batch, e)' = WriteIn(batch, e)
    BY <1>1 DEF WriteIn, WritesOf
  <2> QED BY <1>0, <1>1, <2>1, KeptIsStutter DEF ChannelKept
<1>2. WriteIn(<<>>, e) = None
  BY DEF WriteIn, WritesOf
<1>3. CASE Lock \/ Swap
  <2>1. UNCHANGED <<pending, batch, sent>> \/ (TakeBatch /\ batch = <<>> /\ sent' = sent)
    BY <1>3 DEF Lock, Swap, workerKeeps, cameraVars, PhaseOK
  <2>2. CASE TakeBatch /\ batch = <<>> /\ sent' = sent
    <3>1. /\ WriteIn(batch, e) = None /\ WriteIn(batch', e) = WriteIn(pending, e)
          /\ WriteIn(pending', e) = None
      BY <1>2, <2>2 DEF TakeBatch
    <3>2. CASE WriteIn(pending, e) = None
      BY <1>0, <2>2, <3>1, <3>2, KeptIsStutter DEF ChannelKept
    <3>3. CASE WriteIn(pending, e) # None
      <4>1. Channel(e)!Take
        BY <1>0, <2>2, <3>1, <3>3 DEF Channel!Take
      <4> QED BY <4>1 DEF Channel!Next
    <3> QED BY <3>2, <3>3
  <2> QED BY <1>1, <2>1, <2>2
<1>4. CASE CheckRunning
  <2>1. UNCHANGED <<pending, sent>> /\ (UNCHANGED batch \/ (~running /\ batch' = <<>>))
    BY <1>4 DEF CheckRunning, cameraVars
  <2>2. CASE ~running /\ batch' = <<>>
    <3>1. WriteIn(batch', e) = None /\ WriteIn(pending', e) = WriteIn(pending, e)
      BY <1>2, <2>1, <2>2
    <3>2. CASE WriteIn(batch, e) = None
      BY <1>0, <2>1, <3>1, <3>2, KeptIsStutter DEF ChannelKept
    <3>3. CASE WriteIn(batch, e) # None
      <4>1. Channel(e)!Drop
        BY <1>0, <2>1, <2>2, <3>1, <3>3 DEF Channel!Drop
      <4> QED BY <4>1 DEF Channel!Next
    <3> QED BY <3>2, <3>3
  <2> QED BY <1>1, <2>1, <2>2
<1>5. CASE (\E v \in Value : ServeWrite(v)) \/ ServeRead
  <2> DEFINE r == Head(batch)
  <2>1. /\ batch # <<>> /\ batch' = Tail(batch) /\ pending' = pending
        /\ \/ r.write /\ sent' = [sent EXCEPT ![r.entry] = r.value]
           \/ ~r.write /\ sent' = sent
    BY <1>5 DEF ServeWrite, ServeRead
  <2>2. r \in Request /\ r.entry \in Entry
    <3>1. r \in Request
      BY <2>1
    <3> QED BY <3>1 DEF Request
  <2>3. WriteIn(pending', e) = WriteIn(pending, e)
    BY <2>1
  <2>4. IF r.write /\ r.entry = e
          THEN WriteIn(batch, e) = r.value /\ WriteIn(batch', e) = None
          ELSE WriteIn(batch', e) = WriteIn(batch, e)
    BY <2>1, WriteAtHead DEF ChannelInv
  <2>5. CASE r.write /\ r.entry = e
    <3>1. sent'[e] = r.value
      BY <2>1, <2>2, <2>5
    <3>2. r.value \in Value
      <4>1. 1 \in DOMAIN batch /\ r = batch[1]
        BY <2>1
      <4> QED BY <2>5, <4>1 DEF ChannelInv, PlainWrites
    <3>3. Channel(e)!Give
      BY <1>0, <2>3, <2>4, <2>5, <3>1, <3>2, EntryAssumption DEF Channel!Give
    <3> QED BY <3>3 DEF Channel!Next
  <2>6. CASE ~(r.write /\ r.entry = e)
    <3>1. sent'[e] = sent[e]
      BY <2>1, <2>2, <2>6
    <3> QED BY <1>0, <2>3, <2>4, <2>6, <3>1, KeptIsStutter DEF ChannelKept
  <2> QED BY <2>5, <2>6
<1>6. CASE \/ TestRunning \/ Timeout \/ SpuriousWakeup
           \/ StartScan \/ (\E f \in Entry : PollEntry(f)) \/ Deliver
  BY <1>1, <1>6 DEF TestRunning, Timeout, StartScan, PollEntry, Deliver, SpuriousWakeup, cameraVars
<1> QED BY <1>3, <1>4, <1>5, <1>6 DEF WorkerStep

(* What the rest does: reads change no write, and only the destructor      *)
(* takes the receiver away.                                                *)
LEMMA LeftOrKept ==
  ASSUME TypeInv, NEW e \in Entry, [Next]_vars, ~(WorkerStep \/ SpuriousWakeup),
         ~\E w \in Writer : PostWrite(w)
  PROVE  [Channel(e)!Next]_(Channel(e)!vars)
<1> USE DEF TypeInv, TypeOK
<1>1. UNCHANGED <<batch, sent, asked>>
  BY DEF Next, vars, workerVars, queueVars, cameraVars, WriterCall, WriterStep, Push,
     RecordLast, QtCall, QtStep, Read, Observe, Unobserve, Refresh, ReleaseControls,
     RefreshPost, Route, Count, Uncount, Wake, Exchange, JoinWorker, PublishTest, PublishSet,
     RunEvent, SensorChanges, Destroyed
<1>2. WriteIn(batch', e) = WriteIn(batch, e)
  BY <1>1
<1>3. \A f \in Entry : ReadRequest(f) \in Request /\ ~ReadRequest(f).write
  BY DEF ReadRequest, Request
<1>4. WriteIn(pending', e) = WriteIn(pending, e)
  <2>1. ASSUME NEW r \in Request, Post(r), ~r.write
        PROVE  WriteIn(pending', e) = WriteIn(pending, e)
    BY <2>1, PostReads, SameWrite
  <2>2. CASE UNCHANGED pending
    BY <2>2
  <2>3. \/ UNCHANGED pending
        \/ \E f \in Entry : Post(ReadRequest(f))
    BY DEF Next, vars, queueVars, WriterCall, WriterStep, Push, RecordLast, QtCall, QtStep,
       Read, Observe, Unobserve, Refresh, ReleaseControls, RefreshPost, Route, Count, Uncount, Wake,
       Exchange, JoinWorker, PublishTest, PublishSet, RunEvent, SensorChanges, Destroyed
  <2> QED BY <1>3, <2>1, <2>2, <2>3
<1>5. CASE UNCHANGED running
  BY <1>1, <1>2, <1>4, <1>5, KeptIsStutter DEF ChannelKept
<1>6. CASE running' # running
  <2>1. running' = FALSE
    BY <1>6 DEF Next, vars, lifeVars, WriterCall, WriterStep, Push, RecordLast, QtCall, QtStep,
       Read, Observe, Unobserve, Refresh, ReleaseControls, RefreshPost, Route, Count, Uncount, Wake,
       Exchange, JoinWorker, PublishTest, PublishSet, RunEvent, SensorChanges, Destroyed
  <2>2. Channel(e)!Leave
    BY <1>1, <1>2, <1>4, <1>6, <2>1 DEF Channel!Leave
  <2> QED BY <2>2 DEF Channel!Next
<1> QED BY <1>5, <1>6

(***************************************************************************)
(* The theorems.                                                           *)
(***************************************************************************)

LEMMA Invariance == Spec => []IInv
<1>1. Init => IInv
  <2>1. Init => PendingCollapsed /\ LastWriteWins
    BY DEF Init, PendingCollapsed, LastWriteWins, WritesOf
  <2> QED
    BY <2>1, InitType DEF IInv
<1>2. IInv /\ [Next]_vars => IInv'
  BY NextType, NextCollapsed, NextLastWriteWins DEF IInv
<1> QED
  BY <1>1, <1>2, PTL DEF Spec

(* ControlTree's variables have their types. *)
THEOREM TypeCorrect == Spec => []TypeOK
<1>1. IInv => TypeOK
  BY DEF IInv, TypeInv
<1> QED
  BY Invariance, <1>1, PTL

(* The counter that decides how the worker sleeps is the number of         *)
(* observed sensors, however listeners come and go.                        *)
THEOREM PollCounterExact == Spec => []PolledCountsObserved
<1>1. IInv => PolledCountsObserved
  BY DEF IInv, TypeInv
<1> QED
  BY Invariance, <1>1, PTL

(* The queue never holds two requests of one kind for one control,         *)
(* whoever writes and however fast.                                        *)
THEOREM QueueCollapsed == Spec => []PendingCollapsed
<1>1. IInv => PendingCollapsed
  BY DEF IInv
<1> QED
  BY Invariance, <1>1, PTL

(* For any number of writers, the values queued for a control are given to *)
(* the camera in their order, none after one that was queued later, and    *)
(* the one last queued is the one given last: each control has a           *)
(* LatestValue of its own.                                                 *)
THEOREM LastValueIsSent ==
  Spec => []LastWriteWins /\ WritesArriveInOrder /\ \A e \in Entry : Channel(e)!Spec
<1>1. IInv => LastWriteWins
  BY DEF IInv
<1>2. Init => ChannelInv /\ \A e \in Entry : Channel(e)!Init
  BY DEF Init, ChannelInv, PlainWrites, WriteIn, WritesOf, Channel!Init, Channel!Empty
<1>3. IInv /\ ChannelInv /\ [Next]_vars => ChannelInv'
  BY NextChannel DEF IInv
<1>4. ASSUME NEW e \in Entry
      PROVE  IInv /\ ChannelInv /\ ChannelInv' /\ [Next]_vars
               => [Channel(e)!Next]_(Channel(e)!vars)
  BY PutOrKept, TakenOrGiven, LeftOrKept DEF IInv
<1>5. IInv /\ ChannelInv /\ ChannelInv' /\ [Next]_vars
        => [\A e \in Entry : [Channel(e)!Next]_(Channel(e)!vars)]_vars
  BY <1>4
<1>6. Spec => [](IInv /\ ChannelInv)
  BY <1>2, <1>3, Invariance, PTL DEF Spec
<1>7. ASSUME NEW e \in Entry
      PROVE  Spec => Channel(e)!Spec
  <2>1. Init => Channel(e)!Init
    BY <1>2
  <2> QED BY <1>4, <1>6, <2>1, PTL DEF Spec, Channel!Spec
<1>8. Spec => []LastWriteWins /\ WritesArriveInOrder
  BY <1>1, <1>2, <1>5, <1>6, PTL DEF Spec, WritesArriveInOrder
<1> QED BY <1>7, <1>8

-----------------------------------------------------------------------------
(***************************************************************************)
(* The life of the tree.                                                   *)
(***************************************************************************)

(* releaseControls() has not begun. *)
Live == qt \notin {"exchange", "dtorWake", "join", "gone"}

(* The Qt thread leaves the destructor only by returning from it, and the  *)
(* flags fall in the order it clears them.                                 *)
LifeInv ==
  /\ Live => running
  /\ Live /\ qt \notin {"refresh", "route"} => routed
  /\ routed => Live
  /\ worker = "done" => ~running
  /\ qt \in {"dtorWake", "join", "gone"} => ~running
  /\ destroyed => qt = "gone"
  /\ qt = "gone" => worker = "done" /\ events = <<>>

(* The worker holds readings only while it serves and polls, the Qt thread *)
(* only while it publishes.                                                *)
FlowInv ==
  /\ results # <<>> => worker \in {"serve", "poll"}
  /\ closure # <<>> => qt \in {"publish", "set"}

(* Of the worker's state, a call changes at most whether it waits. *)
LEMMA PostWakes ==
  ASSUME NEW r, Post(r)
  PROVE  worker' = worker \/ (Waiting /\ worker' = "swap")
BY DEF Post, Notify

LEMMA LifeWriter ==
  ASSUME TypeInv, LifeInv, NEW w \in Writer, WriterCall(w) \/ WriterStep(w)
  PROVE  LifeInv'
<1>1. UNCHANGED <<qt, running, routed, destroyed, events>>
  BY DEF WriterCall, WriterStep, Push, PostWrite, RecordLast, qtVars, lifeVars
<1>2. worker' = worker \/ (Waiting /\ worker' = "swap")
  BY PostWakes DEF WriterCall, WriterStep, Push, PostWrite, RecordLast, workerVars
<1> QED
  BY <1>1, <1>2 DEF LifeInv, Live, Waiting

LEMMA LifeQt ==
  ASSUME TypeInv, LifeInv, QtCall \/ QtStep \/ RunEvent
  PROVE  LifeInv'
<1> USE DEF LifeInv, Live, TypeInv, TypeOK, lifeVars, workerVars, Waiting
<1>2. CASE (\E e \in Entry : Read(e)) \/ RefreshPost
  <2>1. worker' = worker \/ (Waiting /\ worker' = "swap")
    BY <1>2, PostWakes DEF Read, RefreshPost
  <2> QED
    BY <1>2, <2>1 DEF Read, RefreshPost, QtIdle, qtVars
<1>3. CASE Refresh \/ \E e \in Entry : Observe(e) \/ Unobserve(e)
  BY <1>3 DEF Refresh, Observe, Unobserve, QtIdle, qtVars
<1>4. CASE Wake \/ Count \/ Uncount
  BY <1>4 DEF Wake, Notify, Count, Uncount
<1>5. CASE ReleaseControls \/ Route
  BY <1>5 DEF ReleaseControls, Route, QtIdle
<1>6. CASE Exchange
  BY <1>6 DEF Exchange
<1>7. CASE JoinWorker
  BY <1>7 DEF JoinWorker
<1>8. CASE PublishTest \/ PublishSet \/ RunEvent
  BY <1>8 DEF PublishTest, PublishSet, RunEvent, QtIdle
<1> QED
  BY <1>2, <1>3, <1>4, <1>5, <1>6, <1>7, <1>8 DEF QtCall, QtStep

LEMMA LifeWorker ==
  ASSUME LifeInv, WorkerStep \/ SpuriousWakeup
  PROVE  LifeInv'
<1>1. UNCHANGED <<qt, running, routed, destroyed>>
  BY DEF WorkerStep, TestRunning, Lock, Timeout, Swap, CheckRunning, ServeWrite, ServeRead,
         StartScan, PollEntry, Deliver, SpuriousWakeup, workerKeeps, qtVars, lifeVars
<1>2. worker # "done" /\ (worker' = "done" => ~running)
  BY DEF WorkerStep, TestRunning, Lock, Timeout, Swap, TakeBatch, CheckRunning, ServeWrite,
         ServeRead, StartScan, PollEntry, Deliver, SpuriousWakeup
<1> QED
  BY <1>1, <1>2 DEF LifeInv, Live

LEMMA LifeNext == TypeInv /\ LifeInv /\ [Next]_vars => LifeInv'
<1> SUFFICES ASSUME TypeInv, LifeInv, [Next]_vars PROVE LifeInv'
  OBVIOUS
<1>1. CASE UNCHANGED vars
  BY <1>1 DEF LifeInv, Live, vars, workerVars, qtVars, lifeVars
<1>2. ASSUME NEW e \in Entry, NEW v \in Value, SensorChanges(e, v) PROVE LifeInv'
  BY <1>2 DEF LifeInv, Live, SensorChanges, workerVars, qtVars, lifeVars
<1> QED
  BY <1>1, <1>2, LifeWriter, LifeQt, LifeWorker DEF Next, Destroyed

LEMMA FlowNext == TypeInv /\ FlowInv /\ [Next]_vars => FlowInv'
<1> SUFFICES ASSUME TypeInv, FlowInv, [Next]_vars PROVE FlowInv'
  OBVIOUS
<1> USE DEF FlowInv, workerVars, qtVars
<1>1. ASSUME NEW w \in Writer, WriterCall(w) \/ WriterStep(w) PROVE FlowInv'
  <2>1. UNCHANGED <<qt, closure, results>> /\ (worker' = worker \/ Waiting)
    BY <1>1, PostWakes DEF WriterCall, WriterStep, Push, PostWrite, RecordLast
  <2> QED
    BY <2>1 DEF Waiting
<1>2. CASE QtCall \/ QtStep \/ RunEvent
  <2>1. UNCHANGED results /\ (worker' = worker \/ Waiting)
    BY <1>2, PostWakes
    DEF QtCall, QtStep, Read, Observe, Unobserve, Refresh, ReleaseControls, RefreshPost, Route,
       Count, Uncount, Wake, Notify, Exchange, JoinWorker, PublishTest, PublishSet, RunEvent
  <2>2. closure' # <<>> => qt' \in {"publish", "set"}
    <3>1. CASE PublishTest \/ PublishSet \/ RunEvent
      BY <3>1 DEF PublishTest, PublishSet, RunEvent
    <3>2. CASE ~(PublishTest \/ PublishSet \/ RunEvent)
      <4>1. UNCHANGED closure /\ (qt' = qt \/ qt \notin {"publish", "set"})
        BY <1>2, <3>2
        DEF QtCall, QtStep, QtIdle, Read, Observe, Unobserve, Refresh, ReleaseControls,
            RefreshPost, Route, Count, Uncount, Wake, Exchange, JoinWorker
      <4> QED
        BY <4>1
    <3> QED
      BY <3>1, <3>2
  <2> QED
    BY <2>1, <2>2 DEF Waiting
<1>3. CASE WorkerStep \/ SpuriousWakeup
  <2>1. UNCHANGED <<qt, closure>>
    BY <1>3 DEF WorkerStep, TestRunning, Lock, Timeout, Swap, CheckRunning, ServeWrite, ServeRead,
                StartScan, PollEntry, Deliver, SpuriousWakeup, workerKeeps
  <2>2. results' # <<>> => worker' \in {"serve", "poll"}
    BY <1>3 DEF WorkerStep, TestRunning, Lock, Timeout, Swap, TakeBatch, CheckRunning, ServeWrite,
                ServeRead, StartScan, PollEntry, Deliver, SpuriousWakeup, workerKeeps
  <2> QED
    BY <2>1, <2>2
<1>4. ASSUME NEW e \in Entry, NEW v \in Value, SensorChanges(e, v) PROVE FlowInv'
  BY <1>4 DEF SensorChanges
<1>5. CASE UNCHANGED vars
  BY <1>5 DEF vars
<1> QED
  BY <1>1, <1>2, <1>3, <1>4, <1>5 DEF Next, Destroyed

LEMMA LifeInvariant == Spec => [](LifeInv /\ FlowInv)
<1>1. Init => LifeInv /\ FlowInv
  BY DEF Init, LifeInv, Live, FlowInv
<1>2. IInv /\ LifeInv /\ FlowInv /\ [Next]_vars => LifeInv' /\ FlowInv'
  BY LifeNext, FlowNext DEF IInv
<1> QED
  BY <1>1, <1>2, Invariance, PTL DEF Spec

(* "The worker first, and joined, not just signalled": whoever writes,     *)
(* once ~ControlTree has returned the worker is past its last use of the   *)
(* camera, which is closed next, and no closure is left that would publish *)
(* into a tree that is gone.                                               *)
THEOREM NothingIsLeft == Spec => []NothingOutlivesTree
<1>1. LifeInv /\ FlowInv => NothingOutlivesTree
  BY DEF LifeInv, FlowInv, NothingOutlivesTree
<1> QED
  BY <1>1, LifeInvariant, PTL

-----------------------------------------------------------------------------
(***************************************************************************)
(* A tree that is written from the Qt thread.  With another writer the     *)
(* theorem below does not hold: its value may cross a reading.             *)
(***************************************************************************)

QtWritesOnly == Writer \subseteq {Qt}

(* The Qt thread is inside one call at a time. *)
OneCall == qt # "idle" => \A w \in Writer : at[w] = "idle"

LEMMA OneCallNext == QtWritesOnly /\ TypeInv /\ OneCall /\ [Next]_vars => OneCall'
<1> SUFFICES ASSUME QtWritesOnly, TypeInv, OneCall, [Next]_vars PROVE OneCall'
  OBVIOUS
<1>1. ASSUME NEW w \in Writer, WriterCall(w) \/ WriterStep(w) PROVE OneCall'
  <2>1. qt = "idle" /\ UNCHANGED qt
    BY <1>1 DEF QtWritesOnly, OneCall, WriterCall, WriterStep, Push, PostWrite, RecordLast, qtVars
  <2> QED
    BY <2>1 DEF OneCall
<1>2. CASE QtCall \/ QtStep \/ RunEvent
  <2>1. UNCHANGED at
    BY <1>2 DEF QtCall, QtStep, Read, Observe, Unobserve, Refresh, ReleaseControls, RefreshPost,
           Route, Count, Uncount, Wake, Exchange, JoinWorker, PublishTest, PublishSet, RunEvent,
           writerVars
  <2>2. qt # "idle" \/ QtIdle
    BY <1>2 DEF QtCall, QtStep, Read, Observe, Unobserve, Refresh, ReleaseControls, RefreshPost,
           Route, Count, Uncount, Wake, Exchange, JoinWorker, PublishTest, PublishSet, RunEvent
  <2> QED
    BY <2>1, <2>2 DEF QtIdle, QtWritesOnly, OneCall
<1>3. CASE WorkerStep \/ SpuriousWakeup
  BY <1>3 DEF OneCall, WorkerStep, TestRunning, Lock, Timeout, Swap, CheckRunning, ServeWrite,
         ServeRead, StartScan, PollEntry, Deliver, SpuriousWakeup, workerKeeps, qtVars, writerVars
<1>4. ASSUME NEW e \in Entry, NEW v \in Value, SensorChanges(e, v) PROVE OneCall'
  BY <1>4 DEF OneCall, SensorChanges, qtVars, writerVars
<1>5. CASE UNCHANGED vars
  BY <1>5 DEF OneCall, vars, qtVars, writerVars
<1> QED
  BY <1>1, <1>2, <1>3, <1>4, <1>5 DEF Next, Destroyed

(***************************************************************************)
(* The way of a reading, from the camera back to the parameter.            *)
(***************************************************************************)

Settable == Readable \cap Writable

Mentions(seq, e) == \E i \in DOMAIN seq : seq[i].entry = e

(* The last that seq says of e is v, ... *)
EndsWith(seq, e, v) ==
  \E i \in DOMAIN seq :
    /\ seq[i].entry = e /\ seq[i].value = v
    /\ \A j \in DOMAIN seq : j > i => seq[j].entry # e

(* ... and the same of a sequence of sequences. *)
SomeMentions(seqs, e) == \E k \in DOMAIN seqs : Mentions(seqs[k], e)

SomeEndsWith(seqs, e, v) ==
  \E k \in DOMAIN seqs :
    /\ EndsWith(seqs[k], e, v)
    /\ \A l \in DOMAIN seqs : l > k => ~Mentions(seqs[l], e)

(* A request for e is on its way to the camera. *)
Outstanding(e) ==
  \/ qt = "refresh" /\ e \in todo
  \/ \E w \in Writer : at[w] = "post" /\ arg[w].entry = e
  \/ Mentions(pending, e)
  \/ Mentions(batch, e)

(* The newest reading of e on its way to the tree is what the camera has,  *)
(* and if none is on its way the tree shows it already.                    *)
Fresh(e) ==
  IF Mentions(results, e) THEN EndsWith(results, e, cam[e])
  ELSE IF SomeMentions(events, e) THEN SomeEndsWith(events, e, cam[e])
  ELSE IF Mentions(closure, e) THEN EndsWith(closure, e, cam[e])
  ELSE param[e] = cam[e]

(* The value last published or asked is the one the parameter shows, but   *)
(* for the two steps in which one of them runs ahead of the other.         *)
Synced(e) ==
  IF qt = "set" /\ Head(closure).entry = e THEN last[e] = Head(closure).value
  ELSE \/ last[e] = None
       \/ param[e] = last[e]
       \/ \E w \in Writer : at[w] # "idle" /\ arg[w].entry = e

(* A write that is about to be recorded shows in the parameter. *)
ArgShown == \A w \in Writer : at[w] # "idle" => param[arg[w].entry] = arg[w].value

Tracked(e) == Synced(e) /\ (e \in unread \/ Outstanding(e) \/ Fresh(e))

FreshInv == Live => ArgShown /\ \A e \in Settable : Tracked(e)

(* Lemmas on what a sequence says last. *)
LEMMA EndsMentions ==
  ASSUME NEW seq, NEW e, NEW v, EndsWith(seq, e, v)
  PROVE  Mentions(seq, e)
BY DEF EndsWith, Mentions

LEMMA ConcatSays ==
  ASSUME NEW S, NEW s \in Seq(S), NEW t \in Seq(S), NEW e, NEW v
  PROVE  /\ Mentions(s \o t, e) <=> Mentions(s, e) \/ Mentions(t, e)
         /\ EndsWith(s, e, v) /\ ~Mentions(t, e) => EndsWith(s \o t, e, v)
         /\ EndsWith(t, e, v) => EndsWith(s \o t, e, v)
<1>1. /\ Len(s) \in Nat /\ Len(t) \in Nat
      /\ DOMAIN s = 1 .. Len(s) /\ DOMAIN t = 1 .. Len(t)
      /\ DOMAIN (s \o t) = 1 .. (Len(s) + Len(t))
      /\ \A i \in 1 .. Len(s) : (s \o t)[i] = s[i]
      /\ \A i \in 1 .. Len(t) : (s \o t)[Len(s) + i] = t[i]
  OBVIOUS
<1>2. \A k \in 1 .. (Len(s) + Len(t)) :
        \/ k \in 1 .. Len(s) /\ (s \o t)[k] = s[k]
        \/ k > Len(s) /\ k - Len(s) \in 1 .. Len(t) /\ (s \o t)[k] = t[k - Len(s)]
  <2> SUFFICES ASSUME NEW k \in 1 .. (Len(s) + Len(t)), k > Len(s)
               PROVE  k - Len(s) \in 1 .. Len(t) /\ (s \o t)[k] = t[k - Len(s)]
    BY <1>1
  <2>1. k - Len(s) \in 1 .. Len(t) /\ Len(s) + (k - Len(s)) = k
    BY <1>1
  <2> QED
    BY <1>1, <2>1
<1>3. ASSUME NEW i \in 1 .. Len(t) PROVE Len(s) + i \in 1 .. (Len(s) + Len(t)) /\ Len(s) + i > Len(s)
  BY <1>1
<1> DEFINE u == s \o t
<1> HIDE DEF u
<1>4. Mentions(u, e) <=> Mentions(s, e) \/ Mentions(t, e)
  <2>1. Mentions(s, e) => Mentions(u, e)
    BY <1>1 DEF Mentions, u
  <2>2. Mentions(t, e) => Mentions(u, e)
    BY <1>1, <1>3 DEF Mentions, u
  <2>3. Mentions(u, e) => Mentions(s, e) \/ Mentions(t, e)
    BY <1>1, <1>2 DEF Mentions, u
  <2> QED
    BY <2>1, <2>2, <2>3
<1>5. ASSUME EndsWith(s, e, v), ~Mentions(t, e) PROVE EndsWith(u, e, v)
  BY <1>1, <1>2, <1>5 DEF EndsWith, Mentions, u
<1>6. ASSUME EndsWith(t, e, v) PROVE EndsWith(u, e, v)
  <2>1. PICK i \in 1 .. Len(t) : /\ t[i].entry = e /\ t[i].value = v
                                 /\ \A j \in 1 .. Len(t) : j > i => t[j].entry # e
    BY <1>1, <1>6 DEF EndsWith
  <2>2. Len(s) + i \in DOMAIN u /\ u[Len(s) + i].entry = e /\ u[Len(s) + i].value = v
    BY <1>1, <1>3, <2>1 DEF u
  <2>3. ASSUME NEW k \in DOMAIN u, k > Len(s) + i PROVE u[k].entry # e
    <3>1. k > Len(s) /\ k - Len(s) > i /\ k \in 1 .. (Len(s) + Len(t))
      BY <1>1, <2>3 DEF u
    <3> QED
      BY <1>1, <1>2, <2>1, <3>1 DEF u
  <2> QED
    BY <2>2, <2>3 DEF EndsWith
<1> QED
  BY <1>4, <1>5, <1>6 DEF u

LEMMA TailSays ==
  ASSUME NEW S, NEW s \in Seq(S), s # <<>>, NEW e, NEW v
  PROVE  /\ Mentions(s, e) <=> Head(s).entry = e \/ Mentions(Tail(s), e)
         /\ EndsWith(s, e, v) /\ Mentions(Tail(s), e) => EndsWith(Tail(s), e, v)
         /\ EndsWith(s, e, v) /\ ~Mentions(Tail(s), e) => Head(s).entry = e /\ Head(s).value = v
<1>1. /\ Len(s) \in Nat \ {0} /\ DOMAIN s = 1 .. Len(s) /\ Head(s) = s[1]
      /\ DOMAIN Tail(s) = 1 .. (Len(s) - 1)
      /\ \A i \in 1 .. (Len(s) - 1) : Tail(s)[i] = s[i + 1]
  OBVIOUS
<1>2. \A i \in 1 .. Len(s) : i = 1 \/ (i - 1 \in 1 .. (Len(s) - 1) /\ Tail(s)[i - 1] = s[i])
  <2> SUFFICES ASSUME NEW i \in 1 .. Len(s), i # 1
               PROVE  i - 1 \in 1 .. (Len(s) - 1) /\ Tail(s)[i - 1] = s[i]
    OBVIOUS
  <2>1. i - 1 \in 1 .. (Len(s) - 1) /\ (i - 1) + 1 = i
    BY <1>1
  <2> QED
    BY <1>1, <2>1
<1>3. \A i \in 1 .. (Len(s) - 1) : i + 1 \in 1 .. Len(s)
  BY <1>1
<1>4. 1 \in 1 .. Len(s)
  BY <1>1
<1> DEFINE t == Tail(s)
<1> HIDE DEF t
<1>5. Mentions(s, e) <=> Head(s).entry = e \/ Mentions(t, e)
  <2>1. Mentions(t, e) => Mentions(s, e)
    BY <1>1, <1>3 DEF Mentions, t
  <2>2. Head(s).entry = e => Mentions(s, e)
    BY <1>1, <1>4 DEF Mentions
  <2>3. Mentions(s, e) => Head(s).entry = e \/ Mentions(t, e)
    BY <1>1, <1>2 DEF Mentions, t
  <2> QED
    BY <2>1, <2>2, <2>3
<1>6. ASSUME EndsWith(s, e, v)
      PROVE  /\ Mentions(t, e) => EndsWith(t, e, v)
             /\ ~Mentions(t, e) => Head(s).entry = e /\ Head(s).value = v
  <2>1. PICK i \in 1 .. Len(s) : /\ s[i].entry = e /\ s[i].value = v
                                 /\ \A j \in 1 .. Len(s) : j > i => s[j].entry # e
    BY <1>1, <1>6 DEF EndsWith
  <2>2. CASE i = 1
    <3>1. \A j \in 1 .. (Len(s) - 1) : j + 1 > 1 /\ t[j].entry # e
      BY <1>1, <1>3, <2>1, <2>2 DEF t
    <3> QED
      BY <1>1, <2>1, <2>2, <3>1 DEF Mentions, t
  <2>3. CASE i # 1
    <3>1. i - 1 \in DOMAIN t /\ t[i - 1].entry = e /\ t[i - 1].value = v
      BY <1>1, <1>2, <2>1, <2>3 DEF t
    <3>2. \A j \in DOMAIN t : j > i - 1 => t[j].entry # e
      <4> SUFFICES ASSUME NEW j \in 1 .. (Len(s) - 1), j > i - 1 PROVE t[j].entry # e
        BY <1>1 DEF t
      <4>1. j + 1 \in 1 .. Len(s) /\ j + 1 > i
        BY <1>1
      <4> QED
        BY <1>1, <2>1, <4>1 DEF t
    <3> QED
      BY <3>1, <3>2 DEF EndsWith, Mentions
  <2> QED
    BY <2>2, <2>3
<1> QED
  BY <1>5, <1>6 DEF t

LEMMA AppendSaysAll ==
  ASSUME NEW S, NEW seqs \in Seq(S), NEW s \in S, NEW e, NEW v
  PROVE  /\ SomeMentions(Append(seqs, s), e) <=> SomeMentions(seqs, e) \/ Mentions(s, e)
         /\ EndsWith(s, e, v) => SomeEndsWith(Append(seqs, s), e, v)
         /\ SomeEndsWith(seqs, e, v) /\ ~Mentions(s, e) => SomeEndsWith(Append(seqs, s), e, v)
<1>1. /\ Len(seqs) \in Nat /\ DOMAIN seqs = 1 .. Len(seqs)
      /\ DOMAIN Append(seqs, s) = 1 .. (Len(seqs) + 1)
      /\ \A i \in 1 .. Len(seqs) : Append(seqs, s)[i] = seqs[i]
      /\ Append(seqs, s)[Len(seqs) + 1] = s
  OBVIOUS
<1> DEFINE t == Append(seqs, s)
<1> HIDE DEF t
<1>2. SomeMentions(t, e) <=> SomeMentions(seqs, e) \/ Mentions(s, e)
  BY <1>1 DEF SomeMentions, t
<1>3. EndsWith(s, e, v) => SomeEndsWith(t, e, v)
  BY <1>1 DEF SomeEndsWith, t
<1>4. SomeEndsWith(seqs, e, v) /\ ~Mentions(s, e) => SomeEndsWith(t, e, v)
  BY <1>1 DEF SomeEndsWith, t
<1> QED
  BY <1>2, <1>3, <1>4 DEF t

LEMMA TailSaysAll ==
  ASSUME NEW S, NEW seqs \in Seq(S), seqs # <<>>, NEW e, NEW v
  PROVE  /\ SomeMentions(seqs, e) <=> Mentions(Head(seqs), e) \/ SomeMentions(Tail(seqs), e)
         /\ SomeEndsWith(seqs, e, v) /\ SomeMentions(Tail(seqs), e) => SomeEndsWith(Tail(seqs), e, v)
         /\ SomeEndsWith(seqs, e, v) /\ ~SomeMentions(Tail(seqs), e) => EndsWith(Head(seqs), e, v)
<1>1. /\ Len(seqs) \in Nat \ {0} /\ DOMAIN seqs = 1 .. Len(seqs) /\ Head(seqs) = seqs[1]
      /\ DOMAIN Tail(seqs) = 1 .. (Len(seqs) - 1)
      /\ \A i \in 1 .. (Len(seqs) - 1) : Tail(seqs)[i] = seqs[i + 1]
  OBVIOUS
<1>2. \A i \in 1 .. Len(seqs) :
        i = 1 \/ (i - 1 \in 1 .. (Len(seqs) - 1) /\ Tail(seqs)[i - 1] = seqs[i])
  <2> SUFFICES ASSUME NEW i \in 1 .. Len(seqs), i # 1
               PROVE  i - 1 \in 1 .. (Len(seqs) - 1) /\ Tail(seqs)[i - 1] = seqs[i]
    OBVIOUS
  <2>1. i - 1 \in 1 .. (Len(seqs) - 1) /\ (i - 1) + 1 = i
    BY <1>1
  <2> QED
    BY <1>1, <2>1
<1>3. 1 \in 1 .. Len(seqs) /\ \A i \in 1 .. (Len(seqs) - 1) : i + 1 \in 1 .. Len(seqs)
  BY <1>1
<1> DEFINE t == Tail(seqs)
<1> HIDE DEF t
<1>4. SomeMentions(seqs, e) <=> Mentions(Head(seqs), e) \/ SomeMentions(t, e)
  <2>1. SomeMentions(t, e) => SomeMentions(seqs, e)
    BY <1>1, <1>3 DEF SomeMentions, t
  <2>2. Mentions(Head(seqs), e) => SomeMentions(seqs, e)
    BY <1>1, <1>3 DEF SomeMentions
  <2>3. SomeMentions(seqs, e) => Mentions(Head(seqs), e) \/ SomeMentions(t, e)
    BY <1>1, <1>2 DEF SomeMentions, t
  <2> QED
    BY <2>1, <2>2, <2>3
<1>5. ASSUME SomeEndsWith(seqs, e, v)
      PROVE  /\ SomeMentions(t, e) => SomeEndsWith(t, e, v)
             /\ ~SomeMentions(t, e) => EndsWith(Head(seqs), e, v)
  <2>1. PICK k \in 1 .. Len(seqs) : /\ EndsWith(seqs[k], e, v)
                                    /\ \A l \in 1 .. Len(seqs) : l > k => ~Mentions(seqs[l], e)
    BY <1>1, <1>5 DEF SomeEndsWith
  <2>2. CASE k = 1
    <3>1. \A l \in 1 .. (Len(seqs) - 1) : ~Mentions(t[l], e)
      BY <1>1, <1>3, <2>1, <2>2 DEF t
    <3> QED
      BY <1>1, <2>1, <2>2, <3>1 DEF SomeMentions, t
  <2>3. CASE k # 1
    <3>1. k - 1 \in DOMAIN t /\ EndsWith(t[k - 1], e, v)
      BY <1>1, <1>2, <2>1, <2>3 DEF t
    <3>2. \A l \in DOMAIN t : l > k - 1 => ~Mentions(t[l], e)
      <4> SUFFICES ASSUME NEW l \in 1 .. (Len(seqs) - 1), l > k - 1 PROVE ~Mentions(t[l], e)
        BY <1>1 DEF t
      <4>1. l + 1 \in 1 .. Len(seqs) /\ l + 1 > k
        BY <1>1
      <4> QED
        BY <1>1, <2>1, <4>1 DEF t
    <3> QED
      BY <3>1, <3>2, EndsMentions DEF SomeEndsWith, SomeMentions
  <2> QED
    BY <2>2, <2>3
<1> QED
  BY <1>4, <1>5 DEF t

(* A posted request is in the queue, and none is lost. *)
LEMMA PostMentions ==
  ASSUME pending \in Seq(Request), NEW r \in Request, Post(r), running
  PROVE  /\ Mentions(pending', r.entry)
         /\ \A e \in Entry : Mentions(pending, e) => Mentions(pending', e)
<1>1. \A i \in DOMAIN pending : pending[i] \in Request
  OBVIOUS
<1>2. CASE \E i \in DOMAIN pending : Same(pending[i], r)
  <2>1. pending' = [i \in DOMAIN pending |->
                      IF Same(pending[i], r)
                        THEN [pending[i] EXCEPT !.value = r.value] ELSE pending[i]]
    BY <1>2 DEF Post
  <2>2. /\ DOMAIN pending' = DOMAIN pending
        /\ \A i \in DOMAIN pending : pending'[i].entry = pending[i].entry
    BY <1>1, <2>1 DEF Request
  <2> QED
    BY <1>2, <2>2 DEF Mentions, Same
<1>3. CASE ~\E i \in DOMAIN pending : Same(pending[i], r)
  <2>1. pending' = Append(pending, r)
    BY <1>3 DEF Post
  <2>2. /\ Len(pending) \in Nat /\ DOMAIN pending = 1 .. Len(pending)
        /\ DOMAIN pending' = 1 .. (Len(pending) + 1)
        /\ \A i \in DOMAIN pending : pending'[i] = pending[i]
        /\ pending'[Len(pending) + 1] = r
    BY <2>1
  <2> QED
    BY <2>2 DEF Mentions
<1> QED
  BY <1>2, <1>3

(* What a step leaves alone keeps a control fresh, ... *)
LEMMA FreshKept ==
  ASSUME NEW e, Fresh(e), UNCHANGED <<results, events, closure>>, cam'[e] = cam[e],
         param'[e] = param[e]
  PROVE  Fresh(e)'
BY DEF Fresh, Mentions, EndsWith, SomeMentions, SomeEndsWith

(* ... a request on its way, ... *)
LEMMA OutstandingKept ==
  ASSUME NEW e, Outstanding(e), UNCHANGED <<qt, todo, at, arg>>,
         Mentions(pending, e) => Mentions(pending', e) \/ Mentions(batch', e),
         Mentions(batch, e) => Mentions(batch', e)
  PROVE  Outstanding(e)'
BY DEF Outstanding, Mentions

(* ... and a parameter in step with what was last published. *)
LEMMA SyncedKept ==
  ASSUME NEW e, Synced(e), UNCHANGED <<qt, closure, last, param, at, arg>>
  PROVE  Synced(e)'
BY DEF Synced

LEMMA ArgShownKept ==
  ASSUME ArgShown, UNCHANGED <<param, at, arg>>
  PROVE  ArgShown'
BY DEF ArgShown

LEMMA FreshWriter ==
  ASSUME QtWritesOnly, TypeInv, LifeInv, OneCall, FreshInv, Live,
         NEW w \in Writer, WriterCall(w) \/ WriterStep(w)
  PROVE  ArgShown' /\ \A e \in Settable : Tracked(e)'
<1>1. /\ qt = "idle" /\ running /\ routed /\ \A u \in Writer : u = w
      /\ UNCHANGED <<qt, closure, results, events, cam, unread, batch>>
  BY DEF QtWritesOnly, LifeInv, OneCall, WriterCall, WriterStep, Push, PostWrite, RecordLast,
     qtVars, workerVars, cameraVars
<1>2. \A e \in Settable : e \in Entry /\ Tracked(e)
  BY EntryAssumption DEF Settable, FreshInv
<1>3. ASSUME NEW f \in Entry, NEW v \in Value, Push(w, f, v)
      PROVE  ArgShown' /\ \A e \in Settable : Tracked(e)'
  <2>1. /\ at[w] = "idle" /\ at'[w] = "post" /\ arg'[w] = [entry |-> f, value |-> v]
        /\ UNCHANGED <<last, pending>>
    BY <1>1, <1>3 DEF Push, TypeInv, TypeOK, queueVars
  <2>2. param'[f] = v /\ \A e \in Entry : e # f => param'[e] = param[e]
    BY <1>3 DEF Push, TypeInv, TypeOK
  <2>3. ArgShown'
    BY <1>1, <2>1, <2>2 DEF ArgShown
  <2>4. ASSUME NEW e \in Settable, e = f PROVE Tracked(e)'
    BY <1>1, <2>1, <2>4 DEF Tracked, Synced, Outstanding
  <2>5. ASSUME NEW e \in Settable, e # f PROVE Tracked(e)'
    <3>1. Synced(e)'
      BY <1>1, <1>2, <2>1, <2>2, <2>5 DEF Tracked, Synced
    <3>2. Outstanding(e) => Outstanding(e)'
      BY <1>1, <2>1 DEF Outstanding, Mentions
    <3>3. Fresh(e) => Fresh(e)'
      BY <1>1, <1>2, <2>2, <2>5, FreshKept
    <3> QED
      BY <1>1, <1>2, <3>1, <3>2, <3>3 DEF Tracked
  <2> QED
    BY <2>3, <2>4, <2>5
<1>4. CASE PostWrite(w)
  <2>1. arg[w].entry \in Entry /\ arg[w].value \in Value
    BY <1>4 DEF PostWrite, TypeInv, ArgsOK, Reading
  <2>2. WriteRequest(arg[w].entry, arg[w].value) \in Request
        /\ WriteRequest(arg[w].entry, arg[w].value).entry = arg[w].entry
    BY <2>1 DEF WriteRequest, Request
  <2>3. /\ Mentions(pending', arg[w].entry)
        /\ \A e \in Entry : Mentions(pending, e) => Mentions(pending', e)
    BY <1>1, <1>4, <2>2, PostMentions DEF PostWrite, TypeInv, TypeOK
  <2>4. at[w] = "post" /\ at'[w] = "last" /\ UNCHANGED <<arg, last, param>>
    BY <1>4 DEF PostWrite, TypeInv, TypeOK
  <2>5. ArgShown'
    BY <1>1, <2>4 DEF ArgShown, FreshInv
  <2>6. ASSUME NEW e \in Settable PROVE Tracked(e)'
    <3>1. Synced(e)'
      BY <1>1, <1>2, <2>4 DEF Tracked, Synced
    <3>2. Outstanding(e) => Outstanding(e)'
      BY <1>1, <1>2, <2>3, <2>4 DEF Outstanding, Mentions
    <3>3. Fresh(e) => Fresh(e)'
      BY <1>1, <2>4, FreshKept
    <3> QED
      BY <1>1, <1>2, <3>1, <3>2, <3>3 DEF Tracked
  <2> QED
    BY <2>5, <2>6
<1>5. CASE RecordLast(w)
  <2>1. arg[w].entry \in Entry /\ arg[w].value \in Value
    BY <1>5 DEF RecordLast, TypeInv, ArgsOK, Reading
  <2>2. /\ at[w] = "last" /\ at'[w] = "idle" /\ UNCHANGED <<param, pending>>
        /\ last'[arg[w].entry] = arg[w].value
        /\ \A e \in Entry : e # arg[w].entry => last'[e] = last[e]
    BY <1>5, <2>1 DEF RecordLast, TypeInv, TypeOK, queueVars
  <2>3. ArgShown'
    BY <1>1, <2>2 DEF ArgShown
  <2>4. param[arg[w].entry] = arg[w].value
    BY <2>2 DEF ArgShown, FreshInv
  <2>5. ASSUME NEW e \in Settable PROVE Tracked(e)'
    <3>1. Synced(e)'
      BY <1>1, <1>2, <2>2, <2>4 DEF Tracked, Synced
    <3>2. Outstanding(e) => Outstanding(e)'
      BY <1>1, <2>2 DEF Outstanding, Mentions
    <3>3. Fresh(e) => Fresh(e)'
      BY <1>1, <2>2, FreshKept
    <3> QED
      BY <1>1, <1>2, <3>1, <3>2, <3>3 DEF Tracked
  <2> QED
    BY <2>3, <2>5
<1> QED
  BY <1>3, <1>4, <1>5 DEF WriterCall, WriterStep

(* A publication in progress: the head of the closure is what the tree is  *)
(* about to show, unless it shows it already.                              *)
LEMMA FreshPublish ==
  ASSUME TypeInv, closure # <<>>, NEW e \in Settable, Fresh(e), closure' = Tail(closure),
         UNCHANGED <<results, events, cam>>,
         Head(closure).entry = e => param'[e] = Head(closure).value,
         Head(closure).entry # e => param'[e] = param[e]
  PROVE  Fresh(e)'
<1>1. closure \in Seq(Reading)
  BY DEF TypeInv, TypeOK
<1>2. /\ Mentions(closure, e) <=> Head(closure).entry = e \/ Mentions(Tail(closure), e)
      /\ EndsWith(closure, e, cam[e]) /\ Mentions(Tail(closure), e)
           => EndsWith(Tail(closure), e, cam[e])
      /\ EndsWith(closure, e, cam[e]) /\ ~Mentions(Tail(closure), e)
           => Head(closure).entry = e /\ Head(closure).value = cam[e]
  BY <1>1, TailSays
<1> QED
  BY <1>2 DEF Fresh

(* A closure is taken from the event loop when the last one is finished.   *)
LEMMA FreshRunEvent ==
  ASSUME TypeInv, FlowInv, RunEvent, NEW e \in Settable, Fresh(e)
  PROVE  Fresh(e)'
<1>1. /\ closure = <<>> /\ events # <<>> /\ closure' = Head(events) /\ events' = Tail(events)
      /\ UNCHANGED <<results, cam, param>>
  BY DEF RunEvent, QtIdle, FlowInv, workerVars, cameraVars
<1>2. ~Mentions(closure, e)
  BY <1>1 DEF Mentions
<1>3. events \in Seq(Seq(Reading))
  BY DEF TypeInv, TypeOK
<1>4. /\ SomeMentions(events, e) <=> Mentions(Head(events), e) \/ SomeMentions(Tail(events), e)
      /\ SomeEndsWith(events, e, cam[e]) /\ SomeMentions(Tail(events), e)
           => SomeEndsWith(Tail(events), e, cam[e])
      /\ SomeEndsWith(events, e, cam[e]) /\ ~SomeMentions(Tail(events), e)
           => EndsWith(Head(events), e, cam[e])
  BY <1>1, <1>3, TailSaysAll
<1> QED
  BY <1>1, <1>2, <1>4 DEF Fresh

LEMMA FreshQt ==
  ASSUME QtWritesOnly, TypeInv, LifeInv, OneCall, FlowInv, FreshInv, Live, Live',
         QtCall \/ QtStep \/ RunEvent
  PROVE  ArgShown' /\ \A e \in Settable : Tracked(e)'
<1>1. UNCHANGED <<at, arg, results, cam, unread, batch>> /\ running
  BY DEF QtCall, QtStep, Read, Observe, Unobserve, Refresh, ReleaseControls, RefreshPost, Route,
     Count, Uncount, Wake, Exchange, JoinWorker, PublishTest, PublishSet, RunEvent, writerVars,
     workerVars, cameraVars, LifeInv
<1>2. \A w \in Writer : at[w] = "idle"
  <2>1. qt # "idle" \/ QtIdle
    BY DEF QtCall, QtStep, Read, Observe, Unobserve, Refresh, ReleaseControls, RefreshPost, Route,
       Count, Uncount, Wake, Exchange, JoinWorker, PublishTest, PublishSet, RunEvent
  <2> QED
    BY <2>1 DEF QtIdle, QtWritesOnly, OneCall
<1>3. ArgShown'
  BY <1>1, <1>2 DEF ArgShown
<1>4. ASSUME NEW e \in Settable PROVE e \in Entry /\ e \in Readable /\ Tracked(e)
  BY EntryAssumption DEF Settable, FreshInv
<1>5. ASSUME NEW f \in Entry, Read(f), NEW e \in Settable PROVE Tracked(e)'
  <2>1. ReadRequest(f) \in Request
    BY DEF ReadRequest, Request
  <2>2. Mentions(pending, e) => Mentions(pending', e)
    BY <1>1, <1>4, <1>5, <2>1, PostMentions DEF Read, TypeInv, TypeOK
  <2>3. UNCHANGED <<qt, todo, closure, last, param, events>>
    BY <1>5 DEF Read, qtVars
  <2> QED
    BY <1>1, <1>4, <2>2, <2>3, FreshKept, OutstandingKept, SyncedKept DEF Tracked
<1>6. ASSUME RefreshPost, NEW e \in Settable PROVE Tracked(e)'
  <2>1. qt = "refresh" /\ UNCHANGED <<closure, last, param, events>>
    BY <1>6 DEF RefreshPost
  <2>2. ASSUME NEW f \in todo, Post(ReadRequest(f)), todo' = todo \ {f}, UNCHANGED qt
        PROVE  Tracked(e)'
    <3>1. ReadRequest(f) \in Request /\ ReadRequest(f).entry = f
      BY DEF ReadRequest, Request, TypeInv, TypeOK
    <3>2. Mentions(pending', f) /\ (Mentions(pending, e) => Mentions(pending', e))
      BY <1>1, <1>4, <2>2, <3>1, PostMentions DEF TypeInv, TypeOK
    <3>3. Outstanding(e) => Outstanding(e)'
      BY <1>1, <2>1, <2>2, <3>2 DEF Outstanding, Mentions
    <3> QED
      BY <1>1, <1>4, <2>1, <2>2, <3>3, FreshKept, SyncedKept DEF Tracked
  <2>3. CASE todo = {} /\ qt' \in {"idle", "route"} /\ UNCHANGED <<pending, todo>>
    <3>1. Outstanding(e) => Outstanding(e)'
      BY <1>1, <2>3 DEF Outstanding, Mentions
    <3>2. Synced(e)'
      BY <1>1, <1>4, <2>1, <2>3 DEF Tracked, Synced
    <3> QED
      BY <1>1, <1>4, <2>1, <3>1, <3>2, FreshKept DEF Tracked
  <2> QED
    BY <1>6, <2>2, <2>3 DEF RefreshPost
<1>7. ASSUME \/ Refresh \/ Route \/ Count \/ Uncount \/ Wake
             \/ \E f \in Entry : Observe(f) \/ Unobserve(f),
             NEW e \in Settable
      PROVE  Tracked(e)'
  <2>1. /\ UNCHANGED <<closure, last, param, events, pending>>
        /\ qt \notin {"set", "refresh"} /\ qt' # "set"
    BY <1>7 DEF Refresh, Route, Count, Uncount, Wake, Observe, Unobserve, QtIdle, qtVars, queueVars
  <2>2. Outstanding(e) => Outstanding(e)'
    BY <1>1, <2>1 DEF Outstanding, Mentions
  <2>3. Synced(e)'
    BY <1>1, <1>4, <2>1 DEF Tracked, Synced
  <2> QED
    BY <1>1, <1>4, <2>1, <2>2, <2>3, FreshKept DEF Tracked
<1>8. ~(ReleaseControls \/ Exchange \/ JoinWorker)
  BY DEF ReleaseControls, Exchange, JoinWorker, Live
<1>9. ASSUME RunEvent, NEW e \in Settable PROVE Tracked(e)'
  <2>1. qt = "idle" /\ qt' = "publish" /\ UNCHANGED <<last, param, pending>>
    BY <1>9 DEF RunEvent, QtIdle, queueVars
  <2>2. Outstanding(e) => Outstanding(e)'
    BY <1>1, <2>1 DEF Outstanding, Mentions
  <2>3. Synced(e)'
    BY <1>1, <1>4, <2>1 DEF Tracked, Synced
  <2> QED
    BY <1>1, <1>4, <1>9, <2>2, <2>3, FreshRunEvent DEF Tracked
<1>10. ASSUME PublishTest, NEW e \in Settable PROVE Tracked(e)'
  <2>1. qt = "publish" /\ UNCHANGED <<param, pending, events>> /\ qt' # "refresh"
    BY <1>10 DEF PublishTest, queueVars
  <2>2. Outstanding(e) => Outstanding(e)'
    BY <1>1, <2>1 DEF Outstanding, Mentions
  <2>3. last[e] = None \/ param[e] = last[e]
    BY <1>2, <1>4, <2>1 DEF Tracked, Synced
  <2>4. CASE closure = <<>>
    <3>1. qt' = "idle" /\ UNCHANGED <<closure, last>>
      BY <1>10, <2>4 DEF PublishTest
    <3> QED
      BY <1>1, <1>4, <2>1, <2>2, <2>3, <3>1, FreshKept DEF Tracked, Synced
  <2>5. CASE closure # <<>> /\ last[Head(closure).entry] = Head(closure).value
    <3>1. closure' = Tail(closure) /\ UNCHANGED <<qt, last>>
      BY <1>10, <2>5 DEF PublishTest
    <3>2. Head(closure) \in Reading
      BY <2>5 DEF TypeInv, TypeOK
    <3>3. Head(closure).value # None
      BY <3>2, EntryAssumption DEF Reading
    <3>4. Head(closure).entry = e => param[e] = Head(closure).value
      BY <2>3, <2>5, <3>3
    <3>5. Fresh(e) => Fresh(e)'
      BY <1>1, <2>1, <2>5, <3>1, <3>4, FreshPublish
    <3>6. Synced(e)'
      BY <2>1, <2>3, <3>1 DEF Synced
    <3> QED
      BY <1>1, <1>4, <2>2, <3>5, <3>6 DEF Tracked
  <2>6. CASE closure # <<>> /\ last[Head(closure).entry] # Head(closure).value
    <3>1. /\ qt' = "set" /\ closure' = closure
          /\ last' = [last EXCEPT ![Head(closure).entry] = Head(closure).value]
      BY <1>10, <2>6 DEF PublishTest
    <3>2. Synced(e)'
      <4>1. Head(closure).entry = e => last'[e] = Head(closure).value
        BY <1>4, <3>1 DEF TypeInv, TypeOK
      <4>2. Head(closure).entry # e => last'[e] = last[e]
        BY <1>4, <3>1 DEF TypeInv, TypeOK
      <4> QED
        BY <2>1, <2>3, <3>1, <4>1, <4>2 DEF Synced
    <3> QED
      BY <1>1, <1>4, <2>1, <2>2, <3>1, <3>2, FreshKept DEF Tracked
  <2> QED
    BY <2>4, <2>5, <2>6
<1>11. ASSUME PublishSet, NEW e \in Settable PROVE Tracked(e)'
  <2>1. /\ qt = "set" /\ qt' = "publish" /\ closure # <<>> /\ closure' = Tail(closure)
        /\ UNCHANGED <<last, pending, events>>
        /\ param' = [param EXCEPT ![Head(closure).entry] = Head(closure).value]
    BY <1>11 DEF PublishSet, queueVars, TypeInv, PhaseOK
  <2>2. Outstanding(e) => Outstanding(e)'
    BY <1>1, <2>1 DEF Outstanding, Mentions
  <2>3. /\ Head(closure).entry = e => param'[e] = Head(closure).value
        /\ Head(closure).entry # e => param'[e] = param[e]
    BY <1>4, <2>1 DEF TypeInv, TypeOK
  <2>4. Synced(e)'
    BY <1>2, <1>4, <2>1, <2>3 DEF Tracked, Synced
  <2>5. Fresh(e) => Fresh(e)'
    BY <1>1, <2>1, <2>3, FreshPublish
  <2> QED
    BY <1>1, <1>4, <2>2, <2>4, <2>5 DEF Tracked
<1> QED
  BY <1>3, <1>5, <1>6, <1>7, <1>8, <1>9, <1>10, <1>11 DEF QtCall, QtStep

(* A request that is served leaves a reading of what the camera then has,  *)
(* or the control counts as unread; no other control is touched.           *)
LEMMA FreshServed ==
  ASSUME TypeInv, NEW e \in Settable, e \in unread \/ Outstanding(e) \/ Fresh(e),
         NEW f \in Entry, NEW v \in Value, ReadBack(f, v), cam' = [cam EXCEPT ![f] = v],
         batch # <<>>, Head(batch).entry = f, batch' = Tail(batch),
         UNCHANGED <<pending, events, closure, param, qt, todo, at, arg>>
  PROVE  (e \in unread \/ Outstanding(e) \/ Fresh(e))'
<1>1. /\ results \in Seq(Reading) /\ batch \in Seq(Request)
      /\ cam'[f] = v /\ (e # f => cam'[e] = cam[e])
  BY EntryAssumption DEF TypeInv, TypeOK, Settable
<1>2. PICK got \in Readings(f, v) :
        /\ results' = results \o got
        /\ unread' = IF got = <<>> THEN unread \cup {f} ELSE unread \ {f}
  BY DEF ReadBack
<1>3. got = <<>> \/ got = <<[entry |-> f, value |-> v]>>
  BY <1>2 DEF Readings
<1>4. CASE e = f /\ got = <<>>
  BY <1>2, <1>4
<1>5. CASE e = f /\ got # <<>>
  <2>1. got = <<[entry |-> f, value |-> v]>>
    BY <1>3, <1>5
  <2>2. [entry |-> f, value |-> v] \in Reading
    BY DEF Reading
  <2>3. got \in Seq(Reading)
    BY <2>1, <2>2
  <2>4. /\ 1 \in DOMAIN got /\ got[1].entry = e /\ got[1].value = v
        /\ \A j \in DOMAIN got : ~(j > 1)
    BY <1>5, <2>1
  <2>5. EndsWith(got, e, cam'[e])
    BY <1>1, <1>5, <2>4 DEF EndsWith
  <2>6. EndsWith(results', e, cam'[e])
    BY <1>1, <1>2, <2>3, <2>5, ConcatSays
  <2>7. Mentions(results', e)
    BY <2>6, EndsMentions
  <2> QED
    BY <2>6, <2>7 DEF Fresh
<1>6. CASE e # f
  <2>1. e \in unread => e \in unread'
    BY <1>2, <1>6
  <2>2. Mentions(batch, e) => Mentions(batch', e)
    BY <1>1, <1>6, TailSays
  <2>3. Outstanding(e) => Outstanding(e)'
    BY <2>2, OutstandingKept
  <2>4. got \in Seq(Reading)
    <3>1. [entry |-> f, value |-> v] \in Reading
      BY DEF Reading
    <3>2. <<[entry |-> f, value |-> v]>> \in Seq(Reading) /\ <<>> \in Seq(Reading)
      BY <3>1
    <3> QED
      BY <1>3, <3>2
  <2>5. ~Mentions(got, e)
    BY <1>3, <1>6 DEF Mentions
  <2>6. /\ Mentions(results', e) <=> Mentions(results, e)
        /\ EndsWith(results, e, cam[e]) => EndsWith(results', e, cam[e])
    BY <1>1, <1>2, <2>4, <2>5, ConcatSays
  <2>7. Fresh(e) => Fresh(e)'
    BY <1>1, <1>6, <2>6 DEF Fresh
  <2> QED
    BY <2>1, <2>3, <2>7
<1> QED
  BY <1>4, <1>5, <1>6

(* A poll reads no control that can be set. *)
LEMMA FreshPolled ==
  ASSUME TypeInv, NEW f \in Entry, PollEntry(f), NEW e \in Settable, Fresh(e)
  PROVE  Fresh(e)'
<1>1. PICK got \in Seq(Reading) : /\ results' = results \o got
                                 /\ \A i \in DOMAIN got : got[i].entry = f
  BY PollEntryAdds DEF TypeInv
<1>2. f # e
  BY DEF PollEntry, TypeInv, TypeOK, Settable, Pollable
<1>3. ~Mentions(got, e)
  BY <1>1, <1>2 DEF Mentions
<1>4. results \in Seq(Reading) /\ UNCHANGED <<events, closure, cam, param>>
  BY DEF PollEntry, workerKeeps, qtVars, cameraVars, TypeInv, TypeOK
<1>5. /\ Mentions(results', e) <=> Mentions(results, e)
      /\ EndsWith(results, e, cam[e]) => EndsWith(results', e, cam[e])
  BY <1>1, <1>3, <1>4, ConcatSays
<1> QED
  BY <1>4, <1>5 DEF Fresh

(* The readings of a pass are posted in one closure, behind the others. *)
LEMMA FreshDelivered ==
  ASSUME TypeInv, Deliver, NEW e \in Settable, Fresh(e)
  PROVE  Fresh(e)'
<1>1. /\ results' = <<>> /\ UNCHANGED <<closure, cam, param>>
      /\ results \in Seq(Reading) /\ events \in Seq(Seq(Reading))
      /\ events' = IF results = <<>> THEN events ELSE Append(events, results)
  BY DEF Deliver, workerKeeps, qtVars, cameraVars, TypeInv, TypeOK
<1>2. ~Mentions(results', e)
  BY <1>1 DEF Mentions
<1>3. CASE results = <<>>
  BY <1>1, <1>2, <1>3 DEF Fresh
<1>4. CASE results # <<>>
  <2>1. events' = Append(events, results)
    BY <1>1, <1>4
  <2>2. /\ SomeMentions(events', e) <=> SomeMentions(events, e) \/ Mentions(results, e)
        /\ EndsWith(results, e, cam[e]) => SomeEndsWith(events', e, cam[e])
        /\ SomeEndsWith(events, e, cam[e]) /\ ~Mentions(results, e)
             => SomeEndsWith(events', e, cam[e])
    BY <1>1, <2>1, AppendSaysAll
  <2> QED
    BY <1>1, <1>2, <2>2 DEF Fresh
<1> QED
  BY <1>3, <1>4

LEMMA FreshWorker ==
  ASSUME TypeInv, LifeInv, FreshInv, Live, WorkerStep \/ SpuriousWakeup
  PROVE  ArgShown' /\ \A e \in Settable : Tracked(e)'
<1>1. /\ UNCHANGED <<qt, todo, closure, at, arg, last, param>> /\ running
  BY DEF WorkerStep, TestRunning, Lock, Timeout, Swap, CheckRunning, ServeWrite, ServeRead,
     StartScan, PollEntry, Deliver, SpuriousWakeup, workerKeeps, qtVars, writerVars, LifeInv
<1>2. ArgShown' /\ \A e \in Settable : Synced(e)'
  BY <1>1, ArgShownKept, SyncedKept DEF FreshInv, Tracked
<1>3. \A e \in Settable : e \in unread \/ Outstanding(e) \/ Fresh(e)
  BY DEF FreshInv, Tracked
<1> SUFFICES ASSUME NEW e \in Settable
             PROVE  (e \in unread \/ Outstanding(e) \/ Fresh(e))'
  BY <1>2 DEF Tracked
<1>4. CASE TestRunning \/ Timeout \/ CheckRunning \/ StartScan \/ SpuriousWakeup
  <2>1. UNCHANGED <<pending, batch, results, events, cam, unread>>
    BY <1>1, <1>4 DEF TestRunning, Timeout, CheckRunning, StartScan, SpuriousWakeup, cameraVars
  <2> QED
    BY <1>1, <1>3, <2>1, FreshKept, OutstandingKept
<1>5. CASE Lock \/ Swap
  <2>1. batch = <<>> /\ UNCHANGED <<results, events, cam, unread>>
    BY <1>5 DEF Lock, Swap, TypeInv, PhaseOK, cameraVars
  <2>2. UNCHANGED <<pending, batch>> \/ batch' = pending
    BY <1>5 DEF Lock, Swap, TakeBatch
  <2>3. ~Mentions(batch, e)
    BY <2>1 DEF Mentions
  <2> QED
    BY <1>1, <1>3, <2>1, <2>2, <2>3, FreshKept, OutstandingKept
<1>6. ASSUME NEW v \in Value, ServeWrite(v) PROVE (e \in unread \/ Outstanding(e) \/ Fresh(e))'
  <2>1. Head(batch) \in Request
    BY <1>6 DEF ServeWrite, TypeInv, TypeOK
  <2>2. Head(batch).entry \in Entry
    BY <2>1 DEF Request
  <2> QED
    BY <1>1, <1>3, <1>6, <2>2, FreshServed DEF ServeWrite
<1>7. CASE ServeRead
  <2>1. Head(batch) \in Request
    BY <1>7 DEF ServeRead, TypeInv, TypeOK
  <2>2. Head(batch).entry \in Entry
    BY <2>1 DEF Request
  <2>3. /\ cam[Head(batch).entry] \in Value
        /\ cam' = [cam EXCEPT ![Head(batch).entry] = cam[Head(batch).entry]]
    BY <1>7, <2>2 DEF ServeRead, TypeInv, TypeOK
  <2> QED
    BY <1>1, <1>3, <1>7, <2>2, <2>3, FreshServed DEF ServeRead
<1>8. CASE Deliver \/ \E f \in Entry : PollEntry(f)
  <2>1. UNCHANGED <<pending, batch, unread>>
    BY <1>8 DEF Deliver, PollEntry, cameraVars
  <2> QED
    BY <1>1, <1>3, <1>8, <2>1, OutstandingKept, FreshPolled, FreshDelivered
<1> QED
  BY <1>4, <1>5, <1>6, <1>7, <1>8 DEF WorkerStep

LEMMA FreshNext ==
  QtWritesOnly /\ TypeInv /\ LifeInv /\ OneCall /\ FlowInv /\ FreshInv /\ [Next]_vars => FreshInv'
<1> SUFFICES ASSUME QtWritesOnly, TypeInv, LifeInv, OneCall, FlowInv, FreshInv, [Next]_vars, Live'
             PROVE  ArgShown' /\ \A e \in Settable : Tracked(e)'
  BY DEF FreshInv
<1>1. Live
  <2>1. CASE qt' = qt
    BY <2>1 DEF Live
  <2>2. CASE QtCall \/ QtStep \/ RunEvent
    BY <2>2 DEF Live, QtCall, QtStep, QtIdle, Read, Observe, Unobserve, Refresh, ReleaseControls,
       RefreshPost, Route, Count, Uncount, Wake, Exchange, JoinWorker, PublishTest, PublishSet,
       RunEvent
  <2>3. qt' = qt \/ QtCall \/ QtStep \/ RunEvent
    BY DEF Next, WriterCall, WriterStep, Push, PostWrite, RecordLast, WorkerStep, TestRunning,
       Lock, Timeout, Swap, CheckRunning, ServeWrite, ServeRead, StartScan, PollEntry, Deliver,
       SpuriousWakeup, SensorChanges, Destroyed, workerKeeps, qtVars, vars
  <2> QED
    BY <2>1, <2>2, <2>3
<1>2. \A e \in Settable : Tracked(e)
  BY <1>1 DEF FreshInv
<1>3. ASSUME NEW f \in Entry, NEW v \in Value, SensorChanges(f, v)
      PROVE  ArgShown' /\ \A e \in Settable : Tracked(e)'
  <2>1. /\ UNCHANGED <<pending, batch, results, events, closure, qt, todo, at, arg, unread, last,
                       param>>
        /\ \A e \in Settable : cam'[e] = cam[e]
    BY <1>3 DEF SensorChanges, queueVars, workerVars, qtVars, writerVars, Settable, Pollable,
                TypeInv, TypeOK
  <2> QED
    BY <1>1, <1>2, <2>1, FreshKept, OutstandingKept, SyncedKept, ArgShownKept
    DEF Tracked, FreshInv
<1>4. CASE UNCHANGED vars
  <2>1. UNCHANGED <<pending, batch, results, events, closure, qt, todo, at, arg, unread, last,
                    param, cam>>
    BY <1>4 DEF vars, queueVars, workerVars, qtVars, writerVars, cameraVars
  <2> QED
    BY <1>1, <1>2, <2>1, FreshKept, OutstandingKept, SyncedKept, ArgShownKept
    DEF Tracked, FreshInv
<1> QED
  BY <1>1, <1>3, <1>4, FreshWriter, FreshQt, FreshWorker DEF Next, Destroyed

(* "If the camera clamps or rounds it, the worker's read-back corrects     *)
(* it": whatever is written, refreshed, observed and polled, and however   *)
(* it interleaves with the worker, once everything has settled a control   *)
(* that can be set and read shows the value the camera really has, unless  *)
(* reading it failed.                                                      *)
THEOREM SettledTreeShowsCamera ==
  ASSUME QtWritesOnly
  PROVE  Spec => []QuietTreeMatchesCamera
<1>1. Init => FreshInv /\ OneCall
  BY EntryAssumption DEF Init, OneCall, FreshInv, ArgShown, Tracked, Synced, Outstanding, Settable
<1>2. IInv /\ LifeInv /\ OneCall /\ FlowInv /\ FreshInv /\ [Next]_vars => FreshInv' /\ OneCall'
  BY FreshNext, OneCallNext DEF IInv
<1>3. IInv /\ LifeInv /\ FlowInv /\ FreshInv => QuietTreeMatchesCamera
  <2> SUFFICES ASSUME IInv, LifeInv, FlowInv, FreshInv, Quiet, NEW e \in Settable, e \notin unread
               PROVE  param[e] = cam[e]
    BY DEF QuietTreeMatchesCamera, Settable
  <2>1. pending = <<>> /\ batch = <<>> /\ results = <<>> /\ events = <<>> /\ closure = <<>>
    BY DEF Quiet, Waiting, IInv, TypeInv, PhaseOK, FlowInv, QtIdle
  <2>2. ~Outstanding(e)
    BY <2>1 DEF Outstanding, Mentions, Quiet, QtIdle
  <2>3. ~Mentions(results, e) /\ ~SomeMentions(events, e) /\ ~Mentions(closure, e)
    BY <2>1 DEF Mentions, SomeMentions
  <2>4. Fresh(e)
    BY <2>2 DEF FreshInv, Tracked, Quiet, LifeInv
  <2> QED
    BY <2>3, <2>4 DEF Fresh
<1> QED
  BY <1>1, <1>2, <1>3, Invariance, LifeInvariant, PTL DEF Spec
=============================================================================
