--------------------------- MODULE BackendContract ----------------------------
(***************************************************************************)
(* What the host relies on when it calls a backend (depthcam_backend_v1 in *)
(* Backend/depthcam_abi.h): on_frame runs on threads of the backend,       *)
(* between start and the return of stop, and a camera that is closed has   *)
(* neither a stream nor a thread left.  InputStream::stop clears its       *)
(* queues, and InputStream::close gives the camera up, right after stop    *)
(* returns.                                                                *)
(*                                                                         *)
(* InputStream is shown to use its camera so (UsesTheContract), and the    *)
(* modules of the backends to implement it.  A backend that does not join  *)
(* its threads in stop has them gone when close returns.                   *)
(***************************************************************************)
CONSTANTS
  Camera,  \* cameras of one backend
  Thread,  \* threads of that backend
  Joining  \* whether stop waits for them

VARIABLES
  open,       \* the cameras that are open
  streaming,  \* the cameras between start and the end of stop
  delivering  \* for each camera, the threads inside the host's on_frame

vars == <<open, streaming, delivering>>

Init ==
  /\ open = {}
  /\ streaming = {}
  /\ delivering = [c \in Camera |-> {}]

Open(c) ==
  /\ c \notin open
  /\ open' = open \cup {c}
  /\ UNCHANGED <<streaming, delivering>>

Start(c) ==
  /\ c \in open \ streaming
  /\ streaming' = streaming \cup {c}
  /\ UNCHANGED <<open, delivering>>

Deliver(c, t) ==
  /\ c \in streaming
  /\ t \notin UNION {delivering[d] : d \in Camera}
  /\ delivering' = [delivering EXCEPT ![c] = @ \cup {t}]
  /\ UNCHANGED <<open, streaming>>

Return(c, t) ==
  /\ t \in delivering[c]
  /\ delivering' = [delivering EXCEPT ![c] = @ \ {t}]
  /\ UNCHANGED <<open, streaming>>

\* The end of stop, or of a start that fails: no thread goes to the host any
\* more, and none is there if they are joined.
Stop(c) ==
  /\ c \in streaming
  /\ Joining => delivering[c] = {}
  /\ streaming' = streaming \ {c}
  /\ UNCHANGED <<open, delivering>>

Close(c) ==
  /\ c \in open \ streaming
  /\ delivering[c] = {}
  /\ open' = open \ {c}
  /\ UNCHANGED <<streaming, delivering>>

Next ==
  \E c \in Camera :
    \/ Open(c) \/ Start(c) \/ Stop(c) \/ Close(c)
    \/ \E t \in Thread : Deliver(c, t) \/ Return(c, t)

Spec == Init /\ [][Next]_vars
=============================================================================
