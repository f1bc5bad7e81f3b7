----------------------------- MODULE LatestValue ------------------------------
(***************************************************************************)
(* Handing over a value that only the latest of matters: what is asked     *)
(* waits in one place, where the next one replaces it, until the receiver  *)
(* takes it; what it has taken it gives to the device, and only then takes *)
(* again.  Values may be skipped, but none overtakes a later one, and the  *)
(* last one asked is the last one given, unless the receiver is told to    *)
(* leave before.                                                           *)
(*                                                                         *)
(* The queue of ControlTree holds one of these for each control.  The slot *)
(* for the motor of a Kinect v1 is one too, or a succession of them, since *)
(* a camera may be closed and opened again.                                *)
(***************************************************************************)
CONSTANTS
  Value,
  None     \* no value

VARIABLES
  alive,    \* whether the receiver is there for good
  waiting,  \* what was asked and not taken
  taken,    \* what the receiver has in its hands
  given,    \* what the device was last given
  asked     \* what was last asked for

vars == <<alive, waiting, taken, given, asked>>

Empty == waiting = None /\ taken = None /\ given = None /\ asked = None

Init == alive \in BOOLEAN /\ Empty

Put(v) ==
  /\ alive
  /\ waiting' = v /\ asked' = v
  /\ UNCHANGED <<alive, taken, given>>

Take ==
  /\ taken = None /\ waiting # None
  /\ taken' = waiting /\ waiting' = None
  /\ UNCHANGED <<alive, given, asked>>

Give ==
  /\ taken # None
  /\ given' = taken /\ taken' = None
  /\ UNCHANGED <<alive, waiting, asked>>

\* The receiver is to leave; it may go on, or drop what it has taken.
Leave ==
  /\ alive
  /\ alive' = FALSE
  /\ UNCHANGED <<waiting, taken, given, asked>>

Drop ==
  /\ ~alive /\ taken # None
  /\ taken' = None
  /\ UNCHANGED <<alive, waiting, given, asked>>

Next == (\E v \in Value : Put(v)) \/ Take \/ Give \/ Leave \/ Drop

Spec == Init /\ [][Next]_vars

\* A device that goes takes everything with it; another begins anew.
Reset == alive' \in BOOLEAN /\ Empty'

SpecOfMany == Init /\ [][Next \/ Reset]_vars
=============================================================================
