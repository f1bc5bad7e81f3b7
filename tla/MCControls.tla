------------------------------ MODULE MCControls ------------------------------
(***************************************************************************)
(* A gain that can be set and read, and a temperature that can only be     *)
(* read, in one tree.  A behaviour turns to one of the two: both are read  *)
(* when the tree is built, then calls are about the one in focus, and only *)
(* its value moves; refresh() is called on a tree that has settled.  So    *)
(* the states are those of two small instances side by side, not their     *)
(* product.                                                                *)
(***************************************************************************)
EXTENDS MCControlTree

VARIABLE focus  \* the control that is written, read, watched, or moves

FocusInit ==
  /\ Init
  /\ focus \in Entry
  /\ \A e \in Entry \ {focus} : cam[e] = Default

FocusNext ==
  /\ UNCHANGED focus
  /\ \/ \E w \in Writer, v \in Value : Push(w, focus, v)
     \/ \E w \in Writer : WriterStep(w)
     \/ Read(focus) \/ Observe(focus) \/ Unobserve(focus)
     \/ focus = temp /\ Quiet /\ Refresh
     \/ ReleaseControls
     \/ QtStep \/ RunEvent
     \/ WorkerStep \/ SpuriousWakeup
     \/ \E v \in Value : SensorChanges(focus, v)
     \/ Destroyed

FocusSpec == FocusInit /\ [][FocusNext]_<<vars, focus>> /\ Fairness
=============================================================================
