----------------------------- MODULE MCDiscovery ------------------------------
(***************************************************************************)
(* Two cameras of one model on a backend with hot-plug, a third on one     *)
(* without.                                                                *)
(***************************************************************************)
EXTENDS Discovery

CONSTANTS orbbec, freenect, g1, g2, kinect, gemini, xbox

MCLibrary == <<freenect, orbbec>>
MCBackendOf == [c \in Camera |-> IF c = kinect THEN freenect ELSE orbbec]
MCModel == [c \in Camera |-> IF c = kinect THEN xbox ELSE gemini]
=============================================================================
