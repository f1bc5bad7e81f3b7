---------------------------- MODULE MCCameraDevice ----------------------------
(***************************************************************************)
(* Two devices: one names the camera with everything, the other takes      *)
(* whatever is there, which may be the same one.                           *)
(***************************************************************************)
EXTENDS CameraDevice, TLC

CONSTANTS named, any, femto, plain

MCAddress == (named :> femto) @@ (any :> None)
=============================================================================
