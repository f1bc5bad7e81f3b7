---------------------------- MODULE MCControlTree ----------------------------
(***************************************************************************)
(* Instances of ControlTree: a gain that can be set and read, and a        *)
(* temperature that can only be read.                                      *)
(***************************************************************************)
EXTENDS ControlTree, TLC

CONSTANTS gain, temp, qt0, osc
=============================================================================
