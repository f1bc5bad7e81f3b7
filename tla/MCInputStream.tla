---------------------------- MODULE MCInputStream ----------------------------
(***************************************************************************)
(* Instances of InputStream: a depth image and a point cloud delivered by  *)
(* one capture thread, inertial samples by another, as libk4a does.        *)
(***************************************************************************)
EXTENDS InputStream, TLC

CONSTANTS depth, cloud, cam, imu, xdepth, xcloud

MCServes == (cam :> Output \cup {"unknown"}) @@ (imu :> {"imu"})

MCCapacity == [o \in Output |-> IF o = depth THEN 2 ELSE 1]

MCReads == [x \in Extractor |-> IF x = xdepth THEN depth ELSE cloud]

BufferSymmetry == Permutations(Buffer)

Symmetry == Permutations(Buffer) \cup Permutations(Caller)
=============================================================================
