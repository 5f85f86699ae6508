----------------------------- MODULE MCRoomFiles -----------------------------
(* Instances of RoomFiles for TLC.                                         *)
EXTENDS RoomFiles, TLC

FileSymmetry == Permutations(Files)
=============================================================================
