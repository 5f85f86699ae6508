---------------------------- MODULE MCRoomMembers ----------------------------
(* Instances of RoomMembers for TLC.                                       *)
EXTENDS RoomMembers, TLC

CONSTANTS creator, u1, u2

Others == Permutations({u1, u2})
=============================================================================
