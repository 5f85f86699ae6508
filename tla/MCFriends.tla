----------------------------- MODULE MCFriends -----------------------------
(* Users are interchangeable.                                              *)
EXTENDS Friends, TLC
Anyone == Permutations(Users)
=============================================================================
