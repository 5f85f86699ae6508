------------------------------ MODULE MCUploads ------------------------------
(* Instances of Uploads for TLC.                                           *)
EXTENDS Uploads, TLC

CONSTANTS u1, u2

DistinctNames == [u \in Uploads |-> u]

(* The second upload is the bigger one.                                    *)
Sizes == [u \in Uploads |-> IF u = u2 THEN 2 ELSE 1]

ConfirmSymmetry == Permutations(Confirms)
=============================================================================
