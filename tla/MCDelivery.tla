----------------------------- MODULE MCDelivery -----------------------------
(* A video and room for one picture; the constants for TLC.                *)
EXTENDS Delivery, TLC

CONSTANTS clip, page

MCBatches == {<<clip>>, <<clip, page>>}
MCMime == [f \in Files |-> IF f = clip THEN "video" ELSE "image"]
MCSignedFor == [k \in Kinds |-> 4]
MCKeptFor == [k \in Kinds |-> 1]

\* Requests differ in nothing but in what they do.
Symmetry == Permutations(Requests)
=============================================================================
