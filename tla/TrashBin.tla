------------------------------- MODULE TrashBin -------------------------------
(***************************************************************************)
(* What the storage promises about the life of an item, without the tree   *)
(* and without the requests: items are added, thrown into the trash,       *)
(* recovered, scheduled for permanent deletion and destroyed in groups,    *)
(* and only what lies in the trash is ever scheduled or destroyed, when    *)
(* the retention of at least one item of the group has passed.             *)
(***************************************************************************)
CONSTANT Items
VARIABLE status     \* as in StorageTree

Having(states) == {i \in Items : status[i] \in states}
InTrash == Having({"trash", "waiting", "due"})

Become(S, s) == status' = [i \in Items |-> IF i \in S THEN s ELSE status[i]]

Init == status \in [Items -> {"unused", "live"}]

Add(S)      == S \subseteq Having({"unused"}) /\ Become(S, "live")
Discard(S)  == S \subseteq InTrash \cup Having({"live"}) /\ Become(S, "trash")
Recover(S)  == S \subseteq InTrash \cup Having({"live"}) /\ Become(S, "live")
Schedule(S) == S \subseteq InTrash /\ Become(S, "waiting")
Expire(S)   == S = Having({"waiting"}) /\ Become(S, "due")
Destroy(S)  == S \subseteq InTrash /\ S \cap Having({"due"}) # {} /\ Become(S, "gone")

Next == \E S \in SUBSET Items :
    Add(S) \/ Discard(S) \/ Recover(S) \/ Schedule(S) \/ Expire(S) \/ Destroy(S)

Spec == Init /\ [][Next]_status
=============================================================================
