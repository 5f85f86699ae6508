----------------------------- MODULE Friendship -----------------------------
(***************************************************************************)
(* What requests and friendships promise users: one asks, the other may    *)
(* agree, and nobody becomes a friend who was not asked or has withdrawn.  *)
(***************************************************************************)
CONSTANT Users

VARIABLES
    friends, \* set of pairs of users
    asked    \* set of <<sender, receiver>>

Pair(u, v) == {u, v}

Init == friends = {} /\ asked = {}

Ask(s, r) ==
    /\ s # r /\ Pair(s, r) \notin friends
    /\ {<<s, r>>, <<r, s>>} \cap asked = {}
    /\ asked' = asked \cup {<<s, r>>}
    /\ UNCHANGED friends

(* Rejected by the receiver or cancelled by the sender.                    *)
Withdraw(s, r) ==
    /\ <<s, r>> \in asked
    /\ asked' = asked \ {<<s, r>>}
    /\ UNCHANGED friends

Agree(s, r) ==
    /\ <<s, r>> \in asked
    /\ friends' = friends \cup {Pair(s, r)}
    /\ asked' = asked \ {<<s, r>>}

(* A friendship ends.  If its acceptance was cut short after the           *)
(* friendship was made, the request is open again.                         *)
Part(s, r) ==
    /\ Pair(s, r) \in friends
    /\ friends' = friends \ {Pair(s, r)}
    /\ asked' \in {asked, asked \cup {<<s, r>>}}

Next == \E s, r \in Users : Ask(s, r) \/ Withdraw(s, r) \/ Agree(s, r) \/ Part(s, r)

Spec == Init /\ [][Next]_<<friends, asked>>
=============================================================================
