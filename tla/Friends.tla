------------------------------ MODULE Friends ------------------------------
(***************************************************************************)
(* Friend requests and friendships (RelationshipsService, FriendService).  *)
(* A request is a row of friend_requests, unique by sender and receiver    *)
(* and never deleted; a friendship is a row of friends, unique by the      *)
(* pair.  No handler runs in a transaction.                                *)
(*                                                                         *)
(* A friendship row is known by the call that inserted it.                 *)
(*                                                                         *)
(* The operators named Slip... are wrong variants of the definition that   *)
(* follows them; no action uses them.                                      *)
(***************************************************************************)
EXTENDS Naturals, People

CONSTANT MaxCalls \* bound: calls of the endpoints

ASSUME FriendsAssumption == MaxCalls \in Nat

VARIABLES
    status, \* RequestStatus of the row of <<sender, receiver>>, or "none"
    row,    \* the Friend row of each pair, 0 if there is none
    call    \* what each call is doing

vars == <<status, row, call>>

Calls == 1..MaxCalls
Rows  == {p \in Users \X Users : p[1] # p[2]}

(* normalizeIds: a pair of users has one row, whoever asked.               *)
Pair(p) == {p[1], p[2]}
Pairs == {Pair(p) : p \in Rows}
Turned(p) == <<p[2], p[1]>>
AreFriends(p) == row[Pair(p)] # 0

Idle == [op |-> "none", pc |-> "idle"]
Call(op, pc, p) == [op |-> op, pc |-> pc, p |-> p, id |-> 0]
At(k, pc)  == call[k].pc = pc
Op(k, op)  == call[k].op = op
Ended      == {"ok", "failed"}
Active(k)  == call[k].pc \notin Ended \cup {"idle"}
Goto(k, pc) ==
    call' = [call EXCEPT ![k] = IF pc \in Ended THEN [op |-> @.op, pc |-> pc]
                                ELSE [@ EXCEPT !.pc = pc]]

Init ==
    /\ status = [p \in Rows |-> "none"]
    /\ row = [q \in Pairs |-> 0]
    /\ call = [k \in Calls |-> Idle]

Begin(k, c) ==
    /\ At(k, "idle")
    /\ \A j \in 1..(k - 1) : ~At(j, "idle")
    /\ Apart => \A j \in Calls : Active(j) => Pair(call[j].p) # Pair(c.p)
    /\ call' = [call EXCEPT ![k] = c]
    /\ UNCHANGED <<status, row>>

-----------------------------------------------------------------------------
(* sendFriendRequest.                                                      *)

BeginSend(k, p) == Begin(k, Call("send", "friends", p))

SendFriends(k) ==
    /\ At(k, "friends") /\ Op(k, "send")
    /\ Goto(k, IF AreFriends(call[k].p) THEN "failed" ELSE "existing")
    /\ UNCHANGED <<status, row>>

SlipExisting(k) ==         \* looks in one direction only
    /\ At(k, "existing")
    /\ Goto(k, IF status[call[k].p] = "pending" THEN "failed" ELSE "insert")
    /\ UNCHANGED <<status, row>>

(* A pending request of either direction.                                  *)
Existing(k) ==
    /\ At(k, "existing")
    /\ Goto(k, IF \E p \in {call[k].p, Turned(call[k].p)} : status[p] = "pending"
                 THEN "failed" ELSE "insert")
    /\ UNCHANGED <<status, row>>

(* The row of an earlier request, whatever became of it, refuses another   *)
(* one of the same direction.                                              *)
InsertRequest(k) ==
    /\ At(k, "insert")
    /\ IF status[call[k].p] # "none"
         THEN /\ Goto(k, "failed")
              /\ UNCHANGED status
         ELSE /\ status' = [status EXCEPT ![call[k].p] = "pending"]
              /\ Goto(k, "ok")
    /\ UNCHANGED row

-----------------------------------------------------------------------------
(* acceptRequest, rejectRequest, cancelRequest: the row is read pending    *)
(* and saved with its new status; an acceptance makes the friendship first.*)

BeginDecide(k, op, p) ==
    /\ status[p] # "none"
    /\ Begin(k, Call(op, "pending", p))

SlipFindPending(k) ==      \* finds the request whatever its status
    /\ At(k, "pending")
    /\ Goto(k, IF Op(k, "accept") THEN "friends" ELSE "save")
    /\ UNCHANGED <<status, row>>

FindPending(k) ==
    /\ At(k, "pending")
    /\ Goto(k, CASE status[call[k].p] # "pending" -> "failed"
                 [] status[call[k].p] = "pending" /\ Op(k, "accept") -> "friends"
                 [] OTHER -> "save")
    /\ UNCHANGED <<status, row>>

(* createMutualFriends.                                                    *)
AcceptFriends(k) ==
    /\ At(k, "friends") /\ Op(k, "accept")
    /\ Goto(k, IF AreFriends(call[k].p) THEN "save" ELSE "befriend")
    /\ UNCHANGED <<status, row>>

Befriend(k) ==
    /\ At(k, "befriend")
    /\ IF AreFriends(call[k].p)
         THEN /\ Goto(k, "failed")
              /\ UNCHANGED row
         ELSE /\ row' = [row EXCEPT ![Pair(call[k].p)] = k]
              /\ Goto(k, "save")
    /\ UNCHANGED status

SaveStatus(k) ==
    /\ At(k, "save")
    /\ status' = [status EXCEPT ![call[k].p] =
                    CASE Op(k, "accept") -> "accepted" [] Op(k, "reject") -> "rejected"
                      [] OTHER -> "cancelled"]
    /\ Goto(k, "ok")
    /\ UNCHANGED row

-----------------------------------------------------------------------------
(* removeFriend, by either of the two: the row is found and deleted by id. *)
BeginRemove(k, p) ==
    /\ AreFriends(p)
    /\ Begin(k, [Call("remove", "delete", p) EXCEPT !.id = row[Pair(p)]])

DeleteFriend(k) ==
    /\ At(k, "delete")
    /\ row' = [row EXCEPT ![Pair(call[k].p)] = IF @ = call[k].id THEN 0 ELSE @]
    /\ Goto(k, "ok")
    /\ UNCHANGED status

(* An acceptance is cut short between its two writes.  Any other call that *)
(* fails has written nothing.                                              *)
Fail(k) ==
    /\ At(k, "save") /\ Op(k, "accept")
    /\ Goto(k, "failed")
    /\ UNCHANGED <<status, row>>

Next == \E k \in Calls :
    \/ \E p \in Rows :
          \/ BeginSend(k, p) \/ BeginRemove(k, p)
          \/ \E op \in {"accept", "reject", "cancel"} : BeginDecide(k, op, p)
    \/ SendFriends(k) \/ Existing(k) \/ InsertRequest(k)
    \/ FindPending(k) \/ AcceptFriends(k) \/ Befriend(k) \/ SaveStatus(k)
    \/ DeleteFriend(k) \/ Fail(k)

Spec == Init /\ [][Next]_vars

-----------------------------------------------------------------------------
TypeOK ==
    /\ status \in [Rows -> {"none", "pending", "accepted", "rejected", "cancelled"}]
    /\ row \in [Pairs -> 0..MaxCalls]

(* What users see: getFriends, and the open requests of                    *)
(* getAllRequestsForUser between users who are not friends.                *)
Befriended == {q \in Pairs : row[q] # 0}
Open == {p \in Rows : status[p] = "pending" /\ Pair(p) \notin Befriended}

Promise == INSTANCE Friendship WITH friends <- Befriended, asked <- Open

(* Calls keep the promise of Friendship: a friendship comes only of an     *)
(* open request of one of the two, and a request that was withdrawn or     *)
(* rejected makes none.                                                    *)
KeepsPromise == Promise!Spec

(* A request that was decided is never decided otherwise ("Request not     *)
(* found or inactive").                                                    *)
DecidedOnce == [][
    \A p \in Rows : status[p] \in {"accepted", "rejected", "cancelled"}
        => status'[p] = status[p]]_vars
=============================================================================
