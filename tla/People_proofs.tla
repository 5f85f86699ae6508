--------------------------- MODULE People_proofs ----------------------------
(***************************************************************************)
(* What users have of each other, for any users and any number of calls.   *)
(* Friends: requests and friendships keep the promise of Friendship.  Chat *)
(* (second part): direct channels are one for each pair and of both,       *)
(* deletions are final, sockets are told what is stored, and who has been  *)
(* removed is silent.  All this if those calls are apart that Apart names. *)
(***************************************************************************)
EXTENDS Friends, Chat, FiniteSetTheorems, TLAPS

Statuses == {"none", "pending", "accepted", "rejected", "cancelled"}
Decisions == {"accept", "reject", "cancel"}
Doing == [op : {"send", "remove"} \cup Decisions,
          pc : {"friends", "existing", "insert", "pending", "befriend", "save", "delete"},
          p : Rows, id : Nat]
Done == [op : {"none", "send", "remove"} \cup Decisions, pc : {"idle", "ok", "failed"}]

(* What a call under way has found stays true until it writes.             *)
Found(k) ==
    LET c == call[k] IN
    /\ c.pc \in {"existing", "insert"} => c.op = "send" /\ ~AreFriends(c.p)
    /\ c.pc = "insert" => status[c.p] # "pending" /\ status[Turned(c.p)] # "pending"
    /\ c.pc \in {"pending", "befriend", "save"} => c.op \in Decisions
    /\ c.pc = "friends" => c.op \in {"send", "accept"}
    /\ c.pc \in {"befriend", "save"} \/ (c.pc = "friends" /\ c.op = "accept") => status[c.p] = "pending"
    /\ c.pc = "befriend" => c.op = "accept" /\ ~AreFriends(c.p)
    /\ c.pc = "save" /\ c.op = "accept" => AreFriends(c.p)

Shape ==
    /\ status \in [Rows -> Statuses]
    /\ row \in [Pairs -> Nat]
    /\ DOMAIN call = Calls
    /\ \A k \in Calls : call[k] \in Doing \cup Done

OneAsks == \A p \in Rows : status[p] = "pending" => status[Turned(p)] # "pending"

Lone == \A j, k \in Calls : j # k /\ Active(j) /\ Active(k) => Pair(call[j].p) # Pair(call[k].p)

FInv == Shape /\ OneAsks /\ Lone /\ \A k \in Calls : Active(k) => Found(k)

-----------------------------------------------------------------------------
(* A pair has two rows, which are different.                               *)
LEMMA TwoRows ==
    ASSUME NEW p \in Rows
    PROVE  /\ Turned(p) \in Rows /\ Turned(p) # p /\ Turned(Turned(p)) = p
           /\ Pair(p) \in Pairs /\ Pair(Turned(p)) = Pair(p)
           /\ \A q \in Rows : Pair(q) = Pair(p) => q = p \/ q = Turned(p)
<1>1. PICK u \in Users, v \in Users : p = <<u, v>> /\ u # v
  BY DEF Rows
<1>2. Turned(p) = <<v, u>> /\ Turned(p) \in Rows
  BY <1>1 DEF Turned, Rows
<1>3. ASSUME NEW q \in Rows, Pair(q) = Pair(p) PROVE q = p \/ q = Turned(p)
  <2>1. PICK x \in Users, y \in Users : q = <<x, y>> /\ x # y
    BY DEF Rows
  <2>2. {x, y} = {u, v}
    BY <1>1, <1>3, <2>1 DEF Pair
  <2> QED
    BY <1>1, <1>2, <2>1, <2>2
<1>4. Pair(Turned(p)) = Pair(p) /\ Pair(p) \in Pairs
  BY <1>1, <1>2 DEF Pair, Pairs
<1> QED
  BY <1>1, <1>2, <1>3, <1>4 DEF Turned

(* A call that is under way has the fields of one.                         *)
LEMMA ActiveShape ==
    ASSUME Shape, NEW k \in Calls, Active(k)
    PROVE  call[k] \in Doing /\ call[k].p \in Rows
BY DEF Shape, Active, Ended, Doing, Done

(* A step of a call writes nothing but what belongs to its pair.           *)
LEMMA OneSteps ==
    ASSUME FInv, NEW k \in Calls, NEW p \in Rows,
           Active(k), call[k].p = p,
           DOMAIN call' = Calls,
           \A j \in Calls \ {k} : call'[j] = call[j],
           call'[k] \in Doing \cup Done, Active(k)' => call'[k].p = p,
           status' \in [Rows -> Statuses], row' \in [Pairs -> Nat],
           \A q \in Rows : q # p => status'[q] = status[q],
           \A x \in Pairs : x # Pair(p) => row'[x] = row[x],
           status'[p] = "pending" => status[Turned(p)] # "pending",
           Active(k)' => Found(k)'
    PROVE  FInv'
<1>1. Shape'
  BY DEF FInv, Shape
<1>2. ASSUME NEW q \in Rows, status'[q] = "pending" PROVE status'[Turned(q)] # "pending"
  <2>1. CASE q = p
    BY <1>2, <2>1, TwoRows
  <2>2. CASE q # p /\ Turned(q) = p
    <3>1. status[q] = "pending" /\ q = Turned(p)
      BY <1>2, <2>2, TwoRows
    <3> QED
      BY <2>2, <3>1
  <2>3. CASE q # p /\ Turned(q) # p
    BY <1>2, <2>3, TwoRows DEF FInv, OneAsks
  <2> QED
    BY <2>1, <2>2, <2>3
<1>3. ASSUME NEW j \in Calls, j # k, Active(j)' PROVE Active(j) /\ Pair(call[j].p) # Pair(p)
  <2>1. Active(j)
    BY <1>3 DEF Active
  <2> QED
    BY <1>3, <2>1 DEF FInv, Lone
<1>4. Lone'
  <2> SUFFICES ASSUME NEW i \in Calls, NEW j \in Calls, i # j, Active(i)', Active(j)'
               PROVE  Pair(call'[i].p) # Pair(call'[j].p)
    BY DEF Lone, Pair
  <2>1. CASE i = k
    BY <1>3, <2>1
  <2>2. CASE j = k
    BY <1>3, <2>2
  <2>3. CASE i # k /\ j # k
    <3>1. Active(i) /\ Active(j)
      BY <1>3, <2>3
    <3> QED
      BY <2>3, <3>1 DEF FInv, Lone
  <2> QED
    BY <2>1, <2>2, <2>3
<1>5. ASSUME NEW j \in Calls, Active(j)' PROVE Found(j)'
  <2>1. CASE j = k
    BY <1>5, <2>1
  <2>2. CASE j # k
    <3> DEFINE q == call[j].p
    <3>1. Active(j) /\ Pair(q) # Pair(p) /\ call'[j] = call[j]
      BY <1>3, <1>5, <2>2
    <3>2. q \in Rows /\ Found(j)
      BY <3>1, ActiveShape DEF FInv
    <3>3. q # p /\ Turned(q) # p
      BY <3>1, <3>2, TwoRows
    <3>4. /\ status'[q] = status[q] /\ status'[Turned(q)] = status[Turned(q)]
          /\ row'[Pair(q)] = row[Pair(q)]
      BY <3>1, <3>2, <3>3, TwoRows
    <3> QED
      BY <3>1, <3>2, <3>4 DEF Found, AreFriends
  <2> QED
    BY <2>1, <2>2
<1> QED
  BY <1>1, <1>2, <1>4, <1>5 DEF FInv, OneAsks

(* A call begins while no other has its pair.                              *)
LEMMA OneBegins ==
    ASSUME Apart, FInv, NEW k \in Calls, NEW c \in Doing, Begin(k, c),
           c.pc \in {"pending", "delete"} \/ (c.pc = "friends" /\ c.op = "send"),
           c.pc = "pending" => c.op \in Decisions
    PROVE  FInv'
<1>1. /\ call' = [call EXCEPT ![k] = c] /\ UNCHANGED <<status, row>>
      /\ \A j \in Calls : Active(j) => Pair(call[j].p) # Pair(c.p)
      /\ ~Active(k)
  BY DEF Begin, At, Active, Ended
<1>2. /\ call'[k] = c /\ DOMAIN call' = Calls
      /\ \A j \in Calls \ {k} : call'[j] = call[j]
  BY <1>1 DEF FInv, Shape
<1>3. Shape' /\ OneAsks'
  BY <1>1, <1>2 DEF FInv, Shape, OneAsks
<1>4. \A j \in Calls \ {k} : Active(j)' => Active(j)
  BY <1>2 DEF Active
<1>5. Lone'
  <2> SUFFICES ASSUME NEW i \in Calls, NEW j \in Calls, i # j, Active(i)', Active(j)'
               PROVE  Pair(call'[i].p) # Pair(call'[j].p)
    BY DEF Lone, Pair
  <2>1. CASE i = k \/ j = k
    BY <1>1, <1>2, <1>4, <2>1
  <2>2. CASE i # k /\ j # k
    <3>1. Active(i) /\ Active(j)
      BY <1>4, <2>2
    <3> QED
      BY <1>2, <2>2, <3>1 DEF FInv, Lone
  <2> QED
    BY <2>1, <2>2
<1>6. ASSUME NEW j \in Calls, Active(j)' PROVE Found(j)'
  <2>1. CASE j = k
    BY <1>2, <2>1 DEF Found, Decisions
  <2>2. CASE j # k
    <3>1. Found(j) /\ call'[j] = call[j]
      BY <1>2, <1>4, <1>6, <2>2 DEF FInv
    <3> QED
      BY <1>1, <3>1 DEF Found, AreFriends
  <2> QED
    BY <2>1, <2>2
<1> QED
  BY <1>3, <1>5, <1>6 DEF FInv

-----------------------------------------------------------------------------
(* The invariant, step by step.                                            *)
Starts(k) == \E p \in Rows :
    \/ BeginSend(k, p) \/ BeginRemove(k, p)
    \/ \E op \in Decisions : BeginDecide(k, op, p)

(* Steps that write no row, and those that do.                             *)
Reads(k) ==
    \/ SendFriends(k) \/ Existing(k) \/ FindPending(k) \/ AcceptFriends(k) \/ Fail(k)
Writes(k) == InsertRequest(k) \/ Befriend(k) \/ SaveStatus(k) \/ DeleteFriend(k)

LEMMA NextIs == Next => \E k \in Calls : Starts(k) \/ Reads(k) \/ Writes(k)
BY DEF Next, Starts, Reads, Writes, Decisions

LEMMA Initially == Init => FInv
<1> SUFFICES ASSUME Init PROVE FInv
  OBVIOUS
<1>1. \A k \in Calls : call[k] \in Done /\ ~Active(k)
  BY DEF Init, Idle, Done, Active
<1> QED
  BY <1>1 DEF Init, FInv, Shape, OneAsks, Lone, Statuses

LEMMA StartsKeep ==
    ASSUME Apart, FInv, NEW k \in Calls, Starts(k) PROVE FInv'
<1>1. PICK p \in Rows : \/ BeginSend(k, p) \/ BeginRemove(k, p)
                        \/ \E op \in Decisions : BeginDecide(k, op, p)
  BY DEF Starts
<1>2. CASE BeginSend(k, p)
  <2> DEFINE c == Call("send", "friends", p)
  <2>1. c \in Doing /\ c.pc = "friends" /\ c.op = "send"
    BY DEF Call, Doing
  <2> QED
    BY <1>2, <2>1, OneBegins DEF BeginSend
<1>3. CASE BeginRemove(k, p)
  <2> DEFINE c == [Call("remove", "delete", p) EXCEPT !.id = row[Pair(p)]]
  <2>1. row[Pair(p)] \in Nat
    BY TwoRows DEF FInv, Shape
  <2>2. c \in Doing /\ c.pc = "delete"
    BY <2>1 DEF Call, Doing
  <2> QED
    BY <1>3, <2>2, OneBegins DEF BeginRemove
<1>4. ASSUME NEW op \in Decisions, BeginDecide(k, op, p) PROVE FInv'
  <2> DEFINE c == Call(op, "pending", p)
  <2>1. c \in Doing /\ c.pc = "pending" /\ c.op \in Decisions
    BY DEF Call, Doing, Decisions
  <2> QED
    BY <1>4, <2>1, OneBegins DEF BeginDecide
<1> QED
  BY <1>1, <1>2, <1>3, <1>4

(* What Goto makes of a call.                                              *)
LEMMA GotoStep ==
    ASSUME Shape, NEW k \in Calls, Active(k), NEW pc, Goto(k, pc),
           pc \in Ended \cup {"existing", "insert", "befriend", "friends", "save"}
    PROVE  /\ DOMAIN call' = Calls
           /\ \A j \in Calls \ {k} : call'[j] = call[j]
           /\ pc \in Ended => call'[k] \in Done /\ ~Active(k)'
           /\ pc \notin Ended => /\ call'[k] \in Doing /\ call'[k].pc = pc
                                 /\ call'[k].op = call[k].op /\ call'[k].p = call[k].p
<1>1. call[k] \in Doing
  BY ActiveShape
<1>2. /\ DOMAIN call' = Calls /\ \A j \in Calls \ {k} : call'[j] = call[j]
      /\ call'[k] = IF pc \in Ended THEN [op |-> call[k].op, pc |-> pc]
                    ELSE [call[k] EXCEPT !.pc = pc]
  BY DEF Goto, Shape
<1>3. CASE pc \in Ended
  BY <1>1, <1>2, <1>3 DEF Doing, Done, Ended, Active
<1>4. CASE pc \notin Ended
  BY <1>1, <1>2, <1>4 DEF Doing, Ended
<1> QED
  BY <1>2, <1>3, <1>4

(* A step that writes nothing: what it has found is true.                  *)
LEMMA ReadsKeep ==
    ASSUME FInv, NEW k \in Calls, Reads(k) PROVE FInv' /\ UNCHANGED <<status, row>>
<1>1. Active(k) /\ UNCHANGED <<status, row>>
  BY DEF Reads, SendFriends, Existing, FindPending, AcceptFriends, Fail, At, Active, Ended
<1>2. PICK p \in Rows : Shape /\ Found(k) /\ call[k] \in Doing /\ call[k].p = p
  BY <1>1, ActiveShape DEF FInv
<1>3. PICK pc \in Ended \cup {"existing", "insert", "befriend", "friends", "save"} :
         /\ Goto(k, pc)
         /\ pc = "existing" => call[k].op = "send" /\ ~AreFriends(p)
         /\ pc = "insert" => /\ call[k].op = "send" /\ ~AreFriends(p)
                             /\ status[p] # "pending" /\ status[Turned(p)] # "pending"
         /\ pc = "befriend" => call[k].op = "accept" /\ status[p] = "pending" /\ ~AreFriends(p)
         /\ pc = "friends" => call[k].op = "accept" /\ status[p] = "pending"
         /\ pc = "save" => /\ call[k].op \in Decisions /\ status[p] = "pending"
                           /\ call[k].op = "accept" => AreFriends(p)
  <2>1. CASE SendFriends(k)
    BY <1>2, <2>1 DEF SendFriends, Op, Ended
  <2>2. CASE Existing(k)
    BY <1>2, <2>2 DEF Existing, At, Found, Ended
  <2>3. CASE FindPending(k)
    BY <1>2, <2>3 DEF FindPending, At, Op, Found, Ended, Decisions
  <2>4. CASE AcceptFriends(k)
    BY <1>2, <2>4 DEF AcceptFriends, At, Op, Found, Ended, Decisions
  <2>5. CASE Fail(k)
    BY <2>5 DEF Fail, Ended
  <2> QED
    BY <2>1, <2>2, <2>3, <2>4, <2>5 DEF Reads
<1>4. /\ DOMAIN call' = Calls /\ \A j \in Calls \ {k} : call'[j] = call[j]
      /\ pc \in Ended => call'[k] \in Done /\ ~Active(k)'
      /\ pc \notin Ended => /\ call'[k] \in Doing /\ call'[k].pc = pc
                            /\ call'[k].op = call[k].op /\ call'[k].p = p
  BY <1>1, <1>2, <1>3, GotoStep
<1>5. Active(k)' => Found(k)'
  <2> SUFFICES ASSUME Active(k)' PROVE Found(k)'
    OBVIOUS
  <2>1. /\ pc \in {"existing", "insert", "befriend", "friends", "save"}
        /\ call'[k].pc = pc /\ call'[k].op = call[k].op /\ call'[k].p = p
    BY <1>3, <1>4 DEF Ended
  <2>2. row'[Pair(p)] = row[Pair(p)]
    BY <1>1
  <2> QED
    BY <1>1, <1>3, <2>1, <2>2 DEF Found, AreFriends, Decisions
<1>6. status[p] = "pending" => status[Turned(p)] # "pending"
  BY <1>2 DEF FInv, OneAsks
<1> QED
  BY <1>1, <1>2, <1>4, <1>5, <1>6, OneSteps DEF Shape

-----------------------------------------------------------------------------
(* What a step that writes does to the rows of its pair.                   *)
Asks(p) == /\ ~AreFriends(p) /\ status[p] = "none" /\ status[Turned(p)] # "pending"
           /\ status' = [status EXCEPT ![p] = "pending"] /\ UNCHANGED row
Agrees(p) == /\ ~AreFriends(p) /\ status[p] = "pending"
             /\ UNCHANGED status
             /\ \E n \in Nat \ {0} : row' = [row EXCEPT ![Pair(p)] = n]
Decides(p) == /\ status[p] = "pending" /\ UNCHANGED row
              /\ \/ status' = [status EXCEPT ![p] = "accepted"] /\ AreFriends(p)
                 \/ \E s \in {"rejected", "cancelled"} : status' = [status EXCEPT ![p] = s]
Parts(p) == /\ UNCHANGED status
            /\ row' \in {row, [row EXCEPT ![Pair(p)] = 0]}

LEMMA WritesKeep ==
    ASSUME FInv, NEW k \in Calls, Writes(k)
    PROVE  /\ FInv'
           /\ \/ UNCHANGED <<status, row>>
              \/ \E p \in Rows : Asks(p) \/ Agrees(p) \/ Decides(p) \/ Parts(p)
<1>1. Active(k)
  BY DEF Writes, InsertRequest, Befriend, SaveStatus, DeleteFriend, At, Active, Ended
<1>2. PICK p \in Rows : Shape /\ Found(k) /\ call[k] \in Doing /\ call[k].p = p
  BY <1>1, ActiveShape DEF FInv
<1>3. /\ Pair(p) \in Pairs /\ status \in [Rows -> Statuses] /\ row \in [Pairs -> Nat]
      /\ status[p] = "pending" => status[Turned(p)] # "pending"
  BY <1>2, TwoRows DEF FInv, Shape, OneAsks
<1>4. CASE InsertRequest(k)
  <2>1. PICK pc \in Ended : Goto(k, pc) /\ (UNCHANGED <<status, row>> \/ Asks(p))
    BY <1>2, <1>4 DEF InsertRequest, At, Found, Asks, Ended
  <2>2. /\ DOMAIN call' = Calls /\ \A j \in Calls \ {k} : call'[j] = call[j]
        /\ call'[k] \in Done /\ ~Active(k)'
    BY <1>1, <1>2, <2>1, GotoStep
  <2>3. /\ status' \in [Rows -> Statuses] /\ row' = row
        /\ \A q \in Rows : q # p => status'[q] = status[q]
        /\ status'[p] = "pending" => status[Turned(p)] # "pending"
    BY <1>3, <2>1 DEF Asks, Statuses
  <2> QED
    BY <1>1, <1>2, <1>3, <2>1, <2>2, <2>3, OneSteps
<1>5. CASE Befriend(k)
  <2>1. call[k].op = "accept" /\ status[p] = "pending" /\ ~AreFriends(p) /\ status' = status
    BY <1>2, <1>5 DEF Befriend, At, Found
  <2>2. Goto(k, "save") /\ row' = [row EXCEPT ![Pair(p)] = k] /\ k \in Nat \ {0}
    BY <1>2, <1>5, <2>1, FriendsAssumption DEF Befriend, Calls
  <2>3. /\ DOMAIN call' = Calls /\ \A j \in Calls \ {k} : call'[j] = call[j]
        /\ call'[k] \in Doing /\ call'[k].pc = "save"
        /\ call'[k].op = "accept" /\ call'[k].p = p
    BY <1>1, <1>2, <2>1, <2>2, GotoStep DEF Ended
  <2>4. /\ row' \in [Pairs -> Nat] /\ row'[Pair(p)] # 0
        /\ \A x \in Pairs : x # Pair(p) => row'[x] = row[x]
    BY <1>3, <2>2
  <2>5. Found(k)'
    BY <2>1, <2>3, <2>4 DEF Found, AreFriends, Decisions
  <2>6. Agrees(p)
    BY <2>1, <2>2 DEF Agrees
  <2> QED
    BY <1>1, <1>2, <1>3, <2>1, <2>3, <2>4, <2>5, <2>6, OneSteps
<1>6. CASE SaveStatus(k)
  <2>1. /\ Goto(k, "ok") /\ row' = row /\ call[k].op \in Decisions
        /\ status[p] = "pending" /\ (call[k].op = "accept" => AreFriends(p))
    BY <1>2, <1>6 DEF SaveStatus, At, Found
  <2>2. PICK s \in {"accepted", "rejected", "cancelled"} :
           /\ status' = [status EXCEPT ![p] = s]
           /\ s = "accepted" => AreFriends(p)
    BY <1>2, <1>6, <2>1 DEF SaveStatus, Op, Decisions
  <2>3. /\ DOMAIN call' = Calls /\ \A j \in Calls \ {k} : call'[j] = call[j]
        /\ call'[k] \in Done /\ ~Active(k)'
    BY <1>1, <1>2, <2>1, GotoStep DEF Ended
  <2>4. /\ status' \in [Rows -> Statuses] /\ status'[p] # "pending"
        /\ \A q \in Rows : q # p => status'[q] = status[q]
    BY <1>3, <2>2 DEF Statuses
  <2>5. Decides(p)
    BY <2>1, <2>2 DEF Decides
  <2> QED
    BY <1>1, <1>2, <1>3, <2>1, <2>3, <2>4, <2>5, OneSteps
<1>7. CASE DeleteFriend(k)
  <2>1. Goto(k, "ok") /\ status' = status /\ row' \in {row, [row EXCEPT ![Pair(p)] = 0]}
    BY <1>2, <1>3, <1>7 DEF DeleteFriend
  <2>2. /\ DOMAIN call' = Calls /\ \A j \in Calls \ {k} : call'[j] = call[j]
        /\ call'[k] \in Done /\ ~Active(k)'
    BY <1>1, <1>2, <2>1, GotoStep DEF Ended
  <2>3. row' \in [Pairs -> Nat] /\ \A x \in Pairs : x # Pair(p) => row'[x] = row[x]
    BY <1>3, <2>1
  <2>4. Parts(p)
    BY <2>1 DEF Parts
  <2> QED
    BY <1>1, <1>2, <1>3, <2>1, <2>2, <2>3, <2>4, OneSteps
<1> QED
  BY <1>4, <1>5, <1>6, <1>7 DEF Writes

(* Every step keeps the invariant, and changes the rows in one of these    *)
(* ways or not at all.                                                     *)
LEMMA Stepwise ==
    ASSUME Apart, FInv, [Next]_vars
    PROVE  /\ FInv'
           /\ \/ UNCHANGED <<status, row>>
              \/ \E p \in Rows : Asks(p) \/ Agrees(p) \/ Decides(p) \/ Parts(p)
<1>1. CASE UNCHANGED vars
  BY <1>1 DEF vars, FInv, Shape, OneAsks, Lone, Active, Found, AreFriends
<1>2. CASE Next
  <2>1. PICK k \in Calls : Starts(k) \/ Reads(k) \/ Writes(k)
    BY <1>2, NextIs
  <2>2. Starts(k) => UNCHANGED <<status, row>>
    BY DEF Starts, BeginSend, BeginRemove, BeginDecide, Begin
  <2> QED
    BY <2>1, <2>2, StartsKeep, ReadsKeep, WritesKeep
<1> QED
  BY <1>1, <1>2

-----------------------------------------------------------------------------
(* The rows implement Friendship, for any users and calls: no friendship   *)
(* is made but of an open request between the two.                         *)
THEOREM PromiseKept ==
    ASSUME Apart PROVE Spec => KeepsPromise
<1>1. Init => Promise!Init
  BY TwoRows DEF Init, Promise!Init, Befriended, Open
<1>2. ASSUME FInv, [Next]_vars PROVE [Promise!Next]_<<Befriended, Open>>
  <2>1. CASE UNCHANGED <<status, row>>
    BY <2>1 DEF Befriended, Open
  <2>2. ASSUME NEW p \in Rows, Asks(p) \/ Agrees(p) \/ Decides(p) \/ Parts(p)
        PROVE  Promise!Next \/ UNCHANGED <<Befriended, Open>>
    <3> DEFINE s == p[1]
               r == p[2]
    <3>1. /\ s \in Users /\ r \in Users /\ s # r /\ p = <<s, r>> /\ Turned(p) = <<r, s>>
          /\ Pair(p) = Promise!Pair(s, r) /\ Pair(p) = Promise!Pair(r, s)
      BY DEF Rows, Turned, Pair, Promise!Pair
    <3>2. /\ Turned(p) \in Rows /\ Turned(p) # p /\ Pair(Turned(p)) = Pair(p) /\ Pair(p) \in Pairs
          /\ \A q \in Rows : Pair(q) = Pair(p) => q = p \/ q = Turned(p)
          /\ \A q \in Rows : Pair(q) \in Pairs
      BY TwoRows
    <3>3. status \in [Rows -> Statuses] /\ row \in [Pairs -> Nat] /\ OneAsks
      BY <1>2 DEF FInv, Shape
    <3>4. AreFriends(p) <=> Pair(p) \in Befriended
      BY <3>2 DEF AreFriends, Befriended
    <3>5. CASE Asks(p)
      <4>1. Befriended' = Befriended /\ Open' = Open \cup {p} /\ {p, Turned(p)} \cap Open = {}
        BY <3>2, <3>3, <3>4, <3>5 DEF Asks, Befriended, Open
      <4>2. Promise!Ask(s, r)
        BY <3>1, <3>4, <3>5, <4>1 DEF Promise!Ask, Asks
      <4> QED
        BY <3>1, <4>2 DEF Promise!Next
    <3>6. CASE Agrees(p)
      <4>1. PICK n \in Nat \ {0} : row' = [row EXCEPT ![Pair(p)] = n]
        BY <3>6 DEF Agrees
      <4>2. Befriended' = Befriended \cup {Pair(p)}
        BY <3>2, <3>3, <4>1 DEF Befriended
      <4>3. p \in Open
        BY <3>4, <3>6 DEF Agrees, Open
      <4>4. Open' = Open \ {p}
        BY <3>2, <3>3, <3>6, <4>2 DEF Agrees, Open, OneAsks
      <4>5. Promise!Agree(s, r)
        BY <3>1, <4>2, <4>3, <4>4 DEF Promise!Agree
      <4> QED
        BY <3>1, <4>5 DEF Promise!Next
    <3>7. CASE Decides(p)
      <4>1. Befriended' = Befriended /\ status'[p] # "pending"
            /\ \A q \in Rows : q # p => status'[q] = status[q]
        BY <3>3, <3>7 DEF Decides, Befriended
      <4>2. Open' = Open \ {p}
        BY <4>1 DEF Open
      <4>3. CASE p \in Open
        <5>1. Promise!Withdraw(s, r)
          BY <3>1, <4>1, <4>2, <4>3 DEF Promise!Withdraw
        <5> QED
          BY <3>1, <5>1 DEF Promise!Next
      <4>4. CASE p \notin Open
        BY <4>1, <4>2, <4>4
      <4> QED
        BY <4>3, <4>4
    <3>8. CASE Parts(p)
      <4>1. CASE row' = row \/ ~AreFriends(p)
        <5>1. \A x \in Pairs : row'[x] = row[x]
          BY <3>2, <3>3, <3>8, <4>1 DEF Parts, AreFriends
        <5>2. Befriended' = Befriended
          BY <5>1 DEF Befriended
        <5> QED
          BY <3>8, <5>2 DEF Parts, Open
      <4>2. CASE row' # row /\ AreFriends(p)
        <5>1. Befriended' = Befriended \ {Pair(p)} /\ Pair(p) \in Befriended
          BY <3>2, <3>3, <3>4, <3>8, <4>2 DEF Parts, Befriended
        <5>2. Open' = Open \cup {q \in {p, Turned(p)} : status[q] = "pending"}
          BY <3>2, <3>8, <5>1 DEF Parts, Open
        <5>3. Open' \in {Open, Open \cup {p}} \/ Open' \in {Open, Open \cup {Turned(p)}}
          BY <3>2, <3>3, <5>2 DEF OneAsks
        <5>4. Promise!Part(s, r) \/ Promise!Part(r, s)
          BY <3>1, <5>1, <5>3 DEF Promise!Part
        <5> QED
          BY <3>1, <5>4 DEF Promise!Next
      <4> QED
        BY <4>1, <4>2
    <3> QED
      BY <2>2, <3>5, <3>6, <3>7, <3>8
  <2> QED
    BY <1>2, <2>1, <2>2, Stepwise
<1>3. FInv /\ [Next]_vars => FInv'
  BY Stepwise
<1> QED
  BY <1>1, <1>2, <1>3, Initially, PTL DEF Spec, KeepsPromise, Promise!Spec

(* A request that was accepted, rejected or cancelled stays as it was      *)
(* decided, for any users and calls.                                       *)
THEOREM DecisionsStand ==
    ASSUME Apart PROVE Spec => DecidedOnce
<1>1. ASSUME FInv, [Next]_vars, NEW p \in Rows, status[p] \in {"accepted", "rejected", "cancelled"}
      PROVE  status'[p] = status[p]
  <2>1. status \in [Rows -> Statuses]
    BY <1>1 DEF FInv, Shape
  <2>2. ASSUME NEW q \in Rows, Asks(q) \/ Agrees(q) \/ Decides(q) \/ Parts(q)
        PROVE  status'[p] = status[p]
    BY <1>1, <2>1, <2>2 DEF Asks, Agrees, Decides, Parts
  <2> QED
    BY <1>1, <2>2, Stepwise
<1>2. FInv /\ [Next]_vars => [\A p \in Rows :
         status[p] \in {"accepted", "rejected", "cancelled"} => status'[p] = status[p]]_vars
  BY <1>1
<1>3. FInv /\ [Next]_vars => FInv'
  BY Stepwise
<1> QED
  BY <1>2, <1>3, Initially, PTL DEF Spec, DecidedOnce
-----------------------------------------------------------------------------
(* Channels.  What a request on channels looks like: one under way, and    *)
(* one that has not begun or has ended.                                    *)
ChannelOps == {"direct", "group", "add", "remove"}
ChannelPcs == {"find", "count", "save", "members", "kind", "insert", "target", "delete"}
ChannelRows == {Channels!NoMember} \cup [type : {"member", "admin"}, row : Channels!Channels]

Asking(c) ==
    /\ DOMAIN c = {"op", "pc", "by", "on", "c", "todo"}
    /\ c = Channels!Call(c.op, c.pc, c.by, c.on, c.c, c.todo)
    /\ c.op \in ChannelOps /\ c.pc \in ChannelPcs
    /\ c.by \in Users /\ c.on \subseteq Users /\ c.c \in Channels!Channels

Asked(c) ==
    \/ c = Channels!Idle
    \/ DOMAIN c = {"op", "pc"} /\ c = [op |-> c.op, pc |-> "failed"] /\ c.op \in ChannelOps
    \/ /\ DOMAIN c = {"op", "pc", "by", "on", "c"}
       /\ c = [op |-> c.op, pc |-> "ok", by |-> c.by, on |-> c.on, c |-> c.c]
       /\ c.op \in ChannelOps /\ c.by \in Users /\ c.on \subseteq Users /\ c.c \in Channels!Channels

(* Where a request of a kind may be; who asks for a direct channel names   *)
(* one other user, and a new channel has the number of its request.        *)
Phase(r, c) ==
    /\ c.pc \in {"find", "count"} => c.op = "direct"
    /\ c.pc \in {"save", "members"} => c.op \in {"direct", "group"}
    /\ c.pc \in {"kind", "insert"} => c.op = "add"
    /\ c.pc \in {"target", "delete"} => c.op = "remove"
    /\ c.op \in {"direct", "group"} /\ c.pc \in ChannelPcs => c.c = r
    /\ c.op = "direct" /\ c.pc \in ChannelPcs \cup {"ok"} => \E o \in Users : o # c.by /\ c.on = {o}

ChannelShape ==
    /\ kind \in [Channels!Channels -> {"none", "direct", "group"}] /\ kind[0] = "group"
    /\ member \in [Channels!Channels -> [Users -> ChannelRows]]
    /\ DOMAIN creq = Channels!Requests
    /\ \A r \in Channels!Requests : (Asking(creq[r]) \/ Asked(creq[r])) /\ Phase(r, creq[r])

(* Channel r has its kind once it is saved, and rows, if it is direct,     *)
(* only from the request that made it.                                     *)
Empty(c, m) == \A u \in Users : m[c][u] = Channels!NoMember
RowsOf(r) ==
    /\ creq[r].pc \in {"idle", "find", "count", "save"} => kind[r] = "none"
    /\ creq[r].pc = "members" => kind[r] = creq[r].op
    /\ kind[r] = "none" => Empty(r, member)
    /\ kind[r] = "direct" => creq[r].op = "direct" /\ (creq[r].pc # "ok" => Empty(r, member))
    /\ creq[r].pc = "insert" => kind[creq[r].c] = "group"

(* What a search for a direct channel has found: those still to look at    *)
(* are direct and among them is every one of both users, and once it gives *)
(* up there is none.                                                       *)
SharedBy(c, P, k, m) == k[c] = "direct" /\ \A u \in P : m[c][u] # Channels!NoMember
Seeking(c) == c.op = "direct" /\ c.pc \in ChannelPcs
FoundBy(r) ==
    LET P == Channels!People(creq[r]) IN
    creq[r].op = "direct" =>
      /\ creq[r].pc = "count" =>
           /\ \A c \in Channels!Channels : SharedBy(c, P, kind, member) => c \in creq[r].todo
           /\ \A c \in creq[r].todo : c \in Channels!Channels /\ kind[c] = "direct"
      /\ creq[r].pc \in {"save", "members"} =>
           \A c \in Channels!Channels : ~SharedBy(c, P, kind, member)

Pairwise == \A q, r \in Channels!Requests :
    q # r /\ Seeking(creq[q]) /\ Seeking(creq[r]) => Channels!People(creq[q]) # Channels!People(creq[r])

OneEach(k, m) == \A u, v \in Users : u # v =>
    \A c, d \in Channels!Channels : SharedBy(c, {u, v}, k, m) /\ SharedBy(d, {u, v}, k, m) => c = d

(* A direct channel that was made is of the two users its request names,   *)
(* until one is removed; who was answered with it named the same two.      *)
In(c, m) == {u \in Users : m[c][u] # Channels!NoMember}
LeftBy(c) == \E r \in Channels!Requests : creq[r].op = "remove" /\ creq[r].pc = "ok" /\ creq[r].c = c
MadeBy(r) ==
    kind[r] = "direct" /\ creq[r].pc = "ok" =>
      /\ creq[r].c = r /\ In(r, member) \subseteq Channels!People(creq[r])
      /\ LeftBy(r) \/ In(r, member) = Channels!People(creq[r])
AnsweredTo(r) ==
    creq[r].op = "direct" /\ creq[r].pc = "ok" =>
      LET c == creq[r].c IN
      /\ c \in Channels!Requests /\ kind[c] = "direct" /\ creq[c].pc = "ok"
      /\ Channels!People(creq[c]) = Channels!People(creq[r])

CInv ==
    /\ ChannelShape /\ Pairwise /\ OneEach(kind, member)
    /\ \A r \in Channels!Requests : RowsOf(r) /\ FoundBy(r) /\ MadeBy(r) /\ AnsweredTo(r)

-----------------------------------------------------------------------------
(* A step of request r: the others stay, and what they found is still so.  *)
CMoves(r) ==
    DOMAIN creq' = Channels!Requests /\ \A q \in Channels!Requests \ {r} : creq'[q] = creq[q]

LEMMA ChannelNumbers ==
    /\ \A r \in Channels!Requests : r \in Channels!Channels /\ r # 0
    /\ 0 \in Channels!Channels
    /\ \A c \in Channels!Channels : c # 0 => c \in Channels!Requests
    /\ MaxRequests \in Nat
BY ChatAssumption DEF Channels!ChannelAssumption, Channels!Requests, Channels!Channels

LEMMA ChannelMoves ==
    ASSUME CInv, NEW r \in Channels!Requests, CMoves(r), creq[r].pc \notin {"ok", "failed"},
           kind' \in [Channels!Channels -> {"none", "direct", "group"}],
           member' \in [Channels!Channels -> [Users -> ChannelRows]],
           \A c \in Channels!Channels : c # r => kind'[c] = kind[c],
           kind[r] # "none" => kind'[r] = kind[r],
           \A q \in Channels!Requests \ {r} :
              kind[q] \in {"none", "direct"} /\ Empty(q, member) => Empty(q, member'),
           \A q \in Channels!Requests \ {r} : Seeking(creq[q]) =>
              \A c \in Channels!Channels :
                 SharedBy(c, Channels!People(creq[q]), kind', member') =>
                    SharedBy(c, Channels!People(creq[q]), kind, member),
           \A q \in Channels!Requests \ {r} : kind[q] = "direct" =>
              \/ In(q, member') = In(q, member)
              \/ In(q, member') \subseteq In(q, member) /\ LeftBy(q)',
           OneEach(kind', member'),
           Seeking(creq'[r]) => \A q \in Channels!Requests \ {r} :
              Seeking(creq[q]) => Channels!People(creq[q]) # Channels!People(creq'[r]),
           Asking(creq'[r]) \/ Asked(creq'[r]), Phase(r, creq'[r]),
           RowsOf(r)', FoundBy(r)', MadeBy(r)', AnsweredTo(r)'
    PROVE  CInv'
<1>0. ChannelShape /\ Pairwise
  BY DEF CInv
<1>1. ChannelShape'
  <2>1. kind'[0] = "group"
    BY <1>0, ChannelNumbers DEF ChannelShape
  <2>2. ASSUME NEW q \in Channels!Requests
        PROVE  (Asking(creq'[q]) \/ Asked(creq'[q])) /\ Phase(q, creq'[q])
    <3>1. CASE q = r
      BY <3>1
    <3>2. CASE q # r
      BY <1>0, <3>2 DEF CMoves, ChannelShape
    <3> QED
      BY <3>1, <3>2
  <2> QED
    BY <2>1, <2>2 DEF ChannelShape, CMoves
<1>2. Pairwise'
  <2>1. ASSUME NEW p \in Channels!Requests, NEW q \in Channels!Requests, p # q,
               Seeking(creq'[p]), Seeking(creq'[q])
        PROVE  Channels!People(creq'[p]) # Channels!People(creq'[q])
    <3>1. CASE p = r
      <4>1. creq'[q] = creq[q]
        BY <2>1, <3>1 DEF CMoves
      <4> QED
        BY <2>1, <3>1, <4>1
    <3>2. CASE q = r
      <4>1. creq'[p] = creq[p]
        BY <2>1, <3>2 DEF CMoves
      <4> QED
        BY <2>1, <3>2, <4>1
    <3>3. CASE p # r /\ q # r
      <4>1. creq'[p] = creq[p] /\ creq'[q] = creq[q]
        BY <3>3 DEF CMoves
      <4> QED
        BY <1>0, <2>1, <4>1 DEF Pairwise
    <3> QED
      BY <3>1, <3>2, <3>3
  <2> QED
    BY <2>1 DEF Pairwise
<1>3. ASSUME NEW c, LeftBy(c) PROVE LeftBy(c)'
  <2>1. PICK q \in Channels!Requests : creq[q].op = "remove" /\ creq[q].pc = "ok" /\ creq[q].c = c
    BY <1>3 DEF LeftBy
  <2>2. creq'[q] = creq[q]
    BY <2>1 DEF CMoves
  <2> QED
    BY <2>1, <2>2 DEF LeftBy
<1>4. ASSUME NEW q \in Channels!Requests, q # r
      PROVE  RowsOf(q)' /\ FoundBy(q)' /\ MadeBy(q)' /\ AnsweredTo(q)'
  <2>0. RowsOf(q) /\ FoundBy(q) /\ MadeBy(q) /\ AnsweredTo(q) /\ RowsOf(r)
    BY DEF CInv
  <2>1. creq'[q] = creq[q] /\ q \in Channels!Channels /\ kind'[q] = kind[q]
        /\ kind[q] \in {"none", "direct", "group"}
    BY <1>0, <1>4, ChannelNumbers DEF CMoves, ChannelShape
  <2>2. Empty(q, member) /\ kind[q] \in {"none", "direct"} => Empty(q, member')
    BY <1>4
  <2>3. \A c \in Channels!Channels : kind[c] # "none" => kind'[c] = kind[c]
    OBVIOUS
  <2>4. creq[q].pc \in {"insert"} \cup {"ok"} => creq[q].c \in Channels!Channels
    BY <1>0 DEF ChannelShape, Asking, Asked, Channels!Idle
  <2>5. RowsOf(q)'
    <3>1. creq[q].pc = "insert" => kind'[creq[q].c] = "group"
      BY <2>0, <2>3, <2>4 DEF RowsOf
    <3> QED
      BY <2>0, <2>1, <2>2, <3>1 DEF RowsOf
  <2>6. FoundBy(q)'
    <3>1. SUFFICES ASSUME creq[q].op = "direct", creq[q].pc \in {"count", "save", "members"}
                   PROVE  FoundBy(q)'
      BY <2>1 DEF FoundBy
    <3>2. \A c \in Channels!Channels :
             SharedBy(c, Channels!People(creq[q]), kind', member') =>
                SharedBy(c, Channels!People(creq[q]), kind, member)
      BY <1>4, <3>1 DEF Seeking, ChannelPcs
    <3>3. creq[q].pc = "count" =>
             \A c \in creq[q].todo : c \in Channels!Channels /\ kind[c] = "direct" /\ kind'[c] = "direct"
      BY <2>0, <2>3, <3>1 DEF FoundBy
    <3> QED
      BY <2>0, <2>1, <3>1, <3>2, <3>3 DEF FoundBy
  <2>7. MadeBy(q)'
    <3>1. SUFFICES ASSUME kind[q] = "direct", creq[q].pc = "ok" PROVE MadeBy(q)'
      BY <2>1 DEF MadeBy
    <3>2. CASE In(q, member') = In(q, member)
      BY <1>3, <2>0, <2>1, <3>1, <3>2 DEF MadeBy
    <3>3. CASE In(q, member') \subseteq In(q, member) /\ LeftBy(q)'
      BY <2>0, <2>1, <3>1, <3>3 DEF MadeBy
    <3> QED
      BY <1>4, <3>1, <3>2, <3>3
  <2>8. AnsweredTo(q)'
    <3>1. SUFFICES ASSUME creq[q].op = "direct", creq[q].pc = "ok" PROVE AnsweredTo(q)'
      BY <2>1 DEF AnsweredTo
    <3>2. /\ creq[q].c \in Channels!Requests /\ creq[q].c # r
          /\ kind[creq[q].c] = "direct" /\ creq[creq[q].c].pc = "ok"
      BY <2>0, <3>1 DEF AnsweredTo
    <3>3. creq'[creq[q].c] = creq[creq[q].c] /\ kind'[creq[q].c] = "direct"
      BY <3>2, ChannelNumbers DEF CMoves
    <3> QED
      BY <2>0, <2>1, <3>1, <3>2, <3>3 DEF AnsweredTo
  <2> QED
    BY <2>5, <2>6, <2>7, <2>8
<1>5. ASSUME NEW q \in Channels!Requests
      PROVE  RowsOf(q)' /\ FoundBy(q)' /\ MadeBy(q)' /\ AnsweredTo(q)'
  BY <1>4, <1>5
<1> QED
  BY <1>1, <1>2, <1>5 DEF CInv
(* The ways a request goes on: to an answer, to the next call, to failure. *)
LEMMA GoesOn ==
    ASSUME ChannelShape, NEW r \in Channels!Requests, Asking(creq[r]), NEW pc \in ChannelPcs, NEW todo,
           creq' = [creq EXCEPT ![r].pc = pc, ![r].todo = todo]
    PROVE  /\ CMoves(r) /\ Asking(creq'[r]) /\ creq'[r].pc = pc /\ creq'[r].todo = todo
           /\ creq'[r].op = creq[r].op /\ creq'[r].by = creq[r].by /\ creq'[r].on = creq[r].on
           /\ creq'[r].c = creq[r].c /\ Channels!People(creq'[r]) = Channels!People(creq[r])
<1>1. CMoves(r) /\ creq'[r] = [creq[r] EXCEPT !.pc = pc, !.todo = todo]
  BY DEF CMoves, ChannelShape
<1>2. ASSUME NEW c, NEW d, Asking(c), d = [c EXCEPT !.pc = pc, !.todo = todo]
      PROVE  /\ Asking(d) /\ d.pc = pc /\ d.todo = todo /\ d.op = c.op /\ d.by = c.by /\ d.on = c.on
             /\ d.c = c.c
  BY <1>2 DEF Asking, Channels!Call
<1> QED
  BY <1>1, <1>2 DEF Channels!People

LEMMA Answers ==
    ASSUME ChannelShape, NEW r \in Channels!Requests, Asking(creq[r]), NEW c \in Channels!Channels,
           Channels!End(r, c)
    PROVE  /\ CMoves(r) /\ Asked(creq'[r]) /\ creq'[r].pc = "ok" /\ creq'[r].c = c
           /\ creq'[r].op = creq[r].op /\ creq'[r].by = creq[r].by /\ creq'[r].on = creq[r].on
           /\ Channels!People(creq'[r]) = Channels!People(creq[r])
<1>1. CMoves(r) /\ creq'[r] = [op |-> creq[r].op, pc |-> "ok", by |-> creq[r].by, on |-> creq[r].on, c |-> c]
  BY DEF CMoves, ChannelShape, Channels!End
<1>2. ASSUME NEW e, Asking(e), NEW d, d = [op |-> e.op, pc |-> "ok", by |-> e.by, on |-> e.on, c |-> c]
      PROVE  /\ Asked(d) /\ d.pc = "ok" /\ d.c = c /\ d.op = e.op /\ d.by = e.by /\ d.on = e.on
  BY <1>2 DEF Asking, Asked
<1> QED
  BY <1>1, <1>2 DEF Channels!People

LEMMA Refused ==
    ASSUME ChannelShape, NEW r \in Channels!Requests, Asking(creq[r]), Channels!Goto(r, "failed")
    PROVE  CMoves(r) /\ Asked(creq'[r]) /\ creq'[r].pc = "failed" /\ creq'[r].op = creq[r].op
<1>1. CMoves(r) /\ creq'[r] = [op |-> creq[r].op, pc |-> "failed"]
  BY DEF CMoves, ChannelShape, Channels!Goto
<1>2. ASSUME NEW e, Asking(e), NEW d, d = [op |-> e.op, pc |-> "failed"]
      PROVE  Asked(d) /\ d.pc = "failed" /\ d.op = e.op
  BY <1>2 DEF Asking, Asked
<1> QED
  BY <1>1, <1>2

LEMMA GotoGoesOn ==
    ASSUME ChannelShape, NEW r \in Channels!Requests, Asking(creq[r]), NEW pc \in ChannelPcs,
           Channels!Goto(r, pc)
    PROVE  creq' = [creq EXCEPT ![r].pc = pc, ![r].todo = creq[r].todo]
<1>1. pc # "ok" /\ pc # "failed"
  BY DEF ChannelPcs
<1>2. creq' = [creq EXCEPT ![r].pc = pc]
  BY <1>1 DEF Channels!Goto
<1>3. ASSUME NEW c, Asking(c) PROVE [c EXCEPT !.pc = pc] = [c EXCEPT !.pc = pc, !.todo = c.todo]
  BY <1>3 DEF Asking, Channels!Call
<1>4. [creq[r] EXCEPT !.pc = pc] = [creq[r] EXCEPT !.pc = pc, !.todo = creq[r].todo]
  BY <1>3
<1> QED
  BY <1>2, <1>4 DEF ChannelShape

LEMMA UnderWay ==
    ASSUME ChannelShape, NEW r \in Channels!Requests, creq[r].pc \in ChannelPcs
    PROVE  Asking(creq[r]) /\ Phase(r, creq[r]) /\ creq[r].pc \notin {"ok", "failed", "idle"}
BY DEF ChannelShape, Asked, Channels!Idle, ChannelPcs

(* A step that reads only changes what its own request has found.          *)
LEMMA ChannelReads ==
    ASSUME CInv, NEW r \in Channels!Requests, CMoves(r), creq[r].pc \in ChannelPcs,
           UNCHANGED <<kind, member>>,
           Asking(creq'[r]) \/ Asked(creq'[r]), Phase(r, creq'[r]),
           Seeking(creq'[r]) => Channels!People(creq'[r]) = Channels!People(creq[r]),
           creq'[r].op = creq[r].op,
           RowsOf(r)', FoundBy(r)', MadeBy(r)', AnsweredTo(r)'
    PROVE  CInv'
<1>1. ChannelShape /\ Pairwise /\ OneEach(kind, member)
  BY DEF CInv
<1>2. creq[r].pc \notin {"ok", "failed"}
  BY DEF ChannelPcs
<1>3. Seeking(creq'[r]) => \A q \in Channels!Requests \ {r} :
         Seeking(creq[q]) => Channels!People(creq[q]) # Channels!People(creq'[r])
  BY <1>1 DEF Pairwise, Seeking
<1>4. /\ kind' \in [Channels!Channels -> {"none", "direct", "group"}]
      /\ member' \in [Channels!Channels -> [Users -> ChannelRows]]
  BY <1>1 DEF ChannelShape
<1> QED
  BY <1>1, <1>2, <1>3, <1>4, ChannelMoves

LEMMA FindDirectKeeps ==
    ASSUME CInv, NEW r \in Channels!Requests, Channels!FindDirect(r)
    PROVE  CInv'
<1> DEFINE todo == {c \in Channels!Channels : kind[c] = "direct" /\ Channels!Belongs(c, creq[r].by)}
<1>1. ChannelShape /\ RowsOf(r) /\ creq[r].pc = "find" /\ UNCHANGED <<kind, member>>
  BY DEF CInv, Channels!FindDirect, Channels!At
<1>2. Asking(creq[r]) /\ Phase(r, creq[r]) /\ {"find", "count"} \subseteq ChannelPcs
  BY <1>1, UnderWay DEF ChannelPcs
<1>3. creq' = [creq EXCEPT ![r].pc = "count", ![r].todo = todo]
  BY DEF Channels!FindDirect
<1> HIDE DEF todo
<1>4. /\ CMoves(r) /\ Asking(creq'[r]) /\ creq'[r].pc = "count" /\ creq'[r].todo = todo
      /\ creq'[r].op = creq[r].op /\ creq'[r].by = creq[r].by /\ creq'[r].on = creq[r].on
      /\ creq'[r].c = creq[r].c /\ Channels!People(creq'[r]) = Channels!People(creq[r])
  BY <1>1, <1>2, <1>3, GoesOn
<1>5. Phase(r, creq'[r])
  BY <1>1, <1>2, <1>4 DEF Phase
<1>6. RowsOf(r)' /\ MadeBy(r)' /\ AnsweredTo(r)'
  BY <1>1, <1>4 DEF RowsOf, MadeBy, AnsweredTo
<1>7. FoundBy(r)'
  <2>1. creq[r].by \in Channels!People(creq[r])
    BY DEF Channels!People
  <2>2. \A c \in Channels!Channels : SharedBy(c, Channels!People(creq[r]), kind, member) => c \in todo
    BY <2>1 DEF SharedBy, todo, Channels!Belongs
  <2>3. \A c \in todo : c \in Channels!Channels /\ kind[c] = "direct"
    BY DEF todo
  <2> QED
    BY <1>1, <1>4, <2>2, <2>3 DEF FoundBy
<1> QED
  BY <1>1, <1>2, <1>4, <1>5, <1>6, <1>7, ChannelReads

LEMMA RefusedKeeps ==
    ASSUME CInv, NEW r \in Channels!Requests, creq[r].pc \in ChannelPcs, Channels!Goto(r, "failed"),
           UNCHANGED <<kind, member>>
    PROVE  CInv'
<1>1. ChannelShape /\ RowsOf(r)
  BY DEF CInv
<1>2. Asking(creq[r]) /\ Phase(r, creq[r]) /\ creq[r].pc \notin {"ok", "failed", "idle"}
  BY <1>1, UnderWay
<1>3. CMoves(r) /\ Asked(creq'[r]) /\ creq'[r].pc = "failed" /\ creq'[r].op = creq[r].op
  BY <1>1, <1>2, Refused
<1>4. Phase(r, creq'[r]) /\ ~Seeking(creq'[r])
  BY <1>3 DEF Phase, Seeking, ChannelPcs
<1>5. RowsOf(r)' /\ FoundBy(r)' /\ MadeBy(r)' /\ AnsweredTo(r)'
  BY <1>1, <1>2, <1>3 DEF RowsOf, FoundBy, MadeBy, AnsweredTo
<1> QED
  BY <1>3, <1>4, <1>5, ChannelReads

(* A pair is its two users.                                                *)
LEMMA TwoPeople ==
    ASSUME NEW c, NEW d, NEW o, NEW p, c.on = {o}, o # c.by, d.on = {p}, p # d.by,
           Channels!People(c) \subseteq Channels!People(d)
    PROVE  Channels!People(c) = Channels!People(d)
BY DEF Channels!People

LEMMA CountBothKeeps ==
    ASSUME CInv, NEW r \in Channels!Requests, Channels!CountBoth(r)
    PROVE  CInv'
<1>1. /\ ChannelShape /\ RowsOf(r) /\ FoundBy(r) /\ creq[r].pc = "count" /\ UNCHANGED <<kind, member>>
  BY DEF CInv, Channels!CountBoth, Channels!At
<1>2. Asking(creq[r]) /\ Phase(r, creq[r]) /\ {"count", "save"} \subseteq ChannelPcs
  BY <1>1, UnderWay DEF ChannelPcs
<1>3. creq[r].op = "direct"
  BY <1>1, <1>2 DEF Phase
<1>4. ASSUME NEW pc \in {"count", "save"}, NEW todo,
             creq' = [creq EXCEPT ![r].pc = pc, ![r].todo = todo],
             pc = "save" => creq[r].todo = {},
             pc = "count" => /\ todo \subseteq creq[r].todo
                             /\ \A c \in creq[r].todo \ todo :
                                  ~SharedBy(c, Channels!People(creq[r]), kind, member)
      PROVE  CInv'
  <2>1. /\ CMoves(r) /\ Asking(creq'[r]) /\ creq'[r].pc = pc /\ creq'[r].todo = todo
        /\ creq'[r].op = creq[r].op /\ creq'[r].by = creq[r].by /\ creq'[r].on = creq[r].on
        /\ creq'[r].c = creq[r].c /\ Channels!People(creq'[r]) = Channels!People(creq[r])
    BY <1>1, <1>2, <1>4, GoesOn
  <2>2. Phase(r, creq'[r])
    BY <1>1, <1>2, <2>1 DEF Phase
  <2>3. RowsOf(r)' /\ MadeBy(r)' /\ AnsweredTo(r)'
    BY <1>1, <2>1 DEF RowsOf, MadeBy, AnsweredTo
  <2>4. FoundBy(r)'
    BY <1>1, <1>3, <1>4, <2>1 DEF FoundBy
  <2> QED
    BY <1>1, <1>2, <2>1, <2>2, <2>3, <2>4, ChannelReads
<1>5. CASE creq[r].todo = {} /\ Channels!Goto(r, "save")
  <2>1. creq' = [creq EXCEPT ![r].pc = "save", ![r].todo = creq[r].todo]
    BY <1>1, <1>2, <1>5, GotoGoesOn
  <2> QED
    BY <1>4, <1>5, <2>1
<1>6. ASSUME NEW c \in creq[r].todo,
             IF \A u \in Channels!People(creq[r]) : Channels!Belongs(c, u)
               THEN Channels!End(r, c)
               ELSE creq' = [creq EXCEPT ![r].todo = @ \ {c}]
      PROVE  CInv'
  <2>0. c \in Channels!Channels /\ kind[c] = "direct" /\ c \in Channels!Requests
    <3>1. c \in Channels!Channels /\ kind[c] = "direct"
      BY <1>1, <1>3 DEF FoundBy
    <3> QED
      BY <1>1, <3>1, ChannelNumbers DEF ChannelShape
  <2>1. CASE \A u \in Channels!People(creq[r]) : Channels!Belongs(c, u)
    <3>1. /\ CMoves(r) /\ Asked(creq'[r]) /\ creq'[r].pc = "ok" /\ creq'[r].c = c
          /\ creq'[r].op = creq[r].op /\ creq'[r].by = creq[r].by /\ creq'[r].on = creq[r].on
          /\ Channels!People(creq'[r]) = Channels!People(creq[r])
      BY <1>1, <1>2, <1>6, <2>0, <2>1, Answers
    <3>2. Phase(r, creq'[r]) /\ ~Seeking(creq'[r])
      BY <1>1, <1>2, <1>3, <3>1 DEF Phase, Seeking, ChannelPcs
    <3>3. kind[r] = "none" /\ c # r
      BY <1>1, <2>0 DEF RowsOf
    <3>4. RowsOf(r)' /\ FoundBy(r)' /\ MadeBy(r)'
      BY <1>1, <3>1, <3>3 DEF RowsOf, FoundBy, MadeBy
    <3>5. creq[r].by \in Users /\ creq[r].by \in Channels!People(creq[r])
      BY <1>2 DEF Asking, Channels!People
    <3>6. ~Empty(c, member)
      BY <2>1, <3>5 DEF Empty, Channels!Belongs
    <3>7. creq[c].op = "direct" /\ creq[c].pc = "ok" /\ MadeBy(c) /\ Phase(c, creq[c])
      BY <1>1, <2>0, <3>6 DEF CInv, RowsOf, ChannelShape
    <3>8. In(c, member) \subseteq Channels!People(creq[c])
      BY <2>0, <3>7 DEF MadeBy
    <3>9. Channels!People(creq[r]) \subseteq In(c, member)
      BY <1>2, <2>1 DEF In, Channels!Belongs, Channels!People, Asking
    <3>10. Channels!People(creq[c]) = Channels!People(creq[r])
      <4>1. PICK o \in Users : o # creq[r].by /\ creq[r].on = {o}
        BY <1>1, <1>2, <1>3 DEF Phase
      <4>2. PICK p \in Users : p # creq[c].by /\ creq[c].on = {p}
        BY <3>7 DEF Phase
      <4> QED
        BY <3>8, <3>9, <4>1, <4>2, TwoPeople
    <3>11. AnsweredTo(r)'
      <4>1. creq'[c] = creq[c]
        BY <2>0, <3>1, <3>3 DEF CMoves
      <4> QED
        BY <1>1, <2>0, <3>1, <3>7, <3>10, <4>1 DEF AnsweredTo
    <3> QED
      BY <1>1, <1>2, <3>1, <3>2, <3>4, <3>11, ChannelReads
  <2>2. CASE ~(\A u \in Channels!People(creq[r]) : Channels!Belongs(c, u))
    <3>1. creq' = [creq EXCEPT ![r].todo = @ \ {c}]
      BY <1>6, <2>2
    <3>2. creq' = [creq EXCEPT ![r].pc = "count", ![r].todo = creq[r].todo \ {c}]
      <4>1. ASSUME NEW e, Asking(e), e.pc = "count"
            PROVE  [e EXCEPT !.todo = @ \ {c}] = [e EXCEPT !.pc = "count", !.todo = e.todo \ {c}]
        BY <4>1 DEF Asking, Channels!Call
      <4>2. [creq[r] EXCEPT !.todo = @ \ {c}] = [creq[r] EXCEPT !.pc = "count", !.todo = creq[r].todo \ {c}]
        BY <1>1, <1>2, <4>1
      <4> QED
        BY <1>1, <3>1, <4>2 DEF ChannelShape
    <3>3. ~SharedBy(c, Channels!People(creq[r]), kind, member)
      BY <2>2 DEF SharedBy, Channels!Belongs
    <3> QED
      BY <1>4, <3>2, <3>3
  <2> QED
    BY <2>1, <2>2
<1> QED
  BY <1>5, <1>6 DEF Channels!CountBoth
(* Requests that change members: reads, and answers that only say so.      *)
LEMMA GoesOnKeeps ==
    ASSUME CInv, NEW r \in Channels!Requests, NEW todo, NEW pc \in {"insert", "delete"},
           creq[r].pc \in ChannelPcs, creq[r].op # "direct",
           creq' = [creq EXCEPT ![r].pc = pc, ![r].todo = todo], UNCHANGED <<kind, member>>,
           creq[r].op = IF pc = "insert" THEN "add" ELSE "remove",
           pc = "insert" => kind[creq[r].c] = "group"
    PROVE  CInv'
<1>1. ChannelShape /\ RowsOf(r) /\ pc \in ChannelPcs
  BY DEF CInv, ChannelPcs
<1>2. Asking(creq[r]) /\ Phase(r, creq[r])
  BY <1>1, UnderWay
<1>3. /\ CMoves(r) /\ Asking(creq'[r]) /\ creq'[r].pc = pc
      /\ creq'[r].op = creq[r].op /\ creq'[r].c = creq[r].c
  BY <1>1, <1>2, GoesOn
<1>4. Phase(r, creq'[r]) /\ ~Seeking(creq'[r])
  BY <1>3 DEF Phase, Seeking
<1>5. RowsOf(r)' /\ FoundBy(r)' /\ MadeBy(r)' /\ AnsweredTo(r)'
  BY <1>1, <1>2, <1>3 DEF RowsOf, FoundBy, MadeBy, AnsweredTo, Phase
<1> QED
  BY <1>3, <1>4, <1>5, ChannelReads

LEMMA OkKeeps ==
    ASSUME CInv, NEW r \in Channels!Requests, creq[r].pc \in ChannelPcs, creq[r].op = "add",
           Channels!Goto(r, "ok"), UNCHANGED <<kind, member>>
    PROVE  CInv'
<1>1. ChannelShape /\ RowsOf(r) /\ Channels!End(r, creq[r].c)
  BY DEF CInv, Channels!Goto
<1>2. Asking(creq[r]) /\ creq[r].c \in Channels!Channels
  BY <1>1, UnderWay DEF Asking
<1>3. /\ CMoves(r) /\ Asked(creq'[r]) /\ creq'[r].pc = "ok" /\ creq'[r].op = creq[r].op
  BY <1>1, <1>2, Answers
<1>4. Phase(r, creq'[r]) /\ ~Seeking(creq'[r])
  BY <1>3 DEF Phase, Seeking, ChannelPcs
<1>5. RowsOf(r)' /\ FoundBy(r)' /\ MadeBy(r)' /\ AnsweredTo(r)'
  BY <1>1, <1>3 DEF RowsOf, FoundBy, MadeBy, AnsweredTo
<1> QED
  BY <1>3, <1>4, <1>5, ChannelReads

LEMMA AddFindKeeps ==
    ASSUME CInv, NEW r \in Channels!Requests, Channels!AddFind(r)
    PROVE  CInv'
<1>1. creq[r].pc = "kind" /\ "kind" \in ChannelPcs /\ UNCHANGED <<kind, member>> /\ ChannelShape
  BY DEF Channels!AddFind, Channels!At, ChannelPcs, CInv
<1>2. creq[r].op = "add"
  BY <1>1, UnderWay DEF Phase
<1>3. CASE kind[creq[r].c] # "group"
  BY <1>1, <1>3, RefusedKeeps DEF Channels!AddFind
<1>4. CASE kind[creq[r].c] = "group"
  <2>1. creq' = [creq EXCEPT ![r].pc = "insert",
                   ![r].todo = {u \in creq[r].on : ~Channels!Belongs(creq[r].c, u)}]
    BY <1>4 DEF Channels!AddFind
  <2> QED
    BY <1>1, <1>2, <1>4, <2>1, GoesOnKeeps
<1> QED
  BY <1>3, <1>4

LEMMA RemoveFindKeeps ==
    ASSUME CInv, NEW r \in Channels!Requests, Channels!RemoveFind(r)
    PROVE  CInv'
<1> DEFINE rows == {member[creq[r].c][u] : u \in creq[r].on}
<1>1. creq[r].pc = "target" /\ "target" \in ChannelPcs /\ UNCHANGED <<kind, member>> /\ ChannelShape
  BY DEF Channels!RemoveFind, Channels!At, ChannelPcs, CInv
<1>2. creq[r].op = "remove"
  BY <1>1, UnderWay DEF Phase
<1>3. CASE Channels!Goto(r, "failed")
  BY <1>1, <1>3, RefusedKeeps
<1>4. CASE creq' = [creq EXCEPT ![r].pc = "delete", ![r].todo = rows]
  BY <1>1, <1>2, <1>4, GoesOnKeeps
<1> QED
  BY <1>3, <1>4 DEF Channels!RemoveFind

-----------------------------------------------------------------------------
(* The writes.  A channel that is saved has no rows yet.                   *)
LEMMA SaveChannelKeeps ==
    ASSUME CInv, NEW r \in Channels!Requests, Channels!SaveChannel(r)
    PROVE  CInv'
<1>1. /\ ChannelShape /\ RowsOf(r) /\ FoundBy(r) /\ Pairwise /\ OneEach(kind, member)
      /\ creq[r].pc = "save" /\ kind' = [kind EXCEPT ![r] = creq[r].op]
      /\ Channels!Goto(r, "members") /\ UNCHANGED member
  BY DEF CInv, Channels!SaveChannel, Channels!At
<1>2. /\ Asking(creq[r]) /\ Phase(r, creq[r]) /\ {"save", "members"} \subseteq ChannelPcs
      /\ creq[r].op \in {"direct", "group"}
  BY <1>1, UnderWay DEF ChannelPcs, Phase
<1>3. creq' = [creq EXCEPT ![r].pc = "members", ![r].todo = creq[r].todo]
  BY <1>1, <1>2, GotoGoesOn
<1>4. /\ CMoves(r) /\ Asking(creq'[r]) /\ creq'[r].pc = "members"
      /\ creq'[r].op = creq[r].op /\ creq'[r].by = creq[r].by /\ creq'[r].on = creq[r].on
      /\ creq'[r].c = creq[r].c /\ Channels!People(creq'[r]) = Channels!People(creq[r])
  BY <1>1, <1>2, <1>3, GoesOn
<1>5. kind[r] = "none" /\ Empty(r, member) /\ kind'[r] = creq[r].op /\ r \in Channels!Channels
  BY <1>1, ChannelNumbers DEF RowsOf, ChannelShape
<1>6. ASSUME NEW c \in Channels!Channels, NEW P, NEW u \in P, u \in Users, SharedBy(c, P, kind', member')
      PROVE  SharedBy(c, P, kind, member)
  BY <1>1, <1>5, <1>6 DEF SharedBy, Empty, ChannelShape
<1>7. ASSUME NEW q \in Channels!Requests, Seeking(creq[q]), NEW c \in Channels!Channels,
             SharedBy(c, Channels!People(creq[q]), kind', member')
      PROVE  SharedBy(c, Channels!People(creq[q]), kind, member)
  <2>1. creq[q].by \in Users /\ creq[q].by \in Channels!People(creq[q])
    BY <1>1, <1>7, UnderWay DEF Seeking, Asking, Channels!People
  <2> QED
    BY <1>6, <1>7, <2>1
<1>8. OneEach(kind', member')
  <2>1. ASSUME NEW u \in Users, NEW v \in Users, NEW c \in Channels!Channels, SharedBy(c, {u, v}, kind', member')
        PROVE  SharedBy(c, {u, v}, kind, member)
    BY <1>6, <2>1
  <2> QED
    BY <1>1, <2>1 DEF OneEach
<1>9. FoundBy(r)'
  <2>1. SUFFICES ASSUME creq[r].op = "direct",
                        NEW c \in Channels!Channels, SharedBy(c, Channels!People(creq[r]), kind', member')
                 PROVE  FALSE
    BY <1>4 DEF FoundBy
  <2>2. SharedBy(c, Channels!People(creq[r]), kind, member)
    BY <1>1, <1>2, <1>7, <2>1 DEF Seeking
  <2> QED
    BY <1>1, <2>1, <2>2 DEF FoundBy
<1>10. RowsOf(r)' /\ MadeBy(r)' /\ AnsweredTo(r)'
  BY <1>1, <1>2, <1>4, <1>5 DEF RowsOf, MadeBy, AnsweredTo
<1>11. Phase(r, creq'[r])
  BY <1>1, <1>2, <1>4 DEF Phase
<1>12. Seeking(creq'[r]) => \A q \in Channels!Requests \ {r} :
         Seeking(creq[q]) => Channels!People(creq[q]) # Channels!People(creq'[r])
  BY <1>1, <1>2, <1>4 DEF Pairwise, Seeking
<1>13. /\ kind' \in [Channels!Channels -> {"none", "direct", "group"}]
       /\ member' \in [Channels!Channels -> [Users -> ChannelRows]]
       /\ \A c \in Channels!Channels : c # r => kind'[c] = kind[c]
  BY <1>1, <1>2 DEF ChannelShape
<1>14. creq[r].pc \notin {"ok", "failed"}
  BY <1>1
<1> QED
  BY <1>1, <1>4, <1>5, <1>7, <1>8, <1>9, <1>10, <1>11, <1>12, <1>13, <1>14, ChannelMoves

(* The rows of a direct channel: no other request seeks one for the two,   *)
(* and there is no other.                                                  *)
LEMMA SaveMembersKeeps ==
    ASSUME CInv, NEW r \in Channels!Requests, Channels!SaveMembers(r)
    PROVE  CInv'
<1> DEFINE P == Channels!People(creq[r])
           rows == IF creq[r].op = "group" THEN Channels!GroupRows(r) ELSE Channels!DirectRows(r)
<1>1. /\ ChannelShape /\ RowsOf(r) /\ FoundBy(r) /\ Pairwise /\ OneEach(kind, member)
      /\ creq[r].pc = "members" /\ kind' = kind
  BY DEF CInv, Channels!SaveMembers, Channels!At
<1>2. /\ Asking(creq[r]) /\ Phase(r, creq[r]) /\ "members" \in ChannelPcs
      /\ creq[r].op \in {"direct", "group"} /\ creq[r].c = r
      /\ creq[r].by \in Users /\ creq[r].on \subseteq Users /\ P \subseteq Users
  BY <1>1, UnderWay DEF ChannelPcs, Phase, Asking, Channels!People
<1>3. CASE creq[r].by \in creq[r].on
  <2>1. Channels!Goto(r, "failed") /\ UNCHANGED <<kind, member>>
    BY <1>1, <1>3 DEF Channels!SaveMembers
  <2> QED
    BY <1>1, <1>2, <2>1, RefusedKeeps
<1>4. CASE creq[r].by \notin creq[r].on
  <2>1. member' = [member EXCEPT ![r] = rows] /\ Channels!End(r, creq[r].c)
    BY <1>4 DEF Channels!SaveMembers, Channels!Goto
  <2>2. r \in Channels!Channels /\ kind[r] = creq[r].op
    BY <1>1, ChannelNumbers DEF RowsOf
  <2>3. /\ CMoves(r) /\ Asked(creq'[r]) /\ creq'[r].pc = "ok" /\ creq'[r].c = r
        /\ creq'[r].op = creq[r].op /\ creq'[r].by = creq[r].by /\ creq'[r].on = creq[r].on
        /\ Channels!People(creq'[r]) = P
    BY <1>1, <1>2, <2>1, <2>2, Answers
  <2>4. rows \in [Users -> ChannelRows]
    <3>1. /\ Channels!Member("member", r) \in ChannelRows /\ Channels!Member("admin", r) \in ChannelRows
          /\ Channels!NoMember \in ChannelRows
      BY <2>2 DEF ChannelRows, Channels!Member
    <3>2. Channels!DirectRows(r) \in [Users -> ChannelRows]
      BY <3>1 DEF Channels!DirectRows
    <3> QED
      BY <3>1, <3>2 DEF Channels!GroupRows
  <2>5. creq[r].op = "direct" => \A u \in Users : rows[u] # Channels!NoMember <=> u \in P
    <3>1. Channels!Member("member", r) # Channels!NoMember
      BY DEF Channels!Member, Channels!NoMember
    <3> QED
      BY <3>1 DEF Channels!DirectRows
  <2> HIDE DEF rows
  <2>6. /\ member' \in [Channels!Channels -> [Users -> ChannelRows]]
        /\ member'[r] = rows /\ \A c \in Channels!Channels : c # r => member'[c] = member[c]
    BY <1>1, <2>1, <2>2, <2>4 DEF ChannelShape
  <2>7. kind[r] = "direct" => In(r, member') = P
    BY <1>2, <2>2, <2>5, <2>6 DEF In
  <2>8. \A c \in Channels!Channels : \A Q : c # r =>
           (SharedBy(c, Q, kind', member') <=> SharedBy(c, Q, kind, member))
    BY <1>1, <2>6 DEF SharedBy
  <2>9. ASSUME NEW Q \in SUBSET Users, SharedBy(r, Q, kind', member') PROVE Q \subseteq P /\ kind[r] = "direct"
    BY <1>1, <2>7, <2>9 DEF SharedBy, In
  <2>10. creq[r].op = "direct" => \E o \in Users : o # creq[r].by /\ creq[r].on = {o}
    BY <1>1, <1>2 DEF Phase
  <2>11. ASSUME NEW q \in Channels!Requests \ {r}, Seeking(creq[q]), NEW c \in Channels!Channels,
                SharedBy(c, Channels!People(creq[q]), kind', member')
         PROVE  SharedBy(c, Channels!People(creq[q]), kind, member)
    <3>1. CASE c # r
      BY <2>8, <2>11, <3>1
    <3>2. CASE c = r
      <4>1. Asking(creq[q]) /\ Phase(q, creq[q]) /\ creq[q].op = "direct" /\ creq[q].pc \in ChannelPcs
        BY <1>1, <2>11, UnderWay DEF Seeking
      <4>2. Channels!People(creq[q]) \subseteq Users
        BY <4>1 DEF Asking, Channels!People
      <4>3. Channels!People(creq[q]) \subseteq P /\ creq[r].op = "direct"
        BY <2>2, <2>9, <2>11, <3>2, <4>2
      <4>4. \E o \in Users : o # creq[q].by /\ creq[q].on = {o}
        BY <4>1 DEF Phase
      <4>5. Channels!People(creq[q]) = P
        BY <2>10, <4>3, <4>4, TwoPeople
      <4> QED
        BY <1>1, <1>2, <2>11, <4>3, <4>5 DEF Pairwise, Seeking
    <3> QED
      BY <3>1, <3>2
  <2>12. OneEach(kind', member')
    <3>1. ASSUME NEW u \in Users, NEW v \in Users, u # v, NEW c \in Channels!Channels, c # r,
                 SharedBy(c, {u, v}, kind', member'), SharedBy(r, {u, v}, kind', member')
          PROVE  FALSE
      <4>1. {u, v} \subseteq P /\ creq[r].op = "direct"
        BY <2>2, <2>9, <3>1
      <4>2. PICK o \in Users : o # creq[r].by /\ creq[r].on = {o}
        BY <2>10, <4>1
      <4>3. P = {u, v}
        BY <3>1, <4>1, <4>2 DEF Channels!People
      <4>4. SharedBy(c, P, kind, member)
        BY <2>8, <3>1, <4>3
      <4> QED
        BY <1>1, <4>1, <4>4 DEF FoundBy
    <3>2. ASSUME NEW u \in Users, NEW v \in Users, u # v,
                 NEW c \in Channels!Channels, SharedBy(c, {u, v}, kind', member'),
                 NEW d \in Channels!Channels, SharedBy(d, {u, v}, kind', member')
          PROVE  c = d
      <4>1. CASE c # r /\ d # r
        BY <1>1, <2>8, <3>2, <4>1 DEF OneEach
      <4>2. CASE c = r \/ d = r
        BY <3>1, <3>2, <4>2
      <4> QED
        BY <4>1, <4>2
    <3> QED
      BY <3>2 DEF OneEach
  <2>13. RowsOf(r)' /\ FoundBy(r)'
    BY <1>1, <1>2, <2>2, <2>3 DEF RowsOf, FoundBy
  <2>14. MadeBy(r)' /\ AnsweredTo(r)'
    <3>1. kind'[r] = "direct" => In(r, member') = Channels!People(creq'[r])
      BY <1>1, <2>3, <2>7
    <3>2. MadeBy(r)'
      BY <2>3, <3>1 DEF MadeBy
    <3>3. AnsweredTo(r)'
      BY <1>1, <2>2, <2>3 DEF AnsweredTo
    <3> QED
      BY <3>2, <3>3
  <2>15. Phase(r, creq'[r]) /\ ~Seeking(creq'[r])
    BY <1>1, <1>2, <2>3 DEF Phase, Seeking, ChannelPcs
  <2>16. \A q \in Channels!Requests \ {r} : In(q, member') = In(q, member)
            /\ (Empty(q, member) => Empty(q, member'))
    BY <2>6, ChannelNumbers DEF In, Empty
  <2>17. kind' \in [Channels!Channels -> {"none", "direct", "group"}] /\ creq[r].pc \notin {"ok", "failed"}
    BY <1>1 DEF ChannelShape
  <2> QED
    BY <1>1, <2>3, <2>6, <2>11, <2>12, <2>13, <2>14, <2>15, <2>16, <2>17, ChannelMoves
<1> QED
  BY <1>3, <1>4
(* A row more in a group channel: direct channels are as they were.        *)
LEMMA AddInsertKeeps ==
    ASSUME CInv, NEW r \in Channels!Requests, Channels!AddInsert(r)
    PROVE  CInv'
<1>1. ChannelShape /\ RowsOf(r) /\ OneEach(kind, member) /\ creq[r].pc = "insert" /\ UNCHANGED kind
  BY DEF CInv, Channels!AddInsert, Channels!At
<1>2. /\ Asking(creq[r]) /\ Phase(r, creq[r]) /\ "insert" \in ChannelPcs /\ creq[r].op = "add"
      /\ creq[r].c \in Channels!Channels /\ kind[creq[r].c] = "group"
  BY <1>1, UnderWay DEF ChannelPcs, Phase, Asking, RowsOf
<1>3. CASE Channels!Goto(r, "ok") /\ UNCHANGED member
  BY <1>1, <1>2, <1>3, OkKeeps
<1>4. CASE Channels!Goto(r, "failed") /\ UNCHANGED member
  BY <1>1, <1>2, <1>4, RefusedKeeps
<1>5. ASSUME NEW u \in creq[r].todo,
             member' = [member EXCEPT ![creq[r].c][u] = Channels!Member("member", r)],
             creq' = [creq EXCEPT ![r].todo = @ \ {u}]
      PROVE  CInv'
  <2>1. creq' = [creq EXCEPT ![r].pc = "insert", ![r].todo = creq[r].todo \ {u}]
    <3>1. ASSUME NEW e, Asking(e), e.pc = "insert"
          PROVE  [e EXCEPT !.todo = @ \ {u}] = [e EXCEPT !.pc = "insert", !.todo = e.todo \ {u}]
      BY <3>1 DEF Asking, Channels!Call
    <3>2. [creq[r] EXCEPT !.todo = @ \ {u}] = [creq[r] EXCEPT !.pc = "insert", !.todo = creq[r].todo \ {u}]
      BY <1>1, <1>2, <3>1
    <3> QED
      BY <1>1, <1>5, <3>2 DEF ChannelShape
  <2>2. /\ CMoves(r) /\ Asking(creq'[r]) /\ creq'[r].pc = "insert" /\ creq'[r].op = "add"
        /\ creq'[r].c = creq[r].c
    BY <1>1, <1>2, <2>1, GoesOn
  <2>3. Channels!Member("member", r) \in ChannelRows
    BY ChannelNumbers DEF ChannelRows, Channels!Member
  <2>4. /\ member' \in [Channels!Channels -> [Users -> ChannelRows]]
        /\ \A c \in Channels!Channels : c # creq[r].c => member'[c] = member[c]
    BY <1>1, <1>2, <1>5, <2>3 DEF ChannelShape
  <2>5. \A c \in Channels!Channels : kind[c] # "group" => member'[c] = member[c]
    BY <1>2, <2>4
  <2>6. \A c \in Channels!Channels : \A P : SharedBy(c, P, kind', member') => SharedBy(c, P, kind, member)
    BY <1>1, <2>5 DEF SharedBy
  <2>7. OneEach(kind', member')
    BY <1>1, <2>6 DEF OneEach
  <2>8. \A q \in Channels!Requests : kind[q] \in {"none", "direct"} =>
           In(q, member') = In(q, member) /\ (Empty(q, member) => Empty(q, member'))
    BY <2>5, ChannelNumbers DEF In, Empty
  <2>9. RowsOf(r)' /\ FoundBy(r)' /\ MadeBy(r)' /\ AnsweredTo(r)'
    BY <1>1, <1>2, <2>2, <2>8, ChannelNumbers DEF RowsOf, FoundBy, MadeBy, AnsweredTo
  <2>10. Phase(r, creq'[r]) /\ ~Seeking(creq'[r]) /\ creq[r].pc \notin {"ok", "failed"}
    BY <1>1, <2>2 DEF Phase, Seeking
  <2>11. kind' \in [Channels!Channels -> {"none", "direct", "group"}]
    BY <1>1 DEF ChannelShape
  <2> QED
    BY <1>1, <2>2, <2>4, <2>6, <2>7, <2>8, <2>9, <2>10, <2>11, ChannelMoves
<1> QED
  BY <1>3, <1>4, <1>5 DEF Channels!AddInsert

(* Rows fewer: a direct channel that loses one has been left.              *)
LEMMA RemoveRowKeeps ==
    ASSUME CInv, NEW r \in Channels!Requests, Channels!RemoveRow(r)
    PROVE  CInv'
<1>1. ChannelShape /\ RowsOf(r) /\ OneEach(kind, member) /\ creq[r].pc = "delete" /\ UNCHANGED kind
  BY DEF CInv, Channels!RemoveRow, Channels!At
<1>2. /\ Asking(creq[r]) /\ Phase(r, creq[r]) /\ "delete" \in ChannelPcs /\ creq[r].op = "remove"
      /\ creq[r].c \in Channels!Channels
  BY <1>1, UnderWay DEF ChannelPcs, Phase, Asking
<1>3. Channels!End(r, creq[r].c)
  BY DEF Channels!RemoveRow, Channels!Goto
<1>4. /\ CMoves(r) /\ Asked(creq'[r]) /\ creq'[r].pc = "ok" /\ creq'[r].c = creq[r].c
      /\ creq'[r].op = "remove"
  BY <1>1, <1>2, <1>3, Answers
<1>5. \A c : c = creq[r].c => LeftBy(c)'
  BY <1>4 DEF LeftBy
<1>6. /\ member' \in [Channels!Channels -> [Users -> ChannelRows]]
      /\ \A c \in Channels!Channels : c # creq[r].c => member'[c] = member[c]
      /\ \A c \in Channels!Channels : \A u \in Users : member'[c][u] \in {member[c][u], Channels!NoMember}
  <2> DEFINE rows == [u \in Users |-> IF u \in creq[r].on /\ member[creq[r].c][u] \in creq[r].todo
                                        THEN Channels!NoMember ELSE member[creq[r].c][u]]
  <2>1. member' = [member EXCEPT ![creq[r].c] = rows]
    BY DEF Channels!RemoveRow
  <2>2. rows \in [Users -> ChannelRows] /\ \A u \in Users : rows[u] \in {member[creq[r].c][u], Channels!NoMember}
    <3>1. Channels!NoMember \in ChannelRows /\ member[creq[r].c] \in [Users -> ChannelRows]
      BY <1>1, <1>2 DEF ChannelShape, ChannelRows
    <3> QED
      BY <3>1
  <2> HIDE DEF rows
  <2>3. /\ \A c \in Channels!Channels : c # creq[r].c => member'[c] = member[c]
        /\ member'[creq[r].c] = rows /\ member' \in [Channels!Channels -> [Users -> ChannelRows]]
    BY <1>1, <1>2, <2>1, <2>2 DEF ChannelShape
  <2> QED
    BY <2>2, <2>3
<1>7. \A c \in Channels!Channels : \A P \in SUBSET Users :
        SharedBy(c, P, kind', member') => SharedBy(c, P, kind, member)
  BY <1>1, <1>6 DEF SharedBy
<1>8. OneEach(kind', member')
  <2>1. ASSUME NEW u \in Users, NEW v \in Users, NEW c \in Channels!Channels, SharedBy(c, {u, v}, kind', member')
        PROVE  SharedBy(c, {u, v}, kind, member)
    BY <1>7, <2>1
  <2> QED
    BY <1>1, <2>1 DEF OneEach
<1>9. ASSUME NEW q \in Channels!Requests, Seeking(creq[q]), NEW c \in Channels!Channels,
             SharedBy(c, Channels!People(creq[q]), kind', member')
      PROVE  SharedBy(c, Channels!People(creq[q]), kind, member)
  <2>1. Channels!People(creq[q]) \subseteq Users
    BY <1>1, <1>9, UnderWay DEF Seeking, Asking, Channels!People
  <2> QED
    BY <1>7, <1>9, <2>1
<1>10. \A q \in Channels!Requests : Empty(q, member) => Empty(q, member')
  BY <1>6, ChannelNumbers DEF Empty
<1>11. \A q \in Channels!Requests :
         In(q, member') = In(q, member) \/ (In(q, member') \subseteq In(q, member) /\ LeftBy(q)')
  <2>1. \A q \in Channels!Requests : In(q, member') \subseteq In(q, member)
    BY <1>6, ChannelNumbers DEF In
  <2>2. \A q \in Channels!Requests : q # creq[r].c => In(q, member') = In(q, member)
    BY <1>6, ChannelNumbers DEF In
  <2> QED
    BY <1>5, <2>1, <2>2
<1>12. RowsOf(r)' /\ FoundBy(r)' /\ MadeBy(r)' /\ AnsweredTo(r)'
  BY <1>1, <1>2, <1>4, <1>10 DEF RowsOf, FoundBy, MadeBy, AnsweredTo
<1>13. Phase(r, creq'[r]) /\ ~Seeking(creq'[r]) /\ creq[r].pc \notin {"ok", "failed"}
  BY <1>1, <1>4 DEF Phase, Seeking, ChannelPcs
<1>14. kind' \in [Channels!Channels -> {"none", "direct", "group"}]
  BY <1>1 DEF ChannelShape
<1> QED
  BY <1>1, <1>4, <1>6, <1>8, <1>9, <1>10, <1>11, <1>12, <1>13, <1>14, ChannelMoves
(* A request begins.  Apart, it seeks no channel for two that another      *)
(* request seeks one for.                                                  *)
LEMMA ChannelBegins ==
    ASSUME CInv, Apart, NEW r \in Channels!Requests, NEW c, Channels!Begin(r, c),
           Asking(c), Phase(r, c), c.pc \in {"find", "save", "kind", "target"},
           c.pc = "save" => c.op = "group"
    PROVE  CInv'
<1>1. /\ ChannelShape /\ RowsOf(r) /\ OneEach(kind, member) /\ creq[r].pc = "idle"
      /\ UNCHANGED <<kind, member>> /\ creq' = [creq EXCEPT ![r] = c]
  BY DEF CInv, Channels!Begin, Channels!At
<1>2. CMoves(r) /\ creq'[r] = c
  BY <1>1 DEF CMoves, ChannelShape
<1>3. kind[r] = "none" /\ Empty(r, member)
  BY <1>1 DEF RowsOf
<1>4. RowsOf(r)'
  <2>1. c.pc \in {"find", "save"} => kind'[r] = "none"
    BY <1>1, <1>3
  <2> QED
    BY <1>1, <1>2, <1>3 DEF RowsOf
<1>5. FoundBy(r)' /\ MadeBy(r)' /\ AnsweredTo(r)'
  BY <1>1, <1>2, <1>3 DEF FoundBy, MadeBy, AnsweredTo
<1>6. ASSUME NEW q \in Channels!Requests, Seeking(creq[q]), Seeking(creq'[r])
      PROVE  Channels!People(creq[q]) # Channels!People(creq'[r])
  <2>1. creq[q].pc \notin {"ok", "failed", "idle"}
    BY <1>1, <1>6, UnderWay DEF Seeking
  <2>2. Channels!People(creq[q]) \cap c.on = {}
    BY <2>1 DEF Channels!Begin, Channels!Active, Channels!Ended
  <2>3. \E o \in Users : c.on = {o}
    BY <1>2, <1>6 DEF Phase, Seeking
  <2> QED
    BY <1>2, <2>2, <2>3 DEF Channels!People
<1>7. /\ kind' \in [Channels!Channels -> {"none", "direct", "group"}]
      /\ member' \in [Channels!Channels -> [Users -> ChannelRows]]
      /\ creq[r].pc \notin {"ok", "failed"}
  BY <1>1 DEF ChannelShape
<1> QED
  BY <1>1, <1>2, <1>4, <1>5, <1>6, <1>7, ChannelMoves

LEMMA CallAsks ==
    ASSUME NEW op \in ChannelOps, NEW pc \in ChannelPcs, NEW by \in Users, NEW on \in SUBSET Users,
           NEW c \in Channels!Channels, NEW todo
    PROVE  LET d == Channels!Call(op, pc, by, on, c, todo) IN
           /\ Asking(d) /\ d.op = op /\ d.pc = pc /\ d.by = by /\ d.on = on /\ d.c = c
BY DEF Asking, Channels!Call

LEMMA ChannelStartKeeps ==
    ASSUME CInv, Apart, NEW r \in Channels!Requests, Channels!Start(r)
    PROVE  CInv'
<1>1. /\ "direct" \in ChannelOps /\ "group" \in ChannelOps /\ "add" \in ChannelOps /\ "remove" \in ChannelOps
      /\ "find" \in ChannelPcs /\ "save" \in ChannelPcs /\ "kind" \in ChannelPcs /\ "target" \in ChannelPcs
      /\ Lists \subseteq SUBSET Users /\ r \in Channels!Channels
  BY ChatAssumption, ChannelNumbers DEF ChannelOps, ChannelPcs, Channels!ChannelAssumption
<1>2. ASSUME NEW by \in Users, NEW other \in Users, Channels!BeginDirect(r, by, other) PROVE CInv'
  <2> DEFINE c == Channels!Call("direct", "find", by, {other}, r, {})
  <2>1. by # other /\ Channels!Begin(r, c)
    BY <1>2 DEF Channels!BeginDirect
  <2>2. Asking(c) /\ c.op = "direct" /\ c.pc = "find" /\ c.by = by /\ c.on = {other} /\ c.c = r
    BY <1>1, CallAsks
  <2> HIDE DEF c
  <2>3. Phase(r, c)
    BY <2>1, <2>2 DEF Phase
  <2> QED
    BY <2>1, <2>2, <2>3, ChannelBegins
<1>3. ASSUME NEW by \in Users, NEW others \in Lists, Channels!BeginGroup(r, by, others) PROVE CInv'
  <2> DEFINE c == Channels!Call("group", "save", by, others, r, {})
  <2>1. Channels!Begin(r, c)
    BY <1>3 DEF Channels!BeginGroup
  <2>2. Asking(c) /\ c.op = "group" /\ c.pc = "save" /\ c.c = r
    BY <1>1, CallAsks
  <2> HIDE DEF c
  <2>3. Phase(r, c)
    BY <2>1, <2>2 DEF Phase
  <2> QED
    BY <2>1, <2>2, <2>3, ChannelBegins
<1>4. ASSUME NEW by \in Users, NEW ch \in Channels!Channels, NEW others \in Lists,
             Channels!BeginAdd(r, by, ch, others)
      PROVE  CInv'
  <2> DEFINE c == Channels!Call("add", "kind", by, others, ch, {})
  <2>1. Channels!Begin(r, c)
    BY <1>4 DEF Channels!BeginAdd
  <2>2. Asking(c) /\ c.op = "add" /\ c.pc = "kind"
    BY <1>1, CallAsks
  <2> HIDE DEF c
  <2>3. Phase(r, c)
    BY <2>1, <2>2 DEF Phase
  <2> QED
    BY <2>1, <2>2, <2>3, ChannelBegins
<1>5. ASSUME NEW by \in Users, NEW ch \in Channels!Channels, NEW u \in Users,
             Channels!BeginRemove(r, by, ch, u)
      PROVE  CInv'
  <2> DEFINE c == Channels!Call("remove", "target", by, {u}, ch, {})
  <2>1. Channels!Begin(r, c)
    BY <1>5 DEF Channels!BeginRemove
  <2>2. Asking(c) /\ c.op = "remove" /\ c.pc = "target"
    BY <1>1, CallAsks
  <2> HIDE DEF c
  <2>3. Phase(r, c)
    BY <2>1, <2>2 DEF Phase
  <2> QED
    BY <2>1, <2>2, <2>3, ChannelBegins
<1> QED
  BY <1>2, <1>3, <1>4, <1>5 DEF Channels!Start

LEMMA ChannelInitially == ASSUME Channels!Init PROVE CInv
<1>1. ChannelShape
  <2>1. Founder \in Users /\ Channels!Member("admin", 0) \in ChannelRows
        /\ Channels!Member("member", 0) \in ChannelRows /\ Channels!NoMember \in ChannelRows
    BY ChatAssumption, ChannelNumbers DEF Channels!ChannelAssumption, ChannelRows, Channels!Member
  <2>2. kind \in [Channels!Channels -> {"none", "direct", "group"}] /\ kind[0] = "group"
    BY ChannelNumbers DEF Channels!Init
  <2>3. member \in [Channels!Channels -> [Users -> ChannelRows]]
    BY <2>1 DEF Channels!Init
  <2>4. DOMAIN creq = Channels!Requests /\ \A r \in Channels!Requests : Asked(creq[r]) /\ Phase(r, creq[r])
    BY DEF Channels!Init, Asked, Phase, Channels!Idle, ChannelPcs
  <2> QED
    BY <2>2, <2>3, <2>4 DEF ChannelShape
<1>2. \A c \in Channels!Channels : kind[c] # "direct"
  BY DEF Channels!Init
<1>3. ASSUME NEW r \in Channels!Requests PROVE creq[r] = Channels!Idle /\ kind[r] = "none" /\ Empty(r, member)
  BY ChannelNumbers DEF Channels!Init, Empty
<1>4. ASSUME NEW r \in Channels!Requests PROVE RowsOf(r) /\ FoundBy(r) /\ MadeBy(r) /\ AnsweredTo(r)
  BY <1>3 DEF RowsOf, FoundBy, MadeBy, AnsweredTo, Channels!Idle
<1>5. Pairwise /\ OneEach(kind, member)
  BY <1>2, <1>3 DEF Pairwise, OneEach, SharedBy, Seeking, Channels!Idle
<1> QED
  BY <1>1, <1>4, <1>5 DEF CInv

LEMMA ChannelStay == ASSUME CInv, UNCHANGED channelvars PROVE CInv'
BY DEF channelvars, CInv, ChannelShape, Pairwise, RowsOf, FoundBy, MadeBy, AnsweredTo, LeftBy

LEMMA ChatKeepsChannels == ASSUME CInv, Apart, [ChatNext]_chatvars PROVE CInv'
<1>1. CASE ChannelStep
  <2>1. PICK r \in Channels!Requests :
           Channels!Start(r) \/ Channels!Continue(r) \/ Channels!Fail(r)
    BY <1>1 DEF ChannelStep
  <2>2. CASE Channels!Fail(r)
    <3>1. creq[r].pc \in ChannelPcs /\ Channels!Goto(r, "failed") /\ UNCHANGED <<kind, member>>
      BY <2>2 DEF Channels!Fail, Channels!At, ChannelPcs
    <3> QED
      BY <3>1, RefusedKeeps
  <2>3. CASE Channels!Continue(r)
    BY <2>3, FindDirectKeeps, CountBothKeeps, SaveChannelKeeps, SaveMembersKeeps, AddFindKeeps,
       AddInsertKeeps, RemoveFindKeeps, RemoveRowKeeps DEF Channels!Continue
  <2> QED
    BY <2>1, <2>2, <2>3, ChannelStartKeeps
<1>2. CASE MessageStep \/ UNCHANGED chatvars
  BY <1>2, ChannelStay DEF MessageStep, chatvars
<1> QED
  BY <1>1, <1>2 DEF ChatNext

(* Two users share at most one direct channel, whatever requests on        *)
(* channels interleave, if those that name one pair of users do not: no    *)
(* second one is made between findDirectChannel and createChannel.         *)
THEOREM OneDirectChannel == ASSUME Apart PROVE ChatSpec => []OneDirectEach
<1>0. ASSUME NEW S PROVE Channels!Cardinality(S) = Cardinality(S)
  BY DEF Channels!Cardinality, Cardinality
<1>1. ASSUME CInv PROVE OneDirectEach
  <2>1. SUFFICES ASSUME NEW u \in Users, NEW v \in Users, u # v
                 PROVE  Cardinality(Channels!Shared(u, v)) <= 1
    BY <1>0 DEF OneDirectEach, Channels!OneDirectEach
  <2>2. \A c, d \in Channels!Shared(u, v) : c = d
    BY <1>1, <2>1 DEF CInv, OneEach, SharedBy, Channels!Shared, Channels!Belongs
  <2>3. CASE Channels!Shared(u, v) = {}
    BY <2>3, FS_EmptySet
  <2>4. CASE Channels!Shared(u, v) # {}
    <3>1. PICK c : c \in Channels!Shared(u, v)
      BY <2>4
    <3>2. Channels!Shared(u, v) = {c}
      BY <2>2, <3>1
    <3> QED
      BY <3>2, FS_Singleton
  <2> QED
    BY <2>3, <2>4
<1>2. ChatInit => CInv
  BY ChannelInitially DEF ChatInit
<1> QED
  BY <1>1, <1>2, ChatKeepsChannels, PTL DEF ChatSpec

(* Whoever was answered with a direct channel has one of exactly the two   *)
(* users he named, until one of the two leaves it.                         *)
THEOREM DirectAnswersAreOfBoth == ASSUME Apart PROVE ChatSpec => []DirectIsOfBoth
<1>1. ASSUME CInv PROVE DirectIsOfBoth
  <2>1. SUFFICES ASSUME NEW r \in Channels!Started, creq[r].op = "direct", creq[r].pc = "ok",
                        ~Channels!Left(creq[r].c)
                 PROVE  {u \in Users : Channels!Belongs(creq[r].c, u)} = Channels!People(creq[r])
    BY DEF DirectIsOfBoth, Channels!DirectIsOfBoth, Channels!At
  <2>2. r \in Channels!Requests
    BY DEF Channels!Started
  <2> DEFINE c == creq[r].c
  <2>3. /\ c \in Channels!Requests /\ kind[c] = "direct" /\ creq[c].pc = "ok"
        /\ Channels!People(creq[c]) = Channels!People(creq[r])
    BY <1>1, <2>1, <2>2 DEF CInv, AnsweredTo
  <2>4. LeftBy(c) \/ In(c, member) = Channels!People(creq[c])
    BY <1>1, <2>3 DEF CInv, MadeBy
  <2>5. ~LeftBy(c)
    BY <2>1 DEF LeftBy, Channels!Left, Channels!Started, Channels!At
  <2> QED
    BY <2>3, <2>4, <2>5 DEF In, Channels!Belongs
<1>2. ChatInit => CInv
  BY ChannelInitially DEF ChatInit
<1> QED
  BY <1>1, <1>2, ChatKeepsChannels, PTL DEF ChatSpec
-----------------------------------------------------------------------------
(* Messages.  A request under way, one that has not begun or has ended, a  *)
(* row of the table (one that is there has an author), what sockets hold.  *)
MessageOps == {"send", "edit", "delete", "pin", "read", "react"}
MessagePcs == {"insert", "reread", "find", "role", "save", "own", "move", "toggle", "emit"}
Whoever == Users \cup {Nobody}
Copies == [by : Whoever, text : Nat, deletedBy : Whoever, pinnedBy : Whoever]
MessageRows == {Messages!NoMessage} \cup [by : Users, text : Nat, deletedBy : Whoever, pinnedBy : Whoever]
Writing == [op : MessageOps, pc : MessagePcs, by : Users, m : Messages!Messages, undo : BOOLEAN,
            copy : Copies, row : Nat]
Written == [op : MessageOps \cup {"none"}, pc : {"idle", "ok", "failed"}]
Cursors == Messages!Messages \cup {Messages!NoCursor}
Shown == [message : [Messages!Messages -> Copies], reacted : SUBSET (Messages!Messages \X Users),
          cursor : [Users -> Cursors]]

MessageShape ==
    /\ message \in [Messages!Messages -> MessageRows]
    /\ reaction \in [Messages!Messages -> [Users -> Nat]]
    /\ cursor \in [Users -> Cursors]
    /\ shown \in Shown
    /\ DOMAIN mreq = Messages!Requests
    /\ \A r \in Messages!Requests : mreq[r] \in Writing \cup Written

(* What a request has found stays true until it has told the sockets.      *)
MessagePhase(r, c) ==
    /\ c.op = "send" /\ c.pc \in MessagePcs => c.m = r /\ c.pc \in {"insert", "reread", "emit"}
    /\ c.pc \in {"insert", "reread"} => c.op = "send"
    /\ c.pc = "role" => c.op = "delete"
    /\ c.pc = "save" => c.op \in {"edit", "delete", "pin"}
    /\ c.pc = "own" => c.op \in {"read", "react"}
    /\ c.pc = "move" => c.op = "read"
    /\ c.pc = "toggle" => c.op = "react"

FoundOn(r) ==
    LET c == mreq[r] IN
    /\ MessagePhase(r, c)
    /\ c.pc \in {"idle", "insert"} => message[r] = Messages!NoMessage
    /\ c.pc \in MessagePcs \ {"insert"} => Messages!Sent(c.m)
    /\ c.pc \in {"role", "save"} => c.copy = message[c.m]
    /\ c.pc = "save" /\ c.op = "edit" => ~Messages!Deleted(c.m) /\ c.copy.by = c.by
    /\ c.pc = "toggle" => c.row = reaction[c.m][c.by] /\ (c.undo <=> c.row # 0)
    /\ c.pc = "emit" /\ c.op = "react" => (c.undo <=> reaction[c.m][c.by] = 0)
    /\ c.pc = "emit" /\ c.op = "read" => cursor[c.by] = c.m

AloneOn == \A q, r \in Messages!Requests :
    q # r /\ Messages!Active(q) /\ Messages!Active(r) => ~Messages!Conflict(mreq[q], mreq[r])

(* What sockets hold is what is stored, unless a request is about to tell  *)
(* the difference: After is the row once it has.                           *)
OnRows == {"send", "edit", "delete", "pin"}
After(row0, c) ==
    CASE c.op = "send"   -> c.copy
      [] c.op = "edit"   -> [row0 EXCEPT !.text = c.copy.text]
      [] c.op = "delete" -> [row0 EXCEPT !.deletedBy = c.copy.deletedBy]
      [] c.op = "pin"    -> [row0 EXCEPT !.pinnedBy = c.copy.pinnedBy]

FailedSend(m) == m \in Messages!Requests /\ mreq[m].op = "send" /\ mreq[m].pc = "failed"
ToldRow(m) ==
    \/ FailedSend(m)
    \/ shown.message[m] = message[m]
    \/ \E r \in Messages!Requests : mreq[r].op \in OnRows /\ mreq[r].pc \in {"reread", "emit"} /\ mreq[r].m = m
ToldSoon(r) ==
    LET c == mreq[r] IN
    c.op \in OnRows /\ c.pc = "emit" /\ ~FailedSend(c.m) => After(shown.message[c.m], c) = message[c.m]
ToldCursor(u) ==
    \/ shown.cursor[u] = cursor[u]
    \/ \E r \in Messages!Requests : mreq[r].op = "read" /\ mreq[r].pc = "emit" /\ mreq[r].by = u
ToldReaction(m, u) ==
    \/ <<m, u>> \in shown.reacted <=> reaction[m][u] # 0
    \/ \E r \in Messages!Requests :
          mreq[r].op = "react" /\ mreq[r].pc = "emit" /\ mreq[r].by = u /\ mreq[r].m = m

MInv ==
    /\ MessageShape /\ AloneOn
    /\ \A r \in Messages!Requests : FoundOn(r) /\ ToldSoon(r)
    /\ \A m \in Messages!Messages : ToldRow(m)
    /\ \A u \in Users : ToldCursor(u)
    /\ \A m \in Messages!Messages, u \in Users : ToldReaction(m, u)

-----------------------------------------------------------------------------
LEMMA MessageNumbers ==
    /\ MaxRequests \in Nat /\ Nobody \notin Users /\ Founder \in Users
    /\ \A r \in Messages!Requests : r \in Messages!Messages /\ r \in Nat /\ r # 0
    /\ 0 \in Messages!Messages /\ Messages!Messages \subseteq Nat
    /\ Messages!NoCursor \notin Messages!Messages
BY ChatAssumption
   DEF Messages!MessageAssumption, Messages!Requests, Messages!Messages, Messages!NoCursor

LEMMA RowsAreCopies ==
    /\ Messages!NoMessage \in Copies
    /\ \A w \in MessageRows : w \in Copies /\ (w # Messages!NoMessage => w.by \in Users)
    /\ \A w \in MessageRows : w.by \in Users => w # Messages!NoMessage
BY MessageNumbers DEF Copies, MessageRows, Messages!NoMessage, Whoever

LEMMA InHand ==
    ASSUME NEW c \in Writing \cup Written
    PROVE  /\ c.pc \in MessagePcs => c \in Writing /\ c.pc \notin {"ok", "failed", "idle"}
           /\ c.pc \notin MessagePcs => c \in Written /\ c.pc \in {"ok", "failed", "idle"}
BY DEF Writing, Written, MessagePcs

LEMMA ToldGives ==
    ASSUME NEW s \in Shown, NEW c \in Writing
    PROVE  LET t == Messages!Told(s, c) IN
           /\ t \in Shown
           /\ c.op \in OnRows =>
                /\ t.message[c.m] = After(s.message[c.m], c)
                /\ \A x \in Messages!Messages : x # c.m => t.message[x] = s.message[x]
                /\ t.cursor = s.cursor /\ t.reacted = s.reacted
           /\ c.op = "read" =>
                /\ t.message = s.message /\ t.reacted = s.reacted
                /\ t.cursor = [s.cursor EXCEPT ![c.by] = c.m]
           /\ c.op = "react" =>
                /\ t.message = s.message /\ t.cursor = s.cursor
                /\ t.reacted = IF c.undo THEN s.reacted \ {<<c.m, c.by>>} ELSE s.reacted \cup {<<c.m, c.by>>}
<1>1. c.m \in Messages!Messages /\ c.by \in Users /\ c.copy \in Copies /\ s.message[c.m] \in Copies
      /\ c.op \in MessageOps
  BY DEF Writing, Shown
<1>2. CASE c.op = "send"
  BY <1>1, <1>2 DEF Messages!Told, After, OnRows, Shown
<1>3. CASE c.op = "edit"
  <2>1. After(s.message[c.m], c) \in Copies
    BY <1>1, <1>3 DEF After, Copies
  <2>2. Messages!Told(s, c) = [s EXCEPT !.message[c.m] = After(s.message[c.m], c)]
    BY <1>1, <1>3 DEF After, Messages!Told, Shown
  <2> QED
    BY <1>1, <1>3, <2>1, <2>2 DEF OnRows, Shown
<1>4. CASE c.op = "delete"
  <2>1. After(s.message[c.m], c) \in Copies
    BY <1>1, <1>4 DEF After, Copies
  <2>2. Messages!Told(s, c) = [s EXCEPT !.message[c.m] = After(s.message[c.m], c)]
    BY <1>1, <1>4 DEF After, Messages!Told, Shown
  <2> QED
    BY <1>1, <1>4, <2>1, <2>2 DEF OnRows, Shown
<1>5. CASE c.op = "pin"
  <2>1. After(s.message[c.m], c) \in Copies
    BY <1>1, <1>5 DEF After, Copies
  <2>2. Messages!Told(s, c) = [s EXCEPT !.message[c.m] = After(s.message[c.m], c)]
    BY <1>1, <1>5 DEF After, Messages!Told, Shown
  <2> QED
    BY <1>1, <1>5, <2>1, <2>2 DEF OnRows, Shown
<1>6. CASE c.op = "read"
  BY <1>1, <1>6 DEF Messages!Told, OnRows, Shown, Cursors
<1>7. CASE c.op = "react"
  <2> DEFINE R == IF c.undo THEN s.reacted \ {<<c.m, c.by>>} ELSE s.reacted \cup {<<c.m, c.by>>}
  <2>1. s.reacted \in SUBSET (Messages!Messages \X Users)
    BY DEF Shown
  <2>2. R \in SUBSET (Messages!Messages \X Users)
    BY <1>1, <2>1
  <2>3. Messages!Told(s, c) = [s EXCEPT !.reacted = R]
    BY <1>7 DEF Messages!Told
  <2> HIDE DEF R
  <2>4. LET t == Messages!Told(s, c)
        IN  t \in Shown /\ t.message = s.message /\ t.cursor = s.cursor /\ t.reacted = R
    BY <2>2, <2>3 DEF Shown
  <2> QED
    BY <1>7, <2>4 DEF R, OnRows
<1> QED
  BY <1>1, <1>2, <1>3, <1>4, <1>5, <1>6, <1>7 DEF MessageOps
(* A request that is under way goes on.  It writes its own message or its  *)
(* user's cursor or reaction, and no other request that is under way is    *)
(* about them.                                                             *)
MMoves(r) ==
    /\ DOMAIN mreq' = Messages!Requests
    /\ \A q \in Messages!Requests \ {r} : mreq'[q] = mreq[q]
    /\ mreq'[r] \in Writing \cup Written /\ mreq'[r].op = mreq[r].op
    /\ mreq'[r].pc \in MessagePcs => mreq'[r].by = mreq[r].by /\ mreq'[r].m = mreq[r].m

LEMMA OthersAreElsewhere ==
    ASSUME MInv, NEW r \in Messages!Requests, mreq[r].pc \in MessagePcs,
           NEW q \in Messages!Requests, q # r
    PROVE  /\ mreq[q].pc \in MessagePcs => mreq[q].m # mreq[r].m
           /\ mreq[q].pc \in MessagePcs /\ mreq[q].op = "read" /\ mreq[r].op = "read" => mreq[q].by # mreq[r].by
           /\ mreq[q].pc \in {"idle", "insert"} => q # mreq[r].m
<1>1. /\ MessageShape /\ AloneOn /\ FoundOn(q) /\ FoundOn(r)
      /\ mreq[q] \in Writing \cup Written /\ mreq[r] \in Writing \cup Written
  BY DEF MInv, MessageShape
<1>2. Messages!Active(r) /\ (mreq[q].pc \in MessagePcs => Messages!Active(q))
  BY <1>1, InHand DEF Messages!Active, Messages!Ended
<1>3. mreq[q].pc \in MessagePcs => ~Messages!Conflict(mreq[q], mreq[r])
  BY <1>1, <1>2 DEF AloneOn
<1>4. mreq[q].pc = "idle" => q # mreq[r].m
  BY <1>1 DEF FoundOn, MessagePhase, Messages!Sent
<1>5. mreq[q].pc = "insert" => mreq[q].m = q
  BY <1>1 DEF FoundOn, MessagePhase, MessagePcs
<1> QED
  BY <1>3, <1>4, <1>5 DEF Messages!Conflict, MessagePcs

LEMMA MessageMoves ==
    ASSUME MInv, NEW r \in Messages!Requests, mreq[r].pc \in MessagePcs, MMoves(r),
           NEW m, m = mreq[r].m, NEW u, u = mreq[r].by,
           message' \in [Messages!Messages -> MessageRows],
           reaction' \in [Messages!Messages -> [Users -> Nat]],
           cursor' \in [Users -> Cursors], shown' \in Shown,
           \A x \in Messages!Messages : x # m =>
              message'[x] = message[x] /\ shown'.message[x] = shown.message[x],
           \A x \in Messages!Messages, v \in Users : x # m \/ v # u =>
              reaction'[x][v] = reaction[x][v] /\ (<<x, v>> \in shown'.reacted <=> <<x, v>> \in shown.reacted),
           \A v \in Users : v # u => cursor'[v] = cursor[v] /\ shown'.cursor[v] = shown.cursor[v],
           mreq[r].op # "read" => cursor' = cursor,
           FoundOn(r)', ToldSoon(r)', ToldRow(m)', ToldCursor(u)', ToldReaction(m, u)'
    PROVE  MInv'
<1>0. /\ MessageShape /\ AloneOn /\ mreq[r] \in Writing /\ mreq[r].pc \notin {"ok", "failed", "idle"}
      /\ m \in Messages!Messages /\ u \in Users
  BY InHand DEF MInv, MessageShape, Writing
<1>1. MessageShape'
  <2>1. ASSUME NEW q \in Messages!Requests PROVE mreq'[q] \in Writing \cup Written
    BY <1>0, <2>1 DEF MMoves, MessageShape
  <2> QED
    BY <2>1 DEF MessageShape, MMoves
<1>2. ASSUME NEW q \in Messages!Requests, Messages!Active(q)'
      PROVE  /\ Messages!Active(q) /\ mreq[q].pc \in MessagePcs
             /\ mreq'[q].op = mreq[q].op /\ mreq'[q].by = mreq[q].by /\ mreq'[q].m = mreq[q].m
  <2>1. mreq'[q] \in Writing \cup Written /\ mreq'[q].pc \in MessagePcs
    BY <1>1, <1>2, InHand DEF MessageShape, Messages!Active, Messages!Ended
  <2>2. CASE q = r
    BY <1>0, <2>1, <2>2 DEF MMoves, Messages!Active, Messages!Ended
  <2>3. CASE q # r
    BY <1>2, <2>1, <2>3 DEF MMoves, Messages!Active, Messages!Ended
  <2> QED
    BY <2>2, <2>3
<1>3. AloneOn'
  BY <1>0, <1>2 DEF AloneOn, Messages!Conflict
<1>4. ASSUME NEW x, FailedSend(x) PROVE x # r /\ FailedSend(x)'
  BY <1>0, <1>4 DEF FailedSend, MMoves
<1>5. ASSUME NEW q \in Messages!Requests, q # r PROVE FoundOn(q)' /\ ToldSoon(q)'
  <2>1. /\ mreq'[q] = mreq[q] /\ FoundOn(q) /\ ToldSoon(q) /\ q \in Messages!Messages
        /\ mreq[q] \in Writing \cup Written
    BY <1>0, <1>5, MessageNumbers DEF MInv, MMoves, MessageShape
  <2>2. /\ mreq[q].pc \in MessagePcs => mreq[q].m # m
        /\ mreq[q].pc \in MessagePcs /\ mreq[q].op = "read" /\ mreq[r].op = "read" => mreq[q].by # u
        /\ mreq[q].pc \in {"idle", "insert"} => q # m
    BY <1>5, OthersAreElsewhere
  <2>3. mreq[q].pc \in MessagePcs => mreq[q].m \in Messages!Messages /\ mreq[q].by \in Users
    BY <2>1, InHand DEF Writing
  <2>4. mreq[q].pc \in {"idle", "insert"} => message'[q] = message[q]
    BY <2>1, <2>2
  <2>5. mreq[q].pc \in MessagePcs =>
          /\ message'[mreq[q].m] = message[mreq[q].m] /\ shown'.message[mreq[q].m] = shown.message[mreq[q].m]
          /\ reaction'[mreq[q].m][mreq[q].by] = reaction[mreq[q].m][mreq[q].by]
          /\ mreq[q].op = "read" => cursor'[mreq[q].by] = cursor[mreq[q].by]
    BY <2>2, <2>3
  <2>6. mreq[q].pc \in {"toggle", "emit", "role", "save"} => mreq[q].pc \in MessagePcs
    BY DEF MessagePcs
  <2>7. FoundOn(q)'
    BY <2>1, <2>4, <2>5, <2>6 DEF FoundOn, Messages!Sent, Messages!Deleted
  <2>8. ToldSoon(q)'
    BY <1>4, <2>1, <2>5, <2>6 DEF ToldSoon
  <2> QED
    BY <2>7, <2>8
<1>6. ASSUME NEW x \in Messages!Messages, x # m PROVE ToldRow(x)'
  <2>1. ToldRow(x)
    BY DEF MInv
  <2>2. CASE FailedSend(x)
    BY <1>4, <2>2 DEF ToldRow
  <2>3. CASE shown.message[x] = message[x]
    BY <1>6, <2>3 DEF ToldRow
  <2>4. ASSUME NEW q \in Messages!Requests, mreq[q].op \in OnRows, mreq[q].pc \in {"reread", "emit"}, mreq[q].m = x
        PROVE  ToldRow(x)'
    <3>1. mreq'[q] = mreq[q]
      BY <1>6, <2>4 DEF MMoves
    <3> QED
      BY <2>4, <3>1 DEF ToldRow
  <2> QED
    BY <2>1, <2>2, <2>3, <2>4 DEF ToldRow
<1>7. ASSUME NEW v \in Users, v # u PROVE ToldCursor(v)'
  <2>1. ToldCursor(v)
    BY DEF MInv
  <2>2. CASE shown.cursor[v] = cursor[v]
    BY <1>7, <2>2 DEF ToldCursor
  <2>3. ASSUME NEW q \in Messages!Requests, mreq[q].op = "read", mreq[q].pc = "emit", mreq[q].by = v
        PROVE  ToldCursor(v)'
    <3>1. mreq'[q] = mreq[q]
      BY <1>7, <2>3 DEF MMoves
    <3> QED
      BY <2>3, <3>1 DEF ToldCursor
  <2> QED
    BY <2>1, <2>2, <2>3 DEF ToldCursor
<1>8. ASSUME NEW x \in Messages!Messages, NEW v \in Users, x # m \/ v # u PROVE ToldReaction(x, v)'
  <2>1. ToldReaction(x, v)
    BY DEF MInv
  <2>2. CASE <<x, v>> \in shown.reacted <=> reaction[x][v] # 0
    BY <1>8, <2>2 DEF ToldReaction
  <2>3. ASSUME NEW q \in Messages!Requests, mreq[q].op = "react", mreq[q].pc = "emit", mreq[q].by = v, mreq[q].m = x
        PROVE  ToldReaction(x, v)'
    <3>1. mreq'[q] = mreq[q]
      BY <1>8, <2>3 DEF MMoves
    <3> QED
      BY <2>3, <3>1 DEF ToldReaction
  <2> QED
    BY <2>1, <2>2, <2>3 DEF ToldReaction
<1>9. \A q \in Messages!Requests : FoundOn(q)' /\ ToldSoon(q)'
  BY <1>5
<1>10. \A x \in Messages!Messages : ToldRow(x)'
  BY <1>6
<1>11. \A v \in Users : ToldCursor(v)'
  BY <1>7
<1>12. \A x \in Messages!Messages, v \in Users : ToldReaction(x, v)'
  BY <1>8
<1> QED
  BY <1>1, <1>3, <1>9, <1>10, <1>11, <1>12 DEF MInv
-----------------------------------------------------------------------------
(* The ways a request goes on.                                             *)
LEMMA MUnderWay ==
    ASSUME MInv, NEW r \in Messages!Requests, mreq[r].pc \in MessagePcs
    PROVE  /\ MessageShape /\ FoundOn(r) /\ ToldSoon(r) /\ mreq[r] \in Writing
           /\ mreq[r].m \in Messages!Messages /\ mreq[r].by \in Users /\ mreq[r].op \in MessageOps
           /\ mreq[r].copy \in Copies /\ mreq[r].row \in Nat /\ mreq[r].undo \in BOOLEAN
           /\ message[mreq[r].m] \in MessageRows
BY InHand DEF MInv, MessageShape, Writing

LEMMA MGoto ==
    ASSUME MessageShape, NEW r \in Messages!Requests, mreq[r] \in Writing,
           NEW pc \in MessagePcs \cup {"ok", "failed"}, Messages!Goto(r, pc)
    PROVE  /\ MMoves(r) /\ mreq'[r].pc = pc /\ mreq'[r].op = mreq[r].op
           /\ pc \in MessagePcs => mreq'[r] = [mreq[r] EXCEPT !.pc = pc]
<1>1. CASE pc \in {"ok", "failed"}
  <2>1. mreq' = [mreq EXCEPT ![r] = [op |-> mreq[r].op, pc |-> pc]]
    BY <1>1 DEF Messages!Goto, Messages!Ended
  <2>2. mreq[r].op \in MessageOps /\ [op |-> mreq[r].op, pc |-> pc] \in Written
    BY <1>1 DEF Writing, Written
  <2> QED
    BY <1>1, <2>1, <2>2 DEF MMoves, MessageShape, MessagePcs
<1>2. CASE pc \in MessagePcs
  <2>1. mreq' = [mreq EXCEPT ![r] = [mreq[r] EXCEPT !.pc = pc]]
    BY <1>2 DEF Messages!Goto, Messages!Ended, MessagePcs
  <2>2. [mreq[r] EXCEPT !.pc = pc] \in Writing
    BY <1>2 DEF Writing
  <2> QED
    BY <1>2, <2>1, <2>2 DEF MMoves, MessageShape, Writing
<1> QED
  BY <1>1, <1>2

LEMMA MCopies ==
    ASSUME MessageShape, NEW r \in Messages!Requests, mreq[r] \in Writing, NEW pc \in MessagePcs,
           NEW copy \in Copies, mreq' = [mreq EXCEPT ![r].pc = pc, ![r].copy = copy]
    PROVE  MMoves(r) /\ mreq'[r] = [mreq[r] EXCEPT !.pc = pc, !.copy = copy] /\ mreq'[r] \in Writing
<1>1. mreq'[r] = [mreq[r] EXCEPT !.pc = pc, !.copy = copy]
  BY DEF MessageShape
<1>2. [mreq[r] EXCEPT !.pc = pc, !.copy = copy] \in Writing
  BY DEF Writing
<1> QED
  BY <1>1, <1>2 DEF MMoves, MessageShape, Writing

LEMMA MKeepsRow ==
    ASSUME MessageShape, NEW r \in Messages!Requests, mreq[r] \in Writing, NEW pc \in MessagePcs,
           NEW found \in Nat, mreq' = [mreq EXCEPT ![r].row = found, ![r].pc = pc]
    PROVE  MMoves(r) /\ mreq'[r] = [mreq[r] EXCEPT !.row = found, !.pc = pc] /\ mreq'[r] \in Writing
<1>1. mreq'[r] = [mreq[r] EXCEPT !.row = found, !.pc = pc]
  BY DEF MessageShape
<1>2. [mreq[r] EXCEPT !.row = found, !.pc = pc] \in Writing
  BY DEF Writing
<1> QED
  BY <1>1, <1>2 DEF MMoves, MessageShape, Writing

(* Before it tells, sockets hold what is stored where a request is about   *)
(* to write.                                                               *)
LEMMA SoFarTold ==
    ASSUME MInv, NEW r \in Messages!Requests, mreq[r].pc \in MessagePcs \ {"reread", "emit"}
    PROVE  LET m == mreq[r].m
               u == mreq[r].by
           IN  /\ FailedSend(m) \/ shown.message[m] = message[m]
               /\ mreq[r].op = "read" => shown.cursor[u] = cursor[u]
               /\ <<m, u>> \in shown.reacted <=> reaction[m][u] # 0
<1> DEFINE m == mreq[r].m
           u == mreq[r].by
<1>1. m \in Messages!Messages /\ u \in Users
  BY MUnderWay
<1>2. ToldRow(m) /\ ToldCursor(u) /\ ToldReaction(m, u)
  BY <1>1 DEF MInv
<1>3. ASSUME NEW q \in Messages!Requests, mreq[q].pc \in {"reread", "emit"}
      PROVE  mreq[q].m # m /\ (mreq[q].op = "read" /\ mreq[r].op = "read" => mreq[q].by # u)
  BY <1>3, OthersAreElsewhere DEF MessagePcs
<1> QED
  BY <1>2, <1>3 DEF ToldRow, ToldCursor, ToldReaction

LEMMA MessageReads ==
    ASSUME MInv, NEW r \in Messages!Requests, mreq[r].pc \in MessagePcs \ {"reread", "emit"},
           MMoves(r), UNCHANGED <<message, reaction, cursor, shown>>, FoundOn(r)', ToldSoon(r)'
    PROVE  MInv'
<1>0. PICK m, u : m = mreq[r].m /\ u = mreq[r].by
  OBVIOUS
<1>1. m \in Messages!Messages /\ u \in Users /\ MessageShape
  BY <1>0, MUnderWay
<1>2. ToldRow(m) /\ ToldCursor(u) /\ ToldReaction(m, u)
  BY <1>1 DEF MInv
<1>3. ASSUME NEW q \in Messages!Requests, mreq[q].pc \in {"reread", "emit"} PROVE mreq'[q] = mreq[q]
  BY <1>3 DEF MMoves
<1>4. FailedSend(m) => FailedSend(m)'
  BY DEF FailedSend, MMoves, MessagePcs
<1>5. ToldRow(m)'
  <2>1. CASE \E q \in Messages!Requests : mreq[q].op \in OnRows /\ mreq[q].pc \in {"reread", "emit"} /\ mreq[q].m = m
    BY <1>3, <2>1 DEF ToldRow
  <2>2. CASE FailedSend(m)
    BY <1>4, <2>2 DEF ToldRow
  <2>3. CASE shown.message[m] = message[m]
    BY <2>3 DEF ToldRow
  <2> QED
    BY <1>2, <2>1, <2>2, <2>3 DEF ToldRow
<1>6. ToldCursor(u)'
  BY <1>2, <1>3 DEF ToldCursor
<1>7. ToldReaction(m, u)'
  BY <1>2, <1>3 DEF ToldReaction
<1>8. /\ message' \in [Messages!Messages -> MessageRows] /\ reaction' \in [Messages!Messages -> [Users -> Nat]]
      /\ cursor' \in [Users -> Cursors] /\ shown' \in Shown
  BY <1>1 DEF MessageShape
<1> QED
  BY <1>0, <1>5, <1>6, <1>7, <1>8, MessageMoves
-----------------------------------------------------------------------------
(* The steps, one by one.  Reads first.                                    *)
LEMMA MRefused ==
    ASSUME MInv, NEW r \in Messages!Requests, mreq[r].pc \in MessagePcs \ {"reread", "emit"},
           Messages!Goto(r, "failed"), UNCHANGED <<message, reaction, cursor, shown>>
    PROVE  MInv' /\ MMoves(r)
<1>1. MessageShape /\ mreq[r] \in Writing
  BY MUnderWay
<1>2. MMoves(r) /\ mreq'[r].pc = "failed"
  BY <1>1, MGoto
<1>3. FoundOn(r)' /\ ToldSoon(r)'
  BY <1>2 DEF FoundOn, ToldSoon, MessagePhase, MessagePcs
<1> QED
  BY <1>2, <1>3, MessageReads

LEMMA FindMessageKeeps ==
    ASSUME MInv, NEW r \in Messages!Requests, Messages!FindMessage(r)
    PROVE  MInv' /\ MMoves(r)
<1> DEFINE c == mreq[r]
           msg == message[c.m]
           next == CASE c.op = "edit" -> IF msg.by # c.by \/ Messages!Deleted(c.m) THEN "failed" ELSE "save"
                     [] c.op = "delete" -> "role"
                     [] c.op = "pin" -> "save"
                     [] OTHER -> "own"
<1>1. c.pc = "find" /\ UNCHANGED <<message, reaction, cursor, shown>> /\ c.pc \in MessagePcs \ {"reread", "emit"}
  BY DEF Messages!FindMessage, Messages!At, Messages!stored, MessagePcs
<1>2. /\ MessageShape /\ c \in Writing /\ FoundOn(r) /\ c.op \in MessageOps /\ msg \in Copies
  BY <1>1, MUnderWay, RowsAreCopies
<1>3. CASE next = "failed"
  <2>1. Messages!Goto(r, "failed")
    BY <1>3 DEF Messages!FindMessage, Messages!Op
  <2> QED
    BY <1>1, <2>1, MRefused
<1>4. CASE next # "failed"
  <2>1. mreq' = [mreq EXCEPT ![r].pc = next, ![r].copy = msg]
    BY <1>4 DEF Messages!FindMessage, Messages!Op
  <2>2. /\ next \in {"save", "role", "own"} /\ {"save", "role", "own"} \subseteq MessagePcs
        /\ next = "role" => c.op = "delete"
        /\ next = "save" => c.op \in {"edit", "pin"}
        /\ next = "save" /\ c.op = "edit" => msg.by = c.by /\ ~Messages!Deleted(c.m)
        /\ next = "own" => c.op \in {"read", "react"}
    <3>1. c.op # "send"
      BY <1>1, <1>2 DEF FoundOn, MessagePhase, MessagePcs
    <3> QED
      BY <1>2, <1>4, <3>1 DEF MessageOps, MessagePcs
  <2> HIDE DEF next
  <2>3. MMoves(r) /\ mreq'[r] = [c EXCEPT !.pc = next, !.copy = msg] /\ mreq'[r] \in Writing
    BY <1>2, <2>1, <2>2, MCopies
  <2>4. /\ mreq'[r].pc = next /\ mreq'[r].copy = msg /\ mreq'[r].op = c.op /\ mreq'[r].m = c.m
        /\ mreq'[r].by = c.by
    BY <1>2, <2>3 DEF Writing
  <2>5. Messages!Sent(c.m)
    BY <1>1, <1>2 DEF FoundOn, MessagePcs
  <2>6. FoundOn(r)' /\ ToldSoon(r)'
    BY <1>1, <1>2, <2>2, <2>4, <2>5 DEF FoundOn, ToldSoon, MessagePhase, MessagePcs, Messages!Sent, Messages!Deleted
  <2> QED
    BY <1>1, <2>3, <2>6, MessageReads
<1> QED
  BY <1>3, <1>4

LEMMA FindRoleKeeps ==
    ASSUME MInv, NEW r \in Messages!Requests, Messages!FindRole(r)
    PROVE  MInv' /\ MMoves(r)
<1>1. /\ mreq[r].pc = "role" /\ UNCHANGED <<message, reaction, cursor, shown>>
      /\ mreq[r].pc \in MessagePcs \ {"reread", "emit"} /\ "save" \in MessagePcs
  BY DEF Messages!FindRole, Messages!At, Messages!stored, MessagePcs
<1>2. MessageShape /\ mreq[r] \in Writing /\ FoundOn(r)
  BY <1>1, MUnderWay
<1>3. CASE Messages!Goto(r, "failed")
  BY <1>1, <1>3, MRefused
<1>4. CASE Messages!Goto(r, "save")
  <2>1. MMoves(r) /\ mreq'[r] = [mreq[r] EXCEPT !.pc = "save"] /\ mreq'[r].pc = "save"
    BY <1>1, <1>2, <1>4, MGoto
  <2>2. mreq'[r].op = mreq[r].op /\ mreq'[r].copy = mreq[r].copy /\ mreq'[r].m = mreq[r].m /\ mreq'[r].by = mreq[r].by
    BY <1>2, <2>1 DEF Writing
  <2>3. FoundOn(r)' /\ ToldSoon(r)'
    BY <1>1, <1>2, <2>1, <2>2 DEF FoundOn, ToldSoon, MessagePhase, MessagePcs, Messages!Sent, Messages!Deleted
  <2> QED
    BY <1>1, <2>1, <2>3, MessageReads
<1> QED
  BY <1>3, <1>4 DEF Messages!FindRole

LEMMA FindOwnKeeps ==
    ASSUME MInv, NEW r \in Messages!Requests, Messages!FindOwn(r)
    PROVE  MInv' /\ MMoves(r)
<1> DEFINE c == mreq[r]
           found == IF c.op = "react" THEN reaction[c.m][c.by]
                    ELSE IF cursor[c.by] = Messages!NoCursor THEN 0 ELSE 1
           next == IF c.op = "read" THEN "move" ELSE IF c.undo = (found # 0) THEN "toggle" ELSE "emit"
<1>1. /\ c.pc = "own" /\ UNCHANGED <<message, reaction, cursor, shown>>
      /\ c.pc \in MessagePcs \ {"reread", "emit"} /\ next \in MessagePcs
      /\ mreq' = [mreq EXCEPT ![r].row = found, ![r].pc = next]
  BY DEF Messages!FindOwn, Messages!At, Messages!Op, Messages!stored, MessagePcs
<1>2. /\ MessageShape /\ c \in Writing /\ FoundOn(r) /\ c.m \in Messages!Messages /\ c.by \in Users
      /\ c.undo \in BOOLEAN
  BY <1>1, MUnderWay
<1>3. found \in Nat /\ (c.op = "react" => found = reaction[c.m][c.by])
  BY <1>2 DEF MessageShape
<1>4. /\ c.op \in {"read", "react"} /\ next = "move" => c.op = "read"
      /\ next \in {"toggle", "emit"} => c.op = "react"
      /\ next = "toggle" => (c.undo <=> found # 0)
      /\ next = "emit" => (c.undo <=> found = 0)
      /\ next \in {"move", "toggle", "emit"}
  BY <1>1, <1>2 DEF FoundOn, MessagePhase
<1> HIDE DEF found, next
<1>5. MMoves(r) /\ mreq'[r] = [c EXCEPT !.row = found, !.pc = next] /\ mreq'[r] \in Writing
  BY <1>1, <1>2, <1>3, MKeepsRow
<1>6. /\ mreq'[r].pc = next /\ mreq'[r].row = found /\ mreq'[r].op = c.op /\ mreq'[r].m = c.m
      /\ mreq'[r].by = c.by /\ mreq'[r].undo = c.undo
  BY <1>2, <1>5 DEF Writing
<1>7. c.op \in {"read", "react"} /\ Messages!Sent(c.m)
  BY <1>1, <1>2 DEF FoundOn, MessagePhase, MessagePcs
<1>8. FoundOn(r)' /\ ToldSoon(r)'
  BY <1>1, <1>3, <1>4, <1>6, <1>7 DEF FoundOn, ToldSoon, MessagePhase, MessagePcs, OnRows, Messages!Sent
<1> QED
  BY <1>1, <1>5, <1>8, MessageReads
(* What a write leaves alone is told as it was.                            *)
LEMMA RowStays ==
    ASSUME MInv, NEW r \in Messages!Requests, MMoves(r), mreq[r].pc \in MessagePcs, NEW m \in Messages!Messages,
           message'[m] = message[m], shown'.message[m] = shown.message[m],
           mreq[r].pc \notin {"reread", "emit"} \/ mreq[r].op \notin OnRows
    PROVE  ToldRow(m)'
<1>1. ToldRow(m)
  BY DEF MInv
<1>2. FailedSend(m) => FailedSend(m)'
  BY DEF FailedSend, MMoves, MessagePcs
<1>3. ASSUME NEW q \in Messages!Requests, mreq[q].op \in OnRows, mreq[q].pc \in {"reread", "emit"}
      PROVE  mreq'[q] = mreq[q]
  BY <1>3 DEF MMoves
<1>4. CASE \E q \in Messages!Requests : mreq[q].op \in OnRows /\ mreq[q].pc \in {"reread", "emit"} /\ mreq[q].m = m
  BY <1>3, <1>4 DEF ToldRow
<1>5. CASE FailedSend(m)
  BY <1>2, <1>5 DEF ToldRow
<1>6. CASE shown.message[m] = message[m]
  BY <1>6 DEF ToldRow
<1> QED
  BY <1>1, <1>4, <1>5, <1>6 DEF ToldRow

LEMMA CursorStays ==
    ASSUME MInv, NEW r \in Messages!Requests, MMoves(r), NEW u \in Users,
           cursor'[u] = cursor[u], shown'.cursor[u] = shown.cursor[u],
           mreq[r].pc # "emit" \/ mreq[r].op # "read"
    PROVE  ToldCursor(u)'
<1>1. ToldCursor(u)
  BY DEF MInv
<1>2. ASSUME NEW q \in Messages!Requests, mreq[q].op = "read", mreq[q].pc = "emit" PROVE mreq'[q] = mreq[q]
  BY <1>2 DEF MMoves
<1> QED
  BY <1>1, <1>2 DEF ToldCursor

LEMMA ReactionStays ==
    ASSUME MInv, NEW r \in Messages!Requests, MMoves(r), NEW m \in Messages!Messages, NEW u \in Users,
           reaction'[m][u] = reaction[m][u], <<m, u>> \in shown'.reacted <=> <<m, u>> \in shown.reacted,
           mreq[r].pc # "emit" \/ mreq[r].op # "react"
    PROVE  ToldReaction(m, u)'
<1>1. ToldReaction(m, u)
  BY DEF MInv
<1>2. ASSUME NEW q \in Messages!Requests, mreq[q].op = "react", mreq[q].pc = "emit" PROVE mreq'[q] = mreq[q]
  BY <1>2 DEF MMoves
<1> QED
  BY <1>1, <1>2 DEF ToldReaction

LEMMA InsertMessageKeeps ==
    ASSUME MInv, NEW r \in Messages!Requests, Messages!InsertMessage(r)
    PROVE  MInv' /\ MMoves(r)
<1>0. PICK m, u : m = mreq[r].m /\ u = mreq[r].by
  OBVIOUS
<1>1. /\ mreq[r].pc = "insert" /\ mreq[r].pc \in MessagePcs /\ "reread" \in MessagePcs
      /\ message' = [message EXCEPT ![r] = Messages!Message(u, r)]
      /\ Messages!Goto(r, "reread") /\ UNCHANGED <<reaction, cursor, shown>>
  BY <1>0 DEF Messages!InsertMessage, Messages!At, MessagePcs
<1>2. MessageShape /\ mreq[r] \in Writing /\ FoundOn(r) /\ m \in Messages!Messages /\ u \in Users
  BY <1>0, <1>1, MUnderWay
<1>3. m = r /\ mreq[r].op = "send"
  BY <1>0, <1>1, <1>2 DEF FoundOn, MessagePhase, MessagePcs
<1>4. MMoves(r) /\ mreq'[r] = [mreq[r] EXCEPT !.pc = "reread"] /\ mreq'[r].pc = "reread"
  BY <1>1, <1>2, MGoto
<1>5. mreq'[r].op = "send" /\ mreq'[r].m = m /\ mreq'[r].by = u
  BY <1>0, <1>2, <1>3, <1>4 DEF Writing
<1>6. Messages!Message(u, r) \in MessageRows /\ Messages!Message(u, r) # Messages!NoMessage
  <2>1. ASSUME NEW w \in Copies
        PROVE  LET v == [w EXCEPT !.by = u, !.text = r] IN
               v \in [by : Users, text : Nat, deletedBy : Whoever, pinnedBy : Whoever] /\ v.by = u
    BY <1>2, MessageNumbers DEF Copies
  <2> QED
    BY <1>2, <2>1, RowsAreCopies DEF Messages!Message, MessageRows
<1>7. /\ message' \in [Messages!Messages -> MessageRows] /\ message'[m] # Messages!NoMessage
      /\ \A x \in Messages!Messages : x # m => message'[x] = message[x]
  BY <1>1, <1>2, <1>3, <1>6 DEF MessageShape
<1>8. FoundOn(r)' /\ ToldSoon(r)'
  BY <1>3, <1>4, <1>5, <1>7 DEF FoundOn, ToldSoon, MessagePhase, MessagePcs, Messages!Sent
<1>9. ToldRow(m)'
  BY <1>4, <1>5 DEF ToldRow, OnRows
<1>10. ToldCursor(u)' /\ ToldReaction(m, u)'
  BY <1>1, <1>2, <1>4, CursorStays, ReactionStays
<1>11. /\ reaction' \in [Messages!Messages -> [Users -> Nat]]
       /\ cursor' \in [Users -> Cursors] /\ shown' \in Shown
  BY <1>1, <1>2 DEF MessageShape
<1> QED
  BY <1>0, <1>1, <1>4, <1>7, <1>8, <1>9, <1>10, <1>11, MessageMoves

LEMMA RereadKeeps ==
    ASSUME MInv, NEW r \in Messages!Requests, Messages!Reread(r) \/ Messages!Fail(r)
    PROVE  MInv' /\ MMoves(r)
<1>0. PICK m, u : m = mreq[r].m /\ u = mreq[r].by
  OBVIOUS
<1>1. /\ mreq[r].pc = "reread" /\ mreq[r].pc \in MessagePcs /\ "emit" \in MessagePcs
      /\ UNCHANGED <<message, reaction, cursor, shown>>
  BY DEF Messages!Reread, Messages!Fail, Messages!At, Messages!stored, MessagePcs
<1>2. /\ MessageShape /\ mreq[r] \in Writing /\ FoundOn(r) /\ m \in Messages!Messages /\ u \in Users
      /\ message[m] \in MessageRows
  BY <1>0, <1>1, MUnderWay
<1>3. m = r /\ mreq[r].op = "send" /\ Messages!Sent(m)
  BY <1>0, <1>1, <1>2 DEF FoundOn, MessagePhase, MessagePcs
<1>4. /\ message' \in [Messages!Messages -> MessageRows] /\ reaction' \in [Messages!Messages -> [Users -> Nat]]
      /\ cursor' \in [Users -> Cursors] /\ shown' \in Shown
  BY <1>1, <1>2 DEF MessageShape
<1>5. CASE Messages!Reread(r)
  <2>1. mreq' = [mreq EXCEPT ![r].pc = "emit", ![r].copy = message[m]]
    BY <1>3, <1>5 DEF Messages!Reread
  <2>2. MMoves(r) /\ mreq'[r] = [mreq[r] EXCEPT !.pc = "emit", !.copy = message[m]] /\ mreq'[r] \in Writing
    BY <1>1, <1>2, <2>1, MCopies, RowsAreCopies
  <2>3. /\ mreq'[r].pc = "emit" /\ mreq'[r].op = "send" /\ mreq'[r].m = m /\ mreq'[r].by = u
        /\ mreq'[r].copy = message[m]
    BY <1>0, <1>2, <1>3, <2>2 DEF Writing
  <2>4. FoundOn(r)' /\ ToldSoon(r)'
    BY <1>1, <1>3, <2>3 DEF FoundOn, ToldSoon, MessagePhase, MessagePcs, Messages!Sent, After
  <2>5. ToldRow(m)'
    BY <2>3 DEF ToldRow, OnRows
  <2>6. ToldCursor(u)' /\ ToldReaction(m, u)'
    BY <1>1, <1>2, <2>2, CursorStays, ReactionStays
  <2> QED
    BY <1>0, <1>1, <1>4, <2>2, <2>4, <2>5, <2>6, MessageMoves
<1>6. CASE Messages!Fail(r)
  <2>1. MMoves(r) /\ mreq'[r].pc = "failed" /\ mreq'[r].op = "send"
    BY <1>2, <1>3, <1>6, MGoto DEF Messages!Fail
  <2>2. FoundOn(r)' /\ ToldSoon(r)'
    BY <2>1 DEF FoundOn, ToldSoon, MessagePhase, MessagePcs
  <2>3. ToldRow(m)'
    BY <1>3, <2>1 DEF ToldRow, FailedSend
  <2>4. ToldCursor(u)' /\ ToldReaction(m, u)'
    BY <1>1, <1>2, <2>1, CursorStays, ReactionStays
  <2> QED
    BY <1>0, <1>1, <1>4, <2>1, <2>2, <2>3, <2>4, MessageMoves
<1> QED
  BY <1>5, <1>6
(* The row is saved as it was found, with the change; no other request has *)
(* saved it since.                                                         *)
LEMMA ChangedRow ==
    ASSUME MInv, NEW r \in Messages!Requests, mreq[r].pc = "save"
    PROVE  LET c   == mreq[r]
               old == message[c.m]
               new == Messages!Changed(c, r)
           IN  /\ c.op \in {"edit", "delete", "pin"} /\ old.by \in Users
               /\ new \in [by : Users, text : Nat, deletedBy : Whoever, pinnedBy : Whoever]
               /\ new.by = old.by
               /\ c.op = "edit" => new = [old EXCEPT !.text = new.text] /\ old.by = c.by /\ ~Messages!Deleted(c.m)
               /\ c.op = "delete" => new = [old EXCEPT !.deletedBy = new.deletedBy] /\ new.deletedBy = c.by
               /\ c.op = "pin" => new = [old EXCEPT !.pinnedBy = new.pinnedBy]
<1> DEFINE c == mreq[r]
<1>1. /\ c.pc \in MessagePcs /\ c \in Writing /\ FoundOn(r) /\ c.m \in Messages!Messages
      /\ c.by \in Users /\ message[c.m] \in MessageRows
  BY MUnderWay DEF MessagePcs
<1>2. /\ c.op \in {"edit", "delete", "pin"} /\ c.copy = message[c.m] /\ message[c.m] # Messages!NoMessage
      /\ c.op = "edit" => c.copy.by = c.by /\ ~Messages!Deleted(c.m)
  BY <1>1 DEF FoundOn, MessagePhase, MessagePcs, Messages!Sent
<1>3. PICK old \in [by : Users, text : Nat, deletedBy : Whoever, pinnedBy : Whoever] : old = c.copy
  BY <1>1, <1>2 DEF MessageRows
<1>4. CASE c.op = "edit"
  <2>1. Messages!Changed(c, r) = [old EXCEPT !.text = r]
    BY <1>3, <1>4 DEF Messages!Changed, Messages!Edited
  <2> QED
    BY <1>2, <1>3, <1>4, <2>1, MessageNumbers
<1>5. CASE c.op = "delete"
  <2>1. Messages!Changed(c, r) = [old EXCEPT !.deletedBy = c.by]
    BY <1>3, <1>5 DEF Messages!Changed, Messages!Removed
  <2> QED
    BY <1>1, <1>2, <1>3, <1>5, <2>1 DEF Whoever
<1>6. CASE c.op = "pin"
  <2>1. PICK v \in Whoever : Messages!Changed(c, r) = [old EXCEPT !.pinnedBy = v]
    BY <1>1, <1>3, <1>6 DEF Messages!Changed, Messages!Pinned, Whoever
  <2> QED
    BY <1>2, <1>3, <1>6, <2>1
<1> QED
  BY <1>2, <1>4, <1>5, <1>6

LEMMA SaveMessageKeeps ==
    ASSUME MInv, NEW r \in Messages!Requests, Messages!SaveMessage(r)
    PROVE  MInv' /\ MMoves(r)
<1> DEFINE new == Messages!Changed(mreq[r], r)
<1>0. PICK m, u : m = mreq[r].m /\ u = mreq[r].by
  OBVIOUS
<1>1. /\ mreq[r].pc = "save" /\ mreq[r].pc \in MessagePcs \ {"reread", "emit"} /\ "emit" \in MessagePcs
      /\ message' = [message EXCEPT ![m] = new]
      /\ mreq' = [mreq EXCEPT ![r].pc = "emit", ![r].copy = new]
      /\ UNCHANGED <<reaction, cursor, shown>>
  BY <1>0 DEF Messages!SaveMessage, Messages!At, MessagePcs
<1>2. MessageShape /\ mreq[r] \in Writing /\ m \in Messages!Messages /\ u \in Users /\ message[m] \in MessageRows
  BY <1>0, <1>1, MUnderWay
<1>3. /\ new \in [by : Users, text : Nat, deletedBy : Whoever, pinnedBy : Whoever]
      /\ mreq[r].op \in {"edit", "delete", "pin"}
      /\ mreq[r].op = "edit" => new = [message[m] EXCEPT !.text = new.text]
      /\ mreq[r].op = "delete" => new = [message[m] EXCEPT !.deletedBy = new.deletedBy]
      /\ mreq[r].op = "pin" => new = [message[m] EXCEPT !.pinnedBy = new.pinnedBy]
  BY <1>0, <1>1, ChangedRow
<1>4. new \in MessageRows /\ new \in Copies /\ new # Messages!NoMessage
  <2>1. new \in MessageRows /\ new.by \in Users
    BY <1>3 DEF MessageRows
  <2> QED
    BY <2>1, RowsAreCopies
<1> HIDE DEF new
<1>5. MMoves(r) /\ mreq'[r] = [mreq[r] EXCEPT !.pc = "emit", !.copy = new] /\ mreq'[r] \in Writing
  BY <1>1, <1>2, <1>4, MCopies
<1>6. /\ mreq'[r].pc = "emit" /\ mreq'[r].op = mreq[r].op /\ mreq'[r].m = m /\ mreq'[r].by = u
      /\ mreq'[r].copy = new
  BY <1>0, <1>2, <1>5 DEF Writing
<1>7. /\ message' \in [Messages!Messages -> MessageRows] /\ message'[m] = new
      /\ \A x \in Messages!Messages : x # m => message'[x] = message[x]
  BY <1>1, <1>2, <1>4 DEF MessageShape
<1>8. FoundOn(r)'
  BY <1>3, <1>4, <1>6, <1>7 DEF FoundOn, MessagePhase, MessagePcs, Messages!Sent
<1>9. ToldSoon(r)'
  <2>1. FailedSend(m) \/ shown.message[m] = message[m]
    BY <1>0, <1>1, SoFarTold
  <2>2. FailedSend(m) => FailedSend(m)'
    BY <1>1, <1>5 DEF FailedSend, MMoves
  <2>3. shown.message[m] = message[m] => After(shown.message[m], mreq'[r]) = new
    BY <1>3, <1>6 DEF After
  <2> QED
    BY <1>1, <1>6, <1>7, <2>1, <2>2, <2>3 DEF ToldSoon
<1>10. ToldRow(m)'
  BY <1>3, <1>6 DEF ToldRow, OnRows
<1>11. ToldCursor(u)' /\ ToldReaction(m, u)'
  BY <1>1, <1>2, <1>5, CursorStays, ReactionStays
<1>12. /\ reaction' \in [Messages!Messages -> [Users -> Nat]]
       /\ cursor' \in [Users -> Cursors] /\ shown' \in Shown
  BY <1>1, <1>2 DEF MessageShape
<1> QED
  BY <1>0, <1>1, <1>5, <1>7, <1>8, <1>9, <1>10, <1>11, <1>12, MessageMoves
LEMMA MoveCursorKeeps ==
    ASSUME MInv, NEW r \in Messages!Requests, Messages!MoveCursor(r)
    PROVE  MInv' /\ MMoves(r)
<1>0. PICK m, u : m = mreq[r].m /\ u = mreq[r].by
  OBVIOUS
<1>1. /\ mreq[r].pc = "move" /\ mreq[r].pc \in MessagePcs \ {"reread", "emit"} /\ "emit" \in MessagePcs
      /\ UNCHANGED <<message, reaction, shown>>
  BY DEF Messages!MoveCursor, Messages!At, MessagePcs
<1>2. MessageShape /\ mreq[r] \in Writing /\ FoundOn(r) /\ m \in Messages!Messages /\ u \in Users
  BY <1>0, <1>1, MUnderWay
<1>3. CASE Messages!Goto(r, "failed") /\ UNCHANGED cursor
  BY <1>1, <1>3, MRefused
<1>4. CASE cursor' = [cursor EXCEPT ![u] = m] /\ Messages!Goto(r, "emit")
  <2>1. MMoves(r) /\ mreq'[r] = [mreq[r] EXCEPT !.pc = "emit"] /\ mreq'[r].pc = "emit"
    BY <1>1, <1>2, <1>4, MGoto
  <2>2. mreq'[r].op = mreq[r].op /\ mreq'[r].m = m /\ mreq'[r].by = u /\ mreq[r].op = "read" /\ Messages!Sent(m)
    BY <1>0, <1>1, <1>2, <2>1 DEF Writing, FoundOn, MessagePhase, MessagePcs
  <2>3. cursor' \in [Users -> Cursors] /\ cursor'[u] = m /\ \A v \in Users : v # u => cursor'[v] = cursor[v]
    BY <1>2, <1>4 DEF MessageShape, Cursors
  <2>4. FoundOn(r)' /\ ToldSoon(r)'
    BY <1>1, <2>1, <2>2, <2>3 DEF FoundOn, ToldSoon, MessagePhase, OnRows, Messages!Sent
  <2>5. ToldCursor(u)'
    BY <2>1, <2>2 DEF ToldCursor
  <2>6. ToldRow(m)' /\ ToldReaction(m, u)'
    BY <1>1, <1>2, <2>1, RowStays, ReactionStays
  <2>7. /\ message' \in [Messages!Messages -> MessageRows] /\ reaction' \in [Messages!Messages -> [Users -> Nat]]
        /\ shown' \in Shown
    BY <1>1, <1>2 DEF MessageShape
  <2> QED
    BY <1>0, <1>1, <2>1, <2>2, <2>3, <2>4, <2>5, <2>6, <2>7, MessageMoves
<1> QED
  BY <1>0, <1>3, <1>4 DEF Messages!MoveCursor

LEMMA ToggleKeeps ==
    ASSUME MInv, NEW r \in Messages!Requests, Messages!Toggle(r)
    PROVE  MInv' /\ MMoves(r)
<1>0. PICK m, u : m = mreq[r].m /\ u = mreq[r].by
  OBVIOUS
<1> DEFINE now == reaction[m][u]
           new == IF ~mreq[r].undo THEN r ELSE IF now = mreq[r].row THEN 0 ELSE now
<1>1. /\ mreq[r].pc = "toggle" /\ mreq[r].pc \in MessagePcs \ {"reread", "emit"} /\ "emit" \in MessagePcs
      /\ UNCHANGED <<message, cursor, shown>>
  BY DEF Messages!Toggle, Messages!At, MessagePcs
<1>2. /\ MessageShape /\ mreq[r] \in Writing /\ FoundOn(r) /\ m \in Messages!Messages /\ u \in Users
      /\ mreq[r].undo \in BOOLEAN
  BY <1>0, <1>1, MUnderWay
<1>3. mreq[r].row = now /\ (mreq[r].undo <=> now # 0) /\ mreq[r].op = "react" /\ Messages!Sent(m)
  BY <1>0, <1>1, <1>2 DEF FoundOn, MessagePhase, MessagePcs
<1>4. CASE Messages!Goto(r, "failed") /\ UNCHANGED reaction
  BY <1>1, <1>4, MRefused
<1>5. CASE reaction' = [reaction EXCEPT ![m][u] = new] /\ Messages!Goto(r, "emit")
  <2>1. MMoves(r) /\ mreq'[r] = [mreq[r] EXCEPT !.pc = "emit"] /\ mreq'[r].pc = "emit"
    BY <1>1, <1>2, <1>5, MGoto
  <2>2. /\ mreq'[r].op = "react" /\ mreq'[r].m = m /\ mreq'[r].by = u /\ mreq'[r].undo = mreq[r].undo
    BY <1>0, <1>2, <1>3, <2>1 DEF Writing
  <2>3. new \in Nat /\ (mreq[r].undo <=> new = 0)
    BY <1>2, <1>3, MessageNumbers
  <2> HIDE DEF new
  <2>4. /\ reaction' \in [Messages!Messages -> [Users -> Nat]] /\ reaction'[m][u] = new
        /\ \A x \in Messages!Messages, v \in Users : x # m \/ v # u => reaction'[x][v] = reaction[x][v]
    BY <1>2, <1>5, <2>3 DEF MessageShape
  <2>5. FoundOn(r)' /\ ToldSoon(r)'
    BY <1>1, <1>3, <2>1, <2>2, <2>3, <2>4 DEF FoundOn, ToldSoon, MessagePhase, OnRows, Messages!Sent
  <2>6. ToldReaction(m, u)'
    BY <2>1, <2>2 DEF ToldReaction
  <2>7. ToldRow(m)' /\ ToldCursor(u)'
    BY <1>1, <1>2, <2>1, RowStays, CursorStays
  <2>8. /\ message' \in [Messages!Messages -> MessageRows] /\ cursor' \in [Users -> Cursors] /\ shown' \in Shown
    BY <1>1, <1>2 DEF MessageShape
  <2> QED
    BY <1>0, <1>1, <2>1, <2>4, <2>5, <2>6, <2>7, <2>8, MessageMoves
<1> QED
  BY <1>0, <1>4, <1>5 DEF Messages!Toggle

(* The event: sockets hold what is stored again.                           *)
LEMMA EmitKeeps ==
    ASSUME MInv, NEW r \in Messages!Requests, Messages!Emit(r)
    PROVE  MInv' /\ MMoves(r)
<1>0. PICK m, u, c : m = mreq[r].m /\ u = mreq[r].by /\ c = mreq[r]
  OBVIOUS
<1>1. /\ c.pc = "emit" /\ c.pc \in MessagePcs /\ shown' = Messages!Told(shown, c) /\ Messages!Goto(r, "ok")
      /\ UNCHANGED <<message, reaction, cursor>>
  BY <1>0 DEF Messages!Emit, Messages!At, MessagePcs, Messages!stored
<1>2. /\ MessageShape /\ c \in Writing /\ FoundOn(r) /\ ToldSoon(r) /\ m \in Messages!Messages /\ u \in Users
      /\ c.op \in MessageOps /\ shown \in Shown /\ c.m = m /\ c.by = u
  BY <1>0, <1>1, MUnderWay DEF MessageShape
<1>3. MMoves(r) /\ mreq'[r].pc = "ok"
  BY <1>0, <1>1, <1>2, MGoto
<1>4. FoundOn(r)' /\ ToldSoon(r)'
  BY <1>3 DEF FoundOn, ToldSoon, MessagePhase, MessagePcs
<1>5. /\ shown' \in Shown
      /\ c.op \in OnRows =>
           /\ shown'.message[m] = After(shown.message[m], c)
           /\ \A x \in Messages!Messages : x # m => shown'.message[x] = shown.message[x]
           /\ shown'.cursor = shown.cursor /\ shown'.reacted = shown.reacted
      /\ c.op = "read" =>
           /\ shown'.message = shown.message /\ shown'.reacted = shown.reacted
           /\ shown'.cursor = [shown.cursor EXCEPT ![u] = m]
      /\ c.op = "react" =>
           /\ shown'.message = shown.message /\ shown'.cursor = shown.cursor
           /\ shown'.reacted = IF c.undo THEN shown.reacted \ {<<m, u>>} ELSE shown.reacted \cup {<<m, u>>}
  BY <1>1, <1>2, ToldGives
<1>6. c.op \in OnRows \/ c.op = "read" \/ c.op = "react"
  BY <1>2 DEF MessageOps, OnRows
<1>7. "read" \notin OnRows /\ "react" \notin OnRows
  BY DEF OnRows
<1>8. /\ message' \in [Messages!Messages -> MessageRows] /\ reaction' \in [Messages!Messages -> [Users -> Nat]]
      /\ cursor' \in [Users -> Cursors]
  BY <1>1, <1>2 DEF MessageShape
<1>9. ToldRow(m)'
  <2>1. CASE c.op \in OnRows
    <3>1. FailedSend(m) => FailedSend(m)'
      BY <1>0, <1>1, <1>3 DEF FailedSend, MMoves
    <3>2. ~FailedSend(m) => After(shown.message[m], c) = message[m]
      BY <1>0, <1>1, <1>2, <2>1 DEF ToldSoon
    <3> QED
      BY <1>1, <1>5, <2>1, <3>1, <3>2 DEF ToldRow
  <2>2. CASE c.op \notin OnRows
    BY <1>0, <1>1, <1>2, <1>3, <1>5, <1>6, <2>2, RowStays
  <2> QED
    BY <2>1, <2>2
<1>10. ToldCursor(u)'
  <2>1. CASE c.op = "read"
    <3>1. cursor[u] = m
      BY <1>0, <1>1, <1>2, <2>1 DEF FoundOn
    <3>2. shown'.cursor[u] = m
      BY <1>2, <1>5, <2>1 DEF Shown
    <3> QED
      BY <1>1, <3>1, <3>2 DEF ToldCursor
  <2>2. CASE c.op # "read"
    BY <1>0, <1>1, <1>2, <1>3, <1>5, <1>6, <2>2, CursorStays
  <2> QED
    BY <2>1, <2>2
<1>11. ToldReaction(m, u)'
  <2>1. CASE c.op = "react"
    <3>1. c.undo <=> reaction[m][u] = 0
      BY <1>0, <1>1, <1>2, <2>1 DEF FoundOn
    <3> QED
      BY <1>1, <1>5, <2>1, <3>1 DEF ToldReaction
  <2>2. CASE c.op # "react"
    BY <1>0, <1>1, <1>2, <1>3, <1>5, <1>6, <2>2, ReactionStays
  <2> QED
    BY <2>1, <2>2
<1>12. \A x \in Messages!Messages : x # m => shown'.message[x] = shown.message[x]
  BY <1>5, <1>6
<1>13. \A v \in Users : v # u => shown'.cursor[v] = shown.cursor[v]
  BY <1>2, <1>5, <1>6 DEF Shown
<1>14. \A x \in Messages!Messages, v \in Users : x # m \/ v # u =>
          (<<x, v>> \in shown'.reacted <=> <<x, v>> \in shown.reacted)
  <2>1. ASSUME NEW x, NEW v, x # m \/ v # u PROVE <<x, v>> # <<m, u>>
    BY <2>1
  <2> QED
    BY <1>5, <1>6, <2>1
<1> QED
  BY <1>0, <1>1, <1>3, <1>4, <1>5, <1>8, <1>9, <1>10, <1>11, <1>12, <1>13, <1>14, MessageMoves
-----------------------------------------------------------------------------
(* A request begins, apart from those that are under way.                  *)
LEMMA MessageBegins ==
    ASSUME MInv, Apart, NEW r \in Messages!Requests, NEW c \in Writing, Messages!Begin(r, c),
           \/ c.pc = "insert" /\ c.op = "send" /\ c.m = r
           \/ c.pc = "find" /\ c.op # "send" /\ Messages!Sent(c.m)
    PROVE  MInv'
<1>1. /\ MessageShape /\ AloneOn /\ FoundOn(r) /\ mreq[r].pc = "idle"
      /\ UNCHANGED <<message, reaction, cursor, shown>> /\ mreq' = [mreq EXCEPT ![r] = c]
  BY DEF MInv, Messages!Begin, Messages!At, Messages!stored
<1>2. mreq'[r] = c /\ (\A q \in Messages!Requests : q # r => mreq'[q] = mreq[q]) /\ DOMAIN mreq' = Messages!Requests
  BY <1>1 DEF MessageShape
<1>3. MessageShape'
  <2>1. \A q \in Messages!Requests : mreq'[q] \in Writing \cup Written
    BY <1>1, <1>2 DEF MessageShape
  <2> QED
    BY <1>1, <1>2, <2>1 DEF MessageShape
<1>4. AloneOn'
  <2>1. \A q \in Messages!Requests : Messages!Active(q) => ~Messages!Conflict(mreq[q], c)
    BY DEF Messages!Begin
  <2>2. \A q \in Messages!Requests : q # r /\ Messages!Active(q)' => Messages!Active(q) /\ mreq'[q] = mreq[q]
    BY <1>2 DEF Messages!Active
  <2>3. \A p, q \in Messages!Requests : Messages!Conflict(mreq[p], mreq[q]) <=> Messages!Conflict(mreq[q], mreq[p])
    BY DEF Messages!Conflict
  <2>4. \A q \in Messages!Requests : Messages!Active(q) => ~Messages!Conflict(c, mreq[q])
    BY <2>1 DEF Messages!Conflict
  <2> QED
    BY <1>1, <1>2, <2>1, <2>2, <2>4 DEF AloneOn
<1>5. ASSUME NEW x PROVE FailedSend(x) <=> FailedSend(x)'
  BY <1>1, <1>2 DEF FailedSend
<1>6. ASSUME NEW q \in Messages!Requests PROVE FoundOn(q)' /\ ToldSoon(q)'
  <2>1. CASE q = r
    <3>1. message[r] = Messages!NoMessage
      BY <1>1 DEF FoundOn
    <3> QED
      BY <1>1, <1>2, <2>1, <3>1 DEF FoundOn, ToldSoon, MessagePhase, MessagePcs, Messages!Sent
  <2>2. CASE q # r
    <3>1. mreq'[q] = mreq[q] /\ FoundOn(q) /\ ToldSoon(q)
      BY <1>2, <2>2 DEF MInv
    <3>2. FoundOn(q)'
      BY <1>1, <3>1 DEF FoundOn, Messages!Sent, Messages!Deleted
    <3>3. ToldSoon(q)'
      BY <1>1, <1>5, <3>1 DEF ToldSoon
    <3> QED
      BY <3>2, <3>3
  <2> QED
    BY <2>1, <2>2
<1>7. ASSUME NEW q \in Messages!Requests, mreq[q].pc \in {"reread", "emit"} PROVE mreq'[q] = mreq[q]
  BY <1>1, <1>2, <1>7
<1>8. ASSUME NEW x \in Messages!Messages PROVE ToldRow(x)'
  <2>1. ToldRow(x)
    BY DEF MInv
  <2>2. CASE \E q \in Messages!Requests : mreq[q].op \in OnRows /\ mreq[q].pc \in {"reread", "emit"} /\ mreq[q].m = x
    BY <1>7, <2>2 DEF ToldRow
  <2>3. CASE FailedSend(x)
    BY <1>5, <2>3 DEF ToldRow
  <2>4. CASE shown.message[x] = message[x]
    BY <1>1, <2>4 DEF ToldRow
  <2> QED
    BY <2>1, <2>2, <2>3, <2>4 DEF ToldRow
<1>9. ASSUME NEW u \in Users PROVE ToldCursor(u)'
  <2>1. ToldCursor(u)
    BY DEF MInv
  <2> QED
    BY <1>1, <1>7, <2>1 DEF ToldCursor
<1>10. ASSUME NEW x \in Messages!Messages, NEW u \in Users PROVE ToldReaction(x, u)'
  <2>1. ToldReaction(x, u)
    BY DEF MInv
  <2> QED
    BY <1>1, <1>7, <2>1 DEF ToldReaction
<1> QED
  BY <1>3, <1>4, <1>6, <1>8, <1>9, <1>10 DEF MInv

LEMMA CallWrites ==
    ASSUME NEW op \in MessageOps, NEW pc \in MessagePcs, NEW by \in Users, NEW m \in Messages!Messages,
           NEW undo \in BOOLEAN
    PROVE  LET c == Messages!Call(op, pc, by, m, undo) IN
           c \in Writing /\ c.op = op /\ c.pc = pc /\ c.by = by /\ c.m = m
BY RowsAreCopies DEF Messages!Call, Writing

(* Whoever asks for more than a pin is a member.                           *)
LEMMA MessageStarts ==
    ASSUME MInv, Apart, NEW r \in Messages!Requests, Messages!Start(r)
    PROVE  /\ MInv' /\ UNCHANGED <<message, reaction, cursor>>
           /\ mreq[r].pc = "idle" /\ \A q \in Messages!Requests : q # r => mreq'[q] = mreq[q]
           /\ mreq'[r].op # "pin" => Messages!EnsureMember(mreq'[r].by)
<1>1. /\ MessageOps = {"send", "edit", "delete", "pin", "read", "react"} /\ "insert" \in MessagePcs
      /\ "find" \in MessagePcs /\ r \in Messages!Messages
  BY MessageNumbers DEF MessageOps, MessagePcs
<1>2. ASSUME NEW c \in Writing, Messages!Begin(r, c), c.op # "pin" => Messages!EnsureMember(c.by),
             \/ c.pc = "insert" /\ c.op = "send" /\ c.m = r
             \/ c.pc = "find" /\ c.op # "send" /\ Messages!Sent(c.m)
      PROVE  /\ MInv' /\ UNCHANGED <<message, reaction, cursor>>
             /\ mreq[r].pc = "idle" /\ \A q \in Messages!Requests : q # r => mreq'[q] = mreq[q]
             /\ mreq'[r].op # "pin" => Messages!EnsureMember(mreq'[r].by)
  <2>1. mreq'[r] = c /\ mreq[r].pc = "idle" /\ \A q \in Messages!Requests : q # r => mreq'[q] = mreq[q]
    BY <1>2 DEF MInv, MessageShape, Messages!Begin, Messages!At
  <2>2. UNCHANGED <<message, reaction, cursor>>
    BY <1>2 DEF Messages!Begin, Messages!stored
  <2> QED
    BY <1>2, <2>1, <2>2, MessageBegins
<1>3. ASSUME NEW by \in Users, Messages!BeginSend(r, by)
      PROVE  \E c \in Writing :
                /\ Messages!Begin(r, c) /\ (c.op # "pin" => Messages!EnsureMember(c.by))
                /\ c.pc = "insert" /\ c.op = "send" /\ c.m = r
  <2> DEFINE c == Messages!Call("send", "insert", by, r, FALSE)
  <2>1. Messages!EnsureMember(by) /\ Messages!Begin(r, c)
    BY <1>3 DEF Messages!BeginSend
  <2>2. c \in Writing /\ c.op = "send" /\ c.pc = "insert" /\ c.by = by /\ c.m = r
    BY <1>1, RowsAreCopies DEF Messages!Call, Writing
  <2> HIDE DEF c
  <2> QED
    BY <2>1, <2>2
<1>4. ASSUME NEW by \in Users, NEW op \in MessageOps \ {"send"}, NEW m \in Messages!Messages, Messages!Sent(m),
             NEW undo \in BOOLEAN, Messages!BeginOn(r, op, by, m, undo)
      PROVE  \E c \in Writing :
                /\ Messages!Begin(r, c) /\ (c.op # "pin" => Messages!EnsureMember(c.by))
                /\ c.pc = "find" /\ c.op # "send" /\ Messages!Sent(c.m)
  <2> DEFINE c == Messages!Call(op, "find", by, m, undo)
  <2>1. (op # "pin" => Messages!EnsureMember(by)) /\ Messages!Begin(r, c)
    BY <1>4 DEF Messages!BeginOn
  <2>2. c \in Writing /\ c.op = op /\ c.pc = "find" /\ c.by = by /\ c.m = m
    BY <1>1, CallWrites
  <2> HIDE DEF c
  <2> QED
    BY <1>4, <2>1, <2>2
<1>5. PICK by \in Users :
        \/ Messages!BeginSend(r, by)
        \/ \E m \in Messages!Messages, op \in MessageOps \ {"send"}, undo \in BOOLEAN :
              Messages!Sent(m) /\ Messages!BeginOn(r, op, by, m, undo)
  BY <1>1 DEF Messages!Start
<1> QED
  BY <1>2, <1>3, <1>4, <1>5

LEMMA MessageGoes ==
    ASSUME MInv, NEW r \in Messages!Requests, Messages!Continue(r) \/ Messages!Fail(r)
    PROVE  MInv' /\ MMoves(r) /\ mreq[r].pc \in MessagePcs
<1>1. mreq[r].pc \in MessagePcs
  BY DEF Messages!Continue, Messages!Fail, Messages!At, MessagePcs, Messages!InsertMessage, Messages!Reread,
         Messages!FindMessage, Messages!FindRole, Messages!SaveMessage, Messages!FindOwn, Messages!MoveCursor,
         Messages!Toggle, Messages!Emit
<1> QED
  BY <1>1, InsertMessageKeeps, RereadKeeps, FindMessageKeeps, FindRoleKeeps, SaveMessageKeeps, FindOwnKeeps,
     MoveCursorKeeps, ToggleKeeps, EmitKeeps DEF Messages!Continue

LEMMA MessageInitially == ASSUME Messages!Init PROVE MInv
<1>1. Messages!Message(Founder, 0) \in MessageRows
  <2>1. ASSUME NEW w \in Copies
        PROVE  [w EXCEPT !.by = Founder, !.text = 0] \in [by : Users, text : Nat, deletedBy : Whoever, pinnedBy : Whoever]
    BY <2>1, MessageNumbers DEF Copies
  <2> QED
    BY <2>1, RowsAreCopies DEF Messages!Message, MessageRows
<1>2. message \in [Messages!Messages -> MessageRows]
  BY <1>1 DEF Messages!Init, MessageRows
<1>3. cursor \in [Users -> Cursors] /\ reaction \in [Messages!Messages -> [Users -> Nat]]
  BY DEF Messages!Init, Cursors
<1>4. shown = [message |-> message, reacted |-> {}, cursor |-> cursor]
      /\ mreq = [r \in Messages!Requests |-> Messages!Idle]
  BY DEF Messages!Init
<1>5. shown \in Shown
  <2>1. message \in [Messages!Messages -> Copies]
    BY <1>2, RowsAreCopies
  <2> QED
    BY <1>3, <1>4, <2>1 DEF Shown
<1>6. \A r \in Messages!Requests : mreq[r] = Messages!Idle /\ message[r] = Messages!NoMessage
  BY <1>4, MessageNumbers DEF Messages!Init
<1>7. Messages!Idle \in Written /\ Messages!Idle.pc = "idle" /\ Messages!Idle.op = "none"
  BY DEF Messages!Idle, Written
<1>8. MessageShape
  BY <1>2, <1>3, <1>4, <1>5, <1>6, <1>7 DEF MessageShape
<1>9. AloneOn
  BY <1>6, <1>7 DEF AloneOn, Messages!Active
<1>10. \A r \in Messages!Requests : FoundOn(r) /\ ToldSoon(r)
  BY <1>6, <1>7 DEF FoundOn, ToldSoon, MessagePhase, MessagePcs
<1>11. \A m \in Messages!Messages : ToldRow(m)
  BY <1>4 DEF ToldRow
<1>12. \A u \in Users : ToldCursor(u)
  BY <1>4 DEF ToldCursor
<1>13. \A m \in Messages!Messages, u \in Users : ToldReaction(m, u)
  <2>1. shown.reacted = {}
    BY <1>4
  <2>2. \A m \in Messages!Messages, u \in Users : reaction[m][u] = 0
    BY DEF Messages!Init
  <2> QED
    BY <2>1, <2>2 DEF ToldReaction
<1> QED
  BY <1>8, <1>9, <1>10, <1>11, <1>12, <1>13 DEF MInv

LEMMA ChatKeepsMessages == ASSUME MInv, Apart, [ChatNext]_chatvars PROVE MInv'
<1>1. CASE UNCHANGED messagevars
  BY <1>1 DEF messagevars, MInv, MessageShape, AloneOn, FoundOn, ToldSoon, ToldRow, ToldCursor, ToldReaction,
              FailedSend, Messages!Active, Messages!Sent, Messages!Deleted
<1>2. CASE MessageStep
  BY <1>2, MessageStarts, MessageGoes DEF MessageStep
<1> QED
  BY <1>1, <1>2 DEF ChatNext, ChannelStep, chatvars
-----------------------------------------------------------------------------
(* When no request is under way, the sockets hold what is stored, whatever *)
(* requests on other messages interleave: no event is missing or wrong.    *)
THEOREM SocketsAlwaysAgree == ASSUME Apart PROVE ChatSpec => []SocketsAgree
<1>1. ASSUME MInv PROVE SocketsAgree
  <2>1. SUFFICES ASSUME \A r \in Messages!Requests : ~Messages!Active(r)
                 PROVE  /\ \A m \in Messages!Messages :
                             \/ m \in Messages!Started /\ Messages!Op(m, "send") /\ Messages!At(m, "failed")
                             \/ shown.message[m] = message[m]
                        /\ shown.cursor = cursor
                        /\ shown.reacted = {p \in Messages!Messages \X Users : reaction[p[1]][p[2]] # 0}
    BY DEF SocketsAgree, Messages!SocketsAgree
  <2>2. \A r \in Messages!Requests : mreq[r].pc \notin {"reread", "emit"}
    BY <2>1 DEF Messages!Active, Messages!Ended
  <2>3. MessageShape /\ shown.cursor \in [Users -> Cursors]
        /\ shown.reacted \subseteq Messages!Messages \X Users
    BY <1>1 DEF MInv, MessageShape, Shown
  <2>4. ASSUME NEW m \in Messages!Messages
        PROVE  \/ m \in Messages!Started /\ Messages!Op(m, "send") /\ Messages!At(m, "failed")
               \/ shown.message[m] = message[m]
    <3>1. ToldRow(m)
      BY <1>1 DEF MInv
    <3>2. FailedSend(m) => m \in Messages!Started /\ Messages!Op(m, "send") /\ Messages!At(m, "failed")
      BY DEF FailedSend, Messages!Started, Messages!Op, Messages!At
    <3> QED
      BY <2>2, <3>1, <3>2 DEF ToldRow
  <2>5. shown.cursor = cursor
    <3>1. \A u \in Users : shown.cursor[u] = cursor[u]
      BY <1>1, <2>2 DEF MInv, ToldCursor
    <3> QED
      BY <2>3, <3>1 DEF MessageShape
  <2>6. shown.reacted = {p \in Messages!Messages \X Users : reaction[p[1]][p[2]] # 0}
    <3>1. \A m \in Messages!Messages, u \in Users : <<m, u>> \in shown.reacted <=> reaction[m][u] # 0
      BY <1>1, <2>2 DEF MInv, ToldReaction
    <3>2. ASSUME NEW p \in Messages!Messages \X Users
          PROVE  p \in shown.reacted <=> reaction[p[1]][p[2]] # 0
      BY <3>1
    <3> QED
      BY <2>3, <3>2
  <2> QED
    BY <2>4, <2>5, <2>6
<1>2. ChatInit => MInv
  BY MessageInitially DEF ChatInit
<1> QED
  BY <1>1, <1>2, ChatKeepsMessages, PTL DEF ChatSpec

(* What a step of request r does to a row of the table, and to the         *)
(* reactions and cursors: they are its user's.                             *)
Mends(r, x) ==
    LET c   == mreq[r]
        old == message[x]
        new == message'[x]
    IN  \/ new = old
        \/ c.op = "send" /\ old = Messages!NoMessage /\ new.by = c.by /\ new.deletedBy = Nobody
        \/ c.op = "edit" /\ old.by = c.by /\ old.deletedBy = Nobody /\ new.by = old.by /\ new.deletedBy = Nobody
        \/ c.op = "delete" /\ new.by = old.by /\ new.text = old.text /\ new.deletedBy = c.by /\ old.by \in Users
        \/ c.op = "pin" /\ new.by = old.by /\ new.text = old.text /\ new.deletedBy = old.deletedBy

LEMMA MessageEffect ==
    ASSUME MInv, NEW r \in Messages!Requests, Messages!Continue(r) \/ Messages!Fail(r)
    PROVE  /\ \A x \in Messages!Messages : Mends(r, x)
           /\ mreq[r].op = "pin" => UNCHANGED <<reaction, cursor>>
           /\ \A x \in Messages!Messages, v \in Users : v # mreq[r].by => reaction'[x][v] = reaction[x][v]
           /\ \A v \in Users : v # mreq[r].by => cursor'[v] = cursor[v]
<1>1. /\ mreq[r].pc \in MessagePcs /\ MessageShape /\ FoundOn(r) /\ mreq[r] \in Writing
      /\ mreq[r].m \in Messages!Messages /\ mreq[r].by \in Users
  BY MessageGoes, MUnderWay
<1>2. CASE UNCHANGED <<message, reaction, cursor>>
  BY <1>2 DEF Mends
<1>3. CASE Messages!InsertMessage(r)
  <2>1. /\ message' = [message EXCEPT ![r] = Messages!Message(mreq[r].by, r)]
        /\ UNCHANGED <<reaction, cursor>> /\ mreq[r].op = "send" /\ message[r] = Messages!NoMessage
    BY <1>1, <1>3 DEF Messages!InsertMessage, Messages!At, FoundOn, MessagePhase
  <2>2. \A x \in Messages!Messages :
           message'[x] = IF x = r THEN Messages!Message(mreq[r].by, r) ELSE message[x]
    BY <1>1, <2>1 DEF MessageShape
  <2>3. Messages!Message(mreq[r].by, r).by = mreq[r].by /\ Messages!Message(mreq[r].by, r).deletedBy = Nobody
    BY DEF Messages!Message, Messages!NoMessage
  <2> QED
    BY <2>1, <2>2, <2>3 DEF Mends
<1>4. CASE Messages!SaveMessage(r)
  <2> DEFINE new == Messages!Changed(mreq[r], r)
             m == mreq[r].m
  <2>1. mreq[r].pc = "save" /\ message' = [message EXCEPT ![m] = new] /\ UNCHANGED <<reaction, cursor>>
    BY <1>4 DEF Messages!SaveMessage, Messages!At
  <2>2. /\ mreq[r].op \in {"edit", "delete", "pin"} /\ message[m].by \in Users
        /\ new.by = message[m].by
        /\ mreq[r].op = "edit" => new = [message[m] EXCEPT !.text = new.text] /\ message[m].by = mreq[r].by
                                  /\ ~Messages!Deleted(m)
        /\ mreq[r].op = "delete" => new = [message[m] EXCEPT !.deletedBy = new.deletedBy]
                                    /\ new.deletedBy = mreq[r].by
        /\ mreq[r].op = "pin" => new = [message[m] EXCEPT !.pinnedBy = new.pinnedBy]
    BY <2>1, ChangedRow
  <2> HIDE DEF new
  <2>3. ASSUME NEW w
        PROVE  /\ [message[m] EXCEPT !.text = w].deletedBy = message[m].deletedBy
               /\ [message[m] EXCEPT !.deletedBy = w].text = message[m].text
               /\ [message[m] EXCEPT !.pinnedBy = w].text = message[m].text
               /\ [message[m] EXCEPT !.pinnedBy = w].deletedBy = message[m].deletedBy
    <3>1. message[m] \in Copies
      BY <1>1, RowsAreCopies DEF MessageShape
    <3> QED
      BY <3>1 DEF Copies
  <2>4. Mends(r, m)
    <3>1. message'[m] = new
      BY <1>1, <2>1 DEF MessageShape
    <3>2. CASE mreq[r].op = "edit"
      <4>1. message[m].by = mreq[r].by /\ message[m].deletedBy = Nobody /\ new.deletedBy = Nobody
        BY <2>2, <2>3, <3>2 DEF Messages!Deleted
      <4> QED
        BY <2>2, <3>1, <3>2, <4>1 DEF Mends
    <3>3. CASE mreq[r].op = "delete"
      <4>1. new.text = message[m].text /\ new.deletedBy = mreq[r].by
        BY <2>2, <2>3, <3>3
      <4> QED
        BY <2>2, <3>1, <3>3, <4>1 DEF Mends
    <3>4. CASE mreq[r].op = "pin"
      <4>0. PICK w : new = [message[m] EXCEPT !.pinnedBy = w]
        BY <2>2, <3>4
      <4>1. new.text = message[m].text /\ new.deletedBy = message[m].deletedBy
        BY <2>3, <4>0
      <4> QED
        BY <2>2, <3>1, <3>4, <4>1 DEF Mends
    <3> QED
      BY <2>2, <3>2, <3>3, <3>4
  <2>5. \A x \in Messages!Messages : x # m => message'[x] = message[x]
    BY <1>1, <2>1 DEF MessageShape
  <2> QED
    BY <2>1, <2>4, <2>5 DEF Mends
<1>5. CASE Messages!MoveCursor(r)
  <2>1. /\ UNCHANGED <<message, reaction>> /\ mreq[r].op = "read"
        /\ cursor' = cursor \/ cursor' = [cursor EXCEPT ![mreq[r].by] = mreq[r].m]
    BY <1>1, <1>5 DEF Messages!MoveCursor, Messages!At, FoundOn, MessagePhase
  <2> QED
    BY <1>1, <2>1 DEF Mends, MessageShape
<1>6. CASE Messages!Toggle(r)
  <2>1. /\ UNCHANGED <<message, cursor>> /\ mreq[r].op = "react"
        /\ reaction' = reaction \/ \E w : reaction' = [reaction EXCEPT ![mreq[r].m][mreq[r].by] = w]
    BY <1>1, <1>6 DEF Messages!Toggle, Messages!At, FoundOn, MessagePhase
  <2> QED
    BY <1>1, <2>1 DEF Mends, MessageShape
<1>7. CASE Messages!Reread(r) \/ Messages!FindMessage(r) \/ Messages!FindRole(r) \/ Messages!FindOwn(r)
           \/ Messages!Emit(r) \/ Messages!Fail(r)
  BY <1>2, <1>7 DEF Messages!Reread, Messages!FindMessage, Messages!FindRole, Messages!FindOwn, Messages!Emit,
                    Messages!Fail, Messages!stored
<1> QED
  BY <1>3, <1>4, <1>5, <1>6, <1>7 DEF Messages!Continue

(* No step of the chat edits a deleted message or has it listed again,     *)
(* though each saves the whole row that it read some steps before.         *)
THEOREM DeletedStaysSo == ASSUME Apart PROVE ChatSpec => DeletedIsFinal
<1>1. ASSUME MInv, [ChatNext]_chatvars PROVE [Messages!KeepsDeleted]_chatvars
  <2>1. SUFFICES ASSUME NEW m \in Messages!Messages, Messages!Sent(m), m \notin Messages!Listed
                 PROVE  message'[m].text = message[m].text /\ m \notin Messages!Listed'
    BY DEF Messages!KeepsDeleted
  <2>2. message[m].deletedBy # Nobody /\ message[m] # Messages!NoMessage
    BY <2>1 DEF Messages!Listed, Messages!Deleted, Messages!Sent
  <2>3. SUFFICES message'[m].text = message[m].text /\ message'[m].deletedBy # Nobody
    BY DEF Messages!Listed, Messages!Deleted
  <2>4. CASE UNCHANGED message
    BY <2>2, <2>4
  <2>5. ASSUME NEW r \in Messages!Requests, Messages!Continue(r) \/ Messages!Fail(r)
        PROVE  message'[m].text = message[m].text /\ message'[m].deletedBy # Nobody
    <3>1. Mends(r, m) /\ mreq[r].by \in Users
      BY <1>1, <2>5, MessageEffect, MessageGoes, MUnderWay
    <3> QED
      BY <2>2, <3>1, MessageNumbers DEF Mends
  <2>6. ASSUME NEW r \in Messages!Requests, Messages!Start(r) PROVE UNCHANGED message
    BY <2>6 DEF Messages!Start, Messages!BeginSend, Messages!BeginOn, Messages!Begin, Messages!stored
  <2> QED
    BY <1>1, <2>4, <2>5, <2>6 DEF ChatNext, ChannelStep, MessageStep, chatvars, messagevars
<1>2. ChatInit => MInv
  BY MessageInitially DEF ChatInit
<1> QED
  BY <1>1, <1>2, ChatKeepsMessages, PTL DEF ChatSpec, DeletedIsFinal

(* Who is out is no member and has nothing under way but pins, which are   *)
(* not for members only.                                                   *)
Outside == \A u \in out :
    /\ u \in Gone
    /\ \A r \in Messages!Requests : mreq[r].pc \in MessagePcs /\ mreq[r].by = u => mreq[r].op = "pin"

LEMMA OutsideStays == ASSUME MInv, Apart, Outside, [ChatNext]_chatvars PROVE Outside'
<1>1. CASE ChannelStep
  <2>1. SUFFICES ASSUME NEW u \in Gone', u \in out \cup (Users \ Busy), NEW r \in Messages!Requests,
                        mreq[r].pc \in MessagePcs, mreq[r].by = u
                 PROVE  mreq[r].op = "pin"
    <3>1. out' = Gone' \cap (out \cup (Users \ Busy)) /\ mreq' = mreq
      BY <1>1 DEF ChannelStep, messagevars
    <3> QED
      BY <3>1 DEF Outside
  <2>2. u \in Busy
    BY <2>1 DEF Busy, Messages!Active, Messages!Ended, MessagePcs
  <2> QED
    BY <2>1, <2>2 DEF Outside
<1>2. CASE MessageStep
  <2>1. out' = out /\ Gone' = Gone
    BY <1>2 DEF MessageStep, channelvars, Gone, Channels!Belongs
  <2>2. SUFFICES ASSUME NEW u \in out, NEW q \in Messages!Requests, mreq'[q].pc \in MessagePcs, mreq'[q].by = u
                 PROVE  mreq'[q].op = "pin"
    BY <2>1 DEF Outside
  <2>3. u \in Gone
    BY DEF Outside
  <2>4. CASE mreq'[q] = mreq[q]
    BY <2>2, <2>4 DEF Outside
  <2>5. ASSUME NEW r \in Messages!Requests, Messages!Start(r), q = r PROVE mreq'[q].op = "pin"
    <3>1. mreq'[q].op # "pin" => Messages!EnsureMember(u)
      BY <2>2, <2>5, MessageStarts
    <3>2. ~Messages!EnsureMember(u)
      BY <2>3 DEF Gone, Channels!Belongs, Messages!EnsureMember, RoleInChannel, Channels!NoMember
    <3> QED
      BY <3>1, <3>2
  <2>6. ASSUME NEW r \in Messages!Requests, Messages!Continue(r) \/ Messages!Fail(r), q = r
        PROVE  mreq'[q].op = "pin"
    BY <2>2, <2>6, MessageGoes DEF MMoves, Outside
  <2>7. ASSUME NEW r \in Messages!Requests, Messages!Start(r) \/ Messages!Continue(r) \/ Messages!Fail(r), q # r
        PROVE  mreq'[q] = mreq[q]
    BY <2>7, MessageStarts, MessageGoes DEF MMoves
  <2> QED
    BY <1>2, <2>4, <2>5, <2>6, <2>7 DEF MessageStep
<1>3. CASE UNCHANGED chatvars
  BY <1>3 DEF chatvars, channelvars, messagevars, Outside, Gone, Channels!Belongs
<1> QED
  BY <1>1, <1>2, <1>3 DEF ChatNext

LEMMA NoTraces ==
    ASSUME NEW u \in Users,
           \A x \in Messages!Messages :
              /\ message'[x].by = u <=> message[x].by = u
              /\ message[x].by = u => message'[x].text = message[x].text
              /\ message'[x].deletedBy = u => message[x].deletedBy = u
              /\ reaction'[x][u] = reaction[x][u],
           cursor'[u] = cursor[u]
    PROVE  Messages!AddsNothing(u)
<1> DEFINE T == {<<m, message[m].text>> : m \in {n \in Messages!Messages : message[n].by = u}}
           D == {m \in Messages!Messages : message[m].deletedBy = u}
           E == {m \in Messages!Messages : message'[m].deletedBy = u}
           R == {m \in Messages!Messages : reaction[m][u] # 0}
<1>1. Messages!Traces(u) = [texts |-> T, deleted |-> D, reacted |-> R, read |-> cursor[u]]
  BY DEF Messages!Traces
<1>2. Messages!Traces(u)' = [texts |-> T, deleted |-> E, reacted |-> R, read |-> cursor[u]]
  <2>1. {<<m, message'[m].text>> : m \in {n \in Messages!Messages : message'[n].by = u}} = T
    OBVIOUS
  <2>2. {m \in Messages!Messages : reaction'[m][u] # 0} = R
    OBVIOUS
  <2> QED
    BY <2>1, <2>2, Zenon DEF Messages!Traces
<1>3. E \subseteq D
  OBVIOUS
<1> HIDE DEF T, D, E, R
<1>4. PICK t : t = Messages!Traces(u)
  OBVIOUS
<1>5. Messages!Traces(u)' = [t EXCEPT !.deleted = E] /\ Messages!Traces(u)'.deleted = E /\ t.deleted = D
  BY <1>1, <1>2, <1>4
<1> QED
  BY <1>3, <1>4, <1>5 DEF Messages!AddsNothing

(* A user who has been removed while he had nothing under way leaves no    *)
(* trace any more: he is no member of what he asks for later, and what     *)
(* others do is theirs.                                                    *)
THEOREM RemovedStaySilent == ASSUME Apart PROVE ChatSpec => RemovedAreSilent
<1>1. ASSUME MInv, Outside, [ChatNext]_chatvars, NEW u \in out PROVE Messages!AddsNothing(u)
  <2>1. u \in Users /\ u # Nobody
    BY <1>1, MessageNumbers DEF Outside, Gone
  <2>2. CASE UNCHANGED <<message, reaction, cursor>>
    BY <2>1, <2>2, NoTraces
  <2>3. ASSUME NEW r \in Messages!Requests, Messages!Continue(r) \/ Messages!Fail(r)
        PROVE  Messages!AddsNothing(u)
    <3>1. mreq[r].by # u \/ mreq[r].op = "pin"
      BY <1>1, <2>3, MessageGoes DEF Outside
    <3>2. /\ \A x \in Messages!Messages : Mends(r, x)
          /\ \A x \in Messages!Messages : reaction'[x][u] = reaction[x][u]
          /\ cursor'[u] = cursor[u]
      BY <1>1, <2>1, <2>3, <3>1, MessageEffect
    <3>3. ASSUME NEW x \in Messages!Messages
          PROVE  /\ message'[x].by = u <=> message[x].by = u
                 /\ message[x].by = u => message'[x].text = message[x].text
                 /\ message'[x].deletedBy = u => message[x].deletedBy = u
      <4>1. Messages!NoMessage.by = Nobody
        BY DEF Messages!NoMessage
      <4> QED
        BY <2>1, <3>1, <3>2, <4>1 DEF Mends
    <3> QED
      BY <2>1, <3>2, <3>3, NoTraces
  <2>4. ASSUME NEW r \in Messages!Requests, Messages!Start(r) PROVE UNCHANGED <<message, reaction, cursor>>
    BY <2>4 DEF Messages!Start, Messages!BeginSend, Messages!BeginOn, Messages!Begin, Messages!stored
  <2> QED
    BY <1>1, <2>2, <2>3, <2>4 DEF ChatNext, ChannelStep, MessageStep, chatvars, messagevars
<1>2. MInv /\ Outside /\ [ChatNext]_chatvars => [\A u \in out : Messages!AddsNothing(u)]_chatvars
  BY <1>1
<1>3. ChatInit => MInv /\ Outside
  BY MessageInitially DEF ChatInit, Outside
<1>4. MInv /\ Outside /\ [ChatNext]_chatvars => MInv' /\ Outside'
  BY ChatKeepsMessages, OutsideStays
<1> QED
  BY <1>2, <1>3, <1>4, PTL DEF ChatSpec, RemovedAreSilent
=============================================================================
