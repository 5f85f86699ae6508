---------------------------- MODULE ChatChannels ----------------------------
(***************************************************************************)
(* Chat channels and their members (the channel half of ChatService).  A   *)
(* group channel has an admin, who made it; a direct channel belongs to    *)
(* two users and is looked up before it is made.  The channels of rooms    *)
(* are made and emptied by RoomMembers.                                    *)
(*                                                                         *)
(* A channel has the number of the request that made it.  Channel 0 is a   *)
(* group of all users that is there from the start.  A members row is      *)
(* known by the request that inserted it; (channel, user) is unique.       *)
(*                                                                         *)
(* The operators named Slip... are wrong variants of the definition that   *)
(* follows them; no action uses them.                                      *)
(***************************************************************************)
EXTENDS Naturals, FiniteSets

CONSTANTS
    Users,
    Founder,     \* admin of channel 0
    Lists,       \* sets of users that a request names as members
    MaxRequests, \* bound: requests on channels
    Apart        \* two requests that name one pair of users do not overlap

ChannelAssumption ==
    /\ IsFiniteSet(Users) /\ Founder \in Users
    /\ Lists \subseteq SUBSET Users
    /\ MaxRequests \in Nat
    /\ Apart \in BOOLEAN

VARIABLES
    kind,   \* type of each channel: "none", "direct", "group"
    member, \* rows: member[c][u]
    creq    \* what each request on channels is doing

channelvars == <<kind, member, creq>>

Requests == 1..MaxRequests
Channels == 0..MaxRequests
NoMember == [type |-> "none", row |-> 0]
Member(type, r) == [type |-> type, row |-> r]

Belongs(c, u) == member[c][u] # NoMember
IsAdmin(c, u) == member[c][u].type = "admin"

(* Who asks, whom the request names, the channel, and what is still to do: *)
(* channels to look at, or users to add.                                   *)
Idle == [op |-> "none", pc |-> "idle"]
Call(op, pc, by, on, c, todo) ==
    [op |-> op, pc |-> pc, by |-> by, on |-> on, c |-> c, todo |-> todo]

At(r, pc) == creq[r].pc = pc
Ended     == {"ok", "failed"}
Active(r) == creq[r].pc \notin Ended \cup {"idle"}
Started   == {r \in Requests : ~At(r, "idle")}

(* Of a request that has ended it is known whom it named, and where.       *)
End(r, c) == creq' = [creq EXCEPT ![r] =
    [op |-> @.op, pc |-> "ok", by |-> @.by, on |-> @.on, c |-> c]]
Goto(r, pc) ==
    IF pc = "ok" THEN End(r, creq[r].c)
    ELSE creq' = [creq EXCEPT ![r] = IF pc = "failed" THEN [op |-> @.op, pc |-> pc]
                                     ELSE [@ EXCEPT !.pc = pc]]

Init ==
    /\ kind = [c \in Channels |-> IF c = 0 THEN "group" ELSE "none"]
    /\ member = [c \in Channels |-> [u \in Users |->
         IF c # 0 THEN NoMember
         ELSE Member(IF u = Founder THEN "admin" ELSE "member", 0)]]
    /\ creq = [r \in Requests |-> Idle]

People(c) == {c.by} \cup c.on

Begin(r, c) ==
    /\ At(r, "idle")
    /\ \A q \in 1..(r - 1) : ~At(q, "idle")
    /\ Apart => \A q \in Requests : Active(q) => People(creq[q]) \cap c.on = {}
    /\ creq' = [creq EXCEPT ![r] = c]
    /\ UNCHANGED <<kind, member>>

-----------------------------------------------------------------------------
(* createChannel.                                                          *)

BeginDirect(r, by, other) ==
    /\ by # other
    /\ Begin(r, Call("direct", "find", by, {other}, r, {}))

(* findDirectChannel: the channels of one user, of them the direct ones... *)
SlipFindDirect(r) ==       \* only those that the user has made himself
    /\ At(r, "find")
    /\ creq' = [creq EXCEPT ![r].pc = "count",
                  ![r].todo = {c \in Requests : kind[c] = "direct" /\ Belongs(c, creq[r].by)
                                                /\ creq[c].by = creq[r].by}]
    /\ UNCHANGED <<kind, member>>

FindDirect(r) ==
    /\ At(r, "find")
    /\ creq' = [creq EXCEPT ![r].pc = "count",
                  ![r].todo = {c \in Channels : kind[c] = "direct" /\ Belongs(c, creq[r].by)}]
    /\ UNCHANGED <<kind, member>>

(* ... and the first one that both of them are in.                         *)
SlipCountBoth(r) ==        \* the other user is not counted
    /\ At(r, "count")
    /\ \/ /\ creq[r].todo = {}
          /\ Goto(r, "save")
       \/ \E c \in creq[r].todo :
             IF Belongs(c, creq[r].by)
               THEN End(r, c)
               ELSE creq' = [creq EXCEPT ![r].todo = @ \ {c}]
    /\ UNCHANGED <<kind, member>>

CountBoth(r) ==
    /\ At(r, "count")
    /\ \/ /\ creq[r].todo = {}
          /\ Goto(r, "save")
       \/ \E c \in creq[r].todo :
             IF \A u \in People(creq[r]) : Belongs(c, u)
               THEN End(r, c)
               ELSE creq' = [creq EXCEPT ![r].todo = @ \ {c}]
    /\ UNCHANGED <<kind, member>>

(* A group may name its maker among its members.                           *)
BeginGroup(r, by, others) == Begin(r, Call("group", "save", by, others, r, {}))

SaveChannel(r) ==
    /\ At(r, "save")
    /\ kind' = [kind EXCEPT ![r] = creq[r].op]
    /\ Goto(r, "members")
    /\ UNCHANGED member

(* One save of all members: all rows or none, and none if a user is twice  *)
(* among them.  The channel stays.                                         *)
DirectRows(r) ==
    [u \in Users |-> IF u \in People(creq[r]) THEN Member("member", r) ELSE NoMember]

GroupRows(r) ==
    [DirectRows(r) EXCEPT ![creq[r].by] = Member("admin", r)]

SaveMembers(r) ==
    /\ At(r, "members")
    /\ IF creq[r].by \in creq[r].on
         THEN /\ Goto(r, "failed")
              /\ UNCHANGED member
         ELSE /\ member' = [member EXCEPT ![r] =
                               IF creq[r].op = "group" THEN GroupRows(r) ELSE DirectRows(r)]
              /\ Goto(r, "ok")
    /\ UNCHANGED kind

-----------------------------------------------------------------------------
(* addMembers, with ensureMember as its first read.                        *)
BeginAdd(r, by, c, others) ==
    /\ IsAdmin(c, by)
    /\ Begin(r, Call("add", "kind", by, others, c, {}))

AddFind(r) ==
    /\ At(r, "kind")
    /\ IF kind[creq[r].c] # "group"
         THEN Goto(r, "failed")
         ELSE creq' = [creq EXCEPT ![r].pc = "insert",
                         ![r].todo = {u \in creq[r].on : ~Belongs(creq[r].c, u)}]
    /\ UNCHANGED <<kind, member>>

(* One row after the other; a row that is there by now refuses the rest.   *)
AddInsert(r) ==
    /\ At(r, "insert")
    /\ \/ /\ creq[r].todo = {}
          /\ Goto(r, "ok")
          /\ UNCHANGED member
       \/ \E u \in creq[r].todo :
             IF Belongs(creq[r].c, u)
               THEN /\ Goto(r, "failed")
                    /\ UNCHANGED member
               ELSE /\ member' = [member EXCEPT ![creq[r].c][u] = Member("member", r)]
                    /\ creq' = [creq EXCEPT ![r].todo = @ \ {u}]
    /\ UNCHANGED kind

(* removeMember: anyone may leave, an admin may remove others.             *)
BeginRemove(r, by, c, target) ==
    /\ Belongs(c, by)
    /\ target # by => IsAdmin(c, by)
    /\ Begin(r, Call("remove", "target", by, {target}, c, {}))

RemoveFind(r) ==
    /\ At(r, "target")
    /\ LET rows == {member[creq[r].c][u] : u \in creq[r].on}
       IN  IF NoMember \in rows THEN Goto(r, "failed")
           ELSE creq' = [creq EXCEPT ![r].pc = "delete", ![r].todo = rows]
    /\ UNCHANGED <<kind, member>>

(* The row that was found, not one that was inserted since.                *)
RemoveRow(r) ==
    /\ At(r, "delete")
    /\ member' = [member EXCEPT ![creq[r].c] = [u \in Users |->
                    IF u \in creq[r].on /\ @[u] \in creq[r].todo THEN NoMember ELSE @[u]]]
    /\ Goto(r, "ok")
    /\ UNCHANGED kind

(* A call to the database fails.  Before the first write it is as if the   *)
(* request had not been made.                                              *)
Fail(r) ==
    /\ At(r, "members") \/ At(r, "insert")
    /\ Goto(r, "failed")
    /\ UNCHANGED <<kind, member>>

Start(r) == \E by \in Users :
    \/ \E other \in Users : BeginDirect(r, by, other)
    \/ \E others \in Lists : BeginGroup(r, by, others)
    \/ \E c \in Channels :
          \/ \E others \in Lists : BeginAdd(r, by, c, others)
          \/ \E u \in Users : BeginRemove(r, by, c, u)

Continue(r) ==
    \/ FindDirect(r) \/ CountBoth(r) \/ SaveChannel(r) \/ SaveMembers(r)
    \/ AddFind(r) \/ AddInsert(r) \/ RemoveFind(r) \/ RemoveRow(r)

Next == \E r \in Requests : Start(r) \/ Continue(r) \/ Fail(r)

Spec == Init /\ [][Next]_channelvars

-----------------------------------------------------------------------------
(* Two users share at most one direct channel: findDirectChannel runs      *)
(* before createChannel, and no index helps it.                            *)
Shared(u, v) == {c \in Channels : kind[c] = "direct" /\ Belongs(c, u) /\ Belongs(c, v)}

OneDirectEach ==
    \A u, v \in Users : u # v => Cardinality(Shared(u, v)) <= 1

(* A request for a direct channel that was answered well names a channel   *)
(* of exactly the two users, until one of them leaves it.                  *)
Left(c) == \E r \in Started :
    creq[r].op = "remove" /\ ~At(r, "failed") /\ creq[r].c = c

DirectIsOfBoth ==
    \A r \in Started : creq[r].op = "direct" /\ At(r, "ok") /\ ~Left(creq[r].c)
        => {u \in Users : Belongs(creq[r].c, u)} = People(creq[r])
=============================================================================
