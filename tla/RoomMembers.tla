----------------------------- MODULE RoomMembers -----------------------------
(***************************************************************************)
(* The members of a room.  The room itself is a document of the file       *)
(* service; who may use it are permission rows in Postgres; who may write  *)
(* in its chat are rows of the chat channel; and the room document counts  *)
(* its participants.  RoomService of main-app keeps the four in step by    *)
(* calling one after the other, undoing what it did when a later call      *)
(* fails.                                                                  *)
(*                                                                         *)
(* Requests are numbered as they arrive; request 0 makes the room, and the *)
(* permission row that a request inserts has its number.  A request that   *)
(* names several users treats one after the other; here it names one.      *)
(*                                                                         *)
(* The operators named Slip... are wrong variants of the definition that   *)
(* follows them; no action uses them.                                      *)
(***************************************************************************)
EXTENDS Naturals, Sequences, FiniteSets

CONSTANTS
    Users,
    Creator,
    Roles,       \* roles that users ask for, of "admin", "write" and "read"
    MaxRequests, \* bound: requests after the one that makes the room
    Apart        \* requests on one user do not overlap

ASSUME MemberAssumption ==
    /\ IsFiniteSet(Users) /\ Creator \in Users /\ "none" \notin Users
    /\ Roles \subseteq {"admin", "write", "read"}
    /\ MaxRequests \in Nat
    /\ Apart \in BOOLEAN

VARIABLES
    room,    \* the Room document: "none", "bare", "bound" to its channel
    count,   \* its participants
    channel, \* whether the chat channel is there
    member,  \* memberType of each user in the channel
    rows,    \* permission rows for the room
    counts,  \* participants counts on their way to the file service
    overlap, \* history: two requests were under way at once
    req      \* what each request is doing

chatvars == <<channel, member>>
roomvars == <<room, count, counts>>
vars     == <<roomvars, chatvars, rows, overlap, req>>

Requests == 0..MaxRequests
NoRow    == [user |-> "none", role |-> "none"]
Row(u, role) == [user |-> u, role |-> role]

(* Who acts on whom, with which role; the row found, whether the user had  *)
(* it before, and the number of participants.  Of a request that has done  *)
(* with permissions and chat its kind and whom it named are kept.          *)
Idle == [op |-> "none", pc |-> "idle"]
Call(op, pc, by, on, role) ==
    [op |-> op, pc |-> pc, by |-> by, on |-> on, role |-> role,
     id |-> 0, again |-> FALSE]

At(r, pc)   == req[r].pc = pc
Op(r, op)   == req[r].op = op
Undone      == {"undone", "leftRoom", "leftChannel", "leftBoth"}
Ended       == {"ok", "failed", "stopped"} \cup Undone
Active(r)   == req[r].pc \notin Ended \cup {"idle"}

Goto(r, pc) ==
    req' = [req EXCEPT ![r] =
              IF pc \in Ended \cup {"recount"}
                THEN [op |-> @.op, pc |-> pc, on |-> @.on, again |-> @.again]
                ELSE [@ EXCEPT !.pc = pc]]

Send(r, n) ==
    req' = [req EXCEPT ![r] =
              [op |-> @.op, pc |-> "emit", on |-> @.on, again |-> @.again, n |-> n]]

RowsOf(u)    == {i \in Requests : rows[i].user = u}
MayAct(u)    == \E i \in RowsOf(u) : rows[i].role \in {"admin", "write"}
Participants == {i \in Requests : rows[i] # NoRow}

Init ==
    /\ room = "none" /\ count = 0
    /\ channel = FALSE
    /\ member = [u \in Users |-> "none"]
    /\ rows = [i \in Requests |-> NoRow]
    /\ counts = <<>>
    /\ overlap = FALSE
    /\ req = [r \in Requests |-> IF r = 0 THEN Call("create", "room", Creator, Creator, "admin")
                                          ELSE Idle]

-----------------------------------------------------------------------------
(* createRoom.                                                             *)

MakeRoom(r) ==
    /\ At(r, "room")
    /\ room' = "bare"
    /\ Goto(r, "channel")
    /\ UNCHANGED <<count, counts, chatvars, rows, overlap>>

(* The channel and its owner are inserted in one transaction.              *)
MakeChannel(r) ==
    /\ At(r, "channel")
    /\ channel' = TRUE
    /\ member' = [member EXCEPT ![Creator] = "admin"]
    /\ Goto(r, "bind")
    /\ UNCHANGED <<roomvars, rows, overlap>>

BindChannel(r) ==
    /\ At(r, "bind")
    /\ room' = "bound"
    /\ Goto(r, "permit")
    /\ UNCHANGED <<count, counts, chatvars, rows, overlap>>

PermitCreator(r) ==
    /\ At(r, "permit")
    /\ rows' = [rows EXCEPT ![r] = Row(Creator, "admin")]
    /\ Send(r, 1)
    /\ UNCHANGED <<roomvars, chatvars, overlap>>

SlipCreateFails(r) ==      \* forgets the channel
    /\ req[r].pc \in {"channel", "bind", "permit"}
    /\ Goto(r, "dropRoom")
    /\ UNCHANGED <<roomvars, chatvars, rows, overlap>>

CreateFails(r) ==
    \/ /\ At(r, "room")
       /\ Goto(r, "failed")
       /\ UNCHANGED <<roomvars, chatvars, rows, overlap>>
    \/ /\ req[r].pc \in {"channel", "bind", "permit"}
       /\ Goto(r, IF channel THEN "dropChannel" ELSE "dropRoom")
       /\ UNCHANGED <<roomvars, chatvars, rows, overlap>>

(* A failure of what undoes is swallowed, and the next is undone.          *)
DropChannel(r) ==
    /\ At(r, "dropChannel")
    /\ \/ /\ channel' = FALSE
          /\ member' = [u \in Users |-> "none"]
          /\ Goto(r, "dropRoom")
       \/ Goto(r, "dropRoomOnly") /\ UNCHANGED chatvars
    /\ UNCHANGED <<roomvars, rows, overlap>>

(* A call without an answer may have deleted the room.                     *)
DropRoom(r) ==
    /\ req[r].pc \in {"dropRoom", "dropRoomOnly"}
    /\ \/ /\ room' = "none"
          /\ Goto(r, IF At(r, "dropRoom") THEN "undone" ELSE "leftChannel")
       \/ /\ room' \in {room, "none"}
          /\ Goto(r, IF At(r, "dropRoom") THEN "leftRoom" ELSE "leftBoth")
    /\ UNCHANGED <<count, counts, chatvars, rows, overlap>>

-----------------------------------------------------------------------------
(* addUsersToRoom, removeUsersFromRoom, the endpoints that grant and       *)
(* revoke permissions directly, and those of the chat, for which a room's  *)
(* channel is a channel like any other.                                    *)

Begin(r, c) ==
    /\ r > 0 /\ At(r, "idle")
    /\ \A q \in 0..(r - 1) : ~At(q, "idle")
    /\ Apart => \A q \in 1..(r - 1) : Active(q) => req[q].on # c.on
    /\ req' = [req EXCEPT ![r] = c]
    /\ overlap' = (overlap \/ \E q \in Requests : Active(q))
    /\ UNCHANGED <<roomvars, chatvars, rows>>

(* The acting user's role is read, then the room.  No user becomes an      *)
(* admin by being added.                                                   *)
BeginAdd(r, by, on, role) ==
    /\ MayAct(by) /\ room = "bound" /\ role # "admin"
    /\ Begin(r, Call("add", "grant", by, on, role))

BeginRemove(r, by, on) ==
    /\ MayAct(by) /\ room = "bound"
    /\ Begin(r, Call("remove", "check", by, on, "read"))

BeginGrant(r, by, on, role) ==
    MayAct(by) /\ Begin(r, Call("grant", "grant", by, on, role))

BeginRevoke(r, by, on) ==
    MayAct(by) /\ Begin(r, Call("revoke", "revoke", by, on, "read"))

(* In the chat the acting user's own membership is read, nothing of the    *)
(* room: an admin of the channel adds members, and takes out any; a member *)
(* takes out himself, whose row is read with it.                           *)
BeginInvite(r, by, on) ==
    /\ member[by] = "admin"
    /\ Begin(r, Call("invite", "inviteFind", by, on, "read"))

BeginExpel(r, by, on) ==
    /\ member[on] # "none"
    /\ member[by] = "admin" \/ (member[by] = "member" /\ by = on)
    /\ Begin(r, Call("expel", "expelDelete", by, on, "read"))

-----------------------------------------------------------------------------
(* grantPermission and revokePermission: both look up the acting user, who *)
(* must not be the target, and a row of the target.                        *)

MayModify(r) == MayAct(req[r].by) /\ req[r].by # req[r].on

GrantFind(r) ==
    /\ At(r, "grant")
    /\ \/ /\ ~MayModify(r)
          /\ Goto(r, "failed")
       \/ /\ MayModify(r) /\ RowsOf(req[r].on) = {}
          /\ req' = [req EXCEPT ![r].pc = "save", ![r].id = r]
       \/ /\ MayModify(r)
          /\ \E i \in RowsOf(req[r].on) :
                req' = [req EXCEPT ![r].pc = "save", ![r].id = i, ![r].again = TRUE]
    /\ UNCHANGED <<roomvars, chatvars, rows, overlap>>

SlipGrantSave(r) ==        \* inserts a row also when one was found
    /\ At(r, "save")
    /\ rows' = [rows EXCEPT ![r] = Row(req[r].on, req[r].role)]
    /\ Goto(r, IF Op(r, "add") THEN "chatFind" ELSE "ok")
    /\ UNCHANGED <<roomvars, chatvars, overlap>>

(* save inserts the row, with its id, if it is no longer there.            *)
GrantSave(r) ==
    /\ At(r, "save")
    /\ rows' = [rows EXCEPT ![req[r].id] = Row(req[r].on, req[r].role)]
    /\ Goto(r, IF Op(r, "add") THEN "chatFind" ELSE "ok")
    /\ UNCHANGED <<roomvars, chatvars, overlap>>

RevokeFind(r) ==
    /\ At(r, "revoke")
    /\ \/ /\ ~MayModify(r) \/ RowsOf(req[r].on) = {}
          /\ Goto(r, "failed")
       \/ /\ MayModify(r)
          /\ \E i \in RowsOf(req[r].on) : req' = [req EXCEPT ![r].pc = "delete", ![r].id = i]
    /\ UNCHANGED <<roomvars, chatvars, rows, overlap>>

RevokeDelete(r) ==
    /\ At(r, "delete")
    /\ rows' = [rows EXCEPT ![req[r].id] = NoRow]
    /\ Goto(r, CASE Op(r, "add") -> "failed" [] Op(r, "remove") -> "recount" [] OTHER -> "ok")
    /\ UNCHANGED <<roomvars, chatvars, overlap>>

-----------------------------------------------------------------------------
(* The chat.  A failure while a user is added revokes the permission.      *)

ChatFind(r) ==
    /\ At(r, "chatFind")
    /\ Goto(r, CASE ~channel -> "revoke"
                 [] channel /\ member[req[r].on] # "none" -> "recount"
                 [] OTHER -> "chatInsert")
    /\ UNCHANGED <<roomvars, chatvars, rows, overlap>>

(* The members of a channel are unique.                                    *)
ChatInsert(r) ==
    /\ At(r, "chatInsert")
    /\ IF member[req[r].on] = "none"
         THEN /\ member' = [member EXCEPT ![req[r].on] = "member"]
              /\ Goto(r, "recount")
         ELSE /\ Goto(r, "revoke")
              /\ UNCHANGED member
    /\ UNCHANGED <<roomvars, channel, rows, overlap>>

ChatFails(r) ==
    /\ req[r].pc \in {"chatFind", "chatInsert"}
    /\ Goto(r, "revoke")
    /\ UNCHANGED <<roomvars, chatvars, rows, overlap>>

(* An admin is not removed, nor does anyone else remove himself.           *)
RemoveCheck(r) ==
    /\ At(r, "check")
    /\ \/ /\ RowsOf(req[r].on) = {} \/ req[r].by = req[r].on
          /\ Goto(r, "failed")
       \/ \E i \in RowsOf(req[r].on) :
             Goto(r, IF rows[i].role = "admin" \/ req[r].by = req[r].on
                       THEN "failed" ELSE "chatDelete")
    /\ UNCHANGED <<roomvars, chatvars, rows, overlap>>

SlipChatDelete(r) ==       \* leaves the member in the channel
    /\ At(r, "chatDelete")
    /\ Goto(r, "revoke")
    /\ UNCHANGED <<roomvars, chatvars, rows, overlap>>

SlipRevokeAfter(r) ==      \* leaves the permission
    /\ At(r, "chatDelete")
    /\ member' = [member EXCEPT ![req[r].on] = IF @ = "member" THEN "none" ELSE @]
    /\ Goto(r, "recount")
    /\ UNCHANGED <<roomvars, channel, rows, overlap>>

ChatDelete(r) ==
    /\ At(r, "chatDelete")
    /\ member' = [member EXCEPT ![req[r].on] = IF @ = "member" THEN "none" ELSE @]
    /\ Goto(r, "revoke")
    /\ UNCHANGED <<roomvars, channel, rows, overlap>>

(* addMembers and removeMember, the chat's own.  No permission is asked    *)
(* for or written, and the number of participants is left alone.           *)
InviteFind(r) ==
    /\ At(r, "inviteFind")
    /\ Goto(r, CASE ~channel -> "failed"
                 [] channel /\ member[req[r].on] # "none" -> "ok"
                 [] OTHER -> "inviteInsert")
    /\ UNCHANGED <<roomvars, chatvars, rows, overlap>>

InviteInsert(r) ==
    /\ At(r, "inviteInsert")
    /\ IF channel /\ member[req[r].on] = "none"
         THEN /\ member' = [member EXCEPT ![req[r].on] = "member"]
              /\ Goto(r, "ok")
         ELSE /\ Goto(r, "failed")
              /\ UNCHANGED member
    /\ UNCHANGED <<roomvars, channel, rows, overlap>>

ExpelDelete(r) ==
    /\ At(r, "expelDelete")
    /\ member' = [member EXCEPT ![req[r].on] = "none"]
    /\ Goto(r, "ok")
    /\ UNCHANGED <<roomvars, channel, rows, overlap>>

-----------------------------------------------------------------------------
(* The participants are counted by their permissions, and the number is    *)
(* sent without waiting for an answer.                                     *)

SlipRecount(r) ==          \* counts the members of the chat
    /\ At(r, "recount")
    /\ Send(r, Cardinality({u \in Users : member[u] = "member"}))
    /\ UNCHANGED <<roomvars, chatvars, rows, overlap>>

Recount(r) ==
    /\ At(r, "recount")
    /\ Send(r, Cardinality(Participants))
    /\ UNCHANGED <<roomvars, chatvars, rows, overlap>>

Emit(r) ==
    /\ At(r, "emit")
    /\ counts' = Append(counts, req[r].n)
    /\ Goto(r, "ok")
    /\ UNCHANGED <<room, count, chatvars, rows, overlap>>

UpdateParticipantsCount ==
    /\ counts # <<>>
    /\ count' = IF room = "none" THEN count ELSE Head(counts)
    /\ counts' = Tail(counts)
    /\ UNCHANGED <<room, chatvars, rows, overlap, req>>

-----------------------------------------------------------------------------
(* A room is deleted in the file service alone.                            *)
DeleteRoom ==
    /\ \E u \in Users : MayAct(u)
    /\ room = "bound"
    /\ room' = "none"
    /\ UNCHANGED <<count, counts, chatvars, rows, overlap, req>>

(* A call that is not undone fails, or main-app stops.                     *)
Stop(r) ==
    /\ Active(r)
    /\ Goto(r, "stopped")
    /\ UNCHANGED <<roomvars, chatvars, rows, overlap>>

Create(r) == MakeRoom(r) \/ MakeChannel(r) \/ BindChannel(r) \/ PermitCreator(r)
             \/ CreateFails(r) \/ DropChannel(r) \/ DropRoom(r)

Start(r) == At(r, "idle") /\ \E by, on \in Users :
    \/ \E role \in Roles : BeginAdd(r, by, on, role) \/ BeginGrant(r, by, on, role)
    \/ BeginRemove(r, by, on) \/ BeginRevoke(r, by, on)
    \/ BeginInvite(r, by, on) \/ BeginExpel(r, by, on)

Continue(r) ==
    \/ GrantFind(r) \/ GrantSave(r) \/ RevokeFind(r) \/ RevokeDelete(r)
    \/ ChatFind(r) \/ ChatInsert(r) \/ ChatFails(r) \/ RemoveCheck(r) \/ ChatDelete(r)
    \/ InviteFind(r) \/ InviteInsert(r) \/ ExpelDelete(r)
    \/ Recount(r) \/ Emit(r)

Next ==
    \/ \E r \in Requests : Create(r) \/ Start(r) \/ Continue(r) \/ Stop(r)
    \/ UpdateParticipantsCount
    \/ DeleteRoom

Spec == Init /\ [][Next]_vars

-----------------------------------------------------------------------------
(* The rows, documents and local variables keep their shape.               *)
TypeOK ==
    /\ room \in {"none", "bare", "bound"}
    /\ count \in Nat /\ counts \in Seq(Nat)
    /\ channel \in BOOLEAN
    /\ member \in [Users -> {"none", "member", "admin"}]
    /\ rows \in [Requests -> {NoRow} \cup [user : Users, role : {"admin", "write", "read"}]]
    /\ \A r \in Requests : req[r] = Idle \/ req[r].on \in Users

(* A user has at most one permission for the room: grantPermission reads   *)
(* and inserts, and no index helps it.                                     *)
OneRowEach == \A u \in Users : Cardinality(RowsOf(u)) <= 1

(* The room's own requests leave nobody in the chat who may not use the    *)
(* room, unless the permission was revoked directly, adding a member once  *)
(* more failed in the chat and was undone, or the chat's own endpoint put  *)
(* him there.                                                              *)
Bypassed(u) == \E r \in Requests \ {0} : req[r].pc # "idle" /\ req[r].on = u
                  /\ (Op(r, "revoke") \/ (Op(r, "add") /\ req[r].again))

Invited(u) == \E r \in Requests \ {0} : req[r].pc # "idle" /\ req[r].on = u /\ Op(r, "invite")

ChatNeedsAccess ==
    \A u \in Users :
        member[u] = "member" /\ ~Bypassed(u) /\ ~Invited(u) => RowsOf(u) # {}

(* A user whom a request removed has no permission until another request   *)
(* names him ("Removes one or more users from a room").                    *)
LastOn(r, u) ==
    /\ req[r].pc # "idle" /\ req[r].on = u
    /\ \A q \in (r + 1)..MaxRequests : req[q].pc # "idle" => req[q].on # u

RemovedHaveNoAccess ==
    \A r \in Requests \ {0}, u \in Users :
        Op(r, "remove") /\ At(r, "ok") /\ LastOn(r, u) => RowsOf(u) = {}

(* A room whose creation failed leaves nothing behind but what could not   *)
(* be deleted, and what is left lets nobody into the room.                 *)
CreationUndone ==
    /\ req[0].pc \in {"undone", "leftChannel"} => room = "none"
    /\ req[0].pc \in {"undone", "leftRoom"} => ~channel /\ \A u \in Users : member[u] = "none"
    /\ req[0].pc \in Undone => Participants = {}

(* When all requests ran one after the other, none was cut short and no    *)
(* permission was written past the room, the room counts its participants. *)
CountAtRest ==
    /\ ~overlap /\ counts = <<>> /\ room = "bound"
    /\ \A r \in Requests :
          \/ At(r, "idle")
          \/ /\ req[r].pc \in {"ok", "failed"}
             /\ req[r].op \in {"create", "add", "remove", "invite", "expel"}
    /\ \A u \in Users : ~Bypassed(u)
    => count = Cardinality(Participants)
=============================================================================
