---------------------------- MODULE ChatMessages ----------------------------
(***************************************************************************)
(* The messages of one channel: sending, editing, deleting, pinning,       *)
(* reactions and read cursors (ChatService and ChatGateway).  Each handler *)
(* reads the message into memory, saves the whole of it, and then tells    *)
(* the sockets that have joined the channel.  Who is a member is decided   *)
(* elsewhere: role is only read here.                                      *)
(*                                                                         *)
(* A message has the number of the request that sends it; message 0 is     *)
(* there from the start.  The text of a message is the number of the       *)
(* request that wrote it.  There is one emoji.                             *)
(*                                                                         *)
(* The operators named Slip... are wrong variants of the definition that   *)
(* follows them; no action uses them.                                      *)
(***************************************************************************)
EXTENDS Naturals, FiniteSets

CONSTANTS
    Users,
    Founder,     \* who sent message 0
    Nobody,      \* no user, in deletedBy and pinnedBy
    MaxRequests, \* bound: requests on messages
    Apart        \* requests on one message, or one user's cursor, do not overlap

MessageAssumption ==
    /\ Founder \in Users /\ Nobody \notin Users
    /\ MaxRequests \in Nat
    /\ Apart \in BOOLEAN

VARIABLES
    role,     \* "none", "member" or "admin" for each user, set elsewhere
    message,  \* Message rows
    reaction, \* reaction[m][u]: the request that inserted the row, 0 if none
    cursor,   \* ReadCursor of each user: a message, or NoCursor
    shown,    \* what a socket in the channel's room has been told
    mreq      \* what each request on messages is doing

stored      == <<message, reaction, cursor>>
messagevars == <<stored, shown, mreq>>

Requests  == 1..MaxRequests
Messages  == 0..MaxRequests
NoCursor  == MaxRequests + 1
NoMessage == [by |-> Nobody, text |-> 0, deletedBy |-> Nobody, pinnedBy |-> Nobody]
Message(u, r) == [NoMessage EXCEPT !.by = u, !.text = r]
Sent(m)    == message[m] # NoMessage
Deleted(m) == message[m].deletedBy # Nobody

(* The user, the message, whether to take a pin or reaction away, and what *)
(* was read: the message, the user's reaction, whether a cursor was found. *)
Idle == [op |-> "none", pc |-> "idle"]
Call(op, pc, by, m, undo) ==
    [op |-> op, pc |-> pc, by |-> by, m |-> m, undo |-> undo, copy |-> NoMessage, row |-> 0]

At(r, pc) == mreq[r].pc = pc
Op(r, op) == mreq[r].op = op
Ended     == {"ok", "failed"}
Active(r) == mreq[r].pc \notin Ended \cup {"idle"}
Started   == {r \in Requests : ~At(r, "idle")}

(* Of a request that has ended only what it was is kept.                   *)
Goto(r, pc) ==
    mreq' = [mreq EXCEPT ![r] = IF pc \in Ended THEN [op |-> @.op, pc |-> pc]
                                ELSE [@ EXCEPT !.pc = pc]]

Init ==
    /\ message = [m \in Messages |-> IF m = 0 THEN Message(Founder, 0) ELSE NoMessage]
    /\ reaction = [m \in Messages |-> [u \in Users |-> 0]]
    /\ cursor = [u \in Users |-> NoCursor]
    /\ shown = [message |-> message, reacted |-> {}, cursor |-> cursor]
    /\ mreq = [r \in Requests |-> Idle]

Conflict(c, d) == c.m = d.m \/ (c.by = d.by /\ c.op = "read" /\ d.op = "read")

Begin(r, c) ==
    /\ At(r, "idle")
    /\ \A q \in 1..(r - 1) : ~At(q, "idle")
    /\ Apart => \A q \in Requests : Active(q) => ~Conflict(mreq[q], c)
    /\ mreq' = [mreq EXCEPT ![r] = c]
    /\ UNCHANGED <<stored, shown>>

(* ensureMember.                                                           *)
SlipEnsureMember(u) == TRUE
EnsureMember(u) == role[u] # "none"

-----------------------------------------------------------------------------
(* sendMessage: the message is inserted and read again before it is told.  *)

BeginSend(r, by) ==
    /\ EnsureMember(by)
    /\ Begin(r, Call("send", "insert", by, r, FALSE))

InsertMessage(r) ==
    /\ At(r, "insert")
    /\ message' = [message EXCEPT ![r] = Message(mreq[r].by, r)]
    /\ Goto(r, "reread")
    /\ UNCHANGED <<reaction, cursor, shown>>

Reread(r) ==
    /\ At(r, "reread")
    /\ mreq' = [mreq EXCEPT ![r].pc = "emit", ![r].copy = message[r]]
    /\ UNCHANGED <<stored, shown>>

-----------------------------------------------------------------------------
(* editMessage, deleteMessage, pinMessage.  Pins are not for members only. *)

BeginOn(r, op, by, m, undo) ==
    /\ op # "pin" => EnsureMember(by)
    /\ Begin(r, Call(op, "find", by, m, undo))

SlipFindMessage(r) ==      \* edits what is deleted
    /\ At(r, "find")
    /\ LET msg == message[mreq[r].m]
           next == CASE Op(r, "edit") -> IF msg.by # mreq[r].by THEN "failed" ELSE "save"
                     [] Op(r, "delete") -> "role"
                     [] Op(r, "pin") -> "save"
                     [] OTHER -> "own"
       IN  IF next = "failed" THEN Goto(r, next)
           ELSE mreq' = [mreq EXCEPT ![r].pc = next, ![r].copy = msg]
    /\ UNCHANGED <<stored, shown>>

FindMessage(r) ==
    /\ At(r, "find")
    /\ LET msg == message[mreq[r].m]
           next == CASE Op(r, "edit") -> IF msg.by # mreq[r].by \/ Deleted(mreq[r].m)
                                           THEN "failed" ELSE "save"
                     [] Op(r, "delete") -> "role"
                     [] Op(r, "pin") -> "save"
                     [] OTHER -> "own"
       IN  IF next = "failed" THEN Goto(r, next)
           ELSE mreq' = [mreq EXCEPT ![r].pc = next, ![r].copy = msg]
    /\ UNCHANGED <<stored, shown>>

(* The author or an admin deletes; the role is read after the message.     *)
FindRole(r) ==
    /\ At(r, "role")
    /\ Goto(r, IF mreq[r].copy.by = mreq[r].by \/ role[mreq[r].by] = "admin"
                 THEN "save" ELSE "failed")
    /\ UNCHANGED <<stored, shown>>

Edited(c, r) == [c.copy EXCEPT !.text = r]
Removed(c)   == [c.copy EXCEPT !.deletedBy = c.by]
Pinned(c)    == [c.copy EXCEPT !.pinnedBy = IF c.undo THEN Nobody ELSE c.by]

Changed(c, r) ==
    CASE c.op = "edit" -> Edited(c, r) [] c.op = "delete" -> Removed(c) [] c.op = "pin" -> Pinned(c)

(* The row is saved as it was read, with the change.                       *)
SaveMessage(r) ==
    /\ At(r, "save")
    /\ message' = [message EXCEPT ![mreq[r].m] = Changed(mreq[r], r)]
    /\ mreq' = [mreq EXCEPT ![r].pc = "emit", ![r].copy = Changed(mreq[r], r)]
    /\ UNCHANGED <<reaction, cursor, shown>>

-----------------------------------------------------------------------------
(* setReadCursor and react look up the user's own row before they save it. *)

FindOwn(r) ==
    /\ At(r, "own")
    /\ LET u == mreq[r].by
           row == IF Op(r, "react") THEN reaction[mreq[r].m][u]
                  ELSE IF cursor[u] = NoCursor THEN 0 ELSE 1
       IN  mreq' = [mreq EXCEPT ![r].row = row,
             ![r].pc = IF Op(r, "read") THEN "move"
                       ELSE IF mreq[r].undo = (row # 0) THEN "toggle" ELSE "emit"]
    /\ UNCHANGED <<stored, shown>>

(* A cursor that was not found is inserted; the user has only one.         *)
MoveCursor(r) ==
    /\ At(r, "move")
    /\ LET u == mreq[r].by
       IN  IF mreq[r].row = 0 /\ cursor[u] # NoCursor
             THEN /\ Goto(r, "failed")
                  /\ UNCHANGED cursor
             ELSE /\ cursor' = [cursor EXCEPT ![u] = mreq[r].m]
                  /\ Goto(r, "emit")
    /\ UNCHANGED <<message, reaction, shown>>

(* A reaction is inserted unless there is one by now, or the row that was  *)
(* found is removed.                                                       *)
Toggle(r) ==
    /\ At(r, "toggle")
    /\ LET u == mreq[r].by
           now == reaction[mreq[r].m][u]
       IN  IF ~mreq[r].undo /\ now # 0
             THEN /\ Goto(r, "failed")
                  /\ UNCHANGED reaction
             ELSE /\ reaction' = [reaction EXCEPT ![mreq[r].m][u] =
                         IF ~mreq[r].undo THEN r ELSE IF now = mreq[r].row THEN 0 ELSE now]
                  /\ Goto(r, "emit")
    /\ UNCHANGED <<message, cursor, shown>>

-----------------------------------------------------------------------------
(* The gateway's event after the service has returned.                     *)
Told(s, c) ==
    LET m == c.m IN
    CASE c.op = "send"   -> [s EXCEPT !.message[m] = c.copy]
      [] c.op = "edit"   -> [s EXCEPT !.message[m].text = c.copy.text]
      [] c.op = "delete" -> [s EXCEPT !.message[m].deletedBy = c.copy.deletedBy]
      [] c.op = "pin"    -> [s EXCEPT !.message[m].pinnedBy = c.copy.pinnedBy]
      [] c.op = "read"   -> [s EXCEPT !.cursor[c.by] = m]
      [] c.op = "react"  -> [s EXCEPT !.reacted = IF c.undo THEN @ \ {<<m, c.by>>}
                                                         ELSE @ \cup {<<m, c.by>>}]

SlipEmit(r) ==             \* an unpin is told as a pin
    /\ At(r, "emit")
    /\ shown' = IF Op(r, "pin") THEN [shown EXCEPT !.message[mreq[r].m].pinnedBy = mreq[r].by]
                                ELSE Told(shown, mreq[r])
    /\ Goto(r, "ok")
    /\ UNCHANGED stored

Emit(r) ==
    /\ At(r, "emit")
    /\ shown' = Told(shown, mreq[r])
    /\ Goto(r, "ok")
    /\ UNCHANGED stored

(* A call to the database fails and the socket that asked is told so.      *)
(* Before the first write it is as if the request had not been made.       *)
Fail(r) ==
    /\ At(r, "reread")
    /\ Goto(r, "failed")
    /\ UNCHANGED <<stored, shown>>

(* Users name messages that they have seen.                                *)
Start(r) == \E by \in Users :
    \/ BeginSend(r, by)
    \/ \E m \in {n \in Messages : Sent(n)}, op \in {"edit", "delete", "read"} : BeginOn(r, op, by, m, FALSE)
    \/ \E m \in {n \in Messages : Sent(n)}, op \in {"pin", "react"}, undo \in BOOLEAN : BeginOn(r, op, by, m, undo)

Continue(r) ==
    \/ InsertMessage(r) \/ Reread(r) \/ FindMessage(r) \/ FindRole(r) \/ SaveMessage(r)
    \/ FindOwn(r) \/ MoveCursor(r) \/ Toggle(r) \/ Emit(r)

Next == \E r \in Requests : Start(r) \/ Continue(r) \/ Fail(r)

Spec == Init /\ [][Next /\ UNCHANGED role]_<<messagevars, role>>

-----------------------------------------------------------------------------
(* What getMessages lists.                                                 *)
Listed == {m \in Messages : Sent(m) /\ ~Deleted(m)}

(* A deleted message is never edited and never listed again ("Message is   *)
(* deleted").                                                              *)
KeepsDeleted ==
    \A m \in Messages : Sent(m) /\ m \notin Listed
       => message'[m].text = message[m].text /\ m \notin Listed'

DeletedIsFinal == [][KeepsDeleted]_messagevars

(* When no request is under way, a socket that was in the room all along   *)
(* has been told what is stored, but for a message whose sending failed    *)
(* after it was inserted.                                                  *)
SocketsAgree ==
    (\A r \in Requests : ~Active(r)) =>
        /\ \A m \in Messages :
              \/ m \in Started /\ Op(m, "send") /\ At(m, "failed")
              \/ shown.message[m] = message[m]
        /\ shown.cursor = cursor
        /\ shown.reacted = {p \in Messages \X Users : reaction[p[1]][p[2]] # 0}

(* Who wrote, reacted, read or deleted what.  Who deletes a message that   *)
(* is deleted already takes the place of the one who did.                  *)
Traces(u) ==
    [texts   |-> {<<m, message[m].text>> : m \in {n \in Messages : message[n].by = u}},
     deleted |-> {m \in Messages : message[m].deletedBy = u},
     reacted |-> {m \in Messages : reaction[m][u] # 0},
     read    |-> cursor[u]]

AddsNothing(u) ==
    /\ Traces(u)' = [Traces(u) EXCEPT !.deleted = Traces(u)'.deleted]
    /\ Traces(u)'.deleted \subseteq Traces(u).deleted
=============================================================================
