------------------------- MODULE RoomMembers_proofs -------------------------
(***************************************************************************)
(* That permissions and chat of a room stay in step: for any users, roles  *)
(* and number of requests, if requests on one user do not overlap.         *)
(***************************************************************************)
EXTENDS RoomMembers, FiniteSetTheorems, SequenceTheorems, TLAPS

Later == Requests \ {0}

Make == {"room", "channel", "bind", "permit", "dropChannel", "dropRoom", "dropRoomOnly"}
Chat == {"inviteFind", "inviteInsert", "expelDelete"}
Work == {"grant", "save", "revoke", "delete", "chatFind", "chatInsert", "check", "chatDelete"} \cup Chat
Done == {"recount", "emit", "ok", "failed", "stopped"}

(* A call at work has all its fields.                                      *)
Full(c) == c = [op |-> c.op, pc |-> c.pc, by |-> c.by, on |-> c.on, role |-> c.role,
                id |-> c.id, again |-> c.again]

(* A request of the chat's own, which writes nothing but the chat.         *)
Chats(r) == req[r].op \in {"invite", "expel"}

(* In the chat for a reason that no permission follows.                    *)
Outside(u) == Bypassed(u) \/ Invited(u)

(* The row that a request is about to write is its own, not written yet,   *)
(* or the only one of its user; a member who is to be taken out of the     *)
(* room, or was not in it before, is not in the chat or bypassed the room. *)
Found(r) ==
    LET c == req[r] IN
    /\ c.pc \in Work \cup Done \cup {"idle"}
    /\ c.pc \in Work => Full(c)
    /\ c.pc # "idle" => c.on \in Users
    /\ c.pc \in {"grant", "save"} => c.op \in {"add", "grant"}
    /\ c.pc \in {"revoke", "delete"} => c.op \in {"add", "remove", "revoke"}
    /\ c.pc \in {"chatFind", "chatInsert"} => c.op = "add"
    /\ c.pc \in {"check", "chatDelete"} => c.op = "remove"
    /\ c.pc \in {"inviteFind", "inviteInsert"} => c.op = "invite"
    /\ c.pc = "expelDelete" => c.op = "expel"
    /\ c.pc \in {"idle", "grant"} => rows[r] = NoRow
    /\ c.pc \in {"save", "delete"} => /\ c.id \in Requests /\ RowsOf(c.on) \subseteq {c.id}
                                      /\ \/ rows[c.id].user = c.on
                                         \/ c.pc = "save" /\ c.id = r /\ rows[r] = NoRow
    /\ c.pc \in {"chatFind", "chatInsert"} => RowsOf(c.on) # {}
    /\ c.pc = "chatInsert" => channel /\ member[c.on] = "none"
    /\ c.pc \in {"save", "chatFind", "chatInsert", "revoke", "delete"}
          => member[c.on] # "member" \/ Outside(c.on) \/ (c.op = "add" /\ c.again) \/ c.op \in {"grant", "revoke"}

(* Whom a request removed has no row until another request names him.      *)
Gone(r) ==
    /\ req[r].op = "remove" /\ req[r].pc \in {"recount", "emit", "ok"}
    /\ \A q \in Later : q > r /\ req[q].pc # "idle" => req[q].on # req[r].on
    => RowsOf(req[r].on) = {}

Shape == DOMAIN rows = Requests /\ DOMAIN member = Users /\ DOMAIN req = Requests

OneRow == \A i, j \in Requests : rows[i].user \in Users /\ rows[i].user = rows[j].user => i = j
Access(u) == member[u] = "member" => RowsOf(u) # {} \/ Outside(u)
InOrder == \A q, r \in Later : q < r /\ At(q, "idle") => At(r, "idle")
Lone == \A q, r \in Later : q < r /\ ~At(r, "idle") /\ req[q].on = req[r].on => ~Active(q)

(* Before the room is made only the chat's own requests begin.             *)
Made ==
    LET c == req[0] IN
    /\ c.op = "create" /\ c.pc \in Make \cup {"emit", "ok", "failed", "stopped"} \cup Undone
    /\ c.pc \in Make => Full(c)
    /\ c.pc \in Make \cup Undone =>
          (\A i \in Requests : rows[i] = NoRow) /\ (\A r \in Later : At(r, "idle") \/ Chats(r))
    /\ c.pc \in {"room", "channel", "dropRoom", "undone", "leftRoom"} => ~channel
    /\ c.pc \in {"undone", "leftChannel"} => room = "none"
    /\ ~channel => \A u \in Users : member[u] = "none"

MInv ==
    /\ Shape /\ OneRow /\ InOrder /\ Lone /\ Made
    /\ \A u \in Users : Access(u)
    /\ \A r \in Later : Found(r) /\ Gone(r)

-----------------------------------------------------------------------------
LEMMA Initially == Init => MInv
<1> SUFFICES ASSUME Init PROVE MInv
  OBVIOUS
<1>1. /\ \A r \in Later : req[r] = Idle
      /\ req[0] = Call("create", "room", Creator, Creator, "admin")
      /\ 0 \in Requests
  BY MemberAssumption DEF Init, Later, Requests
<1>2. \A r \in Later : req[r].pc = "idle" /\ req[r].op = "none"
  BY <1>1 DEF Idle
<1>3. Shape /\ (\A i \in Requests : rows[i] = NoRow) /\ (\A u \in Users : member[u] = "none")
  BY DEF Init, Shape
<1>4. OneRow
  BY <1>3, MemberAssumption DEF OneRow, NoRow
<1>5. InOrder /\ Lone
  BY <1>2 DEF InOrder, Lone, At
<1>6. Full(req[0]) /\ req[0].op = "create" /\ req[0].pc = "room"
  BY <1>1 DEF Call, Full
<1>7. Made
  BY <1>2, <1>3, <1>6 DEF Made, Make, Done, At, Init
<1>8. \A u \in Users : Access(u)
  BY <1>3 DEF Access
<1>9. \A r \in Later : Found(r) /\ Gone(r)
  BY <1>2, <1>3 DEF Found, Gone, Work, Chat, Done, Later
<1> QED
  BY <1>3, <1>4, <1>5, <1>7, <1>8, <1>9 DEF MInv

(* A request keeps its kind and its user, and is not forgotten.            *)
Keeps(r) == req[r].pc # "idle" =>
    /\ req'[r].pc # "idle" /\ req'[r].on = req[r].on /\ req'[r].op = req[r].op
    /\ req[r].again => req'[r].again

LEMMA Remembered ==
    ASSUME \A q \in Later : Keeps(q)
    PROVE  /\ \A u \in Users : Outside(u) => Outside(u)'
           /\ \A r \in Later :
                 req[r].pc # "idle" /\ (\A q \in Later : q > r /\ req'[q].pc # "idle" => req'[q].on # req'[r].on)
                    => \A q \in Later : q > r /\ req[q].pc # "idle" => req[q].on # req[r].on
<1>1. \A u \in Users : Outside(u) => Outside(u)'
  BY DEF Keeps, Outside, Bypassed, Invited, Op, Later
<1> QED
  BY <1>1 DEF Keeps

(* What Goto makes of a request.                                           *)
LEMMA GotoStep ==
    ASSUME Shape, NEW r \in Requests, NEW pc, Goto(r, pc),
           pc \in Ended \cup {"recount"} \/ Full(req[r])
    PROVE  /\ DOMAIN req' = Requests /\ \A q \in Requests \ {r} : req'[q] = req[q]
           /\ req'[r].pc = pc /\ req'[r].on = req[r].on /\ req'[r].op = req[r].op
           /\ req'[r].again = req[r].again
           /\ pc \notin Ended \cup {"recount"} =>
                 Full(req'[r]) /\ req'[r].id = req[r].id /\ req'[r].by = req[r].by
<1>1. /\ DOMAIN req' = Requests /\ \A q \in Requests \ {r} : req'[q] = req[q]
      /\ req'[r] = IF pc \in Ended \cup {"recount"}
                     THEN [op |-> req[r].op, pc |-> pc, on |-> req[r].on, again |-> req[r].again]
                     ELSE [req[r] EXCEPT !.pc = pc]
  BY DEF Goto, Shape
<1>2. CASE pc \in Ended \cup {"recount"}
  BY <1>1, <1>2
<1>3. CASE pc \notin Ended \cup {"recount"}
  <2>1. Full(req[r])
    BY <1>3
  <2> QED
    BY <1>1, <1>3, <2>1 DEF Full
<1> QED
  BY <1>2, <1>3

(* A step of a request changes what belongs to its user only.              *)
LEMMA OneSteps ==
    ASSUME MInv, NEW r \in Later, NEW u \in Users, Active(r), req[r].on = u,
           UNCHANGED <<room, channel>>, Shape',
           \A q \in Requests \ {r} : req'[q] = req[q],
           Keeps(r),
           \A i \in Requests : rows'[i] # rows[i] =>
               /\ rows[i].user = u \/ (i = r /\ rows[i] = NoRow)
               /\ rows'[i] = NoRow \/ rows'[i].user = u,
           \A i, j \in Requests : rows'[i].user = u /\ rows'[j].user = u => i = j,
           \A x \in Users \ {u} : member'[x] = member[x],
           ~channel => member'[u] = "none", UNCHANGED rows \/ ~Chats(r),
           Access(u)', Found(r)', Gone(r)'
    PROVE  MInv'
<1>1. \A q \in Later : Keeps(q)
  BY DEF Keeps, Later
<1>2. req[r].pc # "idle" /\ r \in Requests /\ r # 0 /\ 0 \in Requests
  BY MemberAssumption DEF Active, Later, Requests
<1>3. InOrder'
  BY <1>1, <1>2 DEF MInv, InOrder, At, Keeps, Later
<1>4. Lone'
  <2> SUFFICES ASSUME NEW q \in Later, NEW s \in Later, q < s, ~At(s, "idle")',
                      req'[q].on = req'[s].on
               PROVE  ~Active(q)'
    BY DEF Lone
  <2>1. ~At(s, "idle") /\ req'[s].on = req[s].on
    BY <1>1, <1>2 DEF At, Keeps, Later
  <2>2. ~At(q, "idle")
    BY <2>1 DEF MInv, InOrder
  <2>3. req'[q].on = req[q].on
    BY <1>1, <2>2 DEF Keeps, At
  <2>4. ~Active(q)
    BY <2>1, <2>3 DEF MInv, Lone
  <2>5. q # r
    BY <2>4
  <2> QED
    BY <2>4, <2>5 DEF Active, Later
<1>5. Made'
  <2>1. req'[0] = req[0]
    BY <1>2
  <2>2. ~channel' => \A x \in Users : member'[x] = "none"
    BY DEF MInv, Made
  <2>3. CASE Chats(r)
    <3>1. UNCHANGED rows
      BY <2>3
    <3>2. \A q \in Later : At(q, "idle") \/ Chats(q) => At(q, "idle")' \/ Chats(q)'
      BY <1>1, <1>2, <2>3 DEF At, Chats, Keeps, Later
    <3> QED
      BY <2>1, <2>2, <3>1, <3>2 DEF MInv, Made, Full
  <2>4. CASE ~Chats(r)
    <3>1. req[0].pc \notin Make \cup Undone
      BY <1>2, <2>4 DEF MInv, Made, At
    <3> QED
      BY <2>1, <2>2, <3>1 DEF MInv, Made, Make, Undone
  <2> QED
    BY <2>3, <2>4
<1>6. ASSUME NEW x \in Users \ {u}, NEW i \in Requests
      PROVE  rows'[i].user = x <=> rows[i].user = x
  <2>1. NoRow.user # x
    BY MemberAssumption DEF NoRow
  <2> QED
    BY <2>1
<1>7. OneRow'
  <2> SUFFICES ASSUME NEW i \in Requests, NEW j \in Requests, rows'[i].user \in Users,
                      rows'[i].user = rows'[j].user
               PROVE  i = j
    BY DEF OneRow
  <2>1. CASE rows'[i].user = u
    BY <2>1
  <2>2. CASE rows'[i].user # u
    <3>1. NoRow.user \notin Users
      BY MemberAssumption DEF NoRow
    <3>2. rows'[i] = rows[i] /\ rows'[j] = rows[j]
      BY <2>2, <3>1
    <3> QED
      BY <3>2 DEF MInv, OneRow
  <2> QED
    BY <2>1, <2>2
<1>8. ASSUME NEW x \in Users PROVE Access(x)'
  <2>1. CASE x # u
    <3>1. RowsOf(x)' = RowsOf(x)
      BY <1>6, <2>1 DEF RowsOf
    <3>2. Outside(x) => Outside(x)'
      BY <1>1, Remembered
    <3> QED
      BY <2>1, <3>1, <3>2 DEF MInv, Access
  <2> QED
    BY <2>1
<1>9. ASSUME NEW q \in Later, q # r PROVE Found(q)' /\ Gone(q)'
  <2>1. req'[q] = req[q] /\ Found(q) /\ Gone(q) /\ q \in Requests
    BY <1>9 DEF MInv, Later
  <2>2. rows[q] = NoRow => rows'[q] = NoRow
    <3>1. NoRow.user # u
      BY MemberAssumption DEF NoRow
    <3> QED
      BY <1>9, <2>1, <3>1
  <2>3. CASE req[q].pc \notin Done \cup {"idle"}
    <3>1. Active(q) /\ ~At(q, "idle")
      BY <2>1, <2>3 DEF Found, Work, Chat, Active, Done, Ended, Undone, At
    <3>2. ~At(r, "idle") /\ q \in Int /\ r \in Int
      BY <1>2 DEF At, Later, Requests
    <3>3. req[q].on # u
      BY <1>9, <3>1, <3>2 DEF MInv, Lone
    <3>4. req[q].on \in Users
      BY <2>1, <3>1 DEF Found, At
    <3>5. /\ member'[req[q].on] = member[req[q].on]
          /\ RowsOf(req[q].on)' = RowsOf(req[q].on)
          /\ Outside(req[q].on) => Outside(req[q].on)'
      <4> DEFINE x == req[q].on
      <4>1. RowsOf(x)' = RowsOf(x)
        BY <1>6, <2>1, <3>3, <3>4 DEF RowsOf
      <4>2. Outside(x) => Outside(x)'
        BY <1>1, <2>1, <3>4, Remembered
      <4> QED
        BY <3>3, <3>4, <4>1, <4>2
    <3>6. \A i \in Requests : rows[i].user = req[q].on => rows'[i] = rows[i]
      <4>1. NoRow.user # req[q].on
        BY <3>4, MemberAssumption DEF NoRow
      <4> QED
        BY <3>3, <4>1
    <3>7. Found(q)'
      BY <2>1, <2>2, <3>5, <3>6 DEF Found
    <3>8. Gone(q)'
      BY <2>1, <2>3 DEF Gone, Done
    <3> QED
      BY <3>7, <3>8
  <2>4. CASE req[q].pc \in Done \cup {"idle"}
    <3>1. Found(q)'
      BY <2>1, <2>2, <2>4 DEF Found, Work, Chat, Done
    <3>2. CASE req[q].pc = "idle"
      BY <2>1, <3>1, <3>2 DEF Gone
    <3>3. CASE req[q].pc # "idle" /\ req[q].on # u
      <4>1. req[q].on \in Users
        BY <2>1, <3>3 DEF Found
      <4>2. RowsOf(req[q].on)' = RowsOf(req[q].on)
        BY <1>6, <2>1, <3>3, <4>1 DEF RowsOf
      <4> QED
        BY <1>1, <3>1, <2>1, <3>3, <4>2, Remembered DEF Gone
    <3>4. CASE req[q].pc # "idle" /\ req[q].on = u
      <4>1. q < r
        <5>1. q \in Int /\ r \in Int
          BY DEF Later, Requests
        <5> QED
          BY <1>9, <3>4, <5>1 DEF MInv, Lone, At
      <4>2. req'[r].pc # "idle" /\ req'[r].on = u
        BY <1>2 DEF Keeps
      <4> QED
        BY <2>1, <3>1, <3>4, <4>1, <4>2 DEF Gone
    <3> QED
      BY <3>1, <3>2, <3>3, <3>4
  <2> QED
    BY <2>3, <2>4
<1> QED
  BY <1>3, <1>4, <1>5, <1>7, <1>8, <1>9 DEF MInv

(* A request begins when none on its user is under way.                    *)
LEMMA Begins ==
    ASSUME Apart, MInv, NEW r \in Requests, NEW c, Begin(r, c), Full(c), c.on \in Users,
           \/ /\ MayAct(c.by)
              /\ \/ c.pc = "grant" /\ c.op \in {"add", "grant"}
                 \/ c.pc = "check" /\ c.op = "remove"
                 \/ c.pc = "revoke" /\ c.op = "revoke"
           \/ c.pc = "inviteFind" /\ c.op = "invite"
           \/ c.pc = "expelDelete" /\ c.op = "expel"
    PROVE  MInv'
<1>1. /\ r \in Later /\ 0 \in Requests /\ r \in Int /\ \A q \in Later : q \in Int
      /\ req[r].pc = "idle"
      /\ UNCHANGED <<room, channel, member, rows>>
  BY MemberAssumption DEF Begin, Later, Requests, At, roomvars, chatvars
<1>2. /\ DOMAIN req' = Requests /\ req'[r] = c /\ \A q \in Requests \ {r} : req'[q] = req[q]
  BY DEF Begin, MInv, Shape
<1>3. c.pc \in {"grant", "check", "revoke", "inviteFind", "expelDelete"}
  OBVIOUS
<1>4. \A q \in Later : Keeps(q)
  BY <1>1, <1>2 DEF Keeps, Later
<1>5. /\ \A q \in Later : q < r => ~At(q, "idle")
      /\ \A q \in Later : q > r => At(q, "idle")
      /\ \A q \in Later : q < r /\ Active(q) => req[q].on # c.on
  <2>1. \A q \in Later : q < r => q \in 0..(r - 1) /\ q \in 1..(r - 1)
    BY <1>1, MemberAssumption DEF Later, Requests
  <2> QED
    BY <1>1, <2>1 DEF Begin, MInv, InOrder, At
<1>6. InOrder'
  BY <1>1, <1>2, <1>3, <1>5 DEF MInv, InOrder, At, Later
<1>7. Lone'
  <2> SUFFICES ASSUME NEW q \in Later, NEW s \in Later, q < s, ~At(s, "idle")',
                      req'[q].on = req'[s].on
               PROVE  ~Active(q)'
    BY DEF Lone
  <2>1. q # r
    BY <1>1, <1>2, <1>5 DEF At, Later
  <2>2. CASE s = r
    BY <1>2, <1>5, <2>1, <2>2 DEF Active, Later
  <2>3. CASE s # r
    BY <1>2, <2>1, <2>3 DEF MInv, Lone, At, Active, Later
  <2> QED
    BY <2>2, <2>3
<1>8. Made'
  <2>1. req'[0] = req[0]
    BY <1>1, <1>2 DEF Later
  <2>2. CASE MayAct(c.by)
    <3>1. ~\A i \in Requests : rows[i] = NoRow
      BY <2>2 DEF MayAct, RowsOf, NoRow
    <3>2. req[0].pc \notin Make \cup Undone
      BY <3>1 DEF MInv, Made
    <3> QED
      BY <1>1, <2>1, <3>2 DEF MInv, Made, Make, Undone
  <2>3. CASE c.op \in {"invite", "expel"}
    <3>1. \A q \in Later : At(q, "idle") \/ Chats(q) => At(q, "idle")' \/ Chats(q)'
      BY <1>2, <2>3 DEF At, Chats, Later
    <3> QED
      BY <1>1, <2>1, <3>1 DEF MInv, Made, Full
  <2> QED
    BY <2>2, <2>3
<1>9. ASSUME NEW u \in Users PROVE Access(u)' /\ RowsOf(u)' = RowsOf(u)
  <2>1. Outside(u) => Outside(u)'
    BY <1>4, Remembered
  <2> QED
    BY <1>1, <2>1 DEF MInv, Access, RowsOf
<1>10. ASSUME NEW q \in Later PROVE Found(q)' /\ Gone(q)'
  <2>1. Found(q) /\ Gone(q) /\ q \in Requests
    BY DEF MInv, Later
  <2>2. CASE q = r
    <3>1. Found(r)'
      BY <1>1, <1>2, <1>3, <2>1, <2>2 DEF Found, Work, Chat
    <3>2. Gone(r)'
      BY <1>2, <1>3 DEF Gone
    <3> QED
      BY <2>2, <3>1, <3>2
  <2>3. CASE q # r
    <3>1. req'[q] = req[q]
      BY <1>2, <2>1, <2>3
    <3>2. CASE req[q].pc = "idle"
      BY <1>1, <2>1, <3>1, <3>2 DEF Found, Gone, Work, Chat, Done
    <3>3. CASE req[q].pc # "idle"
      <4>1. /\ req[q].on \in Users /\ RowsOf(req[q].on)' = RowsOf(req[q].on)
            /\ Outside(req[q].on) => Outside(req[q].on)'
        <5> DEFINE x == req[q].on
        <5>1. x \in Users
          BY <2>1, <3>3 DEF Found
        <5>2. Outside(x) => Outside(x)'
          BY <1>4, <3>1, <5>1, Remembered
        <5> QED
          BY <1>1, <3>1, <5>1, <5>2 DEF RowsOf
      <4>2. Found(q)'
        BY <1>1, <2>1, <3>1, <4>1 DEF Found
      <4>3. Gone(q)'
        BY <1>4, <2>1, <3>1, <3>3, <4>1, Remembered DEF Gone
      <4> QED
        BY <4>2, <4>3
    <3> QED
      BY <3>2, <3>3
  <2> QED
    BY <2>2, <2>3
<1> QED
  BY <1>1, <1>2, <1>6, <1>7, <1>8, <1>9, <1>10 DEF MInv, Shape, OneRow

LEMMA StartOK == ASSUME Apart, MInv, NEW r \in Requests, Start(r) PROVE MInv'
<1>1. PICK by \in Users, on \in Users :
         \/ \E role : BeginAdd(r, by, on, role) \/ BeginGrant(r, by, on, role)
         \/ BeginRemove(r, by, on) \/ BeginRevoke(r, by, on)
         \/ BeginInvite(r, by, on) \/ BeginExpel(r, by, on)
  BY DEF Start
<1>2. ASSUME NEW op, NEW pc, NEW role, Begin(r, Call(op, pc, by, on, role)),
             \/ /\ MayAct(by)
                /\ \/ pc = "grant" /\ op \in {"add", "grant"}
                   \/ pc = "check" /\ op = "remove"
                   \/ pc = "revoke" /\ op = "revoke"
             \/ pc = "inviteFind" /\ op = "invite"
             \/ pc = "expelDelete" /\ op = "expel"
      PROVE  MInv'
  <2> DEFINE c == Call(op, pc, by, on, role)
  <2>1. Full(c) /\ c.on = on /\ c.by = by /\ c.op = op /\ c.pc = pc
    BY DEF Call, Full
  <2> HIDE DEF c
  <2> QED
    BY <1>2, <2>1, Begins DEF c
<1> QED
  BY <1>1, <1>2 DEF BeginAdd, BeginGrant, BeginRemove, BeginRevoke, BeginInvite, BeginExpel

(* A request that only looks.                                              *)
LEMMA Looks ==
    ASSUME MInv, NEW r \in Later, Active(r), UNCHANGED <<room, channel, member, rows>>,
           DOMAIN req' = Requests, \A q \in Requests \ {r} : req'[q] = req[q], Keeps(r),
           Found(r)', Gone(r)'
    PROVE  MInv'
<1>1. PICK u \in Users : req[r].on = u
  BY DEF MInv, Found, Active
<1>2. \A q \in Later : Keeps(q)
  BY DEF Keeps, Later
<1>3. Access(u)'
  <2>1. Outside(u) => Outside(u)'
    BY <1>2, Remembered
  <2> QED
    BY <2>1 DEF MInv, Access, RowsOf
<1>4. Shape' /\ (~channel => member'[u] = "none")
  BY DEF MInv, Shape, Made
<1>5. \A i, j \in Requests : rows'[i].user = u /\ rows'[j].user = u => i = j
  BY DEF MInv, OneRow
<1>6. UNCHANGED rows /\ \A x \in Users \ {u} : member'[x] = member[x]
  OBVIOUS
<1> QED
  BY <1>1, <1>3, <1>4, <1>5, <1>6, OneSteps

(* What is known of a request at work.                                     *)
LEMMA AtWork ==
    ASSUME MInv, NEW r \in Requests, req[r].pc \in Work
    PROVE  r \in Later /\ Active(r) /\ Found(r) /\ Full(req[r]) /\ req[r].on \in Users
<1>1. r # 0
  BY DEF MInv, Made, Make, Done, Undone, Work, Chat
<1> QED
  BY <1>1 DEF MInv, Later, Found, Active, Work, Chat, Ended, Undone

LEMMA GrantFindOK == ASSUME MInv, NEW r \in Requests, GrantFind(r) PROVE MInv'
<1>1. req[r].pc = "grant" /\ UNCHANGED <<room, channel, member, rows>>
  BY DEF GrantFind, At, roomvars, chatvars
<1>2. r \in Later /\ Active(r) /\ Found(r) /\ Full(req[r]) /\ req[r].on \in Users
  BY <1>1, AtWork DEF Work, Chat
<1>3. req[r].op \in {"add", "grant"} /\ rows[r] = NoRow
  BY <1>1, <1>2 DEF Found
<1>4. CASE Goto(r, "failed")
  <2>1. /\ DOMAIN req' = Requests /\ \A q \in Requests \ {r} : req'[q] = req[q]
        /\ req'[r].pc = "failed" /\ req'[r].on = req[r].on /\ req'[r].op = req[r].op
        /\ req'[r].again = req[r].again
    BY <1>4, GotoStep DEF MInv, Ended, Undone
  <2>2. Keeps(r) /\ Found(r)' /\ Gone(r)'
    BY <1>2, <2>1 DEF Keeps, Found, Gone, Work, Chat, Done
  <2> QED
    BY <1>1, <1>2, <2>1, <2>2, Looks
<1>5. ASSUME RowsOf(req[r].on) = {}, req' = [req EXCEPT ![r].pc = "save", ![r].id = r]
      PROVE  MInv'
  <2>1. /\ DOMAIN req' = Requests /\ \A q \in Requests \ {r} : req'[q] = req[q]
        /\ req'[r] = [req[r] EXCEPT !.pc = "save", !.id = r]
    BY <1>5 DEF MInv, Shape
  <2>2. /\ Full(req'[r]) /\ req'[r].pc = "save" /\ req'[r].id = r
        /\ req'[r].on = req[r].on /\ req'[r].op = req[r].op /\ req'[r].again = req[r].again
    BY <1>2, <2>1 DEF Full
  <2>3. Keeps(r)
    BY <2>2 DEF Keeps
  <2>4. RowsOf(req[r].on)' = {}
    BY <1>1, <1>5, <2>2 DEF RowsOf
  <2>5. member[req[r].on] # "member" \/ Outside(req[r].on)'
    <3> DEFINE x == req[r].on
    <3>1. \A q \in Later : Keeps(q)
      BY <2>1, <2>3 DEF Keeps, Later
    <3>2. Outside(x) => Outside(x)'
      BY <1>2, <2>2, <3>1, Remembered
    <3> QED
      BY <1>2, <1>5, <3>2 DEF MInv, Access
  <2>6. Found(r)' /\ Gone(r)'
    BY <1>1, <1>2, <1>3, <2>2, <2>4, <2>5 DEF Found, Gone, Work, Chat, Done
  <2> QED
    BY <1>1, <1>2, <2>1, <2>3, <2>6, Looks
<1>6. ASSUME NEW i \in RowsOf(req[r].on),
             req' = [req EXCEPT ![r].pc = "save", ![r].id = i, ![r].again = TRUE]
      PROVE  MInv'
  <2>1. /\ DOMAIN req' = Requests /\ \A q \in Requests \ {r} : req'[q] = req[q]
        /\ req'[r] = [req[r] EXCEPT !.pc = "save", !.id = i, !.again = TRUE]
    BY <1>6 DEF MInv, Shape
  <2>2. /\ Full(req'[r]) /\ req'[r].pc = "save" /\ req'[r].id = i
        /\ req'[r].on = req[r].on /\ req'[r].op = req[r].op /\ req'[r].again
    BY <1>2, <2>1 DEF Full
  <2>3. Keeps(r)
    BY <2>2 DEF Keeps
  <2>4. i \in Requests /\ rows[i].user = req[r].on /\ RowsOf(req[r].on) \subseteq {i}
    BY <1>2, <1>6 DEF RowsOf, MInv, OneRow
  <2>5. RowsOf(req[r].on)' \subseteq {i}
    BY <1>1, <2>2, <2>4 DEF RowsOf
  <2>6. Found(r)' /\ Gone(r)'
    BY <1>1, <1>2, <1>3, <2>2, <2>4, <2>5 DEF Found, Gone, Work, Chat, Done
  <2> QED
    BY <1>1, <1>2, <2>1, <2>3, <2>6, Looks
<1> QED
  BY <1>4, <1>5, <1>6 DEF GrantFind

LEMMA RevokeFindOK == ASSUME MInv, NEW r \in Requests, RevokeFind(r) PROVE MInv'
<1>1. req[r].pc = "revoke" /\ UNCHANGED <<room, channel, member, rows>>
  BY DEF RevokeFind, At, roomvars, chatvars
<1>2. r \in Later /\ Active(r) /\ Found(r) /\ Full(req[r]) /\ req[r].on \in Users
  BY <1>1, AtWork DEF Work, Chat
<1>3. /\ req[r].op \in {"add", "remove", "revoke"}
      /\ member[req[r].on] # "member" \/ Outside(req[r].on)
         \/ (req[r].op = "add" /\ req[r].again) \/ req[r].op \in {"grant", "revoke"}
  BY <1>1, <1>2 DEF Found
<1>4. CASE Goto(r, "failed")
  <2>1. /\ DOMAIN req' = Requests /\ \A q \in Requests \ {r} : req'[q] = req[q]
        /\ req'[r].pc = "failed" /\ req'[r].on = req[r].on /\ req'[r].op = req[r].op
        /\ req'[r].again = req[r].again
    BY <1>4, GotoStep DEF MInv, Ended, Undone
  <2>2. Keeps(r) /\ Found(r)' /\ Gone(r)'
    BY <1>2, <2>1 DEF Keeps, Found, Gone, Work, Chat, Done
  <2> QED
    BY <1>1, <1>2, <2>1, <2>2, Looks
<1>5. ASSUME NEW i \in RowsOf(req[r].on), req' = [req EXCEPT ![r].pc = "delete", ![r].id = i]
      PROVE  MInv'
  <2>1. /\ DOMAIN req' = Requests /\ \A q \in Requests \ {r} : req'[q] = req[q]
        /\ req'[r] = [req[r] EXCEPT !.pc = "delete", !.id = i]
    BY <1>5 DEF MInv, Shape
  <2>2. /\ Full(req'[r]) /\ req'[r].pc = "delete" /\ req'[r].id = i
        /\ req'[r].on = req[r].on /\ req'[r].op = req[r].op /\ req'[r].again = req[r].again
    BY <1>2, <2>1 DEF Full
  <2>3. Keeps(r)
    BY <2>2 DEF Keeps
  <2>4. i \in Requests /\ rows[i].user = req[r].on /\ RowsOf(req[r].on) \subseteq {i}
    BY <1>2, <1>5 DEF RowsOf, MInv, OneRow
  <2>5. RowsOf(req[r].on)' \subseteq {i}
    BY <1>1, <2>2, <2>4 DEF RowsOf
  <2>6. Outside(req[r].on) => Outside(req[r].on)'
    <3> DEFINE x == req[r].on
    <3>1. \A q \in Later : Keeps(q)
      BY <2>1, <2>3 DEF Keeps, Later
    <3> QED
      BY <1>2, <2>2, <3>1, Remembered
  <2>7. Found(r)' /\ Gone(r)'
    BY <1>1, <1>2, <1>3, <2>2, <2>4, <2>5, <2>6 DEF Found, Gone, Work, Chat, Done
  <2> QED
    BY <1>1, <1>2, <2>1, <2>3, <2>7, Looks
<1> QED
  BY <1>4, <1>5 DEF RevokeFind

(* From here to pc, with nothing written, by requests that add or remove.  *)
LEMMA GoesOn ==
    ASSUME MInv, NEW r \in Later, Active(r), UNCHANGED <<room, channel, member, rows>>,
           NEW pc \in {"revoke", "recount", "chatInsert", "chatDelete", "inviteInsert",
                      "failed", "stopped", "ok"},
           Goto(r, pc), Full(req[r]) \/ pc \in {"failed", "stopped", "ok"},
           pc = "recount" => req[r].op = "add",
           pc = "chatDelete" => req[r].op = "remove",
           pc = "inviteInsert" => req[r].op = "invite",
           pc = "revoke" => /\ req[r].op = "add"
                            /\ \/ member[req[r].on] # "member" \/ Outside(req[r].on)
                               \/ req[r].again,
           pc = "chatInsert" => /\ req[r].op = "add" /\ RowsOf(req[r].on) # {}
                                /\ channel /\ member[req[r].on] = "none",
           pc = "ok" => req[r].op = "invite"
    PROVE  MInv'
<1>1. /\ DOMAIN req' = Requests /\ \A q \in Requests \ {r} : req'[q] = req[q]
      /\ req'[r].pc = pc /\ req'[r].on = req[r].on /\ req'[r].op = req[r].op
      /\ req'[r].again = req[r].again
      /\ pc \in Work => Full(req'[r])
  BY GotoStep DEF MInv, Ended, Undone, Later, Work, Chat
<1>2. Keeps(r)
  BY <1>1 DEF Keeps
<1>3. req[r].on \in Users /\ Found(r) /\ Gone(r)
  BY DEF MInv, Found, Active
<1>4. /\ RowsOf(req[r].on)' = RowsOf(req[r].on)
      /\ Outside(req[r].on) => Outside(req[r].on)'
  <2> DEFINE x == req[r].on
  <2>1. \A q \in Later : Keeps(q)
    BY <1>1, <1>2 DEF Keeps, Later
  <2>2. Outside(x) => Outside(x)'
    BY <1>1, <1>3, <2>1, Remembered
  <2> QED
    BY <1>1, <2>2 DEF RowsOf
<1>5. Found(r)'
  BY <1>1, <1>3, <1>4 DEF Found, Work, Chat, Done
<1>6. Gone(r)'
  BY <1>1 DEF Gone
<1> QED
  BY <1>1, <1>2, <1>5, <1>6, Looks

LEMMA ChatFindOK == ASSUME MInv, NEW r \in Requests, ChatFind(r) PROVE MInv'
<1>1. req[r].pc = "chatFind" /\ UNCHANGED <<room, channel, member, rows>>
  BY DEF ChatFind, At, roomvars, chatvars
<1>2. r \in Later /\ Active(r) /\ Found(r) /\ Full(req[r]) /\ req[r].on \in Users
  BY <1>1, AtWork DEF Work, Chat
<1>3. req[r].op = "add" /\ RowsOf(req[r].on) # {}
  BY <1>1, <1>2 DEF Found
<1>4. CASE ~channel
  <2>1. Goto(r, "revoke") /\ member[req[r].on] = "none"
    BY <1>2, <1>4 DEF ChatFind, MInv, Made
  <2> QED
    BY <1>1, <1>2, <1>3, <2>1, GoesOn
<1>5. CASE channel /\ member[req[r].on] # "none"
  <2>1. Goto(r, "recount")
    BY <1>5 DEF ChatFind
  <2> QED
    BY <1>1, <1>2, <1>3, <2>1, GoesOn
<1>6. CASE channel /\ member[req[r].on] = "none"
  <2>1. Goto(r, "chatInsert")
    BY <1>6 DEF ChatFind
  <2> QED
    BY <1>1, <1>2, <1>3, <1>6, <2>1, GoesOn
<1> QED
  BY <1>4, <1>5, <1>6

LEMMA ChatFailsOK == ASSUME MInv, NEW r \in Requests, ChatFails(r) PROVE MInv'
<1>1. req[r].pc \in {"chatFind", "chatInsert"} /\ UNCHANGED <<room, channel, member, rows>>
      /\ Goto(r, "revoke")
  BY DEF ChatFails, roomvars, chatvars
<1>2. r \in Later /\ Active(r) /\ Found(r) /\ Full(req[r]) /\ req[r].on \in Users
  BY <1>1, AtWork DEF Work, Chat
<1>3. /\ req[r].op = "add"
      /\ member[req[r].on] # "member" \/ Outside(req[r].on) \/ req[r].again
  BY <1>1, <1>2 DEF Found
<1> QED
  BY <1>1, <1>2, <1>3, GoesOn

LEMMA RemoveCheckOK == ASSUME MInv, NEW r \in Requests, RemoveCheck(r) PROVE MInv'
<1>1. /\ req[r].pc = "check" /\ UNCHANGED <<room, channel, member, rows>>
      /\ Goto(r, "failed") \/ Goto(r, "chatDelete")
  BY DEF RemoveCheck, At, roomvars, chatvars
<1>2. r \in Later /\ Active(r) /\ Found(r) /\ Full(req[r]) /\ req[r].op = "remove"
  BY <1>1, AtWork DEF Work, Chat, Found
<1> QED
  BY <1>1, <1>2, GoesOn

(* Writes of permissions and of the chat.                                  *)
LEMMA GrantSaveOK == ASSUME MInv, NEW r \in Requests, GrantSave(r) PROVE MInv'
<1>1. req[r].pc = "save" /\ UNCHANGED <<room, channel, member>>
  BY DEF GrantSave, At, roomvars, chatvars
<1>2. r \in Later /\ Active(r) /\ Found(r) /\ Full(req[r])
  BY <1>1, AtWork DEF Work, Chat
<1>3. PICK u \in Users : req[r].on = u
  BY <1>1, AtWork DEF Work, Chat
<1>4. /\ req[r].op \in {"add", "grant"} /\ req[r].id \in Requests /\ RowsOf(u) \subseteq {req[r].id}
      /\ rows[req[r].id].user = u \/ (req[r].id = r /\ rows[r] = NoRow)
      /\ member[u] # "member" \/ Outside(u) \/ (req[r].op = "add" /\ req[r].again)
         \/ req[r].op = "grant"
  BY <1>1, <1>2, <1>3 DEF Found
<1>5. /\ DOMAIN rows' = Requests /\ rows'[req[r].id].user = u
      /\ \A i \in Requests \ {req[r].id} : rows'[i] = rows[i]
  BY <1>3, <1>4 DEF GrantSave, MInv, Shape, Row
<1>6. PICK pc : Goto(r, pc) /\ ((pc = "chatFind" /\ req[r].op = "add") \/ pc = "ok")
  BY DEF GrantSave, Op
<1>7. /\ DOMAIN req' = Requests /\ \A q \in Requests \ {r} : req'[q] = req[q]
      /\ req'[r].pc = pc /\ req'[r].on = u /\ req'[r].op = req[r].op
      /\ req'[r].again = req[r].again
      /\ pc = "chatFind" => Full(req'[r])
  BY <1>2, <1>3, <1>6, GotoStep DEF MInv, Ended, Undone
<1>8. Keeps(r)
  BY <1>3, <1>7, <1>6 DEF Keeps
<1>9. RowsOf(u)' = {req[r].id}
  <2>1. \A i \in Requests : rows'[i].user = u <=> i = req[r].id
    BY <1>4, <1>5 DEF RowsOf
  <2> QED
    BY <1>4, <2>1 DEF RowsOf
<1>10. Outside(u) => Outside(u)'
  BY <1>7, <1>8, Remembered DEF Keeps, Later
<1>11. Found(r)' /\ Gone(r)' /\ Access(u)'
  <2>1. Access(u)'
    BY <1>9 DEF Access
  <2>2. RowsOf(req[r].on)' # {}
    BY <1>7, <1>9 DEF RowsOf
  <2>3. Outside(u) => Outside(req[r].on)'
    BY <1>7, <1>10 DEF Outside
  <2>4. Found(r)'
    BY <1>1, <1>4, <1>6, <1>7, <2>2, <2>3 DEF Found, Work, Chat, Done
  <2>5. Gone(r)'
    BY <1>4, <1>7 DEF Gone
  <2> QED
    BY <2>1, <2>4, <2>5
<1>12. \A i \in Requests : rows'[i] # rows[i] =>
           /\ rows[i].user = u \/ (i = r /\ rows[i] = NoRow)
           /\ rows'[i] = NoRow \/ rows'[i].user = u
  BY <1>4, <1>5
<1>13. \A i, j \in Requests : rows'[i].user = u /\ rows'[j].user = u => i = j
  BY <1>4, <1>5 DEF RowsOf
<1>14. Shape' /\ (~channel => member'[u] = "none")
  BY <1>1, <1>5, <1>7 DEF MInv, Shape, Made
<1>15. ~Chats(r)
  BY <1>4 DEF Chats
<1> QED
  BY <1>1, <1>2, <1>3, <1>7, <1>8, <1>11, <1>12, <1>13, <1>14, <1>15, OneSteps

LEMMA RevokeDeleteOK == ASSUME MInv, NEW r \in Requests, RevokeDelete(r) PROVE MInv'
<1>1. req[r].pc = "delete" /\ UNCHANGED <<room, channel, member>>
  BY DEF RevokeDelete, At, roomvars, chatvars
<1>2. r \in Later /\ Active(r) /\ Found(r) /\ Full(req[r])
  BY <1>1, AtWork DEF Work, Chat
<1>3. PICK u \in Users : req[r].on = u
  BY <1>1, AtWork DEF Work, Chat
<1>4. /\ req[r].op \in {"add", "remove", "revoke"}
      /\ req[r].id \in Requests /\ RowsOf(u) \subseteq {req[r].id} /\ rows[req[r].id].user = u
      /\ member[u] # "member" \/ Outside(u) \/ (req[r].op = "add" /\ req[r].again)
         \/ req[r].op = "revoke"
  BY <1>1, <1>2, <1>3 DEF Found
<1>5. /\ DOMAIN rows' = Requests /\ rows'[req[r].id] = NoRow
      /\ \A i \in Requests \ {req[r].id} : rows'[i] = rows[i]
  BY <1>4 DEF RevokeDelete, MInv, Shape
<1>6. PICK pc \in {"failed", "recount", "ok"} : Goto(r, pc)
  BY DEF RevokeDelete, Op
<1>7. /\ DOMAIN req' = Requests /\ \A q \in Requests \ {r} : req'[q] = req[q]
      /\ req'[r].pc = pc /\ req'[r].on = u /\ req'[r].op = req[r].op
      /\ req'[r].again = req[r].again
  BY <1>2, <1>3, <1>6, GotoStep DEF MInv, Ended, Undone
<1>8. Keeps(r)
  BY <1>3, <1>7, <1>6 DEF Keeps
<1>9. \A i \in Requests : rows'[i].user # u
  <2>1. NoRow.user # u
    BY MemberAssumption DEF NoRow
  <2> QED
    BY <1>4, <1>5, <2>1 DEF RowsOf
<1>10. Outside(u) => Outside(u)'
  BY <1>7, <1>8, Remembered DEF Keeps, Later
<1>11. Access(u)'
  <2>1. (req[r].op = "add" /\ req[r].again) \/ req[r].op = "revoke" => Outside(u)'
    BY <1>2, <1>6, <1>7 DEF Outside, Bypassed, Op, Later
  <2> QED
    BY <1>1, <1>4, <1>10, <2>1 DEF Access
<1>12. Found(r)' /\ Gone(r)'
  <2>1. Found(r)'
    BY <1>3, <1>6, <1>7 DEF Found, Work, Chat, Done
  <2>2. RowsOf(req[r].on)' = {}
    BY <1>7, <1>9 DEF RowsOf
  <2> QED
    BY <2>1, <2>2 DEF Gone
<1>13. \A i \in Requests : rows'[i] # rows[i] => rows[i].user = u /\ rows'[i] = NoRow
  BY <1>4, <1>5
<1>14. Shape' /\ (~channel => member'[u] = "none")
  BY <1>1, <1>5, <1>7 DEF MInv, Shape, Made
<1>15. ~Chats(r)
  BY <1>4 DEF Chats
<1> QED
  BY <1>1, <1>2, <1>3, <1>7, <1>8, <1>9, <1>11, <1>12, <1>13, <1>14, <1>15, OneSteps

(* Under Apart nobody else has made the member meanwhile.                  *)
LEMMA ChatInsertOK == ASSUME MInv, NEW r \in Requests, ChatInsert(r) PROVE MInv'
<1>1. req[r].pc = "chatInsert" /\ UNCHANGED <<room, channel, rows>>
  BY DEF ChatInsert, At, roomvars
<1>2. r \in Later /\ Active(r) /\ Found(r) /\ Full(req[r])
  BY <1>1, AtWork DEF Work, Chat
<1>3. PICK u \in Users : req[r].on = u
  BY <1>1, AtWork DEF Work, Chat
<1>4. req[r].op = "add" /\ RowsOf(u) # {} /\ channel /\ member[u] = "none"
  BY <1>1, <1>2, <1>3 DEF Found
<1>5. Goto(r, "recount") /\ member' = [member EXCEPT ![u] = "member"]
  BY <1>3, <1>4 DEF ChatInsert
<1>6. /\ DOMAIN req' = Requests /\ \A q \in Requests \ {r} : req'[q] = req[q]
      /\ req'[r].pc = "recount" /\ req'[r].on = u /\ req'[r].op = "add"
      /\ req'[r].again = req[r].again
  BY <1>2, <1>3, <1>4, <1>5, GotoStep DEF MInv
<1>7. Shape' /\ \A x \in Users \ {u} : member'[x] = member[x]
  BY <1>1, <1>5, <1>6 DEF MInv, Shape
<1>8. Access(u)'
  BY <1>1, <1>4 DEF Access, RowsOf
<1>9. Found(r)' /\ Gone(r)' /\ Keeps(r)
  BY <1>3, <1>4, <1>6 DEF Found, Gone, Keeps, Work, Chat, Done
<1>10. \A i, j \in Requests : rows'[i].user = u /\ rows'[j].user = u => i = j
  BY <1>1 DEF MInv, OneRow
<1> QED
  BY <1>1, <1>2, <1>3, <1>4, <1>6, <1>7, <1>8, <1>9, <1>10, OneSteps

(* The chat's own.                                                         *)
LEMMA InviteFindOK == ASSUME MInv, NEW r \in Requests, InviteFind(r) PROVE MInv'
<1>1. /\ req[r].pc = "inviteFind" /\ UNCHANGED <<room, channel, member, rows>>
      /\ \E pc \in {"failed", "ok", "inviteInsert"} : Goto(r, pc)
  BY DEF InviteFind, At, roomvars, chatvars
<1>2. r \in Later /\ Active(r) /\ Found(r) /\ Full(req[r]) /\ req[r].op = "invite"
  BY <1>1, AtWork DEF Work, Chat, Found
<1> QED
  BY <1>1, <1>2, GoesOn

LEMMA ChatWrites ==
    ASSUME MInv, NEW r \in Later, NEW u \in Users, Active(r), Found(r), req[r].on = u, Chats(r),
           NEW pc \in {"ok", "failed"}, Goto(r, pc),
           UNCHANGED <<room, channel, rows>>, DOMAIN member' = Users,
           \A x \in Users \ {u} : member'[x] = member[x], ~channel => member'[u] = "none",
           member'[u] = "member" /\ member[u] # "member" => req[r].op = "invite"
    PROVE  MInv'
<1>1. /\ DOMAIN req' = Requests /\ \A q \in Requests \ {r} : req'[q] = req[q]
      /\ req'[r].pc = pc /\ req'[r].on = u /\ req'[r].op = req[r].op
      /\ req'[r].again = req[r].again
  BY GotoStep DEF MInv, Ended, Undone, Later
<1>2. Keeps(r)
  BY <1>1 DEF Keeps
<1>3. Outside(u) => Outside(u)'
  BY <1>1, <1>2, Remembered DEF Keeps, Later
<1>4. Access(u)'
  <2>1. req[r].op = "invite" => Outside(u)'
    BY <1>1 DEF Outside, Invited, Op, Later
  <2> QED
    BY <1>3, <2>1 DEF MInv, Access, RowsOf
<1>5. Found(r)' /\ Gone(r)'
  BY <1>1 DEF Chats, Found, Gone, Work, Chat, Done
<1>6. \A i, j \in Requests : rows'[i].user = u /\ rows'[j].user = u => i = j
  BY DEF MInv, OneRow
<1>7. Shape'
  BY <1>1 DEF MInv, Shape
<1> QED
  BY <1>1, <1>2, <1>4, <1>5, <1>6, <1>7, OneSteps

LEMMA InviteInsertOK == ASSUME MInv, NEW r \in Requests, InviteInsert(r) PROVE MInv'
<1>1. req[r].pc = "inviteInsert" /\ UNCHANGED <<room, channel, rows>>
  BY DEF InviteInsert, At, roomvars
<1>2. r \in Later /\ Active(r) /\ Found(r) /\ req[r].op = "invite" /\ Chats(r)
  BY <1>1, AtWork DEF Work, Chat, Found, Chats
<1>3. PICK u \in Users : req[r].on = u
  BY <1>1, AtWork DEF Work, Chat
<1>4. CASE channel /\ member[u] = "none"
  <2>1. Goto(r, "ok") /\ member' = [member EXCEPT ![u] = "member"]
    BY <1>3, <1>4 DEF InviteInsert
  <2>2. DOMAIN member' = Users /\ \A x \in Users \ {u} : member'[x] = member[x]
    BY <2>1 DEF MInv, Shape
  <2> QED
    BY <1>1, <1>2, <1>3, <1>4, <2>1, <2>2, ChatWrites
<1>5. CASE ~(channel /\ member[u] = "none")
  <2>1. Goto(r, "failed") /\ member' = member
    BY <1>3, <1>5 DEF InviteInsert
  <2>2. DOMAIN member' = Users /\ (~channel => member'[u] = "none")
    BY <2>1 DEF MInv, Shape, Made
  <2> QED
    BY <1>1, <1>2, <1>3, <2>1, <2>2, ChatWrites
<1> QED
  BY <1>4, <1>5

LEMMA ExpelDeleteOK == ASSUME MInv, NEW r \in Requests, ExpelDelete(r) PROVE MInv'
<1>1. req[r].pc = "expelDelete" /\ UNCHANGED <<room, channel, rows>> /\ Goto(r, "ok")
  BY DEF ExpelDelete, At, roomvars
<1>2. r \in Later /\ Active(r) /\ Found(r) /\ Chats(r)
  BY <1>1, AtWork DEF Work, Chat, Found, Chats
<1>3. PICK u \in Users : req[r].on = u
  BY <1>1, AtWork DEF Work, Chat
<1>4. DOMAIN member' = Users /\ member'[u] = "none" /\ \A x \in Users \ {u} : member'[x] = member[x]
  BY <1>3 DEF ExpelDelete, MInv, Shape
<1> QED
  BY <1>1, <1>2, <1>3, <1>4, ChatWrites

LEMMA ChatDeleteOK == ASSUME MInv, NEW r \in Requests, ChatDelete(r) PROVE MInv'
<1>1. req[r].pc = "chatDelete" /\ UNCHANGED <<room, channel, rows>> /\ Goto(r, "revoke")
  BY DEF ChatDelete, At, roomvars
<1>2. r \in Later /\ Active(r) /\ Found(r) /\ Full(req[r])
  BY <1>1, AtWork DEF Work, Chat
<1>3. PICK u \in Users : req[r].on = u
  BY <1>1, AtWork DEF Work, Chat
<1>4. req[r].op = "remove"
  BY <1>1, <1>2 DEF Found
<1>5. /\ DOMAIN member' = Users /\ member'[u] = IF member[u] = "member" THEN "none" ELSE member[u]
      /\ \A x \in Users \ {u} : member'[x] = member[x]
  BY <1>3 DEF ChatDelete, MInv, Shape
<1>6. /\ DOMAIN req' = Requests /\ \A q \in Requests \ {r} : req'[q] = req[q]
      /\ req'[r].pc = "revoke" /\ req'[r].on = u /\ req'[r].op = "remove"
      /\ req'[r].again = req[r].again /\ Full(req'[r])
  BY <1>1, <1>2, <1>3, <1>4, GotoStep DEF MInv, Ended, Undone
<1>7. Shape' /\ (~channel => member'[u] = "none")
  BY <1>1, <1>5, <1>6 DEF MInv, Shape, Made
<1>8. member'[u] # "member" /\ Access(u)'
  BY <1>5 DEF Access
<1>9. Found(r)' /\ Gone(r)' /\ Keeps(r)
  BY <1>3, <1>4, <1>6, <1>8 DEF Found, Gone, Keeps, Work, Chat, Done
<1>10. \A i, j \in Requests : rows'[i].user = u /\ rows'[j].user = u => i = j
  BY <1>1 DEF MInv, OneRow
<1> QED
  BY <1>1, <1>2, <1>3, <1>5, <1>6, <1>7, <1>8, <1>9, <1>10, OneSteps

(* The count, the end, and a request cut short, of later requests.         *)
LEMMA EndsOK ==
    ASSUME MInv, NEW r \in Later, Recount(r) \/ Emit(r) \/ Stop(r)
    PROVE  MInv'
<1>1. Active(r) /\ r \in Requests /\ UNCHANGED <<room, channel, member, rows>>
  BY DEF Recount, Emit, Stop, At, Active, Ended, Undone, Later, roomvars, chatvars
<1>2. Found(r) /\ Gone(r) /\ req[r].on \in Users
  BY <1>1 DEF MInv, Found, Active
<1>3. PICK pc \in {"emit", "ok", "stopped"} :
         /\ DOMAIN req' = Requests /\ \A q \in Requests \ {r} : req'[q] = req[q]
         /\ req'[r].pc = pc /\ req'[r].on = req[r].on /\ req'[r].op = req[r].op
         /\ req'[r].again = req[r].again
         /\ pc \in {"emit", "ok"} => req[r].pc \in {"recount", "emit"}
  <2>1. CASE Recount(r)
    <3>1. DOMAIN req = Requests
      BY DEF MInv, Shape
    <3> QED
      BY <1>1, <2>1, <3>1 DEF Recount, Send, At
  <2>2. CASE Emit(r)
    BY <1>1, <2>2, GotoStep DEF Emit, At, MInv, Ended, Undone
  <2>3. CASE Stop(r)
    BY <1>1, <2>3, GotoStep DEF Stop, MInv, Ended, Undone
  <2> QED
    BY <2>1, <2>2, <2>3
<1>4. Keeps(r)
  BY <1>3 DEF Keeps
<1>5. RowsOf(req[r].on)' = RowsOf(req[r].on)
  BY <1>1, <1>3 DEF RowsOf
<1>6. Found(r)'
  BY <1>2, <1>3 DEF Found, Work, Chat, Done
<1>7. Gone(r)'
  <2>1. \A q \in Later : q > r => req'[q] = req[q]
    BY <1>3 DEF Later, Requests
  <2> QED
    BY <1>2, <1>3, <1>5, <2>1 DEF Gone
<1> QED
  BY <1>1, <1>3, <1>4, <1>6, <1>7, Looks

-----------------------------------------------------------------------------
(* The request that makes the room: nothing else has begun, or it writes   *)
(* nothing any more.                                                       *)
LEMMA ZeroSteps ==
    ASSUME MInv, Shape', Made', OneRow', \A u \in Users : Access(u)',
           \A q \in Later : req'[q] = req[q],
           \/ UNCHANGED <<channel, member, rows>>
           \/ \A q \in Later : (At(q, "idle") \/ Chats(q)) /\ rows'[q] = NoRow
    PROVE  MInv'
<1>1. InOrder' /\ Lone'
  BY DEF MInv, InOrder, Lone, At, Active
<1>2. CASE UNCHANGED <<channel, member, rows>>
  <2>1. ASSUME NEW u PROVE RowsOf(u)' = RowsOf(u) /\ (Outside(u) <=> Outside(u)')
    BY <1>2 DEF RowsOf, Outside, Bypassed, Invited, Op, Later
  <2>2. ASSUME NEW q \in Later PROVE Found(q)' /\ Gone(q)'
    <3> DEFINE x == req[q].on
    <3>1. x' = x /\ RowsOf(x)' = RowsOf(x) /\ (Outside(x) <=> Outside(x)')
      BY <1>2 DEF RowsOf, Outside, Bypassed, Invited, Op, Later
    <3> QED
      BY <1>2, <3>1 DEF MInv, Found, Gone
  <2> QED
    BY <1>1, <2>2 DEF MInv
<1>3. CASE \A q \in Later : (At(q, "idle") \/ Chats(q)) /\ rows'[q] = NoRow
  <2>1. ASSUME NEW q \in Later PROVE Found(q)' /\ Gone(q)'
    <3>1. CASE At(q, "idle")
      BY <1>3, <3>1 DEF Found, Gone, At, Work, Chat, Done
    <3>2. CASE Chats(q)
      BY <1>3, <3>2 DEF MInv, Found, Gone, Chats, Full
    <3> QED
      BY <1>3, <3>1, <3>2
  <2> QED
    BY <1>1, <2>1 DEF MInv
<1> QED
  BY <1>2, <1>3

(* What Goto makes of the first request.                                   *)
LEMMA ZeroGoto ==
    ASSUME MInv, NEW pc, Goto(0, pc), pc \in Ended \cup {"recount"} \/ Full(req[0])
    PROVE  /\ DOMAIN req' = Requests /\ \A q \in Later : req'[q] = req[q]
           /\ req'[0].pc = pc /\ req'[0].op = "create"
           /\ pc \notin Ended \cup {"recount"} => Full(req'[0])
<1>1. 0 \in Requests
  BY MemberAssumption DEF Requests
<1> QED
  BY <1>1, GotoStep DEF MInv, Made, Later

LEMMA CreateOK == ASSUME MInv, NEW r \in Requests, Create(r) PROVE MInv'
<1>1. req[r].pc \in Make
  BY DEF Create, MakeRoom, MakeChannel, BindChannel, PermitCreator, CreateFails,
         DropChannel, DropRoom, At, Make
<1>2. r = 0
  <2>1. ASSUME r \in Later PROVE FALSE
    BY <1>1, <2>1 DEF MInv, Found, Make, Work, Chat, Done
  <2> QED
    BY <2>1 DEF Later
<1>3. /\ Full(req[0]) /\ req[0].op = "create" /\ 0 \in Requests
      /\ \A i \in Requests : rows[i] = NoRow
      /\ \A q \in Later : (At(q, "idle") \/ Chats(q)) /\ q \in Requests /\ q # 0
      /\ req[0].pc \in {"room", "channel", "dropRoom"} => ~channel
      /\ ~channel => \A u \in Users : member[u] = "none"
  BY <1>1, <1>2 DEF MInv, Made, Later
<1>4. ASSUME NEW pc \in (Make \ {"room"}) \cup {"failed"} \cup Undone, Goto(0, pc), UNCHANGED rows,
             DOMAIN member' = Users,
             pc \in {"channel", "dropRoom", "undone", "leftRoom"} => ~channel',
             pc \in {"undone", "leftChannel"} => room' = "none",
             ~channel' => \A u \in Users : member'[u] = "none",
             \A u \in Users : member'[u] = "member" => member[u] = "member"
      PROVE  MInv'
  <2>1. /\ DOMAIN req' = Requests /\ \A q \in Later : req'[q] = req[q]
        /\ req'[0].pc = pc /\ req'[0].op = "create"
        /\ pc \in Make => Full(req'[0])
    BY <1>3, <1>4, ZeroGoto DEF Make, Ended, Undone
  <2>2. Made'
    BY <1>3, <1>4, <2>1 DEF Made, Make, Done, Undone, At, Chats
  <2>3. Shape' /\ OneRow' /\ \A q \in Later : rows'[q] = NoRow
    BY <1>3, <1>4, <2>1 DEF MInv, Shape, OneRow
  <2>4. \A u \in Users : Access(u)'
    <3>1. \A u \in Users : RowsOf(u)' = RowsOf(u) /\ (Outside(u) <=> Outside(u)')
      BY <1>4, <2>1 DEF RowsOf, Outside, Bypassed, Invited, Op, Later
    <3> QED
      BY <1>4, <3>1 DEF MInv, Access
  <2> QED
    BY <1>3, <2>1, <2>2, <2>3, <2>4, ZeroSteps
<1>5. CASE MakeRoom(r) \/ BindChannel(r) \/ CreateFails(r) \/ DropRoom(r)
  <2>1. UNCHANGED <<channel, member, rows>>
    BY <1>5 DEF MakeRoom, BindChannel, CreateFails, DropRoom, roomvars, chatvars
  <2>2. PICK pc \in {"channel", "permit", "failed", "dropChannel", "dropRoom"} \cup Undone :
           /\ Goto(0, pc)
           /\ pc \in {"channel", "dropRoom", "undone", "leftRoom"} => ~channel
           /\ pc \in {"undone", "leftChannel"} => room' = "none"
    BY <1>2, <1>3, <1>5 DEF MakeRoom, BindChannel, CreateFails, DropRoom, At, Undone
  <2> QED
    BY <1>3, <1>4, <2>1, <2>2 DEF Make, MInv, Shape
<1>6. CASE MakeChannel(r)
  <2>1. /\ Goto(0, "bind") /\ UNCHANGED rows /\ channel'
        /\ member' = [member EXCEPT ![Creator] = "admin"]
    BY <1>2, <1>6 DEF MakeChannel
  <2>2. DOMAIN member' = Users /\ \A u \in Users : member'[u] = "member" => member[u] = "member"
    BY <2>1 DEF MInv, Shape
  <2> QED
    BY <1>4, <2>1, <2>2 DEF Make
<1>7. CASE DropChannel(r)
  <2>1. UNCHANGED rows
    BY <1>7 DEF DropChannel
  <2>2. CASE ~channel' /\ member' = [u \in Users |-> "none"] /\ Goto(0, "dropRoom")
    BY <1>4, <2>1, <2>2 DEF Make
  <2>3. CASE UNCHANGED chatvars /\ Goto(0, "dropRoomOnly")
    BY <1>3, <1>4, <2>1, <2>3 DEF Make, MInv, Shape, chatvars, Undone
  <2> QED
    BY <1>2, <1>7, <2>2, <2>3 DEF DropChannel
<1>8. CASE PermitCreator(r)
  <2>1. /\ UNCHANGED <<channel, member>> /\ rows' = [rows EXCEPT ![0] = Row(Creator, "admin")]
        /\ Send(0, 1)
    BY <1>2, <1>8 DEF PermitCreator, chatvars
  <2>2. /\ DOMAIN req' = Requests /\ \A q \in Later : req'[q] = req[q]
        /\ req'[0].pc = "emit" /\ req'[0].op = "create"
    BY <1>3, <2>1 DEF Send, MInv, Shape
  <2>3. /\ DOMAIN rows' = Requests /\ rows'[0].user = Creator
        /\ \A q \in Requests \ {0} : rows'[q] = NoRow
    BY <1>3, <2>1 DEF MInv, Shape, Row
  <2>4. Made'
    BY <1>3, <2>1, <2>2 DEF Made, Make, Done, Undone
  <2>5. OneRow'
    <3>1. NoRow.user \notin Users
      BY MemberAssumption DEF NoRow
    <3> QED
      BY <2>3, <3>1 DEF OneRow
  <2>6. ASSUME NEW u \in Users PROVE Access(u)'
    <3>1. RowsOf(u) = {}
      BY <1>3, MemberAssumption DEF RowsOf, NoRow
    <3>2. member[u] = "member" => Outside(u)
      BY <3>1 DEF MInv, Access
    <3>3. Outside(u) => Outside(u)'
      BY <2>2 DEF Outside, Bypassed, Invited, Op, Later
    <3> QED
      BY <2>1, <3>2, <3>3 DEF Access
  <2>7. Shape'
    BY <2>1, <2>2, <2>3 DEF MInv, Shape
  <2> QED
    BY <1>3, <2>2, <2>3, <2>4, <2>5, <2>6, <2>7, ZeroSteps DEF Later
<1> QED
  BY <1>5, <1>6, <1>7, <1>8 DEF Create

LEMMA ZeroEnds == ASSUME MInv, Recount(0) \/ Emit(0) \/ Stop(0) PROVE MInv'
<1>1. UNCHANGED <<channel, member, rows>> /\ (Goto(0, "ok") \/ Goto(0, "stopped"))
  BY DEF Recount, Emit, Stop, At, MInv, Made, Make, Undone, roomvars, chatvars
<1>2. PICK pc \in {"ok", "stopped"} :
         /\ DOMAIN req' = Requests /\ \A q \in Later : req'[q] = req[q]
         /\ req'[0].pc = pc /\ req'[0].op = "create"
  BY <1>1, ZeroGoto DEF Ended, Undone
<1>3. Made' /\ Shape' /\ OneRow'
  BY <1>1, <1>2 DEF MInv, Made, Make, Done, Undone, Shape, OneRow, Chats, At
<1>4. \A u \in Users : Access(u)'
  BY <1>1, <1>2 DEF MInv, Access, RowsOf, Outside, Bypassed, Invited, Op, Later
<1> QED
  BY <1>1, <1>2, <1>3, <1>4, ZeroSteps

-----------------------------------------------------------------------------
LEMMA Stepwise == ASSUME Apart, MInv, [Next]_vars PROVE MInv'
<1>1. ASSUME NEW r \in Requests, Create(r) PROVE MInv'
  BY <1>1, CreateOK
<1>2. ASSUME NEW r \in Requests, Start(r) PROVE MInv'
  BY <1>2, StartOK
<1>3. ASSUME NEW r \in Requests, Continue(r) \/ Stop(r) PROVE MInv'
  <2>1. CASE Recount(r) \/ Emit(r) \/ Stop(r)
    BY <2>1, EndsOK, ZeroEnds DEF Later
  <2> QED
    BY <1>3, <2>1, GrantFindOK, GrantSaveOK, RevokeFindOK, RevokeDeleteOK, ChatFindOK,
       ChatInsertOK, ChatFailsOK, RemoveCheckOK, ChatDeleteOK, InviteFindOK, InviteInsertOK,
       ExpelDeleteOK DEF Continue
<1>4. CASE UpdateParticipantsCount \/ DeleteRoom \/ UNCHANGED vars
  <2>1. UNCHANGED <<channel, member, rows, req>> /\ (room' = room \/ room' = "none")
    BY <1>4 DEF UpdateParticipantsCount, DeleteRoom, vars, chatvars, roomvars
  <2> QED
    BY <2>1 DEF MInv, Shape, OneRow, InOrder, Lone, Made, Access, Found, Gone, Full,
                RowsOf, Outside, Bypassed, Invited, Chats, Active, At, Op
<1> QED
  BY <1>1, <1>2, <1>3, <1>4 DEF Next

LEMMA Always == ASSUME Apart PROVE Spec => []MInv
<1>1. Init => MInv
  BY Initially
<1>2. MInv /\ [Next]_vars => MInv'
  BY Stepwise
<1> QED
  BY <1>1, <1>2, PTL DEF Spec

(* grantPermission inserts no second row for a user, as long as requests   *)
(* on one user do not overlap.                                             *)
THEOREM PermittedOnce == ASSUME Apart PROVE Spec => []OneRowEach
<1>1. ASSUME MInv PROVE OneRowEach
  <2> SUFFICES ASSUME NEW u \in Users PROVE Cardinality(RowsOf(u)) <= 1
    BY DEF OneRowEach
  <2>1. \A i, j \in RowsOf(u) : i = j
    BY <1>1 DEF MInv, OneRow, RowsOf
  <2>2. CASE RowsOf(u) = {}
    BY <2>2, FS_EmptySet
  <2>3. CASE RowsOf(u) # {}
    <3>1. PICK i : RowsOf(u) = {i}
      BY <2>1, <2>3
    <3>2. Cardinality({i}) = 1
      BY FS_Singleton
    <3> QED
      BY <3>1, <3>2
  <2> QED
    BY <2>2, <2>3
<1>2. MInv => OneRowEach
  BY <1>1
<1> QED
  BY <1>2, Always, PTL

(* addUsersToRoom and removeUsersFromRoom leave nobody in the chat without *)
(* a permission, wherever they fail or stop and whatever the endpoints of  *)
(* the chat do, but those whom ChatNeedsAccess excepts.                    *)
THEOREM ChatFollowsAccess == ASSUME Apart PROVE Spec => []ChatNeedsAccess
<1>1. MInv => ChatNeedsAccess
  BY DEF MInv, Access, Outside, ChatNeedsAccess
<1> QED
  BY <1>1, Always, PTL

(* A user whom removeUsersFromRoom removed has no permission until another *)
(* request names him.                                                      *)
THEOREM RemovalStands == ASSUME Apart PROVE Spec => []RemovedHaveNoAccess
<1>1. ASSUME MInv PROVE RemovedHaveNoAccess
  <2> SUFFICES ASSUME NEW r \in Later, NEW u \in Users, Op(r, "remove"), At(r, "ok"), LastOn(r, u)
               PROVE  RowsOf(u) = {}
    BY DEF RemovedHaveNoAccess, Later
  <2>1. \A q \in Later : q > r => q \in (r + 1)..MaxRequests
    BY MemberAssumption DEF Later, Requests
  <2> QED
    BY <1>1, <2>1 DEF MInv, Gone, LastOn, Op, At
<1>2. MInv => RemovedHaveNoAccess
  BY <1>1
<1> QED
  BY <1>2, Always, PTL

(* When createRoom fails and undoes what it did, a room or a channel is    *)
(* left only if deleting it failed, and no permission is.                  *)
THEOREM UndoneIsUndone == ASSUME Apart PROVE Spec => []CreationUndone
<1>1. MInv => CreationUndone
  BY DEF MInv, Made, CreationUndone, Undone, Participants
<1> QED
  BY <1>1, Always, PTL

-----------------------------------------------------------------------------
(* The number of participants.  What the room will show once the numbers   *)
(* on their way have come is what there are, but for a user whom a request *)
(* has permitted and may still refuse.                                     *)
Number == Cardinality(Participants)
Told   == IF counts = <<>> THEN count ELSE counts[Len(counts)]

Plain(r) == req[r].pc # "idle" =>
    /\ req[r].pc # "stopped" /\ req[r].op \notin {"grant", "revoke"}
    /\ req[r].op = "add" => ~req[r].again

Clean ==
    /\ ~overlap /\ room = "bound" /\ req[0].pc \in {"emit", "ok"}
    /\ \A r \in Later : Plain(r)

Inserted == {"chatFind", "chatInsert", "revoke", "delete"}

Counted(r) ==
    LET c == req[r] IN
    /\ c.pc = "emit" => c.n = Number
    /\ c.pc \in Work => IF c.op = "add" /\ c.pc \in Inserted
                          THEN Told = Number - 1 /\ RowsOf(c.on) = {r} /\ MayModify(r)
                          ELSE Told = Number
    /\ c.op = "add" /\ c.pc = "save" => RowsOf(c.on) = {} /\ c.id = r /\ MayModify(r)

Alone == ~overlap => \A q, r \in Requests : Active(q) /\ Active(r) => q = r

CountInv ==
    /\ counts \in Seq(Nat)
    /\ \A r \in Requests : At(r, "emit") => req[r].n \in Nat
    /\ Alone
    /\ req[0].pc \in {"room", "failed"} => room = "none"
    /\ Clean => \/ \E r \in Requests : Active(r) /\ Counted(r)
                \/ (\A r \in Requests : ~Active(r)) /\ Told = Number

LEMMA Finitely == IsFiniteSet(Participants) /\ Number \in Nat
<1>1. IsFiniteSet(Requests)
  BY MemberAssumption, FS_Interval DEF Requests
<1>2. Participants \subseteq Requests
  BY DEF Participants
<1> QED
  BY <1>1, <1>2, FS_Subset, FS_CardinalityType DEF Number

LEMMA CountInitially == ASSUME Init PROVE CountInv
<1>1. /\ \A r \in Later : req[r] = Idle
      /\ req[0] = Call("create", "room", Creator, Creator, "admin")
  BY MemberAssumption DEF Init, Later, Requests
<1>2. req[0].pc = "room" /\ \A r \in Later : req[r].pc = "idle"
  BY <1>1 DEF Idle, Call
<1>3. Alone /\ ~Clean /\ \A r \in Requests : ~At(r, "emit")
  BY <1>2 DEF Alone, Active, Clean, At, Later
<1> QED
  BY <1>2, <1>3 DEF Init, CountInv

LEMMA Known ==
    ASSUME CountInv, Clean, NEW r \in Requests, Active(r)
    PROVE  Counted(r) /\ \A q \in Requests \ {r} : ~Active(q)
  BY DEF CountInv, Clean, Alone

(* A step of request r keeps the account if it does in the clean case.     *)
LEMMA StepCounts ==
    ASSUME CountInv, NEW r \in Requests, Active(r), DOMAIN req' = Requests,
           \A q \in Requests \ {r} : req'[q] = req[q], UNCHANGED overlap,
           counts' \in Seq(Nat), At(r, "emit")' => req'[r].n \in Nat,
           req'[0].pc \in {"room", "failed"} => room' = "none",
           Clean' => IF Active(r)' THEN Counted(r)' ELSE Told' = Number'
    PROVE  CountInv'
<1>1. Alone'
  BY DEF CountInv, Alone, Active
<1>2. \A q \in Requests : At(q, "emit")' => req'[q].n \in Nat
  BY DEF CountInv, At
<1>3. Clean' => \A q \in Requests \ {r} : ~Active(q)'
  BY DEF CountInv, Alone, Clean, Active
<1> QED
  BY <1>1, <1>2, <1>3 DEF CountInv

LEMMA LaterCounts ==
    ASSUME MInv, CountInv, NEW r \in Later, Active(r), DOMAIN req' = Requests,
           \A q \in Requests \ {r} : req'[q] = req[q], Keeps(r), UNCHANGED <<overlap, room>>,
           counts' \in Seq(Nat), At(r, "emit")' => req'[r].n \in Nat,
           Clean /\ Counted(r) /\ Plain(r) /\ Plain(r)'
              => IF Active(r)' THEN Counted(r)' ELSE Told' = Number'
    PROVE  CountInv'
<1>1. r \in Requests /\ r # 0 /\ 0 \in Requests /\ req'[0] = req[0]
  BY MemberAssumption DEF Later, Requests
<1>2. ASSUME Clean' PROVE Clean /\ Plain(r) /\ Plain(r)'
  <2>1. Plain(r)'
    BY <1>2 DEF Clean
  <2>2. Plain(r)
    BY <2>1 DEF Plain, Keeps, Active, Ended, Undone
  <2>3. \A q \in Later \ {r} : Plain(q)
    BY <1>2 DEF Clean, Plain, Later
  <2> QED
    BY <1>1, <1>2, <2>1, <2>2, <2>3 DEF Clean
<1>3. Clean => Counted(r)
  BY <1>1, Known
<1> QED
  BY <1>1, <1>2, <1>3, StepCounts DEF CountInv

(* A step that writes no permission.                                       *)
LEMMA LookCounts ==
    ASSUME MInv, CountInv, NEW r \in Later, Active(r), NEW pc, Goto(r, pc),
           pc \in Ended \cup {"recount"} \/ (Full(req[r]) /\ pc \in Work \ {"save"}),
           UNCHANGED <<overlap, room, count, counts, rows>>,
           Clean /\ Counted(r) /\ Plain(r)
              => \/ pc \in {"recount", "stopped"}
                 \/ pc \in Ended /\ Told = Number
                 \/ /\ req[r].op = "add" /\ pc \in Inserted
                    /\ Told = Number - 1 /\ RowsOf(req[r].on) = {r} /\ MayModify(r)
                 \/ ~(req[r].op = "add" /\ pc \in Inserted) /\ pc \in Work /\ Told = Number
    PROVE  CountInv'
<1>1. /\ DOMAIN req' = Requests /\ \A q \in Requests \ {r} : req'[q] = req[q]
      /\ req'[r].pc = pc /\ req'[r].on = req[r].on /\ req'[r].op = req[r].op
      /\ req'[r].again = req[r].again
      /\ pc \in Work => req'[r].by = req[r].by
  BY GotoStep DEF MInv, Later, Ended, Undone, Work, Chat
<1>2. pc \notin {"idle", "emit"}
  BY DEF Ended, Undone, Work, Chat
<1>3. Keeps(r)
  BY <1>1, <1>2 DEF Keeps
<1>4. counts' \in Seq(Nat) /\ Told' = Told /\ Number' = Number
  BY DEF CountInv, Told, Number, Participants
<1>5. ASSUME Clean, Counted(r), Plain(r), Plain(r)'
      PROVE  IF Active(r)' THEN Counted(r)' ELSE Told' = Number'
  <2>1. pc # "stopped"
    BY <1>1, <1>2, <1>5 DEF Plain
  <2>2. CASE pc \in Ended
    BY <1>1, <1>4, <1>5, <2>1, <2>2 DEF Active, Ended, Undone, Work, Chat, Inserted
  <2>3. CASE pc = "recount"
    BY <1>1, <2>3 DEF Counted, Active, Ended, Undone, Work, Chat
  <2>4. CASE pc \in Work \ {"save"}
    <3>1. RowsOf(req[r].on)' = RowsOf(req[r].on) /\ RowsOf(req'[r].on) = RowsOf(req[r].on)
      BY <1>1 DEF RowsOf
    <3>2. MayModify(r) => MayModify(r)'
      BY <1>1, <2>4 DEF MayModify, MayAct, RowsOf
    <3>3. Active(r)'
      BY <1>1, <2>4 DEF Active, Ended, Undone, Work, Chat
    <3>4. IF req[r].op = "add" /\ pc \in Inserted
            THEN Told = Number - 1 /\ RowsOf(req[r].on) = {r} /\ MayModify(r)
            ELSE Told = Number
      BY <1>5, <2>4 DEF Work, Chat, Ended, Undone
    <3>5. RowsOf(req[r].on) = {r} => RowsOf(req[r].on)' = {r}
      BY <1>1 DEF RowsOf
    <3> QED
      BY <1>1, <1>4, <2>4, <3>2, <3>3, <3>4, <3>5 DEF Counted, Work, Chat
  <2> QED
    BY <2>2, <2>3, <2>4
<1> QED
  BY <1>1, <1>2, <1>3, <1>4, <1>5, LaterCounts DEF At
(* Looking up and the chat.                                                *)
LEMMA ChatCounts ==
    ASSUME MInv, CountInv, NEW r \in Requests,
           \/ ChatFind(r) \/ ChatInsert(r) \/ ChatFails(r) \/ RemoveCheck(r) \/ ChatDelete(r)
           \/ InviteFind(r) \/ InviteInsert(r) \/ ExpelDelete(r)
    PROVE  CountInv'
<1>1. /\ req[r].pc \in {"chatFind", "chatInsert", "check", "chatDelete"} \cup Chat
      /\ UNCHANGED <<overlap, room, count, counts, rows>>
  BY DEF ChatFind, ChatInsert, ChatFails, RemoveCheck, ChatDelete, InviteFind, InviteInsert, ExpelDelete,
         Chat, At, roomvars, chatvars
<1>2. r \in Later /\ Active(r) /\ Found(r) /\ Full(req[r])
  BY <1>1, AtWork DEF Work, Chat
<1>3. CASE req[r].pc \in {"chatFind", "chatInsert"}
  <2>1. req[r].op = "add"
    BY <1>2, <1>3 DEF Found
  <2>2. PICK pc \in {"revoke", "recount", "chatInsert"} : Goto(r, pc)
    BY <1>3 DEF ChatFind, ChatInsert, ChatFails, RemoveCheck, ChatDelete, InviteFind, InviteInsert,
                ExpelDelete, At
  <2>3. Counted(r) => Told = Number - 1 /\ RowsOf(req[r].on) = {r} /\ MayModify(r)
    BY <1>3, <2>1 DEF Counted, Work, Chat, Inserted
  <2> QED
    BY <1>1, <1>2, <2>1, <2>2, <2>3, LookCounts DEF Work, Chat, Inserted
<1>4. CASE req[r].pc \in {"check", "chatDelete"}
  <2>1. req[r].op = "remove"
    BY <1>2, <1>4 DEF Found
  <2>2. PICK pc \in {"revoke", "failed", "chatDelete"} : Goto(r, pc)
    BY <1>4 DEF ChatFind, ChatInsert, ChatFails, RemoveCheck, ChatDelete, InviteFind, InviteInsert,
                ExpelDelete, At
  <2>3. Counted(r) => Told = Number
    BY <1>4, <2>1 DEF Counted, Work, Chat
  <2> QED
    BY <1>1, <1>2, <2>1, <2>2, <2>3, LookCounts DEF Work, Chat, Ended, Undone
<1>5. CASE req[r].pc \in Chat
  <2>1. req[r].op \in {"invite", "expel"}
    BY <1>2, <1>5 DEF Found, Chat
  <2>2. PICK pc \in {"ok", "failed", "inviteInsert"} : Goto(r, pc)
    BY <1>5 DEF ChatFind, ChatInsert, ChatFails, RemoveCheck, ChatDelete, InviteFind, InviteInsert,
                ExpelDelete, Chat, At
  <2>3. Counted(r) => Told = Number
    BY <1>5, <2>1 DEF Counted, Work, Chat
  <2> QED
    BY <1>1, <1>2, <2>1, <2>2, <2>3, LookCounts DEF Work, Chat, Ended, Undone
<1> QED
  BY <1>1, <1>3, <1>4, <1>5

LEMMA GrantFindCounts == ASSUME MInv, CountInv, NEW r \in Requests, GrantFind(r) PROVE CountInv'
<1>1. req[r].pc = "grant" /\ UNCHANGED <<overlap, room, count, counts, rows>>
  BY DEF GrantFind, At, roomvars, chatvars
<1>2. r \in Later /\ Active(r) /\ Found(r) /\ Full(req[r])
  BY <1>1, AtWork DEF Work, Chat
<1>3. Counted(r) => Told = Number
  BY <1>1 DEF Counted, Work, Chat, Inserted
<1>4. CASE Goto(r, "failed")
  BY <1>1, <1>2, <1>3, <1>4, LookCounts DEF Ended, Undone
<1>5. ASSUME MayModify(r), RowsOf(req[r].on) = {}, req' = [req EXCEPT ![r].pc = "save", ![r].id = r]
      PROVE  CountInv'
  <2>1. /\ DOMAIN req' = Requests /\ \A q \in Requests \ {r} : req'[q] = req[q]
        /\ req'[r] = [req[r] EXCEPT !.pc = "save", !.id = r]
    BY <1>5 DEF MInv, Shape
  <2>2. /\ req'[r].pc = "save" /\ req'[r].id = r /\ req'[r].again = req[r].again
        /\ req'[r].on = req[r].on /\ req'[r].op = req[r].op /\ req'[r].by = req[r].by
    BY <1>2, <2>1 DEF Full
  <2>3. counts' \in Seq(Nat) /\ Told' = Told /\ Number' = Number
    BY <1>1 DEF CountInv, Told, Number, Participants
  <2>4. MayModify(r)' /\ RowsOf(req[r].on)' = {}
    BY <1>1, <1>5, <2>2 DEF MayModify, MayAct, RowsOf
  <2>5. Keeps(r) /\ ~At(r, "emit")'
    BY <2>2 DEF Keeps, At
  <2>6. Counted(r) => Counted(r)'
    BY <1>3, <2>2, <2>3, <2>4 DEF Counted, Inserted
  <2>7. Active(r)'
    BY <2>2 DEF Active, Ended, Undone
  <2> QED
    BY <1>1, <1>2, <2>1, <2>3, <2>5, <2>6, <2>7, LaterCounts
<1>6. ASSUME NEW i, req' = [req EXCEPT ![r].pc = "save", ![r].id = i, ![r].again = TRUE]
      PROVE  CountInv'
  <2>1. /\ DOMAIN req' = Requests /\ \A q \in Requests \ {r} : req'[q] = req[q]
        /\ req'[r] = [req[r] EXCEPT !.pc = "save", !.id = i, !.again = TRUE]
    BY <1>6 DEF MInv, Shape
  <2>2. /\ req'[r].pc = "save" /\ req'[r].again
        /\ req'[r].on = req[r].on /\ req'[r].op = req[r].op
    BY <1>2, <2>1 DEF Full
  <2>3. counts' \in Seq(Nat) /\ Keeps(r) /\ ~At(r, "emit")'
    BY <1>1, <2>2 DEF CountInv, Keeps, At
  <2>4. ~Plain(r)'
    BY <1>1, <1>2, <2>2 DEF Plain, Found
  <2> QED
    BY <1>1, <1>2, <2>1, <2>3, <2>4, LaterCounts
<1> QED
  BY <1>4, <1>5, <1>6 DEF GrantFind

(* A permission that was not there is one participant more.                *)
LEMMA GrantSaveCounts == ASSUME MInv, CountInv, NEW r \in Requests, GrantSave(r) PROVE CountInv'
<1>1. req[r].pc = "save" /\ UNCHANGED <<overlap, room, count, counts>>
  BY DEF GrantSave, At, roomvars, chatvars
<1>2. r \in Later /\ Active(r) /\ Found(r) /\ Full(req[r])
  BY <1>1, AtWork DEF Work, Chat
<1>3. PICK u \in Users, i \in Requests : req[r].on = u /\ req[r].id = i
  BY <1>1, <1>2, AtWork DEF Work, Chat, Found
<1>4. PICK role : rows' = [rows EXCEPT ![i] = Row(u, role)]
  BY <1>3 DEF GrantSave
<1>5. PICK pc \in {"chatFind", "ok"} : Goto(r, pc) /\ (pc = "chatFind" <=> req[r].op = "add")
  BY DEF GrantSave, Op
<1>6. /\ DOMAIN req' = Requests /\ \A q \in Requests \ {r} : req'[q] = req[q]
      /\ req'[r].pc = pc /\ req'[r].on = req[r].on /\ req'[r].op = req[r].op
      /\ req'[r].again = req[r].again
      /\ pc = "chatFind" => req'[r].by = req[r].by
  BY <1>2, <1>5, GotoStep DEF MInv, Ended, Undone
<1>7. counts' \in Seq(Nat) /\ Told' = Told /\ Keeps(r) /\ ~At(r, "emit")'
  BY <1>1, <1>5, <1>6 DEF CountInv, Told, Keeps, At
<1>8. ASSUME Counted(r), Plain(r) PROVE Active(r)' /\ Counted(r)'
  <2>1. req[r].op = "add" /\ pc = "chatFind"
    BY <1>1, <1>2, <1>5, <1>8 DEF Found, Plain
  <2>2. Told = Number /\ RowsOf(u) = {} /\ i = r /\ MayModify(r)
    BY <1>1, <1>3, <1>8, <2>1 DEF Counted, Work, Chat, Inserted
  <2>3. rows[r] = NoRow /\ r \in Requests
    BY <1>1, <1>2, <1>3, <2>2 DEF Found, RowsOf
  <2>4. /\ rows'[r] = Row(u, role) /\ rows'[r].user = u /\ rows'[r] # NoRow
        /\ \A q \in Requests \ {r} : rows'[q] = rows[q]
    BY <1>3, <1>4, <2>2, <2>3, MemberAssumption DEF MInv, Shape, Row, NoRow
  <2>5. RowsOf(u)' = {r}
    <3>1. \A q \in Requests : rows'[q].user = u <=> q = r
      BY <2>2, <2>3, <2>4 DEF RowsOf
    <3> QED
      BY <2>3, <3>1 DEF RowsOf
  <2>6. Participants' = Participants \cup {r} /\ r \notin Participants
    BY <2>3, <2>4 DEF Participants
  <2>7. Number' = Number + 1 /\ Number \in Nat
    BY <2>6, Finitely, FS_AddElement DEF Number
  <2>8. MayModify(r)'
    <3>1. PICK q \in RowsOf(req[r].by) : rows[q].role \in {"admin", "write"}
      BY <2>2 DEF MayModify, MayAct
    <3>2. q # r
      BY <2>3, <3>1 DEF NoRow
    <3>3. rows'[q] = rows[q] /\ q \in Requests /\ rows[q].user = req[r].by
      BY <2>4, <3>1, <3>2 DEF RowsOf
    <3>4. \E j \in Requests : rows'[j].user = req'[r].by /\ rows'[j].role \in {"admin", "write"}
      BY <1>6, <2>1, <3>1, <3>3
    <3> QED
      BY <1>6, <2>1, <2>2, <3>4 DEF MayModify, MayAct, RowsOf
  <2>9. RowsOf(req[r].on)' = {r}
    BY <1>3, <1>6, <2>5 DEF RowsOf
  <2> QED
    BY <1>6, <1>7, <2>1, <2>2, <2>7, <2>8, <2>9 DEF Counted, Inserted, Active, Ended, Undone
<1> QED
  BY <1>1, <1>2, <1>6, <1>7, <1>8, LaterCounts

LEMMA RevokeFindCounts == ASSUME MInv, CountInv, NEW r \in Requests, RevokeFind(r) PROVE CountInv'
<1>1. req[r].pc = "revoke" /\ UNCHANGED <<overlap, room, count, counts, rows>>
  BY DEF RevokeFind, At, roomvars, chatvars
<1>2. r \in Later /\ Active(r) /\ Found(r) /\ Full(req[r])
  BY <1>1, AtWork DEF Work, Chat
<1>3. /\ Counted(r) /\ req[r].op = "add"
           => Told = Number - 1 /\ RowsOf(req[r].on) = {r} /\ MayModify(r)
      /\ Counted(r) /\ req[r].op # "add" => Told = Number
  BY <1>1 DEF Counted, Work, Chat, Inserted
<1>4. CASE (~MayModify(r) \/ RowsOf(req[r].on) = {}) /\ Goto(r, "failed")
  BY <1>1, <1>2, <1>3, <1>4, LookCounts DEF Ended, Undone
<1>5. ASSUME NEW i, req' = [req EXCEPT ![r].pc = "delete", ![r].id = i] PROVE CountInv'
  <2>1. /\ DOMAIN req' = Requests /\ \A q \in Requests \ {r} : req'[q] = req[q]
        /\ req'[r] = [req[r] EXCEPT !.pc = "delete", !.id = i]
    BY <1>5 DEF MInv, Shape
  <2>2. /\ req'[r].pc = "delete" /\ req'[r].again = req[r].again
        /\ req'[r].on = req[r].on /\ req'[r].op = req[r].op /\ req'[r].by = req[r].by
    BY <1>2, <2>1 DEF Full
  <2>3. counts' \in Seq(Nat) /\ Told' = Told /\ Number' = Number
    BY <1>1 DEF CountInv, Told, Number, Participants
  <2>4. /\ MayModify(r) => MayModify(r)'
        /\ RowsOf(req[r].on) = {r} => RowsOf(req[r].on)' = {r}
    BY <1>1, <2>2 DEF MayModify, MayAct, RowsOf
  <2>5. Keeps(r) /\ ~At(r, "emit")' /\ Active(r)'
    BY <2>2 DEF Keeps, At, Active, Ended, Undone
  <2>6. Counted(r) => Counted(r)'
    BY <1>3, <2>2, <2>3, <2>4 DEF Counted, Inserted
  <2> QED
    BY <1>1, <1>2, <2>1, <2>3, <2>5, <2>6, LaterCounts
<1> QED
  BY <1>4, <1>5 DEF RevokeFind

(* What is taken back was counted.                                         *)
LEMMA RevokeDeleteCounts == ASSUME MInv, CountInv, NEW r \in Requests, RevokeDelete(r) PROVE CountInv'
<1>1. req[r].pc = "delete" /\ UNCHANGED <<overlap, room, count, counts>>
  BY DEF RevokeDelete, At, roomvars, chatvars
<1>2. r \in Later /\ Active(r) /\ Found(r) /\ Full(req[r])
  BY <1>1, AtWork DEF Work, Chat
<1>3. PICK u \in Users, i \in Requests :
         req[r].on = u /\ req[r].id = i /\ rows[i].user = u
  BY <1>1, <1>2, AtWork DEF Work, Chat, Found
<1>4. rows' = [rows EXCEPT ![i] = NoRow]
  BY <1>3 DEF RevokeDelete
<1>5. req[r].op \in {"add", "remove", "revoke"}
  BY <1>1, <1>2 DEF Found
<1>6. PICK pc \in {"failed", "recount", "ok"} :
         /\ Goto(r, pc)
         /\ req[r].op = "add" => pc = "failed"
         /\ req[r].op = "remove" => pc = "recount"
  BY DEF RevokeDelete, Op
<1>7. /\ DOMAIN req' = Requests /\ \A q \in Requests \ {r} : req'[q] = req[q]
      /\ req'[r].pc = pc /\ req'[r].on = req[r].on /\ req'[r].op = req[r].op
      /\ req'[r].again = req[r].again
  BY <1>2, <1>6, GotoStep DEF MInv, Ended, Undone
<1>8. counts' \in Seq(Nat) /\ Told' = Told /\ Keeps(r) /\ ~At(r, "emit")'
  BY <1>1, <1>6, <1>7 DEF CountInv, Told, Keeps, At
<1>9. Number' = Number - 1
  <2>1. rows[i] # NoRow
    BY <1>3, MemberAssumption DEF NoRow
  <2>2. Participants' = Participants \ {i} /\ i \in Participants
    BY <1>3, <1>4, <2>1 DEF Participants, MInv, Shape
  <2> QED
    BY <2>2, Finitely, FS_RemoveElement DEF Number
<1>10. ASSUME Counted(r), Plain(r) PROVE IF Active(r)' THEN Counted(r)' ELSE Told' = Number'
  <2>1. CASE req[r].op = "add"
    BY <1>1, <1>6, <1>7, <1>8, <1>9, <1>10, <2>1 DEF Counted, Work, Chat, Inserted, Active, Ended, Undone
  <2>2. CASE req[r].op = "remove"
    BY <1>6, <1>7, <2>2 DEF Counted, Work, Chat, Active, Ended, Undone
  <2>3. req[r].op # "revoke"
    BY <1>1, <1>10 DEF Plain
  <2> QED
    BY <1>5, <2>1, <2>2, <2>3
<1> QED
  BY <1>1, <1>2, <1>7, <1>8, <1>10, LaterCounts
(* The number sent is the number of participants at that moment, and while *)
(* it is on its way nobody else writes.                                    *)
LEMMA RecountCounts == ASSUME MInv, CountInv, NEW r \in Requests, Recount(r) PROVE CountInv'
<1>1. /\ req[r].pc = "recount" /\ Active(r) /\ Send(r, Number)
      /\ UNCHANGED <<overlap, room, count, counts, rows>>
  BY DEF Recount, At, Active, Ended, Undone, Number, roomvars, chatvars
<1>2. r \in Later
  BY <1>1 DEF Later, MInv, Made, Make, Undone
<1>3. PICK n : n = Number /\ n \in Nat /\ Number' = n
  BY <1>1, Finitely DEF Number, Participants
<1>4. /\ DOMAIN req' = Requests /\ \A q \in Requests \ {r} : req'[q] = req[q]
      /\ req'[r].pc = "emit" /\ req'[r].on = req[r].on /\ req'[r].op = req[r].op
      /\ req'[r].again = req[r].again /\ req'[r].n = n
  <2>1. Send(r, n)
    BY <1>1, <1>3
  <2> QED
    BY <2>1 DEF Send, MInv, Shape
<1>5. counts' \in Seq(Nat) /\ Keeps(r)
  BY <1>1, <1>4 DEF CountInv, Keeps
<1>6. Active(r)' /\ Counted(r)'
  BY <1>3, <1>4 DEF Active, Ended, Undone, Counted, Work, Chat
<1> QED
  BY <1>1, <1>2, <1>3, <1>4, <1>5, <1>6, LaterCounts

LEMMA EmitCounts == ASSUME MInv, CountInv, NEW r \in Requests, Emit(r) PROVE CountInv'
<1>1. /\ req[r].pc = "emit" /\ Active(r) /\ Goto(r, "ok") /\ UNCHANGED <<overlap, room, count, rows>>
      /\ counts' = Append(counts, req[r].n)
  BY DEF Emit, At, Active, Ended, Undone, chatvars
<1>2. /\ DOMAIN req' = Requests /\ \A q \in Requests \ {r} : req'[q] = req[q]
      /\ req'[r].pc = "ok" /\ req'[r].on = req[r].on /\ req'[r].op = req[r].op
      /\ req'[r].again = req[r].again
  BY <1>1, GotoStep DEF MInv, Ended, Undone
<1>3. PICK n \in Nat : req[r].n = n
  BY <1>1 DEF CountInv, At
<1>4. counts' \in Seq(Nat) /\ Told' = n
  BY <1>1, <1>3 DEF CountInv, Told
<1>5. Number' = Number /\ (Counted(r) => n = Number)
  BY <1>1, <1>3 DEF Number, Participants, Counted
<1>6. ~Active(r)' /\ ~At(r, "emit")'
  BY <1>2 DEF Active, Ended, Undone, At
<1>7. CASE r = 0
  <2>1. Clean' => Clean
    BY <1>1, <1>2, <1>7 DEF Clean, Plain, Later
  <2> QED
    BY <1>1, <1>2, <1>4, <1>5, <1>6, <1>7, <2>1, Known, StepCounts
<1>8. CASE r # 0
  <2>1. Keeps(r) /\ r \in Later
    BY <1>2, <1>8 DEF Keeps, Later
  <2> QED
    BY <1>1, <1>2, <1>4, <1>5, <1>6, <2>1, LaterCounts
<1> QED
  BY <1>7, <1>8

(* After a request cut short nothing is claimed.                           *)
LEMMA StopCounts == ASSUME MInv, CountInv, NEW r \in Requests, Stop(r) PROVE CountInv'
<1>1. Active(r) /\ Goto(r, "stopped") /\ UNCHANGED <<overlap, room, count, counts, rows>>
  BY DEF Stop, roomvars, chatvars
<1>2. /\ DOMAIN req' = Requests /\ \A q \in Requests \ {r} : req'[q] = req[q]
      /\ req'[r].pc = "stopped"
  BY <1>1, GotoStep DEF MInv, Ended, Undone
<1>3. ~Clean'
  BY <1>2 DEF Clean, Plain, Later
<1>4. req'[0].pc \in {"room", "failed"} => room' = "none"
  BY <1>1, <1>2, MemberAssumption DEF CountInv, Requests
<1>5. counts' \in Seq(Nat) /\ ~At(r, "emit")'
  BY <1>1, <1>2 DEF CountInv, At
<1> QED
  BY <1>1, <1>2, <1>3, <1>4, <1>5, StepCounts

(* Nobody else is at work when a request begins, or requests overlap.      *)
LEMMA StartCounts == ASSUME MInv, CountInv, NEW r \in Requests, Start(r) PROVE CountInv'
<1>1. PICK c : /\ Begin(r, c)
               /\ \/ c.pc = "grant" /\ c.op \in {"add", "grant"}
                  \/ c.pc = "check" /\ c.op = "remove"
                  \/ c.pc = "revoke" /\ c.op = "revoke"
                  \/ c.pc = "inviteFind" /\ c.op = "invite"
                  \/ c.pc = "expelDelete" /\ c.op = "expel"
  <2>1. PICK by \in Users, on \in Users :
           \/ \E role : BeginAdd(r, by, on, role) \/ BeginGrant(r, by, on, role)
           \/ BeginRemove(r, by, on) \/ BeginRevoke(r, by, on)
           \/ BeginInvite(r, by, on) \/ BeginExpel(r, by, on)
    BY DEF Start
  <2>2. ASSUME NEW op, NEW pc, NEW role PROVE Call(op, pc, by, on, role).pc = pc /\ Call(op, pc, by, on, role).op = op
    BY DEF Call
  <2> QED
    BY <2>1, <2>2 DEF BeginAdd, BeginGrant, BeginRemove, BeginRevoke, BeginInvite, BeginExpel
<1>2. /\ r \in Later /\ 0 \in Requests /\ req[r].pc = "idle"
      /\ overlap' = (overlap \/ \E q \in Requests : Active(q))
      /\ UNCHANGED <<room, count, counts, rows>>
  BY <1>1, MemberAssumption DEF Begin, Later, Requests, At, roomvars, chatvars
<1>3. /\ req'[r] = c /\ \A q \in Requests \ {r} : req'[q] = req[q]
  BY <1>1 DEF Begin, MInv, Shape
<1>4. ~overlap' => ~overlap /\ \A q \in Requests : ~Active(q)
  BY <1>2
<1>5. Alone' /\ (~overlap' => \A q \in Requests \ {r} : ~Active(q)')
  BY <1>3, <1>4 DEF Alone, Active
<1>6. Told' = Told /\ Number' = Number /\ counts' \in Seq(Nat)
  BY <1>2 DEF CountInv, Told, Number, Participants
<1>7. \A q \in Requests : At(q, "emit")' => req'[q].n \in Nat
  BY <1>1, <1>3 DEF CountInv, At
<1>8. req'[0] = req[0]
  BY <1>2, <1>3 DEF Later
<1>9. ASSUME Clean' PROVE Active(r)' /\ Counted(r)'
  <2>1. Clean
    BY <1>2, <1>3, <1>4, <1>8, <1>9 DEF Clean, Plain, Later
  <2>2. Told = Number
    BY <1>4, <1>9, <2>1 DEF Clean, CountInv
  <2>3. c.op \notin {"grant", "revoke"}
    BY <1>1, <1>2, <1>3, <1>9 DEF Clean, Plain
  <2> QED
    BY <1>1, <1>3, <1>6, <2>2, <2>3 DEF Counted, Inserted, Active, Ended, Undone
<1> QED
  BY <1>2, <1>5, <1>6, <1>7, <1>8, <1>9 DEF CountInv, Later

(* The creator is the first participant.                                   *)
LEMMA CreateCounts == ASSUME MInv, CountInv, NEW r \in Requests, Create(r) PROVE CountInv'
<1>1. req[r].pc \in Make /\ UNCHANGED <<overlap, count, counts>>
  BY DEF Create, MakeRoom, MakeChannel, BindChannel, PermitCreator, CreateFails,
         DropChannel, DropRoom, At, Make, roomvars, chatvars
<1>2. r = 0
  <2>1. ASSUME r \in Later PROVE FALSE
    BY <1>1, <2>1 DEF MInv, Found, Make, Work, Chat, Done
  <2> QED
    BY <2>1 DEF Later
<1>3. /\ Full(req[0]) /\ 0 \in Requests /\ Active(r) /\ \A i \in Requests : rows[i] = NoRow
  BY <1>1, <1>2 DEF MInv, Made, Make, Active, Ended, Undone
<1>4. counts' \in Seq(Nat)
  BY <1>1 DEF CountInv
<1>5. ASSUME NEW pc \in (Make \ {"room"}) \cup {"failed"} \cup Undone, Goto(0, pc), pc = "failed" => room' = "none"
      PROVE  CountInv'
  <2>1. /\ DOMAIN req' = Requests /\ \A q \in Requests \ {0} : req'[q] = req[q]
        /\ req'[0].pc = pc
    BY <1>3, <1>5, GotoStep DEF MInv, Make, Ended, Undone
  <2>2. ~Clean' /\ ~At(0, "emit")'
    BY <2>1 DEF Clean, At, Make, Undone
  <2>3. req'[0].pc \in {"room", "failed"} => room' = "none"
    BY <1>5, <2>1 DEF Make, Undone
  <2> QED
    BY <1>1, <1>2, <1>3, <1>4, <2>1, <2>2, <2>3, StepCounts
<1>6. CASE PermitCreator(r)
  <2>1. rows' = [rows EXCEPT ![0] = Row(Creator, "admin")] /\ Send(0, 1)
    BY <1>2, <1>6 DEF PermitCreator
  <2>2. /\ DOMAIN req' = Requests /\ \A q \in Requests \ {0} : req'[q] = req[q]
        /\ req'[0].pc = "emit" /\ req'[0].n = 1
    BY <1>3, <2>1 DEF Send, MInv, Shape
  <2>3. Participants' = {0}
    <3>1. Row(Creator, "admin") # NoRow
      BY MemberAssumption DEF Row, NoRow
    <3> QED
      BY <1>3, <2>1, <3>1 DEF Participants, MInv, Shape
  <2>4. Number' = 1
    BY <2>3, FS_Singleton DEF Number
  <2>5. Active(0)' /\ Counted(0)' /\ req'[0].n \in Nat /\ req'[0].pc \notin {"room", "failed"}
    BY <2>2, <2>4 DEF Active, Ended, Undone, Counted, Work, Chat
  <2> QED
    BY <1>1, <1>2, <1>3, <1>4, <2>2, <2>5, StepCounts
<1>7. CASE CreateFails(r)
  <2>1. CASE At(r, "room")
    BY <1>2, <1>5, <1>7, <2>1 DEF CreateFails, At, CountInv, roomvars
  <2>2. CASE ~At(r, "room")
    BY <1>2, <1>5, <1>7, <2>2 DEF CreateFails, Make
  <2> QED
    BY <2>1, <2>2
<1> QED
  BY <1>2, <1>5, <1>6, <1>7 DEF Create, MakeRoom, MakeChannel, BindChannel, DropChannel, DropRoom, Make, Undone

(* A number that arrives is one told already.                              *)
LEMMA ArrivalCounts == ASSUME CountInv, UpdateParticipantsCount PROVE CountInv'
<1>1. /\ counts # <<>> /\ counts \in Seq(Nat) /\ counts' = Tail(counts)
      /\ count' = (IF room = "none" THEN count ELSE Head(counts))
      /\ UNCHANGED <<room, rows, overlap, req>>
  BY DEF UpdateParticipantsCount, CountInv
<1>2. counts' \in Seq(Nat)
  BY <1>1
<1>3. room = "bound" => Told' = Told
  <2>1. CASE Len(counts) = 1
    BY <1>1, <2>1 DEF Told
  <2>2. CASE Len(counts) # 1
    <3>1. Len(counts) \in Nat \ {0, 1}
      <4>1. counts \in Seq(Nat) /\ counts # <<>>
        BY <1>1
      <4>2. Len(counts) \in Nat \ {0}
        BY <4>1, EmptySeq
      <4> QED
        BY <2>2, <4>2
    <3>2. Len(counts') = Len(counts) - 1 /\ counts' # <<>>
      <4>1. counts \in Seq(Nat) /\ counts # <<>> /\ counts' = Tail(counts)
        BY <1>1
      <4>2. Len(counts') = Len(counts) - 1
        BY <4>1, HeadTailProperties
      <4>3. Len(counts') # 0
        BY <3>1, <4>2
      <4> QED
        BY <4>2, <4>3, EmptySeq
    <3>3. counts'[Len(counts) - 1] = counts[Len(counts)]
      <4>1. counts \in Seq(Nat) /\ counts # <<>> /\ counts' = Tail(counts)
        BY <1>1
      <4>2. /\ Len(counts') = Len(counts) - 1
            /\ \A i \in 1..Len(counts') : counts'[i] = counts[i + 1]
        BY <4>1, HeadTailProperties
      <4> QED
        BY <3>1, <4>2
    <3> QED
      BY <1>1, <3>2, <3>3 DEF Told
  <2> QED
    BY <2>1, <2>2
<1>4. Alone' /\ (Clean' => Clean) /\ Number' = Number
  BY <1>1 DEF CountInv, Alone, Active, Clean, Plain, Number, Participants
<1>5. ASSUME NEW r \in Requests, room = "bound", Counted(r) PROVE Counted(r)'
  <2> DEFINE x == req[r].on
  <2>1. RowsOf(x)' = RowsOf(x) /\ (MayModify(r) <=> MayModify(r)')
    BY <1>1 DEF RowsOf, MayModify, MayAct
  <2> QED
    BY <1>1, <1>3, <1>4, <1>5, <2>1 DEF Counted
<1> QED
  BY <1>1, <1>2, <1>3, <1>4, <1>5 DEF CountInv, Clean, At, Active

LEMMA CountStepwise == ASSUME MInv, CountInv, [Next]_vars PROVE CountInv'
<1>1. ASSUME NEW r \in Requests, Create(r) \/ Start(r) \/ Continue(r) \/ Stop(r) PROVE CountInv'
  BY <1>1, CreateCounts, StartCounts, StopCounts, GrantFindCounts, GrantSaveCounts, RevokeFindCounts,
     RevokeDeleteCounts, ChatCounts, RecountCounts, EmitCounts DEF Continue
<1>2. CASE DeleteRoom
  BY <1>2 DEF DeleteRoom, CountInv, Alone, Clean, Active, At, chatvars
<1>3. CASE UNCHANGED vars
  BY <1>3 DEF vars, roomvars, chatvars, CountInv, Alone, Clean, Plain, Active, At, Counted, Told, Number,
              Participants, RowsOf, MayModify, MayAct
<1> QED
  BY <1>1, <1>2, <1>3, ArrivalCounts DEF Next

(* When requests ran one after the other and none was cut short, the room  *)
(* shows how many users may use it, requests that failed and were undone   *)
(* included.                                                               *)
THEOREM RoomCountsItsMembers == ASSUME Apart PROVE Spec => []CountAtRest
<1>1. Init => CountInv
  BY CountInitially
<1>2. MInv /\ CountInv /\ [Next]_vars => CountInv'
  BY CountStepwise
<1>3. ASSUME MInv, CountInv PROVE CountAtRest
  <2> SUFFICES ASSUME ~overlap, counts = <<>>, room = "bound",
                      \A r \in Requests :
                         \/ At(r, "idle")
                         \/ /\ req[r].pc \in {"ok", "failed"}
                            /\ req[r].op \in {"create", "add", "remove", "invite", "expel"},
                      \A u \in Users : ~Bypassed(u)
               PROVE  count = Number
    BY DEF CountAtRest, Number
  <2>1. \A r \in Requests : ~Active(r)
    BY DEF Active, Ended, Undone, At
  <2>2. req[0].pc = "ok"
    BY <1>3, MemberAssumption DEF MInv, Made, Make, Undone, CountInv, At, Requests
  <2>3. ASSUME NEW r \in Later, req[r].pc # "idle" PROVE Plain(r)
    <3>1. req[r].on \in Users
      BY <1>3, <2>3 DEF MInv, Found
    <3>2. ~Bypassed(req[r].on)
      BY <3>1
    <3> QED
      BY <2>3, <3>2 DEF Bypassed, Plain, Op, At, Later
  <2>4. Clean
    BY <2>2, <2>3 DEF Clean, Plain
  <2> QED
    BY <1>3, <2>1, <2>4 DEF CountInv, Told
<1>4. MInv /\ CountInv => CountAtRest
  BY <1>3
<1> QED
  BY <1>1, <1>2, <1>4, Always, PTL DEF Spec
=============================================================================
