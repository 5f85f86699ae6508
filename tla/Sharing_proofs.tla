--------------------------- MODULE Sharing_proofs ---------------------------
(***************************************************************************)
(* That a storage lists the tags of its items, that who was taken from a   *)
(* share stays out, that requests by share stay in it, and that favorites  *)
(* stay until a removal finds them, for any users, items, batches and      *)
(* number of requests.                                                     *)
(***************************************************************************)
EXTENDS Favorites, SequenceTheorems, TLAPS

Shares == {"grant", "revoke"}

(* A request under way has all its fields; its place tells its kind.       *)
Fields(c) == c = [op |-> c.op, pc |-> c.pc, u |-> c.u, via |-> c.via, items |-> c.items,
                  to |-> c.to, role |-> c.role, row |-> c.row, todo |-> c.todo, at |-> c.at,
                  tags |-> c.tags, left |-> c.left]
Kinds(c) ==
    /\ c.pc = "list" => c.op = "tags"
    /\ c.pc = "untag" => c.op = "untag"
    /\ c.pc = "unlist" => c.op = "untag"
    /\ c.pc = "own" => c.op = "storage"
    /\ c.pc = "copy" => c.op = "copy"
    /\ c.pc \in {"find", "save", "remove"} => c.op \in Shares
    /\ c.pc = "save" => c.op = "grant"
    /\ c.pc = "remove" => c.op = "revoke"
    /\ c.op \in Shares => c.items = <<>> /\ c.pc \in {"resource", "find", "save", "remove"}
    /\ c.op = "revoke" => c.pc # "resource"
    /\ c.pc \in {"resource", "find"} /\ c.op \in Shares => c.row = <<>>

(* A tag of an item is listed or lost, or a request will list it or take   *)
(* it off; so is one that a copy holds.                                    *)
Known(t) == \/ t \in listed \cup lost
            \/ \E r \in Requests : req[r].pc \in {"list", "untag"} /\ t \in req[r].tags
Tagged == /\ \A i \in Items : \A t \in tags[i] : Known(t)
          /\ \A t : Held(t) => Known(t)

Shape == DOMAIN req = Requests /\ DOMAIN tags = Items

TInv == Shape /\ Tagged /\ \A r \in Requests : Active(r) => Fields(req[r]) /\ Kinds(req[r])

-----------------------------------------------------------------------------
(* What a step makes of its request, if it has not ended.                  *)
Same(r) ==
    /\ Fields(req'[r])
    /\ req'[r].op = req[r].op /\ req'[r].u = req[r].u /\ req'[r].via = req[r].via
    /\ req'[r].to = req[r].to /\ req'[r].tags = req[r].tags /\ req'[r].role = req[r].role

LEMMA TakeIs ==
    ASSUME NEW c, NEW s, Fields(c)
    PROVE  /\ Fields(Take(c, s)) /\ Take(c, s).items = s
           /\ Take(c, s).op = c.op /\ Take(c, s).u = c.u /\ Take(c, s).via = c.via
           /\ Take(c, s).to = c.to /\ Take(c, s).tags = c.tags /\ Take(c, s).role = c.role
           /\ Take(c, s).row = c.row
           /\ Take(c, s).pc \in {"act", "climb", "resource"}
<1> DEFINE named == IF c.op = "create" THEN <<c.to, c.to>>
                    ELSE IF c.to \in Items THEN <<Head(s), c.to>> ELSE <<Head(s)>>
           first == Head(named)
           pc == IF c.via = None THEN "act" ELSE IF c.op = "browse" THEN "climb" ELSE "resource"
<1>1. Take(c, s) = [c EXCEPT !.items = s, !.todo = named, !.at = first, !.left = {}, !.pc = pc]
  BY DEF Take
<1>2. pc \in {"act", "climb", "resource"}
  OBVIOUS
<1> HIDE DEF named, first, pc
<1> QED
  BY <1>1, <1>2 DEF Fields

LEMMA GotoStep ==
    ASSUME Shape, NEW r \in Requests, NEW pc, Goto(r, pc), Fields(req[r])
    PROVE  /\ DOMAIN req' = Requests /\ \A q \in Requests \ {r} : req'[q] = req[q]
           /\ \/ pc = "ended" /\ req'[r].pc = "ended"
              \/ /\ Same(r) /\ req'[r].row = req[r].row
                 /\ pc # "ended" => req'[r].items = req[r].items
                 /\ \/ pc # "ended" /\ req'[r].pc = pc
                    \/ pc = "ended" /\ req[r].items # <<>> /\ req'[r].pc \in {"act", "climb", "resource"}
<1>1. /\ DOMAIN req' = Requests /\ \A q \in Requests \ {r} : req'[q] = req[q]
      /\ req'[r] = IF pc # "ended" THEN [req[r] EXCEPT !.pc = pc]
                   ELSE IF Len(req[r].items) > 1 THEN Take(req[r], Tail(req[r].items))
                   ELSE [op |-> "none", pc |-> pc]
  BY DEF Goto, Shape
<1>2. CASE pc # "ended"
  BY <1>1, <1>2 DEF Fields, Same
<1>3. CASE pc = "ended" /\ Len(req[r].items) > 1
  <2>1. req[r].items # <<>>
    BY <1>3
  <2> QED
    BY <1>1, <1>3, <2>1, TakeIs DEF Same
<1>4. CASE pc = "ended" /\ ~(Len(req[r].items) > 1)
  BY <1>1, <1>4
<1> QED
  BY <1>2, <1>3, <1>4

LEMMA CallIs ==
    ASSUME NEW op, NEW pc, NEW u, NEW via, NEW k, k = Call(op, pc, u, via)
    PROVE  /\ Fields(k) /\ k.op = op /\ k.pc = pc /\ k.via = via
           /\ k.row = <<>> /\ k.items = <<>>
  BY DEF Call, Fields

(* A request that begins.                                                  *)
LEMMA StartIs ==
    ASSUME NEW r \in Requests, Start(r)
    PROVE  \E c : /\ Begin(r, c) /\ Fields(c) /\ Kinds(c)
                  /\ c.pc \notin {"idle", "ended", "list", "untag", "save", "remove", "copy"} /\ c.row = <<>>
                  /\ UNCHANGED <<rows, tags, listed, lost>>
                  /\ out' = IF c.op = "grant" THEN out \ {<<c.to, c.via>>} ELSE out
<1> DEFINE Begun(c) == /\ Begin(r, c) /\ Fields(c) /\ Kinds(c)
                       /\ c.pc \notin {"idle", "ended", "list", "untag", "save", "remove", "copy"} /\ c.row = <<>>
                       /\ UNCHANGED <<rows, tags, listed, lost>>
                       /\ out' = IF c.op = "grant" THEN out \ {<<c.to, c.via>>} ELSE out
<1>1. ASSUME NEW op \in {"create", "move", "delete", "restore", "doom", "tags", "browse", "copy", "rename"},
             NEW u, NEW via, NEW s, NEW to, NEW T, BeginOn(r, op, u, via, s, to, T)
      PROVE  \E c : Begun(c)
  <2> DEFINE k == Call(op, "act", u, via)
             b == [k EXCEPT !.to = to, !.tags = T]
             c == Take(b, s)
  <2>1. Fields(b) /\ b.op = op /\ b.row = <<>>
    <3>1. Fields(k) /\ k.op = op /\ k.row = <<>>
      BY CallIs
    <3>2. b = [k EXCEPT !.to = to, !.tags = T]
      OBVIOUS
    <3> HIDE DEF k, b
    <3> QED
      BY <3>1, <3>2 DEF Fields
  <2>2. Begin(r, c) /\ UNCHANGED <<rows, tags, listed, lost, out>>
    BY <1>1 DEF BeginOn, tagging
  <2> HIDE DEF b
  <2>3. Fields(c) /\ c.op = op /\ c.row = <<>> /\ c.pc \in {"act", "climb", "resource"}
    BY <2>1, TakeIs
  <2>4. Kinds(c)
    BY <2>3 DEF Kinds, Shares
  <2> HIDE DEF c
  <2>5. Begun(c)
    BY <2>2, <2>3, <2>4
  <2> QED
    BY <2>5
<1>2. ASSUME NEW u, NEW T, BeginUntag(r, u, T) PROVE \E c : Begun(c)
  <2> DEFINE k == Call("untag", "unlist", u, None)
             c == [k EXCEPT !.tags = T]
  <2>1. Fields(c) /\ c.op = "untag" /\ c.pc = "unlist" /\ c.row = <<>>
    <3>1. Fields(k) /\ k.op = "untag" /\ k.pc = "unlist" /\ k.row = <<>>
      BY CallIs
    <3>2. c = [k EXCEPT !.tags = T]
      OBVIOUS
    <3> HIDE DEF k, c
    <3> QED
      BY <3>1, <3>2 DEF Fields
  <2>2. Begin(r, c) /\ UNCHANGED <<rows, tags, listed, lost, out>>
    BY <1>2 DEF BeginUntag, tagging
  <2> HIDE DEF c
  <2>3. Begun(c)
    BY <2>1, <2>2 DEF Kinds, Shares
  <2> QED
    BY <2>3
<1>3. ASSUME NEW u, BeginStorage(r, u) PROVE \E c : Begun(c)
  <2> DEFINE c == Call("storage", "own", u, None)
  <2>1. Fields(c) /\ c.op = "storage" /\ c.pc = "own" /\ c.row = <<>>
    BY DEF Call, Fields
  <2>2. Begin(r, c) /\ UNCHANGED <<rows, tags, listed, lost, out>>
    BY <1>3 DEF BeginStorage, tagging
  <2> HIDE DEF c
  <2>3. Begun(c)
    BY <2>1, <2>2 DEF Kinds, Shares
  <2> QED
    BY <2>3
<1>4. ASSUME NEW u, NEW via, NEW t, BeginRevoke(r, u, via, t) PROVE \E c : Begun(c)
  <2> DEFINE k == Call("revoke", "find", u, via)
             c == [k EXCEPT !.to = t]
  <2>1. Fields(c) /\ c.op = "revoke" /\ c.pc = "find" /\ c.row = <<>> /\ c.items = <<>>
    <3>1. Fields(k) /\ k.op = "revoke" /\ k.pc = "find" /\ k.row = <<>> /\ k.items = <<>>
      BY CallIs
    <3>2. c = [k EXCEPT !.to = t]
      OBVIOUS
    <3> HIDE DEF k, c
    <3> QED
      BY <3>1, <3>2 DEF Fields
  <2>2. Begin(r, c) /\ UNCHANGED <<rows, tags, listed, lost, out>>
    BY <1>4 DEF BeginRevoke, tagging
  <2> HIDE DEF c
  <2>3. Begun(c)
    BY <2>1, <2>2 DEF Kinds, Shares
  <2> QED
    BY <2>3
<1>5. ASSUME NEW u, NEW via, NEW t, NEW role, BeginGrant(r, u, via, t, role) PROVE \E c : Begun(c)
  <2> DEFINE k == Call("grant", "resource", u, via)
             c == [k EXCEPT !.to = t, !.role = role]
  <2>1. /\ Fields(c) /\ c.op = "grant" /\ c.pc = "resource" /\ c.row = <<>> /\ c.items = <<>>
        /\ c.to = t /\ c.via = via
    <3>1. /\ Fields(k) /\ k.op = "grant" /\ k.pc = "resource" /\ k.via = via
          /\ k.row = <<>> /\ k.items = <<>>
      BY CallIs
    <3>2. c = [k EXCEPT !.to = t, !.role = role]
      OBVIOUS
    <3> HIDE DEF k, c
    <3>3. Fields(c) /\ c.op = k.op /\ c.pc = k.pc /\ c.row = k.row /\ c.items = k.items
          /\ c.to = t /\ c.via = k.via
      BY <3>1, <3>2 DEF Fields
    <3> QED
      BY <3>1, <3>3
  <2>2. Begin(r, c) /\ UNCHANGED <<rows, tags, listed, lost>> /\ out' = out \ {<<t, via>>}
    BY <1>5 DEF BeginGrant, tagging
  <2> HIDE DEF c
  <2>3. Begun(c)
    BY <2>1, <2>2 DEF Kinds, Shares
  <2> QED
    BY <2>3
<1> HIDE DEF Begun
<1>6. ASSUME NEW u, NEW via, NEW i, NEW to, NEW T,
             \/ BeginMove(r, u, via, i, to) \/ BeginRestore(r, u, via, i, to)
             \/ BeginDelete(r, u, via, i) \/ BeginDoom(r, u, via, i)
             \/ BeginBrowse(r, u, via, i) \/ BrowseShared(r, u, via, i)
             \/ BeginCopy(r, u, via, i, to) \/ BeginRename(r, u, via, i)
             \/ BeginTags(r, u, via, i, T) \/ BeginCreate(r, u, via, i, to)
      PROVE  \E c : Begun(c)
  BY <1>1, <1>6 DEF BeginItems, BeginCreate, BeginMove, BeginDelete, BeginRestore, BeginDoom, BeginTags,
                    BeginBrowse, BrowseShared, BeginCopy, BeginRename
<1>7. ASSUME NEW u, NEW via, NEW s, NEW to, NEW T,
             \/ BatchMove(r, u, via, s, to) \/ BatchCopy(r, u, via, s, to) \/ BatchRestore(r, u, via, s, to)
             \/ BatchDelete(r, u, via, s) \/ BatchDoom(r, u, via, s)
             \/ BatchTags(r, u, via, s, T)
      PROVE  \E c : Begun(c)
  BY <1>1, <1>7 DEF BeginItems, BatchMove, BatchCopy, BatchDelete, BatchRestore, BatchDoom, BatchTags
<1>8. ASSUME NEW u, NEW via, NEW t, NEW role,
             \/ BeginRevoke(r, u, via, t) \/ RevokeShared(r, u, via, t)
             \/ BeginGrant(r, u, via, t, role) \/ GrantShared(r, u, via, t, role)
      PROVE  \E c : Begun(c)
  BY <1>4, <1>5, <1>8 DEF GrantShared, RevokeShared
<1>9. ASSUME NEW u, NEW via, StartItem(r, u, via) PROVE \E c : Begun(c)
  BY <1>6, <1>9 DEF StartItem
<1>10. ASSUME NEW u, NEW via, StartBatch(r, u, via) PROVE \E c : Begun(c)
  BY <1>7, <1>10 DEF StartBatch
<1>11. ASSUME NEW u, NEW via, StartShare(r, u, via) PROVE \E c : Begun(c)
  BY <1>8, <1>11 DEF StartShare
<1>12. ASSUME NEW u, NEW via, NEW i, NEW to, CreateShared(r, u, via, i, to) PROVE \E c : Begun(c)
  BY <1>1, <1>12 DEF CreateShared
<1>13. \E c : Begun(c)
  BY <1>2, <1>3, <1>9, <1>10, <1>11, <1>12 DEF Start
<1> QED
  BY <1>13 DEF Begun

(* Where a step may leave its request.                                     *)
LEMMA GoesTo ==
    ASSUME TInv, NEW r \in Requests, Active(r), NEW pc, Goto(r, pc),
           \/ pc = "ended"
           \/ pc \in {"climb", "act", "verify"} /\ req[r].op \notin Shares
           \/ pc = "find" /\ req[r].op = "grant" /\ req[r].pc = "resource"
           \/ pc = "save" /\ req[r].op = "grant"
           \/ pc = "list" /\ req[r].op = "tags"
           \/ pc = "untag" /\ req[r].op = "untag"
    PROVE  /\ DOMAIN req' = Requests /\ \A q \in Requests \ {r} : req'[q] = req[q]
           /\ Active(r)' => Same(r) /\ Kinds(req'[r]) /\ req'[r].row = req[r].row
           /\ pc # "ended" => req'[r].pc = pc /\ Same(r)
           /\ req'[r].pc # "idle"
           /\ pc = "ended" => req'[r].pc \notin {"list", "untag", "copy"}
           /\ pc = "ended" /\ req[r].op \in Shares => req'[r].pc = "ended"
<1>1. Fields(req[r]) /\ Kinds(req[r]) /\ Shape
  BY DEF TInv
<1>2. /\ DOMAIN req' = Requests /\ \A q \in Requests \ {r} : req'[q] = req[q]
      /\ \/ pc = "ended" /\ req'[r].pc = "ended"
         \/ /\ Same(r) /\ req'[r].row = req[r].row
            /\ pc # "ended" => req'[r].items = req[r].items
            /\ \/ pc # "ended" /\ req'[r].pc = pc
               \/ pc = "ended" /\ req[r].items # <<>> /\ req'[r].pc \in {"act", "climb", "resource"}
  BY <1>1, GotoStep
<1>3. CASE pc = "ended"
  <2>1. CASE req'[r].pc = "ended"
    BY <1>2, <1>3, <2>1 DEF Active
  <2>2. CASE req'[r].pc # "ended"
    <3>1. req[r].op \notin Shares
      BY <1>1, <1>2, <1>3, <2>2 DEF Kinds
    <3> QED
      BY <1>2, <1>3, <2>2, <3>1 DEF Kinds, Same, Shares
  <2> QED
    BY <2>1, <2>2
<1>4. CASE pc # "ended"
  <2>1. Same(r) /\ req'[r].items = req[r].items /\ req'[r].row = req[r].row /\ req'[r].pc = pc
    BY <1>2, <1>4
  <2>2. Kinds(req'[r])
    BY <1>1, <1>4, <2>1 DEF Kinds, Same, Shares
  <2> QED
    BY <1>2, <1>4, <2>1, <2>2
<1> QED
  BY <1>3, <1>4

(* A step of a request that is not about to list or take off tags.         *)
LEMMA Quiet ==
    ASSUME TInv, NEW r \in Requests, req[r].pc \notin {"list", "untag"},
           UNCHANGED <<tags, listed, lost>>, req'[r].pc # "copy",
           DOMAIN req' = Requests, \A q \in Requests \ {r} : req'[q] = req[q],
           Active(r)' => Fields(req'[r]) /\ Kinds(req'[r])
    PROVE  TInv'
<1>1. ASSUME NEW t, Known(t) PROVE Known(t)'
  BY <1>1 DEF Known
<1>2. \A t : Held(t)' => Held(t)
  BY DEF Held, At
<1>3. Tagged'
  BY <1>1, <1>2 DEF TInv, Tagged
<1> QED
  BY <1>3 DEF TInv, Shape, Active

LEMMA TIs ==
    ASSUME TInv, NEW r \in Requests, Active(r)
    PROVE  Fields(req[r]) /\ Kinds(req[r]) /\ Shape
  BY DEF TInv

LEMMA TInitially == Init => TInv
  BY SharingAssumption DEF Init, TInv, Shape, Tagged, Known, Held, At, Active, Idle

LEMMA TLooks ==
    ASSUME TInv, NEW r \in Requests,
           InStorage(r) \/ Verify(r) \/ Browse(r) \/ Move(r) \/ Delete(r) \/ Restore(r)
           \/ Doom(r) \/ Rename(r) \/ CopyFails(r) \/ CreateItem(r) \/ SaveRow(r) \/ RemoveRow(r) \/ OwnStorage(r)
    PROVE  TInv'
<1>1. Active(r) /\ req[r].pc \notin {"list", "untag"} /\ UNCHANGED <<tags, listed, lost>>
  BY DEF InStorage, Verify, Browse, Move, Delete, Restore, Doom, Rename, CopyFails, CreateItem, SaveRow, RemoveRow,
         OwnStorage, At, Active, tagging
<1>2. Kinds(req[r])
  BY <1>1 DEF TInv
<1>3. \/ Goto(r, "ended")
      \/ Goto(r, "act") /\ req[r].pc = "verify"
      \/ Goto(r, "find") /\ req[r].pc = "resource" /\ req[r].op = "grant"
      \/ Goto(r, "climb") /\ req[r].pc = "resource" /\ req[r].op # "grant"
  <2>1. CASE InStorage(r)
    BY <2>1 DEF InStorage, At, Op
  <2>2. CASE Verify(r)
    BY <2>2 DEF Verify, At
  <2> QED
    BY <2>1, <2>2 DEF Browse, Move, Delete, Restore, Doom, Rename, CopyFails, CreateItem, SaveRow, RemoveRow, OwnStorage
<1>4. PICK pc : /\ Goto(r, pc)
                /\ \/ pc = "ended"
                   \/ pc \in {"climb", "act", "verify"} /\ req[r].op \notin Shares
                   \/ pc = "find" /\ req[r].op = "grant" /\ req[r].pc = "resource"
  BY <1>2, <1>3 DEF Kinds, Shares
<1> QED
  BY <1>1, <1>4, GoesTo, Quiet DEF Same

LEMMA PassedIs ==
    ASSUME NEW c, Fields(c), c.pc = "climb"
    PROVE  /\ Fields(Passed(c)) /\ Passed(c).op = c.op
           /\ Passed(c).pc \in {"climb", "verify", "act"}
<1> DEFINE rest == Tail(c.todo)
           pc == IF c.op = "tags" THEN "verify" ELSE "act"
           first == Head(rest)
<1>1. \/ Passed(c) = [c EXCEPT !.todo = rest, !.at = None, !.pc = pc]
      \/ Passed(c) = [c EXCEPT !.todo = rest, !.at = first]
  BY DEF Passed
<1>2. pc \in {"verify", "act"}
  OBVIOUS
<1> HIDE DEF rest, pc, first
<1> QED
  BY <1>1, <1>2 DEF Fields

LEMMA TClimb == ASSUME TInv, NEW r \in Requests, Climb(r) PROVE TInv'
<1>1. /\ Active(r) /\ req[r].pc = "climb" /\ UNCHANGED <<tags, listed, lost>>
      /\ Fields(req[r]) /\ req[r].op \notin Shares
  BY DEF Climb, At, Active, tagging, TInv, Kinds
<1>2. CASE Goto(r, "ended")
  BY <1>1, <1>2, GoesTo, Quiet DEF Same
<1>3. ASSUME NEW c, req' = [req EXCEPT ![r] = c], Fields(c), c.op = req[r].op,
             c.pc \in {"climb", "verify", "act"}
      PROVE  TInv'
  <2>1. /\ DOMAIN req' = Requests /\ \A q \in Requests \ {r} : req'[q] = req[q] /\ req'[r] = c
    BY <1>3 DEF TInv, Shape
  <2>2. req'[r] = c
    BY <1>3 DEF TInv, Shape
  <2>3. Kinds(c)
    BY <1>1, <1>3 DEF Kinds, Shares
  <2> QED
    BY <1>1, <1>3, <2>1, <2>2, <2>3, Quiet
<1>4. CASE req' = [req EXCEPT ![r] = Passed(req[r])]
  BY <1>1, <1>3, <1>4, PassedIs
<1>5. ASSUME NEW above, req' = [req EXCEPT ![r].at = above] PROVE TInv'
  <2> DEFINE c == [req[r] EXCEPT !.at = above]
  <2>1. Fields(c) /\ c.op = req[r].op /\ c.pc = "climb"
    BY <1>1 DEF Fields
  <2>2. req' = [req EXCEPT ![r] = c]
    BY <1>5
  <2> HIDE DEF c
  <2> QED
    BY <1>3, <2>1, <2>2
<1> QED
  BY <1>2, <1>4, <1>5 DEF Climb

LEMMA TFind == ASSUME TInv, NEW r \in Requests, FindRow(r) PROVE TInv'
<1>1. Active(r) /\ req[r].pc = "find" /\ UNCHANGED <<tags, listed, lost>>
  BY DEF FindRow, At, Active, tagging
<1>0. Fields(req[r]) /\ Kinds(req[r]) /\ req[r].op \in Shares /\ Shape
  BY <1>1, TIs DEF Kinds
<1>2. CASE RowsOf(req[r]) = {}
  <2>1. PICK pc \in {"save", "ended"} : Goto(r, pc) /\ (pc = "save" => req[r].op = "grant")
    BY <1>2 DEF FindRow, Op
  <2>2. /\ DOMAIN req' = Requests /\ \A q \in Requests \ {r} : req'[q] = req[q]
        /\ Active(r)' => Same(r) /\ Kinds(req'[r])
        /\ req'[r].pc # "copy"
    BY <1>1, <2>1, GoesTo
  <2> QED
    BY <1>1, <2>2, Quiet DEF Same
<1>3. CASE RowsOf(req[r]) # {}
  <2>1. PICK p \in RowsOf(req[r]) :
           req' = [req EXCEPT ![r] = [@ EXCEPT !.row = p.id,
                                        !.pc = IF req[r].op = "grant" THEN "save" ELSE "remove"]]
    BY <1>3 DEF FindRow
  <2> DEFINE pc == IF req[r].op = "grant" THEN "save" ELSE "remove"
             id == p.id
             c  == [req[r] EXCEPT !.row = id, !.pc = pc]
  <2>2. /\ DOMAIN req' = Requests /\ \A q \in Requests \ {r} : req'[q] = req[q]
        /\ req'[r] = c
    BY <1>0, <2>1 DEF Shape
  <2>3. \/ pc = "save" /\ req[r].op = "grant"
        \/ pc = "remove" /\ req[r].op = "revoke"
    BY <1>0 DEF Shares
  <2> DEFINE k == req[r]
  <2>4. c = [k EXCEPT !.row = id, !.pc = pc] /\ Fields(k) /\ k = req[r]
    BY <1>0
  <2> HIDE DEF pc, id, c, k
  <2>6. Fields(c) /\ c.op = req[r].op /\ c.pc = pc /\ c.items = req[r].items
    BY <2>4 DEF Fields
  <2>5. Kinds(c)
    BY <1>0, <2>3, <2>6 DEF Kinds, Shares
  <2>7. Active(r)' => Fields(req'[r]) /\ Kinds(req'[r])
    BY <2>2, <2>5, <2>6
  <2>8. req'[r].pc # "copy"
    BY <2>2, <2>3, <2>6
  <2> QED
    BY <1>1, <2>2, <2>7, <2>8, Quiet
<1> QED
  BY <1>2, <1>3

(* The steps that write tags: what each tag is that an item has, or a copy *)
(* holds, after them.                                                      *)
LEMMA TMarks ==
    ASSUME TInv, NEW r \in Requests, DOMAIN req' = Requests, DOMAIN tags' = Items,
           \A q \in Requests \ {r} : req'[q] = req[q],
           Active(r)' => Fields(req'[r]) /\ Kinds(req'[r]),
           \A i \in Items : \A t \in tags'[i] : Known(t)',
           \A t : Held(t)' => Known(t)'
    PROVE  TInv'
<1>1. Tagged'
  BY DEF Tagged
<1> QED
  BY <1>1 DEF TInv, Shape, Active

LEMMA TTags ==
    ASSUME TInv, NEW r \in Requests, TagItem(r) \/ ListTags(r) \/ Unlist(r) \/ UntagItems(r)
    PROVE  TInv'
<1>1. Active(r) /\ req[r].pc # "copy"
  BY DEF TagItem, ListTags, Unlist, UntagItems, At, Active
<1>0. Kinds(req[r]) /\ Shape
  BY <1>1, TIs
<1>2. PICK pc : /\ Goto(r, pc)
                /\ \/ pc = "ended"
                   \/ pc = "list" /\ req[r].op = "tags"
                   \/ pc = "untag" /\ req[r].op = "untag"
  BY <1>0 DEF TagItem, ListTags, Unlist, UntagItems, At, Op, Kinds
<1>3. /\ DOMAIN req' = Requests /\ \A q \in Requests \ {r} : req'[q] = req[q]
      /\ Active(r)' => Same(r) /\ Kinds(req'[r])
      /\ req'[r].pc # "copy"
  BY <1>1, <1>2, GoesTo
<1>4. \A t : Held(t)' <=> Held(t)
  BY <1>1, <1>3 DEF Held, At
<1>5. Tagged
  BY DEF TInv
<1>6. CASE TagItem(r)
  <2>1. CASE Goto(r, "list") /\ tags' = [tags EXCEPT ![Item(r)] = req[r].tags]
    <3>1. /\ req'[r].pc = "list" /\ req'[r].tags = req[r].tags /\ UNCHANGED <<listed, lost>>
          /\ req[r].pc = "act"
      BY <1>1, <1>6, <2>1, GoesTo DEF TagItem, At, Op, Same
    <3>2. DOMAIN tags' = Items /\ \A i \in Items : tags'[i] = tags[i] \/ tags'[i] = req[r].tags
      BY <1>0, <2>1 DEF Shape
    <3>3. \A t : Known(t) => Known(t)'
      BY <1>3, <3>1 DEF Known
    <3>4. \A t \in req[r].tags : Known(t)'
      BY <3>1 DEF Known
    <3> QED
      BY <1>3, <1>4, <1>5, <3>2, <3>3, <3>4, TMarks DEF Tagged, Same
  <2>2. CASE Goto(r, "ended") /\ UNCHANGED tags
    <3>1. req[r].pc = "act" /\ UNCHANGED <<listed, lost>>
      BY <1>6 DEF TagItem, At
    <3> QED
      BY <1>3, <2>2, <3>1, Quiet DEF Same
  <2> QED
    BY <1>6, <2>1, <2>2 DEF TagItem
<1>7. CASE ListTags(r)
  <2>1. UNCHANGED tags /\ listed' = listed \cup req[r].tags /\ lost' = lost \ req[r].tags
    BY <1>7 DEF ListTags
  <2>2. \A t : Known(t) => Known(t)'
    BY <1>3, <2>1 DEF Known
  <2> QED
    BY <1>0, <1>3, <1>4, <1>5, <2>1, <2>2, TMarks DEF Tagged, Shape, Same
<1>8. CASE Unlist(r)
  <2>1. /\ UNCHANGED <<tags, lost>> /\ listed' = listed \ req[r].tags /\ Goto(r, "untag")
        /\ req[r].pc = "unlist" /\ req[r].op = "untag"
    BY <1>0, <1>8 DEF Unlist, At, Kinds
  <2>2. req'[r].pc = "untag" /\ req'[r].tags = req[r].tags
    BY <1>1, <2>1, GoesTo DEF Same
  <2>3. \A t : Known(t) => Known(t)'
    BY <1>3, <2>1, <2>2 DEF Known
  <2> QED
    BY <1>0, <1>3, <1>4, <1>5, <2>1, <2>3, TMarks DEF Tagged, Shape, Same
<1>9. CASE UntagItems(r)
  <2>1. /\ UNCHANGED listed /\ tags' = [i \in Items |-> tags[i] \ req[r].tags]
        /\ lost' = (lost \ req[r].tags) \cup {t \in req[r].tags : Held(t)}
    BY <1>9 DEF UntagItems, Lose
  <2>2. ASSUME NEW t, t \notin req[r].tags, Known(t) PROVE Known(t)'
    BY <1>3, <2>1, <2>2 DEF Known
  <2>3. ASSUME NEW t, t \in req[r].tags, Held(t) PROVE Known(t)'
    BY <2>1, <2>3 DEF Known
  <2> QED
    BY <1>3, <1>4, <1>5, <2>1, <2>2, <2>3, TMarks DEF Tagged, Same
<1> QED
  BY <1>6, <1>7, <1>8, <1>9

(* A copy that goes on with what is left.                                  *)
LEMMA CopyStep ==
    ASSUME TInv, NEW r \in Requests, Active(r), req[r].op = "copy", NEW L, CopyOn(r, L)
    PROVE  /\ DOMAIN req' = Requests /\ \A q \in Requests \ {r} : req'[q] = req[q]
           /\ Active(r)' => Same(r) /\ Kinds(req'[r])
           /\ req'[r].pc = "copy" => /\ L # {} /\ req'[r].left = L /\ req'[r].items = req[r].items
           /\ IF L = {} THEN Goto(r, "ended") ELSE req'[r].pc = "copy"
<1>1. Fields(req[r]) /\ Kinds(req[r]) /\ Shape
  BY TIs
<1>2. CASE L = {}
  <2>1. Goto(r, "ended")
    BY <1>2 DEF CopyOn
  <2> QED
    BY <1>2, <2>1, GoesTo
<1>3. CASE L # {}
  <2> DEFINE k == req[r]
             c == [k EXCEPT !.pc = "copy", !.left = L]
  <2>1. /\ DOMAIN req' = Requests /\ \A q \in Requests \ {r} : req'[q] = req[q]
        /\ req'[r] = c
    BY <1>1, <1>3 DEF CopyOn, Shape
  <2>2. c = [k EXCEPT !.pc = "copy", !.left = L] /\ Fields(k) /\ k = req[r]
    BY <1>1
  <2> HIDE DEF c, k
  <2>3. /\ Fields(c) /\ c.op = k.op /\ c.u = k.u /\ c.via = k.via /\ c.to = k.to /\ c.tags = k.tags
        /\ c.role = k.role /\ c.items = k.items /\ c.pc = "copy" /\ c.left = L
    BY <2>2 DEF Fields
  <2>4. Kinds(c)
    BY <2>2, <2>3 DEF Kinds, Shares
  <2> QED
    BY <1>3, <2>1, <2>2, <2>3, <2>4 DEF Same
<1> QED
  BY <1>2, <1>3

LEMMA TCopies ==
    ASSUME TInv, NEW r \in Requests, Copy(r) \/ CopyInsert(r) \/ CopyChildren(r)
    PROVE  TInv'
<1>1. Active(r) /\ req[r].pc \in {"act", "copy"} /\ UNCHANGED <<listed, lost>>
  BY DEF Copy, CopyInsert, CopyChildren, At, Active, tagging
<1>2. Kinds(req[r]) /\ Shape /\ Tagged
  BY <1>1, TIs DEF TInv
<1>3. req[r].op = "copy"
  BY <1>2 DEF Copy, CopyInsert, CopyChildren, At, Op, Kinds
<1>4. ASSUME NEW L, CopyOn(r, L), DOMAIN tags' = Items,
             \A i \in Items : \A t \in tags'[i] : Known(t),
             \A e \in L : \A t \in e.tags : Known(t)
      PROVE  TInv'
  <2>1. /\ DOMAIN req' = Requests /\ \A q \in Requests \ {r} : req'[q] = req[q]
        /\ Active(r)' => Same(r) /\ Kinds(req'[r])
        /\ req'[r].pc = "copy" => req'[r].left = L
    BY <1>1, <1>3, <1>4, CopyStep
  <2>2. ASSUME NEW t, Known(t) PROVE Known(t)'
    BY <1>1, <2>1, <2>2 DEF Known
  <2>3. ASSUME NEW t, Held(t)' PROVE Known(t)'
    <3>1. PICK q \in Requests : req'[q].pc = "copy" /\ \E e \in req'[q].left : t \in e.tags
      BY <2>3 DEF Held, At
    <3>2. CASE q = r
      BY <1>4, <2>1, <2>2, <3>1, <3>2
    <3>3. CASE q # r
      <4>1. Held(t)
        BY <2>1, <3>1, <3>3 DEF Held, At
      <4> QED
        BY <1>2, <2>2, <4>1 DEF Tagged
    <3> QED
      BY <3>2, <3>3
  <2> QED
    BY <1>4, <2>1, <2>2, <2>3, TMarks DEF Same
<1>5. \A i \in Items : \A t \in tags[i] : Known(t)
  BY <1>2 DEF Tagged
<1>6. ASSUME req[r].pc = "copy", NEW e \in req[r].left, NEW t \in e.tags PROVE Known(t)
  <2>1. Held(t)
    BY <1>6 DEF Held, At
  <2> QED
    BY <1>2, <2>1 DEF Tagged
<1>7. CASE Copy(r)
  <2> DEFINE L == IF Live(Item(r)) /\ OpenDir(req[r].to) THEN {ToInsert(Item(r), req[r].to, 0)} ELSE {}
  <2>1. CopyOn(r, L) /\ tags' = tags
    BY <1>7 DEF Copy, tagging
  <2>2. \A e \in L : Item(r) \in Items /\ e.tags = tags[Item(r)]
    BY DEF Live, Stored, ToInsert
  <2> HIDE DEF L
  <2> QED
    BY <1>2, <1>4, <1>5, <2>1, <2>2 DEF Shape
<1>8. CASE CopyInsert(r)
  <2>1. PICK e \in Deepest(req[r].left), n \in Items :
          /\ tags' = [tags EXCEPT ![n] = e.tags]
          /\ CopyOn(r, (req[r].left \ {e}) \cup IF n \in Dirs THEN {ToList(e, n)} ELSE {})
    BY <1>8 DEF CopyInsert
  <2> DEFINE L == (req[r].left \ {e}) \cup IF n \in Dirs THEN {ToList(e, n)} ELSE {}
  <2>2. req[r].pc = "copy" /\ e \in req[r].left
    BY <1>8 DEF CopyInsert, At, Deepest
  <2>3. ASSUME NEW f \in L, NEW t \in f.tags PROVE Known(t)
    <3>1. ToList(e, n).tags = {}
      BY DEF ToList
    <3>2. f \in req[r].left
      BY <2>3, <3>1
    <3> QED
      BY <1>6, <2>2, <2>3, <3>2
  <2>4. CopyOn(r, L)
    BY <2>1
  <2> HIDE DEF L
  <2>5. DOMAIN tags' = Items /\ \A i \in Items : tags'[i] = tags[i] \/ tags'[i] = e.tags
    BY <1>2, <2>1 DEF Shape
  <2> QED
    BY <1>4, <1>5, <1>6, <2>2, <2>3, <2>4, <2>5
<1>9. CASE CopyChildren(r)
  <2>1. PICK e \in Deepest(req[r].left) :
          CopyOn(r, (req[r].left \ {e}) \cup {ToInsert(i, e.under, e.deep) : i \in Children(e.src)})
    BY <1>9 DEF CopyChildren
  <2> DEFINE L == (req[r].left \ {e}) \cup {ToInsert(i, e.under, e.deep) : i \in Children(e.src)}
  <2>2. req[r].pc = "copy" /\ tags' = tags
    BY <1>9 DEF CopyChildren, At, tagging
  <2>3. ASSUME NEW f \in L, NEW t \in f.tags PROVE Known(t)
    <3>1. CASE f \in req[r].left
      BY <1>6, <2>2, <2>3, <3>1
    <3>2. CASE f \notin req[r].left
      <4>1. PICK i \in Children(e.src) : f = ToInsert(i, e.under, e.deep)
        BY <2>3, <3>2
      <4>2. i \in Items /\ f.tags = tags[i]
        BY <4>1 DEF Children, ToInsert
      <4> QED
        BY <1>5, <2>3, <4>2
    <3> QED
      BY <3>1, <3>2
  <2>4. CopyOn(r, L)
    BY <2>1
  <2> HIDE DEF L
  <2> QED
    BY <1>2, <1>4, <1>5, <2>2, <2>3, <2>4 DEF Shape
<1> QED
  BY <1>7, <1>8, <1>9

LEMMA TStart == ASSUME TInv, NEW r \in Requests, Start(r) PROVE TInv'
<1>1. PICK c : /\ Begin(r, c) /\ Fields(c) /\ Kinds(c) /\ c.pc # "copy"
               /\ UNCHANGED <<tags, listed, lost>>
  BY StartIs
<1>2. /\ DOMAIN req' = Requests /\ \A q \in Requests \ {r} : req'[q] = req[q]
      /\ req'[r] = c /\ req[r].pc = "idle"
  BY <1>1 DEF Begin, At, TInv, Shape
<1> QED
  BY <1>1, <1>2, Quiet

LEMMA TStepwise == ASSUME TInv, [Next]_vars PROVE TInv'
<1>1. CASE UNCHANGED vars
  <2>1. \A t : (Known(t)' <=> Known(t)) /\ (Held(t)' <=> Held(t))
    BY <1>1 DEF vars, tagging, Known, Held, At
  <2> QED
    BY <1>1, <2>1 DEF vars, tagging, TInv, Shape, Tagged, Active
<1> QED
  BY <1>1, TLooks, TClimb, TFind, TTags, TCopies, TStart DEF Next, Continue

LEMMA TListed == ASSUME TInv PROVE TagsListed
<1> SUFFICES ASSUME \A r \in Requests : ~Active(r) \/ ~Op(r, {"tags", "untag"}), NEW i \in Items, NEW t \in tags[i]
             PROVE  t \in listed \cup lost
  BY DEF TagsListed
<1>1. Known(t)
  BY DEF TInv, Tagged
<1>2. ASSUME NEW r \in Requests, req[r].pc \in {"list", "untag"} PROVE FALSE
  <2>1. Active(r)
    BY <1>2 DEF Active
  <2>2. Kinds(req[r])
    BY <2>1, TIs
  <2> QED
    BY <1>2, <2>1, <2>2 DEF Kinds, Op
<1> QED
  BY <1>1, <1>2 DEF Known

-----------------------------------------------------------------------------
(* The rows of shares: a user has one for a resource, its id is its own.   *)
(* A grant or revocation that has looked still finds what it found.        *)
Rows ==
    /\ \A p \in rows : p.id # <<>>
    /\ \A p, q \in rows : p.id = q.id \/ (p.u = q.u /\ p.res = q.res) => p = q
    /\ \A p \in rows : \A r \in Requests : p.id = <<r>> => req[r].pc = "ended"

Found(r) ==
    LET c == req[r] IN
    /\ c.op = "grant" => <<c.to, c.via>> \notin out
    /\ c.pc = "save" => \/ c.row = <<>> /\ RowsOf(c) = {}
                        \/ \E p \in RowsOf(c) : p.id = c.row
    /\ c.pc = "remove" => \E p \in RowsOf(c) : p.id = c.row

Lone == \A q, r \in Requests :
    q # r /\ Active(q) /\ Active(r) /\ {req[q].op, req[r].op} \subseteq Shares
        => req[q].via # req[r].via

RInv ==
    /\ Rows /\ Lone /\ RevokedStayOut
    /\ \A r \in Requests : Active(r) => Found(r)

LEMMA RInitially == Init => RInv
<1> SUFFICES ASSUME Init PROVE RInv
  OBVIOUS
<1>1. \A r \in Requests : req[r].pc = "idle"
  BY DEF Init, Idle
<1>2. \A p \in rows : \E u, s : p = [id |-> <<u, s>>, u |-> u, res |-> s, role |-> "write"]
  BY DEF Init
<1>3. Rows
  <2>1. \A p \in rows : p.id = <<p.u, p.res>> /\ p = [id |-> p.id, u |-> p.u, res |-> p.res, role |-> "write"]
    BY <1>2
  <2>2. ASSUME NEW p \in rows, NEW r PROVE p.id # <<>> /\ p.id # <<r>>
    BY <2>1
  <2>3. ASSUME NEW p \in rows, NEW q \in rows, p.id = q.id \/ (p.u = q.u /\ p.res = q.res)
        PROVE  p = q
    <3>1. p.u = q.u /\ p.res = q.res
      BY <2>1, <2>3
    <3>2. p.id = q.id
      BY <2>1, <3>1
    <3> QED
      BY <2>1, <3>1, <3>2
  <2> QED
    BY <2>2, <2>3 DEF Rows
<1> QED
  BY <1>1, <1>3 DEF RInv, Lone, Active, RevokedStayOut, Init

(* A step that leaves rows and history alone.                              *)
LEMMA RQuiet ==
    ASSUME RInv, NEW r \in Requests, Active(r), UNCHANGED <<rows, out>>,
           \A q \in Requests \ {r} : req'[q] = req[q],
           Active(r)' => /\ req'[r].op = req[r].op
                         /\ req'[r].op \in Shares => req'[r].via = req[r].via
                         /\ Found(r)'
    PROVE  RInv'
<1>1. Lone'
  BY DEF RInv, Lone, Active
<1>2. Rows'
  BY DEF RInv, Rows, Active
<1>3. ASSUME NEW q \in Requests, q # r, Active(q)' PROVE Found(q)'
  <2>1. req'[q] = req[q] /\ Active(q) /\ Found(q)
    BY <1>3 DEF RInv, Active
  <2>2. RowsOf(req[q])' = RowsOf(req[q])
    BY <2>1 DEF RowsOf
  <2> QED
    BY <2>1, <2>2 DEF Found
<1> QED
  BY <1>1, <1>2, <1>3 DEF RInv, RevokedStayOut

LEMMA RApart ==
    ASSUME TInv, RInv, NEW r \in Requests,
           Climb(r) \/ Verify(r) \/ Browse(r) \/ Move(r) \/ Delete(r) \/ Restore(r)
           \/ Doom(r) \/ CreateItem(r) \/ TagItem(r) \/ ListTags(r) \/ Unlist(r)
           \/ UntagItems(r) \/ OwnStorage(r) \/ Rename(r) \/ Copy(r) \/ CopyInsert(r)
           \/ CopyChildren(r) \/ CopyFails(r) \/ (InStorage(r) /\ req[r].op # "grant")
    PROVE  RInv'
<1>1. /\ Active(r) /\ UNCHANGED <<rows, out>>
      /\ req[r].pc \notin {"find", "save", "remove"}
      /\ req[r].pc = "resource" => req[r].op # "grant"
  BY DEF Climb, InStorage, Verify, Browse, Move, Delete, Restore, Doom, CreateItem, TagItem,
         ListTags, Unlist, UntagItems, OwnStorage, Rename, Copy, CopyInsert, CopyChildren, CopyFails,
         At, Active
<1>2. Fields(req[r]) /\ Kinds(req[r]) /\ Shape
  BY <1>1 DEF TInv
<1>3. req[r].op \notin Shares
  BY <1>1, <1>2 DEF Kinds, Shares
<1>4. TInv'
  BY TLooks, TClimb, TTags, TCopies
<1>5. /\ \A q \in Requests \ {r} : req'[q] = req[q]
      /\ Active(r)' => req'[r].op = req[r].op
  <2>1. ASSUME NEW pc, Goto(r, pc)
        PROVE  /\ \A q \in Requests \ {r} : req'[q] = req[q]
               /\ Active(r)' => req'[r].op = req[r].op
    BY <1>2, <2>1, GotoStep DEF Same, Active
  <2>2. CASE Climb(r)
    <3>1. CASE req' = [req EXCEPT ![r] = Passed(req[r])]
      <4>1. Passed(req[r]).op = req[r].op
        BY <1>2, <2>2, PassedIs DEF Climb, At
      <4> QED
        BY <1>2, <3>1, <4>1 DEF Shape
    <3>2. ASSUME NEW above, req' = [req EXCEPT ![r].at = above]
          PROVE  /\ \A q \in Requests \ {r} : req'[q] = req[q]
                 /\ req'[r].op = req[r].op
      BY <1>2, <3>2 DEF Shape, Fields
    <3> QED
      BY <2>1, <2>2, <3>1, <3>2 DEF Climb
  <2>3. CASE Copy(r) \/ CopyInsert(r) \/ CopyChildren(r)
    <3>1. PICK L : CopyOn(r, L)
      BY <2>3 DEF Copy, CopyInsert, CopyChildren
    <3>2. req[r].op = "copy"
      BY <1>2, <2>3 DEF Copy, CopyInsert, CopyChildren, At, Op, Kinds
    <3> QED
      BY <1>1, <3>1, <3>2, CopyStep DEF Same
  <2> QED
    BY <2>1, <2>2, <2>3 DEF InStorage, Verify, Browse, Move, Delete, Restore, Doom, CreateItem,
       TagItem, ListTags, Unlist, UntagItems, OwnStorage, Rename, CopyFails
<1>6. Active(r)' => Found(r)'
  BY <1>3, <1>4, <1>5 DEF TInv, Kinds, Found, Shares
<1> QED
  BY <1>1, <1>3, <1>5, <1>6, RQuiet

LEMMA RInStorage == ASSUME TInv, RInv, NEW r \in Requests, InStorage(r), req[r].op = "grant" PROVE RInv'
<1>1. /\ Active(r) /\ UNCHANGED <<rows, out>> /\ req[r].pc = "resource"
      /\ Goto(r, "find") \/ Goto(r, "ended")
  BY DEF InStorage, At, Active, Op
<1>2. Fields(req[r]) /\ Kinds(req[r]) /\ Shape /\ Found(r)
  BY <1>1 DEF TInv, RInv
<1>3. CASE Goto(r, "ended")
  <2>1. /\ \A q \in Requests \ {r} : req'[q] = req[q]
        /\ req'[r].pc = "ended"
    BY <1>1, <1>3, GoesTo DEF Shares
  <2> QED
    BY <1>1, <2>1, RQuiet DEF Active
<1>4. CASE Goto(r, "find")
  <2>1. /\ \A q \in Requests \ {r} : req'[q] = req[q]
        /\ req'[r].pc = "find" /\ Same(r)
    BY <1>1, <1>4, GoesTo
  <2>2. Found(r)'
    BY <1>1, <1>2, <2>1 DEF Found, Same
  <2> QED
    BY <1>1, <2>1, <2>2, RQuiet DEF Same
<1> QED
  BY <1>1, <1>3, <1>4

LEMMA RFind == ASSUME TInv, RInv, NEW r \in Requests, FindRow(r) PROVE RInv'
<1>1. /\ Active(r) /\ req[r].pc = "find" /\ UNCHANGED <<rows, out>>
      /\ Fields(req[r]) /\ Kinds(req[r]) /\ req[r].op \in Shares /\ Found(r)
  BY DEF FindRow, At, Active, TInv, Kinds, RInv
<1>2. CASE Goto(r, "ended")
  <2>1. /\ \A q \in Requests \ {r} : req'[q] = req[q]
        /\ req'[r].pc = "ended"
    BY <1>1, <1>2, GoesTo
  <2> QED
    BY <1>1, <2>1, RQuiet DEF Active
<1>3. CASE RowsOf(req[r]) = {} /\ req[r].op = "grant" /\ Goto(r, "save")
  <2>1. /\ \A q \in Requests \ {r} : req'[q] = req[q]
        /\ req'[r].pc = "save" /\ Same(r)
    BY <1>1, <1>3, GoesTo
  <2>2. req'[r].row = <<>>
    BY <1>1, <1>3, <2>1, GoesTo DEF Active, Kinds
  <2>3. RowsOf(req[r])' = {}
    BY <1>1, <1>3, <2>1 DEF RowsOf, Same
  <2>4. Found(r)'
    BY <1>1, <2>1, <2>2, <2>3 DEF Found, Same
  <2> QED
    BY <1>1, <2>1, <2>4, RQuiet DEF Same
<1>4. CASE RowsOf(req[r]) # {}
  <2>1. PICK p \in RowsOf(req[r]) :
           req' = [req EXCEPT ![r] = [@ EXCEPT !.row = p.id,
                                        !.pc = IF req[r].op = "grant" THEN "save" ELSE "remove"]]
    BY <1>4 DEF FindRow
  <2> DEFINE pc == IF req[r].op = "grant" THEN "save" ELSE "remove"
             id == p.id
             k  == req[r]
             c  == [k EXCEPT !.row = id, !.pc = pc]
  <2>2. \A q \in Requests \ {r} : req'[q] = req[q]
    BY <2>1 DEF TInv, Shape
  <2>3. req'[r] = c
    BY <2>1 DEF TInv, Shape
  <2>4. c = [k EXCEPT !.row = id, !.pc = pc] /\ Fields(k) /\ k = req[r] /\ id = p.id
    BY <1>1
  <2> HIDE DEF pc, id, c, k
  <2>5. c.op = k.op /\ c.via = k.via /\ c.to = k.to /\ c.row = id
    BY <2>4 DEF Fields
  <2>6. RowsOf(req[r])' = RowsOf(req[r])
    BY <1>1, <2>3, <2>4, <2>5 DEF RowsOf
  <2>7. Found(r)'
    BY <1>1, <2>1, <2>3, <2>4, <2>5, <2>6 DEF Found
  <2> QED
    BY <1>1, <2>2, <2>3, <2>4, <2>5, <2>7, RQuiet
<1> QED
  BY <1>2, <1>3, <1>4 DEF FindRow, Op

(* A request that writes a row of its own resource, and ends.              *)
LEMMA RWrites ==
    ASSUME TInv, RInv, NEW r \in Requests, Active(r), req[r].op \in Shares,
           \A q \in Requests \ {r} : req'[q] = req[q], req'[r].pc = "ended",
           \A p : p.res # req[r].via => (p \in rows' <=> p \in rows),
           \A o : o[2] # req[r].via => (o \in out' <=> o \in out),
           Rows', RevokedStayOut'
    PROVE  RInv'
<1>1. ~Active(r)'
  BY DEF Active
<1>2. Lone'
  BY <1>1 DEF RInv, Lone, Active
<1>3. ASSUME NEW q \in Requests, q # r, Active(q)' PROVE Found(q)'
  <2>1. req'[q] = req[q] /\ Active(q) /\ Found(q)
    BY <1>3 DEF RInv, Active
  <2>2. CASE req[q].op \notin Shares
    <3>1. req[q].pc \notin {"save", "remove"} /\ req[q].op # "grant"
      BY <2>1, <2>2 DEF TInv, Kinds, Shares
    <3> QED
      BY <2>1, <3>1 DEF Found
  <2>3. CASE req[q].op \in Shares
    <3>1. req[q].via # req[r].via
      BY <1>3, <2>1, <2>3 DEF RInv, Lone
    <3>2. RowsOf(req[q])' = RowsOf(req[q])
      BY <2>1, <3>1 DEF RowsOf
    <3>3. <<req[q].to, req[q].via>> \in out' <=> <<req[q].to, req[q].via>> \in out
      <4> DEFINE o == <<req[q].to, req[q].via>>
      <4>1. o[2] # req[r].via
        BY <3>1
      <4> QED
        BY <4>1
    <3> QED
      BY <2>1, <3>2, <3>3 DEF Found
  <2> QED
    BY <2>2, <2>3
<1> QED
  BY <1>1, <1>2, <1>3 DEF RInv

LEMMA RSave == ASSUME TInv, RInv, NEW r \in Requests, SaveRow(r) PROVE RInv'
<1>1. /\ Active(r) /\ req[r].pc = "save" /\ Goto(r, "ended") /\ UNCHANGED out
      /\ Kinds(req[r]) /\ req[r].op = "grant" /\ Found(r) /\ Rows /\ RevokedStayOut
  BY DEF SaveRow, At, Active, TInv, Kinds, RInv
<1>2. \A q \in Requests \ {r} : req'[q] = req[q]
  BY <1>1, GoesTo
<1>3. req'[r].pc = "ended"
  BY <1>1, GoesTo DEF Shares
<1> DEFINE c   == req[r]
           id  == IF c.row = <<>> THEN <<r>> ELSE c.row
           row == [id |-> id, u |-> c.to, res |-> c.via, role |-> c.role]
<1>4. rows' = {p \in rows : p.id # id} \cup {row}
  BY DEF SaveRow
<1>5. row.id = id /\ row.u = c.to /\ row.res = c.via
  OBVIOUS
<1>6. \A p \in rows : p.id = id => p.res = c.via
  <2>1. CASE c.row = <<>>
    BY <1>1, <2>1 DEF Rows
  <2>2. CASE c.row # <<>>
    BY <1>1, <2>2 DEF Found, Rows, RowsOf
  <2> QED
    BY <2>1, <2>2
<1>7. \A p \in rows : p.id # id => ~(p.u = c.to /\ p.res = c.via)
  <2>1. CASE c.row = <<>>
    <3>1. RowsOf(c) = {}
      BY <1>1, <2>1 DEF Found, Rows, RowsOf
    <3> QED
      BY <3>1 DEF RowsOf
  <2>2. CASE c.row # <<>>
    BY <1>1, <2>2 DEF Found, Rows, RowsOf
  <2> QED
    BY <2>1, <2>2
<1>8. id # <<>> /\ \A q \in Requests : id = <<q>> => q = r \/ req[q].pc = "ended"
  <2>1. CASE c.row = <<>>
    <3>1. \A q \in Requests : id = <<q>> => q = r
      BY <2>1
    <3>2. id # <<>>
      BY <2>1
    <3> QED
      BY <3>1, <3>2
  <2>2. CASE c.row # <<>>
    BY <1>1, <2>2 DEF Found, Rows, RowsOf
  <2> QED
    BY <2>1, <2>2
<1>9. <<c.to, c.via>> \notin out
  BY <1>1 DEF Found
<1> HIDE DEF id, row
<1>10. Rows'
  <2>1. \A p \in rows' : p.id # <<>>
    BY <1>1, <1>4, <1>5, <1>8 DEF Rows
  <2>2. \A p, q \in rows' : p.id = q.id \/ (p.u = q.u /\ p.res = q.res) => p = q
    BY <1>1, <1>4, <1>5, <1>7 DEF Rows
  <2>3. \A p \in rows' : \A q \in Requests : p.id = <<q>> => req'[q].pc = "ended"
    BY <1>1, <1>2, <1>3, <1>4, <1>5, <1>8 DEF Rows
  <2> QED
    BY <2>1, <2>2, <2>3 DEF Rows
<1>11. RevokedStayOut'
  BY <1>1, <1>4, <1>5, <1>9 DEF RevokedStayOut
<1>12. \A p : p.res # c.via => (p \in rows' <=> p \in rows)
  BY <1>4, <1>5, <1>6
<1> QED
  BY <1>1, <1>2, <1>3, <1>10, <1>11, <1>12, RWrites DEF Shares

LEMMA RRemove == ASSUME TInv, RInv, NEW r \in Requests, RemoveRow(r) PROVE RInv'
<1>1. /\ Active(r) /\ req[r].pc = "remove" /\ Goto(r, "ended")
      /\ Kinds(req[r]) /\ req[r].op = "revoke" /\ Found(r) /\ Rows /\ RevokedStayOut
  BY DEF RemoveRow, At, Active, TInv, Kinds, RInv
<1>2. \A q \in Requests \ {r} : req'[q] = req[q]
  BY <1>1, GoesTo
<1>3. req'[r].pc = "ended"
  BY <1>1, GoesTo DEF Shares
<1> DEFINE o == <<req[r].to, req[r].via>>
<1>4. /\ rows' = {p \in rows : p.id # req[r].row} /\ out' = out \cup {o}
      /\ o[2] = req[r].via
  BY DEF RemoveRow
<1>5. \A p \in rows : p.id = req[r].row <=> p.u = req[r].to /\ p.res = req[r].via
  BY <1>1 DEF Found, Rows, RowsOf
<1>6. \A p \in rows' : <<p.u, p.res>> # o
  BY <1>4, <1>5
<1> HIDE DEF o
<1>7. Rows'
  BY <1>1, <1>2, <1>3, <1>4 DEF Rows
<1>8. RevokedStayOut'
  BY <1>1, <1>4, <1>6 DEF RevokedStayOut
<1>9. \A p : p.res # req[r].via => (p \in rows' <=> p \in rows)
  BY <1>4, <1>5
<1>10. \A x : x[2] # req[r].via => (x \in out' <=> x \in out)
  BY <1>4
<1> QED
  BY <1>1, <1>2, <1>3, <1>7, <1>8, <1>9, <1>10, RWrites DEF Shares

LEMMA RStart == ASSUME Apart, TInv, RInv, NEW r \in Requests, Start(r) PROVE RInv'
<1>1. PICK c : /\ Begin(r, c) /\ Fields(c) /\ Kinds(c)
               /\ c.pc \notin {"idle", "ended", "list", "untag", "save", "remove", "copy"} /\ c.row = <<>>
               /\ UNCHANGED rows
               /\ out' = IF c.op = "grant" THEN out \ {<<c.to, c.via>>} ELSE out
  BY StartIs
<1>2. /\ \A q \in Requests \ {r} : req'[q] = req[q]
      /\ req'[r] = c /\ req[r].pc = "idle"
  BY <1>1 DEF Begin, At, TInv, Shape
<1>3. \A q \in Requests : Active(q) /\ {req[q].op, c.op} \subseteq Shares => req[q].via # c.via
  BY <1>1 DEF Begin, Overlap, Shares
<1>4. Lone'
  <2> SUFFICES ASSUME NEW q \in Requests, NEW s \in Requests, q # s, Active(q)', Active(s)',
                      {req'[q].op, req'[s].op} \subseteq Shares
               PROVE  req'[q].via # req'[s].via
    BY DEF Lone
  <2>1. CASE q = r \/ s = r
    BY <1>2, <1>3, <2>1 DEF Active
  <2>2. CASE q # r /\ s # r
    BY <1>2, <2>2 DEF RInv, Lone, Active
  <2> QED
    BY <2>1, <2>2
<1>5. Rows'
  BY <1>1, <1>2 DEF RInv, Rows
<1>6. RevokedStayOut'
  BY <1>1 DEF RInv, RevokedStayOut
<1>7. ASSUME NEW q \in Requests, Active(q)' PROVE Found(q)'
  <2>1. CASE q = r
    BY <1>1, <1>2, <2>1 DEF Found
  <2>2. CASE q # r
    <3>1. req'[q] = req[q] /\ Found(q)
      BY <1>2, <1>7, <2>2 DEF RInv, Active
    <3>2. RowsOf(req[q])' = RowsOf(req[q])
      BY <1>1, <3>1 DEF RowsOf
    <3> QED
      BY <1>1, <3>1, <3>2 DEF Found
  <2> QED
    BY <2>1, <2>2
<1> QED
  BY <1>4, <1>5, <1>6, <1>7 DEF RInv

LEMMA RStepwise == ASSUME Apart, TInv, RInv, [Next]_vars PROVE RInv'
<1>1. CASE UNCHANGED vars
  BY <1>1 DEF vars, RInv, Rows, Lone, RevokedStayOut, Found, RowsOf, Active
<1>2. ASSUME NEW r \in Requests, Continue(r) PROVE RInv'
  BY <1>2, RApart, RInStorage, RFind, RSave, RRemove DEF Continue
<1> QED
  BY <1>1, <1>2, RStart DEF Next

-----------------------------------------------------------------------------
(* Favorites.  A request for them; the rows it may still insert have ids   *)
(* that nothing names yet.                                                 *)
Marking(c) ==
    /\ Fields(c) /\ c.via = None /\ c.items \in Seq(Items) /\ c.op \in {"mark", "unmark"}
    /\ c.pc \in {"act", "insert", "unmark"}
    /\ c.pc = "insert" => c.op = "mark"
    /\ c.pc = "unmark" => c.op = "unmark"

Open(c, n) == c.pc = "idle" \/ (c.pc \in {"act", "insert"} /\ c.op = "mark" /\ n <= Len(c.items))
Fresh(id) == \E r \in Requests, n \in Nat : id = <<r, n>> /\ Open(req[r], n)

(* A removal that has found its row names none that is to be kept.         *)
Aimed(r) == req[r].pc = "unmark" =>
    /\ ~Fresh(req[r].row)
    /\ \A p \in fav : p.id = req[r].row => <<p.u, p.i>> \notin kept

MarkShape == Shape /\ \A r \in Requests : req[r].pc \in {"idle", "ended"} \/ Marking(req[r])
MarkIds ==
    /\ \A p, q \in fav : p.id = q.id => p.u = q.u /\ p.i = q.i
    /\ \A p \in fav : ~Fresh(p.id)
    /\ \A k \in kept : k = <<k[1], k[2]>>

MarkInv == MarkShape /\ MarkIds /\ FavoritesStay /\ \A r \in Requests : Aimed(r)

LEMMA NextMark ==
    ASSUME MarkShape, NEW r \in Requests, Marking(req[r]), Goto(r, "ended")
    PROVE  /\ DOMAIN req' = Requests /\ \A q \in Requests \ {r} : req'[q] = req[q]
           /\ \/ req'[r].pc = "ended"
              \/ /\ Marking(req'[r]) /\ req'[r].op = req[r].op /\ req'[r].pc = "act"
                 /\ Len(req'[r].items) < Len(req[r].items)
<1> DEFINE c == req[r]
           s == Tail(c.items)
<1>1. DOMAIN req' = Requests /\ \A q \in Requests \ {r} : req'[q] = req[q]
  BY DEF Goto, MarkShape, Shape
<1>2. CASE Len(c.items) > 1
  <2>1. req'[r] = Take(c, s)
    BY <1>2 DEF Goto, MarkShape, Shape
  <2>2. s \in Seq(Items) /\ Len(s) < Len(c.items)
    <3>1. c.items \in Seq(Items)
      BY DEF Marking
    <3>2. c.items # <<>>
      BY <1>2
    <3> QED
      BY <3>1, <3>2, HeadTailProperties
  <2> HIDE DEF s
  <2>3. Fields(Take(c, s)) /\ Take(c, s).items = s /\ Take(c, s).op = c.op /\ Take(c, s).via = c.via
    BY TakeIs DEF Marking
  <2>4. Take(c, s).pc = "act"
    BY DEF Take, Marking, Fields
  <2> QED
    BY <1>1, <2>1, <2>2, <2>3, <2>4 DEF Marking
<1>3. CASE ~(Len(c.items) > 1)
  BY <1>1, <1>3 DEF Goto, MarkShape, Shape
<1> QED
  BY <1>2, <1>3

(* A step of request r makes nothing fresh, so what others aim at stays    *)
(* theirs, unless what is to be kept grows.                                *)
LEMMA FreshStays ==
    ASSUME NEW r \in Requests, \A q \in Requests \ {r} : req'[q] = req[q],
           \A n \in Nat : Open(req'[r], n) => Open(req[r], n)
    PROVE  \A id : Fresh(id)' => Fresh(id)
<1>1. ASSUME NEW id, NEW q \in Requests, NEW n \in Nat, id = <<q, n>>, Open(req'[q], n) PROVE Fresh(id)
  BY <1>1 DEF Fresh
<1> QED
  BY <1>1 DEF Fresh

LEMMA MarkStays ==
    ASSUME MarkInv, NEW r \in Requests, DOMAIN req' = Requests, UNCHANGED tags,
           \A q \in Requests \ {r} : req'[q] = req[q],
           req'[r].pc \in {"idle", "ended"} \/ Marking(req'[r]),
           \A n \in Nat : Open(req'[r], n) => Open(req[r], n),
           fav' \subseteq fav, kept' \subseteq kept, FavoritesStay', Aimed(r)'
    PROVE  MarkInv'
<1>1. \A id : Fresh(id)' => Fresh(id)
  BY FreshStays
<1>2. MarkShape'
  BY DEF MarkInv, MarkShape, Shape
<1>3. MarkIds'
  BY <1>1 DEF MarkInv, MarkIds
<1>4. ASSUME NEW q \in Requests, q # r PROVE Aimed(q)'
  <2>1. req'[q] = req[q] /\ Aimed(q)
    BY <1>4 DEF MarkInv
  <2> QED
    BY <1>1, <2>1 DEF Aimed
<1> QED
  BY <1>2, <1>3, <1>4 DEF MarkInv

LEMMA MarkBegins == ASSUME MarkInv, NEW r \in Requests, StartMark(r) PROVE MarkInv'
<1>1. PICK op \in {"mark", "unmark"}, u \in Users, s \in Seq(Items) : BeginMark(r, op, u, s)
  <2>1. \A i \in Marked : <<i>> \in Seq(Items)
    BY FavoritesAssumption
  <2>2. Batches \subseteq Seq(Items)
    BY SharingAssumption
  <2> QED
    BY <2>1, <2>2
       DEF StartMark, Add, AddBatch, AddShared, AddSharedBatch, Remove, RemoveShared, RemoveBatch
<1> DEFINE k == Call(op, "act", u, None)
           c == Take(k, s)
<1>2. req[r].pc = "idle" /\ req' = [req EXCEPT ![r] = c] /\ UNCHANGED <<tags, fav, kept>>
  BY <1>1 DEF BeginMark, Begin, At, tagging, favorites
<1>3. Fields(k) /\ k.op = op /\ k.via = None
  BY CallIs
<1> HIDE DEF k
<1>4. Fields(c) /\ c.items = s /\ c.op = op /\ c.via = None
  BY <1>3, TakeIs
<1>5. c.pc = "act"
  BY <1>3 DEF Take, Fields
<1> HIDE DEF c
<1>6. Marking(c)
  BY <1>1, <1>4, <1>5 DEF Marking
<1>7. DOMAIN req' = Requests /\ req'[r] = c /\ \A q \in Requests \ {r} : req'[q] = req[q]
  BY <1>2 DEF MarkInv, MarkShape, Shape
<1>8. FavoritesStay'
  BY <1>2 DEF MarkInv, FavoritesStay, IsFavorite, Marks
<1>9. \A n \in Nat : Open(req[r], n)
  BY <1>2 DEF Open
<1>10. Aimed(r)'
  BY <1>5, <1>7 DEF Aimed
<1> QED
  BY <1>2, <1>6, <1>7, <1>8, <1>9, <1>10, MarkStays

(* Lookups, refusals and failures.                                         *)
LEMMA MarkLooks ==
    ASSUME MarkInv, NEW r \in Requests, FindMark(r) \/ MarkFails(r) \/ (InsertMark(r) /\ UNCHANGED favorites)
    PROVE  MarkInv'
<1>1. /\ Marking(req[r]) /\ MarkShape /\ UNCHANGED <<tags, fav, kept>>
      /\ Goto(r, "ended") \/ (Goto(r, "insert") /\ req[r].op = "mark" /\ req[r].pc = "act")
  BY DEF MarkInv, MarkShape, FindMark, MarkFails, InsertMark, At, Op, tagging, favorites
<1>2. FavoritesStay'
  BY <1>1 DEF MarkInv, FavoritesStay, IsFavorite, Marks
<1>3. CASE Goto(r, "ended")
  <2>1. /\ DOMAIN req' = Requests /\ \A q \in Requests \ {r} : req'[q] = req[q]
        /\ \/ req'[r].pc = "ended"
           \/ /\ Marking(req'[r]) /\ req'[r].op = req[r].op /\ req'[r].pc = "act"
              /\ Len(req'[r].items) < Len(req[r].items)
    BY <1>1, <1>3, NextMark
  <2>2. \A n \in Nat : Open(req'[r], n) => Open(req[r], n)
    <3>1. req'[r].pc # "ended" => Len(req'[r].items) \in Nat /\ Len(req[r].items) \in Nat
      BY <1>1, <2>1 DEF Marking
    <3>2. req[r].op = "mark" => req[r].pc \in {"act", "insert"}
      BY <1>1 DEF Marking
    <3> QED
      BY <2>1, <3>1, <3>2 DEF Open
  <2>3. Aimed(r)'
    BY <2>1 DEF Aimed
  <2> QED
    BY <1>1, <1>2, <2>1, <2>2, <2>3, MarkStays
<1>4. CASE Goto(r, "insert") /\ req[r].op = "mark" /\ req[r].pc = "act"
  <2>1. req'[r] = [req[r] EXCEPT !.pc = "insert"] /\ DOMAIN req' = Requests
        /\ \A q \in Requests \ {r} : req'[q] = req[q]
    BY <1>1, <1>4 DEF Goto, MarkShape, Shape
  <2>2. Marking(req'[r]) /\ req'[r].items = req[r].items /\ req'[r].op = "mark" /\ req'[r].pc = "insert"
    BY <1>1, <1>4, <2>1 DEF Marking, Fields
  <2>3. \A n \in Nat : Open(req'[r], n) => Open(req[r], n)
    BY <1>4, <2>2 DEF Open
  <2>4. Aimed(r)'
    BY <2>2 DEF Aimed
  <2> QED
    BY <1>1, <1>2, <2>1, <2>2, <2>3, <2>4, MarkStays
<1> QED
  BY <1>1, <1>3, <1>4

(* The new row has an id that no removal has found.                        *)
LEMMA MarkInserts ==
    ASSUME MarkInv, NEW r \in Requests, InsertMark(r), ~IsFavorite(req[r].u, Item(r))
    PROVE  MarkInv'
<1> DEFINE u == req[r].u
           i == Item(r)
           new == Row(<<r, Len(req[r].items)>>, u, i)
<1>1. /\ MarkShape /\ MarkIds /\ FavoritesStay /\ req[r].pc = "insert" /\ Marking(req[r])
      /\ fav' = fav \cup {new} /\ kept' = kept \cup {<<u, i>>} /\ Goto(r, "ended") /\ UNCHANGED tags
  BY DEF MarkInv, MarkShape, InsertMark, At, tagging
<1>2. /\ DOMAIN req' = Requests /\ \A q \in Requests \ {r} : req'[q] = req[q]
      /\ \/ req'[r].pc = "ended"
         \/ /\ Marking(req'[r]) /\ req'[r].op = req[r].op /\ req'[r].pc = "act"
            /\ Len(req'[r].items) < Len(req[r].items)
  BY <1>1, NextMark
<1>3. Len(req[r].items) \in Nat /\ req[r].op = "mark" /\ (req'[r].pc # "ended" => Len(req'[r].items) \in Nat)
  BY <1>1, <1>2 DEF Marking
<1>4. new.id = <<r, Len(req[r].items)>> /\ new.u = u /\ new.i = i
  BY DEF Row
<1>5. \A n \in Nat : Open(req'[r], n) => Open(req[r], n)
  BY <1>1, <1>2, <1>3 DEF Open
<1>6. \A id : Fresh(id)' => Fresh(id)
  BY <1>2, <1>5, FreshStays
<1>7. Fresh(new.id)
  BY <1>1, <1>3, <1>4 DEF Fresh, Open
<1>8. PICK id : id = new.id
  OBVIOUS
<1>9. ~Fresh(id)'
  <2>1. SUFFICES ASSUME NEW q \in Requests, NEW n \in Nat, <<r, Len(req[r].items)>> = <<q, n>>, Open(req'[q], n)
                 PROVE  FALSE
    BY <1>4, <1>8 DEF Fresh
  <2>2. q = r /\ n = Len(req[r].items)
    BY <2>1
  <2> QED
    BY <1>2, <1>3, <2>1, <2>2 DEF Open
<1> HIDE DEF new, u, i
<1>10. \A p \in fav : p.id # id /\ ~(p.u = u /\ p.i = i)
  BY <1>1, <1>7, <1>8 DEF MarkIds, IsFavorite, Marks, u, i
<1>11. MarkShape'
  BY <1>1, <1>2 DEF MarkShape, Shape
<1>12. MarkIds'
  BY <1>1, <1>6, <1>8, <1>9, <1>10 DEF MarkIds
<1>13. FavoritesStay'
  <2>1. ASSUME NEW k \in kept' PROVE \E p \in fav' : p.u = k[1] /\ p.i = k[2]
    <3>1. CASE k \in kept
      BY <1>1, <3>1 DEF FavoritesStay, IsFavorite, Marks
    <3>2. CASE k = <<u, i>>
      BY <1>1, <1>4, <3>2
    <3> QED
      BY <1>1, <2>1, <3>1, <3>2
  <2> QED
    BY <2>1 DEF FavoritesStay, IsFavorite, Marks
<1>14. ASSUME NEW q \in Requests PROVE Aimed(q)'
  <2>1. SUFFICES ASSUME req'[q].pc = "unmark" PROVE Aimed(q)'
    BY DEF Aimed
  <2>2. q # r
    BY <1>2, <2>1
  <2>3. req'[q] = req[q] /\ Aimed(q) /\ req[q].pc = "unmark"
    BY <1>2, <2>1, <2>2 DEF MarkInv
  <2>4. ~Fresh(req[q].row) /\ \A p \in fav : p.id = req[q].row => <<p.u, p.i>> \notin kept
    BY <2>3 DEF Aimed
  <2>5. req[q].row # id
    BY <1>7, <1>8, <2>4
  <2>6. \A p \in fav' : p.id = req[q].row => <<p.u, p.i>> \notin kept'
    BY <1>1, <1>8, <1>10, <2>4, <2>5
  <2> QED
    BY <1>6, <2>3, <2>4, <2>6 DEF Aimed
<1> QED
  BY <1>11, <1>12, <1>13, <1>14 DEF MarkInv

LEMMA MarkFound == ASSUME MarkInv, NEW r \in Requests, FindMarked(r) PROVE MarkInv'
<1>1. /\ MarkShape /\ MarkIds /\ FavoritesStay /\ req[r].pc = "act" /\ Marking(req[r]) /\ req[r].op = "unmark"
      /\ fav' = fav /\ kept' = kept \ {<<req[r].u, Item(r)>>} /\ UNCHANGED tags
  BY DEF MarkInv, MarkShape, FindMarked, At, Op, tagging
<1>2. FavoritesStay'
  BY <1>1 DEF FavoritesStay, IsFavorite, Marks
<1>3. CASE Goto(r, "ended")
  <2>1. /\ DOMAIN req' = Requests /\ \A q \in Requests \ {r} : req'[q] = req[q]
        /\ \/ req'[r].pc = "ended"
           \/ Marking(req'[r]) /\ req'[r].op = req[r].op /\ req'[r].pc = "act"
    BY <1>1, <1>3, NextMark
  <2>2. (\A n \in Nat : Open(req'[r], n) => Open(req[r], n)) /\ Aimed(r)'
    BY <1>1, <2>1 DEF Open, Aimed
  <2> QED
    BY <1>1, <1>2, <2>1, <2>2, MarkStays
<1>4. ASSUME NEW p \in Marks(req[r].u, Item(r)), req' = [req EXCEPT ![r].row = p.id, ![r].pc = "unmark"]
      PROVE  MarkInv'
  <2>1. /\ DOMAIN req' = Requests /\ \A q \in Requests \ {r} : req'[q] = req[q]
        /\ req'[r] = [req[r] EXCEPT !.row = p.id, !.pc = "unmark"]
    BY <1>1, <1>4 DEF MarkShape, Shape
  <2>2. Marking(req'[r]) /\ req'[r].row = p.id /\ req'[r].pc = "unmark"
    BY <1>1, <2>1 DEF Marking, Fields
  <2>3. \A n \in Nat : Open(req'[r], n) => Open(req[r], n)
    BY <2>2 DEF Open
  <2>4. p \in fav /\ p.u = req[r].u /\ p.i = Item(r) /\ ~Fresh(p.id)
    BY <1>1 DEF Marks, MarkIds
  <2>5. Aimed(r)'
    <3>1. \A id : Fresh(id)' => Fresh(id)
      BY <2>1, <2>3, FreshStays
    <3>2. \A q \in fav : q.id = p.id => q.u = req[r].u /\ q.i = Item(r)
      BY <1>1, <2>4 DEF MarkIds
    <3>3. \A q \in fav' : q.id = p.id => <<q.u, q.i>> \notin kept'
      BY <1>1, <3>2
    <3> QED
      BY <2>2, <2>4, <3>1, <3>3 DEF Aimed
  <2> QED
    BY <1>1, <1>2, <2>1, <2>2, <2>3, <2>5, MarkStays
<1> QED
  BY <1>3, <1>4 DEF FindMarked

LEMMA MarkRemoved == ASSUME MarkInv, NEW r \in Requests, RemoveMark(r) PROVE MarkInv'
<1>1. /\ MarkShape /\ MarkIds /\ FavoritesStay /\ req[r].pc = "unmark" /\ Marking(req[r]) /\ req[r].op = "unmark"
      /\ fav' = {p \in fav : p.id # req[r].row} /\ kept' = kept /\ UNCHANGED tags /\ Goto(r, "ended") /\ Aimed(r)
  BY DEF MarkInv, MarkShape, RemoveMark, At, tagging, Marking
<1>2. /\ DOMAIN req' = Requests /\ \A q \in Requests \ {r} : req'[q] = req[q]
      /\ \/ req'[r].pc = "ended"
         \/ Marking(req'[r]) /\ req'[r].op = req[r].op /\ req'[r].pc = "act"
  BY <1>1, NextMark
<1>3. (\A n \in Nat : Open(req'[r], n) => Open(req[r], n)) /\ Aimed(r)'
  BY <1>1, <1>2 DEF Open, Aimed
<1>4. FavoritesStay'
  <2>1. ASSUME NEW k \in kept PROVE \E p \in fav' : p.u = k[1] /\ p.i = k[2]
    <3>1. PICK p \in fav : p.u = k[1] /\ p.i = k[2]
      BY <1>1, <2>1 DEF FavoritesStay, IsFavorite, Marks
    <3> QED
      <4>1. k = <<p.u, p.i>>
        BY <1>1, <2>1, <3>1 DEF MarkIds
      <4>2. p.id # req[r].row
        BY <1>1, <2>1, <4>1 DEF Aimed
      <4> QED
        BY <1>1, <3>1, <4>2
  <2> QED
    BY <1>1, <2>1 DEF FavoritesStay, IsFavorite, Marks
<1> QED
  BY <1>1, <1>2, <1>3, <1>4, MarkStays

LEMMA MarkInitially == ASSUME FavoritesInit PROVE MarkInv
<1>1. /\ DOMAIN req = Requests /\ DOMAIN tags = Items /\ kept = Invited \X Marked
      /\ \A r \in Requests : req[r].pc = "idle"
  BY SharingAssumption DEF FavoritesInit, Init, Idle
<1>2. fav = {Row(<<0, u, i>>, u, i) : u \in Invited, i \in Marked}
  BY DEF FavoritesInit
<1>3. \A p \in fav : p.id = <<0, p.u, p.i>>
  BY <1>2 DEF Row
<1>4. \A id : Fresh(id) => \E r \in Requests, n \in Nat : id = <<r, n>>
  BY DEF Fresh
<1>5. MarkIds
  <2>1. \A p, q \in fav : p.id = q.id => p.u = q.u /\ p.i = q.i
    BY <1>3
  <2>2. \A p \in fav : ~Fresh(p.id)
    BY <1>3, <1>4
  <2> QED
    BY <1>1, <2>1, <2>2 DEF MarkIds
<1>6. FavoritesStay
  <2>1. ASSUME NEW k \in kept PROVE \E p \in fav : p.u = k[1] /\ p.i = k[2]
    <3>1. PICK u \in Invited, i \in Marked : k = <<u, i>>
      BY <1>1, <2>1
    <3>2. Row(<<0, u, i>>, u, i) \in fav
      BY <1>2
    <3> QED
      BY <3>1, <3>2 DEF Row
  <2> QED
    BY <2>1 DEF FavoritesStay, IsFavorite, Marks
<1> QED
  BY <1>1, <1>5, <1>6 DEF MarkInv, MarkShape, Shape, Aimed

LEMMA MarkStepwise == ASSUME MarkInv, NEW r \in Requests, StartMark(r) \/ ContinueMark(r) PROVE MarkInv'
<1>1. CASE InsertMark(r)
  <2>1. IsFavorite(req[r].u, Item(r)) => UNCHANGED favorites
    BY <1>1 DEF InsertMark
  <2> QED
    BY <1>1, <2>1, MarkLooks, MarkInserts
<1> QED
  BY <1>1, MarkBegins, MarkLooks, MarkFound, MarkRemoved DEF ContinueMark

-----------------------------------------------------------------------------
(* All requests of a behaviour are for items or for favorites; the others' *)
(* state stays as it was at the start.                                     *)
NoShares == out = {} /\ DOMAIN tags = Items /\ \A i \in Items : tags[i] \subseteq listed

Both ==
    \/ about = "items" /\ TInv /\ FavoritesStay
    \/ about = "favorites" /\ MarkInv /\ NoShares

LEMMA BothInitially == FavoritesInit => Both
<1> SUFFICES ASSUME FavoritesInit PROVE Both
  OBVIOUS
<1>1. MarkInv /\ TInv
  BY MarkInitially, TInitially DEF FavoritesInit
<1>2. NoShares
  BY SharingAssumption DEF FavoritesInit, Init, NoShares
<1> QED
  BY <1>1, <1>2 DEF FavoritesInit, Both, MarkInv

LEMMA OthersStay ==
    ASSUME NEW r \in Requests, StartMark(r) \/ ContinueMark(r)
    PROVE  UNCHANGED <<own, rows, tree, tagging, out, about>>
  BY DEF StartMark, Add, AddBatch, AddShared, AddSharedBatch, Remove, RemoveShared, RemoveBatch, BeginMark,
         ContinueMark, FindMark, InsertMark, FindMarked, RemoveMark, MarkFails, favorites

LEMMA BothStepwise == ASSUME Both, [FavoritesNext]_<<vars, favorites>> PROVE Both'
<1>1. CASE UNCHANGED <<vars, favorites>>
  <2>1. TInv => TInv'
    BY <1>1, TStepwise
  <2> QED
    BY <1>1, <2>1 DEF vars, favorites, tagging, Both, Shape, FavoritesStay, IsFavorite, Marks,
                      MarkInv, MarkShape, MarkIds, Aimed, Fresh, NoShares
<1>2. CASE about = "items" /\ Next /\ UNCHANGED favorites
  <2>1. TInv'
    BY <1>2, TStepwise DEF Both
  <2> QED
    BY <1>2, <2>1 DEF Both, favorites, FavoritesStay, IsFavorite, Marks
<1>3. ASSUME about = "favorites", NEW r \in Requests, StartMark(r) \/ ContinueMark(r) PROVE Both'
  BY <1>3, MarkStepwise, OthersStay DEF Both, NoShares, tagging
<1> QED
  BY <1>1, <1>2, <1>3 DEF FavoritesNext, Next

LEMMA BothAlways == FavoritesSpec => []Both
  BY BothInitially, BothStepwise, PTL DEF FavoritesSpec

(* Whatever removals found, in whatever order they remove it, they remove  *)
(* no favorite that was added since.                                       *)
THEOREM FavoritesAreKept == FavoritesSpec => []FavoritesStay
<1>1. Both => FavoritesStay
  BY DEF Both, MarkInv
<1> QED
  BY <1>1, BothAlways, PTL

(* When updateStorageItemTags and removeStorageTags have done, in whatever *)
(* order their writes and the inserts of copyItem came, the storage lists  *)
(* the tags of its items but those a copy still held when they were taken  *)
(* off.                                                                    *)
THEOREM TagsAreListed == FavoritesSpec => []TagsListed
<1>1. Both => TagsListed
  BY TListed DEF Both, NoShares, TagsListed
<1> QED
  BY <1>1, BothAlways, PTL

(* Whoever revokeSharedPermission took from a share has no row for it, as  *)
(* long as grants and revocations of one resource do not overlap.          *)
THEOREM RevocationStands == ASSUME Apart PROVE FavoritesSpec => []RevokedStayOut
<1> DEFINE I == Both /\ (about = "items" => RInv)
<1>1. FavoritesInit => I
  BY BothInitially, RInitially DEF FavoritesInit
<1>2. I /\ [FavoritesNext]_<<vars, favorites>> => I'
  <2> SUFFICES ASSUME I, [FavoritesNext]_<<vars, favorites>> PROVE I'
    OBVIOUS
  <2>1. Both'
    BY BothStepwise
  <2>2. ASSUME about' = "items" PROVE RInv'
    <3>1. about = "items" /\ [Next]_vars
      <4>1. ASSUME NEW r \in Requests, StartMark(r) \/ ContinueMark(r) PROVE about' = about
        BY <4>1, OthersStay
      <4> QED
        BY <2>2, <4>1 DEF FavoritesNext, Next, favorites
    <3> QED
      BY <3>1, RStepwise DEF Both
  <2> QED
    BY <2>1, <2>2
<1>3. I => RevokedStayOut
  BY DEF Both, NoShares, RInv, RevokedStayOut
<1> QED
  BY <1>1, <1>2, <1>3, PTL DEF FavoritesSpec

-----------------------------------------------------------------------------
(* Walking up: what it comes to, when a parent changes.                    *)
LEMMA UpSelf == ASSUME NEW p, NEW i \in Ids PROVE i \in Up(p, i)
  BY DEF Up

LEMMA UpWithin ==
    ASSUME NEW p, NEW i, NEW S \in SUBSET Ids, i \in S, Closed(p, S)
    PROVE  Up(p, i) \subseteq S
  BY DEF Up

LEMMA UpClosed == ASSUME NEW p \in [Items -> Ids], NEW i PROVE Closed(p, Up(p, i))
<1> SUFFICES ASSUME NEW k \in Items, k \in Up(p, i),
                    NEW S \in SUBSET Ids, i \in S, Closed(p, S)
             PROVE  p[k] \in S
  BY DEF Closed, Up
<1>1. k \in S
  BY DEF Up
<1> QED
  BY <1>1 DEF Closed

LEMMA UpUp ==
    ASSUME NEW p \in [Items -> Ids], NEW i, NEW j \in Up(p, i) PROVE Up(p, j) \subseteq Up(p, i)
<1>1. Up(p, i) \in SUBSET Ids
  BY DEF Up
<1> QED
  BY <1>1, UpWithin, UpClosed

(* The item j lies in folder k.                                            *)
LEMMA UpParent ==
    ASSUME NEW p \in [Items -> Ids], NEW j \in Items PROVE Up(p, p[j]) \subseteq Up(p, j)
<1>1. j \in Up(p, j)
  BY UpSelf DEF Ids
<1>2. p[j] \in Up(p, j)
  BY <1>1, UpClosed DEF Closed
<1> QED
  BY <1>2, UpUp

(* An item that was not stored is put somewhere.                           *)
LEMMA UpGrows ==
    ASSUME NEW p \in [Items -> Ids], NEW i \in Items, p[i] = None, NEW to \in Ids,
           NEW x \in Ids, NEW v \in Up(p, x), v # None
    PROVE  v \in Up([p EXCEPT ![i] = to], x)
<1> DEFINE q == [p EXCEPT ![i] = to]
           S == Up(q, x) \cup {None}
<1>1. q \in [Items -> Ids] /\ \A k \in Items \ {i} : q[k] = p[k]
  OBVIOUS
<1> HIDE DEF q
<1>2. S \in SUBSET Ids /\ x \in S
  BY UpSelf DEF Up, Ids
<1>3. Closed(p, S)
  <2>1. SUFFICES ASSUME NEW k \in Items, k \in S PROVE p[k] \in S
    BY DEF Closed
  <2>2. CASE k = i
    BY <2>2
  <2>3. CASE k # i
    <3>1. k \in Up(q, x)
      BY <2>1, SharingAssumption
    <3>2. q[k] \in Up(q, x)
      BY <1>1, <3>1, UpClosed DEF Closed
    <3> QED
      BY <1>1, <2>3, <3>2
  <2> QED
    BY <2>2, <2>3
<1> HIDE DEF S
<1>4. v \in S
  BY <1>2, <1>3, UpWithin
<1> QED
  BY <1>4 DEF S, q

(* Of an item that lies below another, wherever that one is put.           *)
LEMMA UpBelow ==
    ASSUME NEW p \in [Items -> Ids], NEW i \in Items, NEW to \in Ids,
           NEW j \in Items, i \in Up([p EXCEPT ![i] = to], j)
    PROVE  i \in Up(p, j)
<1> DEFINE q == [p EXCEPT ![i] = to]
<1>1. \A k \in Items \ {i} : q[k] = p[k]
  OBVIOUS
<1>2. i \in Up(q, j)
  OBVIOUS
<1> HIDE DEF q
<1> SUFFICES ASSUME i \notin Up(p, j) PROVE FALSE
  OBVIOUS
<1>3. Up(p, j) \in SUBSET Ids /\ j \in Up(p, j)
  BY UpSelf DEF Up, Ids
<1>4. Closed(q, Up(p, j))
  BY <1>1, UpClosed DEF Closed
<1> QED
  BY <1>2, <1>3, <1>4, UpWithin

LEMMA UpLoose == ASSUME NEW p, NEW j \in Items, p[j] = None PROVE Up(p, j) \subseteq {j, None}
<1>1. {j, None} \in SUBSET Ids /\ Closed(p, {j, None})
  BY SharingAssumption DEF Ids, Closed
<1> QED
  BY <1>1, UpWithin

-----------------------------------------------------------------------------
(* A request by share: until it acts it is walking up from the item (from  *)
(* the folder to create in), and what it has passed lies below the resource*)
(* still, as no move or restore overlaps it and what is created is new.    *)
(* A copy walks up from the folder it is for next.                         *)
ByItem == {"create", "move", "delete", "restore", "doom", "tags", "browse", "copy", "rename"}
Key(c) == IF c.op = "create" THEN c.to ELSE Head(c.items)

Whole(c) ==
    /\ c.via \in Sharable \cup {None}
    /\ c.op \in ByItem => c.items \in Seq(Items) \ {<<>>} /\ c.to \in Ids
    /\ c.op = "create" => Len(c.items) = 1 /\ (c.via # None => c.to \in Items)
    /\ c.op = "untag" => c.via = None
    /\ c.op = "copy" => c.to \in Items \cup {Top}
    /\ c.pc = "copy" => \A e \in c.left : e.src \in Items /\ e.under \in Ids

Watched(p, c) == c.op \in ByItem /\ c.via # None =>
    \/ c.via \in Up(p, Key(c))
    \/ c.pc \in {"resource", "climb"} /\ c.at # None /\ c.at \in Up(p, Key(c))

Target(p, c) == c.op = "copy" /\ c.via # None /\ c.to \in Items =>
    \/ c.via \in Up(p, c.to)
    \/ c.pc \in {"resource", "climb"} /\ c.todo = <<Head(c.items), c.to>>
    \/ c.pc \in {"resource", "climb"} /\ c.todo = <<c.to>> /\ c.at # None /\ c.at \in Up(p, c.to)

Copied(p, c) == c.op = "copy" /\ c.pc = "copy" /\ c.via # None => \A e \in c.left :
    /\ p[e.src] # None /\ c.via \in Up(p, e.src)
    /\ c.to # Top => c.via \in Up(p, e.under)

Sure(p, c) == Watched(p, c) /\ Target(p, c) /\ Copied(p, c)

New(p, c) == c.op = "create" => p[Head(c.items)] = None

Distinct(c, d) ==
    /\ ~Overlap(c, d) /\ ~Overlap(d, c)
    /\ c.op = "create" /\ d.op = "create" => Head(c.items) # Head(d.items)

SInv ==
    /\ parent \in [Items -> Ids]
    /\ \A r \in Requests : Active(r) => Whole(req[r]) /\ Sure(parent, req[r]) /\ New(parent, req[r])
    /\ \A q, r \in Requests : q # r /\ Active(q) /\ Active(r) => Distinct(req[q], req[r])

Onward(r) == Active(r)' =>
    /\ req'[r].op = req[r].op /\ req'[r].via = req[r].via /\ req'[r].u = req[r].u
    /\ Whole(req'[r]) /\ Sure(parent', req'[r])
    /\ req[r].op = "create" => req'[r].items = req[r].items /\ parent'[Head(req[r].items)] = None

LEMMA SOnly ==
    ASSUME SInv, NEW r \in Requests, Active(r), \A q \in Requests \ {r} : req'[q] = req[q],
           parent' \in [Items -> Ids], Onward(r),
           \A q \in Requests \ {r} : Active(q) => Sure(parent', req[q]) /\ New(parent', req[q])
    PROVE  SInv'
<1>1. ASSUME NEW q \in Requests, Active(q)'
      PROVE  Whole(req'[q]) /\ Sure(parent', req'[q]) /\ New(parent', req'[q])
  BY <1>1 DEF SInv, Onward, Active, New
<1>2. ASSUME NEW q \in Requests, q # r, Active(q)', Active(r)'
      PROVE  Distinct(req'[q], req'[r]) /\ Distinct(req'[r], req'[q])
  <2>1. req'[q] = req[q] /\ Active(q) /\ Distinct(req[q], req[r])
    BY <1>2 DEF SInv, Active
  <2> QED
    BY <1>2, <2>1 DEF Distinct, Overlap, Onward
<1>3. ASSUME NEW q \in Requests, NEW s \in Requests, q # s, Active(q)', Active(s)'
      PROVE  Distinct(req'[q], req'[s])
  <2>1. CASE q # r /\ s # r
    BY <1>3, <2>1 DEF SInv, Active
  <2> QED
    BY <1>2, <1>3, <2>1
<1> QED
  BY <1>1, <1>3 DEF SInv

LEMMA TakeAt ==
    ASSUME NEW c, NEW s \in Seq(Items) \ {<<>>}, Fields(c), c.op # "create" \/ Len(s) = 1
    PROVE  /\ Take(c, s).at = Key(Take(c, s))
           /\ c.op # "create" /\ c.to \in Items => Take(c, s).todo = <<Head(s), c.to>>
           /\ Take(c, s).pc = IF c.via = None THEN "act" ELSE IF c.op = "browse" THEN "climb" ELSE "resource"
<1> DEFINE named == IF c.op = "create" THEN <<c.to, c.to>>
                    ELSE IF c.to \in Items THEN <<Head(s), c.to>> ELSE <<Head(s)>>
           first == Head(named)
           pc == IF c.via = None THEN "act" ELSE IF c.op = "browse" THEN "climb" ELSE "resource"
<1>1. Take(c, s) = [c EXCEPT !.items = s, !.todo = named, !.at = first, !.left = {}, !.pc = pc]
  BY DEF Take
<1>2. first = IF c.op = "create" THEN c.to ELSE Head(s)
  <2>1. CASE c.op = "create"
    BY <2>1
  <2>2. CASE c.op # "create" /\ c.to \in Items
    BY <2>2
  <2>3. CASE c.op # "create" /\ c.to \notin Items
    BY <2>3
  <2> QED
    BY <2>1, <2>2, <2>3
<1>3. c.op # "create" /\ c.to \in Items => named = <<Head(s), c.to>>
  OBVIOUS
<1> HIDE DEF named, first
<1>4. Take(c, s).at = first /\ Take(c, s).todo = named /\ Take(c, s).op = c.op /\ Take(c, s).to = c.to /\ Take(c, s).items = s
      /\ Take(c, s).pc = pc
  <2> HIDE DEF pc
  <2> QED
    BY <1>1 DEF Fields
<1> QED
  BY <1>2, <1>3, <1>4 DEF Key

LEMMA Longer ==
    ASSUME NEW w \in Seq(Items), Len(w) > 1
    PROVE  Tail(w) \in Seq(Items) \ {<<>>} /\ Len(w) # 1
<1>0. <<>> \in Seq(Items) /\ Len(<<>>) = 0
  BY EmptySeq
<1>1. w # <<>> /\ Len(w) \in Nat
  <2>1. Len(w) \in Nat
    BY LenProperties
  <2> QED
    BY <1>0, <2>1
<1>2. Tail(w) \in Seq(Items) /\ Len(Tail(w)) = Len(w) - 1
  BY <1>1, HeadTailProperties
<1> DEFINE m == Len(Tail(w))
           n == Len(w)
<1>3. m = n - 1 /\ n \in Nat /\ n > 1
  BY <1>1, <1>2
<1> HIDE DEF m, n
<1>4. m # 0 /\ n # 1
  BY <1>3
<1>5. Tail(w) # <<>>
  BY <1>0, <1>4 DEF m
<1> QED
  BY <1>2, <1>4, <1>5 DEF n

(* A step that goes on with the same item where it has walked up, or ends  *)
(* the work on it.                                                         *)
LEMMA SGoto ==
    ASSUME SInv, Shape, NEW r \in Requests, Active(r), Fields(req[r]), NEW pc, Goto(r, pc), pc # "copy",
           parent' \in [Items -> Ids],
           \/ pc = "ended"
           \/ parent' = parent /\ (pc = "climb" \/ req[r].pc \notin {"resource", "climb"} \/ req[r].op \notin ByItem)
    PROVE  Onward(r) /\ \A q \in Requests \ {r} : req'[q] = req[q]
<1>1. /\ \A q \in Requests \ {r} : req'[q] = req[q]
      /\ req'[r] = IF pc # "ended" THEN [req[r] EXCEPT !.pc = pc]
                   ELSE IF Len(req[r].items) > 1 THEN Take(req[r], Tail(req[r].items))
                   ELSE [op |-> "none", pc |-> pc]
  BY DEF Goto, Shape
<1>2. /\ Whole(req[r]) /\ Sure(parent, req[r]) /\ New(parent, req[r])
  BY DEF SInv
<1>3. CASE pc # "ended"
  <2> DEFINE c == req[r]
             d == req'[r]
  <2>1. d = [c EXCEPT !.pc = pc] /\ Fields(c)
    BY <1>1, <1>3
  <2> HIDE DEF c, d
  <2>2. d.op = c.op /\ d.via = c.via /\ d.u = c.u /\ d.items = c.items /\ d.to = c.to /\ d.at = c.at /\ d.pc = pc
        /\ d.todo = c.todo
    BY <2>1 DEF Fields
  <2>3. Whole(d) /\ Key(d) = Key(c)
    BY <1>2, <2>2 DEF Whole, Key, c
  <2>5. Watched(parent', d)
    BY <1>2, <1>3, <2>2, <2>3 DEF Sure, Watched, c
  <2>6. Target(parent', d)
    BY <1>2, <1>3, <2>2 DEF Sure, Target, ByItem, c
  <2>4. Sure(parent', d)
    BY <2>2, <2>5, <2>6 DEF Sure, Copied
  <2> QED
    BY <1>1, <1>2, <1>3, <2>2, <2>3, <2>4 DEF Onward, New, c, d
<1>4. CASE pc = "ended" /\ Len(req[r].items) > 1
  <2> DEFINE c == req[r]
             s == Tail(c.items)
             d == Take(c, s)
  <2>1. req'[r] = d
    BY <1>1, <1>4
  <2>0. /\ c.via \in Sharable \cup {None}
        /\ c.op \in ByItem => c.items \in Seq(Items) \ {<<>>} /\ c.to \in Ids
        /\ c.op = "create" => Len(c.items) = 1
        /\ c.op = "untag" => c.via = None
        /\ c.op = "copy" => c.to \in Items \cup {Top}
    BY <1>2 DEF Whole
  <2>2. ASSUME c.op \in ByItem PROVE s \in Seq(Items) \ {<<>>} /\ c.op # "create"
    <3>2. PICK w : w = c.items
      OBVIOUS
    <3>3. w \in Seq(Items) /\ Len(w) > 1
      BY <1>4, <2>0, <2>2, <3>2
    <3>4. Tail(w) \in Seq(Items) \ {<<>>} /\ Len(w) # 1
      BY <3>3, Longer
    <3>1. c.op # "create"
      BY <2>0, <3>2, <3>4
    <3> QED
      BY <3>1, <3>2, <3>4
  <2> HIDE DEF s
  <2>3. /\ d.op = c.op /\ d.via = c.via /\ d.u = c.u /\ d.to = c.to /\ d.items = s
    BY TakeIs
  <2>4. ASSUME c.op \in ByItem
        PROVE  /\ d.at = Key(d)
               /\ d.op # "create" /\ d.to \in Items => d.todo = <<Head(d.items), d.to>>
               /\ d.pc = IF c.via = None THEN "act" ELSE IF c.op = "browse" THEN "climb" ELSE "resource"
    BY <2>2, <2>3, <2>4, TakeAt
  <2> HIDE DEF d
  <2>5. Whole(d)
    <3>1. d.pc # "copy"
      BY TakeIs DEF d
    <3> QED
      BY <2>0, <2>2, <2>3, <3>1 DEF Whole, ByItem
  <2>6. ASSUME d.op \in ByItem, d.via # None 
        PROVE  /\ d.pc \in {"resource", "climb"} /\ d.at # None /\ d.at \in Up(parent', Key(d))
               /\ d.op = "copy" /\ d.to \in Items => d.todo = <<Head(d.items), d.to>>
    <3>1. /\ d.at = Key(d) /\ d.pc \in {"resource", "climb"}
          /\ d.op = "copy" /\ d.to \in Items => d.todo = <<Head(d.items), d.to>>
      BY <2>3, <2>4, <2>6
    <3>2. Key(d) \in Items
      BY <2>2, <2>3, <2>6 DEF Key
    <3> QED
      BY <3>1, <3>2, UpSelf, SharingAssumption DEF Ids
  <2>9. d.op \in ByItem => d.pc \in {"act", "climb", "resource"}
    BY <2>3, <2>4
  <2>7. Sure(parent', d)
    BY <2>6, <2>9 DEF Sure, Watched, Target, Copied, ByItem
  <2>8. req[r].op # "create"
    BY <2>2 DEF ByItem
  <2> QED
    BY <1>1, <2>1, <2>3, <2>5, <2>7, <2>8 DEF Onward
<1>5. CASE pc = "ended" /\ ~(Len(req[r].items) > 1)
  BY <1>1, <1>5 DEF Onward, Active
<1> QED
  BY <1>3, <1>4, <1>5

(* The steps that leave the tree of folders alone.                         *)
LEMMA SStays ==
    ASSUME SInv, NEW r \in Requests, Active(r), UNCHANGED parent, Onward(r),
           \A q \in Requests \ {r} : req'[q] = req[q]
    PROVE  SInv'
  BY SOnly DEF SInv

LEMMA SGoes ==
    ASSUME TInv, SInv, NEW r \in Requests,
           \/ InStorage(r) \/ Verify(r) \/ Browse(r) \/ Delete(r) \/ Doom(r) \/ TagItem(r)
           \/ ListTags(r) \/ Unlist(r) \/ UntagItems(r) \/ SaveRow(r) \/ RemoveRow(r) \/ OwnStorage(r)
           \/ Rename(r) \/ CopyFails(r)
    PROVE  SInv'
<1>1. /\ Active(r) /\ UNCHANGED parent
      /\ req[r].pc = "resource" \/ req[r].pc \notin {"resource", "climb"}
  BY DEF InStorage, Verify, Browse, Delete, Doom, TagItem, ListTags, Unlist, UntagItems,
         SaveRow, RemoveRow, OwnStorage, Rename, CopyFails, At, Active, tree
<1>2. Fields(req[r]) /\ Shape
  BY <1>1 DEF TInv
<1>3. PICK pc : Goto(r, pc) /\ pc # "copy" /\ (pc = "ended" \/ pc = "climb" \/ req[r].pc \notin {"resource", "climb"}
                                 \/ req[r].op \notin ByItem)
  <2>1. CASE InStorage(r)
    BY <2>1 DEF InStorage, At, Op, ByItem
  <2>2. CASE Verify(r)
    BY <2>2 DEF Verify, At
  <2>3. CASE TagItem(r)
    BY <2>3 DEF TagItem, At
  <2>4. CASE Unlist(r)
    BY <2>4 DEF Unlist, At
  <2> QED
    BY <2>1, <2>2, <2>3, <2>4 DEF Browse, Delete, Doom, ListTags, UntagItems, SaveRow, RemoveRow, OwnStorage,
                                    Rename, CopyFails
<1>4. parent' \in [Items -> Ids]
  BY <1>1 DEF SInv
<1> QED
  BY <1>1, <1>2, <1>3, <1>4, SGoto, SStays

LEMMA SFind == ASSUME TInv, SInv, NEW r \in Requests, FindRow(r) PROVE SInv'
<1>1. /\ Active(r) /\ req[r].pc = "find" /\ UNCHANGED parent
      /\ Fields(req[r]) /\ Kinds(req[r]) /\ req[r].op \in Shares /\ Shape
  BY DEF FindRow, At, Active, TInv, Kinds, tree
<1>2. parent' \in [Items -> Ids] /\ Whole(req[r])
  BY <1>1 DEF SInv
<1>3. ASSUME NEW pc, Goto(r, pc), pc # "copy" PROVE SInv'
  BY <1>1, <1>2, <1>3, SGoto, SStays
<1>4. ASSUME NEW p \in RowsOf(req[r]),
             req' = [req EXCEPT ![r] = [@ EXCEPT !.row = p.id,
                                          !.pc = IF req[r].op = "grant" THEN "save" ELSE "remove"]]
      PROVE  SInv'
  <2> DEFINE pc == IF req[r].op = "grant" THEN "save" ELSE "remove"
             id == p.id
             k  == req[r]
             c  == [k EXCEPT !.row = id, !.pc = pc]
  <2>1. \A q \in Requests \ {r} : req'[q] = req[q]
    BY <1>4
  <2>2. req'[r] = c
    BY <1>1, <1>4 DEF Shape
  <2>3. c = [k EXCEPT !.row = id, !.pc = pc] /\ Fields(k) /\ k = req[r]
    BY <1>1
  <2> HIDE DEF pc, id, c, k
  <2>4. c.op = k.op /\ c.via = k.via /\ c.u = k.u /\ c.pc = pc /\ pc # "copy"
    BY <2>3 DEF Fields, pc
  <2>5. k.op \notin ByItem /\ k.op # "untag"
    BY <1>1, <2>3 DEF Shares, ByItem
  <2>6. Onward(r)
    BY <1>2, <2>2, <2>3, <2>4, <2>5 DEF Onward, Whole, Sure, Watched, Target, Copied, ByItem
  <2> QED
    BY <1>1, <2>1, <2>6, SStays
<1> QED
  BY <1>3, <1>4 DEF FindRow, Op

LEMMA SClimb == ASSUME TInv, SInv, NEW r \in Requests, Climb(r) PROVE SInv'
<1>1. /\ Active(r) /\ req[r].pc = "climb" /\ UNCHANGED parent /\ Fields(req[r]) /\ Shape
  BY DEF Climb, At, Active, tree, TInv
<1>2. /\ parent \in [Items -> Ids] /\ parent' = parent
      /\ Whole(req[r]) /\ Sure(parent, req[r]) /\ New(parent, req[r])
  BY <1>1 DEF SInv
<1> DEFINE c == req[r]
           above == IF c.at \in Items THEN parent[c.at] ELSE None
<1>3. ASSUME c.op \in ByItem, c.via # None, c.via \notin Up(parent, Key(c))
      PROVE  c.at \in Up(parent, Key(c)) /\ (c.at \in Items => above \in Up(parent, Key(c)))
  BY <1>2, <1>3, UpClosed DEF Sure, Watched, Closed
<1>8. ASSUME c.op = "copy", c.via # None, c.to \in Items, c.via \notin Up(parent, c.to)
      PROVE  \/ c.todo = <<Head(c.items), c.to>>
             \/ /\ c.todo = <<c.to>> /\ c.at # None /\ c.at \in Up(parent, c.to)
                /\ c.at \in Items => above \in Up(parent, c.to)
  BY <1>2, <1>8, UpClosed DEF Sure, Target, Closed
<1>4. CASE Goto(r, "ended")
  BY <1>1, <1>2, <1>4, SGoto, SStays
<1>5. ASSUME NEW d, req' = [req EXCEPT ![r] = d],
             d.op = c.op, d.via = c.via, d.u = c.u, d.items = c.items, d.to = c.to,
             d.pc # "copy", Sure(parent, d)
      PROVE  SInv'
  <2>1. /\ \A q \in Requests \ {r} : req'[q] = req[q]
        /\ req'[r] = d
    BY <1>1, <1>5 DEF Shape
  <2>2. Whole(d)
    BY <1>2, <1>5 DEF Whole
  <2>3. Onward(r)
    BY <1>2, <1>5, <2>1, <2>2 DEF Onward, New
  <2> QED
    BY <1>1, <2>1, <2>3, SStays
<1>6. CASE c.via \in {c.at, above} /\ req' = [req EXCEPT ![r] = Passed(c)]
  <2> DEFINE d == Passed(c)
  <2>1. /\ d.op = c.op /\ d.via = c.via /\ d.u = c.u /\ d.items = c.items /\ d.to = c.to
        /\ d.pc \in {"climb", "verify", "act"}
        /\ Tail(c.todo) # <<>> => d.pc = "climb" /\ d.todo = Tail(c.todo) /\ d.at = Head(Tail(c.todo))
    <3> DEFINE rest == Tail(c.todo)
               pc == IF c.op = "tags" THEN "verify" ELSE "act"
               first == Head(rest)
               k == c
    <3>1. \/ rest = <<>> /\ d = [k EXCEPT !.todo = rest, !.at = None, !.pc = pc]
          \/ d = [k EXCEPT !.todo = rest, !.at = first]
      BY DEF Passed
    <3>2. Fields(k) /\ k = c /\ k.pc = "climb" /\ pc \in {"verify", "act"}
      BY <1>1
    <3> HIDE DEF rest, pc, first, k, d
    <3>3. /\ d.op = k.op /\ d.via = k.via /\ d.u = k.u /\ d.items = k.items /\ d.to = k.to
          /\ \/ d.pc = pc /\ rest = <<>>
             \/ d.pc = k.pc /\ d.todo = rest /\ d.at = first
      BY <3>1, <3>2 DEF Fields
    <3> QED
      BY <3>2, <3>3 DEF rest, first
  <2> HIDE DEF d
  <2>2. ASSUME d.op \in ByItem, d.via # None PROVE d.via \in Up(parent, Key(d))
    <3>1. Key(d) = Key(c)
      BY <2>1 DEF Key
    <3> QED
      BY <1>3, <1>6, <2>1, <2>2, <3>1
  <2>4. ASSUME d.op = "copy", d.via # None, d.to \in Items
        PROVE  \/ d.via \in Up(parent, d.to)
               \/ d.pc = "climb" /\ d.todo = <<d.to>> /\ d.at # None /\ d.at \in Up(parent, d.to)
    <3>1. CASE c.via \in Up(parent, c.to)
      BY <2>1, <3>1
    <3>2. CASE c.via \notin Up(parent, c.to) /\ c.todo = <<Head(c.items), c.to>>
      <4> DEFINE h == Head(c.items)
                 t == c.to
      <4>1. c.todo = <<h, t>>
        BY <3>2
      <4> HIDE DEF h, t
      <4>2. Tail(<<h, t>>) = <<t>> /\ Head(<<t>>) = t /\ <<t>> # <<>>
        OBVIOUS
      <4>3. d.pc = "climb" /\ d.todo = <<t>> /\ d.at = t
        BY <2>1, <4>1, <4>2
      <4> QED
        BY <2>1, <2>4, <4>3, UpSelf, SharingAssumption DEF Ids, t
    <3>3. CASE c.via \notin Up(parent, c.to) /\ c.todo # <<Head(c.items), c.to>>
      <4>1. /\ c.at # None /\ c.at \in Up(parent, c.to)
            /\ c.at \in Items => above \in Up(parent, c.to)
        BY <1>8, <2>1, <2>4, <3>3
      <4> QED
        BY <1>6, <2>1, <2>4, <3>3, <4>1
    <3> QED
      BY <3>1, <3>2, <3>3
  <2>3. Sure(parent, d)
    BY <2>1, <2>2, <2>4 DEF Sure, Watched, Target, Copied
  <2> QED
    BY <1>5, <1>6, <2>1, <2>3 DEF d
<1>7. CASE above \notin {Top, None} /\ req' = [req EXCEPT ![r].at = above]
  <2> DEFINE k == c
             a == above
             d == [k EXCEPT !.at = a]
  <2>1. req' = [req EXCEPT ![r] = d] /\ Fields(k) /\ k = c /\ a = above
    BY <1>1, <1>7
  <2> HIDE DEF k, a
  <2>2. d.op = k.op /\ d.via = k.via /\ d.u = k.u /\ d.items = k.items /\ d.to = k.to /\ d.pc = k.pc /\ d.at = a
        /\ d.todo = k.todo
    BY <2>1 DEF Fields
  <2> HIDE DEF d
  <2>3. Key(d) = Key(k)
    BY <2>2 DEF Key
  <2>5. Watched(parent, d)
    BY <1>1, <1>3, <1>7, <2>1, <2>2, <2>3 DEF Watched
  <2>6. Target(parent, d)
    BY <1>1, <1>7, <1>8, <2>1, <2>2 DEF Target
  <2>4. Sure(parent, d)
    BY <1>1, <2>1, <2>2, <2>5, <2>6 DEF Sure, Copied
  <2> QED
    BY <1>1, <1>5, <2>1, <2>2, <2>4
<1> QED
  BY <1>4, <1>6, <1>7 DEF Climb

LEMMA SPuts == ASSUME TInv, SInv, NEW r \in Requests, Move(r) \/ Restore(r) PROVE SInv'
<1>1. Active(r) /\ Goto(r, "ended") /\ req[r].op \in {"move", "restore"}
  BY DEF Move, Restore, At, Active, Op
<1>2. Fields(req[r]) /\ Shape /\ Whole(req[r]) /\ parent \in [Items -> Ids] /\ req[r].to \in Ids
  BY <1>1 DEF TInv, SInv, Whole, ByItem
<1>3. \/ parent' = parent
      \/ /\ Item(r) \in Items /\ parent[Item(r)] # None
         /\ \E to \in Ids : parent' = [parent EXCEPT ![Item(r)] = to]
  <2>1. CASE Move(r)
    BY <1>2, <2>1 DEF Move, Live, Stored
  <2>2. CASE Restore(r)
    <3>1. Stored(Item(r)) => parent[Item(r)] \in Ids
      BY <1>2 DEF Stored
    <3> QED
      BY <1>2, <2>2, <3>1 DEF Restore, Stored, tree
  <2> QED
    BY <2>1, <2>2
<1>4. parent' \in [Items -> Ids]
  BY <1>2, <1>3
<1>5. Onward(r) /\ \A q \in Requests \ {r} : req'[q] = req[q]
  BY <1>1, <1>2, <1>4, SGoto
<1>6. ASSUME NEW q \in Requests \ {r}, Active(q) PROVE Sure(parent', req[q]) /\ New(parent', req[q])
  <2>1. Distinct(req[r], req[q]) /\ New(parent, req[q]) /\ Whole(req[q])
    BY <1>1, <1>6 DEF SInv
  <2>5. req[q].op \in ByItem => req[q].via = None
    BY <1>1, <2>1 DEF Distinct, Overlap, ByItem
  <2>2. Sure(parent', req[q])
    BY <2>5 DEF Sure, Watched, Target, Copied, ByItem
  <2>3. req[q].op = "create" => Head(req[q].items) \in Items
    BY <2>1, HeadTailProperties DEF Whole, ByItem
  <2>4. New(parent', req[q])
    BY <1>2, <1>3, <2>1, <2>3 DEF New
  <2> QED
    BY <2>2, <2>4
<1> QED
  BY <1>1, <1>4, <1>5, <1>6, SOnly

(* What a request knows stays so when an item that was not stored is put   *)
(* somewhere.                                                              *)
LEMMA SureStays ==
    ASSUME parent \in [Items -> Ids], NEW n \in Items, parent[n] = None, NEW to \in Ids,
           NEW c, Whole(c), Sure(parent, c)
    PROVE  Sure([parent EXCEPT ![n] = to], c)
<1> DEFINE q == [parent EXCEPT ![n] = to]
<1>1. ASSUME NEW x \in Ids, NEW v, v # None, v \in Up(parent, x) PROVE v \in Up(q, x)
  BY <1>1, UpGrows
<1>2. \A k \in Items : parent[k] # None => q[k] = parent[k]
  OBVIOUS
<1> HIDE DEF q
<1>3. c.op \in ByItem => Key(c) \in Ids
  BY HeadTailProperties DEF Whole, Key, ByItem, Ids
<1>4. Watched(q, c)
  BY <1>1, <1>3 DEF Sure, Watched
<1>5. Target(q, c)
  <2>1. c.to \in Items => c.to \in Ids
    BY DEF Ids
  <2> QED
    BY <1>1, <2>1 DEF Sure, Target
<1>6. Copied(q, c)
  <2>1. SUFFICES ASSUME c.op = "copy", c.pc = "copy", c.via # None, NEW e \in c.left
                 PROVE  /\ q[e.src] # None /\ c.via \in Up(q, e.src)
                        /\ c.to # Top => c.via \in Up(q, e.under)
    BY DEF Copied
  <2>2. /\ parent[e.src] # None /\ c.via \in Up(parent, e.src)
        /\ c.to # Top => c.via \in Up(parent, e.under)
    BY <2>1 DEF Sure, Copied
  <2>3. e.src \in Items /\ e.src \in Ids /\ e.under \in Ids
    BY <2>1 DEF Whole, Ids
  <2> QED
    BY <1>1, <1>2, <2>1, <2>2, <2>3
<1> QED
  BY <1>4, <1>5, <1>6 DEF Sure, q

LEMMA SCreates == ASSUME TInv, SInv, NEW r \in Requests, CreateItem(r) PROVE SInv'
<1>1. Active(r) /\ Goto(r, "ended") /\ req[r].op = "create"
  BY DEF CreateItem, At, Active, Op
<1>2. /\ Fields(req[r]) /\ Shape /\ Whole(req[r]) /\ parent \in [Items -> Ids] /\ req[r].to \in Ids
      /\ parent[Item(r)] = None
  BY <1>1 DEF TInv, SInv, Whole, ByItem, New, Item
<1>3. Item(r) \in Items
  BY <1>1, <1>2, HeadTailProperties DEF Whole, ByItem, Item
<1>4. CASE parent' = parent
  <2>1. parent' \in [Items -> Ids]
    BY <1>2, <1>4
  <2> QED
    BY <1>1, <1>2, <1>4, <2>1, SGoto, SStays
<1>5. CASE parent' = [parent EXCEPT ![Item(r)] = req[r].to]
  <2>1. parent' \in [Items -> Ids]
    BY <1>2, <1>5
  <2>2. Onward(r) /\ \A q \in Requests \ {r} : req'[q] = req[q]
    BY <1>1, <1>2, <2>1, SGoto
  <2>3. ASSUME NEW q \in Requests \ {r}, Active(q) PROVE Sure(parent', req[q]) /\ New(parent', req[q])
    <3>1. Distinct(req[r], req[q]) /\ New(parent, req[q]) /\ Whole(req[q]) /\ Sure(parent, req[q])
      BY <1>1, <2>3 DEF SInv
    <3>2. Sure(parent', req[q])
      BY <1>2, <1>3, <1>5, <3>1, SureStays
    <3>3. New(parent', req[q])
      BY <1>1, <1>2, <1>5, <3>1 DEF New, Distinct, Item
    <3> QED
      BY <3>2, <3>3
  <2> QED
    BY <1>1, <2>1, <2>2, <2>3, SOnly
<1> QED
  BY <1>4, <1>5 DEF CreateItem

(* What is left of a copy lies below the resource, and so does what is put *)
(* below its copies, unless they are put at the top.                       *)
LEMMA SCopyOn ==
    ASSUME TInv, SInv, NEW r \in Requests, Active(r), req[r].op = "copy", req[r].pc \in {"act", "copy"},
           NEW L, CopyOn(r, L),
           \/ parent' = parent
           \/ \E n \in Items, to \in Ids : Unused(n) /\ parent' = [parent EXCEPT ![n] = to],
           \A e \in L : e.src \in Items /\ e.under \in Ids,
           req[r].via # None => \A e \in L :
               /\ parent'[e.src] # None /\ req[r].via \in Up(parent', e.src)
               /\ req[r].to # Top => req[r].via \in Up(parent', e.under)
    PROVE  SInv'
<1>1. /\ parent \in [Items -> Ids] /\ Fields(req[r]) /\ Shape
      /\ Whole(req[r]) /\ Sure(parent, req[r]) /\ New(parent, req[r])
  BY DEF SInv, TInv
<1>2. /\ parent' \in [Items -> Ids]
      /\ \A c : Whole(c) /\ Sure(parent, c) => Sure(parent', c)
  <2>1. CASE parent' = parent
    BY <1>1, <2>1
  <2>2. ASSUME NEW n \in Items, NEW to \in Ids, Unused(n), parent' = [parent EXCEPT ![n] = to]
        PROVE  parent' \in [Items -> Ids] /\ \A c : Whole(c) /\ Sure(parent, c) => Sure(parent', c)
    <3>1. parent[n] = None
      BY <2>2 DEF Unused, Stored
    <3> QED
      BY <1>1, <2>2, <3>1, SureStays
  <2> QED
    BY <2>1, <2>2
<1>3. ASSUME NEW q \in Requests \ {r}, Active(q) PROVE Sure(parent', req[q]) /\ New(parent', req[q])
  <2>1. Whole(req[q]) /\ Sure(parent, req[q]) /\ New(parent, req[q])
    BY <1>3 DEF SInv
  <2>2. ASSUME req[q].op = "create" PROVE parent'[Head(req[q].items)] = None
    <3>1. PICK s : s = req[q].items
      OBVIOUS
    <3>2. s \in Seq(Items) /\ s # <<>> /\ Len(s) = 1
      BY <2>1, <2>2, <3>1 DEF Whole, ByItem
    <3>3. Head(s) = s[1] /\ 1 \in 1..Len(s) /\ Head(s) \in Items
      BY <3>2
    <3>4. \A n : Unused(n) => Head(s) # n
      BY <1>3, <3>1, <3>3 DEF Unused
    <3> QED
      BY <1>1, <2>1, <2>2, <3>1, <3>3, <3>4 DEF New
  <2> QED
    BY <1>2, <2>1, <2>2 DEF New
<1>4. CASE L = {}
  <2>1. Goto(r, "ended")
    BY <1>4, CopyStep
  <2>2. Onward(r) /\ \A q \in Requests \ {r} : req'[q] = req[q]
    BY <1>1, <1>2, <2>1, SGoto
  <2> QED
    BY <1>2, <1>3, <2>2, SOnly
<1>5. CASE L # {}
  <2>1. /\ \A q \in Requests \ {r} : req'[q] = req[q]
        /\ Active(r)' => Same(r)
        /\ req'[r].pc = "copy" /\ req'[r].left = L /\ req'[r].items = req[r].items
    BY <1>5, CopyStep
  <2> DEFINE k == req[r]
             d == req'[r]
  <2>2. /\ d.op = k.op /\ d.via = k.via /\ d.u = k.u /\ d.items = k.items /\ d.to = k.to
        /\ d.pc = "copy" /\ d.left = L
    BY <2>1 DEF Same, Active
  <2>3. Whole(k) /\ Sure(parent', k) /\ k.op = "copy" /\ k.pc \in {"act", "copy"}
    BY <1>1, <1>2
  <2>4. /\ \A e \in L : e.src \in Items /\ e.under \in Ids
        /\ k.via # None => \A e \in L :
               /\ parent'[e.src] # None /\ k.via \in Up(parent', e.src)
               /\ k.to # Top => k.via \in Up(parent', e.under)
    OBVIOUS
  <2> HIDE DEF k, d
  <2>5. Whole(d)
    BY <2>2, <2>3, <2>4 DEF Whole
  <2>6. Key(d) = Key(k)
    BY <2>2 DEF Key
  <2>7. Watched(parent', d) /\ Target(parent', d)
    BY <2>2, <2>3, <2>6 DEF Sure, Watched, Target
  <2>8. Copied(parent', d)
    BY <2>2, <2>4 DEF Copied
  <2>9. Onward(r)
    BY <2>2, <2>3, <2>5, <2>7, <2>8 DEF Onward, Sure, k, d
  <2> QED
    BY <1>2, <1>3, <2>1, <2>9, SOnly
<1> QED
  BY <1>4, <1>5

LEMMA SCopies ==
    ASSUME TInv, SInv, NEW r \in Requests, Copy(r) \/ CopyInsert(r) \/ CopyChildren(r)
    PROVE  SInv'
<1>1. Active(r) /\ req[r].pc \in {"act", "copy"}
  BY DEF Copy, CopyInsert, CopyChildren, At, Active
<1>2. /\ parent \in [Items -> Ids] /\ Kinds(req[r])
      /\ Whole(req[r]) /\ Sure(parent, req[r])
  BY <1>1 DEF SInv, TInv
<1>3. req[r].op = "copy"
  BY <1>2 DEF Copy, CopyInsert, CopyChildren, At, Op, Kinds
<1> DEFINE k == req[r]
<1>4. k.to \in Items \cup {Top} /\ k.to \in Ids /\ Item(r) = Head(k.items)
  BY <1>2, <1>3 DEF Whole, Ids, Item
<1>5. CASE Copy(r)
  <2> DEFINE L == IF Live(Item(r)) /\ OpenDir(k.to) THEN {ToInsert(Item(r), k.to, 0)} ELSE {}
  <2>1. CopyOn(r, L) /\ parent' = parent /\ k.pc = "act"
    BY <1>5 DEF Copy, tree, At
  <2>2. ASSUME NEW e \in L PROVE e.src = Item(r) /\ e.under = k.to /\ Stored(Item(r))
    BY DEF ToInsert, Live
  <2> HIDE DEF L
  <2>3. k.via # None => /\ k.via \in Up(parent, Item(r))
                        /\ k.to # Top => k.via \in Up(parent, k.to)
    BY <1>2, <1>3, <1>4, <2>1 DEF Sure, Watched, Target, ByItem, Key
  <2> HIDE DEF k
  <2>4. \A e \in L : e.src \in Items /\ e.under \in Ids
    BY <1>4, <2>2 DEF Stored
  <2>5. k.via # None => \A e \in L :
               /\ parent'[e.src] # None /\ k.via \in Up(parent', e.src)
               /\ k.to # Top => k.via \in Up(parent', e.under)
    BY <2>1, <2>2, <2>3 DEF Stored
  <2> QED
    BY <1>1, <1>3, <2>1, <2>4, <2>5, SCopyOn DEF k
<1>6. CASE CopyInsert(r)
  <2>1. PICK e \in Deepest(k.left), n \in Items :
          /\ Unused(n)
          /\ parent' = [parent EXCEPT ![n] = e.under]
          /\ CopyOn(r, (k.left \ {e}) \cup IF n \in Dirs THEN {ToList(e, n)} ELSE {})
    BY <1>6 DEF CopyInsert
  <2>2. k.pc = "copy" /\ e \in k.left /\ e.src \in Items /\ e.under \in Ids
    BY <1>2, <1>6 DEF CopyInsert, At, Deepest, Whole
  <2>3. parent[n] = None
    BY <2>1 DEF Unused, Stored
  <2>4. Sure(parent', k) /\ parent' \in [Items -> Ids] /\ parent'[n] = e.under
    BY <1>2, <2>1, <2>2, <2>3, SureStays
  <2>5. \A f \in k.left : f.src \in Items /\ f.under \in Ids
    BY <1>2, <2>2 DEF Whole
  <2>6. k.via # None => \A f \in k.left :
               /\ parent'[f.src] # None /\ k.via \in Up(parent', f.src)
               /\ k.to # Top => k.via \in Up(parent', f.under)
    BY <1>3, <2>2, <2>4 DEF Sure, Copied
  <2>7. k.via # None /\ k.to # Top => k.via \in Up(parent', n)
    BY <2>2, <2>4, <2>6, UpParent
  <2> DEFINE g == ToList(e, n)
             L == (k.left \ {e}) \cup IF n \in Dirs THEN {g} ELSE {}
  <2>8. g.src = e.src /\ g.under = n /\ n \in Ids
    BY DEF ToList, Ids
  <2>9. CopyOn(r, L)
    BY <2>1
  <2> HIDE DEF g
  <2>10. \A f \in L : f.src \in Items /\ f.under \in Ids
    BY <2>2, <2>5, <2>8
  <2>11. k.via # None => \A f \in L :
               /\ parent'[f.src] # None /\ k.via \in Up(parent', f.src)
               /\ k.to # Top => k.via \in Up(parent', f.under)
    BY <2>2, <2>6, <2>7, <2>8
  <2> HIDE DEF L
  <2> QED
    BY <1>1, <1>3, <2>1, <2>2, <2>9, <2>10, <2>11, SCopyOn
<1>7. CASE CopyChildren(r)
  <2>1. PICK e \in Deepest(k.left) :
          CopyOn(r, (k.left \ {e}) \cup {ToInsert(i, e.under, e.deep) : i \in Children(e.src)})
    BY <1>7 DEF CopyChildren
  <2>2. k.pc = "copy" /\ e \in k.left /\ parent' = parent
    BY <1>7 DEF CopyChildren, At, Deepest, tree
  <2>3. \A f \in k.left : f.src \in Items /\ f.under \in Ids
    BY <1>2, <2>2 DEF Whole
  <2>4. k.via # None => \A f \in k.left :
               /\ parent[f.src] # None /\ k.via \in Up(parent, f.src)
               /\ k.to # Top => k.via \in Up(parent, f.under)
    BY <1>2, <1>3, <2>2 DEF Sure, Copied
  <2> DEFINE L == (k.left \ {e}) \cup {ToInsert(i, e.under, e.deep) : i \in Children(e.src)}
  <2>5. CopyOn(r, L)
    BY <2>1
  <2>6. ASSUME NEW f \in L
        PROVE  /\ f.src \in Items /\ f.under \in Ids
               /\ k.via # None => /\ parent[f.src] # None /\ k.via \in Up(parent, f.src)
                                  /\ k.to # Top => k.via \in Up(parent, f.under)
    <3>1. CASE f \in k.left
      BY <2>3, <2>4, <3>1
    <3>2. CASE f \notin k.left
      <4>1. PICK i \in Children(e.src) : f = ToInsert(i, e.under, e.deep)
        BY <2>6, <3>2
      <4>2. f.src = i /\ f.under = e.under /\ i \in Items /\ parent[i] = e.src /\ parent[i] # None
        BY <4>1 DEF Children, ToInsert, Live, Stored
      <4>3. k.via # None => k.via \in Up(parent, i)
        BY <1>2, <2>2, <2>4, <4>2, UpParent
      <4> QED
        BY <2>2, <2>3, <2>4, <4>2, <4>3
    <3> QED
      BY <3>1, <3>2
  <2> HIDE DEF L
  <2> QED
    BY <1>1, <1>3, <2>2, <2>5, <2>6, SCopyOn
<1> QED
  BY <1>5, <1>6, <1>7

(* A request that begins has walked up from nothing yet.                   *)
Placed(c) ==
    /\ Whole(c) /\ Sure(parent, c) /\ New(parent, c)
    /\ c.op = "create" => \A q \in Requests : Active(q) =>
          \A k \in 1..Len(req[q].items) : req[q].items[k] # Head(c.items)

LEMMA SPlaced ==
    ASSUME NEW r \in Requests, Start(r)
    PROVE  \E c : Begin(r, c) /\ Placed(c) /\ UNCHANGED <<tree, tags>>
<1> DEFINE Begun(c) == Begin(r, c) /\ Placed(c) /\ UNCHANGED <<tree, tags>>
<1>1. ASSUME NEW op \in ByItem, NEW u, NEW via \in Sharable \cup {None}, NEW s \in Seq(Items) \ {<<>>},
             NEW to \in Ids, NEW T, BeginOn(r, op, u, via, s, to, T),
             op = "create" => /\ Len(s) = 1 /\ parent[Head(s)] = None /\ Unused(Head(s))
                              /\ via # None => to \in Items,
             op = "copy" => to \in Items \cup {Top}
      PROVE  \E c : Begun(c)
  <2> DEFINE k == Call(op, "act", u, via)
             b == [k EXCEPT !.to = to, !.tags = T]
             c == Take(b, s)
  <2>1. Fields(b) /\ b.op = op /\ b.via = via /\ b.to = to
    <3>1. Fields(k) /\ k.op = op /\ k.via = via
      BY CallIs
    <3>2. b = [k EXCEPT !.to = to, !.tags = T]
      OBVIOUS
    <3> HIDE DEF k, b
    <3> QED
      BY <3>1, <3>2 DEF Fields
  <2>2. Begin(r, c) /\ UNCHANGED <<tree, tags>>
    BY <1>1 DEF BeginOn, tagging
  <2> HIDE DEF b
  <2>3. c.op = op /\ c.via = via /\ c.to = to /\ c.items = s
    BY <2>1, TakeIs
  <2>4. /\ c.at = Key(c)
        /\ op = "copy" /\ to \in Items => c.todo = <<Head(s), to>>
        /\ c.pc = IF via = None THEN "act" ELSE IF op = "browse" THEN "climb" ELSE "resource"
    BY <1>1, <2>1, TakeAt
  <2> HIDE DEF c
  <2>9. c.pc \in {"act", "climb", "resource"}
    BY <2>4
  <2>5. Whole(c)
    BY <1>1, <2>3, <2>9 DEF Whole, ByItem
  <2>6. ASSUME via # None PROVE Key(c) \in Items
    BY <1>1, <2>3, <2>6, HeadTailProperties DEF Key
  <2>10. Watched(parent, c)
    BY <2>3, <2>4, <2>6, UpSelf, SharingAssumption DEF Watched, Ids
  <2>11. Target(parent, c)
    BY <2>3, <2>4 DEF Target
  <2>7. Sure(parent, c)
    BY <2>9, <2>10, <2>11 DEF Sure, Copied
  <2>8. Placed(c)
    BY <1>1, <2>3, <2>5, <2>7 DEF Placed, New, Unused
  <2> QED
    BY <2>2, <2>8
<1>2. ASSUME NEW c, Begin(r, c), UNCHANGED <<tree, tags>>, c.op \notin ByItem, c.via \in Sharable \cup {None},
             c.op = "untag" => c.via = None, c.pc # "copy"
      PROVE  \E d : Begun(d)
  <2>1. Placed(c)
    BY <1>2 DEF Placed, Whole, Sure, Watched, Target, Copied, New, ByItem
  <2> QED
    BY <1>2, <2>1
<1> HIDE DEF Begun
<1>3. ASSUME NEW u, NEW T, BeginUntag(r, u, T) PROVE \E c : Begun(c)
  <2> DEFINE k == Call("untag", "unlist", u, None)
             c == [k EXCEPT !.tags = T]
  <2>1. c.op = "untag" /\ c.via = None /\ c.pc # "copy"
    <3>1. Fields(k) /\ k.op = "untag" /\ k.via = None /\ k.pc = "unlist"
      BY CallIs
    <3>2. c = [k EXCEPT !.tags = T]
      OBVIOUS
    <3> HIDE DEF k, c
    <3> QED
      BY <3>1, <3>2 DEF Fields
  <2>2. Begin(r, c) /\ UNCHANGED <<tree, tags>>
    BY <1>3 DEF BeginUntag, tagging
  <2> HIDE DEF c
  <2> QED
    BY <1>2, <2>1, <2>2 DEF ByItem
<1>4. ASSUME NEW u, BeginStorage(r, u) PROVE \E c : Begun(c)
  <2> DEFINE c == Call("storage", "own", u, None)
  <2>1. c.op = "storage" /\ c.via = None /\ c.pc # "copy"
    BY DEF Call
  <2>2. Begin(r, c) /\ UNCHANGED <<tree, tags>>
    BY <1>4 DEF BeginStorage, tagging
  <2> HIDE DEF c
  <2> QED
    BY <1>2, <2>1, <2>2 DEF ByItem
<1>5. ASSUME NEW u, NEW via \in Sharable, NEW t, BeginRevoke(r, u, via, t) PROVE \E c : Begun(c)
  <2> DEFINE k == Call("revoke", "find", u, via)
             c == [k EXCEPT !.to = t]
  <2>1. c.op = "revoke" /\ c.via = via /\ c.pc # "copy"
    <3>1. Fields(k) /\ k.op = "revoke" /\ k.via = via /\ k.pc = "find"
      BY CallIs
    <3>2. c = [k EXCEPT !.to = t]
      OBVIOUS
    <3> HIDE DEF k, c
    <3> QED
      BY <3>1, <3>2 DEF Fields
  <2>2. Begin(r, c) /\ UNCHANGED <<tree, tags>>
    BY <1>5 DEF BeginRevoke, tagging
  <2> HIDE DEF c
  <2> QED
    BY <1>2, <2>1, <2>2 DEF ByItem
<1>6. ASSUME NEW u, NEW via \in Sharable, NEW t, NEW role, BeginGrant(r, u, via, t, role) PROVE \E c : Begun(c)
  <2> DEFINE k == Call("grant", "resource", u, via)
             c == [k EXCEPT !.to = t, !.role = role]
  <2>1. c.op = "grant" /\ c.via = via /\ c.pc # "copy"
    <3>1. Fields(k) /\ k.op = "grant" /\ k.via = via /\ k.pc = "resource"
      BY CallIs
    <3>2. c = [k EXCEPT !.to = t, !.role = role]
      OBVIOUS
    <3> HIDE DEF k, c
    <3> QED
      BY <3>1, <3>2 DEF Fields
  <2>2. Begin(r, c) /\ UNCHANGED <<tree, tags>>
    BY <1>6 DEF BeginGrant, tagging
  <2> HIDE DEF c
  <2> QED
    BY <1>2, <2>1, <2>2 DEF ByItem
<1>7. ASSUME NEW u, NEW via \in Sharable, StartShare(r, u, via) PROVE \E c : Begun(c)
  BY <1>5, <1>6, <1>7 DEF StartShare, GrantShared, RevokeShared
<1>8. ASSUME NEW u, NEW via \in Sharable \cup {None}, NEW s \in Batches, NEW to \in Dirs \cup {Top, None}, NEW T,
             \/ BatchMove(r, u, via, s, to) \/ BatchRestore(r, u, via, s, to)
             \/ BatchDelete(r, u, via, s) \/ BatchDoom(r, u, via, s)
             \/ BatchTags(r, u, via, s, T) \/ (to # None /\ BatchCopy(r, u, via, s, to))
      PROVE  \E c : Begun(c)
  <2>1. s \in Seq(Items) \ {<<>>} /\ to \in Ids /\ None \in Ids
    BY SharingAssumption DEF Ids
  <2> QED
    BY <1>1, <1>8, <2>1, SharingAssumption DEF BeginItems, BatchMove, BatchCopy, BatchDelete, BatchRestore, BatchDoom, BatchTags, ByItem
<1>9. ASSUME NEW u, NEW via \in Sharable \cup {None}, StartBatch(r, u, via) PROVE \E c : Begun(c)
  <2>1. PICK s \in Batches :
          \/ \E to \in Dirs \cup {Top} : BatchMove(r, u, via, s, to) \/ BatchCopy(r, u, via, s, to)
          \/ \E to \in Dirs \cup {Top, None} : BatchRestore(r, u, via, s, to)
          \/ BatchDelete(r, u, via, s) \/ BatchDoom(r, u, via, s)
          \/ \E T \in SUBSET Tags : BatchTags(r, u, via, s, T)
    BY <1>9 DEF StartBatch
  <2> QED
    BY <1>8, <2>1, SharingAssumption
<1>10. ASSUME NEW u, NEW via \in Sharable \cup {None}, NEW i \in Items, NEW to \in Dirs \cup {Top, None}, NEW T,
              \/ BeginMove(r, u, via, i, to) \/ BeginRestore(r, u, via, i, to)
              \/ BeginDelete(r, u, via, i) \/ BeginDoom(r, u, via, i)
              \/ BeginBrowse(r, u, via, i) \/ BrowseShared(r, u, via, i) \/ BeginRename(r, u, via, i)
              \/ BeginTags(r, u, via, i, T) \/ (to # None /\ BeginCopy(r, u, via, i, to))
       PROVE  \E c : Begun(c)
  <2>1. <<i>> \in Seq(Items) \ {<<>>} /\ to \in Ids /\ None \in Ids
    BY SharingAssumption DEF Ids
  <2> QED
    BY <1>1, <1>10, <2>1, SharingAssumption DEF BeginItems, BeginCopy, BeginRename, BeginMove, BeginDelete, BeginRestore, BeginDoom, BeginTags, BeginBrowse,
                             BrowseShared, ByItem
<1>11. ASSUME NEW u, NEW via \in Sharable \cup {None}, NEW i \in Items,
              NEW to \in Dirs \cup {IF via = None THEN Top ELSE via},
              Unused(i), BeginOn(r, "create", u, via, <<i>>, to, {})
       PROVE  \E c : Begun(c)
  <2>1. /\ <<i>> \in Seq(Items) \ {<<>>} /\ Len(<<i>>) = 1 /\ Head(<<i>>) = i
        /\ to \in Ids /\ (via # None => to \in Items)
    BY SharingAssumption DEF Ids
  <2>2. parent[i] = None /\ BeginOn(r, "create", u, via, <<i>>, to, {})
    BY <1>11 DEF Unused, Stored
  <2> HIDE DEF Unused
  <2>3. PICK s : s = <<i>>
    OBVIOUS
  <2>4. /\ s \in Seq(Items) \ {<<>>} /\ Len(s) = 1 /\ parent[Head(s)] = None /\ Unused(Head(s))
        /\ BeginOn(r, "create", u, via, s, to, {})
    BY <1>11, <2>1, <2>2, <2>3
  <2>5. "create" \in ByItem
    BY DEF ByItem
  <2> QED
    BY <1>1, <2>1, <2>4, <2>5
<1>12. ASSUME NEW u, NEW via \in Sharable \cup {None}, StartItem(r, u, via) PROVE \E c : Begun(c)
  <2>1. PICK i \in Items :
          \/ \E to \in Dirs \cup {Top} : BeginMove(r, u, via, i, to)
          \/ \E to \in Dirs \cup {Top, None} : BeginRestore(r, u, via, i, to)
          \/ \E to \in Dirs \cup {Top} : BeginCopy(r, u, via, i, to)
          \/ BeginDelete(r, u, via, i) \/ BeginDoom(r, u, via, i) \/ BeginRename(r, u, via, i)
          \/ BeginBrowse(r, u, via, i) \/ BrowseShared(r, u, via, i)
          \/ \E T \in SUBSET Tags : BeginTags(r, u, via, i, T)
          \/ Unused(i) /\ \E to \in Dirs \cup {IF via = None THEN Top ELSE via} : BeginCreate(r, u, via, i, to)
    BY <1>12 DEF StartItem
  <2> HIDE DEF Unused
  <2> QED
    BY <1>10, <1>11, <2>1, SharingAssumption DEF BeginItems, BeginCreate
<1>13. ASSUME NEW u, NEW via, NEW i \in Items, NEW to \in Dirs \cup {Top},
              Unused(i), CreateShared(r, u, via, i, to)
       PROVE  \E c : Begun(c)
  BY <1>11, <1>13 DEF CreateShared
<1>14. \E c : Begun(c)
  <2>1. ASSUME NEW u, NEW via \in IF <<u, 0>> \in own THEN {None} ELSE Sharable PROVE via \in Sharable \cup {None}
    OBVIOUS
  <2> QED
    BY <1>3, <1>4, <1>7, <1>9, <1>12, <1>13, <2>1 DEF Start
<1> QED
  BY <1>14 DEF Begun

LEMMA SStart == ASSUME Apart, TInv, SInv, NEW r \in Requests, Start(r) PROVE SInv'
<1>1. PICK c : Begin(r, c) /\ Placed(c) /\ UNCHANGED <<tree, tags>>
  BY SPlaced
<1>2. /\ \A q \in Requests \ {r} : req'[q] = req[q]
      /\ req'[r] = c /\ req[r].pc = "idle" /\ parent' = parent
      /\ \A q \in Requests : Active(q) => ~Overlap(c, req[q]) /\ ~Overlap(req[q], c)
  BY <1>1 DEF Begin, At, TInv, Shape, tree
<1>3. ASSUME NEW q \in Requests \ {r}, Active(q) PROVE Distinct(c, req[q]) /\ Distinct(req[q], c)
  <2>1. ~Overlap(c, req[q]) /\ ~Overlap(req[q], c) /\ Whole(req[q])
    BY <1>2, <1>3 DEF SInv
  <2>2. ASSUME c.op = "create", req[q].op = "create" PROVE Head(c.items) # Head(req[q].items)
    <3>1. PICK s : s = req[q].items
      OBVIOUS
    <3>2. s \in Seq(Items) /\ s # <<>> /\ Len(s) = 1
      BY <2>1, <2>2, <3>1 DEF Whole, ByItem
    <3>3. Head(s) = s[1] /\ 1 \in 1..Len(s)
      BY <3>2
    <3> QED
      BY <1>1, <1>3, <2>2, <3>1, <3>3 DEF Placed
  <2> QED
    BY <2>1, <2>2 DEF Distinct
<1>4. \A q \in Requests : Active(q)' => Whole(req'[q]) /\ Sure(parent, req'[q]) /\ New(parent, req'[q])
  BY <1>1, <1>2 DEF SInv, Placed, Active
<1>5. ASSUME NEW q \in Requests, NEW s \in Requests, q # s, Active(q)', Active(s)'
      PROVE  Distinct(req'[q], req'[s])
  BY <1>2, <1>3, <1>5 DEF SInv, Active
<1> QED
  BY <1>2, <1>4, <1>5 DEF SInv

LEMMA SInitially == Init => SInv
<1> SUFFICES ASSUME Init PROVE SInv
  OBVIOUS
<1>1. parent \in [Items -> Ids] /\ \A r \in Requests : req[r].pc = "idle"
  BY SharingAssumption DEF Init, Idle, Ids
<1> QED
  BY <1>1 DEF SInv, Active

LEMMA SStepwise == ASSUME Apart, TInv, SInv, [Next]_vars PROVE SInv'
<1>1. CASE UNCHANGED vars
  BY <1>1 DEF vars, tree, SInv, Active
<1> QED
  BY <1>1, SGoes, SFind, SClimb, SPuts, SCreates, SCopies, SStart DEF Next, Continue

-----------------------------------------------------------------------------
(* What a request by share changes or lists.                               *)
LEMMA STurn ==
    ASSUME TInv, SInv, NEW s \in Requests, Continue(s)
    PROVE  Active(s) /\ \A q \in Requests \ {s} : req'[q] = req[q]
<1>1. Active(s)
  BY DEF Continue, InStorage, Climb, Verify, Browse, Move, Delete, Restore, Doom, CreateItem, Rename, Copy,
         CopyInsert, CopyChildren, CopyFails, TagItem, ListTags,
         Unlist, UntagItems, FindRow, SaveRow, RemoveRow, OwnStorage, At, Active
<1>2. Fields(req[s]) /\ Shape
  BY <1>1 DEF TInv
<1>3. \/ \E pc : Goto(s, pc)
      \/ \E d : req' = [req EXCEPT ![s] = d]
      \/ \E L : CopyOn(s, L)
  BY DEF Continue, InStorage, Climb, Verify, Browse, Move, Delete, Restore, Doom, CreateItem, Rename, Copy,
         CopyInsert, CopyChildren, CopyFails, TagItem, ListTags,
         Unlist, UntagItems, FindRow, SaveRow, RemoveRow, OwnStorage
<1> QED
  BY <1>1, <1>2, <1>3 DEF CopyOn, Goto, Shape

LEMMA SShown ==
    ASSUME TInv, SInv, NEW r \in Requests, Active(r), req[r].via # None, NEW i \in Shown(r)
    PROVE  Stored(i) /\ req[r].via \in Up(parent, i)
<1>1. parent \in [Items -> Ids] /\ Whole(req[r]) /\ Sure(parent, req[r]) /\ Kinds(req[r])
  BY DEF SInv, TInv
<1>2. CASE At(r, "act") /\ Op(r, {"browse"}) /\ i \in Children(Item(r))
  <2>1. Stored(i) /\ i \in Items /\ parent[i] = Key(req[r]) /\ req[r].pc = "act" /\ req[r].op = "browse"
    BY <1>2 DEF At, Op, Children, Live, Key, Item
  <2>2. req[r].via \in Up(parent, parent[i])
    BY <1>1, <2>1 DEF Sure, Watched, ByItem
  <2> QED
    BY <1>1, <2>1, <2>2, UpParent
<1>3. CASE At(r, "act") /\ Op(r, {"rename"}) /\ i = Item(r) /\ Live(i)
  BY <1>1, <1>3 DEF At, Op, Live, Key, Item, Sure, Watched, ByItem
<1>4. CASE At(r, "copy") /\ (\E e \in req[r].left : e.src = i)
  <2>1. req[r].op = "copy" /\ req[r].pc = "copy"
    BY <1>1, <1>4 DEF At, Kinds
  <2>2. i \in Items
    BY DEF Shown
  <2> QED
    BY <1>1, <1>4, <2>1, <2>2 DEF Sure, Copied, Stored
<1> QED
  BY <1>2, <1>3, <1>4 DEF Shown

LEMMA SChanged ==
    ASSUME TInv, SInv, NEW r \in Requests, Continue(r), req[r].via # None, NEW i \in Changed
    PROVE  ToTheTop(r, i) \/ req[r].via \in Up(IF Stored(i) THEN parent ELSE parent', i)
<1>1. PICK c : c = req[r]
  OBVIOUS
<1>2. /\ Active(r) /\ parent \in [Items -> Ids] /\ Whole(c) /\ Sure(parent, c) /\ New(parent, c)
      /\ Kinds(c) /\ Shape /\ c.via # None /\ i \in Items
  BY <1>1, STurn DEF SInv, TInv, Changed
<1>3. ASSUME c.pc = "act", c.op \in ByItem PROVE c.via \in Up(parent, Key(c))
  BY <1>2, <1>3 DEF Sure, Watched
<1>4. ASSUME c.op \in ByItem PROVE Head(c.items) \in Items
  BY <1>2, <1>4, HeadTailProperties DEF Whole
<1>5. ASSUME c.via \in Up(parent, Head(c.items)), Head(c.items) \in Up(parent, i) PROVE c.via \in Up(parent, i)
  BY <1>2, <1>5, UpUp
<1>6. CASE UNCHANGED <<tree, tags>>
  BY <1>6 DEF Changed, tree
<1>7. CASE Move(r)
  <2>1. c.pc = "act" /\ c.op = "move" /\ UNCHANGED <<trash, doomed, tags>>
    BY <1>1, <1>7 DEF Move, At, Op, tagging
  <2>2. i = Head(c.items) /\ Stored(i)
    BY <1>1, <1>2, <1>7, <2>1 DEF Move, Changed, Item, Live
  <2> QED
    BY <1>1, <1>3, <2>1, <2>2 DEF Key, ByItem
<1>8. CASE Delete(r) \/ Doom(r)
  <2>1. c.pc = "act" /\ c.op \in {"delete", "doom"} /\ parent' = parent /\ tags' = tags
    BY <1>1, <1>8 DEF Delete, Doom, At, Op, tagging
  <2>2. Head(c.items) \in Up(parent, i)
    BY <1>1, <1>8, <2>1 DEF Delete, Doom, Changed, Subtree, Item
  <2>3. c.via \in Up(parent, Head(c.items))
    BY <1>3, <2>1 DEF Key, ByItem
  <2> QED
    BY <1>1, <1>5, <2>1, <2>2, <2>3
<1>9. CASE Restore(r)
  <2>1. c.pc = "act" /\ c.op = "restore" /\ tags' = tags
    BY <1>1, <1>9 DEF Restore, At, Op, tagging
  <2>2. c.via \in Up(parent, Head(c.items))
    BY <1>3, <2>1 DEF Key, ByItem
  <2>3. Head(c.items) \in Items /\ c.to \in Ids
    BY <1>2, <1>4, <2>1 DEF ByItem, Whole
  <2>4. PICK h : h = Head(c.items)
    OBVIOUS
  <2>5. PICK to \in Ids : /\ parent' = [parent EXCEPT ![h] = to] /\ parent[h] # None
                          /\ trash' = trash \ Subtree(parent', h)
                          /\ doomed' = doomed \ Subtree(parent', h)
    <3>1. ~UNCHANGED tree
      BY <2>1 DEF Changed, tree
    <3>2. parent[h] \in Ids
      BY <1>2, <2>3, <2>4
    <3>3. PICK to \in Ids : to = IF c.to = None THEN parent[h] ELSE c.to
      BY <2>3, <3>2
    <3> QED
      BY <1>1, <1>9, <2>4, <3>1, <3>3 DEF Restore, Stored, Item
  <2>6. h \in Up(parent, i)
    <3>1. CASE parent'[i] # parent[i]
      <4>1. i = h
        BY <1>2, <2>5, <3>1
      <4> QED
        BY <1>2, <4>1, UpSelf DEF Ids
    <3>2. CASE parent'[i] = parent[i]
      <4>1. h \in Up(parent', i)
        BY <1>2, <2>1, <2>5, <3>2 DEF Changed, Subtree
      <4> QED
        BY <1>2, <2>3, <2>4, <2>5, <4>1, UpBelow
    <3> QED
      BY <3>1, <3>2
  <2>7. Stored(i)
    <3>1. CASE parent[i] = None
      <4>1. h \in {i, None}
        BY <1>2, <2>6, <3>1, UpLoose
      <4> QED
        BY <2>3, <2>4, <2>5, <3>1, <4>1, SharingAssumption
    <3> QED
      BY <1>2, <3>1 DEF Stored
  <2> QED
    BY <1>1, <1>5, <2>2, <2>4, <2>6, <2>7
<1>10. CASE CreateItem(r)
  <2>1. c.pc = "act" /\ c.op = "create" /\ UNCHANGED <<trash, doomed, tags>>
    BY <1>1, <1>10 DEF CreateItem, At, Op, tagging
  <2>2. i = Head(c.items) /\ parent' = [parent EXCEPT ![i] = c.to]
    BY <1>1, <1>2, <1>10, <2>1 DEF CreateItem, Changed, Item
  <2>3. parent[i] = None /\ c.to \in Ids
    BY <1>2, <2>1, <2>2 DEF New, Whole, ByItem
  <2>4. c.via \in Up(parent, c.to)
    BY <1>3, <2>1 DEF Key, ByItem
  <2>5. c.via \in Up(parent', c.to)
    BY <1>2, <2>2, <2>3, <2>4, UpGrows
  <2>6. parent' \in [Items -> Ids] /\ parent'[i] = c.to
    BY <1>2, <2>2, <2>3
  <2>7. c.via \in Up(parent', i)
    BY <1>2, <2>5, <2>6, UpParent
  <2> QED
    BY <1>1, <2>3, <2>7 DEF Stored
<1>11. CASE TagItem(r)
  <2>1. c.pc = "act" /\ c.op = "tags" /\ UNCHANGED tree
    BY <1>1, <1>11 DEF TagItem, At, Op
  <2>2. i = Head(c.items) /\ Stored(i)
    <3>1. tags'[i] # tags[i]
      BY <2>1 DEF Changed, tree
    <3> QED
      BY <1>1, <1>2, <1>11, <3>1 DEF TagItem, Item, Shape
  <2> QED
    BY <1>1, <1>3, <2>1, <2>2 DEF Key, ByItem
<1>12. CASE UntagItems(r)
  BY <1>1, <1>2, <1>12 DEF UntagItems, At, Kinds, Whole
<1>13. CASE CopyInsert(r)
  <2>1. PICK e \in Deepest(c.left), n \in Items :
          /\ Unused(n) /\ parent' = [parent EXCEPT ![n] = e.under] /\ tags' = [tags EXCEPT ![n] = e.tags]
    BY <1>1, <1>13 DEF CopyInsert
  <2>2. c.pc = "copy" /\ c.op = "copy" /\ e \in c.left /\ e.under \in Ids /\ UNCHANGED <<trash, doomed>>
    BY <1>1, <1>2, <1>13 DEF CopyInsert, At, Deepest, Whole, Kinds
  <2>3. i = n
    BY <1>2, <2>1, <2>2 DEF Changed, Shape
  <2>4. ~Stored(i) /\ parent[i] = None
    BY <1>2, <2>1, <2>3 DEF Unused, Stored
  <2>5. CASE c.to = Top
    BY <1>1, <2>2, <2>4, <2>5 DEF ToTheTop, Op
  <2>6. CASE c.to # Top
    <3>1. c.via \in Up(parent, e.under)
      BY <1>2, <2>2, <2>6 DEF Sure, Copied
    <3>2. c.via \in Up(parent', e.under)
      BY <1>2, <2>1, <2>2, <2>3, <2>4, <3>1, UpGrows
    <3>3. parent' \in [Items -> Ids] /\ parent'[i] = e.under
      BY <1>2, <2>1, <2>2, <2>3
    <3>4. c.via \in Up(parent', i)
      BY <1>2, <3>2, <3>3, UpParent
    <3> QED
      BY <1>1, <2>4, <3>4
  <2> QED
    BY <2>5, <2>6
<1> QED
  BY <1>6, <1>7, <1>8, <1>9, <1>10, <1>11, <1>12, <1>13
     DEF Continue, InStorage, Climb, Verify, Browse, Rename, Copy, CopyChildren, CopyFails, ListTags, Unlist,
         FindRow, SaveRow, RemoveRow, OwnStorage, tagging

LEMMA SWithin ==
    ASSUME TInv, SInv, Next,
           NEW r \in Requests, Active(r), req'[r] # req[r], req[r].via # None, NEW i \in Changed \cup Shown(r)
    PROVE  ToTheTop(r, i) \/ req[r].via \in Up(IF Stored(i) THEN parent ELSE parent', i)
<1>1. PICK s \in Requests : Start(s) \/ Continue(s)
  BY DEF Next
<1>2. Continue(r)
  <2>1. CASE Start(s)
    <3>1. s # r
      BY <2>1 DEF Start, At, Active
    <3> QED
      BY <2>1, <3>1, SPlaced DEF Begin, TInv, Shape
  <2>2. CASE Continue(s)
    BY <2>2, STurn
  <2> QED
    BY <1>1, <2>1, <2>2
<1>3. CASE i \in Changed
  BY <1>2, <1>3, SChanged
<1>4. CASE i \in Shown(r)
  BY <1>4, SShown
<1> QED
  BY <1>3, <1>4

(* Whatever a request by share lists, renames, copies or changes lies below*)
(* the resource it names or is new there (but copies that were asked for at*)
(* the top), though assertSharedMutationScope walks up one document at a   *)
(* time and others create, copy, trash and tag meanwhile, as long as no    *)
(* move or restore overlaps a request by share.                            *)
THEOREM SharesBound == ASSUME Apart PROVE FavoritesSpec => StaysInShare
<1> DEFINE I == Both /\ (about = "items" => SInv)
<1>1. FavoritesInit => I
  BY BothInitially, SInitially DEF FavoritesInit
<1>2. ASSUME I, [FavoritesNext]_<<vars, favorites>> PROVE I'
  <2>1. Both'
    BY <1>2, BothStepwise
  <2>2. ASSUME about' = "items" PROVE SInv'
    <3>1. about = "items" /\ [Next]_vars
      <4>1. ASSUME NEW r \in Requests, StartMark(r) \/ ContinueMark(r) PROVE about' = about
        BY <4>1, OthersStay
      <4> QED
        BY <1>2, <2>2, <4>1 DEF FavoritesNext, Next, favorites
    <3> QED
      BY <1>2, <3>1, SStepwise DEF Both
  <2> QED
    BY <2>1, <2>2
<1>3. ASSUME I, FavoritesNext, NEW r \in Requests, Active(r), req'[r] # req[r], req[r].via # None,
             NEW i \in Changed \cup Shown(r)
      PROVE  ToTheTop(r, i) \/ req[r].via \in Up(IF Stored(i) THEN parent ELSE parent', i)
  <2>1. CASE about = "items"
    <3>1. TInv /\ SInv
      BY <1>3, <2>1 DEF Both
    <3>2. Next
      BY <1>3, <2>1 DEF FavoritesNext, Next
    <3> QED
      BY <1>3, <3>1, <3>2, SWithin
  <2>2. CASE about = "favorites"
    <3>1. MarkInv /\ req[r].pc \notin {"idle", "ended"} /\ req[r].via # None
      BY <1>3, <2>2 DEF Both, Active
    <3>2. Marking(req[r])
      BY <3>1 DEF MarkInv, MarkShape
    <3> QED
      BY <3>1, <3>2 DEF Marking
  <2> QED
    BY <1>3, <2>1, <2>2 DEF Both
<1>4. I /\ [FavoritesNext]_<<vars, favorites>> => [\A r \in Requests :
         /\ Active(r) /\ req'[r] # req[r]
         /\ req[r].via # None
         => \A i \in Changed \cup Shown(r) :
               \/ ToTheTop(r, i)
               \/ req[r].via \in Up(IF Stored(i) THEN parent ELSE parent', i)]_vars
  BY <1>3
<1>5. I /\ [FavoritesNext]_<<vars, favorites>> => I'
  BY <1>2
<1> QED
  BY <1>1, <1>4, <1>5, PTL DEF FavoritesSpec, StaysInShare
=============================================================================
