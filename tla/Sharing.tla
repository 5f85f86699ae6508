------------------------------ MODULE Sharing -------------------------------
(***************************************************************************)
(* Storages as main-app offers them: a user creates a storage, its items   *)
(* are listed and changed by its owner or by users an item is shared with, *)
(* shares are granted and revoked, items are tagged, copied and renamed.   *)
(* A request passes the permission guard; one that names a shared resource *)
(* is then checked to stay below it, one document at a time; only then it  *)
(* is done.                                                                *)
(*                                                                         *)
(* What the file service does to the tree is one step here (StorageTree    *)
(* has the steps of it); its writes of tags and its copies, which write    *)
(* the tags they read before, are steps of their own.  Children of another *)
(* storage are not modelled, nor are names (StorageNames has both).  A     *)
(* batch request is its items' requests, one after the other.  A request   *)
(* the guard refuses is as if not made.                                    *)
(*                                                                         *)
(* The operators named Slip... are wrong variants of the definition that   *)
(* follows them; no action uses them.                                      *)
(***************************************************************************)
EXTENDS Naturals, FiniteSets, Sequences

CONSTANTS
    Users,
    Owner,        \* the user whose storage, storage 0, is there from the start
    Items, Dirs,  \* ids of items of storage 0, and those of folders
    Planted,      \* Init: the parent of each item
    Worn,         \* Init: the tags of each item, all listed
    Sharable,     \* items that are shared
    Invited,      \* Init: users who may write to all of them
    Batches,      \* lists of items that batch requests name
    Tags,
    Top, None,    \* parentId = null; no item (and no resource, or no new parent, given)
    MaxRequests,  \* bound: requests
    Apart         \* no overlap of: a move or restore and a request by share; two grants or
                  \* revocations; two createStorage of a user

ASSUME SharingAssumption ==
    /\ Owner \in Users /\ Invited \subseteq Users
    /\ IsFiniteSet(Items) /\ Dirs \subseteq Items /\ Sharable \subseteq Items
    /\ Top \notin Items /\ None \notin Items /\ Top # None
    /\ Batches \subseteq Seq(Items) \ {<<>>}
    /\ Planted \in [Items -> Dirs \cup {Top, None}] /\ Worn \in [Items -> SUBSET Tags]
    /\ MaxRequests \in Nat /\ Apart \in BOOLEAN

VARIABLES
    own,    \* STORAGE permissions: <<user, storage>>; a storage is the request that made it
    rows,   \* SHARED permissions: id, user, resource, role
    parent, \* parentId of each item, None if it is not stored
    trash,  \* items with deletedAt
    doomed, \* items with permanentDeleteAt
    tags,   \* tags of each item
    listed, \* tags of storage 0
    lost,   \* history: tags taken off while a copy held them, and not listed or taken off since
    out,    \* history: <<user, resource>> revoked, and not granted since
    req     \* what each request is doing

tree == <<parent, trash, doomed>>
tagging == <<tags, listed, lost>>
vars == <<own, rows, tree, tagging, out, req>>

Requests == 1..MaxRequests
Roles == {"read", "write"}

Idle == [op |-> "none", pc |-> "idle"]
Call(op, pc, u, via) ==
    [op |-> op, pc |-> pc, u |-> u, via |-> via, items |-> <<>>, to |-> None, role |-> "none",
     row |-> <<>>, todo |-> <<>>, at |-> None, tags |-> {}, left |-> {}]

At(r, pc) == req[r].pc = pc
Op(r, S)  == req[r].op \in S
Active(r) == req[r].pc \notin {"idle", "ended"}
Item(r)   == Head(req[r].items)

(* Item s[1] of a request is next.  todo: the items that are checked to be *)
(* below the resource.                                                     *)
Take(c, s) ==
    LET named == IF c.op = "create" THEN <<c.to, c.to>>
                 ELSE IF c.to \in Items THEN <<Head(s), c.to>> ELSE <<Head(s)>>
    IN  [c EXCEPT !.items = s, !.todo = named, !.at = Head(named), !.left = {},
                  !.pc = IF c.via = None THEN "act" ELSE IF c.op = "browse" THEN "climb" ELSE "resource"]

(* "ended" ends the work on an item: a batch goes on with the next one.    *)
Goto(r, pc) ==
    req' = [req EXCEPT ![r] = IF pc # "ended" THEN [@ EXCEPT !.pc = pc]
                              ELSE IF Len(@.items) > 1 THEN Take(@, Tail(@.items))
                              ELSE [op |-> "none", pc |-> pc]]

Stored(i) == i \in Items /\ parent[i] # None
Live(i)   == Stored(i) /\ i \notin trash

(* What walking up from i comes to: it is in every set of i that holds the *)
(* parents of its items.                                                   *)
Ids == Items \cup {Top, None}
Closed(p, S) == \A k \in S \cap Items : p[k] \in S
Up(p, i) == {j \in Ids : \A S \in SUBSET Ids : i \in S /\ Closed(p, S) => j \in S}
Below(i, top) == top \in Up(parent, i)
Subtree(p, i) == {j \in Items : i \in Up(p, j)}
Children(i) == {j \in Items : parent[j] = i /\ Live(j)}

Init ==
    /\ own = {<<Owner, 0>>}
    /\ rows = {[id |-> <<u, s>>, u |-> u, res |-> s, role |-> "write"] : u \in Invited, s \in Sharable}
    /\ parent = Planted
    /\ trash = {} /\ doomed = {}
    /\ tags = Worn /\ listed = UNION {Worn[i] : i \in Items} /\ lost = {}
    /\ out = {}
    /\ req = [r \in Requests |-> Idle]

-----------------------------------------------------------------------------
(* PermissionGuard: any of its checks may pass.                            *)
Writes(u, via) == \E p \in rows : p.u = u /\ p.res = via /\ p.role = "write"
Reads(u, via)  == \E p \in rows : p.u = u /\ p.res = via
Allowed(u, via) == <<u, 0>> \in own \/ Writes(u, via)

Overlap(c, d) ==
    \/ c.op \in {"move", "restore"} /\ d.op \in {"move", "restore", "delete", "doom", "create", "tags",
                                                        "browse", "copy", "rename"}
       /\ d.via # None
    \/ {c.op, d.op} \subseteq {"grant", "revoke"} /\ c.via = d.via
    \/ c.op = "storage" /\ d.op = "storage" /\ c.u = d.u

Begin(r, c) ==
    /\ At(r, "idle")
    /\ \A q \in 1..(r - 1) : ~At(q, "idle")
    /\ Apart => \A q \in Requests : Active(q) => ~Overlap(c, req[q]) /\ ~Overlap(req[q], c)
    /\ req' = [req EXCEPT ![r] = c]

BeginOn(r, op, u, via, s, to, T) ==
    /\ Begin(r, Take([Call(op, "act", u, via) EXCEPT !.to = to, !.tags = T], s))
    /\ UNCHANGED <<own, rows, tree, tagging, out>>

BeginItems(r, op, u, via, s, to, T) ==
    /\ Allowed(u, via) \/ (op = "browse" /\ Reads(u, via))
    /\ BeginOn(r, op, u, via, s, to, T)

(* The endpoints: the item, the parent or new parent, the tags given.  The *)
(* owner's listing passes no check.                                        *)
BeginCreate(r, u, via, i, to) == BeginItems(r, "create", u, via, <<i>>, to, {})
BeginMove(r, u, via, i, to)   == Stored(i) /\ BeginItems(r, "move", u, via, <<i>>, to, {})
BeginDelete(r, u, via, i)     == Stored(i) /\ BeginItems(r, "delete", u, via, <<i>>, None, {})
BeginRestore(r, u, via, i, to) == i \in trash /\ BeginItems(r, "restore", u, via, <<i>>, to, {})
BeginDoom(r, u, via, i)       == i \in trash /\ BeginItems(r, "doom", u, via, <<i>>, None, {})
BeginTags(r, u, via, i, T)    == Stored(i) /\ BeginItems(r, "tags", u, via, <<i>>, None, T)
BeginCopy(r, u, via, i, to)   == Stored(i) /\ BeginItems(r, "copy", u, via, <<i>>, to, {})
BeginRename(r, u, via, i)     == Stored(i) /\ BeginItems(r, "rename", u, via, <<i>>, None, {})
BeginBrowse(r, u, via, i)     == via # None /\ BeginItems(r, "browse", u, via, <<i>>, None, {})
BrowseShared(r, u, via, i)    == via # None /\ BeginItems(r, "browse", u, via, <<i>>, None, {})
BatchMove(r, u, via, s, to)   == BeginItems(r, "move", u, via, s, to, {})
BatchCopy(r, u, via, s, to)   == BeginItems(r, "copy", u, via, s, to, {})
BatchDelete(r, u, via, s)     == BeginItems(r, "delete", u, via, s, None, {})
BatchRestore(r, u, via, s, to) == BeginItems(r, "restore", u, via, s, to, {})
BatchDoom(r, u, via, s)       == BeginItems(r, "doom", u, via, s, None, {})
BatchTags(r, u, via, s, T)    == BeginItems(r, "tags", u, via, s, None, T)

(* /shared/create-item names a resource to the guard and to nobody else:   *)
(* no check follows.                                                       *)
CreateShared(r, u, via, i, to) == Writes(u, via) /\ BeginOn(r, "create", u, None, <<i>>, to, {})

(* isItemInStorage: the resource is not deleted.                           *)
InStorage(r) ==
    /\ At(r, "resource")
    /\ Goto(r, IF ~Live(req[r].via) THEN "ended"
               ELSE IF Op(r, {"grant"}) THEN "find" ELSE "climb")
    /\ UNCHANGED <<own, rows, tree, tagging, out>>

(* isDescendantOrSelf, one document at a time.                             *)
Passed(c) ==
    LET rest == Tail(c.todo)
    IN  IF rest = <<>>
          THEN [c EXCEPT !.todo = rest, !.at = None, !.pc = IF c.op = "tags" THEN "verify" ELSE "act"]
          ELSE [c EXCEPT !.todo = rest, !.at = Head(rest)]

SlipClimb(r) ==            \* takes an item whose chain ends for one below the resource
    /\ At(r, "climb")
    /\ LET c == req[r]
           above == IF c.at \in Items THEN parent[c.at] ELSE None
       IN  IF c.via \in {c.at, above} \/ above = Top
             THEN req' = [req EXCEPT ![r] = Passed(c)]
             ELSE IF above = None
               THEN Goto(r, "ended")
               ELSE req' = [req EXCEPT ![r].at = above]
    /\ UNCHANGED <<own, rows, tree, tagging, out>>

Climb(r) ==
    /\ At(r, "climb")
    /\ LET c == req[r]
           above == IF c.at \in Items THEN parent[c.at] ELSE None
       IN  IF c.via \in {c.at, above}
             THEN req' = [req EXCEPT ![r] = Passed(c)]
             ELSE IF above \in {Top, None}
               THEN Goto(r, "ended")
               ELSE req' = [req EXCEPT ![r].at = above]
    /\ UNCHANGED <<own, rows, tree, tagging, out>>

(* updateStorageItemTags asks for the permission once more.                *)
Verify(r) ==
    /\ At(r, "verify")
    /\ Goto(r, IF Writes(req[r].u, req[r].via) THEN "act" ELSE "ended")
    /\ UNCHANGED <<own, rows, tree, tagging, out>>

-----------------------------------------------------------------------------
(* The file service.  What is listed are the folder's live children.       *)

Browse(r) ==
    /\ At(r, "act") /\ Op(r, {"browse"})
    /\ Goto(r, "ended")
    /\ UNCHANGED <<own, rows, tree, tagging, out>>

OpenDir(i) == i = Top \/ (i \in Dirs /\ Live(i))

Move(r) ==
    /\ At(r, "act") /\ Op(r, {"move"})
    /\ LET c == req[r]
       IN  parent' = IF Live(Item(r)) /\ OpenDir(c.to) /\ ~(c.to \in Items /\ Below(c.to, Item(r)))
                       THEN [parent EXCEPT ![Item(r)] = c.to] ELSE parent
    /\ Goto(r, "ended")
    /\ UNCHANGED <<own, rows, trash, doomed, tagging, out>>

Delete(r) ==
    /\ At(r, "act") /\ Op(r, {"delete"})
    /\ LET S == IF Stored(Item(r)) THEN Subtree(parent, Item(r)) ELSE {}
       IN  trash' = trash \cup S /\ doomed' = doomed \ S
    /\ Goto(r, "ended")
    /\ UNCHANGED <<own, rows, parent, tagging, out>>

Restore(r) ==
    /\ At(r, "act") /\ Op(r, {"restore"})
    /\ LET to == IF req[r].to = None THEN parent[Item(r)] ELSE req[r].to
       IN  IF Stored(Item(r)) /\ OpenDir(to)
             THEN /\ parent' = [parent EXCEPT ![Item(r)] = to]
                  /\ trash' = trash \ Subtree(parent', Item(r))
                  /\ doomed' = doomed \ Subtree(parent', Item(r))
             ELSE UNCHANGED tree
    /\ Goto(r, "ended")
    /\ UNCHANGED <<own, rows, tagging, out>>

(* permanentDelete: the item and all below it go when the retention ends.  *)
Doom(r) ==
    /\ At(r, "act") /\ Op(r, {"doom"})
    /\ LET S == IF Item(r) \in trash THEN Subtree(parent, Item(r)) ELSE {}
       IN  trash' = trash \cup S /\ doomed' = doomed \cup S
    /\ Goto(r, "ended")
    /\ UNCHANGED <<own, rows, parent, tagging, out>>

CreateItem(r) ==
    /\ At(r, "act") /\ Op(r, {"create"})
    /\ parent' = IF OpenDir(req[r].to) THEN [parent EXCEPT ![Item(r)] = req[r].to] ELSE parent
    /\ Goto(r, "ended")
    /\ UNCHANGED <<own, rows, trash, doomed, tagging, out>>

(* renameStorageItem writes the name alone.                                *)
Rename(r) ==
    /\ At(r, "act") /\ Op(r, {"rename"})
    /\ Goto(r, "ended")
    /\ UNCHANGED <<own, rows, tree, tagging, out>>

(* copyItem: what is left to insert, with the tags as they were read, and  *)
(* the folders whose copies (under) are there, left to list; the deepest   *)
(* first.                                                                  *)
ToInsert(i, under, n) == [src |-> i, under |-> under, tags |-> tags[i], deep |-> n, list |-> FALSE]
ToList(e, copy)       == [src |-> e.src, under |-> copy, tags |-> {}, deep |-> e.deep + 1, list |-> TRUE]
Deepest(L) == {e \in L : \A f \in L : f.deep <= e.deep}

CopyOn(r, L) ==
    IF L = {} THEN Goto(r, "ended")
              ELSE req' = [req EXCEPT ![r] = [@ EXCEPT !.pc = "copy", !.left = L]]

Copy(r) ==
    /\ At(r, "act") /\ Op(r, {"copy"})
    /\ CopyOn(r, IF Live(Item(r)) /\ OpenDir(req[r].to) THEN {ToInsert(Item(r), req[r].to, 0)} ELSE {})
    /\ UNCHANGED <<own, rows, tree, tagging, out>>

(* No request names the id: it is not given out yet.                       *)
Unused(i) == ~Stored(i) /\ \A q \in Requests : Active(q) =>
                              \A k \in 1..Len(req[q].items) : req[q].items[k] # i

CopyInsert(r) ==
    /\ At(r, "copy")
    /\ \E e \in Deepest(req[r].left), n \in Items :
         /\ ~e.list /\ Unused(n) /\ (n \in Dirs <=> e.src \in Dirs)
         /\ parent' = [parent EXCEPT ![n] = e.under]
         /\ tags' = [tags EXCEPT ![n] = e.tags]
         /\ CopyOn(r, (req[r].left \ {e}) \cup IF n \in Dirs THEN {ToList(e, n)} ELSE {})
    /\ UNCHANGED <<own, rows, trash, doomed, listed, lost, out>>

CopyChildren(r) ==
    /\ At(r, "copy")
    /\ \E e \in Deepest(req[r].left) :
         /\ e.list
         /\ CopyOn(r, (req[r].left \ {e}) \cup {ToInsert(i, e.under, e.deep) : i \in Children(e.src)})
    /\ UNCHANGED <<own, rows, tree, tagging, out>>

(* A file cannot be copied: what was inserted stays.                       *)
CopyFails(r) ==
    /\ At(r, "copy")
    /\ \E e \in Deepest(req[r].left) : ~e.list /\ e.src \notin Dirs
    /\ Goto(r, "ended")
    /\ UNCHANGED <<own, rows, tree, tagging, out>>

(* updateStorageItemTags writes the item, then adds to the storage's list. *)
TagItem(r) ==
    /\ At(r, "act") /\ Op(r, {"tags"})
    /\ IF Stored(Item(r))
         THEN /\ tags' = [tags EXCEPT ![Item(r)] = req[r].tags]
              /\ Goto(r, "list")
         ELSE /\ Goto(r, "ended")
              /\ UNCHANGED tags
    /\ UNCHANGED <<own, rows, tree, listed, lost, out>>

ListTags(r) ==
    /\ At(r, "list")
    /\ listed' = listed \cup req[r].tags
    /\ lost' = lost \ req[r].tags
    /\ Goto(r, "ended")
    /\ UNCHANGED <<own, rows, tree, tags, out>>

(* removeStorageTags: the storage's list first, then every item.           *)
BeginUntag(r, u, T) ==
    /\ <<u, 0>> \in own
    /\ Begin(r, [Call("untag", "unlist", u, None) EXCEPT !.tags = T])
    /\ UNCHANGED <<own, rows, tree, tagging, out>>

Unlist(r) ==
    /\ At(r, "unlist")
    /\ listed' = listed \ req[r].tags
    /\ Goto(r, "untag")
    /\ UNCHANGED <<own, rows, tree, tags, lost, out>>

Held(t) == \E r \in Requests : At(r, "copy") /\ \E e \in req[r].left : t \in e.tags
Lose(T) == lost' = (lost \ T) \cup {t \in T : Held(t)}

SlipUntagItems(r) ==       \* leaves out items in the trash
    /\ At(r, "untag")
    /\ tags' = [i \in Items |-> IF i \in trash THEN tags[i] ELSE tags[i] \ req[r].tags]
    /\ Lose(req[r].tags)
    /\ Goto(r, "ended")
    /\ UNCHANGED <<own, rows, tree, listed, out>>

UntagItems(r) ==
    /\ At(r, "untag")
    /\ tags' = [i \in Items |-> tags[i] \ req[r].tags]
    /\ Lose(req[r].tags)
    /\ Goto(r, "ended")
    /\ UNCHANGED <<own, rows, tree, listed, out>>

-----------------------------------------------------------------------------
(* grantSharedPermission and revokeSharedPermission for user t: to holds t *)
(* here.  A saved row that was removed meanwhile is inserted again.        *)

BeginGrant(r, u, via, t, role) ==
    /\ Allowed(u, via)
    /\ Begin(r, [Call("grant", "resource", u, via) EXCEPT !.to = t, !.role = role])
    /\ out' = out \ {<<t, via>>}
    /\ UNCHANGED <<own, rows, tree, tagging>>

(* /shared/grant-permission and revoke-permission serve the owner alone.   *)
GrantShared(r, u, via, t, role) == <<u, 0>> \in own /\ BeginGrant(r, u, via, t, role)

BeginRevoke(r, u, via, t) ==
    /\ Allowed(u, via)
    /\ Begin(r, [Call("revoke", "find", u, via) EXCEPT !.to = t])
    /\ UNCHANGED <<own, rows, tree, tagging, out>>

RevokeShared(r, u, via, t) == <<u, 0>> \in own /\ BeginRevoke(r, u, via, t)

RowsOf(c) == {p \in rows : p.u = c.to /\ p.res = c.via}

SlipFindRow(r) ==          \* looks for a row with the role asked for
    /\ At(r, "find")
    /\ LET found == {p \in RowsOf(req[r]) : Op(r, {"revoke"}) \/ p.role = req[r].role}
       IN  IF found = {}
             THEN Goto(r, IF Op(r, {"grant"}) THEN "save" ELSE "ended")
             ELSE \E p \in found :
                    req' = [req EXCEPT ![r] = [@ EXCEPT !.row = p.id,
                                  !.pc = IF req[r].op = "grant" THEN "save" ELSE "remove"]]
    /\ UNCHANGED <<own, rows, tree, tagging, out>>

FindRow(r) ==
    /\ At(r, "find")
    /\ IF RowsOf(req[r]) = {}
         THEN Goto(r, IF Op(r, {"grant"}) THEN "save" ELSE "ended")
         ELSE \E p \in RowsOf(req[r]) :
                req' = [req EXCEPT ![r] = [@ EXCEPT !.row = p.id,
                                             !.pc = IF req[r].op = "grant" THEN "save" ELSE "remove"]]
    /\ UNCHANGED <<own, rows, tree, tagging, out>>

SaveRow(r) ==
    /\ At(r, "save")
    /\ LET c == req[r]
           id == IF c.row = <<>> THEN <<r>> ELSE c.row
       IN  rows' = {p \in rows : p.id # id} \cup {[id |-> id, u |-> c.to, res |-> c.via, role |-> c.role]}
    /\ Goto(r, "ended")
    /\ UNCHANGED <<own, tree, tagging, out>>

RemoveRow(r) ==
    /\ At(r, "remove")
    /\ rows' = {p \in rows : p.id # req[r].row}
    /\ out' = out \cup {<<req[r].to, req[r].via>>}
    /\ Goto(r, "ended")
    /\ UNCHANGED <<own, tree, tagging>>

-----------------------------------------------------------------------------
(* createStorage: the permissions of the user, the storage, its permission.*)

BeginStorage(r, u) ==
    /\ \A o \in own : o[1] # u
    /\ Begin(r, Call("storage", "own", u, None))
    /\ UNCHANGED <<own, rows, tree, tagging, out>>

OwnStorage(r) ==
    /\ At(r, "own")
    /\ own' = own \cup {<<req[r].u, r>>}
    /\ Goto(r, "ended")
    /\ UNCHANGED <<rows, tree, tagging, out>>

-----------------------------------------------------------------------------
StartItem(r, u, via) == \E i \in Items :
    \/ \E to \in Dirs \cup {Top} : BeginMove(r, u, via, i, to)
    \/ \E to \in Dirs \cup {Top, None} : BeginRestore(r, u, via, i, to)
    \/ \E to \in Dirs \cup {Top} : BeginCopy(r, u, via, i, to)
    \/ BeginDelete(r, u, via, i) \/ BeginDoom(r, u, via, i) \/ BeginRename(r, u, via, i)
    \/ BeginBrowse(r, u, via, i) \/ BrowseShared(r, u, via, i)
    \/ \E T \in SUBSET Tags : BeginTags(r, u, via, i, T)
    \/ Unused(i) /\ \E to \in Dirs \cup {IF via = None THEN Top ELSE via} : BeginCreate(r, u, via, i, to)

StartBatch(r, u, via) == \E s \in Batches :
    \/ \E to \in Dirs \cup {Top} : BatchMove(r, u, via, s, to) \/ BatchCopy(r, u, via, s, to)
    \/ \E to \in Dirs \cup {Top, None} : BatchRestore(r, u, via, s, to)
    \/ BatchDelete(r, u, via, s) \/ BatchDoom(r, u, via, s)
    \/ \E T \in SUBSET Tags : BatchTags(r, u, via, s, T)

StartShare(r, u, via) == \E t \in Users :
    \/ BeginRevoke(r, u, via, t) \/ RevokeShared(r, u, via, t)
    \/ \E role \in Roles : BeginGrant(r, u, via, t, role) \/ GrantShared(r, u, via, t, role)

(* The owner names no resource, as others must.                            *)
Start(r) == At(r, "idle") /\ \E u \in Users :
    \/ BeginStorage(r, u)
    \/ \E T \in (SUBSET Tags) \ {{}} : BeginUntag(r, u, T)
    \/ \E via \in IF <<u, 0>> \in own THEN {None} ELSE Sharable :
          StartItem(r, u, via) \/ StartBatch(r, u, via)
    \/ \E via \in Sharable : StartShare(r, u, via)
    \/ \E via \in Sharable, i \in Items, to \in Dirs \cup {Top} :
          Unused(i) /\ CreateShared(r, u, via, i, to)

Continue(r) ==
    \/ InStorage(r) \/ Climb(r) \/ Verify(r) \/ Browse(r)
    \/ Move(r) \/ Delete(r) \/ Restore(r) \/ Doom(r) \/ CreateItem(r)
    \/ Rename(r) \/ Copy(r) \/ CopyInsert(r) \/ CopyChildren(r) \/ CopyFails(r)
    \/ TagItem(r) \/ ListTags(r) \/ Unlist(r) \/ UntagItems(r)
    \/ FindRow(r) \/ SaveRow(r) \/ RemoveRow(r) \/ OwnStorage(r)

Next == \E r \in Requests : Start(r) \/ Continue(r)

Spec == Init /\ [][Next]_vars

-----------------------------------------------------------------------------
(* What a request by share lists, renames, copies or changes lies below    *)
(* the resource it names, or is new and is put there; but copies for which *)
(* no folder is named are put at the top of the storage.  (The requests of *)
(* /shared/create-item, which no check follows, are none of these.)        *)
Shown(r) ==
    {i \in Items : \/ At(r, "act") /\ Op(r, {"browse"}) /\ i \in Children(Item(r))
                   \/ At(r, "act") /\ Op(r, {"rename"}) /\ i = Item(r) /\ Live(i)
                   \/ At(r, "copy") /\ (\E e \in req[r].left : e.src = i)}
Changed == {i \in Items : \/ parent'[i] # parent[i] \/ tags'[i] # tags[i]
                          \/ (i \in trash') # (i \in trash)
                          \/ (i \in doomed') # (i \in doomed)}
ToTheTop(r, i) == Op(r, {"copy"}) /\ req[r].to = Top /\ ~Stored(i)
StaysInShare == [][\A r \in Requests :
    /\ Active(r) /\ req'[r] # req[r]
    /\ req[r].via # None
    => \A i \in Changed \cup Shown(r) :
          \/ ToTheTop(r, i)
          \/ req[r].via \in Up(IF Stored(i) THEN parent ELSE parent', i)]_vars

(* Whoever a share was taken from has no row that still admits him.        *)
RevokedStayOut == \A p \in rows : <<p.u, p.res>> \notin out

(* When no tag is being written, the storage lists the tags of its items,  *)
(* but for those that a copy held while they were taken off.               *)
TagsListed ==
    (\A r \in Requests : ~Active(r) \/ ~Op(r, {"tags", "untag"}))
        => \A i \in Items : tags[i] \subseteq listed \cup lost
=============================================================================
