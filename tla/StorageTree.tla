----------------------------- MODULE StorageTree -----------------------------
(***************************************************************************)
(* The storage tree of the file service: the StorageItem collection and    *)
(* the RPC handlers that create, move, trash, restore, schedule and purge  *)
(* items (file-service/src/modules/storage/services).                      *)
(*                                                                         *)
(* Every handler is a chain of awaited database calls.  One action is the  *)
(* code between two awaits together with the database call that ends it,   *)
(* so that whatever another handler does between two awaits of this one is *)
(* an interleaving of the model.  A request that a check refuses throws    *)
(* and changes nothing: its handler becomes idle again, or never starts    *)
(* when its first read refuses it.                                         *)
(*                                                                         *)
(* The operators named Slip... are wrong variants of the definition that   *)
(* follows them, for checking that the properties notice; no action uses   *)
(* them.                                                                   *)
(***************************************************************************)
EXTENDS Naturals, FiniteSets

CONSTANTS
    Items,          \* every ObjectId a StorageItem may get
    Folders,        \* the items with isDirectory = true (never updated)
    StorageOf,      \* the storageId of each item (never updated)
    Handlers,       \* requests the service may be working on
    MaxInFlight,    \* handlers and purges that may be under way together
    MaxRequests,    \* bound: requests started in a behaviour
    Root,           \* parentId = null
    Original        \* newParentId left out of a restore request

ASSUME TreeAssumption ==
    /\ Folders \subseteq Items
    /\ Root \notin Items
    /\ Original \notin Items \cup {Root}
    /\ IsFiniteSet(Handlers)
    /\ MaxInFlight \in Nat \ {0}
    /\ MaxRequests \in Nat

VARIABLES
    status,     \* deletedAt and permanentDeleteAt of each item
    parent,     \* parentId of each item
    call,       \* what each handler is doing
    purge,      \* what the purge cron is doing
    requests    \* requests started so far

vars == <<status, parent, call, purge, requests>>

(***************************************************************************)
(* The document of an item:                                                *)
(*   "unused"  the id was not given out yet                                *)
(*   "live"    deletedAt = null                                            *)
(*   "trash"   deletedAt set, permanentDeleteAt = null                     *)
(*   "waiting" permanentDeleteAt is still to come                          *)
(*   "due"     permanentDeleteAt has passed                                *)
(*   "gone"    the document was deleted                                    *)
(***************************************************************************)
Trashed == {"trash", "waiting", "due"}
Stored  == Trashed \cup {"live"}
Status  == Stored \cup {"unused", "gone"}

Exists(i)   == i \in Items /\ status[i] \in Stored
IsLive(i)   == i \in Items /\ status[i] = "live"
IsTrash(i)  == i \in Items /\ status[i] \in Trashed
LiveDir(i)  == i \in Folders /\ IsLive(i)
Children(i) == {c \in Items : Exists(c) /\ parent[c] = i}

Idle == [op |-> "none", pc |-> "idle", item |-> Root, to |-> Root,
         at |-> Root, ids |-> {}, todo |-> {}]

Local == [op  : {"none", "create", "move", "delete", "restore", "schedule"},
          pc  : {"idle", "target", "walk", "save", "collect"},
          item: Items \cup {Root},            \* the request's itemId
          to  : Items \cup {Root, Original},  \* parentId or newParentId
          at  : Items \cup {Root},            \* the item read next
          ids : SUBSET Items,                 \* ids collected so far
          todo: SUBSET Items]                 \* folders to be expanded

Call == {c \in Local : /\ c.op # "none" => c.item \in Items
                       /\ c.to = Original => c.op = "restore"}

Resting == [pc |-> "idle", roots |-> {}, ids |-> {}, todo |-> {}]

PurgeJob == [pc    : {"idle", "pick", "collect"},
             roots : SUBSET Items,
             ids   : SUBSET Items,
             todo  : SUBSET Items]

Busy     == {h \in Handlers : call[h] # Idle}
InFlight == Cardinality(Busy) + (IF purge = Resting THEN 0 ELSE 1)

(* Any forest of live items the users may have built; the storage is       *)
(* otherwise new.                                                          *)
Init ==
    /\ status \in [Items -> {"unused", "live"}]
    /\ parent \in [Items -> Folders \cup {Root}]
    /\ \A i \in Items :
          parent[i] # Root => /\ IsLive(i)
                              /\ IsLive(parent[i])
                              /\ StorageOf[parent[i]] = StorageOf[i]
    /\ \A S \in SUBSET Items : S # {} => ~\A i \in S : parent[i] \in S
    /\ call = [h \in Handlers |-> Idle]
    /\ purge = Resting
    /\ requests = 0

-----------------------------------------------------------------------------
(* Beginning and ending a request.                                         *)

Begin(h, c) ==
    /\ call[h] = Idle
    /\ InFlight < MaxInFlight
    /\ requests < MaxRequests
    /\ call' = [call EXCEPT ![h] = c]
    /\ requests' = requests + 1
    /\ UNCHANGED <<status, parent, purge>>

Goto(h, c) ==
    /\ call' = [call EXCEPT ![h] = c]
    /\ UNCHANGED <<purge, requests>>

Finish(h) == Goto(h, Idle)

At(h, op, pc) == call[h].op = op /\ call[h].pc = pc

SlipUpsert(ids, s) ==      \* with upsert: true
    status' = [i \in Items |-> IF i \in ids THEN s ELSE status[i]]

(* updateMany({_id: {$in: ids}}): ids that are gone match nothing.         *)
UpdateMany(ids, s) ==
    status' = [i \in Items |-> IF i \in ids /\ Exists(i) THEN s ELSE status[i]]

-----------------------------------------------------------------------------
(* createItem: read the parent folder, then insert.  The new document's id *)
(* is drawn with the request.                                              *)

BeginCreate(h, i, to) ==
    /\ status[i] = "unused"
    /\ \A g \in Handlers : call[g].item # i    \* ids are never given out twice
    /\ to # Root => LiveDir(to) /\ StorageOf[to] = StorageOf[i]
    /\ Begin(h, [Idle EXCEPT !.op = "create", !.pc = "save",
                             !.item = i, !.to = to])

CreateInsert(h) ==
    LET c == call[h] IN
    /\ At(h, "create", "save")
    /\ status' = [status EXCEPT ![c.item] = "live"]
    /\ parent' = [parent EXCEPT ![c.item] = c.to]
    /\ Finish(h)

-----------------------------------------------------------------------------
(* moveItem: read the item, read the target, walk from the target to the   *)
(* root one read at a time, save.                                          *)

BeginMove(h, i, to) ==
    /\ IsLive(i)
    /\ to \notin {parent[i], i}
    /\ Begin(h, [Idle EXCEPT !.op = "move", !.item = i, !.to = to, !.at = to,
                             !.pc = IF to = Root THEN "save" ELSE "target"])

MoveTarget(h) ==
    LET c == call[h] IN
    /\ At(h, "move", "target")
    /\ IF LiveDir(c.to) /\ StorageOf[c.to] = StorageOf[c.item]
         THEN Goto(h, [c EXCEPT !.pc = IF c.item \in Folders THEN "walk"
                                                              ELSE "save"])
         ELSE Finish(h)
    /\ UNCHANGED <<status, parent>>

SlipMoveWalk(h) ==         \* looks at the target only, not at its ancestors
    LET c == call[h] IN
    /\ At(h, "move", "walk")
    /\ IF c.at = c.item THEN Finish(h) ELSE Goto(h, [c EXCEPT !.pc = "save"])
    /\ UNCHANGED <<status, parent>>

MoveWalk(h) ==
    LET c == call[h] IN
    /\ At(h, "move", "walk")
    /\ \/ /\ c.at = c.item
          /\ Finish(h)
       \/ /\ c.at # c.item
          /\ IF Exists(c.at) /\ parent[c.at] # Root
               THEN Goto(h, [c EXCEPT !.at = parent[c.at]])
               ELSE Goto(h, [c EXCEPT !.pc = "save"])
    /\ UNCHANGED <<status, parent>>

(* save() writes parentId only, and throws when the document is gone.      *)
MoveSave(h) ==
    LET c == call[h] IN
    /\ At(h, "move", "save")
    /\ parent' = IF Exists(c.item) THEN [parent EXCEPT ![c.item] = c.to]
                                   ELSE parent
    /\ Finish(h)
    /\ UNCHANGED status

-----------------------------------------------------------------------------
(* getChildrenIdsRecursively: one read per folder; children in the trash   *)
(* are read too.  On a cycle of folders it never ends.                     *)

SlipExpand(job, d) ==      \* leaves out the children in the trash
    [job EXCEPT !.ids  = @ \cup {c \in Children(d) : IsLive(c)},
                !.todo = (@ \ {d}) \cup {c \in Children(d) \cap Folders : IsLive(c)}]

SlipExpandSelf(job, d) ==  \* reads {$or: [{parentId}, {_id: parentId}]}
    [job EXCEPT !.ids  = @ \cup Children(d),
                !.todo = @ \cup (Children(d) \cap Folders)]

Expand(job, d) ==
    [job EXCEPT !.ids  = @ \cup Children(d),
                !.todo = (@ \ {d}) \cup (Children(d) \cap Folders)]

Collect(h) ==
    /\ call[h].pc = "collect"
    /\ \E d \in call[h].todo : Goto(h, Expand(call[h], d))
    /\ UNCHANGED <<status, parent>>

Collected(h, op) == At(h, op, "collect") /\ call[h].todo = {}

-----------------------------------------------------------------------------
(* softDelete: any stored item, one already in the trash included.         *)

BeginDelete(h, i) ==
    /\ Exists(i)
    /\ Begin(h, [Idle EXCEPT !.op = "delete", !.pc = "collect", !.item = i,
                             !.ids = {i}, !.todo = {i}])

SlipDeleteWrite(h) ==      \* forgets the descendants
    /\ Collected(h, "delete")
    /\ UpdateMany({call[h].item}, "trash")
    /\ Finish(h)
    /\ UNCHANGED parent

DeleteWrite(h) ==
    /\ Collected(h, "delete")
    /\ UpdateMany(call[h].ids, "trash")
    /\ Finish(h)
    /\ UNCHANGED parent

-----------------------------------------------------------------------------
(* restore: any stored item, a live one included.  The target is read and  *)
(* checked, the root is written, then its descendants.                     *)

BeginRestore(h, i, to) ==
    LET at == IF to = Original THEN parent[i] ELSE to IN
    /\ Exists(i)
    /\ Begin(h, [Idle EXCEPT !.op = "restore", !.item = i, !.to = to, !.at = at,
                             !.pc = IF at = Root THEN "save" ELSE "target"])

RestoreTarget(h) ==
    LET c == call[h] IN
    /\ At(h, "restore", "target")
    /\ IF IsLive(c.at) /\ (c.to # Original => c.at \in Folders)
         THEN Goto(h, [c EXCEPT !.pc = "save"])
         ELSE Finish(h)
    /\ UNCHANGED <<status, parent>>

RestoreRoot(h) ==
    LET c == call[h] IN
    /\ At(h, "restore", "save")
    /\ UpdateMany({c.item}, "live")
    /\ parent' = IF Exists(c.item) /\ c.to # Original
                   THEN [parent EXCEPT ![c.item] = c.to] ELSE parent
    /\ Goto(h, [c EXCEPT !.pc = "collect", !.todo = {c.item}])

RestoreChildren(h) ==
    /\ Collected(h, "restore")
    /\ UpdateMany(call[h].ids, "live")
    /\ Finish(h)
    /\ UNCHANGED parent

-----------------------------------------------------------------------------
(* deletePermanent: the item must be in the trash; it and all it holds are *)
(* scheduled for the purge, 21 days ahead.                                 *)

SlipBeginSchedule(h, i) == \* without the check that the item is in the trash
    /\ Exists(i)
    /\ Begin(h, [Idle EXCEPT !.op = "schedule", !.pc = "collect", !.item = i,
                             !.ids = {i}, !.todo = {i}])

BeginSchedule(h, i) ==
    /\ IsTrash(i)
    /\ Begin(h, [Idle EXCEPT !.op = "schedule", !.pc = "collect", !.item = i,
                             !.ids = {i}, !.todo = {i}])

ScheduleWrite(h) ==
    /\ Collected(h, "schedule")
    /\ UpdateMany(call[h].ids, "waiting")
    /\ Finish(h)
    /\ UNCHANGED parent

(* The retention passes.  Requests take seconds and the retention is 21    *)
(* days, so no request is under way when it does.                          *)
RetentionElapses ==
    /\ InFlight = 0
    /\ \E i \in Items : status[i] = "waiting"
    /\ status' = [i \in Items |-> IF status[i] = "waiting" THEN "due" ELSE status[i]]
    /\ UNCHANGED <<parent, call, purge, requests>>

-----------------------------------------------------------------------------
(* purgeStorageItemsPermanently, run by a cron: one query for the items    *)
(* that are due, then hardDelete of each topmost one with all below it.    *)

SlipPurgeScan ==           \* a permanentDeleteAt of null counts as past
    LET due == {i \in Items : Exists(i) /\ status[i] # "waiting"} IN
    /\ purge = Resting
    /\ InFlight < MaxInFlight
    /\ due # {}
    /\ purge' = [Resting EXCEPT !.pc = "pick",
                                !.roots = {i \in due : parent[i] \notin due}]
    /\ UNCHANGED <<status, parent, call, requests>>

PurgeScan ==
    LET due == {i \in Items : status[i] = "due"} IN
    /\ purge = Resting
    /\ InFlight < MaxInFlight
    /\ due # {}
    /\ purge' = [Resting EXCEPT !.pc = "pick",
                                !.roots = {i \in due : parent[i] \notin due}]
    /\ UNCHANGED <<status, parent, call, requests>>

PurgePick ==
    /\ purge.pc = "pick"
    /\ \/ /\ purge.roots = {}
          /\ purge' = Resting
       \/ \E r \in purge.roots :
            purge' = [pc |-> "collect", roots |-> purge.roots \ {r},
                      ids |-> {r}, todo |-> {r}]
    /\ UNCHANGED <<status, parent, call, requests>>

PurgeCollect ==
    /\ purge.pc = "collect"
    /\ \E d \in purge.todo : purge' = Expand(purge, d)
    /\ UNCHANGED <<status, parent, call, requests>>

PurgeDelete ==
    /\ purge.pc = "collect"
    /\ purge.todo = {}
    /\ UpdateMany(purge.ids, "gone")
    /\ purge' = [Resting EXCEPT !.pc = "pick", !.roots = purge.roots]
    /\ UNCHANGED <<parent, call, requests>>

-----------------------------------------------------------------------------
Start(h) ==
    \/ \E i \in Items, to \in Items \cup {Root} :
          BeginCreate(h, i, to) \/ BeginMove(h, i, to)
    \/ \E i \in Items : BeginDelete(h, i)
    \/ \E i \in Items, to \in Items \cup {Root, Original} : BeginRestore(h, i, to)
    \/ \E i \in Items : BeginSchedule(h, i)

Continue(h) ==
    \/ CreateInsert(h)
    \/ MoveTarget(h) \/ MoveWalk(h) \/ MoveSave(h)
    \/ Collect(h)
    \/ DeleteWrite(h)
    \/ RestoreTarget(h) \/ RestoreRoot(h) \/ RestoreChildren(h)
    \/ ScheduleWrite(h)

PurgeStep == PurgePick \/ PurgeCollect \/ PurgeDelete

Next ==
    \/ \E h \in Handlers : Start(h) \/ Continue(h)
    \/ RetentionElapses
    \/ PurgeScan
    \/ PurgeStep

Spec == Init /\ [][Next]_vars

(* Node runs every handler it has started to its end; users need not ask.  *)
FairSpec ==
    /\ Spec
    /\ \A h \in Handlers : WF_vars(Continue(h))
    /\ WF_vars(PurgeStep)
    /\ WF_vars(PurgeScan)
-----------------------------------------------------------------------------
(* Every variable keeps the shape of the documents and of the handlers'    *)
(* local variables.                                                        *)
TypeOK ==
    /\ status \in [Items -> Status]
    /\ parent \in [Items -> Items \cup {Root}]
    /\ call \in [Handlers -> Call]
    /\ purge \in PurgeJob
    /\ requests \in 0..MaxRequests

(* No item of a folder in the trash is live: softDelete takes the whole    *)
(* subtree, and createItem, moveItem and restore refuse a folder in the    *)
(* trash ("Cannot create item inside deleted folder.").  Otherwise a live  *)
(* item hangs where no listing reaches it, until the purge destroys it.    *)
TrashClosed ==
    \A i \in Items : Exists(i) /\ IsTrash(parent[i]) => IsTrash(i)

(* The parent of a stored item is stored: the purge leaves no orphan.      *)
NoOrphan ==
    \A i \in Items : Exists(i) => parent[i] = Root \/ Exists(parent[i])

(* The parent of an item is a folder, whatever was moved, restored or      *)
(* purged meanwhile: a child of a file could never be listed.              *)
ParentIsFolder ==
    \A i \in Items : parent[i] \in Folders \cup {Root}

(* Folders do not contain themselves: every set of items has one whose     *)
(* parent is outside of it.                                                *)
Acyclic ==
    \A S \in SUBSET Items : S # {} => \E i \in S : parent[i] \notin S

(* moveItem never puts a folder below itself ("Cannot move folder into its *)
(* own subdirectory."), provided that the tree had no cycle before.        *)
MoveKeepsAcyclic ==
    [][Acyclic /\ (\E h \in Handlers : MoveSave(h)) => Acyclic']_vars

(* No request makes a folder its own descendant but the restore of an item *)
(* that is not in the trash: a move walks up from its target, and what a   *)
(* restore takes out of the trash lies above nothing that is live.         *)
RestoreOfLive == \E h \in Handlers : RestoreRoot(h) /\ IsLive(call[h].item)
StaysAcyclic  == [][Acyclic /\ ~RestoreOfLive => Acyclic']_vars

(* What serial requests keep true between two awaits; the inductive        *)
(* invariant of the proofs.                                                *)
Tree == ParentIsFolder /\ NoOrphan /\ TrashClosed

(* Where a restore puts the item it restores.                              *)
RestoreAt(c) == IF c.to = Original THEN parent[c.item] ELSE c.to

(* Only folders still to be expanded have children outside of all.         *)
ClosedBut(all, todo) ==
    todo \subseteq all /\ \A d \in all \ todo : Children(d) \subseteq all

HandlerInv(c) ==
    /\ c.op = "create" =>
          /\ c.pc = "save" /\ status[c.item] = "unused"
          /\ c.to = Root \/ LiveDir(c.to)
    /\ c.op = "move" =>
          /\ c.pc # "collect" /\ IsLive(c.item)
          /\ c.pc = "target" \/ c.to = Root \/ LiveDir(c.to)
    /\ c.op \in {"delete", "schedule"} =>
          /\ c.pc = "collect" /\ ClosedBut(c.ids, c.todo)
          /\ \A i \in c.ids : IsTrash(i) \/ (c.op = "delete" /\ IsLive(i))
    /\ c.op = "restore" =>
          /\ Exists(c.item)
          /\ c.pc # "collect" => c.ids = {}
          /\ c.pc = "target" => c.at = RestoreAt(c)
          /\ c.pc = "save" => \/ RestoreAt(c) = Root
                              \/ /\ IsLive(RestoreAt(c))
                                 /\ c.to = Original \/ LiveDir(c.to)
          /\ c.pc = "collect" =>
                /\ IsLive(c.item) /\ ClosedBut(c.ids \cup {c.item}, c.todo)
                /\ \A i \in c.ids : Exists(i) /\ parent[i] \in c.ids \cup {c.item}

(* A set of items that the move of c.item below c.to would close on itself.*)
Closes(c, S) == c.to \in S /\ \A j \in S \ {c.item} : parent[j] \in S

(* The walk of moveItem stays inside every such set and so finds c.item.   *)
WalkInv(c) ==
    c.op = "move" /\ c.to # Root =>
        /\ c.pc = "target" => c.at = c.to
        /\ c.pc = "walk" => /\ Exists(c.at)
                            /\ \A S \in SUBSET Items : Closes(c, S) => c.at \in S
        /\ c.pc = "save" => c.to \in Folders
        /\ c.pc = "save" /\ c.item \in Folders =>
              \A S \in SUBSET Items : ~Closes(c, S)

PurgeInv ==
    /\ \A i \in purge.roots \cup purge.ids : IsTrash(i) \/ status[i] = "gone"
    /\ ClosedBut(purge.ids, purge.todo)

(* At most one request or purge is under way.                              *)
Alone ==
    /\ \A g, h \in Handlers : call[g] # Idle /\ call[h] # Idle => g = h
    /\ purge # Resting => \A h \in Handlers : call[h] = Idle

SerialInv ==
    /\ TypeOK /\ Tree /\ Alone /\ PurgeInv
    /\ \A h \in Handlers : HandlerInv(call[h])

(* The purge takes nothing that is live: an item is in the trash when its  *)
(* document is deleted ("Item must be in trash before permanent            *)
(* deletion.").                                                            *)
LiveNeverDestroyed ==
    [][\A i \in Items : status[i] = "live" => status'[i] # "gone"]_vars

(* A handler that still holds an item the purge has deleted does not bring *)
(* its document back.                                                      *)
GoneForGood ==
    [][\A i \in Items : status[i] = "gone" => status'[i] = "gone"]_vars

(* Requests served one at a time make the storage the simple trash bin of  *)
(* module TrashBin: whatever the tree looks like, the group of items that  *)
(* a request writes is one the abstract bin would have allowed.            *)
Bin == INSTANCE TrashBin
ImplementsBin == Bin!Spec

(* While no folder contains itself every request and every purge ends: the *)
(* walks over the tree are finite.                                         *)
WalksEnd ==
    []Acyclic => /\ \A h \in Handlers : (call[h] # Idle) ~> (call[h] = Idle)
                 /\ (purge # Resting) ~> (purge = Resting)
=============================================================================
