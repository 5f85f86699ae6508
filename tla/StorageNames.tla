----------------------------- MODULE StorageNames -----------------------------
(***************************************************************************)
(* The names of the items of a storage: rename, and copy, which puts a     *)
(* copy of an item and of all below it under another folder and gives each *)
(* new item a name no live item of that folder has (StorageItemCommand     *)
(* Service.rename and StorageItemCopyService).  The requests of StorageTree *)
(* go on around them; only createItem gives names, moves and restores keep *)
(* them.                                                                   *)
(***************************************************************************)
EXTENDS StorageTree, Sequences

CONSTANTS
    UserNames,  \* the names that users type
    Editors     \* rename and copy requests the service may be working on

(* There are finitely many ids, so a batch of them has a size.             *)
ASSUME NamesAssumption == IsFiniteSet(Items)

VARIABLES
    name,       \* name of each item
    edit        \* what each editor is doing

allvars == <<vars, name, edit>>

(* A name is a stem followed by the marks that copies added to it:         *)
(* "x (copy)" and "x (copy 2)" at the root of a copy, "x (2)" below it.    *)
CopyMark(n) == [kind |-> "copy", n |-> n]
TwinMark(n) == [kind |-> "twin", n |-> n]

(* The nth name generateUniqueName tries.                                  *)
Candidate(base, isRootCopy, n) ==
    IF isRootCopy THEN Append(base, CopyMark(n))
    ELSE IF n = 0 THEN base ELSE Append(base, TwinMark(n))

LiveChildren(d) == {c \in Items : IsLive(c) /\ parent[c] = d}

(* Whether an item of storage s in folder d, other than `but', has name n. *)
(* A restore may have put items of other storages into the folder: no      *)
(* query for a name sees those.                                            *)
Taken(s, d, n, but) ==
    \E c \in LiveChildren(d) : StorageOf[c] = s /\ name[c] = n /\ c # but

NoEdit == [op |-> "none"]
Editing == Cardinality({e \in Editors : edit[e] # NoEdit})

NamesInit ==
    /\ Init
    /\ name \in [Items -> UserNames]
    /\ edit = [e \in Editors |-> NoEdit]

(* A request on n items.                                                   *)
BeginEdit(e, job, n) ==
    /\ edit[e] = NoEdit
    /\ InFlight + Editing < MaxInFlight
    /\ requests + n <= MaxRequests
    /\ edit' = [edit EXCEPT ![e] = job]
    /\ requests' = requests + n
    /\ UNCHANGED <<status, parent, call, purge, name>>

Step(e, job) ==
    /\ edit' = [edit EXCEPT ![e] = job]
    /\ UNCHANGED <<call, purge, requests>>

Editor(e, op, pc) == edit[e].op = op /\ edit[e].pc = pc

-----------------------------------------------------------------------------
(* rename: read the item, look for a sibling of that name, save.           *)

BeginRename(e, i, new) ==
    /\ IsLive(i)
    /\ BeginEdit(e, [op |-> "rename", pc |-> "check", item |-> i,
                     dir |-> parent[i], new |-> new], 1)

SlipRenameCheck(e) ==      \* looks in the root folder only
    LET job == edit[e] IN
    /\ Editor(e, "rename", "check")
    /\ Step(e, IF Taken(StorageOf[job.item], Root, job.new, job.item)
                 THEN NoEdit ELSE [job EXCEPT !.pc = "save"])
    /\ UNCHANGED <<status, parent, name>>

RenameCheck(e) ==
    LET job == edit[e] IN
    /\ Editor(e, "rename", "check")
    /\ Step(e, IF Taken(StorageOf[job.item], job.dir, job.new, job.item)
                 THEN NoEdit ELSE [job EXCEPT !.pc = "save"])
    /\ UNCHANGED <<status, parent, name>>

RenameSave(e) ==
    LET job == edit[e] IN
    /\ Editor(e, "rename", "save")
    /\ name' = IF Exists(job.item) THEN [name EXCEPT ![job.item] = job.new] ELSE name
    /\ Step(e, NoEdit)
    /\ UNCHANGED <<status, parent>>

-----------------------------------------------------------------------------
(* copyItem: read the source, read the target, find a name, copy the bytes *)
(* of a file, insert the copy; then the same for every live child, folder  *)
(* by folder.  `cur' is the document to be copied as it was read, `dst' the *)
(* folder its copy goes to, `n' the name tried, `todo' the stack of the    *)
(* recursion and `made' what was copied to what.  `storage' is the         *)
(* storageId of the request: every copy gets it, also the copy of an item  *)
(* of another storage that was found below the source.                     *)

Doc(i) == [id |-> i, name |-> name[i]]

(* A copy of item i to folder to, after which the items more are copied.   *)
(* The storageId must be that of i.                                        *)
CopyJob(i, to, more) ==
    [op |-> "copy", pc |-> IF to = Root THEN "name" ELSE "target", cur |-> Doc(i),
     dst |-> to, n |-> 0, todo |-> <<>>, made |-> {}, to |-> to, more |-> more,
     storage |-> StorageOf[i]]

(* A batch between two of its items.                                       *)
Picking(s, to, more) == [op |-> "copy", pc |-> "pick", to |-> to, more |-> more,
                         made |-> {}, storage |-> s]

(* What a copy that ended, well or not, leaves its request to do.          *)
AfterCopy(job) == IF job.more = {} THEN NoEdit 
                  ELSE Picking(job.storage, job.to, job.more)

BeginCopy(e, i, to) ==
    /\ IsLive(i)
    /\ BeginEdit(e, CopyJob(i, to, {}), 1)

(* The next of a batch's items; one that is gone, or of another storage    *)
(* than the request's, is reported and left out.                           *)
PickCopy(e) ==
    LET job == edit[e] IN
    /\ Editor(e, "copy", "pick")
    /\ \E i \in job.more :
          Step(e, IF IsLive(i) /\ StorageOf[i] = job.storage
                    THEN CopyJob(i, job.to, job.more \ {i})
                    ELSE AfterCopy([job EXCEPT !.more = @ \ {i}]))
    /\ UNCHANGED <<status, parent, name>>

CopyTarget(e) ==
    LET job == edit[e] IN
    /\ Editor(e, "copy", "target")
    /\ Step(e, IF LiveDir(job.dst) /\ StorageOf[job.dst] = job.storage
                 THEN [job EXCEPT !.pc = "name"] ELSE AfterCopy(job))
    /\ UNCHANGED <<status, parent, name>>

NewName(job) == Candidate(job.cur.name, job.made = {}, job.n)

SlipCopyNameStuck(e) ==    \* forgets counter++
    LET job == edit[e] IN
    /\ Editor(e, "copy", "name")
    /\ Step(e, IF Taken(job.storage, job.dst, NewName(job), Root)
                 THEN job
                 ELSE [job EXCEPT !.pc = IF job.cur.id \in Folders THEN "insert"
                                                                   ELSE "file"])
    /\ UNCHANGED <<status, parent, name>>

CopyName(e) ==
    LET job == edit[e] IN
    /\ Editor(e, "copy", "name")
    /\ Step(e, IF Taken(job.storage, job.dst, NewName(job), Root)
                 THEN [job EXCEPT !.n = @ + 1]
                 ELSE [job EXCEPT !.pc = IF job.cur.id \in Folders THEN "insert"
                                                                   ELSE "file"])
    /\ UNCHANGED <<status, parent, name>>

(* fileService.copyFile makes a file of its own for the copy, or throws    *)
(* and leaves the copy as far as it got.                                   *)
CopyFile(e) ==
    /\ Editor(e, "copy", "file")
    /\ \/ Step(e, [edit[e] EXCEPT !.pc = "insert"])
       \/ Step(e, AfterCopy(edit[e]))
    /\ UNCHANGED <<status, parent, name>>

CopyInsert(e) ==
    LET job == edit[e] IN
    /\ Editor(e, "copy", "insert")
    /\ \E j \in Items :
          /\ status[j] = "unused"
          /\ \A h \in Handlers : call[h].item # j
          /\ j \in Folders <=> job.cur.id \in Folders
          /\ StorageOf[j] = job.storage
          /\ status' = [status EXCEPT ![j] = "live"]
          /\ parent' = [parent EXCEPT ![j] = job.dst]
          /\ name' = [name EXCEPT ![j] = NewName(job)]
          /\ Step(e, [job EXCEPT !.pc = IF j \in Folders THEN "read" ELSE "next",
                                 !.dst = IF j \in Folders THEN j ELSE @,
                                 !.made = @ \cup {<<job.cur.id, j>>}])

SlipCopyRead(e) ==         \* puts the children beside the folder's copy
    LET job == edit[e] IN
    /\ Editor(e, "copy", "read")
    /\ Step(e, [job EXCEPT !.pc = "next",
                           !.todo = <<[dst |-> parent[job.dst],
                                       kids |-> {Doc(c) : c \in LiveChildren(job.cur.id)}]>> \o @])
    /\ UNCHANGED <<status, parent, name>>

(* The live children of the folder just copied, as they are now.           *)
CopyRead(e) ==
    LET job == edit[e] IN
    /\ Editor(e, "copy", "read")
    /\ Step(e, [job EXCEPT !.pc = "next",
                           !.todo = <<[dst |-> job.dst,
                                       kids |-> {Doc(c) : c \in LiveChildren(job.cur.id)}]>> \o @])
    /\ UNCHANGED <<status, parent, name>>

CopyDone(e) == Editor(e, "copy", "next") /\ \A f \in 1..Len(edit[e].todo) :
                                                edit[e].todo[f].kids = {}

CopyNext(e) ==
    LET job == edit[e]
        top == Head(job.todo) IN
    /\ Editor(e, "copy", "next")
    /\ \/ CopyDone(e) /\ Step(e, AfterCopy(job))
       \/ /\ ~CopyDone(e)
          /\ IF top.kids = {}
               THEN Step(e, [job EXCEPT !.todo = Tail(@)])
               ELSE \E k \in top.kids :
                      Step(e, [job EXCEPT !.pc = "name", !.cur = k, !.n = 0,
                                          !.dst = top.dst,
                                          !.todo[1].kids = @ \ {k}])
    /\ UNCHANGED <<status, parent, name>>

-----------------------------------------------------------------------------
(* The routes of the main application.  Whether the caller may touch the   *)
(* items is the subject of Sharing.                                        *)

RenameItem(e) == \E i \in Items, n \in UserNames : BeginRename(e, i, n)

CopyItem(e) == \E i \in Items, to \in Items \cup {Root} : BeginCopy(e, i, to)

(* One copy after the other, whatever becomes of each.  What counts of the *)
(* ids a caller may send is which live items they are; with a storageId    *)
(* that none of them has nothing is copied.                                *)
BatchCopyItems(e) ==
    \E more \in SUBSET {i \in Items : IsLive(i)}, to \in Items \cup {Root} :
        /\ Cardinality(more) > 1
        /\ \E i \in more :
              BeginEdit(e, Picking(StorageOf[i], to, more), Cardinality(more))

StartEdit(e) == RenameItem(e) \/ CopyItem(e) \/ BatchCopyItems(e)

ContinueEdit(e) ==
    \/ RenameCheck(e) \/ RenameSave(e)
    \/ PickCopy(e) \/ CopyTarget(e) \/ CopyName(e) \/ CopyFile(e)
    \/ CopyInsert(e) \/ CopyRead(e) \/ CopyNext(e)

NamedInsert(h) ==
    /\ CreateInsert(h)
    /\ \E n \in UserNames : name' = [name EXCEPT ![call[h].item] = n]

TreeStep ==
    /\ \/ \E h \in Handlers : NamedInsert(h)
       \/ /\ \/ \E h \in Handlers :
                   Start(h) \/ (Continue(h) /\ ~At(h, "create", "save"))
             \/ RetentionElapses /\ Editing = 0
             \/ PurgeScan
             \/ PurgeStep
          /\ UNCHANGED name
    /\ InFlight' + Editing <= MaxInFlight
    /\ UNCHANGED edit

NamesNext == TreeStep \/ \E e \in Editors : StartEdit(e) \/ ContinueEdit(e)

NamesSpec == NamesInit /\ [][NamesNext]_allvars

(* Node runs every request it has started to its end.                      *)
FairNamesSpec == NamesSpec /\ \A e \in Editors : WF_allvars(ContinueEdit(e))

-----------------------------------------------------------------------------
(* Two live items of a folder and a storage with the same name.            *)
Clashes == {p \in Items \X Items : /\ p[1] # p[2]
                                   /\ IsLive(p[1]) /\ IsLive(p[2])
                                   /\ parent[p[1]] = parent[p[2]]
                                   /\ StorageOf[p[1]] = StorageOf[p[2]]
                                   /\ name[p[1]] = name[p[2]]}

(* A rename gives no item a name that another item of its folder and       *)
(* storage has ("An item with this name already exists in this folder."),  *)
(* and a copy is named unlike all others there, however many copies there  *)
(* are ("the copy will be automatically renamed").  Two items of different *)
(* storages, which only a restore brings into one folder, may come to have *)
(* the same name.                                                          *)
NamesStayUnique ==
    [][(\E e \in Editors : RenameSave(e) \/ CopyInsert(e)) => Clashes' \subseteq Clashes]_allvars

(* All live items of folder d have different names, whatever storage they  *)
(* are of.                                                                 *)
Differ(d) == \A a, b \in LiveChildren(d) : name[a] = name[b] => a = b

(* What lies live below item i: in every set that holds i and the live     *)
(* children of its members.                                                *)
Below(i) ==
    {j \in Items : \A S \in SUBSET Items :
        i \in S /\ (\A k \in S : LiveChildren(k) \subseteq S) => j \in S}

(* When a copy ends every live item of the source has one copy, and the    *)
(* copies hang together as the originals do, under their names wherever    *)
(* the names of the original folder were different ("all children are      *)
(* copied recursively").                                                   *)
Mirrors(root, made) ==
    /\ {p[1] : p \in made} = Below(root)
    /\ \A p, q \in made : p[1] = q[1] <=> p[2] = q[2]
    /\ \A p \in made : p[1] # root =>
          /\ <<parent[p[1]], parent[p[2]]>> \in made
          /\ Differ(parent[p[1]]) => name[p[2]] = name[p[1]]

CopyIsComplete ==
    \A e \in Editors : CopyDone(e) =>
        \E root \in Items : Mirrors(root, edit[e].made)

(* A copy to a folder outside of its source ends, however deep the source  *)
(* and however many names are taken, if the ids (a bound of the model) last. *)
Outside(e) ==
    /\ edit[e].op = "copy" /\ edit[e].pc # "pick"
    /\ edit[e].made = {} /\ edit[e].more = {}
    /\ edit[e].dst \notin Below(edit[e].cur.id)
    /\ \A K \in {Folders, Items \ Folders} :
          Cardinality(Below(edit[e].cur.id) \cap K)
             <= Cardinality({i \in K : /\ status[i] = "unused"
                                       /\ StorageOf[i] = edit[e].storage})

CopyEnds == \A e \in Editors : Outside(e) ~> (edit[e] = NoEdit)
=============================================================================
