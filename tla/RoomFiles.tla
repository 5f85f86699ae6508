------------------------------ MODULE RoomFiles ------------------------------
(***************************************************************************)
(* The files of a room in the file service: the ids in the room document,  *)
(* the File documents they refer to, and the copy of the listing in Redis. *)
(* A request is a chain of awaited calls and may stop after any of them.   *)
(*                                                                         *)
(* Removing files from a room reads the document and saves it back, under  *)
(* the version check of mongoose; adding one is a $push, which leaves the  *)
(* version alone.                                                          *)
(*                                                                         *)
(* The operators named Slip... are wrong variants of the definition that   *)
(* follows them; no action uses them.                                      *)
(***************************************************************************)
EXTENDS Naturals, FiniteSets

CONSTANTS
    Files,       \* files a room may get
    MaxRequests, \* bound: requests of a behaviour
    RemoveAlone  \* no bind and no purge runs while a remove does

ASSUME RoomAssumption ==
    /\ IsFiniteSet(Files)
    /\ MaxRequests \in Nat
    /\ RemoveAlone \in BOOLEAN

VARIABLES
    stored,   \* files with a File document
    renamed,  \* files that were given another storedName
    room,     \* whether the Room document is there
    list,     \* its files
    version,  \* its __v
    archived, \* its archived
    cache,    \* values of room:files:<id> in Redis, one or none
    req       \* what each request is doing

docvars == <<stored, renamed, room, list, version, archived>>
vars    == <<docvars, cache, req>>

Requests == 1..MaxRequests      \* numbered as they arrive

Idle == [op |-> "none", pc |-> "idle"]

(* A request knows its files and what it has read of the room; a removal   *)
(* whose files stay in the list has left them there.                       *)
Call(op, pc, fs) ==
    [op |-> op, pc |-> pc, files |-> fs, seen |-> {}, version |-> 0, left |-> FALSE, done |-> {}]

Op(r, op)   == req[r].op = op
At(r, pc)   == req[r].pc = pc
Goto(r, pc) == req' = [req EXCEPT ![r].pc = pc]
FilesOf(r)  == req[r].files
Active(r)   == req[r].pc \notin {"idle", "ok", "failed"}

Clash(op1, op2) == op1 = "remove" /\ op2 \in {"bind", "purge"}

Begin(r, c) ==
    /\ At(r, "idle") /\ \A q \in 1..(r - 1) : ~At(q, "idle")
    /\ RemoveAlone => \A q \in Requests : Active(q) =>
          ~Clash(c.op, req[q].op) /\ ~Clash(req[q].op, c.op)
    /\ req' = [req EXCEPT ![r] = c]
    /\ UNCHANGED <<docvars, cache>>

NotCached == {}

(* The room with its files filled in: ids without a document are dropped.  *)
Listing == {<<f, f \in renamed>> : f \in list \cap stored}

Init ==
    /\ stored = {} /\ renamed = {}
    /\ room = TRUE /\ list = {} /\ version = 0 /\ archived = FALSE
    /\ cache = NotCached
    /\ req = [r \in Requests |-> Idle]

-----------------------------------------------------------------------------
(* confirmUpload for a file of the room.                                   *)

BeginBind(r, f) ==
    /\ f \notin stored
    /\ \A q \in Requests : ~Op(q, "none") => f \notin FilesOf(q)
    /\ Begin(r, Call("bind", "make", {f}))

CreateFileMeta(r) ==
    /\ At(r, "make")
    /\ stored' = stored \cup FilesOf(r)
    /\ Goto(r, "push")
    /\ UNCHANGED <<renamed, room, list, version, archived, cache>>

SlipBindFileToRoom(r) ==   \* $set for $push
    /\ At(r, "push")
    /\ list' = IF room THEN FilesOf(r) ELSE list
    /\ Goto(r, "flush")
    /\ UNCHANGED <<stored, renamed, room, version, archived, cache>>

BindFileToRoom(r) ==
    /\ At(r, "push")
    /\ list' = IF room THEN list \cup FilesOf(r) ELSE list
    /\ Goto(r, "flush")
    /\ UNCHANGED <<stored, renamed, room, version, archived, cache>>

InvalidateRoomCache(r) ==
    /\ At(r, "flush")
    /\ cache' = NotCached
    /\ Goto(r, IF Op(r, "remove") THEN "delete" ELSE "ok")
    /\ UNCHANGED docvars

-----------------------------------------------------------------------------
(* The ids a client may have seen: those the room lists, and those of      *)
(* confirms that were answered.  Items of a storage are made after that.   *)
Bound     == UNION {FilesOf(r) : r \in {q \in Requests : Op(q, "bind") /\ At(q, "ok")}}
Known(op) == IF op = "remove" THEN Bound \cup list ELSE Bound

(* hardDeleteFiles, for users of the room (with its id) and for the purge  *)
(* of a storage (without).                                                 *)

(* Of the ids one at least must have a document.                           *)
Removable(op, fs) == fs \subseteq Known(op) /\ fs \cap stored # {}

BeginHardDelete(r, op, fs) ==
    /\ Removable(op, fs)
    /\ Begin(r, Call(op, IF op = "remove" THEN "read" ELSE "pull", fs))

(* The id of another room: its list does not hold the files and is not     *)
(* written, nor is the list of their own room.                             *)
BeginDeleteElsewhere(r, fs) ==
    /\ Removable("remove", fs)
    /\ Begin(r, Call("remove", "elsewhere", fs))

(* removeFilesFromRoom reads the room.                                     *)
ReadRoom(r) ==
    /\ At(r, "read")
    /\ req' = IF room /\ FilesOf(r) \cap list # {}
                THEN [req EXCEPT ![r].pc = "save", ![r].seen = list, ![r].version = version]
                ELSE [req EXCEPT ![r].pc = "delete"]
    /\ UNCHANGED <<docvars, cache>>

LeaveListed(r) == req' = [req EXCEPT ![r].pc = "delete", ![r].left = TRUE]

ReadOtherRoom(r) ==
    /\ At(r, "elsewhere")
    /\ LeaveListed(r)
    /\ UNCHANGED <<docvars, cache>>

SlipSaveRoom(r) ==         \* saves the list as it was read
    /\ At(r, "save")
    /\ IF room /\ version = req[r].version
         THEN /\ list' = req[r].seen
              /\ version' = version + 1
              /\ Goto(r, "flush")
         ELSE /\ LeaveListed(r)
              /\ UNCHANGED <<list, version>>
    /\ UNCHANGED <<stored, renamed, room, archived, cache>>

(* The whole array is saved, if no other save came first.                  *)
SaveRoom(r) ==
    /\ At(r, "save")
    /\ IF room /\ version = req[r].version
         THEN /\ list' = req[r].seen \ FilesOf(r)
              /\ version' = version + 1
              /\ Goto(r, "flush")
         ELSE /\ LeaveListed(r)
              /\ UNCHANGED <<list, version>>
    /\ UNCHANGED <<stored, renamed, room, archived, cache>>

(* An error of removeFilesFromRoom, be it of the read, the save or the     *)
(* cache, is logged, and the deletion goes on.                             *)
LogRemoveError(r) ==
    /\ \/ (At(r, "read") \/ At(r, "save")) /\ LeaveListed(r)
       \/ At(r, "flush") /\ Op(r, "remove") /\ Goto(r, "delete")
    /\ UNCHANGED <<docvars, cache>>

PullFiles(r) ==
    /\ At(r, "pull")
    /\ list' = list \ FilesOf(r)
    /\ Goto(r, "delete")
    /\ UNCHANGED <<stored, renamed, room, version, archived, cache>>

DeleteMany(r) ==
    /\ At(r, "delete")
    /\ stored' = stored \ FilesOf(r)
    /\ Goto(r, "ok")
    /\ UNCHANGED <<renamed, room, list, version, archived, cache>>

-----------------------------------------------------------------------------
(* updateFile gives a file of the room another name.                       *)

BeginUpdate(r, f) ==
    /\ room /\ f \in list
    /\ Begin(r, Call("update", "write", {f}))

WriteName(r) ==
    /\ At(r, "write")
    /\ renamed' = renamed \cup FilesOf(r)
    /\ Goto(r, "flush")
    /\ UNCHANGED <<stored, room, list, version, archived, cache>>

-----------------------------------------------------------------------------
(* getFilesByRoomID answers from the cache, or from the documents, and     *)
(* then fills the cache for two minutes.                                   *)

Hit == cache # NotCached

BeginList(r) ==
    /\ ~Hit
    /\ Begin(r, Call("list", "query", {}))

QueryRoom(r) ==
    /\ At(r, "query")
    /\ req' = IF room THEN [req EXCEPT ![r].pc = "set", ![r].seen = Listing]
                      ELSE [req EXCEPT ![r].pc = "failed"]
    /\ UNCHANGED <<docvars, cache>>

FillCache(r) ==
    /\ At(r, "set")
    /\ cache' = {req[r].seen}
    /\ Goto(r, "ok")
    /\ UNCHANGED docvars

SlipCacheExpires ==        \* entries without a TTL
    /\ Hit
    /\ UNCHANGED vars

CacheExpires ==
    /\ Hit
    /\ cache' = NotCached
    /\ UNCHANGED <<docvars, req>>

-----------------------------------------------------------------------------
(* archiveRoom copies files of the room into a new folder of a storage.    *)

BeginArchive(r, fs) ==
    /\ room /\ ~archived
    /\ fs \subseteq list \cap stored /\ fs # {}
    /\ Begin(r, Call("archive", "copy", fs))

(* Some or all of the files, as a user of room and storage asks for.       *)
ArchiveRoom(r) == \E fs \in SUBSET Files : BeginArchive(r, fs)

(* The copies are made side by side; the first that fails fails them all,  *)
(* and those made stay.                                                    *)
CopyFile(r, f) ==
    /\ At(r, "copy")
    /\ f \in FilesOf(r) \ req[r].done
    /\ req' = IF f \in stored THEN [req EXCEPT ![r].done = @ \cup {f}]
                              ELSE [req EXCEPT ![r].pc = "failed"]
    /\ UNCHANGED <<docvars, cache>>

SlipMarkArchived(r) ==     \* does not wait for the copies
    /\ At(r, "copy")
    /\ archived' = (archived \/ room)
    /\ Goto(r, "ok")
    /\ UNCHANGED <<stored, renamed, room, list, version, cache>>

MarkArchived(r) ==
    /\ At(r, "copy")
    /\ req[r].done = FilesOf(r)
    /\ archived' = (archived \/ room)
    /\ Goto(r, "ok")
    /\ UNCHANGED <<stored, renamed, room, list, version, cache>>

-----------------------------------------------------------------------------
(* A user deletes the room, or the TTL index does; its files stay.         *)
DeleteRoom ==
    /\ room
    /\ room' = FALSE
    /\ list' = {}
    /\ UNCHANGED <<stored, renamed, version, archived, cache, req>>

(* A call whose error ends the request fails, or the service stops.        *)
Fail(r) ==
    /\ Active(r)
    /\ Goto(r, "failed")
    /\ UNCHANGED <<docvars, cache>>

Start(r) ==
    \/ \E f \in Files : BeginBind(r, f) \/ BeginUpdate(r, f)
    \/ \E fs \in SUBSET Files :
          \/ BeginHardDelete(r, "remove", fs) \/ BeginHardDelete(r, "purge", fs)
          \/ BeginDeleteElsewhere(r, fs)
    \/ BeginList(r)
    \/ ArchiveRoom(r)

Continue(r) ==
    \/ CreateFileMeta(r) \/ BindFileToRoom(r) \/ InvalidateRoomCache(r)
    \/ ReadRoom(r) \/ ReadOtherRoom(r) \/ SaveRoom(r) \/ LogRemoveError(r)
    \/ PullFiles(r) \/ DeleteMany(r) \/ WriteName(r)
    \/ QueryRoom(r) \/ FillCache(r)
    \/ (\E f \in Files : CopyFile(r, f)) \/ MarkArchived(r)

Next ==
    \/ \E r \in Requests : Start(r) \/ Continue(r) \/ Fail(r)
    \/ CacheExpires
    \/ DeleteRoom

Spec == Init /\ [][Next]_vars

(* Node goes on with every request, and Redis drops what has expired.      *)
Fairness == WF_vars(CacheExpires) /\ \A r \in Requests : WF_vars(Continue(r))

FairSpec == Spec /\ Fairness

-----------------------------------------------------------------------------
(* The documents and local variables keep their shape.                     *)
TypeOK ==
    /\ stored \subseteq Files /\ renamed \subseteq Files /\ list \subseteq Files
    /\ room \in BOOLEAN /\ archived \in BOOLEAN
    /\ version \in Nat
    /\ cache \subseteq SUBSET (Files \X BOOLEAN) /\ Cardinality(cache) <= 1
    /\ \A r \in Requests : req[r] = Idle \/ FilesOf(r) \subseteq Files

Doomed == UNION {FilesOf(r) : r \in {q \in Requests : Op(q, "remove") \/ Op(q, "purge")}}

(* A file that was added to the room is in its list for as long as nobody  *)
(* asked to remove it ("Retrieves all files associated with a specific     *)
(* room").                                                                 *)
NothingLost == room => Bound \ Doomed \subseteq list

(* While no purge and no bind runs beside a removal, the list names a file *)
(* that is gone only if the removal of that file named another room or     *)
(* could not write the list: files are made before they are listed, leave  *)
(* the list before they are deleted, and a list that another removal saved *)
(* first is not saved over.                                                *)
Left == UNION {FilesOf(r) : r \in {q \in Requests : Op(q, "remove") /\ req[q].left}}

ListIsReal == list \subseteq stored \cup Left

(* A room is marked as archived only when every file that was asked for    *)
(* has been copied.                                                        *)
ArchiveIsComplete ==
    archived => \E r \in Requests :
        Op(r, "archive") /\ At(r, "ok") /\ req[r].done = FilesOf(r) /\ FilesOf(r) # {}

(* Once the requests have ended, the cached listing comes to show just the *)
(* files of the room, by their last names.                                 *)
ListingSettles == <>[](room => cache \subseteq {Listing})
=============================================================================
