------------------------------- MODULE Uploads -------------------------------
(***************************************************************************)
(* Uploads in three steps: the file service hands out a presigned URL and  *)
(* remembers a session, the client puts the bytes into S3, and a confirm   *)
(* makes a File document of the session and lists it in the session's room *)
(* or storage (UploadService of file-service).                             *)
(*                                                                         *)
(* A confirm is a chain of awaited calls to MongoDB and S3, one action     *)
(* each.  A client that saw no answer confirms again, so that several      *)
(* confirms of one upload may be under way.  The file a confirm makes is   *)
(* named by that confirm.  Removing files (RoomFiles has the details) and  *)
(* the trash (StorageTree) appear here by what they do to the files.       *)
(*                                                                         *)
(* The operators named Slip... are wrong variants of the definition that   *)
(* follows them; no action uses them.                                      *)
(***************************************************************************)
EXTENDS Naturals, FiniteSets

CONSTANTS
    Uploads,        \* the uploads that clients ask for
    NameOf,         \* media prefix and file name of each upload
    SizeOf,         \* fileSize of each upload
    RoomUploads,    \* uploads whose session has a roomId
    StorageUploads, \* uploads whose session has a storageId
    MaxBytes,       \* quota of the storage
    Confirms,       \* confirm requests of a behaviour
    UserNames,      \* names that users give to the files of a room
    MaxTicks,       \* bound: milliseconds that pass
    NoFile, NoKey

ASSUME UploadAssumption ==
    /\ IsFiniteSet(Confirms)
    /\ SizeOf \in [Uploads -> Nat \ {0}]
    /\ MaxBytes \in Nat
    /\ MaxTicks \in Nat
    /\ Uploads \cap UserNames = {}
    /\ NoFile \notin Uploads \cup UserNames
    /\ RoomUploads \subseteq Uploads /\ StorageUploads \subseteq Uploads

VARIABLES
    now,        \* Date.now()
    session,    \* UploadSession of each upload: "none", "open", "gone"
    key,        \* S3 key of each session
    objects,    \* keys of the objects in the bucket
    sent,       \* uploads whose bytes the client has put
    req,        \* what each confirm is doing
    storedName, \* storedName of the File document each confirm made
    roomFiles,  \* files the room lists
    room,       \* whether the room is still there
    items,      \* files with a live storage item
    trash       \* files whose item is in the trash

s3vars   == <<now, key, objects, sent>>
listvars == <<roomFiles, room, items, trash>>
vars     == <<s3vars, session, req, storedName, listvars>>

Ready == [pc |-> "ready"]

Steps  == {"object", "quota", "file", "bind", "item", "insert", "close"}
Active == {c \in Confirms : req[c].pc \in Steps}
UpOf(c) == req[c].up

Stored(c) == storedName[c] # NoFile

(* getUsedBytes counts the bytes of the files of the live items; a file    *)
(* that has been deleted counts as nothing.                                *)
Octets(cs) == UNION {{c} \X (1..SizeOf[UpOf(c)]) : c \in {d \in cs : Stored(d)}}
Bytes(cs)  == Cardinality(Octets(cs))

SlipFits(u) == Bytes(items) < MaxBytes     \* forgets the bytes to be added

Fits(u) == Bytes(items) + SizeOf[u] <= MaxBytes

Init ==
    /\ now = 0
    /\ session = [u \in Uploads |-> "none"]
    /\ key = [u \in Uploads |-> NoKey]
    /\ objects = {} /\ sent = {}
    /\ req = [c \in Confirms |-> Ready]
    /\ storedName = [c \in Confirms |-> NoFile]
    /\ roomFiles = {} /\ room = TRUE
    /\ items = {} /\ trash = {}

-----------------------------------------------------------------------------
Tick ==
    /\ now < MaxTicks
    /\ now' = now + 1
    /\ UNCHANGED <<key, objects, sent, session, req, storedName, listvars>>

(* getPresignedUrl: a key is not unique within the millisecond.            *)
KeyOf(u) == <<NameOf[u], now>>

(* One request may ask for several uploads; their keys are made in the     *)
(* same millisecond.  When one of them is refused the client gets no URL.  *)
InitUploads(U) ==
    /\ \A u \in U : session[u] = "none" /\ (u \in StorageUploads => Fits(u))
    /\ session' = [u \in Uploads |-> IF u \in U THEN "open" ELSE session[u]]
    /\ key' = [u \in Uploads |-> IF u \in U THEN KeyOf(u) ELSE key[u]]
    /\ UNCHANGED <<now, objects, sent, req, storedName, listvars>>

(* The endpoints.  The first two want the permission to write to the room  *)
(* or storage that the request names, the last no permission; each takes   *)
(* a roomId and a storageId.                                               *)
InitUploadToRoom(U)          == U \subseteq RoomUploads /\ InitUploads(U)
InitUploadToStorage(U)       == U \subseteq StorageUploads /\ InitUploads(U)
InitUploadToSharedStorage(U) == InitUploads(U)

(* The client puts the bytes; the URL outlives the session.                *)
Put(u) ==
    /\ session[u] # "none"
    /\ u \notin sent
    /\ objects' = objects \cup {key[u]}
    /\ sent' = sent \cup {u}
    /\ UNCHANGED <<now, key, session, req, storedName, listvars>>

(* The TTL index removes the session an hour after it was made.            *)
SessionExpires(u) ==
    /\ session[u] = "open"
    /\ session' = [session EXCEPT ![u] = "gone"]
    /\ UNCHANGED <<s3vars, req, storedName, listvars>>

-----------------------------------------------------------------------------
(* confirmUpload.                                                          *)

At(c, pc)   == req[c].pc = pc
Goto(c, pc) == req' = [req EXCEPT ![c].pc = pc, ![c].seen = {}]

BeginConfirm(c, u) ==
    /\ At(c, "ready")
    /\ session[u] = "open"
    /\ req' = [req EXCEPT ![c] = [pc |-> "object", up |-> u, seen |-> {}]]
    /\ UNCHANGED <<s3vars, session, storedName, listvars>>

(* The endpoints want the permission for the room, the storage or the      *)
(* shared item that the request names, but it is the session that says     *)
(* where the file goes: each of them confirms any upload.  What they tell  *)
(* others once it is done, they do not wait for.                           *)
ConfirmUploadToRoom(c, u)          == BeginConfirm(c, u)
ConfirmUploadToStorage(c, u)       == BeginConfirm(c, u)
ConfirmUploadToSharedStorage(c, u) == BeginConfirm(c, u)

SlipCheckObject(c) ==      \* without the check that the object is there
    /\ At(c, "object")
    /\ Goto(c, IF UpOf(c) \in StorageUploads THEN "quota" ELSE "file")
    /\ UNCHANGED <<s3vars, session, storedName, listvars>>

CheckObject(c) ==
    /\ At(c, "object")
    /\ Goto(c, IF key[UpOf(c)] \notin objects THEN "failed"
               ELSE IF UpOf(c) \in StorageUploads THEN "quota" ELSE "file")
    /\ UNCHANGED <<s3vars, session, storedName, listvars>>

CheckQuota(c) ==
    /\ At(c, "quota")
    /\ Goto(c, IF Fits(UpOf(c)) THEN "file" ELSE "failed")
    /\ UNCHANGED <<s3vars, session, storedName, listvars>>

Listing(c) == IF UpOf(c) \in RoomUploads THEN "bind"
              ELSE IF UpOf(c) \in StorageUploads THEN "item" ELSE "close"

SlipCreateFile(c) ==       \* a storedName of its own for every file
    /\ At(c, "file")
    /\ storedName' = [storedName EXCEPT ![c] = UpOf(c)]
    /\ Goto(c, Listing(c))
    /\ UNCHANGED <<s3vars, session, listvars>>

(* The document takes the session's storedName, which is unique: while     *)
(* another file has it the insert throws.                                  *)
CreateFile(c) ==
    /\ At(c, "file")
    /\ IF \E d \in Confirms : storedName[d] = UpOf(c)
         THEN /\ Goto(c, "failed")
              /\ UNCHANGED storedName
         ELSE /\ storedName' = [storedName EXCEPT ![c] = UpOf(c)]
              /\ Goto(c, Listing(c))
    /\ UNCHANGED <<s3vars, session, listvars>>

(* $push onto the room's files: no room, no push.                          *)
BindFileToRoom(c) ==
    /\ At(c, "bind")
    /\ roomFiles' = IF room THEN roomFiles \cup {c} ELSE roomFiles
    /\ Goto(c, IF UpOf(c) \in StorageUploads THEN "item" ELSE "close")
    /\ UNCHANGED <<s3vars, session, storedName, room, items, trash>>

(* createItemInStorage reads the file, checks the quota once more and      *)
(* inserts the item.  The file may have been deleted, and the cache may    *)
(* still answer for it.                                                    *)
CreateItem(c) ==
    /\ At(c, "item")
    /\ \/ /\ Fits(UpOf(c))
          /\ req' = [req EXCEPT ![c].pc = "insert", ![c].seen = items]
       \/ /\ ~Fits(UpOf(c)) \/ ~Stored(c)
          /\ Goto(c, "failed")
    /\ UNCHANGED <<s3vars, session, storedName, listvars>>

SlipInsertItem(c) ==       \* never inserts the item
    /\ At(c, "insert")
    /\ Goto(c, "close")
    /\ UNCHANGED <<s3vars, session, storedName, listvars>>

InsertItem(c) ==
    /\ At(c, "insert")
    /\ items' = items \cup {c}
    /\ Goto(c, "close")
    /\ UNCHANGED <<s3vars, session, storedName, roomFiles, room, trash>>

CloseSession(c) ==
    /\ At(c, "close")
    /\ session' = [session EXCEPT ![UpOf(c)] = "gone"]
    /\ Goto(c, "ok")
    /\ UNCHANGED <<s3vars, storedName, listvars>>

(* A call fails, the parent folder is refused, or the service stops: what  *)
(* the confirm has done so far stays.                                      *)
Fail(c) ==
    /\ c \in Active
    /\ Goto(c, "failed")
    /\ UNCHANGED <<s3vars, session, storedName, listvars>>

-----------------------------------------------------------------------------
(* What happens to the files meanwhile.                                    *)

(* hardDeleteFiles deletes the object, unless S3 refuses, and the          *)
(* document; its steps are in RoomFiles.                                   *)
HardDelete(c) ==
    /\ objects' \in {objects, objects \ {key[UpOf(c)]}}
    /\ storedName' = [storedName EXCEPT ![c] = NoFile]
    /\ UNCHANGED <<now, key, sent, session, req, room>>

(* The ids may be of any files: nobody asks whether they are in the room   *)
(* the request names, and a file that is not, one of a storage for         *)
(* example, is deleted all the same.  The room that lists a file forgets   *)
(* it if it is the one named and its list can be written.                  *)
RemoveFromRoom(c) ==
    /\ Stored(c)
    /\ HardDelete(c)
    /\ roomFiles' \in {roomFiles, roomFiles \ {c}}
    /\ UNCHANGED <<items, trash>>

(* updateFile: the name users see of a file in a room is its storedName;   *)
(* the update of a file that is gone matches nothing.                      *)
UpdateFile(c, n) ==
    /\ c \in roomFiles /\ Stored(c)
    /\ \A d \in Confirms : storedName[d] # n
    /\ storedName' = [storedName EXCEPT ![c] = n]
    /\ UNCHANGED <<s3vars, session, req, listvars>>

(* deleteRoom deletes the room alone; its files stay.                      *)
DeleteRoom ==
    /\ room
    /\ room' = FALSE
    /\ roomFiles' = {}
    /\ UNCHANGED <<s3vars, session, req, storedName, items, trash>>

SoftDelete(c) ==
    /\ c \in items
    /\ items' = items \ {c}
    /\ trash' = trash \cup {c}
    /\ UNCHANGED <<s3vars, session, req, storedName, roomFiles, room>>

(* restore asks nothing of the quota.                                      *)
Restore(c) ==
    /\ c \in trash
    /\ trash' = trash \ {c}
    /\ items' = items \cup {c}
    /\ UNCHANGED <<s3vars, session, req, storedName, roomFiles, room>>

(* The purge takes the item and its file, if there is one still.           *)
Purge(c) ==
    /\ c \in trash
    /\ trash' = trash \ {c}
    /\ \/ Stored(c) /\ HardDelete(c) /\ roomFiles' = roomFiles \ {c}
       \/ ~Stored(c) /\ UNCHANGED <<s3vars, session, req, storedName, roomFiles, room>>
    /\ UNCHANGED items

-----------------------------------------------------------------------------
ContinueConfirm(c) ==
    \/ CheckObject(c) \/ CheckQuota(c) \/ CreateFile(c) \/ BindFileToRoom(c)
    \/ CreateItem(c) \/ InsertItem(c) \/ CloseSession(c)

Next ==
    \/ Tick
    \/ \E U \in SUBSET Uploads \ {{}} :
          InitUploadToRoom(U) \/ InitUploadToStorage(U) \/ InitUploadToSharedStorage(U)
    \/ \E u \in Uploads : Put(u) \/ SessionExpires(u)
    \/ \E c \in Confirms, u \in Uploads :
          \/ ConfirmUploadToRoom(c, u) \/ ConfirmUploadToStorage(c, u)
          \/ ConfirmUploadToSharedStorage(c, u)
    \/ \E c \in Confirms : ContinueConfirm(c) \/ Fail(c)
    \/ \E c \in Confirms : RemoveFromRoom(c) \/ SoftDelete(c) \/ Restore(c) \/ Purge(c)
    \/ \E c \in Confirms, n \in UserNames : UpdateFile(c, n)
    \/ DeleteRoom

Spec == Init /\ [][Next]_vars

-----------------------------------------------------------------------------
Keys    == {NameOf[u] : u \in Uploads} \X (0..MaxTicks)
Request == [pc : Steps \cup {"ok", "failed"}, up : Uploads, seen : SUBSET Confirms]

(* The documents and local variables keep their shape.                     *)

TypeOK ==
    /\ now \in 0..MaxTicks
    /\ session \in [Uploads -> {"none", "open", "gone"}]
    /\ key \in [Uploads -> Keys \cup {NoKey}]
    /\ objects \subseteq Keys /\ sent \subseteq Uploads
    /\ req \in [Confirms -> {Ready} \cup Request]
    /\ storedName \in [Confirms -> Uploads \cup UserNames \cup {NoFile}]
    /\ roomFiles \subseteq Confirms /\ room \in BOOLEAN
    /\ items \subseteq Confirms /\ trash \subseteq Confirms

(* Of the items an upload to a storage has there, however often and        *)
(* however concurrently it is confirmed, one has a file: its bytes count   *)
(* once.  (A file deleted through a room leaves its item, and another      *)
(* confirm may then file the upload again.  In a room a user may rename    *)
(* the file before the session is closed, which frees the storedName.)     *)
StorageUploadOnce ==
    \A c, d \in items \cup trash :
        Stored(c) /\ Stored(d) /\ UpOf(c) = UpOf(d) /\ UpOf(c) \notin RoomUploads => c = d

(* A file is made only of an upload the client has put into S3 ("Confirms  *)
(* that the file was uploaded to S3 and creates Mongo record").            *)
FilesWereUploaded ==
    \A c \in Confirms : Stored(c) => UpOf(c) \in sent

(* A confirm that was answered well leaves the file in the bucket and in   *)
(* every list the session names, until the file is deleted or the room is. *)
(* (A second confirm of the upload may find the bytes just before the file *)
(* of the first, and the bytes with it, is deleted.)                       *)
SoleConfirm(c) ==
    \A d \in Confirms \ {c} : ~At(d, "ready") => UpOf(d) # UpOf(c)

ConfirmedIsListed ==
    \A c \in Confirms : At(c, "ok") /\ Stored(c) =>
        /\ SoleConfirm(c) => key[UpOf(c)] \in objects
        /\ UpOf(c) \in RoomUploads /\ room => c \in roomFiles
        /\ UpOf(c) \in StorageUploads => c \in items \cup trash

(* An upload takes a storage beyond its quota by no more than what others  *)
(* added since it was checked.                                             *)
QuotaOvershoot ==
    [][\A c \in Confirms : InsertItem(c) =>
          Bytes(items)' <= MaxBytes + Bytes(items \ req[c].seen)]_vars
=============================================================================
