---------------------------- MODULE Uploads_proofs ----------------------------
(***************************************************************************)
(* Proofs about module Uploads, for every set of uploads and confirms.     *)
(***************************************************************************)
EXTENDS Uploads, FiniteSetTheorems, TLAPS

(* What a step of a confirm leaves as it was.                              *)
LEMMA GotoRequest ==
    ASSUME TypeOK, NEW c \in Confirms, req[c].pc # "ready",
           NEW p \in Steps \cup {"ok", "failed"}, Goto(c, p)
    PROVE  /\ req' \in [Confirms -> {Ready} \cup Request]
           /\ req'[c].pc = p /\ req'[c].up = req[c].up /\ req[c].up \in Uploads
           /\ \A d \in Confirms \ {c} : req'[d] = req[d]
<1>1. req[c] \in Request
  BY DEF TypeOK, Ready
<1>2. [req[c] EXCEPT !.pc = p, !.seen = {}] \in Request
  BY <1>1 DEF Request
<1> QED
  BY <1>1, <1>2 DEF Goto, TypeOK, Request

-----------------------------------------------------------------------------
(* Type correctness.  An upload can only be put once it has a key, so that *)
(* the type of objects rests on the sessions' keys, and these on confirms  *)
(* naming a session.                                                       *)
KeyNamed ==
    \A u \in Uploads : session[u] # "none" => key[u] \in {NameOf[u]} \X (0..MaxTicks)

Opened == \A c \in Confirms : req[c].pc # "ready" => session[UpOf(c)] # "none"

TypeInv == TypeOK /\ KeyNamed /\ Opened

LEMMA InitType == Init => TypeInv
BY UploadAssumption DEF Init, TypeInv, TypeOK, KeyNamed, Opened, Ready

(* The request of one confirm changes to another step or a new record.     *)
LEMMA RequestType ==
    ASSUME TypeInv, NEW c \in Confirms, ContinueConfirm(c) \/ Fail(c)
    PROVE  /\ req' \in [Confirms -> {Ready} \cup Request]
           /\ req[c].pc # "ready" /\ UpOf(c) \in Uploads
           /\ \A d \in Confirms : req'[d].pc = "ready" <=> req[d].pc = "ready"
           /\ \A d \in Confirms : req[d].pc # "ready" => UpOf(d)' = UpOf(d)
           /\ \A d \in Confirms \ {c} : req'[d] = req[d]
<1> DEFINE Good ==
      /\ req' \in [Confirms -> {Ready} \cup Request]
      /\ req[c].pc # "ready" /\ UpOf(c) \in Uploads
      /\ \A d \in Confirms : req'[d].pc = "ready" <=> req[d].pc = "ready"
      /\ \A d \in Confirms : req[d].pc # "ready" => UpOf(d)' = UpOf(d)
      /\ \A d \in Confirms \ {c} : req'[d] = req[d]
<1> SUFFICES Good
  OBVIOUS
<1> USE DEF TypeInv, At
<1>1. \A p \in Steps \cup {"ok", "failed"} : req[c].pc # "ready" /\ Goto(c, p) => Good
  <2> SUFFICES ASSUME NEW p \in Steps \cup {"ok", "failed"}, req[c].pc # "ready", Goto(c, p)
               PROVE  Good
    OBVIOUS
  <2> QED
    BY GotoRequest DEF UpOf, Steps
<1> HIDE DEF Good
<1>2. Listing(c) \in Steps
  BY DEF Listing, Steps
<1>3. CASE CheckObject(c) BY <1>1, <1>3 DEF CheckObject, Steps
<1>4. CASE CheckQuota(c) BY <1>1, <1>4 DEF CheckQuota, Steps
<1>5. CASE CreateFile(c) BY <1>1, <1>2, <1>5 DEF CreateFile, Steps
<1>6. CASE BindFileToRoom(c) BY <1>1, <1>6 DEF BindFileToRoom, Steps
<1>7. CASE CreateItem(c)
  <2>1. CASE Goto(c, "failed")
    BY <1>1, <1>7, <2>1 DEF CreateItem
  <2>2. CASE req' = [req EXCEPT ![c].pc = "insert", ![c].seen = items]
    <3>1. req[c] \in Request
      BY <1>7 DEF CreateItem, TypeOK, Ready
    <3>2. [req[c] EXCEPT !.pc = "insert", !.seen = items] \in Request
      BY <3>1 DEF Request, Steps, TypeOK
    <3>3. req' \in [Confirms -> {Ready} \cup Request]
      BY <2>2, <3>2 DEF TypeOK
    <3>4. /\ req'[c].pc = "insert" /\ req'[c].up = req[c].up /\ req[c].up \in Uploads
          /\ \A d \in Confirms \ {c} : req'[d] = req[d]
      BY <2>2, <3>1 DEF TypeOK, Request
    <3> QED
      BY <1>7, <3>3, <3>4 DEF Good, UpOf, CreateItem
  <2> QED
    BY <1>7, <2>1, <2>2 DEF CreateItem
<1>8. CASE InsertItem(c) BY <1>1, <1>8 DEF InsertItem, Steps
<1>9. CASE CloseSession(c) BY <1>1, <1>9 DEF CloseSession
<1>10. CASE Fail(c) BY <1>1, <1>10 DEF Fail, Active, Steps
<1> QED
  BY <1>3, <1>4, <1>5, <1>6, <1>7, <1>8, <1>9, <1>10 DEF ContinueConfirm

LEMMA CreateItemStep ==
    ASSUME TypeOK, NEW c \in Confirms, CreateItem(c)
    PROVE  req[c].pc = "item" /\ req'[c].pc \in {"insert", "failed"}
<1>1. req[c].pc = "item" /\ req[c] \in Request
  BY DEF TypeOK, CreateItem, At, Ready
<1>2. CASE Goto(c, "failed")
  BY <1>1, <1>2, GotoRequest
<1>3. CASE req' = [req EXCEPT ![c].pc = "insert", ![c].seen = items]
  BY <1>1, <1>3 DEF TypeOK, Request
<1> QED
  BY <1>1, <1>2, <1>3 DEF CreateItem

LEMMA UpType == ASSUME TypeOK, NEW c \in Confirms, req[c].pc # "ready"
                PROVE  UpOf(c) \in Uploads
BY DEF TypeOK, Ready, Request, UpOf

LEMMA StepType == TypeInv /\ [Next]_vars => TypeInv'
<1> SUFFICES ASSUME TypeInv, [Next]_vars PROVE TypeInv'
  OBVIOUS
<1> USE UploadAssumption DEF TypeInv, s3vars, listvars
<1>1. CASE Tick
  BY <1>1 DEF Tick, TypeOK, KeyNamed, Opened, UpOf
<1>2. ASSUME NEW U \in SUBSET Uploads, InitUploads(U) PROVE TypeInv'
  <2>1. \A u \in Uploads : <<NameOf[u], now>> \in Keys
    BY DEF TypeOK, Keys
  <2>2. TypeOK'
    BY <1>2, <2>1 DEF InitUploads, KeyOf, TypeOK
  <2>3. KeyNamed'
    BY <1>2 DEF InitUploads, KeyOf, TypeOK, KeyNamed
  <2>4. Opened'
    BY <1>2, UpType DEF InitUploads, KeyOf, Opened, UpOf
  <2> QED
    BY <2>2, <2>3, <2>4
<1>3. ASSUME NEW u \in Uploads, Put(u) PROVE TypeInv'
  <2>1. key[u] \in Keys
    BY <1>3 DEF Put, KeyNamed, Keys
  <2> QED
    BY <1>3, <2>1 DEF Put, TypeOK, KeyNamed, Opened, UpOf
<1>4. ASSUME NEW u \in Uploads, SessionExpires(u) PROVE TypeInv'
  BY <1>4 DEF SessionExpires, TypeOK, KeyNamed, Opened, UpOf
<1>5. ASSUME NEW c \in Confirms, NEW u \in Uploads, BeginConfirm(c, u) PROVE TypeInv'
  <2>1. [pc |-> "object", up |-> u, seen |-> {}] \in Request
    BY DEF Request, Steps
  <2>2. TypeOK' /\ KeyNamed'
    BY <1>5, <2>1 DEF BeginConfirm, TypeOK, KeyNamed
  <2>3. Opened'
    BY <1>5 DEF BeginConfirm, TypeOK, Opened, UpOf
  <2> QED
    BY <2>2, <2>3
<1>6. ASSUME NEW c \in Confirms, ContinueConfirm(c) \/ Fail(c) PROVE TypeInv'
  <2>1. /\ req' \in [Confirms -> {Ready} \cup Request]
        /\ req[c].pc # "ready" /\ UpOf(c) \in Uploads
        /\ \A d \in Confirms : req'[d].pc = "ready" <=> req[d].pc = "ready"
        /\ \A d \in Confirms : req[d].pc # "ready" => UpOf(d)' = UpOf(d)
    BY <1>6, RequestType
  <2>2. UNCHANGED s3vars
    BY <1>6 DEF ContinueConfirm, Fail, CheckObject, CheckQuota, CreateFile, BindFileToRoom,
                CreateItem, InsertItem, CloseSession
  <2>3. session' \in [Uploads -> {"none", "open", "gone"}] /\ KeyNamed' /\ Opened'
    <3>1. UNCHANGED session \/ session' = [session EXCEPT ![UpOf(c)] = "gone"]
      BY <1>6 DEF ContinueConfirm, Fail, CheckObject, CheckQuota, CreateFile,
         BindFileToRoom, CreateItem, InsertItem, CloseSession
    <3>2. session[UpOf(c)] # "none"
      BY <2>1 DEF Opened
    <3>3. session' \in [Uploads -> {"none", "open", "gone"}] /\ KeyNamed'
      BY <2>1, <2>2, <3>1, <3>2 DEF TypeOK, KeyNamed
    <3>4. Opened'
      BY <2>1, <3>1, UpType DEF Opened, TypeOK
    <3> QED
      BY <3>3, <3>4
  <2>4. storedName' \in [Confirms -> Uploads \cup UserNames \cup {NoFile}]
    <3>1. \/ UNCHANGED storedName
          \/ UpOf(c) \in Uploads /\ storedName' = [storedName EXCEPT ![c] = UpOf(c)]
      BY <1>6, UpType DEF ContinueConfirm, Fail, CheckObject, CheckQuota, CreateFile,
         BindFileToRoom, CreateItem, InsertItem, CloseSession, At
    <3> QED
      BY <3>1 DEF TypeOK
  <2>5. /\ roomFiles' \subseteq Confirms /\ room' \in BOOLEAN
        /\ items' \subseteq Confirms /\ trash' \subseteq Confirms
    BY <1>6 DEF TypeOK, ContinueConfirm, Fail, CheckObject, CheckQuota, CreateFile,
       BindFileToRoom, CreateItem, InsertItem, CloseSession
  <2> QED
    BY <2>1, <2>2, <2>3, <2>4, <2>5 DEF TypeOK
<1>7. ASSUME NEW c \in Confirms,
             RemoveFromRoom(c) \/ SoftDelete(c) \/ Restore(c) \/ Purge(c)
      PROVE  TypeInv'
  BY <1>7 DEF RemoveFromRoom, SoftDelete, Restore, Purge, HardDelete, TypeOK, KeyNamed, Opened, UpOf
<1>8. ASSUME NEW c \in Confirms, NEW n \in UserNames, UpdateFile(c, n) PROVE TypeInv'
  BY <1>8 DEF UpdateFile, TypeOK, KeyNamed, Opened, UpOf
<1>9. CASE DeleteRoom
  BY <1>9 DEF DeleteRoom, TypeOK, KeyNamed, Opened, UpOf
<1>10. CASE UNCHANGED vars
  BY <1>10 DEF vars, TypeOK, KeyNamed, Opened, UpOf
<1> QED
  BY <1>1, <1>2, <1>3, <1>4, <1>5, <1>6, <1>7, <1>8, <1>9, <1>10 DEF Next, InitUploadToRoom, InitUploadToStorage, InitUploadToSharedStorage,
     ConfirmUploadToRoom, ConfirmUploadToStorage, ConfirmUploadToSharedStorage

(* The documents and the confirms' variables keep their types.             *)
THEOREM TypeCorrect == Spec => []TypeOK
<1>1. TypeInv => TypeOK
  BY DEF TypeInv
<1> QED
  BY <1>1, InitType, StepType, PTL DEF Spec

-----------------------------------------------------------------------------
(* An upload to a storage is filed once.  A storedName belongs to one file,*)
(* and a file that was never in a room keeps the name of its session for   *)
(* as long as it has an item.                                              *)

Fresh ==       \* a confirm has no file, and no item, before it makes them
    \A c \in Confirms :
        /\ req[c].pc \in {"ready", "object", "quota", "file"} => storedName[c] = NoFile
        /\ req[c].pc \in {"ready", "object", "quota", "file", "bind"} => c \notin roomFiles
        /\ req[c].pc \in {"ready", "object", "quota", "file", "bind", "item", "insert"} =>
              c \notin items \cup trash

RoomOnly ==    \* only files of room uploads are listed by a room
    \A c \in Confirms :
        req[c].pc = "bind" \/ c \in roomFiles => UpOf(c) \in RoomUploads

OwnName ==     \* a file that was never in a room keeps its session's name while it is there
    \A c \in Confirms :
        /\ req[c].pc \in {"item", "insert"} \/ c \in items \cup trash
        /\ Stored(c) /\ UpOf(c) \notin RoomUploads
        => storedName[c] = UpOf(c)

UniqueName ==
    \A c, d \in Confirms : storedName[c] = storedName[d] /\ Stored(c) => c = d

Apart == items \cap trash = {}

NameInv == Fresh /\ RoomOnly /\ OwnName /\ UniqueName /\ Apart

LEMMA InitNames == Init => NameInv
BY UploadAssumption
DEF Init, NameInv, Fresh, RoomOnly, OwnName, UniqueName, Apart, Ready, Stored

LEMMA StepNames ==
    ASSUME TypeInv, NameInv, [Next]_vars
    PROVE  NameInv'
<1> USE UploadAssumption
<1> USE DEF NameInv, s3vars, listvars, TypeInv
<1>1. CASE UNCHANGED <<req, storedName, roomFiles, items, trash>>
  BY <1>1 DEF Fresh, RoomOnly, OwnName, UniqueName, Apart, Stored, UpOf
<1>2. ASSUME NEW c \in Confirms, NEW u \in Uploads, BeginConfirm(c, u) PROVE NameInv'
  <2>1. /\ req[c].pc = "ready" /\ req'[c].pc = "object"
        /\ \A d \in Confirms \ {c} : req'[d] = req[d]
    BY <1>2 DEF BeginConfirm, At, TypeOK
  <2> QED
    BY <1>2, <2>1 DEF BeginConfirm, Fresh, RoomOnly, OwnName, UniqueName, Apart, Stored, UpOf
<1>3. ASSUME NEW c \in Confirms, ContinueConfirm(c) \/ Fail(c) PROVE NameInv'
  <2>1. /\ req[c].pc # "ready" /\ UpOf(c) \in Uploads /\ UpOf(c)' = UpOf(c)
        /\ \A d \in Confirms \ {c} : req'[d] = req[d] /\ UpOf(d)' = UpOf(d)
    BY <1>3, RequestType DEF UpOf
  <2>2. \A p \in Steps \cup {"ok", "failed"} : Goto(c, p) => req'[c].pc = p
    BY <2>1, GotoRequest
  <2>3. CASE CheckObject(c) \/ CheckQuota(c) \/ CreateItem(c) \/ CloseSession(c) \/ Fail(c)
    <3>1. /\ req[c].pc # "bind" => req'[c].pc # "bind"
          /\ req'[c].pc \in {"item", "insert"} => req[c].pc \in {"item", "insert"}
          /\ req'[c].pc \in {"ready", "object", "quota", "file"} =>
                req[c].pc \in {"ready", "object", "quota", "file"}
          /\ req'[c].pc \in {"ready", "object", "quota", "file", "bind", "item", "insert"} =>
                req[c].pc \in {"ready", "object", "quota", "file", "bind", "item", "insert"}
      <4>1. CASE CreateItem(c)
        BY <4>1, CreateItemStep
      <4>2. CASE CheckObject(c) \/ CheckQuota(c)
        BY <2>2, <4>2 DEF CheckObject, CheckQuota, At, Steps
      <4>3. CASE CloseSession(c) \/ Fail(c)
        BY <2>2, <4>3 DEF CloseSession, Fail, Steps
      <4> QED
        BY <2>3, <4>1, <4>2, <4>3
    <3>2. UNCHANGED <<storedName, roomFiles, items, trash>>
      BY <2>3 DEF CheckObject, CheckQuota, CreateItem, CloseSession, Fail
    <3> QED
      BY <2>1, <3>1, <3>2 DEF Fresh, RoomOnly, OwnName, UniqueName, Apart, Stored
  <2>4. CASE CreateFile(c)
    <3>1. CASE UNCHANGED storedName /\ Goto(c, "failed")
      <4>1. req'[c].pc = "failed"
        BY <2>2, <3>1
      <4> QED
        BY <2>1, <2>4, <3>1, <4>1
        DEF CreateFile, Fresh, RoomOnly, OwnName, UniqueName, Apart, Stored
    <3>2. CASE /\ \A d \in Confirms : storedName[d] # UpOf(c)
               /\ storedName' = [storedName EXCEPT ![c] = UpOf(c)]
               /\ Goto(c, Listing(c))
      <4>1. /\ req'[c].pc \in {"bind", "item", "close"}
            /\ req'[c].pc = "bind" => UpOf(c) \in RoomUploads
        BY <2>2, <3>2 DEF Listing, Steps
      <4>2. storedName'[c] = UpOf(c) /\ \A d \in Confirms \ {c} : storedName'[d] = storedName[d]
        BY <3>2 DEF TypeOK
      <4> QED
        BY <2>1, <2>4, <3>2, <4>1, <4>2
        DEF CreateFile, At, Fresh, RoomOnly, OwnName, UniqueName, Apart, Stored
    <3> QED
      BY <2>4, <3>1, <3>2 DEF CreateFile
  <2>5. CASE BindFileToRoom(c)
    <3>1. req[c].pc = "bind" /\ req'[c].pc \in {"item", "close"}
      BY <2>2, <2>5 DEF BindFileToRoom, At, Steps
    <3>2. roomFiles' \subseteq roomFiles \cup {c}
      BY <2>5 DEF BindFileToRoom
    <3> QED
      BY <2>1, <2>5, <3>1, <3>2
      DEF BindFileToRoom, Fresh, RoomOnly, OwnName, UniqueName, Apart, Stored
  <2>6. CASE InsertItem(c)
    <3>1. req[c].pc = "insert" /\ req'[c].pc = "close"
      BY <2>2, <2>6 DEF InsertItem, At, Steps
    <3> QED
      BY <2>1, <2>6, <3>1
      DEF InsertItem, Fresh, RoomOnly, OwnName, UniqueName, Apart, Stored
  <2> QED
    BY <1>3, <2>3, <2>4, <2>5, <2>6 DEF ContinueConfirm
<1>4. ASSUME NEW c \in Confirms, RemoveFromRoom(c) \/ Purge(c) PROVE NameInv'
  <2>1. /\ storedName'[c] = NoFile
        /\ \A d \in Confirms \ {c} : storedName'[d] = storedName[d]
        /\ UNCHANGED req
    BY <1>4 DEF RemoveFromRoom, Purge, HardDelete, TypeOK, Stored
  <2>2. roomFiles' \subseteq roomFiles /\ items' = items /\ trash' \subseteq trash
    BY <1>4 DEF RemoveFromRoom, Purge
  <2> QED
    BY <2>1, <2>2 DEF Fresh, RoomOnly, OwnName, UniqueName, Apart, Stored, UpOf
<1>5. ASSUME NEW c \in Confirms, SoftDelete(c) \/ Restore(c) PROVE NameInv'
  BY <1>5 DEF SoftDelete, Restore, Fresh, RoomOnly, OwnName, UniqueName, Apart, Stored, UpOf
<1>6. ASSUME NEW c \in Confirms, NEW n \in UserNames, UpdateFile(c, n) PROVE NameInv'
  <2>1. /\ storedName'[c] = n
        /\ \A d \in Confirms \ {c} : storedName'[d] = storedName[d] /\ storedName[d] # n
    BY <1>6 DEF UpdateFile, TypeOK
  <2> QED
    BY <1>6, <2>1 DEF UpdateFile, Fresh, RoomOnly, OwnName, UniqueName, Apart, Stored, UpOf
<1>7. CASE DeleteRoom
  BY <1>7 DEF DeleteRoom, Fresh, RoomOnly, OwnName, UniqueName, Apart, Stored, UpOf
<1>8. CASE Tick \/ (\E U \in SUBSET Uploads : InitUploads(U))
           \/ (\E u \in Uploads : Put(u) \/ SessionExpires(u)) \/ UNCHANGED vars
  BY <1>1, <1>8 DEF Tick, InitUploads, Put, SessionExpires, vars
<1> QED
  BY <1>2, <1>3, <1>4, <1>5, <1>6, <1>7, <1>8 DEF Next, InitUploadToRoom, InitUploadToStorage, InitUploadToSharedStorage,
     ConfirmUploadToRoom, ConfirmUploadToStorage, ConfirmUploadToSharedStorage

(* However often and however concurrently an upload is confirmed, and      *)
(* whoever deletes its files, of its items in the storage one at most has  *)
(* a file (confirmUpload and the unique storedName).                       *)
THEOREM StorageFilesOnce == Spec => []StorageUploadOnce
<1>1. TypeInv /\ NameInv => StorageUploadOnce
  <2> SUFFICES ASSUME TypeInv, NameInv, NEW c \in items \cup trash, NEW d \in items \cup trash,
                      Stored(c), Stored(d), UpOf(c) = UpOf(d), UpOf(c) \notin RoomUploads
               PROVE  c = d
    BY DEF StorageUploadOnce
  <2>1. c \in Confirms /\ d \in Confirms /\ req[c].pc # "ready"
    BY DEF TypeInv, TypeOK, NameInv, Fresh
  <2>2. storedName[c] = UpOf(c) /\ storedName[d] = UpOf(d)
    BY <2>1 DEF NameInv, OwnName
  <2>3. UpOf(c) # NoFile
    BY <2>1, UpType, UploadAssumption DEF TypeInv
  <2> QED
    BY <2>1, <2>2, <2>3 DEF NameInv, UniqueName, Stored
<1>2. TypeInv /\ NameInv /\ [Next]_vars => NameInv'
  BY StepNames
<1> QED
  BY <1>1, <1>2, InitType, StepType, InitNames, PTL DEF Spec

-----------------------------------------------------------------------------
(* A file has its bytes.  With names of their own no two sessions share a  *)
(* key, so that the object a confirm finds is the one its client put.      *)

SentOpened == \A u \in sent : session[u] # "none"
ObjectsSent == \A k \in objects : \E u \in sent : key[u] = k
PutChecked ==
    \A c \in Confirms :
        \/ req[c].pc \in {"quota", "file", "bind", "item", "insert", "close", "ok"}
        \/ req[c].pc # "ready" /\ (Stored(c) \/ c \in roomFiles)
        => UpOf(c) \in sent

ByteInv == SentOpened /\ ObjectsSent /\ PutChecked

DistinctUploads == \A u, v \in Uploads : NameOf[u] = NameOf[v] => u = v

LEMMA OneKeyEach ==
    ASSUME DistinctUploads, TypeInv, NEW u \in Uploads, NEW v \in Uploads,
           session[u] # "none", session[v] # "none", key[u] = key[v]
    PROVE  u = v
BY DEF DistinctUploads, TypeInv, KeyNamed

LEMMA InitBytes == Init => ByteInv
BY DEF Init, ByteInv, SentOpened, ObjectsSent, PutChecked, Ready

LEMMA StepBytes ==
    ASSUME DistinctUploads, TypeInv, NameInv, ByteInv, [Next]_vars
    PROVE  ByteInv'
<1> USE UploadAssumption DEF ByteInv, TypeInv, s3vars, listvars
<1>1. CASE /\ UNCHANGED <<session, key, objects, sent, req>>
           /\ \A c \in Confirms : Stored(c)' => Stored(c) \/ c \in roomFiles
           /\ roomFiles' \subseteq roomFiles
  BY <1>1 DEF SentOpened, ObjectsSent, PutChecked, UpOf
<1>2. ASSUME NEW U \in SUBSET Uploads, InitUploads(U) PROVE ByteInv'
  <2>1. \A u \in sent : u \in Uploads /\ u \notin U
    BY <1>2 DEF InitUploads, KeyOf, SentOpened, TypeOK
  <2>2. \A u \in sent : key'[u] = key[u] /\ session'[u] = session[u]
    BY <1>2, <2>1 DEF InitUploads, KeyOf
  <2>3. SentOpened' /\ ObjectsSent'
    <3>1. UNCHANGED <<objects, sent>>
      BY <1>2 DEF InitUploads, KeyOf
    <3> QED
      BY <2>2, <3>1 DEF SentOpened, ObjectsSent
  <2>4. PutChecked'
    BY <1>2 DEF InitUploads, KeyOf, PutChecked, Stored, UpOf
  <2> QED
    BY <2>3, <2>4
<1>3. ASSUME NEW u \in Uploads, Put(u) PROVE ByteInv'
  BY <1>3 DEF Put, SentOpened, ObjectsSent, PutChecked, Stored, UpOf
<1>4. ASSUME NEW u \in Uploads, SessionExpires(u) PROVE ByteInv'
  BY <1>4 DEF SessionExpires, SentOpened, ObjectsSent, PutChecked, Stored, UpOf, TypeOK
<1>5. ASSUME NEW c \in Confirms, NEW u \in Uploads, BeginConfirm(c, u) PROVE ByteInv'
  <2>1. /\ req[c].pc = "ready" /\ req'[c].pc = "object"
        /\ \A d \in Confirms \ {c} : req'[d] = req[d]
    BY <1>5 DEF BeginConfirm, At, TypeOK
  <2>2. ~Stored(c) /\ c \notin roomFiles
    BY <2>1 DEF NameInv, Fresh, Stored
  <2> QED
    BY <1>5, <2>1, <2>2 DEF BeginConfirm, SentOpened, ObjectsSent, PutChecked, Stored, UpOf
<1>6. ASSUME NEW c \in Confirms, ContinueConfirm(c) \/ Fail(c) PROVE ByteInv'
  <2>1. /\ req[c].pc # "ready" /\ UpOf(c) \in Uploads /\ UpOf(c)' = UpOf(c)
        /\ \A d \in Confirms \ {c} : req'[d] = req[d] /\ UpOf(d)' = UpOf(d)
    BY <1>6, RequestType DEF UpOf
  <2>2. \A p \in Steps \cup {"ok", "failed"} : Goto(c, p) => req'[c].pc = p
    BY <2>1, GotoRequest
  <2>3. UNCHANGED s3vars
    BY <1>6 DEF ContinueConfirm, Fail, CheckObject, CheckQuota, CreateFile, BindFileToRoom,
                CreateItem, InsertItem, CloseSession
  <2>4. SentOpened' /\ ObjectsSent'
    <3>1. UNCHANGED session \/ session' = [session EXCEPT ![UpOf(c)] = "gone"]
      BY <1>6 DEF ContinueConfirm, Fail, CheckObject, CheckQuota, CreateFile,
         BindFileToRoom, CreateItem, InsertItem, CloseSession
    <3> QED
      BY <2>1, <2>3, <3>1 DEF SentOpened, ObjectsSent, TypeOK
  <2>5. \A d \in Confirms \ {c} :
            storedName'[d] = storedName[d] /\ (d \in roomFiles' => d \in roomFiles)
    <3>1. UNCHANGED storedName \/ storedName' = [storedName EXCEPT ![c] = UpOf(c)]
      BY <1>6 DEF ContinueConfirm, Fail, CheckObject, CheckQuota, CreateFile,
         BindFileToRoom, CreateItem, InsertItem, CloseSession
    <3>2. roomFiles' \subseteq roomFiles \cup {c}
      BY <1>6 DEF ContinueConfirm, Fail, CheckObject, CheckQuota, CreateFile,
         BindFileToRoom, CreateItem, InsertItem, CloseSession
    <3> QED
      BY <3>1, <3>2 DEF TypeOK
  <2>6. PutChecked'
    <3>1. SUFFICES \/ req'[c].pc \in {"quota", "file", "bind", "item", "insert", "close", "ok"}
                   \/ Stored(c)' \/ c \in roomFiles'
                   => UpOf(c) \in sent
      BY <2>1, <2>3, <2>5 DEF PutChecked, Stored
    <3>2. CASE CheckObject(c)
      <4>1. CASE key[UpOf(c)] \in objects
        <5>1. PICK u \in sent : key[u] = key[UpOf(c)]
          BY <4>1 DEF ObjectsSent
        <5>2. session[u] # "none" /\ session[UpOf(c)] # "none" /\ u \in Uploads
          BY <2>1 DEF SentOpened, Opened, TypeOK
        <5> QED
          BY <2>1, <5>1, <5>2, OneKeyEach
      <4>2. CASE key[UpOf(c)] \notin objects
        <5>1. req'[c].pc = "failed" /\ ~Stored(c)' /\ c \notin roomFiles'
          BY <2>2, <3>2, <4>2 DEF CheckObject, At, NameInv, Fresh, Stored
        <5> QED
          BY <5>1
      <4> QED
        BY <4>1, <4>2
    <3>3. CASE Fail(c)
      BY <2>1, <2>2, <3>3 DEF Fail, PutChecked, Stored
    <3>4. CASE ContinueConfirm(c) /\ ~CheckObject(c)
      <4>1. req[c].pc \in {"quota", "file", "bind", "item", "insert", "close", "ok"}
        BY <3>4 DEF ContinueConfirm, CheckQuota, CreateFile, BindFileToRoom, CreateItem,
           InsertItem, CloseSession, At
      <4> QED
        BY <4>1 DEF PutChecked
    <3> QED
      BY <1>6, <3>2, <3>3, <3>4
  <2> QED
    BY <2>4, <2>6
<1>7. ASSUME NEW c \in Confirms,
             RemoveFromRoom(c) \/ SoftDelete(c) \/ Restore(c) \/ Purge(c)
      PROVE  ByteInv'
  <2>1. /\ UNCHANGED <<session, key, sent, req>>
        /\ objects' \subseteq objects /\ roomFiles' \subseteq roomFiles
        /\ \A d \in Confirms : Stored(d)' => Stored(d)
    BY <1>7 DEF RemoveFromRoom, SoftDelete, Restore, Purge, HardDelete, Stored, TypeOK
  <2> QED
    BY <2>1 DEF SentOpened, ObjectsSent, PutChecked, UpOf
<1>8. ASSUME NEW c \in Confirms, NEW n \in UserNames, UpdateFile(c, n) PROVE ByteInv'
  <2>1. /\ c \in roomFiles /\ UNCHANGED roomFiles
        /\ \A d \in Confirms \ {c} : storedName'[d] = storedName[d]
    BY <1>8 DEF UpdateFile
  <2> QED
    BY <1>1, <1>8, <2>1 DEF UpdateFile, Stored
<1>9. CASE DeleteRoom \/ Tick \/ UNCHANGED vars
  BY <1>1, <1>9 DEF DeleteRoom, Tick, vars, Stored
<1> QED
  BY <1>2, <1>3, <1>4, <1>5, <1>6, <1>7, <1>8, <1>9 DEF Next, InitUploadToRoom, InitUploadToStorage, InitUploadToSharedStorage,
     ConfirmUploadToRoom, ConfirmUploadToStorage, ConfirmUploadToSharedStorage

(* A file is made only of an upload that its client has put, provided no   *)
(* two uploads have one name.                                              *)
THEOREM FilesHaveBytes ==
    ASSUME DistinctUploads
    PROVE  Spec => []FilesWereUploaded
<1>1. TypeInv /\ NameInv /\ ByteInv => FilesWereUploaded
  BY DEF FilesWereUploaded, ByteInv, PutChecked, NameInv, Fresh, Stored
<1>2. TypeInv /\ NameInv /\ [Next]_vars => NameInv'
  BY StepNames
<1>3. TypeInv /\ NameInv /\ ByteInv /\ [Next]_vars => ByteInv'
  BY StepBytes
<1> QED
  BY <1>1, <1>2, <1>3, InitType, StepType, InitNames, InitBytes, PTL DEF Spec

-----------------------------------------------------------------------------
(* A confirmed file is where it belongs.                                   *)

HasObject ==
    \A c \in Confirms :
        /\ req[c].pc \in {"quota", "file"} \/ (req[c].pc # "ready" /\ Stored(c))
        /\ SoleConfirm(c)
        => key[UpOf(c)] \in objects

Listed ==
    \A c \in Confirms : Stored(c) =>
        /\ /\ req[c].pc \in {"item", "insert", "close", "ok"}
           /\ UpOf(c) \in RoomUploads /\ room
           => c \in roomFiles
        /\ /\ req[c].pc \in {"close", "ok"}
           /\ UpOf(c) \in StorageUploads
           => c \in items \cup trash

ListInv == HasObject /\ Listed

LEMMA InitLists == Init => ListInv
BY DEF Init, ListInv, HasObject, Listed, Ready, Stored

(* No confirm returns to the ready state, so that one that is alone now    *)
(* was alone before.                                                       *)
LEMMA SoleBefore ==
    ASSUME NEW c \in Confirms,
           UpOf(c)' = UpOf(c),
           \A d \in Confirms : req[d].pc # "ready" => req'[d].pc # "ready" /\ UpOf(d)' = UpOf(d),
           SoleConfirm(c)'
    PROVE  SoleConfirm(c)
BY DEF SoleConfirm, At

LEMMA StepLists ==
    ASSUME DistinctUploads, TypeInv, NameInv, ListInv, [Next]_vars
    PROVE  ListInv'
<1> USE UploadAssumption DEF ListInv, TypeInv, s3vars, listvars
<1>1. CASE UNCHANGED <<key, objects, req, storedName, roomFiles, room>>
           /\ items' \cup trash' = items \cup trash
  BY <1>1 DEF HasObject, Listed, Stored, SoleConfirm, At, UpOf
<1>2. ASSUME NEW U \in SUBSET Uploads, InitUploads(U) PROVE ListInv'
  <2>1. \A c \in Confirms : req[c].pc # "ready" => key'[UpOf(c)] = key[UpOf(c)]
    BY <1>2, UpType DEF InitUploads, KeyOf, Opened
  <2>2. UNCHANGED <<objects, req, storedName, roomFiles, room, items, trash>>
    BY <1>2 DEF InitUploads, KeyOf
  <2> QED
    BY <2>1, <2>2 DEF HasObject, Listed, Stored, SoleConfirm, At, UpOf
<1>3. ASSUME NEW u \in Uploads, Put(u) PROVE ListInv'
  BY <1>3 DEF Put, HasObject, Listed, Stored, SoleConfirm, At, UpOf
<1>4. ASSUME NEW c \in Confirms, NEW u \in Uploads, BeginConfirm(c, u) PROVE ListInv'
  <2>1. /\ req[c].pc = "ready" /\ req'[c].pc = "object"
        /\ \A d \in Confirms \ {c} : req'[d] = req[d]
    BY <1>4 DEF BeginConfirm, At, TypeOK
  <2>2. ~Stored(c)
    BY <2>1 DEF NameInv, Fresh, Stored
  <2>3. UNCHANGED <<key, objects, storedName, roomFiles, room, items, trash>>
    BY <1>4 DEF BeginConfirm
  <2>4. \A d \in Confirms \ {c} : SoleConfirm(d)' => SoleConfirm(d)
    BY <2>1 DEF SoleConfirm, At, UpOf
  <2> QED
    BY <2>1, <2>2, <2>3, <2>4 DEF HasObject, Listed, Stored, UpOf
<1>5. ASSUME NEW c \in Confirms, ContinueConfirm(c) \/ Fail(c) PROVE ListInv'
  <2>1. /\ req[c].pc # "ready" /\ UpOf(c) \in Uploads
        /\ \A d \in Confirms : req'[d].pc = "ready" <=> req[d].pc = "ready"
        /\ \A d \in Confirms : req[d].pc # "ready" => UpOf(d)' = UpOf(d)
        /\ \A d \in Confirms \ {c} : req'[d] = req[d]
    BY <1>5, RequestType
  <2>2. \A p \in Steps \cup {"ok", "failed"} : Goto(c, p) => req'[c].pc = p
    BY <2>1, GotoRequest
  <2>3. UNCHANGED <<key, objects, room>>
    BY <1>5 DEF ContinueConfirm, Fail, CheckObject, CheckQuota, CreateFile, BindFileToRoom,
                CreateItem, InsertItem, CloseSession
  <2>4. \A d \in Confirms \ {c} : storedName'[d] = storedName[d]
    <3>1. UNCHANGED storedName \/ storedName' = [storedName EXCEPT ![c] = UpOf(c)]
      BY <1>5 DEF ContinueConfirm, Fail, CheckObject, CheckQuota, CreateFile,
         BindFileToRoom, CreateItem, InsertItem, CloseSession
    <3> QED
      BY <3>1 DEF TypeOK
  <2>5. roomFiles \subseteq roomFiles' /\ items \subseteq items' /\ trash' = trash
    BY <1>5 DEF ContinueConfirm, Fail, CheckObject, CheckQuota, CreateFile, BindFileToRoom,
                CreateItem, InsertItem, CloseSession
  <2>6. \A d \in Confirms : req[d].pc # "ready" /\ SoleConfirm(d)' => SoleConfirm(d)
    BY <2>1, SoleBefore
  <2>7. HasObject'
    <3>1. ASSUME SoleConfirm(c), req'[c].pc \in {"quota", "file"} \/ Stored(c)'
          PROVE  key[UpOf(c)] \in objects
      <4>1. CASE CheckObject(c)
        BY <2>2, <3>1, <4>1 DEF CheckObject, At, NameInv, Fresh, Stored
      <4>2. CASE req[c].pc \in {"quota", "file"} \/ Stored(c)
        BY <2>1, <3>1, <4>2 DEF HasObject
      <4>3. CASE Fail(c)
        BY <2>1, <2>2, <3>1, <4>3 DEF Fail, HasObject, Stored
      <4>4. CASE BindFileToRoom(c) \/ CreateItem(c) \/ InsertItem(c) \/ CloseSession(c)
        <5>1. UNCHANGED storedName /\ req'[c].pc \notin {"quota", "file"}
          BY <2>2, <4>4, CreateItemStep
          DEF BindFileToRoom, CreateItem, InsertItem, CloseSession, Steps
        <5> QED
          BY <2>1, <3>1, <5>1 DEF HasObject, Stored
      <4> QED
        BY <1>5, <4>1, <4>2, <4>3, <4>4 DEF ContinueConfirm, CheckQuota, CreateFile, At
    <3>2. \A d \in Confirms \ {c} : Stored(d)' <=> Stored(d)
      BY <2>4 DEF Stored
    <3> QED
      BY <2>1, <2>3, <2>6, <3>1, <3>2 DEF HasObject
  <2>8. Listed'
    <3>1. SUFFICES ASSUME Stored(c)'
                   PROVE  /\ /\ req'[c].pc \in {"item", "insert", "close", "ok"}
                             /\ UpOf(c) \in RoomUploads /\ room
                             => c \in roomFiles'
                          /\ /\ req'[c].pc \in {"close", "ok"}
                             /\ UpOf(c) \in StorageUploads
                             => c \in items' \cup trash'
      <4>1. \A d \in Confirms \ {c} : Stored(d)' <=> Stored(d)
        BY <2>4 DEF Stored
      <4>2. \A d \in Confirms : Stored(d)' => req'[d].pc # "ready" \/ ~Stored(d)
        BY <2>1 DEF NameInv, Fresh, Stored
      <4> QED
        BY <2>1, <2>3, <2>5, <4>1, <4>2 DEF Listed
    <3>2. CASE CheckObject(c) \/ CheckQuota(c)
      BY <2>2, <3>2 DEF CheckObject, CheckQuota, At, Steps
    <3>3. CASE CreateFile(c)
      BY <2>2, <3>3 DEF CreateFile, Listing, Steps
    <3>4. CASE BindFileToRoom(c)
      <4>1. req'[c].pc \in {"item", "close"} /\ (req'[c].pc = "close" => UpOf(c) \notin StorageUploads)
        BY <2>2, <3>4 DEF BindFileToRoom, Steps
      <4>2. room => c \in roomFiles'
        BY <3>4 DEF BindFileToRoom
      <4> QED
        BY <4>1, <4>2
    <3>5. CASE CreateItem(c)
      <4>1. Stored(c) /\ roomFiles' = roomFiles
        BY <3>1, <3>5 DEF CreateItem, Stored
      <4> QED
        BY <3>5, <4>1, CreateItemStep DEF Listed
    <3>6. CASE InsertItem(c)
      <4>1. Stored(c) /\ roomFiles' = roomFiles /\ c \in items' /\ req[c].pc = "insert"
        BY <3>1, <3>6 DEF InsertItem, Stored, At
      <4> QED
        BY <4>1 DEF Listed
    <3>7. CASE CloseSession(c)
      <4>1. /\ Stored(c) /\ req[c].pc = "close"
            /\ UNCHANGED <<roomFiles, items, trash>>
        BY <3>1, <3>7 DEF CloseSession, Stored, At
      <4> QED
        BY <4>1 DEF Listed
    <3>8. CASE Fail(c)
      BY <2>2, <3>8 DEF Fail
    <3> QED
      BY <1>5, <3>2, <3>3, <3>4, <3>5, <3>6, <3>7, <3>8 DEF ContinueConfirm
  <2> QED
    BY <2>7, <2>8
<1>6. ASSUME NEW c \in Confirms, RemoveFromRoom(c) \/ Purge(c) PROVE ListInv'
  <2>1. /\ Stored(c) \/ c \in trash
        /\ objects' \in {objects, objects \ {key[UpOf(c)]}}
        /\ ~Stored(c)'
        /\ \A d \in Confirms \ {c} : Stored(d)' <=> Stored(d)
        /\ roomFiles' \in {roomFiles, roomFiles \ {c}}
        /\ items' \cup trash' \in {items \cup trash, (items \cup trash) \ {c}}
        /\ UNCHANGED <<key, req, room>>
    BY <1>6 DEF RemoveFromRoom, Purge, HardDelete, TypeOK, Stored, NameInv, Apart
  <2>2. req[c].pc \notin {"ready", "object", "quota", "file"}
    BY <2>1 DEF NameInv, Fresh, Stored
  <2>3. Listed'
    BY <2>1 DEF Listed, UpOf
  <2>4. ASSUME NEW d \in Confirms \ {c}, SoleConfirm(d), key[UpOf(d)] \in objects,
               req[d].pc # "ready"
        PROVE  key[UpOf(d)] \in objects'
    <3>1. UpOf(c) # UpOf(d)
      BY <2>2, <2>4 DEF SoleConfirm, At
    <3>2. key[UpOf(c)] # key[UpOf(d)]
      BY <2>2, <2>4, <3>1, UpType, OneKeyEach DEF Opened
    <3> QED
      BY <2>1, <2>4, <3>2
  <2>5. HasObject'
    <3>1. \A d \in Confirms : SoleConfirm(d)' <=> SoleConfirm(d)
      BY <2>1 DEF SoleConfirm, At, UpOf
    <3> QED
      BY <2>1, <2>2, <2>4, <3>1 DEF HasObject, UpOf
  <2> QED
    BY <2>3, <2>5
<1>7. ASSUME NEW c \in Confirms, NEW n \in UserNames, UpdateFile(c, n) PROVE ListInv'
  <2>1. /\ c \in roomFiles
        /\ \A d \in Confirms \ {c} : Stored(d)' <=> Stored(d)
        /\ UNCHANGED <<key, objects, req, roomFiles, room, items, trash>>
    BY <1>7 DEF UpdateFile, Stored
  <2>2. Stored(c)
    BY <1>7 DEF UpdateFile
  <2> QED
    BY <2>1, <2>2 DEF HasObject, Listed, SoleConfirm, At, UpOf
<1>8. CASE DeleteRoom
  BY <1>8 DEF DeleteRoom, HasObject, Listed, Stored, SoleConfirm, At, UpOf
<1>9. CASE \/ Tick \/ \E u \in Uploads : SessionExpires(u)
           \/ \E c \in Confirms : SoftDelete(c) \/ Restore(c)
           \/ UNCHANGED vars
  BY <1>1, <1>9 DEF Tick, SessionExpires, SoftDelete, Restore, vars
<1> QED
  BY <1>2, <1>3, <1>4, <1>5, <1>6, <1>7, <1>8, <1>9 DEF Next, InitUploadToRoom, InitUploadToStorage, InitUploadToSharedStorage,
     ConfirmUploadToRoom, ConfirmUploadToStorage, ConfirmUploadToSharedStorage

(* A confirm that succeeds leaves its file in the bucket and in every list *)
(* the session names, provided no two uploads have one name.               *)
THEOREM ConfirmedFilesListed ==
    ASSUME DistinctUploads
    PROVE  Spec => []ConfirmedIsListed
<1>1. TypeInv /\ ListInv => ConfirmedIsListed
  BY DEF ConfirmedIsListed, ListInv, HasObject, Listed, At
<1>2. TypeInv /\ NameInv /\ [Next]_vars => NameInv'
  BY StepNames
<1>3. TypeInv /\ NameInv /\ ListInv /\ [Next]_vars => ListInv'
  BY StepLists
<1> QED
  BY <1>1, <1>2, <1>3, InitType, StepType, InitNames, InitLists, PTL DEF Spec

-----------------------------------------------------------------------------
(* The quota.  The bytes of files are counted one by one.                  *)
LEMMA OctetsAre ==
    ASSUME NEW cs, NEW x
    PROVE  x \in Octets(cs) <=> \E d \in cs : Stored(d) /\ \E n \in 1..SizeOf[UpOf(d)] : x = <<d, n>>
  BY DEF Octets

LEMMA OctetsFinite ==
    ASSUME TypeOK, NEW cs \in SUBSET Confirms, \A d \in cs : req[d].pc # "ready"
    PROVE  IsFiniteSet(Octets(cs))
<1> DEFINE S == {d \in cs : Stored(d)}
           f == [d \in S |-> {d} \X (1..SizeOf[UpOf(d)])]
           T == {f[d] : d \in S}
<1>1. IsFiniteSet(S)
  BY FS_Subset, UploadAssumption
<1>2. ASSUME NEW d \in S PROVE IsFiniteSet({d} \X (1..SizeOf[UpOf(d)]))
  <2>1. UpOf(d) \in Uploads
    BY UpType
  <2>2. SizeOf[UpOf(d)] \in Nat
    BY <2>1, UploadAssumption
  <2>3. IsFiniteSet(1..SizeOf[UpOf(d)])
    BY <2>2, FS_Interval
  <2>4. IsFiniteSet({d})
    BY FS_Singleton
  <2> QED
    BY <2>3, <2>4, FS_Product
<1>3. IsFiniteSet(T)
  <2>1. f \in Surjection(S, T)
    BY DEF Surjection
  <2> QED
    BY <1>1, <2>1, FS_Surjection
<1>4. \A U \in T : IsFiniteSet(U)
  BY <1>2
<1>5. IsFiniteSet(UNION T)
  BY <1>3, <1>4, FS_UNION
<1>6. Octets(cs) = UNION T
  BY DEF Octets
<1> QED
  BY <1>5, <1>6

(* What a confirm that is about to insert its item has seen, it has seen   *)
(* fit: those files take up no more now than then.                         *)
Done == {"close", "ok", "failed"}

SeenFits == \A c \in Confirms : req[c].pc = "insert" =>
    /\ \A d \in req[c].seen : req[d].pc \in Done
    /\ Bytes(req[c].seen) + SizeOf[UpOf(c)] <= MaxBytes

(* The file of a confirm that has filed it comes back in no step.          *)
Dwindles(d) == req[d].pc \in Done =>
    /\ req'[d].pc \in Done /\ UpOf(d)' = UpOf(d)
    /\ Stored(d)' => Stored(d)

LEMMA ListedAreDone ==
    ASSUME TypeOK, Fresh, NEW d \in items \cup trash PROVE d \in Confirms /\ req[d].pc \in Done
<1>1. d \in Confirms /\ req[d] \in {Ready} \cup Request
  BY DEF TypeOK
<1> QED
  BY <1>1 DEF Fresh, Request, Ready, Steps, Done

(* How a step of a confirm moves it.                                       *)
LEMMA ConfirmMoves ==
    ASSUME TypeInv, NEW c \in Confirms, ContinueConfirm(c) \/ Fail(c)
    PROVE  /\ req[c].pc \in Done => req'[c].pc \in Done
           /\ req'[c].pc = "insert" => CreateItem(c) /\ req[c].pc = "item"
<1>1. TypeOK /\ req[c].pc # "ready"
  BY RequestType DEF TypeInv
<1>2. ASSUME NEW p \in Steps \cup {"ok", "failed"}, Goto(c, p) PROVE req'[c].pc = p
  BY <1>1, <1>2, GotoRequest
<1>3. CASE CheckObject(c)
  BY <1>2, <1>3 DEF CheckObject, Steps, Done, At
<1>4. CASE CheckQuota(c)
  BY <1>2, <1>4 DEF CheckQuota, Steps, Done, At
<1>5. CASE CreateFile(c)
  BY <1>2, <1>5 DEF CreateFile, Listing, Steps, Done, At
<1>6. CASE BindFileToRoom(c)
  BY <1>2, <1>6 DEF BindFileToRoom, Steps, Done, At
<1>7. CASE CreateItem(c)
  BY <1>1, <1>7, CreateItemStep DEF Done
<1>8. CASE InsertItem(c)
  BY <1>2, <1>8 DEF InsertItem, Steps, Done, At
<1>9. CASE CloseSession(c)
  BY <1>2, <1>9 DEF CloseSession, Steps, Done, At
<1>10. CASE Fail(c)
  BY <1>2, <1>10 DEF Fail, Steps, Done
<1> QED
  BY <1>3, <1>4, <1>5, <1>6, <1>7, <1>8, <1>9, <1>10 DEF ContinueConfirm

(* A step leaves the confirms alone, begins one, or is a step of one.      *)
LEMMA StepIs ==
    ASSUME TypeInv, NameInv, Next
    PROVE  /\ \A d \in Confirms : Dwindles(d)
           /\ \/ UNCHANGED req
              \/ \E c \in Confirms :
                    /\ \A d \in Confirms \ {c} : req'[d] = req[d]
                    /\ \/ req[c].pc = "ready" /\ req'[c].pc = "object"
                       \/ ContinueConfirm(c) \/ Fail(c)
<1> USE DEF s3vars, listvars
<1>1. CASE UNCHANGED req /\ \A d \in Confirms : Stored(d)' => Stored(d)
  BY <1>1 DEF Dwindles, UpOf
<1>2. ASSUME NEW c \in Confirms, NEW n \in UserNames, UpdateFile(c, n)
      PROVE  UNCHANGED req /\ \A d \in Confirms : Stored(d)' => Stored(d)
  BY <1>2 DEF UpdateFile, Stored, TypeInv, TypeOK
<1>3. ASSUME NEW c \in Confirms, HardDelete(c)
      PROVE  UNCHANGED req /\ \A d \in Confirms : Stored(d)' => Stored(d)
  BY <1>3 DEF HardDelete, Stored, TypeInv, TypeOK
<1>4. ASSUME NEW c \in Confirms, NEW u \in Uploads, BeginConfirm(c, u)
      PROVE  /\ \A d \in Confirms : Dwindles(d)
             /\ \A d \in Confirms \ {c} : req'[d] = req[d]
             /\ req[c].pc = "ready" /\ req'[c].pc = "object"
  <2>1. /\ \A d \in Confirms \ {c} : req'[d] = req[d]
        /\ req[c].pc = "ready" /\ req'[c].pc = "object" /\ storedName' = storedName
    BY <1>4 DEF BeginConfirm, At, TypeInv, TypeOK
  <2> QED
    BY <2>1 DEF Dwindles, Done, UpOf, Stored
<1>5. ASSUME NEW c \in Confirms, ContinueConfirm(c) \/ Fail(c)
      PROVE  /\ \A d \in Confirms : Dwindles(d)
             /\ \A d \in Confirms \ {c} : req'[d] = req[d]
  <2>1. /\ \A d \in Confirms \ {c} : req'[d] = req[d]
        /\ req[c].pc \in Done => req'[c].pc \in Done
        /\ UpOf(c)' = UpOf(c)
    BY <1>5, RequestType, ConfirmMoves
  <2>2. \A d \in Confirms : req[d].pc \in Done /\ Stored(d)' => Stored(d)
    <3>1. CASE CreateFile(c)
      BY <3>1 DEF CreateFile, At, Done, Stored, TypeInv, TypeOK
    <3>2. CASE ~CreateFile(c)
      <4>1. storedName' = storedName
        BY <1>5, <3>2 DEF ContinueConfirm, Fail, CheckObject, CheckQuota, BindFileToRoom, CreateItem, InsertItem,
                          CloseSession
      <4> QED
        BY <4>1 DEF Stored
    <3> QED
      BY <3>1, <3>2
  <2> QED
    BY <2>1, <2>2 DEF Dwindles, UpOf
<1>6. CASE Tick \/ \E U \in SUBSET Uploads : InitUploads(U)
  BY <1>1, <1>6 DEF Tick, InitUploads, Stored
<1>7. CASE (\E u \in Uploads : Put(u) \/ SessionExpires(u)) \/ DeleteRoom
  BY <1>1, <1>7 DEF Put, SessionExpires, DeleteRoom, Stored
<1>8. CASE \E c \in Confirms : SoftDelete(c) \/ Restore(c)
  BY <1>1, <1>8 DEF SoftDelete, Restore, Stored
<1>9. CASE \E c \in Confirms : RemoveFromRoom(c) \/ Purge(c)
  BY <1>1, <1>3, <1>9 DEF RemoveFromRoom, Purge, Stored
<1>10. CASE \E c \in Confirms, n \in UserNames : UpdateFile(c, n)
  BY <1>1, <1>2, <1>10
<1>11. CASE \E c \in Confirms, u \in Uploads : BeginConfirm(c, u)
  BY <1>4, <1>11
<1>12. CASE \E c \in Confirms : ContinueConfirm(c) \/ Fail(c)
  BY <1>5, <1>12
<1> QED
  BY <1>6, <1>7, <1>8, <1>9, <1>10, <1>11, <1>12 DEF Next, InitUploadToRoom, InitUploadToStorage,
     InitUploadToSharedStorage, ConfirmUploadToRoom, ConfirmUploadToStorage, ConfirmUploadToSharedStorage

LEMMA StepSeen == ASSUME TypeInv, NameInv, SeenFits, [Next]_vars PROVE SeenFits'
<1>1. CASE UNCHANGED vars
  <2>1. \A cs : Octets(cs)' = Octets(cs)
    BY <1>1 DEF vars, Octets, UpOf, Stored
  <2> QED
    BY <1>1, <2>1 DEF vars, SeenFits, Bytes, UpOf
<1>2. ASSUME Next, NEW c \in Confirms, req'[c].pc = "insert",
             req[c].pc = "insert", req'[c] = req[c]
      PROVE  /\ \A d \in req'[c].seen : req'[d].pc \in Done
             /\ Bytes(req[c].seen)' + SizeOf[UpOf(c)]' <= MaxBytes
  <2> DEFINE S == req[c].seen
  <2>1. /\ \A d \in S : req[d].pc \in Done
        /\ Bytes(S) + SizeOf[UpOf(c)] <= MaxBytes
    BY <1>2 DEF SeenFits
  <2>2. S \subseteq Confirms /\ UpOf(c) \in Uploads
    BY <1>2 DEF TypeInv, TypeOK, Request, Ready, UpOf
  <2>3. PICK T : T = S
    OBVIOUS
  <2>4. \A d \in T : d \in Confirms /\ req[d].pc \in Done /\ Dwindles(d)
    BY <1>2, <2>1, <2>2, <2>3, StepIs
  <2>5. Octets(T)' \subseteq Octets(T)
    BY <2>4 DEF Octets, Dwindles
  <2>6. IsFiniteSet(Octets(T))
    BY <2>2, <2>3, <2>4, OctetsFinite DEF TypeInv, Done
  <2>7. Bytes(T)' <= Bytes(T) /\ Bytes(T)' \in Nat /\ Bytes(T) \in Nat
    BY <2>5, <2>6, FS_Subset, FS_CardinalityType DEF Bytes
  <2>8. UpOf(c)' = UpOf(c) /\ SizeOf[UpOf(c)] \in Nat
    BY <1>2, <2>2, UploadAssumption DEF UpOf
  <2>9. req'[c].seen = T
    BY <1>2, <2>3
  <2>10. Bytes(req[c].seen)' = Bytes(T)'
    BY <2>9 DEF Bytes, Octets
  <2>11. Bytes(T) + SizeOf[UpOf(c)] <= MaxBytes /\ MaxBytes \in Nat
    BY <2>1, <2>3, UploadAssumption
  <2>12. Bytes(T)' + SizeOf[UpOf(c)]' <= MaxBytes
    BY <2>7, <2>8, <2>11
  <2> QED
    BY <2>4, <2>9, <2>10, <2>12 DEF Dwindles
<1>3. ASSUME Next, NEW c \in Confirms, CreateItem(c), req'[c].pc = "insert"
      PROVE  /\ \A d \in req'[c].seen : req'[d].pc \in Done
             /\ Bytes(req[c].seen)' + SizeOf[UpOf(c)]' <= MaxBytes
  <2>1. /\ req[c].pc = "item" /\ req[c] \in Request /\ req'[c] = [req[c] EXCEPT !.pc = "insert", !.seen = items]
        /\ Fits(UpOf(c)) /\ storedName' = storedName
        /\ \A d \in Confirms \ {c} : req'[d] = req[d]
    <3>1. req[c].pc = "item" /\ req[c] \in Request
      BY <1>3 DEF CreateItem, At, TypeInv, TypeOK, Ready
    <3>2. CASE Goto(c, "failed")
      BY <1>3, <3>1, <3>2, GotoRequest DEF TypeInv
    <3>3. CASE Fits(UpOf(c)) /\ req' = [req EXCEPT ![c].pc = "insert", ![c].seen = items]
      BY <1>3, <3>1, <3>3 DEF CreateItem, TypeInv, TypeOK
    <3> QED
      BY <1>3, <3>2, <3>3 DEF CreateItem
  <2>2. req'[c].seen = items /\ UpOf(c)' = UpOf(c)
    BY <2>1 DEF Request, UpOf
  <2>3. PICK T : T = items
    OBVIOUS
  <2>4. \A d \in T : d \in Confirms /\ req[d].pc \in Done /\ req'[d] = req[d]
    BY <2>1, <2>3, ListedAreDone DEF TypeInv, NameInv, Done
  <2>5. Octets(T)' = Octets(T)
    BY <2>1, <2>4 DEF Octets, UpOf, Stored
  <2>6. Bytes(T) + SizeOf[UpOf(c)] <= MaxBytes
    BY <2>1, <2>3 DEF Fits
  <2>7. Bytes(req[c].seen)' = Bytes(T)
    BY <2>2, <2>3, <2>5 DEF Bytes, Octets
  <2> QED
    BY <2>2, <2>3, <2>4, <2>6, <2>7
<1>4. ASSUME Next, NEW c \in Confirms, req'[c].pc = "insert"
      PROVE  (req[c].pc = "insert" /\ req'[c] = req[c]) \/ CreateItem(c)
  <2>1. CASE UNCHANGED req
    BY <1>4, <2>1
  <2>2. ASSUME NEW e \in Confirms, \A d \in Confirms \ {e} : req'[d] = req[d],
               \/ req[e].pc = "ready" /\ req'[e].pc = "object"
               \/ ContinueConfirm(e) \/ Fail(e)
        PROVE  (req[c].pc = "insert" /\ req'[c] = req[c]) \/ CreateItem(c)
    BY <1>4, <2>2, ConfirmMoves
  <2> QED
    BY <1>4, <2>1, <2>2, StepIs
<1> QED
  BY <1>1, <1>2, <1>3, <1>4 DEF SeenFits

LEMMA InitSeen == Init => SeenFits
  BY DEF Init, SeenFits, Ready

LEMMA UnionBound ==
    ASSUME NEW S, NEW T, IsFiniteSet(S), IsFiniteSet(T)
    PROVE  /\ IsFiniteSet(S \cup T)
           /\ Cardinality(S) \in Nat /\ Cardinality(T) \in Nat /\ Cardinality(S \cup T) \in Nat
           /\ Cardinality(S \cup T) <= Cardinality(S) + Cardinality(T)
<1>1. IsFiniteSet(S \cup T) /\ Cardinality(S \cup T) = Cardinality(S) + Cardinality(T) - Cardinality(S \cap T)
  BY FS_Union
<1>2. IsFiniteSet(S \cap T)
  BY FS_Subset
<1>3. Cardinality(S) \in Nat /\ Cardinality(T) \in Nat /\ Cardinality(S \cap T) \in Nat
  BY <1>2, FS_CardinalityType
<1>4. Cardinality(S \cup T) \in Nat
  BY <1>1, FS_CardinalityType
<1>5. ASSUME NEW a \in Nat, NEW b \in Nat, NEW m \in Nat, NEW u \in Nat, u = a + b - m PROVE u <= a + b
  BY <1>5
<1> QED
  BY <1>1, <1>3, <1>4, <1>5

(* An item inserted: the bytes seen, those of the items since, its own.    *)
LEMMA Overshoots ==
    ASSUME TypeInv, NameInv, SeenFits, NEW c \in Confirms, InsertItem(c)
    PROVE  Bytes(items)' <= MaxBytes + Bytes(items \ req[c].seen)
<1>1. /\ req[c].pc = "insert" /\ items' = items \cup {c} /\ storedName' = storedName /\ Goto(c, "close")
  BY DEF InsertItem, At
<1>2. UpOf(c) \in Uploads /\ req[c] \in Request
  BY <1>1, UpType DEF TypeInv, TypeOK, Ready
<1>3. \A d \in Confirms : UpOf(d)' = UpOf(d)
  BY <1>1, <1>2, GotoRequest DEF TypeInv, Steps, UpOf
<1> DEFINE A == Octets(req[c].seen)
           B == Octets(items \ req[c].seen)
           C == {c} \X (1..SizeOf[UpOf(c)])
           O == Octets(items)'
<1>4. /\ req[c].seen \subseteq Confirms /\ items \subseteq Confirms
      /\ \A d \in req[c].seen \cup items : req[d].pc # "ready"
  BY <1>1, <1>2, ListedAreDone DEF TypeInv, TypeOK, NameInv, SeenFits, Done, Request
<1>5. IsFiniteSet(A) /\ IsFiniteSet(B)
  BY <1>4, OctetsFinite DEF TypeInv
<1>6. IsFiniteSet(C) /\ Cardinality(C) = SizeOf[UpOf(c)] /\ SizeOf[UpOf(c)] \in Nat
  <2>1. SizeOf[UpOf(c)] \in Nat
    BY <1>2, UploadAssumption
  <2>2. IsFiniteSet(1..SizeOf[UpOf(c)]) /\ Cardinality(1..SizeOf[UpOf(c)]) = SizeOf[UpOf(c)]
    <3>1. PICK n \in Nat : n = SizeOf[UpOf(c)]
      BY <2>1
    <3>2. IsFiniteSet(1..n) /\ Cardinality(1..n) = n
      BY FS_Interval
    <3> QED
      BY <3>1, <3>2
  <2>3. IsFiniteSet({c}) /\ Cardinality({c}) = 1
    BY FS_Singleton
  <2>4. IsFiniteSet(C) /\ Cardinality(C) = Cardinality({c}) * Cardinality(1..SizeOf[UpOf(c)])
    <3>1. PICK N : N = 1..SizeOf[UpOf(c)]
      OBVIOUS
    <3>2. IsFiniteSet({c} \X N) /\ Cardinality({c} \X N) = Cardinality({c}) * Cardinality(N)
      BY <2>2, <2>3, <3>1, FS_Product
    <3> QED
      BY <3>1, <3>2
  <2> QED
    BY <2>1, <2>2, <2>3, <2>4
<1>7. O \subseteq A \cup B \cup C
  BY <1>1, <1>3, <1>4 DEF Octets, Stored
<1> HIDE DEF A, B, C, O
<1>8. IsFiniteSet(A \cup B) /\ Cardinality(A \cup B) <= Cardinality(A) + Cardinality(B)
      /\ Cardinality(A) \in Nat /\ Cardinality(B) \in Nat /\ Cardinality(A \cup B) \in Nat
  BY <1>5, UnionBound
<1>9. /\ IsFiniteSet(A \cup B \cup C) /\ Cardinality(A \cup B \cup C) \in Nat
      /\ Cardinality(A \cup B \cup C) <= Cardinality(A \cup B) + Cardinality(C)
  BY <1>6, <1>8, UnionBound
<1>10. Cardinality(O) <= Cardinality(A \cup B \cup C) /\ Cardinality(O) \in Nat
  BY <1>7, <1>9, FS_Subset, FS_CardinalityType
<1>11. Cardinality(A) + SizeOf[UpOf(c)] <= MaxBytes /\ MaxBytes \in Nat
  BY <1>1, UploadAssumption DEF SeenFits, Bytes, A
<1>12. Cardinality(O) <= MaxBytes + Cardinality(B)
  BY <1>6, <1>8, <1>9, <1>10, <1>11
<1> QED
  BY <1>12 DEF O, B, Bytes

(* An upload takes a storage beyond its quota by no more than what others  *)
(* added since createItemInStorage checked it.                             *)
THEOREM QuotaOvershotByOthers == Spec => QuotaOvershoot
<1>1. TypeInv /\ NameInv /\ SeenFits /\ [Next]_vars => [\A c \in Confirms : InsertItem(c) =>
          Bytes(items)' <= MaxBytes + Bytes(items \ req[c].seen)]_vars
  BY Overshoots
<1>2. TypeInv /\ NameInv /\ [Next]_vars => NameInv'
  BY StepNames
<1>3. TypeInv /\ NameInv /\ SeenFits /\ [Next]_vars => SeenFits'
  BY StepSeen
<1> QED
  BY <1>1, <1>2, <1>3, InitType, StepType, InitNames, InitSeen, PTL DEF Spec, QuotaOvershoot
=============================================================================
