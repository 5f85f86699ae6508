-------------------------- MODULE RoomFiles_proofs --------------------------
(***************************************************************************)
(* That the list of a room loses no file and names none that is gone, and  *)
(* that archives are complete: for any files and number of requests.       *)
(***************************************************************************)
EXTENDS RoomFiles, TLAPS

Ended == {"ok", "failed"}

(* A call under way has all its fields; its place tells its kind.          *)
Full(c) == c = [op |-> c.op, pc |-> c.pc, files |-> c.files, seen |-> c.seen,
                version |-> c.version, left |-> c.left, done |-> c.done]
Kind(c) ==
    /\ c.pc # "idle" => Full(c)
    /\ c.op = "none" <=> c.pc = "idle"
    /\ c.pc \in {"make", "push"} => c.op = "bind"
    /\ c.pc \in {"read", "elsewhere", "save"} => c.op = "remove"
    /\ c.pc = "pull" => c.op = "purge"
    /\ c.pc = "delete" => c.op \in {"remove", "purge"}
    /\ c.pc = "flush" => c.op \in {"bind", "remove", "update"}
    /\ c.pc \in {"query", "set"} => c.op = "list"
    /\ c.pc = "write" => c.op = "update"
    /\ c.pc = "copy" => c.op = "archive"

(* An archive that has ended well has copied all it was asked for.         *)
Copied(c) == c.op = "archive" => c.files # {} /\ (c.pc = "ok" => c.done = c.files)

(* A file is added once, and the purge takes what was added.               *)
OnceBound == \A q, r \in Requests :
    q # r /\ Op(q, "bind") /\ Op(r, "bind") => FilesOf(q) \cap FilesOf(r) = {}
PurgesBound == \A r \in Requests : Op(r, "purge") => FilesOf(r) \subseteq Bound

KInv ==
    /\ DOMAIN req = Requests /\ OnceBound /\ PurgesBound /\ ArchiveIsComplete
    /\ \A r \in Requests : Kind(req[r]) /\ Copied(req[r])

(* What a request has found or done to the list, and still holds.          *)
Found(r) ==
    LET c == req[r] IN
    /\ c.pc = "push" => c.files \subseteq stored
    /\ c.pc = "save" => c.version \in Nat /\ c.version <= version
    /\ c.pc = "save" /\ room /\ c.version = version => c.seen = list
    /\ c.op = "remove" /\ c.pc \in {"flush", "delete"} => c.files \cap list = {} \/ c.left
    /\ c.op = "purge" /\ c.pc = "delete" => c.files \cap list = {}
    /\ c.op = "bind" /\ c.pc \in {"flush", "ok"} /\ room => c.files \ Doomed \subseteq list

Alone == \A q, r \in Requests :
    q # r /\ Active(q) /\ Active(r) => ~Clash(req[q].op, req[r].op)

LInv ==
    /\ list \subseteq stored \cup Left /\ (~room => list = {}) /\ version \in Nat /\ Alone
    /\ \A r \in Requests : Found(r)

-----------------------------------------------------------------------------
(* What a step makes of its request: it stays of its kind, with its files. *)
Stays(r) ==
    /\ DOMAIN req' = Requests /\ \A q \in Requests \ {r} : req'[q] = req[q]
    /\ req'[r].op = req[r].op /\ req'[r].files = req[r].files
    /\ req[r].left => req'[r].left

LEMMA GotoStep ==
    ASSUME KInv, NEW r \in Requests, NEW pc, Goto(r, pc), ~At(r, "idle")
    PROVE  /\ Stays(r) /\ Full(req'[r]) /\ req'[r].pc = pc /\ req'[r].done = req[r].done
           /\ req'[r].seen = req[r].seen /\ req'[r].version = req[r].version /\ req'[r].left = req[r].left
  BY DEF KInv, Kind, Full, Goto, At, Stays

LEMMA LeaveStep ==
    ASSUME KInv, NEW r \in Requests, LeaveListed(r), ~At(r, "idle")
    PROVE  Stays(r) /\ Full(req'[r]) /\ req'[r].pc = "delete" /\ req'[r].left
<1>1. Full(req[r]) /\ DOMAIN req = Requests
  BY DEF KInv, Kind, At
<1>2. /\ DOMAIN req' = Requests /\ \A q \in Requests \ {r} : req'[q] = req[q]
      /\ req'[r] = [req[r] EXCEPT !.pc = "delete", !.left = TRUE]
  BY <1>1 DEF LeaveListed
<1> QED
  BY <1>1, <1>2 DEF Full, Stays

LEMMA ReadRoomIs ==
    ASSUME KInv, NEW r \in Requests, ReadRoom(r)
    PROVE  /\ Stays(r) /\ Full(req'[r]) /\ Op(r, "remove")
           /\ \/ /\ req'[r].pc = "save"
                 /\ req'[r].seen = list /\ req'[r].version = version
              \/ req'[r].pc = "delete" /\ (room => FilesOf(r) \cap list = {})
<1>1. ~At(r, "idle") /\ Op(r, "remove")
  BY DEF ReadRoom, KInv, Kind, At, Op
<1>2. CASE room /\ FilesOf(r) \cap list # {}
  <2>1. req' = [req EXCEPT ![r].pc = "save", ![r].seen = list, ![r].version = version]
    BY <1>2 DEF ReadRoom
  <2>2. Full(req[r]) /\ DOMAIN req = Requests
    BY <1>1 DEF KInv, Kind, At
  <2>3. /\ DOMAIN req' = Requests /\ \A q \in Requests \ {r} : req'[q] = req[q]
        /\ req'[r] = [req[r] EXCEPT !.pc = "save", !.seen = list, !.version = version]
    BY <2>1, <2>2
  <2> QED
    BY <1>1, <2>2, <2>3 DEF Full, Stays, At
<1>3. CASE ~(room /\ FilesOf(r) \cap list # {})
  <2>1. Goto(r, "delete")
    BY <1>3 DEF ReadRoom, Goto
  <2> QED
    BY <1>1, <1>3, <2>1, GotoStep
<1> QED
  BY <1>2, <1>3

LEMMA QueryRoomIs ==
    ASSUME KInv, NEW r \in Requests, QueryRoom(r)
    PROVE  Stays(r) /\ Full(req'[r]) /\ Op(r, "list") /\ req'[r].pc \in {"set", "failed"}
<1>1. ~At(r, "idle") /\ Op(r, "list")
  BY DEF QueryRoom, KInv, Kind, At, Op
<1>2. CASE room
  <2>1. req' = [req EXCEPT ![r].pc = "set", ![r].seen = Listing]
    BY <1>2 DEF QueryRoom
  <2>2. Full(req[r]) /\ DOMAIN req = Requests
    BY <1>1 DEF KInv, Kind, At
  <2>3. /\ DOMAIN req' = Requests /\ \A q \in Requests \ {r} : req'[q] = req[q]
        /\ req'[r] = [req[r] EXCEPT !.pc = "set", !.seen = Listing]
    BY <2>1, <2>2
  <2> QED
    BY <1>1, <2>2, <2>3 DEF Full, Stays, At
<1>3. CASE ~room
  <2>1. Goto(r, "failed")
    BY <1>3 DEF QueryRoom, Goto
  <2> QED
    BY <1>1, <2>1, GotoStep
<1> QED
  BY <1>2, <1>3

LEMMA CopyIs ==
    ASSUME KInv, NEW r \in Requests, NEW f \in Files, CopyFile(r, f)
    PROVE  Stays(r) /\ Full(req'[r]) /\ Op(r, "archive") /\ req'[r].pc \in {"copy", "failed"}
<1>1. ~At(r, "idle") /\ Op(r, "archive") /\ At(r, "copy")
  BY DEF CopyFile, KInv, Kind, At, Op
<1>2. CASE f \in stored
  <2>1. req' = [req EXCEPT ![r].done = @ \cup {f}]
    BY <1>2 DEF CopyFile
  <2>2. Full(req[r]) /\ DOMAIN req = Requests
    BY <1>1 DEF KInv, Kind, At
  <2>3. /\ DOMAIN req' = Requests /\ \A q \in Requests \ {r} : req'[q] = req[q]
        /\ req'[r] = [req[r] EXCEPT !.done = @ \cup {f}]
    BY <2>1, <2>2
  <2> QED
    BY <1>1, <2>2, <2>3 DEF Full, Stays, At
<1>3. CASE f \notin stored
  <2>1. Goto(r, "failed")
    BY <1>3 DEF CopyFile, Goto
  <2> QED
    BY <1>1, <2>1, GotoStep
<1> QED
  BY <1>2, <1>3

(* A request that begins.                                                  *)
LEMMA StartIs ==
    ASSUME NEW r \in Requests, Start(r)
    PROVE  \E c : /\ Begin(r, c) /\ Full(c) /\ Kind(c) /\ Copied(c)
                  /\ c.pc \in {"make", "write", "read", "pull", "query", "copy", "elsewhere"}
                  /\ c.op = "bind" => \A q \in Requests : ~Op(q, "none") => c.files \cap FilesOf(q) = {}
                  /\ c.op = "purge" => c.files \subseteq Bound
<1> DEFINE Begun(c) ==
         /\ Begin(r, c) /\ Full(c) /\ Kind(c) /\ Copied(c)
         /\ c.pc \in {"make", "write", "read", "pull", "query", "copy", "elsewhere"}
         /\ c.op = "bind" => \A q \in Requests : ~Op(q, "none") => c.files \cap FilesOf(q) = {}
         /\ c.op = "purge" => c.files \subseteq Bound
<1>1. ASSUME NEW f \in Files, BeginBind(r, f) PROVE \E c : Begun(c)
  <2>1. Begun(Call("bind", "make", {f}))
    BY <1>1 DEF BeginBind, Call, Full, Kind, Copied
  <2> QED
    BY <2>1
<1>2. ASSUME NEW f \in Files, BeginUpdate(r, f) PROVE \E c : Begun(c)
  <2>1. Begun(Call("update", "write", {f}))
    BY <1>2 DEF BeginUpdate, Call, Full, Kind, Copied
  <2> QED
    BY <2>1
<1>3. ASSUME NEW fs, BeginHardDelete(r, "remove", fs) PROVE \E c : Begun(c)
  <2>1. Begun(Call("remove", "read", fs))
    BY <1>3 DEF BeginHardDelete, Call, Full, Kind, Copied
  <2> QED
    BY <2>1
<1>4. ASSUME NEW fs, BeginHardDelete(r, "purge", fs) PROVE \E c : Begun(c)
  <2>1. Begun(Call("purge", "pull", fs))
    BY <1>4 DEF BeginHardDelete, Removable, Call, Full, Kind, Copied, Known
  <2> QED
    BY <2>1
<1>7. ASSUME NEW fs, BeginDeleteElsewhere(r, fs) PROVE \E c : Begun(c)
  <2>1. Begun(Call("remove", "elsewhere", fs))
    BY <1>7 DEF BeginDeleteElsewhere, Call, Full, Kind, Copied
  <2> QED
    BY <2>1
<1>5. ASSUME BeginList(r) PROVE \E c : Begun(c)
  <2>1. Begun(Call("list", "query", {}))
    BY <1>5 DEF BeginList, Call, Full, Kind, Copied
  <2> QED
    BY <2>1
<1>6. ASSUME NEW fs, BeginArchive(r, fs) PROVE \E c : Begun(c)
  <2>1. Begun(Call("archive", "copy", fs))
    BY <1>6 DEF BeginArchive, Call, Full, Kind, Copied
  <2> QED
    BY <2>1
<1> QED
  BY <1>1, <1>2, <1>3, <1>4, <1>5, <1>6, <1>7 DEF Start, ArchiveRoom

-----------------------------------------------------------------------------
LEMMA KindInit == Init => KInv
<1> SUFFICES ASSUME Init PROVE KInv
  OBVIOUS
<1>1. DOMAIN req = Requests /\ archived = FALSE
      /\ \A r \in Requests : req[r].op = "none" /\ req[r].pc = "idle"
  BY DEF Init, Idle
<1> QED
  BY <1>1 DEF KInv, OnceBound, PurgesBound, ArchiveIsComplete, Kind, Copied, Op

LEMMA KindBegins ==
    ASSUME KInv, NEW r \in Requests, Start(r)
    PROVE  KInv'
<1>1. PICK c : /\ Begin(r, c) /\ Full(c) /\ Kind(c) /\ Copied(c)
               /\ c.pc \in {"make", "write", "read", "pull", "query", "copy", "elsewhere"}
               /\ c.op = "bind" => \A q \in Requests : ~Op(q, "none") => c.files \cap FilesOf(q) = {}
               /\ c.op = "purge" => c.files \subseteq Bound
  BY StartIs
<1>2. /\ DOMAIN req' = Requests /\ req'[r] = c /\ \A q \in Requests \ {r} : req'[q] = req[q]
      /\ archived' = archived /\ req[r].pc = "idle" /\ req[r].op = "none"
  BY <1>1 DEF Begin, KInv, Kind, At, docvars
<1>3. Bound' = Bound
  BY <1>1, <1>2 DEF Bound, Op, At, FilesOf
<1>4. OnceBound'
  <2>1. ASSUME NEW q \in Requests, q # r, Op(q, "bind"), c.op = "bind"
        PROVE  c.files \cap FilesOf(q) = {}
    BY <1>1, <2>1 DEF Op
  <2> QED
    BY <1>2, <2>1 DEF KInv, OnceBound, Op, FilesOf
<1>5. PurgesBound'
  BY <1>1, <1>2, <1>3 DEF KInv, PurgesBound, Op, FilesOf
<1>6. ArchiveIsComplete'
  BY <1>1, <1>2 DEF KInv, ArchiveIsComplete, Op, At, FilesOf
<1> QED
  BY <1>1, <1>2, <1>4, <1>5, <1>6 DEF KInv

(* A request that goes on to a place of its kind.                          *)
LEMMA KindGoes ==
    ASSUME KInv, NEW r \in Requests, Stays(r), Kind(req'[r]), Copied(req'[r]),
           req[r].pc \notin {"ok"},
           archived' => archived \/ (Op(r, "archive") /\ req'[r].pc = "ok")
    PROVE  KInv'
<1>1. \A q \in Requests : req'[q].op = req[q].op /\ req'[q].files = req[q].files
  BY DEF Stays
<1>2. Bound \subseteq Bound'
  BY <1>1 DEF Bound, Op, At, FilesOf, Stays
<1>3. OnceBound' /\ PurgesBound'
  BY <1>1, <1>2 DEF KInv, OnceBound, PurgesBound, Op, FilesOf
<1>4. ArchiveIsComplete'
  BY DEF KInv, ArchiveIsComplete, Copied, Op, At, FilesOf, Stays
<1> QED
  BY <1>3, <1>4 DEF KInv, Stays

LEMMA KindStep == ASSUME KInv, [Next]_vars PROVE KInv'
<1>1. ASSUME NEW r \in Requests, Start(r) PROVE KInv'
  BY <1>1, KindBegins
<1>2. ASSUME NEW r \in Requests, NEW pc, Goto(r, pc), ~At(r, "idle"), ~At(r, "ok"),
             archived' = archived,
             \/ pc = "push" /\ Op(r, "bind")
             \/ pc = "flush" /\ req[r].op \in {"bind", "remove", "update"}
             \/ pc = "delete" /\ req[r].op \in {"remove", "purge"}
             \/ pc = "ok" /\ ~Op(r, "archive")
             \/ pc = "failed"
      PROVE  KInv'
  <2>1. Stays(r) /\ Full(req'[r]) /\ req'[r].pc = pc /\ req'[r].done = req[r].done
    BY <1>2, GotoStep
  <2>2. Kind(req'[r]) /\ Copied(req'[r])
    BY <1>2, <2>1 DEF KInv, Kind, Copied, Stays, Op, At
  <2> QED
    BY <1>2, <2>1, <2>2, KindGoes DEF At
<1>3. ASSUME NEW r \in Requests, Continue(r) PROVE KInv'
  <2>1. CASE CreateFileMeta(r) \/ BindFileToRoom(r) \/ PullFiles(r) \/ DeleteMany(r) \/ WriteName(r)
    BY <1>2, <2>1 DEF CreateFileMeta, BindFileToRoom, PullFiles, DeleteMany, WriteName,
                      KInv, Kind, At, Op
  <2>2. CASE InvalidateRoomCache(r) \/ SaveRoom(r) \/ LogRemoveError(r) \/ ReadOtherRoom(r) \/ FillCache(r)
    <3>1. CASE req[r].pc \in {"read", "elsewhere", "save"} /\ LeaveListed(r) /\ archived' = archived
      <4>1. ~At(r, "idle") /\ Op(r, "remove")
        BY <3>1 DEF KInv, Kind, At, Op
      <4>2. Stays(r) /\ Full(req'[r]) /\ req'[r].pc = "delete"
        BY <3>1, <4>1, LeaveStep
      <4>3. Kind(req'[r]) /\ Copied(req'[r])
        BY <4>1, <4>2 DEF Kind, Copied, Stays, Op
      <4> QED
        BY <3>1, <4>1, <4>2, <4>3, KindGoes DEF At
    <3>2. CASE ~LeaveListed(r)
      BY <1>2, <2>2, <3>2 DEF InvalidateRoomCache, SaveRoom, LogRemoveError, ReadOtherRoom, FillCache, docvars,
                              KInv, Kind, At, Op
    <3>3. CASE InvalidateRoomCache(r) \/ FillCache(r)
      BY <1>2, <3>3 DEF InvalidateRoomCache, FillCache, docvars, KInv, Kind, At, Op
    <3>4. CASE LogRemoveError(r) /\ At(r, "flush") /\ Op(r, "remove") /\ Goto(r, "delete")
      BY <1>2, <3>4 DEF LogRemoveError, docvars, At, Op
    <3>5. CASE SaveRoom(r) /\ Goto(r, "flush")
      BY <1>2, <3>5 DEF SaveRoom, KInv, Kind, At, Op
    <3> QED
      BY <2>2, <3>1, <3>2, <3>3, <3>4, <3>5 DEF SaveRoom, LogRemoveError, ReadOtherRoom, At, docvars
  <2>3. CASE ReadRoom(r) \/ QueryRoom(r)
    <3>1. archived' = archived /\ ~At(r, "idle") /\ ~At(r, "ok")
      BY <2>3 DEF ReadRoom, QueryRoom, At, docvars
    <3>2. /\ Stays(r) /\ Full(req'[r]) /\ ~Op(r, "archive")
          /\ \/ req'[r].pc \in {"save", "delete"} /\ Op(r, "remove")
             \/ req'[r].pc \in {"set", "failed"} /\ Op(r, "list")
      BY <2>3, ReadRoomIs, QueryRoomIs DEF Op
    <3>3. Kind(req'[r]) /\ Copied(req'[r])
      BY <3>2 DEF Kind, Copied, Stays, Op
    <3> QED
      BY <3>1, <3>2, <3>3, KindGoes DEF At
  <2>4. ASSUME NEW f \in Files, CopyFile(r, f) PROVE KInv'
    <3>1. archived' = archived /\ ~At(r, "ok")
      BY <2>4 DEF CopyFile, At, docvars
    <3>2. Stays(r) /\ Full(req'[r]) /\ req'[r].pc \in {"copy", "failed"} /\ Op(r, "archive")
      BY <2>4, CopyIs
    <3>3. Kind(req'[r]) /\ Copied(req'[r])
      BY <3>2 DEF KInv, Kind, Copied, Stays, Op
    <3> QED
      BY <3>1, <3>2, <3>3, KindGoes DEF At
  <2>5. CASE MarkArchived(r)
    <3>1. Goto(r, "ok") /\ ~At(r, "idle") /\ Op(r, "archive") /\ ~At(r, "ok") /\ req[r].done = FilesOf(r)
      BY <2>5 DEF MarkArchived, KInv, Kind, At, Op
    <3>2. Stays(r) /\ Full(req'[r]) /\ req'[r].pc = "ok" /\ req'[r].done = req[r].done
      BY <3>1, GotoStep
    <3>3. Kind(req'[r]) /\ Copied(req'[r])
      BY <3>1, <3>2 DEF KInv, Kind, Copied, Stays, Op, FilesOf
    <3> QED
      BY <3>1, <3>2, <3>3, KindGoes DEF At
  <2> QED
    BY <1>3, <2>1, <2>2, <2>3, <2>4, <2>5 DEF Continue
<1>4. ASSUME NEW r \in Requests, Fail(r) PROVE KInv'
  BY <1>2, <1>4 DEF Fail, Active, At, docvars
<1>5. CASE CacheExpires \/ DeleteRoom \/ UNCHANGED vars
  BY <1>5 DEF CacheExpires, DeleteRoom, vars, docvars, KInv, OnceBound, PurgesBound,
              ArchiveIsComplete, Bound, Op, At, FilesOf
<1> QED
  BY <1>1, <1>3, <1>4, <1>5 DEF Next

(* archiveRoom marks a room only when every file asked for is copied,      *)
(* whatever else is under way.                                             *)
THEOREM ArchivesAreWhole == Spec => []ArchiveIsComplete
<1>1. KInv => ArchiveIsComplete
  BY DEF KInv
<1> QED
  BY <1>1, KindInit, KindStep, PTL DEF Spec

-----------------------------------------------------------------------------
LEMMA ListInit == Init => LInv
<1> SUFFICES ASSUME Init PROVE LInv
  OBVIOUS
<1>1. /\ \A r \in Requests : req[r].op = "none" /\ req[r].pc = "idle"
      /\ list = {} /\ stored = {} /\ room /\ version = 0
  BY DEF Init, Idle
<1> QED
  BY <1>1 DEF LInv, Alone, Found, Active

(* A request that begins finds none beside which it may not run.           *)
LEMMA ListBegins ==
    ASSUME RemoveAlone, KInv, LInv, NEW r \in Requests, Start(r)
    PROVE  LInv'
<1>1. PICK c : /\ Begin(r, c) /\ Full(c) /\ Kind(c)
               /\ c.pc \in {"make", "write", "read", "pull", "query", "copy", "elsewhere"}
  BY StartIs
<1>2. /\ DOMAIN req' = Requests /\ req'[r] = c /\ \A q \in Requests \ {r} : req'[q] = req[q]
      /\ req[r].pc = "idle" /\ req[r].op = "none"
      /\ UNCHANGED <<stored, list, room, version>>
  BY <1>1 DEF Begin, KInv, Kind, At, docvars
<1>3. Alone'
  <2>1. \A q \in Requests : Active(q) => ~Clash(c.op, req[q].op) /\ ~Clash(req[q].op, c.op)
    BY <1>1 DEF Begin
  <2> QED
    BY <1>2, <2>1 DEF LInv, Alone, Active
<1>4. Doomed \subseteq Doomed' /\ Left \subseteq Left'
  BY <1>2 DEF Doomed, Left, Op, FilesOf
<1>5. ASSUME NEW q \in Requests PROVE Found(q)'
  <2>1. CASE q = r
    BY <1>1, <1>2, <2>1 DEF Found
  <2>2. CASE q # r
    BY <1>2, <1>4, <2>2 DEF LInv, Found
  <2> QED
    BY <2>1, <2>2
<1> QED
  BY <1>2, <1>3, <1>4, <1>5 DEF LInv

(* What one step of a request does to the list and the documents.          *)
Writes(r) ==
    \/ UNCHANGED <<stored, list, version>>
    \/ At(r, "make") /\ stored' = stored \cup FilesOf(r) /\ UNCHANGED <<list, version>>
    \/ At(r, "push") /\ list' = (IF room THEN list \cup FilesOf(r) ELSE list) /\ UNCHANGED <<stored, version>>
    \/ /\ At(r, "save") /\ room /\ list' = list \ FilesOf(r)
       /\ version' = version + 1 /\ UNCHANGED stored
    \/ At(r, "pull") /\ list' = list \ FilesOf(r) /\ UNCHANGED <<stored, version>>
    \/ At(r, "delete") /\ stored' = stored \ FilesOf(r) /\ UNCHANGED <<list, version>>

(* What a purge takes was added, and a bind that has not ended adds what   *)
(* no other request takes.                                                 *)
LEMMA PurgeApart ==
    ASSUME KInv, NEW p \in Requests, NEW b \in Requests, Op(p, "purge"), Op(b, "bind"), ~At(b, "ok")
    PROVE  FilesOf(p) \cap FilesOf(b) = {}
<1> SUFFICES ASSUME NEW f, f \in FilesOf(p), f \in FilesOf(b) PROVE FALSE
  OBVIOUS
<1>1. PICK q \in Requests : Op(q, "bind") /\ At(q, "ok") /\ f \in FilesOf(q)
  BY DEF KInv, PurgesBound, Bound
<1>2. q # b
  BY <1>1
<1> QED
  BY <1>1, <1>2 DEF KInv, OnceBound

(* A step of a request keeps what the others have found.                   *)
LEMMA ListGoes ==
    ASSUME KInv, LInv, NEW r \in Requests, Active(r), Stays(r), Writes(r), room' = room, Found(r)'
    PROVE  LInv'
<1>1. \A q \in Requests : req'[q].op = req[q].op /\ req'[q].files = req[q].files
  BY DEF Stays
<1>2. Doomed' = Doomed /\ Left \subseteq Left'
  BY <1>1 DEF Doomed, Left, Op, FilesOf, Stays
<1>3. Alone'
  BY <1>1 DEF LInv, Alone, Active, Stays
<1>4. Kind(req[r]) /\ Found(r)
  BY DEF KInv, LInv
<1>5. list' \subseteq stored' \cup Left' /\ (~room' => list' = {}) /\ version' \in Nat
  <2>1. CASE At(r, "push")
    BY <1>2, <1>4, <2>1 DEF Writes, LInv, Found, At, FilesOf
  <2>2. CASE At(r, "delete")
    <3>1. FilesOf(r) \cap list \subseteq Left
      BY <1>4, <2>2 DEF Found, Kind, Left, At, Op, FilesOf
    <3> QED
      BY <1>2, <2>2, <3>1 DEF Writes, LInv, At
  <2>3. CASE ~At(r, "push") /\ ~At(r, "delete")
    <3>1. list' \subseteq list /\ stored \subseteq stored' /\ version' \in Nat
      BY <2>3 DEF Writes, LInv
    <3> QED
      BY <1>2, <3>1 DEF LInv
  <2> QED
    BY <2>1, <2>2, <2>3
<1>6. ASSUME NEW q \in Requests, q # r PROVE Found(q)'
  <2>1. req'[q] = req[q] /\ Found(q) /\ Kind(req[q])
    BY <1>6 DEF Stays, KInv, LInv
  <2>2. Active(q) => ~Clash(req[q].op, req[r].op) /\ ~Clash(req[r].op, req[q].op)
    BY <1>6 DEF LInv, Alone
  <2>3. CASE UNCHANGED <<stored, list, version>> \/ At(r, "make")
    BY <1>2, <2>1, <2>3 DEF Found, Writes, At
  <2>4. CASE At(r, "push")
    <3>1. req[r].op = "bind" /\ UNCHANGED <<stored, version>>
      BY <1>4, <2>4 DEF Kind, At, Writes
    <3>2. req[q].op = "remove" => ~Active(q)
      BY <2>2, <3>1 DEF Clash
    <3>3. list \subseteq list' /\ list' \subseteq list \cup FilesOf(r)
      BY <2>4 DEF Writes, At
    <3>4. req[q].op = "purge" => req[q].files \cap FilesOf(r) = {}
      BY <2>4, <3>1, PurgeApart DEF Op, At, FilesOf
    <3>5. req[q].pc = "save" => req[q].op = "remove"
      BY <2>1 DEF Kind
    <3> QED
      BY <1>2, <2>1, <3>1, <3>2, <3>3, <3>4, <3>5 DEF Found, Active
  <2>5. CASE At(r, "save") \/ At(r, "pull")
    <3>1. req[r].op \in {"remove", "purge"}
      BY <1>4, <2>5 DEF Kind, At
    <3>2. req[q].pc = "save" => At(r, "save")
      BY <1>4, <2>1, <2>2, <2>5, <3>1 DEF Kind, Clash, Active, At
    <3>3. /\ list' \subseteq list /\ list \ FilesOf(r) \subseteq list' /\ stored' = stored
          /\ version \in Nat /\ version' \in {version, version + 1}
          /\ At(r, "save") => version' = version + 1 \/ UNCHANGED <<list, version>>
      BY <2>5 DEF Writes, LInv, At
    <3>4. FilesOf(r) \subseteq Doomed
      BY <3>1 DEF Doomed, Op
    <3>5. req[q].pc = "save" =>
            /\ req[q].version \in Nat /\ req[q].version <= version'
            /\ room /\ req[q].version = version' => req[q].seen = list'
      BY <2>1, <3>2, <3>3 DEF Found
    <3> QED
      BY <1>2, <2>1, <3>3, <3>4, <3>5 DEF Found
  <2>6. CASE At(r, "delete")
    <3>1. req[r].op \in {"remove", "purge"} /\ UNCHANGED <<list, version>>
          /\ (stored \ FilesOf(r) \subseteq stored')
      BY <1>4, <2>6 DEF Kind, At, Writes
    <3>2. req[q].pc = "push" => req[q].op = "bind" /\ Active(q)
      BY <2>1 DEF Kind, Active
    <3>3. req[q].pc = "push" => req[q].files \cap FilesOf(r) = {}
      BY <2>2, <3>1, <3>2, PurgeApart DEF Clash, Op, At, FilesOf
    <3> QED
      BY <1>2, <2>1, <3>1, <3>3 DEF Found
  <2> QED
    BY <2>3, <2>4, <2>5, <2>6 DEF Writes
<1> QED
  BY <1>3, <1>5, <1>6 DEF LInv

LEMMA ListStep == ASSUME RemoveAlone, KInv, LInv, [Next]_vars PROVE LInv'
<1>1. ASSUME NEW r \in Requests, Start(r) PROVE LInv'
  BY <1>1, ListBegins
<1>2. ASSUME NEW r \in Requests PROVE Found(r) /\ Kind(req[r])
  BY DEF KInv, LInv
<1>3. ASSUME NEW r \in Requests, NEW pc, Goto(r, pc), Active(r)
      PROVE  Stays(r) /\ req'[r].pc = pc
  BY <1>3, GotoStep DEF Active, At
<1>4. ASSUME NEW r \in Requests, Continue(r) PROVE LInv'
  <2>1. CASE CreateFileMeta(r)
    <3>1. /\ Active(r) /\ Goto(r, "push") /\ room' = room /\ Writes(r)
          /\ stored' = stored \cup FilesOf(r) /\ Op(r, "bind")
      BY <1>2, <2>1 DEF CreateFileMeta, Active, At, Writes, Kind, Op
    <3>2. Stays(r) /\ req'[r].pc = "push"
      BY <1>3, <3>1
    <3>3. Found(r)'
      BY <3>1, <3>2 DEF Found, Stays, FilesOf, Op
    <3> QED
      BY <3>1, <3>2, <3>3, ListGoes
  <2>2. CASE BindFileToRoom(r)
    <3>1. /\ Active(r) /\ Goto(r, "flush") /\ room' = room /\ Writes(r) /\ Op(r, "bind")
          /\ room => FilesOf(r) \subseteq list'
      BY <1>2, <2>2 DEF BindFileToRoom, Active, At, Writes, Kind, Op
    <3>2. Stays(r) /\ req'[r].pc = "flush"
      BY <1>3, <3>1
    <3>3. Found(r)'
      BY <3>1, <3>2 DEF Found, Stays, FilesOf, Op
    <3> QED
      BY <3>1, <3>2, <3>3, ListGoes
  <2>3. CASE InvalidateRoomCache(r)
    <3>1. /\ Active(r) /\ room' = room /\ Writes(r) /\ UNCHANGED list
          /\ Goto(r, IF Op(r, "remove") THEN "delete" ELSE "ok")
          /\ req[r].op \in {"bind", "remove", "update"} /\ req[r].pc = "flush"
      BY <1>2, <2>3 DEF InvalidateRoomCache, docvars, Active, At, Writes, Kind, Op
    <3>2. Stays(r) /\ req'[r].pc = IF Op(r, "remove") THEN "delete" ELSE "ok"
      BY <1>3, <3>1
    <3>3. Doomed' = Doomed
      BY <3>2 DEF Doomed, Op, FilesOf, Stays
    <3>4. Found(r)'
      BY <1>2, <3>1, <3>2, <3>3 DEF Found, Stays, Op
    <3> QED
      BY <3>1, <3>2, <3>4, ListGoes
  <2>4. CASE ReadRoom(r)
    <3>1. /\ Active(r) /\ Writes(r) /\ UNCHANGED <<room, list, version>> /\ version \in Nat
      BY <2>4 DEF ReadRoom, docvars, Active, At, Writes, LInv
    <3>2. /\ Stays(r) /\ Op(r, "remove")
          /\ \/ /\ req'[r].pc = "save"
                /\ req'[r].seen = list /\ req'[r].version = version
             \/ req'[r].pc = "delete" /\ FilesOf(r) \cap list = {}
      BY <2>4, ReadRoomIs DEF LInv
    <3>3. Found(r)'
      BY <3>1, <3>2 DEF Found, Stays, FilesOf, Op
    <3> QED
      BY <3>1, <3>2, <3>3, ListGoes
  <2>5. CASE SaveRoom(r)
    <3>1. Active(r) /\ Op(r, "remove") /\ req[r].pc = "save" /\ room' = room
      BY <1>2, <2>5 DEF SaveRoom, Active, At, Op, Kind
    <3>2. CASE LeaveListed(r) /\ UNCHANGED <<list, version, stored>>
      <4>1. Stays(r) /\ req'[r].pc = "delete" /\ req'[r].left
        BY <3>1, <3>2, LeaveStep DEF Active, At
      <4>2. Found(r)' /\ Writes(r)
        BY <3>1, <3>2, <4>1 DEF Found, Writes, Stays, Op
      <4> QED
        BY <3>1, <4>1, <4>2, ListGoes
    <3>3. CASE room /\ version = req[r].version /\ Goto(r, "flush")
      <4>1. Writes(r) /\ FilesOf(r) \cap list' = {}
        BY <1>2, <2>5, <3>1, <3>3 DEF SaveRoom, Writes, Found, At
      <4>2. Stays(r) /\ req'[r].pc = "flush"
        BY <1>3, <3>1, <3>3
      <4>3. Found(r)'
        BY <3>1, <4>1, <4>2 DEF Found, Stays, FilesOf, Op
      <4> QED
        BY <3>1, <4>1, <4>2, <4>3, ListGoes
    <3> QED
      BY <2>5, <3>2, <3>3 DEF SaveRoom
  <2>9. CASE LogRemoveError(r) \/ ReadOtherRoom(r)
    <3>1. Active(r) /\ Op(r, "remove") /\ UNCHANGED <<room, list, version, stored>> /\ Writes(r)
      BY <1>2, <2>9 DEF LogRemoveError, ReadOtherRoom, Active, At, Op, Kind, docvars, Writes
    <3>2. CASE LeaveListed(r)
      <4>1. Stays(r) /\ req'[r].pc = "delete" /\ req'[r].left
        BY <3>1, <3>2, LeaveStep DEF Active, At
      <4>2. Found(r)'
        BY <3>1, <4>1 DEF Found, Stays, Op
      <4> QED
        BY <3>1, <4>1, <4>2, ListGoes
    <3>3. CASE At(r, "flush") /\ Goto(r, "delete")
      <4>1. Stays(r) /\ req'[r].pc = "delete"
        BY <1>3, <3>1, <3>3
      <4>2. Found(r)'
        BY <1>2, <3>1, <3>3, <4>1 DEF Found, Stays, Op, At
      <4> QED
        BY <3>1, <4>1, <4>2, ListGoes
    <3> QED
      BY <2>9, <3>2, <3>3 DEF LogRemoveError, ReadOtherRoom
  <2>6. CASE PullFiles(r)
    <3>1. /\ Active(r) /\ Goto(r, "delete") /\ room' = room /\ Writes(r)
          /\ FilesOf(r) \cap list' = {} /\ Op(r, "purge")
      BY <1>2, <2>6 DEF PullFiles, Active, At, Writes, Kind, Op
    <3>2. Stays(r) /\ req'[r].pc = "delete"
      BY <1>3, <3>1
    <3>3. Found(r)'
      BY <3>1, <3>2 DEF Found, Stays, FilesOf, Op
    <3> QED
      BY <3>1, <3>2, <3>3, ListGoes
  <2>7. CASE DeleteMany(r)
    <3>1. /\ Active(r) /\ Goto(r, "ok") /\ room' = room /\ Writes(r) /\ req[r].op # "bind"
      BY <1>2, <2>7 DEF DeleteMany, Active, At, Writes, Kind, Op
    <3>2. Stays(r) /\ req'[r].pc = "ok"
      BY <1>3, <3>1
    <3>3. Found(r)'
      BY <3>1, <3>2 DEF Found, Stays
    <3> QED
      BY <3>1, <3>2, <3>3, ListGoes
  <2>8. CASE WriteName(r) \/ FillCache(r) \/ QueryRoom(r) \/ (\E f \in Files : CopyFile(r, f)) \/ MarkArchived(r)
    <3>1. Active(r) /\ Writes(r) /\ room' = room /\ req[r].op \in {"update", "list", "archive"}
      BY <1>2, <2>8 DEF WriteName, FillCache, QueryRoom, CopyFile, MarkArchived, docvars,
                        Active, At, Writes, Kind
    <3>2. Stays(r) /\ req'[r].pc \notin {"push", "save"}
      <4>1. CASE WriteName(r) \/ FillCache(r) \/ MarkArchived(r)
        <5>1. Goto(r, "flush") \/ Goto(r, "ok")
          BY <4>1 DEF WriteName, FillCache, MarkArchived
        <5> QED
          BY <1>3, <3>1, <5>1
      <4>2. CASE QueryRoom(r) \/ \E f \in Files : CopyFile(r, f)
        BY <4>2, QueryRoomIs, CopyIs
      <4> QED
        BY <2>8, <4>1, <4>2
    <3>3. Found(r)'
      BY <3>1, <3>2 DEF Found, Stays
    <3> QED
      BY <3>1, <3>2, <3>3, ListGoes
  <2> QED
    BY <1>4, <2>1, <2>2, <2>3, <2>4, <2>5, <2>6, <2>7, <2>8, <2>9 DEF Continue
<1>5. ASSUME NEW r \in Requests, Fail(r) PROVE LInv'
  <2>1. Active(r) /\ Goto(r, "failed") /\ room' = room /\ Writes(r)
    BY <1>5 DEF Fail, docvars, Writes
  <2>2. Stays(r) /\ req'[r].pc = "failed"
    BY <1>3, <2>1
  <2>3. Found(r)'
    BY <2>2 DEF Found
  <2> QED
    BY <2>1, <2>2, <2>3, ListGoes
<1>6. CASE CacheExpires \/ UNCHANGED vars
  BY <1>6 DEF CacheExpires, vars, docvars, LInv, Alone, Found, Active, Doomed, Left, Op, FilesOf
<1>7. CASE DeleteRoom
  <2>1. UNCHANGED <<stored, version, req>> /\ room' = FALSE /\ list' = {}
    BY <1>7 DEF DeleteRoom
  <2> QED
    BY <2>1 DEF LInv, Alone, Found, Active, Doomed, Op, FilesOf
<1> QED
  BY <1>1, <1>4, <1>5, <1>6, <1>7 DEF Next

LEMMA Always == ASSUME RemoveAlone PROVE Spec => [](KInv /\ LInv)
<1>1. Init => KInv /\ LInv
  BY KindInit, ListInit
<1>2. KInv /\ LInv /\ [Next]_vars => (KInv /\ LInv)'
  BY KindStep, ListStep
<1> QED
  BY <1>1, <1>2, PTL DEF Spec

(* bindFileToRoom puts a file in the list, and as long as removals run     *)
(* alone no other write of the list drops it.                              *)
THEOREM AddedFilesStay == ASSUME RemoveAlone PROVE Spec => []NothingLost
<1>1. ASSUME LInv PROVE NothingLost
  <2> SUFFICES ASSUME room, NEW r \in Requests, Op(r, "bind"), At(r, "ok"),
                      NEW f \in FilesOf(r), f \notin Doomed
               PROVE  f \in list
    BY DEF NothingLost, Bound
  <2> QED
    BY <1>1 DEF LInv, Found, Op, At, FilesOf
<1>2. LInv => NothingLost
  BY <1>1
<1> QED
  BY <1>2, Always, PTL

(* hardDeleteFiles deletes a document whose id is still in the room only   *)
(* if the list it was to write was another's or could not be written, and  *)
(* ids are added after the documents are made.                             *)
THEOREM ListedFilesExist == ASSUME RemoveAlone PROVE Spec => []ListIsReal
<1>1. LInv => ListIsReal
  BY DEF LInv, ListIsReal
<1> QED
  BY <1>1, Always, PTL

=============================================================================
