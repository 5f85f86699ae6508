--------------------------- MODULE StorageTree_proofs ---------------------------
(***************************************************************************)
(* Proofs about modules StorageTree and StorageNames, for every value of   *)
(* their constants.                                                        *)
(***************************************************************************)
EXTENDS StorageNames, FiniteSetTheorems, SequenceTheorems, TLAPS

-----------------------------------------------------------------------------
(* Type correctness.                                                       *)

LEMMA IdleCall == Idle \in Call
BY TreeAssumption DEF Idle, Call, Local

(* Reading the children of a folder keeps the collected sets sets of items.*)
LEMMA ExpandCall ==
    ASSUME NEW c \in Call, NEW d \in Items
    PROVE  Expand(c, d) \in Call
<1>1. Children(d) \subseteq Items
  BY DEF Children
<1> QED
  BY <1>1 DEF Expand, Call, Local

LEMMA ExpandPurge ==
    ASSUME NEW d \in Items, purge \in PurgeJob
    PROVE  Expand(purge, d) \in PurgeJob
<1>1. Children(d) \subseteq Items
  BY DEF Children
<1> QED
  BY <1>1 DEF Expand, PurgeJob

LEMMA UpdateManyType ==
    ASSUME status \in [Items -> Status], NEW ids, NEW s \in Status,
           UpdateMany(ids, s)
    PROVE  status' \in [Items -> Status]
BY DEF UpdateMany

(* A handler's local variables can only be replaced by good ones.          *)
LEMMA GotoType ==
    ASSUME TypeOK, NEW h \in Handlers, NEW c \in Call,
           call' = [call EXCEPT ![h] = c]
    PROVE  call' \in [Handlers -> Call]
BY DEF TypeOK

(* No step puts a variable out of its type.                                *)
LEMMA TypeStep ==
    ASSUME TypeOK, [Next]_vars PROVE TypeOK'
<1> USE TreeAssumption
<1>1. ASSUME NEW h \in Handlers, Start(h) PROVE TypeOK'
  <2>1. ASSUME NEW c \in Call, Begin(h, c) PROVE TypeOK'
    <3>1. requests' \in 0..MaxRequests
      BY <2>1 DEF Begin, TypeOK
    <3> QED
      BY <2>1, <3>1, GotoType DEF Begin, TypeOK
  <2>2. ASSUME NEW i \in Items, NEW to \in Items \cup {Root},
               BeginCreate(h, i, to)
        PROVE  TypeOK'
    BY <2>1, <2>2 DEF BeginCreate, Idle, Call, Local
  <2>3. ASSUME NEW i \in Items, NEW to \in Items \cup {Root},
               BeginMove(h, i, to)
        PROVE  TypeOK'
    BY <2>1, <2>3 DEF BeginMove, Idle, Call, Local
  <2>4. ASSUME NEW i \in Items, BeginDelete(h, i) PROVE TypeOK'
    BY <2>1, <2>4 DEF BeginDelete, Idle, Call, Local
  <2>5. ASSUME NEW i \in Items, NEW to \in Items \cup {Root, Original},
               BeginRestore(h, i, to)
        PROVE  TypeOK'
    <3> DEFINE at == IF to = Original THEN parent[i] ELSE to
               c == [Idle EXCEPT !.op = "restore", !.item = i, !.to = to, !.at = at,
                           !.pc = IF at = Root THEN "save" ELSE "target"]
    <3>1. at \in Items \cup {Root}
      BY DEF TypeOK
    <3>2. c \in Call
      BY <3>1 DEF Idle, Call, Local
    <3>3. Begin(h, c)
      BY <2>5 DEF BeginRestore
    <3> QED
      BY <2>1, <3>2, <3>3
  <2>6. ASSUME NEW i \in Items, BeginSchedule(h, i) PROVE TypeOK'
    BY <2>1, <2>6 DEF BeginSchedule, Idle, Call, Local
  <2> QED
    BY <1>1, <2>2, <2>3, <2>4, <2>5, <2>6 DEF Start
<1>2. ASSUME NEW h \in Handlers, Continue(h) PROVE TypeOK'
  <2> DEFINE CallsTyped ==
        /\ call' \in [Handlers -> Call]
        /\ purge' \in PurgeJob
        /\ requests' \in 0..MaxRequests
  <2>1. /\ call[h] \in Call
        /\ call[h].item \in Items \cup {Root}
        /\ call[h].at \in Items \cup {Root}
        /\ call[h].to \in Items \cup {Root, Original}
        /\ call[h].todo \subseteq Items
        /\ call[h].to = Original => call[h].op = "restore"
        /\ call[h].op # "none" => call[h].item \in Items
    BY DEF TypeOK, Call, Local
  <2>2. ASSUME NEW c \in Call, Goto(h, c) PROVE CallsTyped
    BY <2>2, GotoType DEF Goto, TypeOK
  <2>3. ASSUME Finish(h) PROVE CallsTyped
    BY <2>2, <2>3, IdleCall DEF Finish
  <2>4. CASE CreateInsert(h)
    <3>1. call[h].to \in Items \cup {Root}
      BY <2>1, <2>4 DEF CreateInsert, At
    <3>2. status' \in [Items -> Status] /\ parent' \in [Items -> Items \cup {Root}]
      BY <3>1, <2>4 DEF CreateInsert, TypeOK, Status, Stored
    <3> QED
      BY <2>3, <2>4, <3>2 DEF CreateInsert, TypeOK
  <2>5. CASE MoveTarget(h)
    <3>1. /\ [call[h] EXCEPT !.pc = "walk"] \in Call
          /\ [call[h] EXCEPT !.pc = "save"] \in Call
      BY <2>1 DEF Call, Local
    <3> QED
      BY <3>1, <2>2, <2>3, <2>5 DEF MoveTarget, TypeOK
  <2>6. CASE MoveWalk(h)
    <3>1. /\ [call[h] EXCEPT !.pc = "save"] \in Call
          /\ Exists(call[h].at) => [call[h] EXCEPT !.at = parent[call[h].at]] \in Call
      BY <2>1 DEF Call, Local, Exists, TypeOK
    <3> QED
      BY <3>1, <2>2, <2>3, <2>6 DEF MoveWalk, TypeOK
  <2>7. CASE MoveSave(h)
    <3>1. call[h].to \in Items \cup {Root}
      BY <2>1, <2>7 DEF MoveSave, At
    <3>2. parent' \in [Items -> Items \cup {Root}]
      BY <3>1, <2>7 DEF MoveSave, TypeOK
    <3> QED
      BY <2>3, <2>7, <3>2 DEF MoveSave, TypeOK
  <2>8. CASE Collect(h)
    BY <2>1, <2>2, <2>8, ExpandCall DEF Collect, TypeOK
  <2>9. CASE DeleteWrite(h)
    BY <2>3, <2>9, UpdateManyType DEF DeleteWrite, TypeOK, Status, Stored, Trashed
  <2>10. CASE RestoreTarget(h)
    <3>1. [call[h] EXCEPT !.pc = "save"] \in Call
      BY <2>1 DEF Call, Local
    <3> QED
      BY <3>1, <2>2, <2>3, <2>10 DEF RestoreTarget, TypeOK
  <2>11. CASE RestoreRoot(h)
    <3>1. Exists(call[h].item) => call[h].item \in Items
      BY DEF Exists
    <3>2. parent' \in [Items -> Items \cup {Root}]
      BY <3>1, <2>1, <2>11 DEF RestoreRoot, TypeOK
    <3>3. status' \in [Items -> Status]
      BY <2>11, UpdateManyType DEF RestoreRoot, TypeOK, Status, Stored
    <3>4. [call[h] EXCEPT !.pc = "collect", !.todo = {call[h].item}] \in Call
      BY <2>1, <2>11 DEF Call, Local, RestoreRoot, At
    <3> QED
      BY <3>4, <3>2, <3>3, <2>2, <2>11 DEF RestoreRoot, TypeOK
  <2>12. CASE RestoreChildren(h)
    BY <2>3, <2>12, UpdateManyType DEF RestoreChildren, TypeOK, Status, Stored
  <2>13. CASE ScheduleWrite(h)
    BY <2>3, <2>13, UpdateManyType DEF ScheduleWrite, TypeOK, Status, Stored, Trashed
  <2> QED
    BY <1>2, <2>4, <2>5, <2>6, <2>7, <2>8, <2>9, <2>10, <2>11, <2>12, <2>13
    DEF Continue
<1>3. CASE RetentionElapses
  BY <1>3 DEF RetentionElapses, TypeOK, Status, Stored, Trashed
<1>4. CASE PurgeScan
  BY <1>4 DEF PurgeScan, TypeOK, PurgeJob, Resting
<1>5. CASE PurgePick
  BY <1>5 DEF PurgePick, TypeOK, PurgeJob, Resting
<1>6. CASE PurgeCollect
  <2>1. purge.todo \subseteq Items
    BY DEF TypeOK, PurgeJob
  <2> QED
    BY <1>6, <2>1, ExpandPurge DEF PurgeCollect, TypeOK
<1>7. CASE PurgeDelete
  BY <1>7, UpdateManyType DEF PurgeDelete, TypeOK, PurgeJob, Resting, Status
<1>8. CASE UNCHANGED vars
  BY <1>8 DEF vars, TypeOK
<1> QED
  BY <1>1, <1>2, <1>3, <1>4, <1>5, <1>6, <1>7, <1>8 DEF Next, PurgeStep

(* The documents and the handlers' variables keep their types.             *)
THEOREM TypeCorrect == Spec => []TypeOK
<1>1. Init => TypeOK
  BY TreeAssumption, IdleCall
  DEF Init, TypeOK, Status, Stored, Trashed, PurgeJob, Resting
<1> QED
  BY <1>1, TypeStep, PTL DEF Spec

-----------------------------------------------------------------------------
(* Requests served one at a time: MaxInFlight = 1.                         *)

(* A request or a purge only begins when nothing else is under way.        *)
LEMMA NothingInFlight ==
    ASSUME TypeOK, InFlight < 1
    PROVE  purge = Resting /\ \A h \in Handlers : call[h] = Idle
<1>1. IsFiniteSet(Busy)
  BY TreeAssumption, FS_Subset DEF Busy
<1>2. Cardinality(Busy) \in Nat
  BY <1>1, FS_CardinalityType
<1>3. purge = Resting /\ Cardinality(Busy) = 0
  BY <1>2 DEF InFlight
<1>4. Busy = {}
  BY <1>1, <1>3, FS_EmptySet
<1> QED
  BY <1>3, <1>4 DEF Busy

LEMMA IdleInv == HandlerInv(Idle)
BY DEF HandlerInv, Idle

(* An idle service has no purge list to be wrong about.                    *)
LEMMA RestingInv ==
    ASSUME purge' = Resting PROVE PurgeInv'
BY DEF PurgeInv, Resting, ClosedBut

(* A closed set of items can be thrown away or destroyed as a whole.       *)
LEMMA CloseWrite ==
    ASSUME TypeOK, Tree, NEW ids \in SUBSET Items, ClosedBut(ids, {}),
           NEW s \in Trashed \cup {"gone"}, UpdateMany(ids, s), UNCHANGED parent
    PROVE  Tree'
<1>1. ParentIsFolder'
  BY DEF Tree, ParentIsFolder
<1>2. \A i \in Items : Exists(i)' => Exists(i)
  BY DEF UpdateMany, Exists, Stored, Trashed
<1>3. NoOrphan'
  <2> SUFFICES ASSUME NEW i \in Items, Exists(i)', parent[i] # Root
               PROVE  Exists(parent[i])'
    BY DEF NoOrphan
  <2>1. Exists(i) /\ Exists(parent[i]) /\ parent[i] \in Items
    BY <1>2, TreeAssumption DEF Tree, NoOrphan, Exists, TypeOK
  <2>2. CASE s = "gone"
    <3>1. i \notin ids
      BY <2>1, <2>2 DEF UpdateMany, Exists, Stored, Trashed
    <3>2. parent[i] \notin ids
      BY <3>1, <2>1 DEF ClosedBut, Children
    <3> QED
      BY <2>1, <3>2 DEF UpdateMany, Exists
  <2>3. CASE s # "gone"
    BY <2>1, <2>3 DEF UpdateMany, Exists, Stored
  <2> QED
    BY <2>2, <2>3
<1>4. TrashClosed'
  <2> SUFFICES ASSUME NEW i \in Items, Exists(i)', IsTrash(parent[i])'
               PROVE  IsTrash(i)'
    BY DEF TrashClosed
  <2>1. Exists(i) /\ parent[i] \in Items
    BY <1>2 DEF IsTrash
  <2>2. CASE i \in ids
    BY <2>1, <2>2 DEF UpdateMany, IsTrash, Exists, Stored
  <2>3. CASE i \notin ids
    <3>1. parent[i] \notin ids
      BY <2>1, <2>3 DEF ClosedBut, Children
    <3>2. IsTrash(parent[i])
      BY <3>1, <2>1 DEF UpdateMany, IsTrash
    <3>3. IsTrash(i)
      BY <3>2, <2>1 DEF Tree, TrashClosed
    <3> QED
      BY <3>3, <2>3 DEF UpdateMany, IsTrash
  <2> QED
    BY <2>2, <2>3
<1> QED
  BY <1>1, <1>3, <1>4 DEF Tree

(* Descendants of a live item can be brought back with it.                 *)
LEMMA ReviveWrite ==
    ASSUME TypeOK, Tree, NEW root, IsLive(root), NEW ids \in SUBSET Items,
           \A i \in ids : Exists(i) /\ parent[i] \in ids \cup {root},
           UpdateMany(ids, "live"), UNCHANGED parent
    PROVE  Tree'
<1>1. ParentIsFolder'
  BY DEF Tree, ParentIsFolder
<1>2. \A i \in Items : Exists(i)' <=> Exists(i)
  BY DEF UpdateMany, Exists, Stored
<1>3. NoOrphan'
  <2> SUFFICES ASSUME NEW i \in Items, Exists(i)', parent[i] # Root
               PROVE  Exists(parent[i])'
    BY DEF NoOrphan
  <2>1. Exists(parent[i]) /\ parent[i] \in Items
    BY <1>2 DEF Tree, NoOrphan, Exists
  <2> QED
    BY <1>2, <2>1
<1>4. TrashClosed'
  <2> SUFFICES ASSUME NEW i \in Items, Exists(i)', IsTrash(parent[i])'
               PROVE  IsTrash(i)'
    BY DEF TrashClosed
  <2>1. Exists(i) /\ parent[i] \in Items
    BY <1>2 DEF IsTrash
  <2>2. parent[i] \notin ids /\ IsTrash(parent[i])
    BY <2>1 DEF UpdateMany, IsTrash, Exists, Stored, Trashed
  <2>3. parent[i] # root
    BY <2>2 DEF IsTrash, IsLive, Trashed
  <2>4. i \notin ids
    BY <2>2, <2>3
  <2>5. IsTrash(i)
    BY <2>1, <2>2 DEF Tree, TrashClosed
  <2> QED
    BY <2>4, <2>5 DEF UpdateMany, IsTrash
<1> QED
  BY <1>1, <1>3, <1>4 DEF Tree

(* An item hung below a live folder or at the top, and live itself, leaves *)
(* the tree in order: the last step of create, move and restore.           *)
LEMMA HangWrite ==
    ASSUME TypeOK, Tree, NEW i \in Items, NEW to \in Items \cup {Root},
           to = Root \/ IsLive(to), to \in Folders \cup {Root},
           status' = [status EXCEPT ![i] = "live"],
           parent' = [parent EXCEPT ![i] = to]
    PROVE  Tree'
<1> USE TreeAssumption
<1>1. ParentIsFolder'
  BY DEF Tree, ParentIsFolder, TypeOK
<1>2. \A j \in Items \ {i} : parent'[j] = parent[j] /\ status'[j] = status[j]
  BY DEF TypeOK
<1>3. status'[i] = "live" /\ parent'[i] = to
  BY DEF TypeOK
<1>4. NoOrphan'
  <2> SUFFICES ASSUME NEW j \in Items, Exists(j)', parent'[j] # Root
               PROVE  Exists(parent[j])'
    BY DEF NoOrphan
  <2>1. CASE j = i
    BY <1>2, <1>3, <2>1 DEF Exists, IsLive, Stored
  <2>2. CASE j # i
    BY <1>2, <1>3, <2>2 DEF Exists, Tree, NoOrphan, Stored
  <2> QED
    BY <2>1, <2>2
<1>5. TrashClosed'
  <2> SUFFICES ASSUME NEW j \in Items, Exists(j)', IsTrash(parent[j])'
               PROVE  IsTrash(j)'
    BY DEF TrashClosed
  <2>1. parent'[j] # i
    BY <1>3 DEF IsTrash, Trashed
  <2>2. CASE j = i
    BY <1>2, <1>3, <2>1, <2>2 DEF IsTrash, IsLive, Trashed
  <2>3. CASE j # i
    BY <1>2, <2>1, <2>3 DEF Tree, TrashClosed, IsTrash, Exists
  <2> QED
    BY <2>2, <2>3
<1> QED
  BY <1>1, <1>4, <1>5 DEF Tree

-----------------------------------------------------------------------------
(* The serial invariant is inductive.                                      *)

(* A step of the only request under way: what is left to show is that the  *)
(* tree is in order and that the handler knows what it should.             *)
LEMMA HandlerStep ==
    ASSUME SerialInv, TypeOK', Tree', NEW h \in Handlers, call[h] # Idle,
           NEW c, call' = [call EXCEPT ![h] = c], UNCHANGED purge,
           HandlerInv(call[h])'
    PROVE  SerialInv'
<1>1. \A g \in Handlers \ {h} : call[g] = Idle /\ call'[g] = Idle
  BY DEF SerialInv, Alone, TypeOK
<1>2. purge' = Resting
  BY DEF SerialInv, Alone
<1>3. Alone'
  BY <1>1, <1>2 DEF Alone
<1>4. \A g \in Handlers : HandlerInv(call[g])'
  <2> SUFFICES ASSUME NEW g \in Handlers, g # h PROVE HandlerInv(call[g])'
    OBVIOUS
  <2>1. call'[g] = Idle
    BY <1>1
  <2> QED
    BY <2>1 DEF HandlerInv, Idle
<1> QED
  BY <1>2, <1>3, <1>4, RestingInv DEF SerialInv

(* The same when the request ends.                                         *)
LEMMA FinishStep ==
    ASSUME SerialInv, TypeOK', Tree', NEW h \in Handlers, call[h] # Idle,
           Finish(h)
    PROVE  SerialInv'
<1>1. call'[h] = Idle
  BY DEF Finish, Goto, SerialInv, TypeOK
<1>2. HandlerInv(call[h])'
  BY <1>1 DEF HandlerInv, Idle
<1> QED
  BY <1>2, HandlerStep DEF Finish, Goto

(* A request begins.                                                       *)
LEMMA BeginStep ==
    ASSUME MaxInFlight = 1, SerialInv, TypeOK', NEW h \in Handlers, NEW c,
           Begin(h, c), HandlerInv(c)
    PROVE  SerialInv'
<1>1. purge = Resting /\ \A g \in Handlers : call[g] = Idle
  BY NothingInFlight DEF Begin, SerialInv
<1>2. \A g \in Handlers : call'[g] = IF g = h THEN c ELSE Idle
  BY <1>1 DEF Begin, SerialInv, TypeOK
<1>3. UNCHANGED <<status, parent, purge>>
  BY DEF Begin
<1>4. Alone'
  BY <1>1, <1>2, <1>3 DEF Alone
<1>5. \A g \in Handlers : HandlerInv(call[g])'
  <2> TAKE g \in Handlers
  <2>1. CASE g = h
    <3>1. call'[g] = c
      BY <1>2, <2>1
    <3> QED
      BY <1>3, <3>1 DEF HandlerInv, Exists, IsLive, IsTrash, LiveDir,
                        ClosedBut, Children, RestoreAt
  <2>2. CASE g # h
    <3>1. call'[g] = Idle
      BY <1>2, <2>2
    <3> QED
      BY <3>1 DEF HandlerInv, Idle
  <2> QED
    BY <2>1, <2>2
<1>6. Tree'
  BY <1>3 DEF SerialInv, Tree, ParentIsFolder, NoOrphan, TrashClosed, Exists, IsTrash
<1> QED
  BY <1>1, <1>3, <1>4, <1>5, <1>6, RestingInv DEF SerialInv

LEMMA StartKeepsSerialInv ==
    ASSUME MaxInFlight = 1, SerialInv, TypeOK', NEW h \in Handlers, Start(h)
    PROVE  SerialInv'
<1> USE TreeAssumption
<1>1. ASSUME NEW i \in Items, NEW to \in Items \cup {Root}, BeginCreate(h, i, to)
      PROVE  SerialInv'
  <2> DEFINE c == [Idle EXCEPT !.op = "create", !.pc = "save", !.item = i, !.to = to]
  <2>1. HandlerInv(c)
    BY <1>1 DEF BeginCreate, HandlerInv, Idle
  <2> QED
    BY <1>1, <2>1, BeginStep DEF BeginCreate
<1>2. ASSUME NEW i \in Items, NEW to \in Items \cup {Root}, BeginMove(h, i, to)
      PROVE  SerialInv'
  <2> DEFINE c == [Idle EXCEPT !.op = "move", !.item = i, !.to = to, !.at = to,
                               !.pc = IF to = Root THEN "save" ELSE "target"]
  <2>1. HandlerInv(c)
    BY <1>2 DEF BeginMove, HandlerInv, Idle
  <2> QED
    BY <1>2, <2>1, BeginStep DEF BeginMove
<1>3. ASSUME NEW i \in Items, BeginDelete(h, i) PROVE SerialInv'
  <2> DEFINE c == [Idle EXCEPT !.op = "delete", !.pc = "collect", !.item = i,
                               !.ids = {i}, !.todo = {i}]
  <2>1. HandlerInv(c)
    BY <1>3 DEF BeginDelete, HandlerInv, Idle, ClosedBut, Exists, IsLive, IsTrash, Stored
  <2> QED
    BY <1>3, <2>1, BeginStep DEF BeginDelete
<1>4. ASSUME NEW i \in Items, NEW to \in Items \cup {Root, Original}, BeginRestore(h, i, to)
      PROVE  SerialInv'
  <2> DEFINE at == IF to = Original THEN parent[i] ELSE to
             c == [Idle EXCEPT !.op = "restore", !.item = i, !.to = to, !.at = at,
                               !.pc = IF at = Root THEN "save" ELSE "target"]
  <2>1. HandlerInv(c)
    BY <1>4 DEF BeginRestore, HandlerInv, Idle, RestoreAt
  <2>2. Begin(h, c)
    BY <1>4 DEF BeginRestore
  <2> QED
    BY <2>1, <2>2, BeginStep
<1>5. ASSUME NEW i \in Items, BeginSchedule(h, i) PROVE SerialInv'
  <2> DEFINE c == [Idle EXCEPT !.op = "schedule", !.pc = "collect", !.item = i,
                               !.ids = {i}, !.todo = {i}]
  <2>1. HandlerInv(c)
    BY <1>5 DEF BeginSchedule, HandlerInv, Idle, ClosedBut
  <2> QED
    BY <1>5, <2>1, BeginStep DEF BeginSchedule
<1> QED
  BY <1>1, <1>2, <1>3, <1>4, <1>5 DEF Start

(* One more folder read: only the folders still to be expanded have        *)
(* children outside of what was collected.                                 *)
LEMMA ExpandCloses ==
    ASSUME ParentIsFolder, NEW all \in SUBSET Items, NEW todo \in SUBSET Items,
           NEW d \in todo, ClosedBut(all, todo)
    PROVE  ClosedBut(all \cup Children(d), (todo \ {d}) \cup (Children(d) \cap Folders))
<1>1. \A f \in Items \ Folders : Children(f) = {}
  BY TreeAssumption DEF ParentIsFolder, Children
<1> QED
  BY <1>1 DEF ClosedBut, Children

(* What a read changes nothing but the handler's own variables.            *)
LEMMA TreeFrame ==
    ASSUME Tree, UNCHANGED <<status, parent>> PROVE Tree'
BY DEF Tree, ParentIsFolder, NoOrphan, TrashClosed, Exists, IsTrash

LEMMA CollectKeepsSerialInv ==
    ASSUME SerialInv, TypeOK', NEW h \in Handlers, Collect(h)
    PROVE  SerialInv'
<1> USE TreeAssumption
<1>1. PICK d \in call[h].todo : Goto(h, Expand(call[h], d))
  BY DEF Collect
<1> DEFINE c == call[h]
           kids == Children(d)
<1>2. c.pc = "collect" /\ c \in Call /\ c # Idle /\ HandlerInv(c)
  BY DEF Collect, SerialInv, TypeOK, Idle
<1>3. UNCHANGED <<status, parent>>
  BY DEF Collect
<1>4. /\ c.ids \subseteq Items /\ c.todo \subseteq Items
      /\ c.op # "none" => c.item \in Items
  BY <1>2 DEF Call, Local
<1>5. call'[h] = [c EXCEPT !.ids = @ \cup kids, !.todo = (@ \ {d}) \cup (kids \cap Folders)]
  BY <1>1 DEF Goto, Expand, SerialInv, TypeOK
<1>6. /\ call'[h].op = c.op /\ call'[h].pc = "collect" /\ call'[h].item = c.item
      /\ call'[h].to = c.to /\ call'[h].ids = c.ids \cup kids
      /\ call'[h].todo = (c.todo \ {d}) \cup (kids \cap Folders)
  BY <1>2, <1>5 DEF Call, Local
<1>7. \A k \in kids : Exists(k) /\ parent[k] = d
  BY DEF Children
<1>8. HandlerInv(call[h])'
  <2>1. CASE c.op \in {"delete", "schedule"}
    <3>1. ClosedBut(c.ids, c.todo) /\ d \in c.ids
      BY <1>2, <2>1, <1>1 DEF HandlerInv, ClosedBut
    <3>2. ClosedBut(call'[h].ids, call'[h].todo)
      BY <1>4, <1>6, <3>1, ExpandCloses, <1>1 DEF SerialInv, Tree
    <3>3. \A k \in kids : IsTrash(k) \/ (c.op = "delete" /\ IsLive(k))
      BY <1>2, <1>7, <2>1, <3>1
      DEF HandlerInv, SerialInv, Tree, TrashClosed, Exists, IsTrash, IsLive, Stored
    <3> QED
      BY <1>2, <1>3, <1>6, <2>1, <3>2, <3>3
      DEF HandlerInv, ClosedBut, Children, Exists, IsTrash, IsLive
  <2>2. CASE c.op = "restore"
    <3> DEFINE all == c.ids \cup {c.item}
    <3>1. /\ ClosedBut(all, c.todo) /\ d \in all /\ IsLive(c.item)
          /\ \A i \in c.ids : Exists(i) /\ parent[i] \in all
      BY <1>2, <2>2, <1>1 DEF HandlerInv, ClosedBut
    <3>2. ClosedBut(all \cup kids, call'[h].todo)
      BY <1>4, <1>6, <3>1, <2>2, ExpandCloses, <1>1 DEF SerialInv, Tree
    <3>3. all \cup kids = call'[h].ids \cup {c.item}
      BY <1>6
    <3>4. \A i \in call'[h].ids : Exists(i) /\ parent[i] \in call'[h].ids \cup {c.item}
      BY <1>6, <1>7, <3>1
    <3>5. IsLive(c.item) /\ ClosedBut(call'[h].ids \cup {c.item}, call'[h].todo)
      BY <3>1, <3>2, <3>3
    <3> HIDE DEF all
    <3> QED
      BY <1>3, <1>6, <2>2, <3>4, <3>5, <1>2
      DEF HandlerInv, ClosedBut, Children, Exists, IsLive, Stored
  <2>3. CASE c.op \notin {"delete", "schedule", "restore"}
    BY <1>2, <1>6, <2>3 DEF HandlerInv, Call, Local
  <2> QED
    BY <2>1, <2>2, <2>3
<1>9. Tree'
  BY <1>3, TreeFrame DEF SerialInv
<1> QED
  BY <1>1, <1>2, <1>8, <1>9, HandlerStep DEF Goto, Expand

LEMMA ContinueKeepsSerialInv ==
    ASSUME SerialInv, TypeOK', NEW h \in Handlers, Continue(h)
    PROVE  SerialInv'
<1> USE TreeAssumption
<1> DEFINE c == call[h]
<1>1. /\ c \in Call /\ HandlerInv(c)
      /\ c.to \in Items \cup {Root, Original} /\ c.ids \subseteq Items
      /\ c.op # "none" => c.item \in Items
      /\ c.to = Original => c.op = "restore"
  BY DEF SerialInv, TypeOK, Call, Local
<1>2. Tree /\ TypeOK
  BY DEF SerialInv
<1>3. ASSUME c.op # "none" PROVE c # Idle
  BY <1>3 DEF Idle
<1>4. ASSUME c.op # "none", Finish(h), Tree' PROVE SerialInv'
  BY <1>3, <1>4, FinishStep
<1>5. ASSUME c.op # "none", NEW n, Goto(h, n), Tree', HandlerInv(call[h])' PROVE SerialInv'
  BY <1>3, <1>5, HandlerStep DEF Goto
<1>6. ASSUME NEW n, Goto(h, n) PROVE call'[h] = n
  BY <1>2, <1>6 DEF Goto, TypeOK
<1>7. ASSUME UNCHANGED <<status, parent>> PROVE Tree'
  BY <1>2, <1>7, TreeFrame
<1>8. CASE CreateInsert(h)
  <2>1. /\ c.item \in Items /\ c.op # "none" /\ c.to \in Items \cup {Root}
        /\ c.to = Root \/ IsLive(c.to)
        /\ c.to \in Folders \cup {Root}
    BY <1>1, <1>8 DEF CreateInsert, At, HandlerInv, LiveDir
  <2>2. Tree'
    BY <1>2, <1>8, <2>1, HangWrite DEF CreateInsert
  <2> QED
    BY <1>4, <1>8, <2>1, <2>2 DEF CreateInsert
<1>9. CASE MoveTarget(h)
  <2>1. Tree' /\ c.op = "move" /\ c.pc = "target" /\ UNCHANGED status
    BY <1>7, <1>9 DEF MoveTarget, At
  <2>2. ASSUME NEW pc \in {"walk", "save"}, LiveDir(c.to),
               Goto(h, [c EXCEPT !.pc = pc])
        PROVE  SerialInv'
    <3>1. HandlerInv(call[h])'
      BY <1>1, <1>6, <2>1, <2>2 DEF HandlerInv, IsLive, LiveDir, Call, Local
    <3> QED
      BY <1>5, <2>1, <2>2, <3>1
  <2> QED
    BY <1>4, <1>9, <2>1, <2>2 DEF MoveTarget
<1>10. CASE MoveWalk(h)
  <2>1. Tree' /\ c.op = "move" /\ c.pc = "walk" /\ UNCHANGED status
    BY <1>7, <1>10 DEF MoveWalk, At
  <2>2. ASSUME NEW n, n \in {[c EXCEPT !.pc = "save"], [c EXCEPT !.at = parent[c.at]]},
               Goto(h, n)
        PROVE  SerialInv'
    <3>1. HandlerInv(call[h])'
      BY <1>1, <1>6, <2>1, <2>2 DEF HandlerInv, IsLive, LiveDir, Call, Local
    <3> QED
      BY <1>5, <2>1, <2>2, <3>1
  <2> QED
    BY <1>4, <1>10, <2>1, <2>2 DEF MoveWalk
<1>11. CASE MoveSave(h)
  <2>1. /\ c.op = "move" /\ c.pc = "save" /\ IsLive(c.item) /\ c.item \in Items
        /\ c.to \in Items \cup {Root} /\ (c.to = Root \/ LiveDir(c.to))
    BY <1>1, <1>11 DEF MoveSave, At, HandlerInv
  <2>2. status' = [status EXCEPT ![c.item] = "live"]
    BY <1>2, <1>11, <2>1 DEF MoveSave, IsLive, TypeOK
  <2>3. parent' = [parent EXCEPT ![c.item] = c.to]
    BY <1>11, <2>1 DEF MoveSave, IsLive, Exists, Stored
  <2>4. Tree'
    BY <1>2, <2>1, <2>2, <2>3, HangWrite DEF LiveDir
  <2> QED
    BY <1>4, <1>11, <2>1, <2>4 DEF MoveSave
<1>12. CASE Collect(h)
  BY <1>12, CollectKeepsSerialInv
<1>13. ASSUME NEW s \in {"trash", "waiting"}, c.op \in {"delete", "schedule"},
              c.todo = {}, UpdateMany(c.ids, s), Finish(h), UNCHANGED parent
       PROVE  SerialInv'
  <2>1. ClosedBut(c.ids, {})
    BY <1>1, <1>13 DEF HandlerInv
  <2>2. Tree'
    BY <1>1, <1>2, <1>13, <2>1, CloseWrite DEF Trashed
  <2> QED
    BY <1>4, <1>13, <2>2
<1>14. CASE DeleteWrite(h)
  BY <1>13, <1>14 DEF DeleteWrite, Collected, At
<1>15. CASE ScheduleWrite(h)
  BY <1>13, <1>15 DEF ScheduleWrite, Collected, At
<1>16. CASE RestoreTarget(h)
  <2>1. Tree' /\ c.op = "restore" /\ c.pc = "target" /\ UNCHANGED <<status, parent>>
    BY <1>7, <1>16 DEF RestoreTarget, At
  <2>2. ASSUME IsLive(c.at), c.to # Original => c.at \in Folders,
               Goto(h, [c EXCEPT !.pc = "save"])
        PROVE  SerialInv'
    <3>1. Exists(c.item) /\ c.at = RestoreAt(c)
      BY <1>1, <2>1 DEF HandlerInv
    <3>2. IsLive(RestoreAt(c)) /\ (c.to = Original \/ LiveDir(c.to))
      BY <2>2, <3>1 DEF RestoreAt, LiveDir
    <3>3. HandlerInv(call[h])'
      BY <1>1, <1>6, <2>1, <2>2, <3>1, <3>2
      DEF HandlerInv, IsLive, LiveDir, RestoreAt, Exists, Call, Local
    <3> QED
      BY <1>5, <2>1, <2>2, <3>3
  <2> QED
    BY <1>4, <1>16, <2>1, <2>2 DEF RestoreTarget
<1>17. CASE RestoreRoot(h)
  <2>1. c.op = "restore" /\ c.pc = "save" /\ Exists(c.item) /\ c.item \in Items
    BY <1>1, <1>17 DEF RestoreRoot, At, HandlerInv
  <2>2. status' = [status EXCEPT ![c.item] = "live"]
    BY <1>2, <1>17, <2>1 DEF RestoreRoot, UpdateMany, TypeOK
  <2>3. parent' = [parent EXCEPT ![c.item] = RestoreAt(c)]
    BY <1>2, <1>17, <2>1 DEF RestoreRoot, RestoreAt, TypeOK
  <2>4. /\ RestoreAt(c) \in Folders \cup {Root}
        /\ RestoreAt(c) = Root \/ IsLive(RestoreAt(c))
    BY <1>1, <1>2, <2>1
    DEF HandlerInv, RestoreAt, LiveDir, IsLive, Tree, ParentIsFolder
  <2>5. Tree'
    BY <1>2, <2>1, <2>2, <2>3, <2>4, HangWrite
  <2>6. call'[h] = [c EXCEPT !.pc = "collect", !.todo = {c.item}]
    BY <1>6, <1>17 DEF RestoreRoot
  <2>7. c.ids = {}
    BY <1>1, <2>1 DEF HandlerInv
  <2>8. HandlerInv(call[h])'
    BY <1>1, <1>2, <2>1, <2>2, <2>6, <2>7
    DEF HandlerInv, IsLive, Exists, Stored, ClosedBut, Call, Local, TypeOK
  <2> QED
    BY <1>5, <1>17, <2>1, <2>5, <2>8 DEF RestoreRoot
<1>18. CASE RestoreChildren(h)
  <2>1. c.op = "restore" /\ c.pc = "collect" /\ c.todo = {}
    BY <1>18 DEF RestoreChildren, Collected, At
  <2>2. /\ IsLive(c.item)
        /\ \A i \in c.ids : Exists(i) /\ parent[i] \in c.ids \cup {c.item}
    BY <1>1, <2>1 DEF HandlerInv
  <2>3. Tree'
    BY <1>1, <1>2, <1>18, <2>2, ReviveWrite DEF RestoreChildren
  <2> QED
    BY <1>4, <1>18, <2>1, <2>3 DEF RestoreChildren
<1> QED
  BY <1>8, <1>9, <1>10, <1>11, <1>12, <1>14, <1>15, <1>16, <1>17, <1>18 DEF Continue

(* The retention passes and the purge runs, alone.                         *)
LEMMA PurgeKeepsSerialInv ==
    ASSUME MaxInFlight = 1, SerialInv, TypeOK',
           RetentionElapses \/ PurgeScan \/ PurgeStep
    PROVE  SerialInv'
<1> USE TreeAssumption
<1>1. TypeOK /\ Tree /\ PurgeInv /\ purge \in PurgeJob
  BY DEF SerialInv, TypeOK
<1>2. (\A h \in Handlers : call[h] = Idle) /\ call' = call
  BY NothingInFlight
  DEF SerialInv, Alone, RetentionElapses, PurgeScan, PurgeStep, PurgePick,
      PurgeCollect, PurgeDelete, Resting
<1>3. \A h \in Handlers : HandlerInv(call[h])'
  BY <1>2 DEF HandlerInv, Idle
<1>4. Alone'
  BY <1>2 DEF Alone
<1>5. SUFFICES Tree' /\ PurgeInv'
  BY <1>3, <1>4 DEF SerialInv
<1>6. ASSUME UNCHANGED <<status, parent>> PROVE Tree'
  BY <1>1, <1>6, TreeFrame
<1>7. CASE RetentionElapses
  <2>1. \A i \in Items : (Exists(i)' <=> Exists(i)) /\ (IsTrash(i)' <=> IsTrash(i))
    BY <1>7, <1>1 DEF RetentionElapses, Exists, IsTrash, Stored, Trashed, TypeOK
  <2>2. UNCHANGED parent /\ parent \in [Items -> Items \cup {Root}]
    BY <1>7, <1>1 DEF RetentionElapses, TypeOK
  <2>3. ~Exists(Root) /\ ~Exists(Root)' /\ ~IsTrash(Root) /\ ~IsTrash(Root)'
    BY DEF Exists, IsTrash
  <2>4. Tree'
    BY <1>1, <2>1, <2>2, <2>3 DEF Tree, ParentIsFolder, NoOrphan, TrashClosed
  <2>5. purge' = Resting
    BY <1>7, NothingInFlight, <1>1 DEF RetentionElapses
  <2> QED
    BY <2>4, <2>5, RestingInv
<1>8. CASE PurgeScan
  <2>1. purge'.roots \subseteq {i \in Items : status[i] = "due"}
        /\ purge'.ids = {} /\ purge'.todo = {} /\ UNCHANGED <<status, parent>>
    BY <1>8 DEF PurgeScan, Resting
  <2>2. PurgeInv'
    BY <2>1 DEF PurgeInv, ClosedBut, IsTrash, Trashed
  <2> QED
    BY <1>6, <2>1, <2>2
<1>9. CASE PurgePick
  <2>1. CASE purge' = Resting
    BY <1>6, <1>9, <2>1, RestingInv DEF PurgePick
  <2>2. ASSUME NEW r \in purge.roots,
               purge' = [pc |-> "collect", roots |-> purge.roots \ {r},
                         ids |-> {r}, todo |-> {r}]
        PROVE  Tree' /\ PurgeInv'
    <3>1. UNCHANGED <<status, parent>>
      BY <1>9 DEF PurgePick
    <3>2. PurgeInv'
      BY <1>1, <2>2, <3>1 DEF PurgeInv, ClosedBut, IsTrash
    <3> QED
      BY <1>6, <3>1, <3>2
  <2> QED
    BY <1>9, <2>1, <2>2 DEF PurgePick
<1>10. CASE PurgeCollect
  <2>1. PICK d \in purge.todo : purge' = Expand(purge, d)
    BY <1>10 DEF PurgeCollect
  <2> DEFINE kids == Children(d)
  <2>2. /\ purge'.roots = purge.roots /\ purge'.ids = purge.ids \cup kids
        /\ purge'.todo = (purge.todo \ {d}) \cup (kids \cap Folders)
        /\ UNCHANGED <<status, parent>>
    BY <1>1, <1>10, <2>1 DEF PurgeCollect, Expand, PurgeJob
  <2>3. purge.ids \subseteq Items /\ purge.todo \subseteq Items /\ d \in purge.ids
    BY <1>1, <2>1 DEF PurgeInv, PurgeJob, ClosedBut
  <2>4. \A k \in kids : IsTrash(k)
    <3>1. IsTrash(d) \/ status[d] = "gone"
      BY <1>1, <2>3 DEF PurgeInv
    <3>2. \A k \in kids : Exists(k) /\ k \in Items /\ parent[k] = d /\ d # Root
      BY <2>3 DEF Children
    <3> QED
      BY <1>1, <3>1, <3>2 DEF Tree, NoOrphan, TrashClosed, Exists, Stored, Trashed
  <2>5. ClosedBut(purge.ids \cup kids, purge'.todo)
    BY <1>1, <2>1, <2>2, <2>3, ExpandCloses DEF PurgeInv, Tree
  <2>6. PurgeInv'
    BY <1>1, <2>2, <2>4, <2>5 DEF PurgeInv, ClosedBut, Children, Exists, IsTrash
  <2> QED
    BY <1>6, <2>2, <2>6
<1>11. CASE PurgeDelete
  <2>1. ClosedBut(purge.ids, {}) /\ purge.ids \subseteq Items
    BY <1>1, <1>11 DEF PurgeDelete, PurgeInv, PurgeJob
  <2>2. Tree'
    BY <1>1, <1>11, <2>1, CloseWrite DEF PurgeDelete
  <2>3. /\ purge'.roots = purge.roots /\ purge'.ids = {} /\ purge'.todo = {}
    BY <1>11 DEF PurgeDelete, Resting
  <2>4. \A i \in Items : status'[i] \in {status[i], "gone"}
    BY <1>11 DEF PurgeDelete, UpdateMany
  <2>5. PurgeInv'
    BY <1>1, <2>3, <2>4 DEF PurgeInv, ClosedBut, IsTrash, PurgeJob
  <2> QED
    BY <2>2, <2>5
<1> QED
  BY <1>7, <1>8, <1>9, <1>10, <1>11 DEF PurgeStep

LEMMA InitSerialInv == Init => SerialInv
<1> SUFFICES ASSUME Init PROVE SerialInv
  OBVIOUS
<1> USE TreeAssumption
<1>1. TypeOK
  BY IdleCall DEF Init, TypeOK, Status, Stored, Trashed, PurgeJob, Resting
<1>2. Tree
  BY DEF Init, Tree, ParentIsFolder, NoOrphan, TrashClosed, Exists, IsTrash,
         IsLive, Stored, Trashed
<1>3. Alone /\ PurgeInv
  BY DEF Init, Alone, PurgeInv, Resting, ClosedBut
<1>4. \A h \in Handlers : HandlerInv(call[h])
  BY IdleInv DEF Init
<1> QED
  BY <1>1, <1>2, <1>3, <1>4 DEF SerialInv

(* Served one at a time, requests and purges keep the tree in order and    *)
(* every handler's knowledge true until it uses it.                        *)
LEMMA SerialStep ==
    ASSUME MaxInFlight = 1, SerialInv, [Next]_vars PROVE SerialInv'
<1>1. TypeOK'
  BY TypeStep DEF SerialInv
<1>2. ASSUME UNCHANGED vars PROVE SerialInv'
  BY <1>1, <1>2 DEF vars, SerialInv, Tree, ParentIsFolder, NoOrphan, TrashClosed,
              Alone, PurgeInv, HandlerInv, ClosedBut, Children, LiveDir,
              RestoreAt, Exists, IsTrash, IsLive
<1> QED
  BY <1>1, <1>2, StartKeepsSerialInv, ContinueKeepsSerialInv, PurgeKeepsSerialInv DEF Next

(* SerialInv holds in every reachable state.                               *)
THEOREM SerialCorrect ==
    ASSUME MaxInFlight = 1 PROVE Spec => []SerialInv
BY InitSerialInv, SerialStep, PTL DEF Spec

(* No item of a folder in the trash is live when requests are served one   *)
(* at a time.                                                              *)
THEOREM SerialTrashClosed ==
    ASSUME MaxInFlight = 1 PROVE Spec => []TrashClosed
<1>1. SerialInv => TrashClosed
  BY DEF SerialInv, Tree
<1> QED
  BY <1>1, SerialCorrect, PTL

(* The purge, which deletes topmost due items with all below them, leaves  *)
(* no stored item without its parent when it runs alone.                   *)
THEOREM SerialNoOrphan ==
    ASSUME MaxInFlight = 1 PROVE Spec => []NoOrphan
<1>1. SerialInv => NoOrphan
  BY DEF SerialInv, Tree
<1> QED
  BY <1>1, SerialCorrect, PTL

(* The purge destroys nothing that is live when it runs alone.             *)
THEOREM SerialPurgeIsSafe ==
    ASSUME MaxInFlight = 1 PROVE Spec => LiveNeverDestroyed
<1> DEFINE Safe == \A i \in Items : status[i] = "live" => status'[i] # "gone"
<1>1. SerialInv /\ [Next]_vars => [Safe]_vars
  <2> SUFFICES ASSUME SerialInv, Next, NEW i \in Items, status[i] = "live"
               PROVE  status'[i] # "gone"
    OBVIOUS
  <2>1. status \in [Items -> Status]
    BY DEF SerialInv, TypeOK
  <2>2. ASSUME NEW h \in Handlers, Start(h) \/ Continue(h) PROVE status'[i] # "gone"
    BY <2>1, <2>2
    DEF Start, Continue, BeginCreate, BeginMove, BeginDelete, BeginRestore,
        BeginSchedule, Begin, CreateInsert, MoveTarget, MoveWalk, MoveSave,
        Collect, DeleteWrite, RestoreTarget, RestoreRoot, RestoreChildren,
        ScheduleWrite, UpdateMany
  <2>3. CASE RetentionElapses \/ PurgeScan \/ PurgePick \/ PurgeCollect
    BY <2>1, <2>3 DEF RetentionElapses, PurgeScan, PurgePick, PurgeCollect
  <2>4. CASE PurgeDelete
    <3>1. i \notin purge.ids
      BY DEF SerialInv, PurgeInv, IsTrash, Trashed
    <3> QED
      BY <2>1, <2>4, <3>1 DEF PurgeDelete, UpdateMany
  <2> QED
    BY <2>2, <2>3, <2>4 DEF Next, PurgeStep
<1>2. Spec => [][Safe]_vars
  BY <1>1, SerialCorrect, PTL DEF Spec
<1> QED
  BY <1>2 DEF LiveNeverDestroyed

-----------------------------------------------------------------------------
(* The walk of moveItem.                                                   *)

Walking == \A h \in Handlers : WalkInv(call[h])

LEMMA WalkingInvariant ==
    ASSUME MaxInFlight = 1 PROVE Spec => []Walking
<1> USE TreeAssumption
<1>1. Init => Walking
  BY DEF Init, Walking, WalkInv, Idle
<1>2. SerialInv /\ Walking /\ [Next]_vars => Walking'
  <2> SUFFICES ASSUME SerialInv, Walking, [Next]_vars,
                      NEW g \in Handlers, call'[g].op = "move", call'[g].to # Root
               PROVE  WalkInv(call[g])'
    BY DEF Walking, WalkInv
  <2> DEFINE c == call[g]
  <2>1. TypeOK /\ Tree /\ WalkInv(c) /\ HandlerInv(c)
    BY DEF SerialInv, Walking
  <2>2. /\ c \in Call /\ call \in [Handlers -> Call]
        /\ parent \in [Items -> Items \cup {Root}]
    BY <2>1 DEF TypeOK
  <2>3. ASSUME UNCHANGED <<status, parent>>, call'[g] = c PROVE WalkInv(call[g])'
    BY <2>1, <2>3 DEF WalkInv, Closes, Exists
  <2>4. CASE UNCHANGED vars \/ PurgeScan \/ PurgePick \/ PurgeCollect
    BY <2>3, <2>4 DEF vars, PurgeScan, PurgePick, PurgeCollect
  <2>5. CASE RetentionElapses \/ PurgeDelete
    <3>1. call' = call
      BY <2>5 DEF RetentionElapses, PurgeDelete
    <3>2. c = Idle
      BY <2>5, <2>1, NothingInFlight
      DEF RetentionElapses, PurgeDelete, SerialInv, Alone, Resting
    <3> QED
      BY <3>1, <3>2 DEF Idle
  <2>6. ASSUME NEW h \in Handlers, Start(h) PROVE WalkInv(call[g])'
    <3>1. CASE call'[g] = c
      BY <2>3, <2>6, <3>1
      DEF Start, BeginCreate, BeginMove, BeginDelete, BeginRestore, BeginSchedule, Begin
    <3>2. CASE call'[g] # c
      <4>1. ASSUME NEW n, Begin(h, n), n.op # "move" PROVE FALSE
        BY <2>2, <3>2, <4>1 DEF Begin
      <4>2. ASSUME NEW i \in Items, NEW to \in Items \cup {Root}, BeginMove(h, i, to)
            PROVE  WalkInv(call[g])'
        <5>1. call'[g] = [Idle EXCEPT !.op = "move", !.item = i, !.to = to, !.at = to,
                                      !.pc = IF to = Root THEN "save" ELSE "target"]
          BY <2>2, <3>2, <4>2 DEF BeginMove, Begin
        <5> QED
          BY <5>1 DEF WalkInv, Idle
      <4>3. PICK i \in Items, to \in Items \cup {Root} : BeginMove(h, i, to)
        BY <2>6, <4>1
        DEF Start, BeginCreate, BeginDelete, BeginRestore, BeginSchedule, Idle
      <4> QED
        BY <4>2, <4>3
    <3> QED
      BY <3>1, <3>2
  <2>7. ASSUME NEW h \in Handlers, Continue(h) PROVE WalkInv(call[g])'
    <3>0. call[h] # Idle
      BY <2>7 DEF Continue, CreateInsert, MoveTarget, MoveWalk, MoveSave, Collect,
                  DeleteWrite, RestoreTarget, RestoreRoot, RestoreChildren,
                  ScheduleWrite, Collected, At, Idle
    <3>1. g = h
      <4>1. call'[g] # Idle /\ (g # h => call'[g] = c)
        BY <2>2, <2>7
        DEF Continue, CreateInsert, MoveTarget, MoveWalk, MoveSave, Collect,
            DeleteWrite, RestoreTarget, RestoreRoot, RestoreChildren,
            ScheduleWrite, Finish, Goto, Idle
      <4> QED
        BY <3>0, <4>1 DEF SerialInv, Alone
    <3>2. ~Finish(g)
      BY <2>2 DEF Finish, Goto, Idle
    <3>5. ASSUME NEW n, Goto(g, n) PROVE call'[g] = n
      BY <2>2, <3>5 DEF Goto
    <3>6. ~Collect(g)
      <4>1. ASSUME Collect(g) PROVE c.op = "move" /\ c.pc = "collect"
        BY <2>2, <3>5, <4>1 DEF Collect, Expand, Call, Local
      <4> QED
        BY <2>1, <4>1 DEF HandlerInv
    <3>7. ~RestoreTarget(g) /\ ~RestoreRoot(g)
      BY <2>2, <3>2, <3>5 DEF RestoreTarget, RestoreRoot, At, Call, Local
    <3>8. MoveTarget(g) \/ MoveWalk(g)
      BY <2>7, <3>1, <3>2, <3>6, <3>7
      DEF Continue, CreateInsert, MoveSave, DeleteWrite, RestoreChildren, ScheduleWrite
    <3>9. /\ c.op = "move" /\ c.to = call'[g].to /\ c.item = call'[g].item
          /\ UNCHANGED <<status, parent>>
      BY <2>2, <3>2, <3>5, <3>8 DEF MoveTarget, MoveWalk, At, Call, Local
    <3>3. CASE MoveTarget(g)
      <4>1. c.at = c.to /\ LiveDir(c.to) /\ c.to \in Folders
            /\ call'[g] = [c EXCEPT !.pc = IF c.item \in Folders THEN "walk" ELSE "save"]
        BY <2>1, <3>2, <3>5, <3>9, <3>3 DEF MoveTarget, WalkInv, At, LiveDir
      <4> QED
        BY <2>2, <3>9, <4>1
        DEF WalkInv, Closes, LiveDir, IsLive, Exists, Stored, Call, Local
    <3>4. CASE MoveWalk(g)
      <4>1. c.pc = "walk" /\ c.at # c.item /\ Exists(c.at) /\ c.at \in Items
            /\ LiveDir(c.to) /\ c.to \in Folders
        BY <2>1, <3>2, <3>9, <3>4
        DEF MoveWalk, WalkInv, HandlerInv, At, Exists, LiveDir
      <4>2. \A S \in SUBSET Items : Closes(c, S) => parent[c.at] \in S
        BY <2>1, <3>9, <4>1 DEF WalkInv, Closes
      <4>3. CASE parent[c.at] = Root
        <5>1. call'[g] = [c EXCEPT !.pc = "save"]
          BY <2>2, <3>4, <4>1, <4>3 DEF MoveWalk, Goto
        <5>2. \A S \in SUBSET Items : ~Closes(c, S)
          BY <4>2, <4>3
        <5> QED
          BY <2>2, <3>9, <4>1, <5>1, <5>2 DEF WalkInv, Closes, Call, Local
      <4>4. CASE parent[c.at] # Root
        <5>1. call'[g] = [c EXCEPT !.at = parent[c.at]]
          BY <2>2, <3>4, <4>1, <4>4 DEF MoveWalk, Goto
        <5>2. Exists(parent[c.at])
          BY <2>1, <4>1, <4>4 DEF Tree, NoOrphan
        <5> QED
          BY <2>2, <3>9, <4>1, <4>2, <5>1, <5>2 DEF WalkInv, Closes, Call, Local, Exists
      <4> QED
        BY <4>3, <4>4
    <3> QED
      BY <3>3, <3>4, <3>8
  <2> QED
    BY <2>4, <2>5, <2>6, <2>7 DEF Next, PurgeStep
<1> QED
  BY <1>1, <1>2, SerialCorrect, PTL DEF Spec

(* moveItem never makes a folder its own descendant when nothing else      *)
(* moves meanwhile.                                                        *)
THEOREM SerialMoveIsSafe ==
    ASSUME MaxInFlight = 1 PROVE Spec => MoveKeepsAcyclic
<1> USE TreeAssumption
<1>1. SerialInv /\ Walking
      => [Acyclic /\ (\E h \in Handlers : MoveSave(h)) => Acyclic']_vars
  <2> SUFFICES ASSUME SerialInv, Walking, Acyclic, NEW h \in Handlers, MoveSave(h),
                      NEW S \in SUBSET Items, S # {}, \A i \in S : parent'[i] \in S
               PROVE  FALSE
    BY DEF Acyclic
  <2> DEFINE c == call[h]
  <2>1. /\ c.op = "move" /\ c.pc = "save" /\ IsLive(c.item) /\ c.item \in Items
        /\ WalkInv(c)
    BY DEF MoveSave, At, SerialInv, Walking, HandlerInv, IsLive
  <2>2. parent' = [parent EXCEPT ![c.item] = c.to]
    BY <2>1 DEF MoveSave, Exists, IsLive, Stored
  <2>3. parent'[c.item] = c.to /\ \A j \in Items \ {c.item} : parent'[j] = parent[j]
    BY <2>1, <2>2 DEF SerialInv, TypeOK
  <2>4. c.item \in S
    BY <2>3 DEF Acyclic
  <2>5. c.to \in S /\ c.to # Root
    BY <2>3, <2>4
  <2>6. Closes(c, S)
    BY <2>3, <2>5 DEF Closes
  <2>7. CASE c.item \in Folders
    BY <2>1, <2>5, <2>6, <2>7 DEF WalkInv
  <2>8. CASE c.item \notin Folders
    <3>1. c.to # c.item
      BY <2>1, <2>5, <2>8 DEF WalkInv
    <3>2. \A j \in S \ {c.item} : parent[j] \in S \ {c.item}
      BY <2>3, <2>8 DEF SerialInv, Tree, ParentIsFolder
    <3> QED
      BY <2>5, <3>1, <3>2 DEF Acyclic
  <2> QED
    BY <2>7, <2>8
<1> QED
  BY <1>1, SerialCorrect, WalkingInvariant, PTL DEF MoveKeepsAcyclic

(* With requests one at a time no request but the restore of a live item   *)
(* makes a folder its own descendant.                                      *)
THEOREM SerialStaysAcyclic ==
    ASSUME MaxInFlight = 1 PROVE Spec => StaysAcyclic
<1> USE TreeAssumption
<1>1. /\ SerialInv /\ [Next]_vars
      /\ [Acyclic /\ (\E h \in Handlers : MoveSave(h)) => Acyclic']_vars
      => [Acyclic /\ ~RestoreOfLive => Acyclic']_vars
  <2> SUFFICES ASSUME SerialInv, Next, Acyclic, ~RestoreOfLive,
                      (\E h \in Handlers : MoveSave(h)) => Acyclic'
               PROVE  Acyclic'
    OBVIOUS
  <2>1. CASE UNCHANGED parent
    BY <2>1 DEF Acyclic
  <2>2. CASE \E h \in Handlers : MoveSave(h)
    BY <2>2
  (* A live folder hangs from live folders only, up to the root: a new     *)
  (* child of it that is not live closes no cycle.                         *)
  <2>3. ASSUME NEW i \in Items, NEW to, ~IsLive(i), to # Root => LiveDir(to),
               parent' = [parent EXCEPT ![i] = to]
        PROVE  Acyclic'
    <3> SUFFICES ASSUME NEW S \in SUBSET Items, S # {}, \A j \in S : parent'[j] \in S
                 PROVE  FALSE
      BY DEF Acyclic
    <3>1. parent'[i] = to /\ \A j \in Items \ {i} : parent'[j] = parent[j]
      BY <2>3 DEF SerialInv, TypeOK
    <3>2. i \in S
      BY <3>1 DEF Acyclic
    <3>3. to \in S /\ IsLive(to)
      BY <2>3, <3>1, <3>2 DEF LiveDir
    <3> DEFINE T == {j \in S : IsLive(j)}
    <3>4. \A j \in T : parent[j] \in T
      <4> SUFFICES ASSUME NEW j \in T PROVE parent[j] \in T
        OBVIOUS
      <4>1. parent[j] \in S /\ parent[j] # Root
        BY <2>3, <3>1
      <4>2. Exists(parent[j]) /\ ~IsTrash(parent[j])
        BY <4>1 DEF SerialInv, Tree, NoOrphan, TrashClosed, IsLive, IsTrash, Exists,
                    Stored, Trashed
      <4> QED
        BY <4>1, <4>2 DEF IsLive, IsTrash, Exists, Stored
    <3>5. T # {} /\ T \in SUBSET Items
      BY <3>3
    <3> QED
      BY <3>4, <3>5 DEF Acyclic
  <2>4. ASSUME NEW h \in Handlers, CreateInsert(h) PROVE Acyclic'
    <3>1. /\ call[h].item \in Items /\ status[call[h].item] = "unused"
          /\ call[h].to = Root \/ LiveDir(call[h].to)
          /\ parent' = [parent EXCEPT ![call[h].item] = call[h].to]
      BY <2>4 DEF CreateInsert, At, SerialInv, HandlerInv, TypeOK, Call
    <3> QED
      BY <2>3, <3>1 DEF IsLive
  <2>5. ASSUME NEW h \in Handlers, RestoreRoot(h), ~UNCHANGED parent PROVE Acyclic'
    <3> DEFINE c == call[h]
    <3>1. /\ c.item \in Items /\ c.op = "restore" /\ c.pc = "save"
          /\ c.to # Original
          /\ parent' = [parent EXCEPT ![c.item] = c.to]
      BY <2>5 DEF RestoreRoot, At, SerialInv, TypeOK, Call
    <3>2. c.to # Root => LiveDir(c.to)
      BY <3>1 DEF SerialInv, HandlerInv, RestoreAt
    <3>3. ~IsLive(c.item)
      BY <2>5 DEF RestoreOfLive
    <3> QED
      BY <2>3, <3>1, <3>2, <3>3
  <2>6. ASSUME NEW h \in Handlers, Start(h) PROVE UNCHANGED parent
    BY <2>6 DEF Start, BeginCreate, BeginMove, BeginDelete, BeginRestore,
                BeginSchedule, Begin
  <2>7. ASSUME NEW h \in Handlers, Continue(h),
               ~CreateInsert(h), ~MoveSave(h), ~RestoreRoot(h)
        PROVE  UNCHANGED parent
    BY <2>7 DEF Continue, MoveTarget, MoveWalk, Collect, DeleteWrite,
                RestoreTarget, RestoreChildren, ScheduleWrite
  <2>8. CASE RetentionElapses \/ PurgeScan \/ PurgeStep
    BY <2>1, <2>8 DEF RetentionElapses, PurgeScan, PurgeStep, PurgePick,
                      PurgeCollect, PurgeDelete
  <2> QED
    BY <2>1, <2>2, <2>4, <2>5, <2>6, <2>7, <2>8 DEF Next
<1>2. Spec => [][Acyclic /\ (\E h \in Handlers : MoveSave(h)) => Acyclic']_vars
  BY SerialMoveIsSafe DEF MoveKeepsAcyclic
<1> QED
  BY <1>1, <1>2, SerialCorrect, PTL DEF Spec, StaysAcyclic

-----------------------------------------------------------------------------
(* The refinement.  What the purge still has to delete was due when it     *)
(* asked; an item it finds gone went with the items above it.              *)

DuePurge ==
    /\ \A i \in purge.roots : status[i] \in {"due", "gone"}
    /\ purge.pc = "collect" => \/ \E i \in purge.ids : status[i] = "due"
                              \/ \A i \in purge.ids : status[i] = "gone"

LEMMA DuePurgeInvariant ==
    ASSUME MaxInFlight = 1 PROVE Spec => []DuePurge
<1>1. Init => DuePurge
  BY DEF Init, Resting, DuePurge
<1>2. SerialInv /\ DuePurge /\ [Next]_vars => DuePurge'
  <2> SUFFICES ASSUME SerialInv, DuePurge, [Next]_vars PROVE DuePurge'
    OBVIOUS
  <2>1. TypeOK /\ Tree /\ Alone /\ PurgeInv
    BY DEF SerialInv
  <2>2. purge \in PurgeJob /\ status \in [Items -> Status]
    BY <2>1 DEF TypeOK
  <2>3. CASE purge' = Resting
    BY <2>3 DEF DuePurge, Resting
  <2>4. CASE UNCHANGED <<status, purge>>
    BY <2>4 DEF DuePurge
  <2>5. ASSUME purge' = purge, purge # Resting PROVE UNCHANGED status
    <3>1. InFlight # 0 /\ \A h \in Handlers : call[h] = Idle
      BY <2>1, <2>5, NothingInFlight DEF Alone
    <3>2. ASSUME NEW h \in Handlers, Start(h) PROVE UNCHANGED status
      BY <3>2 DEF Start, BeginCreate, BeginMove, BeginDelete, BeginRestore,
                  BeginSchedule, Begin
    <3>3. ASSUME NEW h \in Handlers, Continue(h) PROVE FALSE
      BY <3>1, <3>3 DEF Continue, CreateInsert, MoveTarget, MoveWalk, MoveSave,
                  Collect, DeleteWrite, RestoreTarget, RestoreRoot,
                  RestoreChildren, ScheduleWrite, Collected, At, Idle
    <3>4. ~RetentionElapses
      BY <3>1, <2>5 DEF RetentionElapses
    <3>5. ~PurgeDelete
      BY <2>2, <2>5 DEF PurgeDelete, PurgeJob
    <3> QED
      BY <3>2, <3>3, <3>4, <3>5
      DEF Next, PurgeScan, PurgeStep, PurgePick, PurgeCollect, vars
  <2>6. CASE PurgeScan
    BY <2>2, <2>6 DEF PurgeScan, DuePurge, Resting
  <2>7. CASE PurgePick
    BY <2>2, <2>7, <2>3 DEF PurgePick, DuePurge
  <2>8. CASE PurgeCollect
    <3>1. PICK d \in purge.todo : purge' = Expand(purge, d)
      BY <2>8 DEF PurgeCollect
    <3>2. /\ purge'.ids = purge.ids \cup Children(d) /\ purge'.roots = purge.roots
          /\ purge.pc = "collect" /\ status' = status
      BY <2>2, <2>8, <3>1 DEF PurgeCollect, Expand, PurgeJob
    <3>3. d \in purge.ids /\ d \in Items
      BY <2>1, <2>2 DEF PurgeInv, ClosedBut, PurgeJob
    <3>4. status[d] = "gone" => Children(d) = {}
      BY <2>1, <3>3, TreeAssumption DEF Tree, NoOrphan, Children, Exists, Stored, Trashed
    <3> QED
      BY <3>2, <3>3, <3>4 DEF DuePurge
  <2>9. CASE PurgeDelete
    <3>1. purge'.pc = "pick" /\ purge'.roots = purge.roots
      BY <2>9 DEF PurgeDelete, Resting
    <3>2. \A i \in Items : status'[i] = status[i] \/ status'[i] = "gone"
      BY <2>9 DEF PurgeDelete, UpdateMany
    <3>3. purge.roots \subseteq Items
      BY <2>2 DEF PurgeJob
    <3> QED
      BY <3>1, <3>2, <3>3 DEF DuePurge
  <2> QED
    <3>1. CASE purge' = purge
      BY <2>3, <2>4, <2>5, <3>1
    <3>2. CASE purge' # purge
      BY <2>6, <2>7, <2>8, <2>9, <3>2
      DEF Next, vars, PurgeStep, Start, BeginCreate, BeginMove, BeginDelete,
          BeginRestore, BeginSchedule, Begin, Continue, CreateInsert, MoveTarget,
          MoveWalk, MoveSave, Collect, DeleteWrite, RestoreTarget, RestoreRoot,
          RestoreChildren, ScheduleWrite, Finish, Goto, RetentionElapses
    <3> QED
      BY <3>1, <3>2
<1> QED
  BY <1>1, <1>2, SerialCorrect, PTL DEF Spec

(* Requests one at a time: every write of the tree is one the trash bin    *)
(* allows, on the whole group of items it writes, and every other step     *)
(* leaves the bin alone.                                                   *)
THEOREM SerialImplementsBin ==
    ASSUME MaxInFlight = 1 PROVE Spec => ImplementsBin
<1>1. Init => Bin!Init
  BY DEF Init, Bin!Init
<1>2. SerialInv /\ DuePurge /\ [Next]_vars => [Bin!Next]_status
  <2> SUFFICES ASSUME SerialInv, DuePurge, [Next]_vars, status' # status
               PROVE  Bin!Next
    OBVIOUS
  <2>1. /\ status \in [Items -> Status] /\ purge \in PurgeJob
        /\ \A h \in Handlers : call[h] \in Call /\ HandlerInv(call[h])
    BY DEF SerialInv, TypeOK
  <2>2. ASSUME NEW S \in SUBSET Items, NEW s, UpdateMany(S, s),
               \A i \in S : Exists(i)
        PROVE  Bin!Become(S, s)
    BY <2>1, <2>2 DEF UpdateMany, Bin!Become
  <2>3. ASSUME NEW h \in Handlers, CreateInsert(h) PROVE Bin!Next
    <3> DEFINE i == call[h].item
    <3>1. i \in Items /\ status[i] = "unused" /\ status' = [status EXCEPT ![i] = "live"]
      BY <2>1, <2>3 DEF CreateInsert, At, HandlerInv, Call
    <3>2. {i} \in SUBSET Items /\ Bin!Add({i})
      BY <2>1, <3>1 DEF Bin!Add, Bin!Having, Bin!Become
    <3> QED
      BY <3>2 DEF Bin!Next
  <2>4. ASSUME NEW h \in Handlers, DeleteWrite(h) PROVE Bin!Next
    <3>1. /\ call[h].ids \in SUBSET Items /\ UpdateMany(call[h].ids, "trash")
          /\ \A i \in call[h].ids : IsTrash(i) \/ IsLive(i)
      BY <2>1, <2>4 DEF DeleteWrite, Collected, At, HandlerInv, Call, Local
    <3>2. Bin!Discard(call[h].ids)
      BY <2>2, <3>1 DEF Bin!Discard, Bin!InTrash, Bin!Having, IsTrash, IsLive, Exists,
                        Stored, Trashed
    <3> QED
      BY <3>1, <3>2 DEF Bin!Next
  <2>5. ASSUME NEW h \in Handlers, NEW S \in SUBSET Items, UpdateMany(S, "live"),
               \A i \in S : Exists(i)
        PROVE  Bin!Next
    <3>1. Bin!Recover(S)
      BY <2>2, <2>5 DEF Bin!Recover, Bin!InTrash, Bin!Having, Exists, Stored, Trashed
    <3> QED
      BY <3>1 DEF Bin!Next
  <2>6. ASSUME NEW h \in Handlers, RestoreRoot(h) \/ RestoreChildren(h) PROVE Bin!Next
    <3>1. CASE RestoreRoot(h)
      <4>1. call[h].item \in Items /\ Exists(call[h].item)
        BY <2>1, <3>1 DEF RestoreRoot, At, HandlerInv, Call
      <4> QED
        BY <2>5, <3>1, <4>1 DEF RestoreRoot
    <3>2. CASE RestoreChildren(h)
      <4>1. /\ call[h].ids \in SUBSET Items
            /\ \A i \in call[h].ids : Exists(i)
        BY <2>1, <3>2 DEF RestoreChildren, Collected, At, HandlerInv, Call, Local
      <4> QED
        BY <2>5, <3>2, <4>1 DEF RestoreChildren
    <3> QED
      BY <2>6, <3>1, <3>2
  <2>7. ASSUME NEW h \in Handlers, ScheduleWrite(h) PROVE Bin!Next
    <3>1. /\ call[h].ids \in SUBSET Items /\ UpdateMany(call[h].ids, "waiting")
          /\ \A i \in call[h].ids : IsTrash(i)
      BY <2>1, <2>7 DEF ScheduleWrite, Collected, At, HandlerInv, Call, Local
    <3>2. Bin!Schedule(call[h].ids)
      BY <2>2, <3>1 DEF Bin!Schedule, Bin!InTrash, Bin!Having, IsTrash, Exists,
                        Stored, Trashed
    <3> QED
      BY <3>1, <3>2 DEF Bin!Next
  <2>8. CASE RetentionElapses
    <3>1. Bin!Expire(Bin!Having({"waiting"}))
      BY <2>8 DEF RetentionElapses, Bin!Expire, Bin!Having, Bin!Become
    <3>2. Bin!Having({"waiting"}) \in SUBSET Items
      BY DEF Bin!Having
    <3> QED
      BY <3>1, <3>2 DEF Bin!Next
  <2>9. CASE PurgeDelete
    <3> DEFINE S == {i \in purge.ids : Exists(i)}
    <3>1. S \in SUBSET Items /\ UpdateMany(S, "gone")
      BY <2>1, <2>9 DEF PurgeDelete, UpdateMany, PurgeJob
    <3>2. \A i \in S : IsTrash(i)
      BY <2>1 DEF SerialInv, PurgeInv, Exists, Stored, Trashed, IsTrash
    <3>3. \E i \in purge.ids : status[i] = "due"
      <4>1. (\A i \in purge.ids : status[i] = "gone") => status' = status
        BY <2>1, <2>9 DEF PurgeDelete, UpdateMany, PurgeJob, Exists, Stored, Trashed
      <4> QED
        BY <2>9, <4>1 DEF DuePurge, PurgeDelete
    <3>4. Bin!Destroy(S)
      BY <2>1, <2>2, <3>1, <3>2, <3>3
      DEF Bin!Destroy, Bin!InTrash, Bin!Having, IsTrash, Exists, Stored, Trashed, PurgeJob
    <3> QED
      BY <3>1, <3>4 DEF Bin!Next
  <2> QED
    BY <2>3, <2>4, <2>6, <2>7, <2>8, <2>9
    DEF Next, vars, PurgeScan, PurgeStep, PurgePick, PurgeCollect, Start, BeginCreate,
        BeginMove, BeginDelete, BeginRestore, BeginSchedule, Begin, Continue,
        MoveTarget, MoveWalk, MoveSave, Collect, RestoreTarget
<1> QED
  BY <1>1, <1>2, SerialCorrect, DuePurgeInvariant, PTL
  DEF Spec, ImplementsBin, Bin!Spec

-----------------------------------------------------------------------------
(* Ids are given out once: whoever is about to insert an item has its id   *)
(* for himself, however many handlers there are.                           *)
OwnIds ==
    \A h \in Handlers : call[h].op = "create" =>
        /\ call[h].item \in Items /\ status[call[h].item] = "unused"
        /\ \A g \in Handlers \ {h} : call[g].item # call[h].item

LEMMA OwnIdsInvariant == Spec => []OwnIds
<1> USE TreeAssumption
<1>1. Init => OwnIds
  BY DEF Init, OwnIds, Idle
<1>2. TypeOK /\ OwnIds /\ [Next]_vars => OwnIds'
  <2> SUFFICES ASSUME TypeOK, OwnIds, [Next]_vars PROVE OwnIds'
    OBVIOUS
  <2>1. call \in [Handlers -> Call] /\ status \in [Items -> Status]
    BY DEF TypeOK
  <2>2. ASSUME NEW ids, NEW s, UpdateMany(ids, s), NEW i \in Items, status[i] = "unused"
        PROVE  status'[i] = "unused"
    BY <2>1, <2>2 DEF UpdateMany, Exists, Stored, Trashed
  <2>3. ASSUME NEW h \in Handlers, NEW c, Begin(h, c),
               c.op = "create" => /\ c.item \in Items /\ status[c.item] = "unused"
                                  /\ \A g \in Handlers : call[g].item # c.item,
               c.op # "create" => Exists(c.item)
        PROVE  OwnIds'
    <3>1. call' = [call EXCEPT ![h] = c] /\ status' = status
      BY <2>3 DEF Begin
    <3> QED
      BY <2>1, <2>3, <3>1 DEF OwnIds, Exists, Stored, Trashed
  <2>4. ASSUME NEW h \in Handlers, NEW c, call' = [call EXCEPT ![h] = c],
               (c.op = call[h].op /\ c.item = call[h].item) \/ c = Idle,
               \A i \in Items : status[i] = "unused" =>
                   status'[i] = "unused" \/ (call[h].op = "create" /\ c = Idle /\ i = call[h].item)
        PROVE  OwnIds'
    BY <2>1, <2>4 DEF OwnIds, Idle
  <2>5. ASSUME NEW h \in Handlers, Start(h) PROVE OwnIds'
    <3>1. ASSUME NEW i \in Items, NEW to, BeginCreate(h, i, to) PROVE OwnIds'
      <4> DEFINE c == [Idle EXCEPT !.op = "create", !.pc = "save", !.item = i, !.to = to]
      <4>1. c.op = "create" /\ c.item = i
        BY DEF Idle
      <4>2. Begin(h, c) /\ status[i] = "unused" /\ \A g \in Handlers : call[g].item # i
        BY <3>1 DEF BeginCreate
      <4> HIDE DEF c
      <4> QED
        BY <2>3, <4>1, <4>2
    <3>2. ASSUME NEW i \in Items, NEW to, BeginMove(h, i, to) PROVE OwnIds'
      <4> DEFINE c == [Idle EXCEPT !.op = "move", !.item = i, !.to = to, !.at = to,
                                   !.pc = IF to = Root THEN "save" ELSE "target"]
      <4>1. c.op = "move" /\ c.item = i
        BY DEF Idle
      <4>2. Begin(h, c) /\ Exists(i)
        BY <3>2 DEF BeginMove, IsLive, Exists, Stored
      <4> HIDE DEF c
      <4> QED
        BY <2>3, <4>1, <4>2
    <3>3. ASSUME NEW i \in Items, BeginDelete(h, i) \/ BeginSchedule(h, i) PROVE OwnIds'
      <4>1. PICK op \in {"delete", "schedule"} :
              Begin(h, [Idle EXCEPT !.op = op, !.pc = "collect", !.item = i,
                                    !.ids = {i}, !.todo = {i}])
        BY <3>3 DEF BeginDelete, BeginSchedule
      <4> DEFINE c == [Idle EXCEPT !.op = op, !.pc = "collect", !.item = i,
                                   !.ids = {i}, !.todo = {i}]
      <4>2. c.op # "create" /\ c.item = i
        BY DEF Idle
      <4>3. Begin(h, c) /\ Exists(i)
        BY <3>3, <4>1 DEF BeginDelete, BeginSchedule, IsTrash, Exists, Stored
      <4> HIDE DEF c
      <4> QED
        BY <2>3, <4>2, <4>3
    <3>4. ASSUME NEW i \in Items, NEW to, BeginRestore(h, i, to) PROVE OwnIds'
      <4> DEFINE at == IF to = Original THEN parent[i] ELSE to
                 c == [Idle EXCEPT !.op = "restore", !.item = i, !.to = to, !.at = at,
                                   !.pc = IF at = Root THEN "save" ELSE "target"]
      <4>1. c.op = "restore" /\ c.item = i
        BY DEF Idle
      <4>2. Begin(h, c) /\ Exists(i)
        BY <3>4 DEF BeginRestore
      <4> HIDE DEF c
      <4> QED
        BY <2>3, <4>1, <4>2
    <3> QED
      BY <2>5, <3>1, <3>2, <3>3, <3>4 DEF Start
  <2>6. ASSUME NEW h \in Handlers, Continue(h) PROVE OwnIds'
    <3>1. CASE CreateInsert(h)
      <4>1. /\ call' = [call EXCEPT ![h] = Idle] /\ call[h].op = "create"
            /\ status' = [status EXCEPT ![call[h].item] = "live"]
        BY <3>1 DEF CreateInsert, Finish, Goto, At
      <4> QED
        BY <2>1, <2>4, <4>1
    <3>2. CASE MoveTarget(h) \/ MoveWalk(h) \/ MoveSave(h) \/ Collect(h) \/ RestoreTarget(h)
      <4>1. PICK c : /\ call' = [call EXCEPT ![h] = c] /\ status' = status
                     /\ (c.op = call[h].op /\ c.item = call[h].item) \/ c = Idle
        <5>1. call[h] \in Local
          BY <2>1 DEF Call
        <5> QED
          BY <3>2, <5>1 DEF MoveTarget, MoveWalk, MoveSave, Collect, RestoreTarget,
                            Goto, Finish, Expand, Local
      <4> QED
        BY <2>4, <4>1
    <3>3. CASE DeleteWrite(h) \/ RestoreChildren(h) \/ ScheduleWrite(h)
      <4>1. call' = [call EXCEPT ![h] = Idle]
        BY <3>3 DEF DeleteWrite, RestoreChildren, ScheduleWrite, Finish, Goto
      <4>2. \A i \in Items : status[i] = "unused" => status'[i] = "unused"
        BY <2>2, <3>3 DEF DeleteWrite, RestoreChildren, ScheduleWrite
      <4> QED
        BY <2>4, <4>1, <4>2
    <3>4. CASE RestoreRoot(h)
      <4> DEFINE c == [call[h] EXCEPT !.pc = "collect", !.todo = {call[h].item}]
      <4>1. call' = [call EXCEPT ![h] = c]
        BY <3>4 DEF RestoreRoot, Goto
      <4>2. c.op = call[h].op /\ c.item = call[h].item
        BY <2>1 DEF Call, Local
      <4>3. \A i \in Items : status[i] = "unused" => status'[i] = "unused"
        BY <2>2, <3>4 DEF RestoreRoot
      <4> HIDE DEF c
      <4> QED
        BY <2>4, <4>1, <4>2, <4>3
    <3> QED
      BY <2>6, <3>1, <3>2, <3>3, <3>4 DEF Continue
  <2>7. CASE RetentionElapses \/ PurgeScan \/ PurgeStep \/ UNCHANGED vars
    <3>1. call' = call /\ \A i \in Items : status[i] = "unused" => status'[i] = "unused"
      BY <2>2, <2>7 DEF RetentionElapses, PurgeScan, PurgeStep, PurgePick, PurgeCollect,
                        PurgeDelete, vars
    <3> QED
      BY <3>1 DEF OwnIds
  <2> QED
    BY <2>5, <2>6, <2>7 DEF Next
<1> QED
  BY <1>1, <1>2, TypeCorrect, PTL DEF Spec

(* createItem, restore, softDelete and deletePermanent, whatever they have *)
(* read before the purge ran, bring back no document that it deleted: for  *)
(* any number of handlers, in all interleavings.                           *)
THEOREM PurgedStaysGone == Spec => GoneForGood
<1>1. TypeOK /\ OwnIds /\ [Next]_vars =>
          [\A i \in Items : status[i] = "gone" => status'[i] = "gone"]_vars
  <2> SUFFICES ASSUME TypeOK, OwnIds, [Next]_vars, NEW i \in Items, status[i] = "gone",
                      ~UNCHANGED vars
               PROVE  status'[i] = "gone"
    OBVIOUS
  <2>1. status \in [Items -> Status]
    BY DEF TypeOK
  <2>2. ASSUME NEW ids, NEW s, UpdateMany(ids, s) PROVE status'[i] = "gone"
    BY <2>1, <2>2 DEF UpdateMany, Exists, Stored, Trashed
  <2>3. ASSUME NEW h \in Handlers, Start(h) PROVE status'[i] = "gone"
    BY <2>3 DEF Start, BeginCreate, BeginMove, BeginDelete, BeginRestore, BeginSchedule, Begin
  <2>4. ASSUME NEW h \in Handlers, Continue(h) PROVE status'[i] = "gone"
    <3>1. CASE CreateInsert(h)
      <4>1. i # call[h].item /\ status' = [status EXCEPT ![call[h].item] = "live"]
        BY <3>1 DEF CreateInsert, At, OwnIds
      <4> QED
        BY <2>1, <4>1
    <3>2. CASE ~CreateInsert(h)
      BY <2>2, <2>4, <3>2
      DEF Continue, MoveTarget, MoveWalk, MoveSave, Collect, DeleteWrite, RestoreTarget,
          RestoreRoot, RestoreChildren, ScheduleWrite
    <3> QED
      BY <3>1, <3>2
  <2>5. CASE RetentionElapses \/ PurgeScan \/ PurgeStep
    BY <2>1, <2>2, <2>5 DEF RetentionElapses, PurgeScan, PurgeStep, PurgePick, PurgeCollect,
                            PurgeDelete
  <2> QED
    BY <2>3, <2>4, <2>5 DEF Next
<1> QED
  BY <1>1, OwnIdsInvariant, TypeCorrect, PTL DEF Spec, GoneForGood

-----------------------------------------------------------------------------
(* Renames and copies.                                                     *)

(* From item c, going from folders to live children, one gets to d or goes *)
(* round for ever.  Whoever copies c into d then never comes to an end.    *)
Hot(c, d) ==
    \E S \in SUBSET Items :
        c \in S /\ \A s \in S : s = d \/ LiveChildren(s) \cap S # {}

LEMMA BelowSelf == ASSUME NEW r \in Items PROVE r \in Below(r)
BY DEF Below

LEMMA BelowClosed ==
    ASSUME NEW r, NEW k \in Below(r) PROVE LiveChildren(k) \subseteq Below(r)
BY DEF Below, LiveChildren

LEMMA BelowLeast ==
    ASSUME NEW r, NEW S \in SUBSET Items, r \in S,
           \A k \in S : LiveChildren(k) \subseteq S
    PROVE  Below(r) \subseteq S
BY DEF Below

(* What lies below an item lies below one of its children.                 *)
LEMMA BelowFirst ==
    ASSUME NEW q \in Items, NEW c \in Below(q), c # q
    PROVE  \E x \in LiveChildren(q) : c \in Below(x)
<1> DEFINE S == {q} \cup UNION {Below(x) : x \in LiveChildren(q)}
<1>1. S \in SUBSET Items /\ q \in S
  BY DEF Below
<1>2. \A k \in S : LiveChildren(k) \subseteq S
  <2>1. LiveChildren(q) \subseteq S
    BY BelowSelf DEF LiveChildren
  <2>2. ASSUME NEW x \in LiveChildren(q), NEW k \in Below(x)
        PROVE  LiveChildren(k) \subseteq S
    BY <2>2, BelowClosed
  <2> QED
    BY <2>1, <2>2
<1>3. Below(q) \subseteq S
  BY <1>1, <1>2, BelowLeast
<1> QED
  BY <1>3

LEMMA BelowHot ==
    ASSUME NEW c \in Items, NEW d \in Below(c) PROVE Hot(c, d)
<1> DEFINE S == {q \in Items : d \in Below(q)}
<1>1. c \in S /\ S \in SUBSET Items
  OBVIOUS
<1>2. ASSUME NEW s \in S, s # d PROVE LiveChildren(s) \cap S # {}
  <2>1. PICK x \in LiveChildren(s) : d \in Below(x)
    BY <1>2, BelowFirst
  <2>2. x \in Items
    BY DEF LiveChildren
  <2> QED
    BY <2>1, <2>2
<1> QED
  BY <1>1, <1>2 DEF Hot

(* A folder that contains itself.                                          *)
LEMMA LoopHot ==
    ASSUME NEW r \in Items, NEW c \in Below(r), r \in LiveChildren(c), NEW d
    PROVE  Hot(r, d)
<1> DEFINE S == {q \in Items : c \in Below(q)}
<1>1. r \in S /\ S \in SUBSET Items
  OBVIOUS
<1>2. ASSUME NEW s \in S PROVE LiveChildren(s) \cap S # {}
  <2>1. CASE s = c
    BY <1>1, <2>1
  <2>2. CASE s # c
    <3>1. PICK x \in LiveChildren(s) : c \in Below(x)
      BY <2>2, BelowFirst
    <3>2. x \in Items
      BY DEF LiveChildren
    <3> QED
      BY <3>1, <3>2
  <2> QED
    BY <2>1, <2>2
<1> QED
  BY <1>1, <1>2 DEF Hot

Lives == {i \in Items : IsLive(i)}
Homes == {d \in Folders : IsLive(d)}

NamesOK == name = [i \in Items |-> name[i]]

LEMMA BelowLives == ASSUME NEW r \in Lives PROVE Below(r) \subseteq Lives
<1>1. Lives \in SUBSET Items /\ \A k \in Lives : LiveChildren(k) \subseteq Lives
  BY DEF Lives, LiveChildren
<1> QED
  BY <1>1, BelowLeast

(* Item k, which was unused, comes into folder d under name n.             *)
Grows(k, d, n) ==
    /\ k \in Items /\ status[k] = "unused" /\ d \in Homes \cup {Root}
    /\ status' = [status EXCEPT ![k] = "live"]
    /\ parent' = [parent EXCEPT ![k] = d]
    /\ name' = [name EXCEPT ![k] = n]

(* It is the only change to what lives where, and under which name.        *)
LEMMA Growth ==
    ASSUME SerialInv, NamesOK, NEW k, NEW d, NEW n, Grows(k, d, n)
    PROVE  /\ k \in Items /\ k \notin Lives /\ k # d
           /\ d \in Items \cup {Root} /\ d \in Homes \cup {Root}
           /\ \A i \in Items : k \notin LiveChildren(i)
           /\ LiveChildren(k) = {}
           /\ Lives' = Lives \cup {k}
           /\ Homes \subseteq Homes'
           /\ \A i \in Items \cup {Root} :
                LiveChildren(i)' = LiveChildren(i) \cup (IF i = d THEN {k} ELSE {})
           /\ \A i \in Items \ {k} : parent'[i] = parent[i] /\ name'[i] = name[i]
           /\ parent'[k] = d /\ name'[k] = n
           /\ NamesOK'
<1>1. status \in [Items -> Status] /\ parent \in [Items -> Items \cup {Root}]
  BY DEF SerialInv, TypeOK
<1>2. \A i \in Items : /\ status'[i] = IF i = k THEN "live" ELSE status[i]
                       /\ parent'[i] = IF i = k THEN d ELSE parent[i]
  BY <1>1 DEF Grows
<1>3. \A i \in Items : name'[i] = IF i = k THEN n ELSE name[i]
  BY DEF Grows, NamesOK
<1>4. \A i : IsLive(i)' <=> IsLive(i) \/ i = k
  BY <1>2 DEF IsLive, Grows
<1>5. k \in Items /\ ~IsLive(k)
  BY DEF Grows, IsLive
<1>6. d \in Items \cup {Root} /\ d \in Homes \cup {Root} /\ d # k
  BY <1>5, TreeAssumption DEF Grows, Homes
<1>7. LiveChildren(k) = {}
  BY <1>5, TreeAssumption DEF SerialInv, Tree, NoOrphan, LiveChildren, Grows, Exists,
     Stored, Trashed, IsLive
<1>8. \A i \in Items : k \notin LiveChildren(i)
  BY <1>5 DEF LiveChildren
<1>9. \A i \in Items \cup {Root} :
         LiveChildren(i)' = LiveChildren(i) \cup (IF i = d THEN {k} ELSE {})
  BY <1>2, <1>4, <1>5, <1>6 DEF LiveChildren
<1>10. Lives' = Lives \cup {k} /\ Homes \subseteq Homes' /\ k \notin Lives
  BY <1>4, <1>5 DEF Lives, Homes
<1>11. NamesOK'
  BY <1>3 DEF NamesOK, Grows
<1> QED
  BY <1>2, <1>3, <1>5, <1>6, <1>7, <1>8, <1>9, <1>10, <1>11

LEMMA BelowStays ==
    ASSUME SerialInv, NamesOK, NEW k, NEW d, NEW n, Grows(k, d, n),
           NEW r \in Items, d \notin Below(r)
    PROVE  Below(r)' = Below(r)
<1> DEFINE B == Below(r)
<1>1. \A i \in Items : LiveChildren(i)' = LiveChildren(i) \cup (IF i = d THEN {k} ELSE {})
  BY Growth
<1>2. ASSUME NEW j \in Below(r), NEW S \in SUBSET Items, r \in S,
             \A i \in S : LiveChildren(i)' \subseteq S
      PROVE  j \in S
  BY <1>1, <1>2 DEF Below
<1>3. Below(r) \subseteq Below(r)'
  BY <1>2 DEF Below
<1>4. B \in SUBSET Items /\ r \in B /\ \A i \in B : LiveChildren(i)' \subseteq B
  <2>1. B \in SUBSET Items /\ r \in B
    BY BelowSelf DEF Below
  <2> QED
    BY <1>1, <2>1, BelowClosed
<1>5. Below(r)' \subseteq B
  <2> HIDE DEF B
  <2> QED
    BY <1>4 DEF Below
<1> QED
  BY <1>3, <1>5

LEMMA HotStays ==
    ASSUME SerialInv, NamesOK, NEW k, NEW d, NEW n, Grows(k, d, n),
           NEW c, NEW b, Hot(c, b)
    PROVE  Hot(c, b)'
<1>1. \A i \in Items : LiveChildren(i)' = LiveChildren(i) \cup (IF i = d THEN {k} ELSE {})
  BY Growth
<1> QED
  BY <1>1 DEF Hot

(* A copy of c below c takes the way down with it.                         *)
LEMMA HotHere ==
    ASSUME SerialInv, NamesOK, NEW k, NEW d, NEW n, Grows(k, d, n),
           NEW c \in Lives, Hot(c, d)
    PROVE  c # k /\ Hot(c, k)'
<1>1. /\ k \in Items /\ k \notin Lives /\ k # d
      /\ \A i \in Items : LiveChildren(i)' = LiveChildren(i) \cup (IF i = d THEN {k} ELSE {})
  BY Growth
<1>2. PICK S \in SUBSET Items :
         c \in S /\ \A s \in S : s = d \/ LiveChildren(s) \cap S # {}
  BY DEF Hot
<1> DEFINE T == S \cup {k}
<1>3. T \in SUBSET Items /\ c \in T
  BY <1>1, <1>2
<1>4. ASSUME NEW s \in T, s # k PROVE LiveChildren(s)' \cap T # {}
  BY <1>1, <1>2, <1>4
<1> QED
  BY <1>1, <1>3, <1>4 DEF Hot

LEMMA ColdStays ==
    ASSUME SerialInv, NamesOK, NEW k, NEW d, NEW n, Grows(k, d, n),
           NEW r \in Items, NEW b, d \notin Below(r), ~Hot(r, b)
    PROVE  ~Hot(r, b)'
<1>1. \A i \in Items : LiveChildren(i)' = LiveChildren(i) \cup (IF i = d THEN {k} ELSE {})
  BY Growth
<1>2. b \notin Below(r)
  BY BelowHot
<1> SUFFICES ASSUME NEW S \in SUBSET Items, r \in S,
                    \A s \in S : s = b \/ LiveChildren(s)' \cap S # {}
             PROVE  FALSE
  BY DEF Hot
<1> DEFINE T == S \cap Below(r)
<1>3. T \in SUBSET Items /\ r \in T
  BY BelowSelf
<1>4. ASSUME NEW s \in T PROVE LiveChildren(s) \cap T # {}
  <2>1. PICK x \in LiveChildren(s)' : x \in S
    BY <1>2
  <2>2. x \in LiveChildren(s)
    BY <1>1, <2>1
  <2> QED
    BY <2>1, <2>2, BelowClosed
<1> QED
  BY <1>3, <1>4 DEF Hot

-----------------------------------------------------------------------------
(* What an editor holds.  A copy reads its next document before it waits   *)
(* at one of Before, and the children of a new folder after it was made.   *)
Docs == {Doc(i) : i \in Lives}
Frames == [dst : Homes, kids : SUBSET Docs]
Before == {"target", "name", "file", "insert"}

Stores == {StorageOf[i] : i \in Items}

CopyJobs ==
    [op : {"copy"}, pc : Before \cup {"read", "next"}, cur : Docs,
     dst : Items \cup {Root}, n : Nat, todo : Seq(Frames),
     made : SUBSET (Lives \X Lives), to : Items \cup {Root}, more : SUBSET Items,
     storage : Stores]

PickJobs ==
    [op : {"copy"}, pc : {"pick"}, to : Items \cup {Root}, more : SUBSET Items,
     made : {{}}, storage : Stores]

RenameJobs ==
    [op : {"rename"}, pc : {"check", "save"}, item : Lives, dir : Items \cup {Root},
     new : UserNames]

(* Item c is still to be copied into d.                                    *)
Waits(j, c, d) ==
    \/ j.pc \in Before /\ c = j.cur.id /\ d = j.dst
    \/ \E f \in 1..Len(j.todo) : d = j.todo[f].dst /\ \E k \in j.todo[f].kids : k.id = c

Originals(j) == {p[1] : p \in j.made}
Copies(j)    == {p[2] : p \in j.made}
Awaited(j)   == {c \in Items : \E d \in Items \cup {Root} : Waits(j, c, d)}

(* A copy that will never end.                                             *)
HotJob(j) ==
    \/ \E c \in Lives, d \in Items \cup {Root} : Waits(j, c, d) /\ Hot(c, d)
    \/ j.pc = "read" /\ j.cur.id # j.dst /\ Hot(j.cur.id, j.dst)

(* A copy of r has not begun, or has begun with r ...                      *)
Begun(j, r) ==
    /\ j.made = {} => j.pc \in Before /\ j.cur.id = r /\ j.dst = j.to /\ j.todo = <<>>
    /\ j.made # {} => r \in Originals(j)

(* ... and goes on inside of the copies of what it came from.              *)
Chained(j, r) ==
    /\ \A p \in j.made : \/ p[1] = r /\ parent[p[2]] = j.to
                         \/ p[1] # r /\ <<parent[p[1]], parent[p[2]]>> \in j.made
    /\ \A c \in Items, d \in Items \cup {Root} :
          Waits(j, c, d) /\ j.made # {}
             => c # r /\ c \notin Originals(j) /\ <<parent[c], d>> \in j.made

(* Nothing is copied twice.                                                *)
Single(j) ==
    /\ \A p, q \in j.made : p[1] = q[1] <=> p[2] = q[2]
    /\ \A f, g \in 1..Len(j.todo) : j.todo[f].dst = j.todo[g].dst => f = g
    /\ j.pc \in Before => \A f \in 1..Len(j.todo) : j.cur \notin j.todo[f].kids

(* The copies are outside of what is copied.                               *)
Separate(j, r) ==
    /\ ~Hot(r, j.to)
    /\ Copies(j) \cap Below(r) = {}
    /\ Originals(j) \cup Awaited(j) \subseteq Below(r)
    /\ j.to \notin Copies(j)
    /\ \A c \in Copies(j) : LiveChildren(c) \subseteq Copies(j)

(* The children of what was copied were copied, or wait.                   *)
Covered(j) ==
    /\ j.pc = "read" => /\ <<j.cur.id, j.dst>> \in j.made /\ LiveChildren(j.dst) = {}
                        /\ \A f \in 1..Len(j.todo) : j.todo[f].dst # j.dst
    /\ \A p \in j.made : \/ j.pc = "read" /\ p = <<j.cur.id, j.dst>>
                         \/ LiveChildren(p[1]) \subseteq Originals(j) \cup Awaited(j)

(* A name is only changed where names were the same.                       *)
Renamed(j, r) ==
    /\ \A p \in j.made : p[1] # r /\ Differ(parent[p[1]]) => name[p[2]] = name[p[1]]
    /\ j.pc \in Before /\ j.made # {} /\ Differ(parent[j.cur.id]) => j.n = 0

Clean(j, r) ==
    /\ Begun(j, r) /\ Chained(j, r) /\ Single(j) /\ Separate(j, r) /\ Covered(j)
    /\ Renamed(j, r)

CopyInv(j) ==
    /\ j \in CopyJobs
    /\ IF j.pc = "target" THEN j.dst = j.to ELSE {j.dst, j.to} \subseteq Homes \cup {Root}
    /\ j.pc = "read" => j.cur.id \in Folders /\ j.dst \in Homes
    /\ j.pc \in {"file", "insert"} => ~Taken(j.storage, j.dst, NewName(j), Root)
    /\ HotJob(j) \/ \E r \in Lives : Clean(j, r)

RenameInv(j) ==
    /\ j \in RenameJobs /\ j.dir = parent[j.item]
    /\ j.pc = "save" => ~Taken(StorageOf[j.item], j.dir, j.new, j.item)

EditInv(j) == j = NoEdit \/ j \in PickJobs \/ RenameInv(j) \/ CopyInv(j)

(* One request at a time.                                                  *)
Sole ==
    /\ \A e, f \in Editors : edit[e] # NoEdit /\ edit[f] # NoEdit => e = f
    /\ (\E e \in Editors : edit[e] # NoEdit) =>
          purge = Resting /\ \A h \in Handlers : call[h] = Idle

EditsOK ==
    /\ edit = [e \in Editors |-> edit[e]]
    /\ \A j \in {edit[e] : e \in Editors} : EditInv(j)

NamesInv == SerialInv /\ NamesOK /\ Sole /\ EditsOK

(* While the tree rests, what an editor holds stays good.                  *)
LEMMA TreeRests ==
    ASSUME UNCHANGED <<status, parent, name>>, NEW j, EditInv(j)
    PROVE  EditInv(j)'
<1>1. /\ \A i : IsLive(i)' <=> IsLive(i)
      /\ \A i : LiveChildren(i)' = LiveChildren(i)
      /\ \A i : Doc(i)' = Doc(i)
  BY DEF IsLive, LiveChildren, Doc
<1>2. Lives' = Lives /\ Homes' = Homes
  BY <1>1 DEF Lives, Homes
<1>3. Docs' = Docs
  BY <1>1, <1>2 DEF Docs
<1>4. Frames' = Frames
  BY <1>2, <1>3 DEF Frames
<1>5. \A t, d, n, b : Taken(t, d, n, b)' <=> Taken(t, d, n, b)
  BY <1>1 DEF Taken
<1>6. \A r : Below(r)' = Below(r)
  BY <1>1 DEF Below
<1>7. \A c, d : Hot(c, d)' <=> Hot(c, d)
  BY <1>1 DEF Hot
<1>8. \A d : Differ(d)' <=> Differ(d)
  BY <1>1, <1>5 DEF Differ
<1>9. CopyJobs' = CopyJobs /\ PickJobs' = PickJobs /\ RenameJobs' = RenameJobs
  BY <1>2, <1>3, <1>4 DEF CopyJobs, PickJobs, RenameJobs
<1>10. HotJob(j)' <=> HotJob(j)
  BY <1>2, <1>7 DEF HotJob
<1>11. ASSUME NEW r, Clean(j, r) PROVE Clean(j, r)'
  <2>1. Separate(j, r)' /\ Covered(j)'
    BY <1>1, <1>6, <1>7, <1>11 DEF Clean, Separate, Covered
  <2>2. Renamed(j, r)'
    BY <1>8, <1>11 DEF Clean, Renamed
  <2>3. Begun(j, r)' /\ Chained(j, r)' /\ Single(j)'
    BY <1>11 DEF Clean, Begun, Chained, Single
  <2> QED
    BY <2>1, <2>2, <2>3 DEF Clean
<1>12. RenameInv(j) => RenameInv(j)'
  BY <1>5, <1>9 DEF RenameInv
<1>13. CopyInv(j) => CopyInv(j)'
  BY <1>2, <1>5, <1>9, <1>10, <1>11 DEF CopyInv
<1> QED
  BY <1>9, <1>12, <1>13 DEF EditInv

-----------------------------------------------------------------------------
(* One request at a time.                                                  *)

LEMMA EditingOne ==
    ASSUME Sole
    PROVE  /\ Editing \in Nat
           /\ Editing = 0 => \A e \in Editors : edit[e] = NoEdit
           /\ (\E e \in Editors : edit[e] # NoEdit) => Editing = 1
<1> DEFINE E == {e \in Editors : edit[e] # NoEdit}
<1>1. CASE E = {}
  <2>1. Cardinality({}) = 0
    BY FS_EmptySet
  <2> QED
    BY <1>1, <2>1 DEF Editing
<1>2. CASE E # {}
  <2>1. PICK e \in Editors : edit[e] # NoEdit
    BY <1>2
  <2>2. E = {e}
    BY <2>1 DEF Sole
  <2>3. Cardinality({e}) = 1
    BY FS_Singleton
  <2> QED
    BY <2>1, <2>2, <2>3 DEF Editing
<1> QED
  BY <1>1, <1>2

LEMMA InFlightNat ==
    ASSUME TypeOK
    PROVE  InFlight \in Nat
<1>1. IsFiniteSet(Busy)
  BY TreeAssumption, FS_Subset DEF Busy
<1>2. Cardinality(Busy) \in Nat
  BY <1>1, FS_CardinalityType
<1> QED
  BY <1>2 DEF InFlight

(* An edit begins when nothing is under way.                               *)
LEMMA NothingUnderWay ==
    ASSUME MaxInFlight = 1, NamesInv, InFlight + Editing < MaxInFlight
    PROVE  /\ purge = Resting /\ \A h \in Handlers : call[h] = Idle
           /\ \A e \in Editors : edit[e] = NoEdit
<1>1. InFlight \in Nat /\ Editing \in Nat /\ TypeOK
  BY InFlightNat, EditingOne DEF NamesInv, SerialInv
<1>2. InFlight < 1 /\ Editing = 0
  BY <1>1
<1> QED
  BY <1>1, <1>2, NothingInFlight, EditingOne DEF NamesInv

(* While an edit is under way the tree's handlers and the purge rest.      *)
LEMMA TreeWaits ==
    ASSUME MaxInFlight = 1, NamesInv, TypeOK', TreeStep
    PROVE  \A e \in Editors : edit[e] = NoEdit
<1> SUFFICES ASSUME NEW e \in Editors, edit[e] # NoEdit PROVE FALSE
  OBVIOUS
<1>1. Editing = 1 /\ purge = Resting /\ \A h \in Handlers : call[h] = Idle
  BY EditingOne DEF NamesInv, Sole
<1>2. purge' = Resting /\ \A h \in Handlers : call'[h] = Idle
  <2>1. InFlight' \in Nat
    <3>1. TypeOK => InFlight \in Nat
      BY InFlightNat
    <3>2. IsFiniteSet(Busy')
      BY TreeAssumption, FS_Subset DEF Busy
    <3>3. Cardinality(Busy') \in Nat
      BY <3>2, FS_CardinalityType
    <3> QED
      BY <3>3 DEF InFlight
  <2>2. InFlight' + Editing <= 1
    BY DEF TreeStep
  <2>3. InFlight' = 0
    <3> DEFINE n == InFlight'
               m == Editing
    <3>1. n \in Nat /\ n + m <= 1 /\ m = 1
      BY <1>1, <2>1, <2>2
    <3> HIDE DEF n, m
    <3>2. n = 0
      BY <3>1
    <3> QED
      BY <3>2 DEF n
  <2>4. IsFiniteSet(Busy')
    BY TreeAssumption, FS_Subset DEF Busy
  <2>5. Cardinality(Busy') \in Nat
    BY <2>4, FS_CardinalityType
  <2>6. purge' = Resting /\ Cardinality(Busy') = 0
    BY <2>3, <2>5 DEF InFlight
  <2>7. Busy' = {}
    BY <2>4, <2>6, FS_EmptySet
  <2> QED
    BY <2>6, <2>7 DEF Busy
<1>3. \A h \in Handlers : call[h].op = "none" /\ call[h].pc = "idle"
  BY <1>1 DEF Idle
<1>4. \A h \in Handlers : ~Continue(h)
  BY <1>3 DEF Continue, CreateInsert, MoveTarget, MoveWalk, MoveSave, Collect, DeleteWrite,
     RestoreTarget, RestoreRoot, RestoreChildren, ScheduleWrite, Collected, At
<1>5. \A h \in Handlers : ~Start(h)
  <2> SUFFICES ASSUME NEW h \in Handlers, Start(h) PROVE FALSE
    OBVIOUS
  <2>1. ASSUME NEW c, Begin(h, c), c.op # "none" PROVE FALSE
    <3>1. call'[h] = c
      BY <2>1 DEF Begin, NamesInv, SerialInv, TypeOK
    <3> QED
      BY <1>2, <2>1, <3>1 DEF Idle
  <2>2. ASSUME NEW i, NEW to, BeginCreate(h, i, to) PROVE FALSE
    BY <2>1, <2>2 DEF BeginCreate, Idle
  <2>3. ASSUME NEW i, NEW to, BeginMove(h, i, to) PROVE FALSE
    BY <2>1, <2>3 DEF BeginMove, Idle
  <2>4. ASSUME NEW i, BeginDelete(h, i) PROVE FALSE
    BY <2>1, <2>4 DEF BeginDelete, Idle
  <2>5. ASSUME NEW i, NEW to, BeginRestore(h, i, to) PROVE FALSE
    BY <2>1, <2>5 DEF BeginRestore, Idle
  <2>6. ASSUME NEW i, BeginSchedule(h, i) PROVE FALSE
    BY <2>1, <2>6 DEF BeginSchedule, Idle
  <2> QED
    BY <2>2, <2>3, <2>4, <2>5, <2>6 DEF Start
<1>6. ~PurgeScan /\ ~PurgeStep
  BY <1>1, <1>2 DEF PurgeScan, PurgeStep, PurgePick, PurgeCollect, PurgeDelete, Resting
<1>7. \A h \in Handlers : ~NamedInsert(h)
  BY <1>3 DEF NamedInsert, CreateInsert, At
<1> QED
  BY <1>1, <1>4, <1>5, <1>6, <1>7 DEF TreeStep

(* Handlers and the purge keep the invariant: no edit is under way.        *)
LEMMA TreeStepKeeps ==
    ASSUME MaxInFlight = 1, NamesInv, TreeStep
    PROVE  NamesInv'
<1>1. Next
  BY DEF TreeStep, Next, NamedInsert, Continue
<1>2. SerialInv' /\ TypeOK'
  BY <1>1, SerialStep DEF NamesInv, SerialInv
<1>3. \A e \in Editors : edit[e] = NoEdit
  BY <1>2, TreeWaits
<1>4. edit' = edit
  BY DEF TreeStep
<1>5. Sole'
  BY <1>3, <1>4 DEF Sole
<1>6. EditsOK'
  BY <1>3, <1>4 DEF NamesInv, EditsOK, EditInv
<1>7. NamesOK'
  BY DEF TreeStep, NamedInsert, NamesInv, NamesOK
<1> QED
  BY <1>2, <1>5, <1>6, <1>7 DEF NamesInv

LEMMA SerialRests ==
    ASSUME SerialInv, UNCHANGED <<status, parent, call, purge>>,
           requests' \in 0..MaxRequests
    PROVE  SerialInv'
<1>1. TypeOK'
  BY DEF SerialInv, TypeOK
<1> QED
  BY <1>1 DEF SerialInv, Tree, ParentIsFolder, NoOrphan, TrashClosed,
              Alone, PurgeInv, HandlerInv, ClosedBut, Children, LiveDir,
              RestoreAt, Exists, IsTrash, IsLive

(* An editor goes on to k.                                                 *)
LEMMA EditGoesOn ==
    ASSUME NamesInv, NEW e \in Editors, edit[e] # NoEdit, NEW k,
           edit' = [edit EXCEPT ![e] = k], UNCHANGED <<call, purge>>,
           SerialInv', NamesOK', EditInv(k)'
    PROVE  NamesInv'
<1>1. \A f \in Editors : edit'[f] = IF f = e THEN k ELSE NoEdit
  BY DEF NamesInv, Sole, EditsOK
<1>2. Sole'
  BY <1>1 DEF Sole, NamesInv
<1>3. EditInv(NoEdit)'
  BY DEF EditInv
<1>4. \A j \in {edit'[f] : f \in Editors} : EditInv(j)'
  <2> SUFFICES ASSUME NEW j, j = k \/ j = NoEdit PROVE EditInv(j)'
    BY <1>1
  <2> QED
    BY <1>3
<1>5. EditsOK'
  BY <1>4 DEF EditsOK, NamesInv
<1> QED
  BY <1>2, <1>5 DEF NamesInv

(* The same when the tree rests.                                           *)
LEMMA EditOnly ==
    ASSUME NamesInv, NEW e \in Editors, edit[e] # NoEdit, NEW k, Step(e, k),
           UNCHANGED <<status, parent, name>>, EditInv(k)
    PROVE  NamesInv'
<1>1. edit' = [edit EXCEPT ![e] = k] /\ UNCHANGED <<call, purge, requests>>
  BY DEF Step
<1>2. SerialInv'
  BY <1>1, SerialRests DEF NamesInv, SerialInv, TypeOK
<1>3. NamesOK'
  BY DEF NamesInv, NamesOK
<1> QED
  BY <1>1, <1>2, <1>3, TreeRests, EditGoesOn

(* A request begins.                                                       *)
LEMMA BeginEditKeeps ==
    ASSUME MaxInFlight = 1, NamesInv, NEW e \in Editors, NEW k, NEW n \in Nat,
           BeginEdit(e, k, n), EditInv(k)
    PROVE  NamesInv'
<1>1. /\ purge = Resting /\ \A h \in Handlers : call[h] = Idle
      /\ \A f \in Editors : edit[f] = NoEdit
  BY NothingUnderWay DEF BeginEdit
<1>2. \A f \in Editors : edit'[f] = IF f = e THEN k ELSE NoEdit
  BY <1>1 DEF BeginEdit, NamesInv, EditsOK
<1>3. requests' \in 0..MaxRequests /\ UNCHANGED <<status, parent, call, purge, name>>
  BY DEF BeginEdit, NamesInv, SerialInv, TypeOK
<1>4. SerialInv'
  BY <1>3, SerialRests DEF NamesInv
<1>5. NamesOK' /\ Sole'
  BY <1>1, <1>2, <1>3 DEF NamesInv, NamesOK, Sole
<1>6. EditInv(NoEdit)' /\ EditInv(k)'
  BY <1>3, TreeRests DEF EditInv
<1>7. \A j \in {edit'[f] : f \in Editors} : EditInv(j)'
  <2> SUFFICES ASSUME NEW j, j = k \/ j = NoEdit PROVE EditInv(j)'
    BY <1>2
  <2> QED
    BY <1>6
<1>8. EditsOK'
  BY <1>7 DEF EditsOK, NamesInv, BeginEdit
<1> QED
  BY <1>4, <1>5, <1>8 DEF NamesInv

-----------------------------------------------------------------------------
(* Renames.                                                                *)

LEMMA BeginRenameKeeps ==
    ASSUME MaxInFlight = 1, NamesInv, NEW e \in Editors, RenameItem(e)
    PROVE  NamesInv'
<1>1. PICK i \in Items, new \in UserNames : BeginRename(e, i, new)
  BY DEF RenameItem
<1> DEFINE k == [op |-> "rename", pc |-> "check", item |-> i, dir |-> parent[i], new |-> new]
<1>2. IsLive(i) /\ BeginEdit(e, k, 1)
  BY <1>1 DEF BeginRename
<1>3. EditInv(k)
  BY <1>2 DEF EditInv, RenameInv, RenameJobs, Lives, NamesInv, SerialInv, TypeOK
<1> QED
  BY <1>2, <1>3, BeginEditKeeps

LEMMA EditorHas ==
    ASSUME NamesInv, NEW e \in Editors, NEW op, NEW pc, Editor(e, op, pc), op # "none"
    PROVE  EditInv(edit[e]) /\ edit[e] # NoEdit
BY DEF NamesInv, EditsOK, Editor, NoEdit

LEMMA RenameCheckKeeps ==
    ASSUME NamesInv, NEW e \in Editors, RenameCheck(e)
    PROVE  NamesInv'
<1>1. PICK j : j = edit[e]
  OBVIOUS
<1>2. EditInv(j) /\ j # NoEdit /\ j.op = "rename" /\ j.pc = "check"
  BY <1>1, EditorHas DEF RenameCheck, Editor
<1>3. RenameInv(j)
  BY <1>2 DEF EditInv, PickJobs, CopyInv, CopyJobs
<1>4. PICK k : k = IF Taken(StorageOf[j.item], j.dir, j.new, j.item) THEN NoEdit ELSE [j EXCEPT !.pc = "save"]
  OBVIOUS
<1>5. Step(e, k) /\ UNCHANGED <<status, parent, name>>
  BY <1>1, <1>4 DEF RenameCheck
<1>6. EditInv(k)
  <2>1. CASE k = NoEdit
    BY <2>1 DEF EditInv
  <2>2. CASE k # NoEdit
    <3>1. k = [j EXCEPT !.pc = "save"] /\ ~Taken(StorageOf[j.item], j.dir, j.new, j.item) /\ j \in RenameJobs
      BY <1>3, <1>4, <2>2 DEF RenameInv
    <3>2. k \in RenameJobs /\ k.dir = j.dir /\ k.item = j.item /\ k.new = j.new
      BY <3>1 DEF RenameJobs
    <3> QED
      BY <1>3, <3>1, <3>2 DEF RenameInv, EditInv
  <2> QED
    BY <2>1, <2>2
<1> QED
  BY <1>1, <1>2, <1>5, <1>6, EditOnly

(* What a rename needs to know when it saves.                              *)
LEMMA RenameKnows ==
    ASSUME NamesInv, NEW e \in Editors, RenameSave(e)
    PROVE  /\ edit[e] # NoEdit /\ edit[e].item \in Lives
           /\ ~Taken(StorageOf[edit[e].item], parent[edit[e].item], edit[e].new,
                   edit[e].item)
<1>1. PICK j : j = edit[e]
  OBVIOUS
<1>2. EditInv(j) /\ j # NoEdit /\ j.op = "rename" /\ j.pc = "save"
  BY <1>1, EditorHas DEF RenameSave, Editor
<1>3. RenameInv(j)
  BY <1>2 DEF EditInv, PickJobs, CopyInv, CopyJobs
<1>4. j.dir = parent[j.item] /\ j.item \in Lives /\ ~Taken(StorageOf[j.item], j.dir, j.new, j.item)
  BY <1>2, <1>3 DEF RenameInv, RenameJobs
<1> QED
  BY <1>1, <1>2, <1>4

LEMMA RenameSaveKeeps ==
    ASSUME NamesInv, NEW e \in Editors, RenameSave(e)
    PROVE  NamesInv'
<1>1. edit[e] # NoEdit
  BY RenameKnows
<1>2. /\ edit' = [edit EXCEPT ![e] = NoEdit]
      /\ UNCHANGED <<call, purge, requests, status, parent>>
  BY DEF RenameSave, Step
<1>3. SerialInv'
  BY <1>2, SerialRests DEF NamesInv, SerialInv, TypeOK
<1>4. NamesOK'
  BY DEF NamesInv, NamesOK, RenameSave
<1>5. EditInv(NoEdit)'
  BY DEF EditInv
<1> QED
  BY <1>1, <1>2, <1>3, <1>4, <1>5, EditGoesOn

-----------------------------------------------------------------------------
(* Copies begin and end.                                                   *)

LEMMA PickingOK ==
    ASSUME NEW s \in Stores, NEW to \in Items \cup {Root}, NEW more \in SUBSET Items
    PROVE  EditInv(Picking(s, to, more))
BY DEF Picking, PickJobs, EditInv

LEMMA AfterCopyOK ==
    ASSUME NEW j, j.storage \in Stores, j.to \in Items \cup {Root}, j.more \in SUBSET Items
    PROVE  EditInv(AfterCopy(j))
<1>1. EditInv(NoEdit)
  BY DEF EditInv
<1> QED
  BY <1>1, PickingOK DEF AfterCopy

(* A copy is hot from the start or clean.                                  *)
LEMMA NewCopyOK ==
    ASSUME NEW i \in Lives, NEW to \in Items \cup {Root}, NEW more \in SUBSET Items
    PROVE  EditInv(CopyJob(i, to, more))
<1>1. PICK j : j = CopyJob(i, to, more)
  OBVIOUS
<1>2. <<>> \in Seq(Frames) /\ Len(<<>>) = 0
  OBVIOUS
<1>3. /\ j.pc = (IF to = Root THEN "name" ELSE "target") /\ j.cur = Doc(i) /\ j.dst = to
      /\ j.n = 0 /\ j.todo = <<>> /\ j.made = {} /\ j.to = to
  BY <1>1 DEF CopyJob
<1>4. i \in Items /\ Doc(i) \in Docs /\ Doc(i).id = i
  BY DEF Lives, Docs, Doc
<1>5. j \in CopyJobs
  BY <1>1, <1>2, <1>4 DEF CopyJob, CopyJobs, Before, Stores
<1>6. \A c, d : Waits(j, c, d) <=> c = i /\ d = to
  BY <1>2, <1>3, <1>4 DEF Waits, Before
<1>7. HotJob(j) \/ Clean(j, i)
  <2> SUFFICES ASSUME ~HotJob(j) PROVE Clean(j, i)
    OBVIOUS
  <2>1. ~Hot(i, to)
    BY <1>6 DEF HotJob
  <2>2. Copies(j) = {} /\ Originals(j) = {} /\ Awaited(j) = {i}
    BY <1>3, <1>4, <1>6 DEF Copies, Originals, Awaited
  <2>3. Begun(j, i)
    BY <1>3, <1>4 DEF Begun, Before
  <2>4. Chained(j, i)
    BY <1>3 DEF Chained
  <2>5. Single(j)
    BY <1>2, <1>3 DEF Single
  <2>6. Separate(j, i)
    BY <1>3, <1>4, <2>1, <2>2, BelowSelf DEF Separate
  <2>7. Covered(j) /\ Renamed(j, i)
    BY <1>3 DEF Covered, Renamed
  <2> QED
    BY <2>3, <2>4, <2>5, <2>6, <2>7 DEF Clean
<1>8. CopyInv(j)
  BY <1>3, <1>5, <1>7 DEF CopyInv
<1> QED
  BY <1>1, <1>8 DEF EditInv

LEMMA BeginCopyKeeps ==
    ASSUME MaxInFlight = 1, NamesInv, NEW e \in Editors, CopyItem(e)
    PROVE  NamesInv'
<1>1. PICK i \in Items, to \in Items \cup {Root} : BeginCopy(e, i, to)
  BY DEF CopyItem
<1>2. IsLive(i) /\ BeginEdit(e, CopyJob(i, to, {}), 1)
  BY <1>1 DEF BeginCopy
<1>3. EditInv(CopyJob(i, to, {}))
  BY <1>2, NewCopyOK DEF Lives
<1> QED
  BY <1>2, <1>3, BeginEditKeeps

LEMMA BatchKeeps ==
    ASSUME MaxInFlight = 1, NamesInv, NEW e \in Editors, BatchCopyItems(e)
    PROVE  NamesInv'
<1>1. PICK more \in SUBSET {i \in Items : IsLive(i)}, to \in Items \cup {Root} :
         \E i \in more : BeginEdit(e, Picking(StorageOf[i], to, more), Cardinality(more))
  BY DEF BatchCopyItems
<1>0. PICK i \in more : BeginEdit(e, Picking(StorageOf[i], to, more), Cardinality(more))
  BY <1>1
<1>2. more \in SUBSET Items /\ IsFiniteSet(more)
  BY NamesAssumption, FS_Subset
<1>3. Cardinality(more) \in Nat
  BY <1>2, FS_CardinalityType
<1>4. EditInv(Picking(StorageOf[i], to, more))
  BY <1>0, <1>2, PickingOK DEF Stores
<1> QED
  BY <1>0, <1>3, <1>4, BeginEditKeeps

LEMMA PickCopyKeeps ==
    ASSUME NamesInv, NEW e \in Editors, PickCopy(e)
    PROVE  NamesInv'
<1>1. PICK j : j = edit[e]
  OBVIOUS
<1>2. EditInv(j) /\ j # NoEdit /\ j.op = "copy" /\ j.pc = "pick"
  BY <1>1, EditorHas DEF PickCopy, Editor
<1>3. j \in PickJobs
  BY <1>2 DEF EditInv, RenameInv, RenameJobs, CopyInv, CopyJobs, Before
<1>4. PICK i \in j.more :
         Step(e, IF IsLive(i) /\ StorageOf[i] = j.storage
                   THEN CopyJob(i, j.to, j.more \ {i})
                   ELSE AfterCopy([j EXCEPT !.more = @ \ {i}]))
  BY <1>1 DEF PickCopy
<1>5. /\ j.more \in SUBSET Items /\ j.to \in Items \cup {Root} /\ i \in Items
      /\ j.storage \in Stores
  BY <1>3 DEF PickJobs
<1>6. CASE IsLive(i) /\ StorageOf[i] = j.storage
  <2>1. EditInv(CopyJob(i, j.to, j.more \ {i}))
    BY <1>5, <1>6, NewCopyOK DEF Lives
  <2> QED
    BY <1>1, <1>2, <1>4, <1>6, <2>1, EditOnly DEF PickCopy
<1>7. CASE ~(IsLive(i) /\ StorageOf[i] = j.storage)
  <2>1. PICK k : k = [j EXCEPT !.more = @ \ {i}]
    OBVIOUS
  <2>2. k.to = j.to /\ k.more = j.more \ {i} /\ k.storage = j.storage
    BY <1>3, <2>1 DEF PickJobs
  <2>3. EditInv(AfterCopy(k))
    BY <1>5, <2>2, AfterCopyOK
  <2>4. Step(e, AfterCopy(k))
    BY <1>4, <1>7, <2>1
  <2> QED
    BY <1>1, <1>2, <2>3, <2>4, EditOnly DEF PickCopy
<1> QED
  BY <1>6, <1>7

-----------------------------------------------------------------------------
(* Copies look for a name.                                                 *)

LEMMA CopyHas ==
    ASSUME NamesInv, NEW e \in Editors, NEW pc, Editor(e, "copy", pc), pc # "pick"
    PROVE  CopyInv(edit[e]) /\ edit[e] # NoEdit /\ edit[e].pc = pc
<1>1. PICK j : j = edit[e]
  OBVIOUS
<1>2. EditInv(j) /\ j # NoEdit /\ j.op = "copy" /\ j.pc = pc
  BY <1>1, EditorHas DEF Editor
<1>3. CopyInv(j)
  BY <1>2 DEF EditInv, PickJobs, RenameInv, RenameJobs
<1> QED
  BY <1>1, <1>2, <1>3

(* A step before the insertion that changes the place, or the number.      *)
LEMMA StillBefore ==
    ASSUME NEW j, NEW k, j.pc \in Before, k.pc \in Before, k.cur = j.cur, k.dst = j.dst,
           k.todo = j.todo, k.made = j.made, k.to = j.to,
           HotJob(j) \/ \E r \in Lives : Clean(j, r),
           \A r \in Lives : Clean(j, r) => Renamed(k, r)
    PROVE  HotJob(k) \/ \E r \in Lives : Clean(k, r)
<1>1. \A c, d : Waits(k, c, d) <=> Waits(j, c, d)
  BY DEF Waits
<1>2. Copies(k) = Copies(j) /\ Originals(k) = Originals(j) /\ Awaited(k) = Awaited(j)
  BY <1>1 DEF Copies, Originals, Awaited
<1>3. j.pc # "read" /\ k.pc # "read"
  BY DEF Before
<1>4. HotJob(j) => HotJob(k)
  BY <1>1, <1>3 DEF HotJob
<1>5. ASSUME NEW r \in Lives, Clean(j, r) PROVE Clean(k, r)
  <2>1. Begun(k, r) /\ Chained(k, r) /\ Single(k)
    BY <1>1, <1>2, <1>5 DEF Clean, Begun, Chained, Single
  <2>2. Separate(k, r)
    BY <1>2, <1>5 DEF Clean, Separate
  <2>3. Covered(k)
    BY <1>2, <1>3, <1>5 DEF Clean, Covered
  <2> QED
    BY <1>5, <2>1, <2>2, <2>3 DEF Clean
<1> QED
  BY <1>4, <1>5

LEMMA SameNumber ==
    ASSUME NEW j, NEW k, j.pc \in Before, k.cur = j.cur, k.made = j.made, k.n = j.n,
           NEW r, Clean(j, r)
    PROVE  Renamed(k, r)
BY DEF Clean, Renamed

LEMMA CopyTargetKeeps ==
    ASSUME NamesInv, NEW e \in Editors, CopyTarget(e)
    PROVE  NamesInv'
<1>1. PICK j : j = edit[e]
  OBVIOUS
<1>2. CopyInv(j) /\ j # NoEdit /\ j.pc = "target"
  BY <1>1, CopyHas DEF CopyTarget
<1>3. j \in CopyJobs /\ (HotJob(j) \/ \E r \in Lives : Clean(j, r)) /\ j.dst = j.to
  BY <1>2 DEF CopyInv
<1>4. PICK k : k = IF LiveDir(j.dst) /\ StorageOf[j.dst] = j.storage
                     THEN [j EXCEPT !.pc = "name"] ELSE AfterCopy(j)
  OBVIOUS
<1>5. Step(e, k) /\ UNCHANGED <<status, parent, name>>
  BY <1>1, <1>4 DEF CopyTarget
<1>6. EditInv(AfterCopy(j))
  BY <1>3, AfterCopyOK DEF CopyJobs
<1>7. ASSUME LiveDir(j.dst), k = [j EXCEPT !.pc = "name"] PROVE CopyInv(k)
  <2>1. /\ k \in CopyJobs /\ k.pc = "name" /\ k.cur = j.cur /\ k.dst = j.dst
        /\ k.todo = j.todo /\ k.made = j.made /\ k.to = j.to /\ k.n = j.n
    BY <1>3, <1>7 DEF CopyJobs, Before
  <2>2. HotJob(k) \/ \E r \in Lives : Clean(k, r)
    BY <1>2, <1>3, <2>1, StillBefore, SameNumber DEF Before
  <2> QED
    BY <1>3, <1>7, <2>1, <2>2 DEF CopyInv, LiveDir, Homes
<1>8. EditInv(k)
  BY <1>4, <1>6, <1>7 DEF EditInv
<1> QED
  BY <1>1, <1>2, <1>5, <1>8, EditOnly

(* Below its root a copy only tries a second name where two originals have *)
(* the same.                                                               *)
LEMMA TwinTaken ==
    ASSUME NEW j, CopyInv(j), NEW r \in Lives, Clean(j, r), j.pc \in Before, j.made # {},
           Taken(j.storage, j.dst, NewName(j), Root)
    PROVE  ~Differ(parent[j.cur.id])
<1> SUFFICES ASSUME Differ(parent[j.cur.id]) PROVE FALSE
  OBVIOUS
<1>1. j \in CopyJobs
  BY DEF CopyInv
<1>2. PICK c \in Lives : j.cur = Doc(c)
  BY <1>1 DEF CopyJobs, Docs
<1>3. j.cur.id = c /\ j.cur.name = name[c] /\ c \in Items /\ j.dst \in Items \cup {Root}
  BY <1>1, <1>2 DEF Doc, Lives, CopyJobs
<1>4. j.n = 0
  BY DEF Clean, Renamed
<1>5. NewName(j) = name[c]
  BY <1>3, <1>4 DEF NewName, Candidate
<1>6. Waits(j, c, j.dst)
  BY <1>3 DEF Waits
<1>7. c \notin Originals(j) /\ <<parent[c], j.dst>> \in j.made
  BY <1>3, <1>6 DEF Clean, Chained
<1>8. PICK y \in LiveChildren(j.dst) : name[y] = name[c]
  BY <1>5 DEF Taken
<1>9. j.dst \in Copies(j) /\ j.to \notin Copies(j)
  BY <1>7 DEF Copies, Clean, Separate
<1>10. PICK q \in j.made : y = q[2]
  BY <1>8, <1>9 DEF Clean, Separate, Copies
<1>11. parent[y] = j.dst
  BY <1>8 DEF LiveChildren
<1>12. q[1] # r /\ <<parent[q[1]], j.dst>> \in j.made
  BY <1>9, <1>10, <1>11 DEF Clean, Chained
<1>13. parent[q[1]] = parent[c]
  BY <1>7, <1>12 DEF Clean, Single
<1>14. q[1] \in Lives /\ q[1] # c
  BY <1>1, <1>7, <1>10 DEF CopyJobs, Originals
<1>15. name[q[1]] = name[c]
  BY <1>3, <1>8, <1>10, <1>12, <1>13 DEF Clean, Renamed
<1>16. q[1] \in LiveChildren(parent[c]) /\ c \in LiveChildren(parent[c])
  BY <1>2, <1>13, <1>14 DEF LiveChildren, Lives
<1> QED
  BY <1>3, <1>14, <1>15, <1>16 DEF Differ

LEMMA CopyNameKeeps ==
    ASSUME NamesInv, NEW e \in Editors, CopyName(e)
    PROVE  NamesInv'
<1>1. PICK j : j = edit[e]
  OBVIOUS
<1>2. CopyInv(j) /\ j # NoEdit /\ j.pc = "name"
  BY <1>1, CopyHas DEF CopyName
<1>3. /\ j \in CopyJobs /\ (HotJob(j) \/ \E r \in Lives : Clean(j, r))
      /\ {j.dst, j.to} \subseteq Homes \cup {Root}
  BY <1>2 DEF CopyInv
<1>4. PICK k : k = IF Taken(j.storage, j.dst, NewName(j), Root) THEN [j EXCEPT !.n = @ + 1]
                   ELSE [j EXCEPT !.pc = IF j.cur.id \in Folders THEN "insert" ELSE "file"]
  OBVIOUS
<1>5. Step(e, k) /\ UNCHANGED <<status, parent, name>>
  BY <1>1, <1>4 DEF CopyName
<1>6. ASSUME Taken(j.storage, j.dst, NewName(j), Root) PROVE CopyInv(k)
  <2>1. k = [j EXCEPT !.n = @ + 1]
    BY <1>4, <1>6
  <2>2. /\ k \in CopyJobs /\ k.pc = "name" /\ k.cur = j.cur /\ k.dst = j.dst
        /\ k.todo = j.todo /\ k.made = j.made /\ k.to = j.to
    BY <1>2, <1>3, <2>1 DEF CopyJobs
  <2>3. ASSUME NEW r \in Lives, Clean(j, r) PROVE Renamed(k, r)
    <3>1. j.made # {} => ~Differ(parent[j.cur.id])
      BY <1>2, <1>6, <2>3, TwinTaken DEF Before
    <3> QED
      BY <2>2, <2>3, <3>1 DEF Clean, Renamed
  <2>4. HotJob(k) \/ \E r \in Lives : Clean(k, r)
    BY <1>2, <1>3, <2>2, <2>3, StillBefore DEF Before
  <2> QED
    BY <1>3, <2>2, <2>4 DEF CopyInv
<1>7. ASSUME ~Taken(j.storage, j.dst, NewName(j), Root) PROVE CopyInv(k)
  <2>1. k = [j EXCEPT !.pc = IF j.cur.id \in Folders THEN "insert" ELSE "file"]
    BY <1>4, <1>7
  <2>2. /\ k \in CopyJobs /\ k.pc \in {"file", "insert"} /\ k.cur = j.cur /\ k.dst = j.dst
        /\ k.todo = j.todo /\ k.made = j.made /\ k.to = j.to /\ k.n = j.n
    BY <1>2, <1>3, <2>1 DEF CopyJobs, Before
  <2>3. HotJob(k) \/ \E r \in Lives : Clean(k, r)
    BY <1>2, <1>3, <2>2, StillBefore, SameNumber DEF Before
  <2>4. NewName(k) = NewName(j) /\ k.storage = j.storage
    BY <1>3, <2>1, <2>2 DEF NewName, CopyJobs
  <2> QED
    BY <1>3, <1>7, <2>2, <2>3, <2>4 DEF CopyInv
<1>8. EditInv(k)
  BY <1>6, <1>7 DEF EditInv
<1> QED
  BY <1>1, <1>2, <1>5, <1>8, EditOnly

LEMMA CopyFileKeeps ==
    ASSUME NamesInv, NEW e \in Editors, CopyFile(e)
    PROVE  NamesInv'
<1>1. PICK j : j = edit[e]
  OBVIOUS
<1>2. CopyInv(j) /\ j # NoEdit /\ j.pc = "file"
  BY <1>1, CopyHas DEF CopyFile
<1>3. /\ j \in CopyJobs /\ (HotJob(j) \/ \E r \in Lives : Clean(j, r))
      /\ {j.dst, j.to} \subseteq Homes \cup {Root} /\ ~Taken(j.storage, j.dst, NewName(j), Root)
  BY <1>2 DEF CopyInv
<1>4. EditInv(AfterCopy(j))
  BY <1>3, AfterCopyOK DEF CopyJobs
<1>5. PICK k : k = [j EXCEPT !.pc = "insert"]
  OBVIOUS
<1>6. /\ k \in CopyJobs /\ k.pc = "insert" /\ k.cur = j.cur /\ k.dst = j.dst
      /\ k.todo = j.todo /\ k.made = j.made /\ k.to = j.to /\ k.n = j.n
  BY <1>3, <1>5 DEF CopyJobs, Before
<1>7. HotJob(k) \/ \E r \in Lives : Clean(k, r)
  BY <1>2, <1>3, <1>6, StillBefore, SameNumber DEF Before
<1>8. NewName(k) = NewName(j) /\ k.storage = j.storage
  BY <1>3, <1>5, <1>6 DEF NewName, CopyJobs
<1>9. EditInv(k)
  BY <1>3, <1>6, <1>7, <1>8 DEF CopyInv, EditInv
<1>10. Step(e, k) \/ Step(e, AfterCopy(j))
  BY <1>1, <1>5 DEF CopyFile
<1>11. UNCHANGED <<status, parent, name>>
  BY DEF CopyFile
<1> QED
  BY <1>1, <1>2, <1>4, <1>9, <1>10, <1>11, EditOnly

-----------------------------------------------------------------------------
(* Copies go down.                                                         *)

LEMMA Pushed ==
    ASSUME NEW S, NEW s \in Seq(S), NEW x \in S, NEW t, t = <<x>> \o s
    PROVE  /\ t \in Seq(S) /\ Len(s) \in Nat /\ Len(t) = Len(s) + 1 /\ t[1] = x
           /\ \A f \in 1..Len(s) : t[f + 1] = s[f]
           /\ \A f \in 2..Len(t) : f - 1 \in 1..Len(s) /\ t[f] = s[f - 1]
<1>1. <<x>> \in Seq(S) /\ Len(<<x>>) = 1 /\ <<x>>[1] = x
  OBVIOUS
<1>2. Len(s) \in Nat
  BY LenProperties
<1>3. /\ t \in Seq(S) /\ Len(t) = Len(s) + 1
      /\ \A f \in 1..(Len(s) + 1) : t[f] = IF f <= 1 THEN <<x>>[f] ELSE s[f - 1]
  BY <1>1, <1>2, ConcatProperties
<1> QED
  BY <1>1, <1>2, <1>3

LEMMA Popped ==
    ASSUME NEW S, NEW s \in Seq(S), s # <<>>, NEW t, t = Tail(s)
    PROVE  /\ t \in Seq(S) /\ Len(s) \in Nat \ {0} /\ Len(t) = Len(s) - 1
           /\ \A f \in 1..Len(t) : t[f] = s[f + 1]
BY EmptySeq, HeadTailProperties

LEMMA CopyReadKeeps ==
    ASSUME NamesInv, NEW e \in Editors, CopyRead(e)
    PROVE  NamesInv'
<1>1. PICK j : j = edit[e]
  OBVIOUS
<1>2. CopyInv(j) /\ j # NoEdit /\ j.pc = "read"
  BY <1>1, CopyHas DEF CopyRead
<1>3. /\ j \in CopyJobs /\ (HotJob(j) \/ \E r \in Lives : Clean(j, r))
      /\ j.cur.id \in Folders /\ j.dst \in Homes /\ j.to \in Homes \cup {Root}
  BY <1>2 DEF CopyInv
<1>4. PICK c \in Lives : j.cur = Doc(c)
  BY <1>3 DEF CopyJobs, Docs
<1>5. j.cur.id = c
  BY <1>4 DEF Doc
<1>6. PICK d : d = j.dst
  OBVIOUS
<1>7. PICK top : top = [dst |-> d, kids |-> {Doc(x) : x \in LiveChildren(c)}]
  OBVIOUS
<1>8. PICK k : k = [j EXCEPT !.pc = "next", !.todo = <<top>> \o @]
  OBVIOUS
<1>9. Step(e, k) /\ UNCHANGED <<status, parent, name>>
  BY <1>1, <1>5, <1>6, <1>7, <1>8 DEF CopyRead
<1>10. /\ top \in Frames /\ top.dst = d
       /\ \A x \in Items : (\E y \in top.kids : y.id = x) <=> x \in LiveChildren(c)
  <2>1. LiveChildren(c) \subseteq Lives /\ Lives \subseteq Items
    BY DEF LiveChildren, Lives
  <2> DEFINE kids == {Doc(x) : x \in LiveChildren(c)}
  <2>2. kids \in SUBSET Docs
    BY <2>1 DEF Docs
  <2>3. \A x \in Items : (\E y \in kids : y.id = x) <=> x \in LiveChildren(c)
    <3>1. \A x : Doc(x).id = x
      BY DEF Doc
    <3> QED
      BY <3>1
  <2> HIDE DEF kids
  <2>4. top = [dst |-> d, kids |-> kids] /\ d \in Homes
    BY <1>3, <1>6, <1>7 DEF kids
  <2> QED
    BY <2>2, <2>3, <2>4 DEF Frames
<1>11. /\ k.pc = "next" /\ k.cur = j.cur /\ k.dst = j.dst /\ k.n = j.n /\ k.made = j.made
       /\ k.to = j.to /\ k.todo = <<top>> \o j.todo
  BY <1>3, <1>8 DEF CopyJobs
<1>12. /\ k.todo \in Seq(Frames) /\ Len(j.todo) \in Nat /\ Len(k.todo) = Len(j.todo) + 1
       /\ k.todo[1] = top
       /\ \A f \in 1..Len(j.todo) : k.todo[f + 1] = j.todo[f]
       /\ \A f \in 2..Len(k.todo) : f - 1 \in 1..Len(j.todo) /\ k.todo[f] = j.todo[f - 1]
  <2>1. j.todo \in Seq(Frames)
    BY <1>3 DEF CopyJobs
  <2> QED
    BY <1>10, <1>11, <2>1, Pushed
<1>13. k \in CopyJobs
  BY <1>3, <1>8, <1>11, <1>12 DEF CopyJobs
<1>14. ASSUME NEW a \in Items, NEW b
       PROVE  Waits(k, a, b) <=> Waits(j, a, b) \/ (a \in LiveChildren(c) /\ b = d)
  <2>1. ASSUME Waits(j, a, b) PROVE Waits(k, a, b)
    <3>1. PICK f \in 1..Len(j.todo) :
             b = j.todo[f].dst /\ \E y \in j.todo[f].kids : y.id = a
      BY <1>2, <2>1 DEF Waits, Before
    <3>2. f + 1 \in 1..Len(k.todo) /\ k.todo[f + 1] = j.todo[f]
      BY <1>12
    <3> QED
      BY <3>1, <3>2 DEF Waits
  <2>2. ASSUME a \in LiveChildren(c), b = d PROVE Waits(k, a, b)
    <3>1. 1 \in 1..Len(k.todo) /\ k.todo[1] = top
      BY <1>12
    <3> QED
      BY <1>10, <2>2, <3>1 DEF Waits
  <2>3. ASSUME Waits(k, a, b), ~Waits(j, a, b) PROVE a \in LiveChildren(c) /\ b = d
    <3>1. PICK f \in 1..Len(k.todo) :
             b = k.todo[f].dst /\ \E y \in k.todo[f].kids : y.id = a
      BY <1>11, <2>3 DEF Waits, Before
    <3>2. f = 1
      <4> SUFFICES ASSUME f # 1 PROVE FALSE
        OBVIOUS
      <4>1. f \in 2..Len(k.todo)
        BY <1>12
      <4> QED
        BY <1>12, <2>3, <3>1, <4>1 DEF Waits
    <3> QED
      BY <1>10, <1>12, <3>1, <3>2
  <2> QED
    BY <2>1, <2>2, <2>3
<1>15. d \in Items /\ c \in Items /\ LiveChildren(c) \subseteq Lives /\ Lives \subseteq Items
  BY <1>3, <1>6, TreeAssumption DEF Homes, LiveChildren, Lives
<1>16. ASSUME HotJob(j) PROVE HotJob(k)
  <2>1. CASE \E a \in Lives, b \in Items \cup {Root} : Waits(j, a, b) /\ Hot(a, b)
    BY <1>14, <1>15, <2>1 DEF HotJob
  <2>2. CASE c # d /\ Hot(c, d)
    <3>1. PICK S \in SUBSET Items : c \in S /\ \A s \in S : s = d \/ LiveChildren(s) \cap S # {}
      BY <2>2 DEF Hot
    <3>2. PICK x \in LiveChildren(c) : x \in S
      BY <2>2, <3>1
    <3>3. Hot(x, d)
      BY <3>1, <3>2 DEF Hot
    <3>4. Waits(k, x, d)
      BY <1>14, <1>15
    <3> QED
      BY <1>15, <3>2, <3>3, <3>4 DEF HotJob
  <2> QED
    BY <1>5, <1>6, <1>16, <2>1, <2>2 DEF HotJob
<1>17. ASSUME NEW r \in Lives, Clean(j, r) PROVE Clean(k, r)
  <2>1. /\ <<c, d>> \in j.made /\ LiveChildren(d) = {}
        /\ \A f \in 1..Len(j.todo) : j.todo[f].dst # d
        /\ \A p \in j.made :
              p = <<c, d>> \/ LiveChildren(p[1]) \subseteq Originals(j) \cup Awaited(j)
    BY <1>2, <1>5, <1>6, <1>17 DEF Clean, Covered
  <2>2. Copies(k) = Copies(j) /\ Originals(k) = Originals(j) /\ c \in Originals(j)
    BY <1>11, <2>1 DEF Copies, Originals
  <2>3. Awaited(k) = Awaited(j) \cup LiveChildren(c)
    BY <1>14, <1>15 DEF Awaited
  <2>4. c \in Below(r) /\ LiveChildren(c) \subseteq Below(r) /\ r \in Items
    BY <1>17, <2>2, BelowClosed DEF Clean, Separate, Lives
  <2>5. Begun(k, r)
    BY <1>11, <1>17, <2>1, <2>2 DEF Clean, Begun
  <2>6. ASSUME NEW x \in LiveChildren(c) PROVE x # r /\ x \notin Originals(j) /\ parent[x] = c
    <3>1. x # r
      BY <1>17, <2>4, LoopHot DEF Clean, Separate
    <3>2. parent[x] = c
      BY DEF LiveChildren
    <3>3. ASSUME NEW p \in j.made, p[1] = x PROVE FALSE
      <4>1. <<c, parent[p[2]]>> \in j.made
        BY <1>17, <3>1, <3>2, <3>3 DEF Clean, Chained
      <4>2. parent[p[2]] = d
        BY <1>17, <2>1, <4>1 DEF Clean, Single
      <4>3. p[2] \in Lives
        BY <1>3, <3>3 DEF CopyJobs
      <4> QED
        BY <2>1, <4>2, <4>3 DEF LiveChildren, Lives
    <3> QED
      BY <3>1, <3>2, <3>3 DEF Originals
  <2>7. Chained(k, r)
    BY <1>11, <1>14, <1>17, <2>1, <2>2, <2>6 DEF Clean, Chained
  <2>8. Single(k)
    <3>1. ASSUME NEW f \in 1..Len(k.todo), NEW g \in 1..Len(k.todo), k.todo[f].dst = k.todo[g].dst
          PROVE  f = g
      <4>1. ASSUME NEW i \in 2..Len(k.todo) PROVE k.todo[i].dst # d
        BY <1>12, <2>1
      <4>2. CASE f \in 2..Len(k.todo) /\ g \in 2..Len(k.todo)
        <5>1. /\ f - 1 \in 1..Len(j.todo) /\ g - 1 \in 1..Len(j.todo)
              /\ j.todo[f - 1].dst = j.todo[g - 1].dst
          BY <1>12, <3>1, <4>2
        <5>2. f - 1 = g - 1
          BY <1>17, <5>1 DEF Clean, Single
        <5> QED
          BY <5>2
      <4>3. CASE f = 1 \/ g = 1
        BY <1>10, <1>12, <3>1, <4>1, <4>3
      <4> QED
        BY <1>12, <4>2, <4>3
    <3> QED
      BY <1>11, <1>17, <3>1 DEF Clean, Single, Before
  <2>9. Separate(k, r)
    BY <1>11, <1>17, <2>2, <2>3, <2>4 DEF Clean, Separate
  <2>10. Covered(k)
    BY <1>11, <2>1, <2>2, <2>3 DEF Covered
  <2>11. Renamed(k, r)
    BY <1>11, <1>17 DEF Clean, Renamed, Before
  <2> QED
    BY <2>5, <2>7, <2>8, <2>9, <2>10, <2>11 DEF Clean
<1>18. CopyInv(k)
  BY <1>3, <1>11, <1>13, <1>16, <1>17 DEF CopyInv
<1> QED
  BY <1>1, <1>2, <1>9, <1>18, EditOnly DEF EditInv

(* A step down that copies nothing keeps what waits.                       *)
LEMMA StillDown ==
    ASSUME NEW j, NEW k, j.pc = "next", k.pc \in Before \cup {"next"}, k.made = j.made,
           k.to = j.to, \A a \in Items : \A b : Waits(k, a, b) <=> Waits(j, a, b),
           HotJob(j) \/ \E r \in Lives : Clean(j, r),
           \A r \in Lives : Clean(j, r) => Single(k) /\ Renamed(k, r)
    PROVE  HotJob(k) \/ \E r \in Lives : Clean(k, r)
<1>1. Copies(k) = Copies(j) /\ Originals(k) = Originals(j) /\ Awaited(k) = Awaited(j)
  BY DEF Copies, Originals, Awaited
<1>2. j.pc \notin Before /\ k.pc # "read" /\ Lives \subseteq Items
  BY DEF Before, Lives
<1>3. HotJob(j) => HotJob(k)
  BY <1>2 DEF HotJob
<1>4. ASSUME NEW r \in Lives, Clean(j, r) PROVE Clean(k, r)
  <2>1. Begun(k, r) /\ Chained(k, r)
    BY <1>1, <1>2, <1>4 DEF Clean, Begun, Chained
  <2>2. Separate(k, r)
    BY <1>1, <1>4 DEF Clean, Separate
  <2>3. Covered(k)
    BY <1>1, <1>2, <1>4 DEF Clean, Covered
  <2> QED
    BY <1>4, <2>1, <2>2, <2>3 DEF Clean
<1> QED
  BY <1>3, <1>4

LEMMA CopyNextKeeps ==
    ASSUME NamesInv, NEW e \in Editors, CopyNext(e)
    PROVE  NamesInv'
<1>1. PICK j : j = edit[e]
  OBVIOUS
<1>2. CopyInv(j) /\ j # NoEdit /\ j.pc = "next" /\ Editor(e, "copy", "next")
  BY <1>1, CopyHas DEF CopyNext
<1>3. /\ j \in CopyJobs /\ (HotJob(j) \/ \E r \in Lives : Clean(j, r))
      /\ {j.dst, j.to} \subseteq Homes \cup {Root}
  BY <1>2 DEF CopyInv
<1>4. UNCHANGED <<status, parent, name>>
  BY DEF CopyNext
<1>5. CASE CopyDone(e)
  <2>1. EditInv(AfterCopy(j))
    BY <1>3, AfterCopyOK DEF CopyJobs
  <2>2. Step(e, AfterCopy(j))
    BY <1>1, <1>5 DEF CopyNext
  <2> QED
    BY <1>1, <1>2, <1>4, <2>1, <2>2, EditOnly
<1>6. CASE ~CopyDone(e)
  <2>1. PICK s : s = j.todo
    OBVIOUS
  <2>2. s \in Seq(Frames)
    BY <1>3, <2>1 DEF CopyJobs
  <2>3. \E f \in 1..Len(s) : TRUE
    BY <1>1, <1>2, <1>6, <2>1 DEF CopyDone
  <2>4. s # <<>> /\ Len(s) \in Nat \ {0} /\ 1 \in 1..Len(s)
    BY <2>2, <2>3, LenProperties
  <2>5. \A f \in 1..Len(s) : s[f] \in Frames
    BY <2>2
  <2>6. PICK top : top = s[1]
    OBVIOUS
  <2>7. Head(s) = top
    BY <2>2, <2>4, <2>6
  <2>8. top \in Frames /\ top.dst \in Homes /\ top.kids \in SUBSET Docs
    BY <2>4, <2>5, <2>6 DEF Frames
  <2>9. CASE top.kids = {}
    <3>1. PICK k : k = [j EXCEPT !.todo = Tail(@)]
      OBVIOUS
    <3>2. Step(e, k)
      BY <1>1, <1>6, <2>1, <2>7, <2>9, <3>1 DEF CopyNext
    <3>3. /\ k.pc = "next" /\ k.cur = j.cur /\ k.dst = j.dst /\ k.n = j.n /\ k.made = j.made
          /\ k.to = j.to /\ k.todo = Tail(s)
      BY <1>2, <1>3, <2>1, <3>1 DEF CopyJobs
    <3>4. /\ k.todo \in Seq(Frames) /\ Len(k.todo) = Len(s) - 1
          /\ \A f \in 1..Len(k.todo) : k.todo[f] = s[f + 1]
      BY <2>2, <2>4, <3>3, Popped
    <3>5. k \in CopyJobs
      BY <1>3, <3>1, <3>3, <3>4 DEF CopyJobs
    <3>6. ASSUME NEW a \in Items, NEW b PROVE Waits(k, a, b) <=> Waits(j, a, b)
      <4>1. ASSUME Waits(k, a, b) PROVE Waits(j, a, b)
        <5>1. PICK f \in 1..Len(k.todo) :
                 b = k.todo[f].dst /\ \E y \in k.todo[f].kids : y.id = a
          BY <3>3, <4>1 DEF Waits, Before
        <5>2. f + 1 \in 1..Len(s) /\ k.todo[f] = s[f + 1]
          BY <2>4, <3>4
        <5> QED
          BY <2>1, <5>1, <5>2 DEF Waits
      <4>2. ASSUME Waits(j, a, b) PROVE Waits(k, a, b)
        <5>1. PICK f \in 1..Len(s) : b = s[f].dst /\ \E y \in s[f].kids : y.id = a
          BY <1>2, <2>1, <4>2 DEF Waits, Before
        <5>2. f # 1
          BY <2>6, <2>9, <5>1
        <5>3. f - 1 \in 1..Len(k.todo)
          BY <2>4, <3>4, <5>2
        <5>4. k.todo[f - 1] = s[f]
          BY <3>4, <5>3
        <5> QED
          BY <5>1, <5>3, <5>4 DEF Waits
      <4> QED
        BY <4>1, <4>2
    <3>7. ASSUME NEW r \in Lives, Clean(j, r) PROVE Single(k) /\ Renamed(k, r)
      <4>1. ASSUME NEW f \in 1..Len(k.todo), NEW g \in 1..Len(k.todo),
                   k.todo[f].dst = k.todo[g].dst
            PROVE  f = g
        <5>1. f + 1 \in 1..Len(s) /\ g + 1 \in 1..Len(s) /\ s[f + 1].dst = s[g + 1].dst
          BY <2>4, <3>4, <4>1
        <5>2. f + 1 = g + 1
          BY <2>1, <3>7, <5>1 DEF Clean, Single
        <5> QED
          BY <5>2
      <4> QED
        BY <3>3, <3>7, <4>1 DEF Clean, Single, Renamed, Before
    <3>8. HotJob(k) \/ \E r \in Lives : Clean(k, r)
      BY <1>2, <1>3, <3>3, <3>6, <3>7, StillDown
    <3>9. CopyInv(k)
      BY <1>2, <1>3, <3>3, <3>5, <3>8 DEF CopyInv
    <3> QED
      BY <1>1, <1>2, <1>4, <3>2, <3>9, EditOnly DEF EditInv
  <2>10. CASE top.kids # {}
    <3>1. PICK x \in top.kids :
             Step(e, [j EXCEPT !.pc = "name", !.cur = x, !.n = 0, !.dst = top.dst,
                               !.todo[1].kids = @ \ {x}])
      BY <1>1, <1>6, <2>1, <2>7, <2>10 DEF CopyNext
    <3>2. PICK k : k = [j EXCEPT !.pc = "name", !.cur = x, !.n = 0, !.dst = top.dst,
                                 !.todo[1].kids = @ \ {x}]
      OBVIOUS
    <3>3. PICK rest : rest = [top EXCEPT !.kids = @ \ {x}]
      OBVIOUS
    <3>4. rest \in Frames /\ rest.dst = top.dst /\ rest.kids = top.kids \ {x}
      BY <2>8, <3>3 DEF Frames
    <3>5. PICK t : t = [s EXCEPT ![1] = rest]
      OBVIOUS
    <3>6. /\ t \in Seq(Frames) /\ Len(t) = Len(s)
          /\ \A f \in 1..Len(s) : t[f] = IF f = 1 THEN rest ELSE s[f]
      BY <2>2, <2>4, <3>4, <3>5, ExceptSeq
    <3>7. k.todo = t
      BY <1>3, <2>1, <2>6, <3>2, <3>3, <3>5 DEF CopyJobs
    <3>8. k.pc = "name" /\ k.cur = x /\ k.n = 0 /\ k.dst = top.dst /\ k.made = j.made /\ k.to = j.to
      BY <1>3, <3>2 DEF CopyJobs
    <3>9. x \in Docs /\ top.dst \in Items \cup {Root}
      BY <2>8, TreeAssumption DEF Homes
    <3>10. k \in CopyJobs
      <4>1. /\ k.op = j.op /\ k.more = j.more
            /\ DOMAIN k = DOMAIN j
        BY <1>3, <3>2 DEF CopyJobs
      <4> QED
        BY <1>3, <3>2, <3>6, <3>7, <3>8, <3>9, <4>1 DEF CopyJobs, Before
    <3>11. ASSUME NEW a \in Items, NEW b PROVE Waits(k, a, b) <=> Waits(j, a, b)
      <4>1. Waits(j, a, b) <=>
               \E f \in 1..Len(s) : b = s[f].dst /\ \E y \in s[f].kids : y.id = a
        BY <1>2, <2>1 DEF Waits, Before
      <4>2. Waits(k, a, b) <=>
               \/ a = x.id /\ b = top.dst
               \/ \E f \in 1..Len(s) : b = t[f].dst /\ \E y \in t[f].kids : y.id = a
        BY <3>6, <3>7, <3>8 DEF Waits, Before
      <4>3. ASSUME Waits(j, a, b) PROVE Waits(k, a, b)
        <5>1. PICK f \in 1..Len(s) : b = s[f].dst /\ \E y \in s[f].kids : y.id = a
          BY <4>1, <4>3
        <5>2. PICK y \in s[f].kids : y.id = a
          BY <5>1
        <5>3. CASE f = 1
          <6>1. b = top.dst /\ y \in top.kids
            BY <2>6, <5>1, <5>2, <5>3
          <6>2. CASE y = x
            BY <4>2, <5>1, <5>2, <6>1, <6>2
          <6>3. CASE y # x
            <7>1. t[1] = rest /\ y \in rest.kids /\ rest.dst = b
              BY <2>4, <3>4, <3>6, <6>1, <6>3
            <7> QED
              BY <2>4, <4>2, <5>1, <5>2, <7>1
          <6> QED
            BY <6>2, <6>3
        <5>4. CASE f # 1
          <6>1. t[f] = s[f]
            BY <3>6, <5>4
          <6> QED
            BY <4>2, <5>1, <5>2, <6>1
        <5> QED
          BY <5>3, <5>4
      <4>4. ASSUME Waits(k, a, b) PROVE Waits(j, a, b)
        <5>1. CASE a = x.id /\ b = top.dst
          BY <2>4, <2>6, <3>1, <4>1, <5>1
        <5>2. ASSUME NEW f \in 1..Len(s), b = t[f].dst, NEW y \in t[f].kids, y.id = a
              PROVE  Waits(j, a, b)
          <6>1. b = s[f].dst /\ y \in s[f].kids
            BY <2>6, <3>4, <3>6, <5>2
          <6> QED
            BY <4>1, <5>2, <6>1
        <5> QED
          BY <4>2, <4>4, <5>1, <5>2
      <4> QED
        BY <4>3, <4>4
    <3>12. ASSUME NEW r \in Lives, Clean(j, r) PROVE Single(k) /\ Renamed(k, r)
      <4>1. ASSUME NEW f \in 1..Len(s), x \in t[f].kids PROVE FALSE
        <5>1. f # 1 /\ x \in s[f].kids /\ s[f].dst \in Homes
          BY <2>5, <3>4, <3>6, <4>1 DEF Frames
        <5>2. PICK c \in Lives : x = Doc(c)
          BY <3>9 DEF Docs
        <5>3. x.id = c /\ c \in Items
          BY <5>2 DEF Doc, Lives
        <5>4. Waits(j, c, s[f].dst) /\ Waits(j, c, s[1].dst)
          BY <2>1, <2>4, <2>6, <3>1, <5>1, <5>3 DEF Waits
        <5>5. j.made # {} /\ s[f].dst \in Items /\ s[1].dst \in Items
          BY <1>2, <2>6, <2>8, <3>12, <5>1, TreeAssumption DEF Clean, Begun, Before, Homes
        <5>6. <<parent[c], s[f].dst>> \in j.made /\ <<parent[c], s[1].dst>> \in j.made
          BY <3>12, <5>3, <5>4, <5>5 DEF Clean, Chained
        <5>7. s[f].dst = s[1].dst
          BY <3>12, <5>6 DEF Clean, Single
        <5> QED
          BY <2>1, <2>4, <3>12, <5>1, <5>7 DEF Clean, Single
      <4>2. \A f \in 1..Len(s) : t[f].dst = s[f].dst
        BY <2>6, <3>4, <3>6
      <4>3. Single(k)
        BY <2>1, <3>6, <3>7, <3>8, <3>12, <4>1, <4>2 DEF Clean, Single
      <4>4. Renamed(k, r)
        BY <3>8, <3>12 DEF Clean, Renamed
      <4> QED
        BY <4>3, <4>4
    <3>13. HotJob(k) \/ \E r \in Lives : Clean(k, r)
      BY <1>2, <1>3, <3>8, <3>11, <3>12, StillDown DEF Before
    <3>14. CopyInv(k)
      BY <1>3, <2>8, <3>8, <3>10, <3>13 DEF CopyInv
    <3> QED
      BY <1>1, <1>2, <1>4, <3>1, <3>2, <3>14, EditOnly DEF EditInv
  <2> QED
    BY <2>9, <2>10
<1> QED
  BY <1>5, <1>6

-----------------------------------------------------------------------------
(* A copy comes into a folder.                                             *)

LEMMA DifferStays ==
    ASSUME SerialInv, NamesOK, NEW k, NEW d, NEW n, Grows(k, d, n),
           NEW s \in Items, s # d
    PROVE  Differ(s)' <=> Differ(s)
<1>0. /\ \A i \in Items : k \notin LiveChildren(i)
      /\ \A i \in Items \cup {Root} :
           LiveChildren(i)' = LiveChildren(i) \cup (IF i = d THEN {k} ELSE {})
      /\ \A i \in Items \ {k} : parent'[i] = parent[i] /\ name'[i] = name[i]
  BY Growth
<1>1. LiveChildren(s)' = LiveChildren(s) /\ k \notin LiveChildren(s)
  BY <1>0
<1>2. \A c \in LiveChildren(s) :
         c \in Items \ {k} /\ parent[c] = s /\ parent'[c] = s /\ name'[c] = name[c]
  BY <1>0, <1>1 DEF LiveChildren
<1> QED
  BY <1>1, <1>2 DEF Differ

(* The tree stays in order.                                                *)
LEMMA GrowthKeepsTree ==
    ASSUME NamesInv, NEW e \in Editors, edit[e] # NoEdit, NEW k, NEW d, NEW n, Grows(k, d, n),
           UNCHANGED <<call, purge, requests>>
    PROVE  SerialInv'
<1>1. SerialInv /\ NamesOK /\ purge = Resting /\ \A h \in Handlers : call[h] = Idle
  BY DEF NamesInv, Sole
<1>2. /\ k \in Items /\ d \in Items \cup {Root} /\ d \in Homes \cup {Root} /\ d # k
      /\ status[k] = "unused"
  BY <1>1, Growth DEF Grows
<1>3. status \in [Items -> Status] /\ parent \in [Items -> Items \cup {Root}]
  BY <1>1 DEF SerialInv, TypeOK
<1>4. \A i \in Items : /\ status'[i] = IF i = k THEN "live" ELSE status[i]
                       /\ parent'[i] = IF i = k THEN d ELSE parent[i]
  BY <1>3 DEF Grows
<1>5. TypeOK'
  <2>1. status' \in [Items -> Status] /\ parent' \in [Items -> Items \cup {Root}]
    BY <1>2, <1>3 DEF Grows, Status, Stored
  <2> QED
    BY <1>1, <2>1 DEF SerialInv, TypeOK
<1>6. Tree'
  <2>1. d = Root \/ (d \in Items /\ d \in Folders /\ status[d] = "live")
    BY <1>2 DEF Homes, IsLive
  <2>2. ParentIsFolder'
    BY <1>1, <1>4, <2>1 DEF SerialInv, Tree, ParentIsFolder
  <2>3. NoOrphan'
    BY <1>1, <1>2, <1>4, <2>1 DEF SerialInv, Tree, NoOrphan, Exists, Stored, Trashed
  <2>4. TrashClosed'
    BY <1>1, <1>2, <1>4, <2>1, TreeAssumption
       DEF SerialInv, Tree, TrashClosed, NoOrphan, Exists, IsTrash, Stored, Trashed
  <2> QED
    BY <2>2, <2>3, <2>4 DEF Tree
<1>7. Alone' /\ PurgeInv'
  BY <1>1, RestingInv DEF Alone
<1>8. \A h \in Handlers : HandlerInv(call[h])'
  BY <1>1 DEF HandlerInv, Idle
<1> QED
  BY <1>5, <1>6, <1>7, <1>8 DEF SerialInv

(* What is left to copy once c, which was next, has been copied.           *)
LEMMA CopiedOne ==
    ASSUME NEW j \in CopyJobs, j.pc = "insert", NEW c \in Lives, j.cur = Doc(c),
           NEW k, k.pc \in {"read", "next"}, k.todo = j.todo, NEW y,
           k.made = j.made \cup {<<c, y>>}
    PROVE  /\ Copies(k) = Copies(j) \cup {y} /\ Originals(k) = Originals(j) \cup {c}
           /\ \A a, b : Waits(j, a, b) <=> Waits(k, a, b) \/ (a = c /\ b = j.dst)
           /\ Awaited(j) = Awaited(k) \cup {c}
           /\ \A a, b : Waits(k, a, b) => a \in Lives /\ b \in Homes
           /\ Single(j) => \A b : ~Waits(k, c, b)
<1>1. j.cur.id = c /\ j.pc \in Before /\ k.pc \notin Before /\ \A x : Doc(x).id = x
  BY DEF Doc, Before
<1>2. Copies(k) = Copies(j) \cup {y} /\ Originals(k) = Originals(j) \cup {c}
  <2> DEFINE new == <<c, y>>
  <2>1. new[1] = c /\ new[2] = y
    OBVIOUS
  <2> HIDE DEF new
  <2>2. k.made = j.made \cup {new}
    BY DEF new
  <2> QED
    BY <2>1, <2>2 DEF Copies, Originals
<1>3. \A a, b : Waits(j, a, b) <=> Waits(k, a, b) \/ (a = c /\ b = j.dst)
  BY <1>1 DEF Waits
<1>4. c \in Items /\ j.dst \in Items \cup {Root} /\ j.todo \in Seq(Frames)
  BY DEF Lives, CopyJobs
<1>5. Awaited(j) = Awaited(k) \cup {c}
  BY <1>3, <1>4 DEF Awaited
<1>6. ASSUME NEW a, NEW b, Waits(k, a, b)
      PROVE  /\ a \in Lives /\ b \in Homes
             /\ Single(j) => a # c
  <2>1. PICK f \in 1..Len(j.todo) : b = j.todo[f].dst /\ \E z \in j.todo[f].kids : z.id = a
    BY <1>1, <1>6 DEF Waits
  <2>2. j.todo[f] \in Frames
    BY <1>4, <2>1
  <2>3. j.todo[f].dst \in Homes /\ j.todo[f].kids \in SUBSET Docs
    BY <2>2 DEF Frames
  <2>4. PICK z \in j.todo[f].kids : z.id = a
    BY <2>1
  <2>5. PICK x \in Lives : z = Doc(x)
    BY <2>3, <2>4 DEF Docs
  <2>6. x = a
    BY <1>1, <2>4, <2>5
  <2>7. Single(j) => j.cur # z
    BY <1>1, <2>4 DEF Single
  <2> QED
    BY <2>1, <2>3, <2>5, <2>6, <2>7
<1> QED
  BY <1>2, <1>3, <1>5, <1>6

(* A hot copy stays hot.                                                   *)
LEMMA InsertHot ==
    ASSUME SerialInv, NamesOK,
           NEW j \in CopyJobs, j.pc = "insert", NEW c \in Lives, j.cur = Doc(c),
           NEW y, NEW n, Grows(y, j.dst, n), y \in Folders <=> c \in Folders,
           NEW k, k.pc = (IF y \in Folders THEN "read" ELSE "next"), k.cur = j.cur,
           k.todo = j.todo, y \in Folders => k.dst = y, k.made = j.made \cup {<<c, y>>},
           HotJob(j)
    PROVE  HotJob(k)'
<1>1. j.cur.id = c /\ c \in Items
  BY DEF Doc, Lives
<1>2. PICK a \in Lives, b \in Items \cup {Root} : Waits(j, a, b) /\ Hot(a, b)
  BY DEF HotJob
<1>3. Lives' = Lives \cup {y} /\ j.dst \in Homes \cup {Root}
  BY Growth
<1>4. CASE Waits(k, a, b)
  <2>1. Hot(a, b)'
    BY <1>2, HotStays
  <2> QED
    BY <1>2, <1>3, <1>4, <2>1 DEF HotJob
<1>5. CASE ~Waits(k, a, b)
  <2>1. a = c /\ b = j.dst
    BY <1>2, <1>5, CopiedOne
  <2>2. c # y /\ Hot(c, y)'
    BY <1>2, <2>1, HotHere
  <2>3. c \in Folders
    <3>1. c = j.dst \/ LiveChildren(c) # {}
      BY <1>2, <2>1 DEF Hot
    <3>2. \A x \in LiveChildren(c) : c \in Folders \cup {Root}
      BY DEF LiveChildren, SerialInv, Tree, ParentIsFolder
    <3> QED
      BY <1>1, <1>3, <3>1, <3>2, TreeAssumption DEF Homes
  <2>4. k.pc = "read" /\ k.cur.id = c /\ k.dst = y
    BY <1>1, <2>3
  <2> QED
    BY <2>2, <2>4 DEF HotJob
<1> QED
  BY <1>4, <1>5

(* A clean copy stays clean.                                               *)
LEMMA InsertClean ==
    ASSUME SerialInv, NamesOK,
           NEW j \in CopyJobs, j.pc = "insert", NEW c \in Lives, j.cur = Doc(c),
           NEW y, Grows(y, j.dst, NewName(j)), y \in Folders <=> c \in Folders,
           NEW k, k.pc = (IF y \in Folders THEN "read" ELSE "next"), k.cur = j.cur,
           k.todo = j.todo, y \in Folders => k.dst = y, k.made = j.made \cup {<<c, y>>},
           k.to = j.to, j.to \in Homes \cup {Root}, NEW r \in Lives, Clean(j, r)
    PROVE  Clean(k, r)'
<1> DEFINE d == j.dst
<1>1. j.cur.id = c /\ j.cur.name = name[c] /\ c \in Items /\ r \in Items /\ j.pc \in Before
  BY DEF Doc, Lives, Before
<1>2. Begun(j, r) /\ Chained(j, r) /\ Single(j) /\ Separate(j, r) /\ Covered(j) /\ Renamed(j, r)
  BY DEF Clean
<1>3. /\ Copies(k) = Copies(j) \cup {y} /\ Originals(k) = Originals(j) \cup {c}
      /\ \A a, b : Waits(j, a, b) <=> Waits(k, a, b) \/ (a = c /\ b = d)
      /\ Awaited(j) = Awaited(k) \cup {c}
      /\ \A a, b : Waits(k, a, b) => a \in Lives /\ b \in Homes
      /\ \A b : ~Waits(k, c, b)
  BY <1>2, CopiedOne
<1>4. /\ y \in Items /\ y \notin Lives /\ y # d /\ d \in Items \cup {Root} /\ d \in Homes \cup {Root}
      /\ \A i \in Items : y \notin LiveChildren(i)
      /\ LiveChildren(y) = {}
      /\ \A i \in Items \cup {Root} :
           LiveChildren(i)' = LiveChildren(i) \cup (IF i = d THEN {y} ELSE {})
      /\ \A i \in Items \ {y} : parent'[i] = parent[i] /\ name'[i] = name[i]
      /\ parent'[y] = d /\ name'[y] = NewName(j)
  BY Growth
<1>5. j.made \subseteq Lives \X Lives /\ Lives \subseteq Items \ {y}
  BY <1>4 DEF CopyJobs, Lives
<1>6. IF j.made = {} THEN c = r /\ d = j.to /\ j.todo = <<>>
                     ELSE /\ r \in Originals(j) /\ c # r /\ c \notin Originals(j)
                          /\ <<parent[c], d>> \in j.made
  BY <1>1, <1>2, <1>3, <1>4 DEF Begun, Chained
<1>7. d \notin Below(r)
  <2>1. CASE j.made = {}
    BY <1>1, <1>2, <1>6, <2>1, BelowHot DEF Separate
  <2>2. CASE j.made # {}
    BY <1>2, <1>6, <2>2 DEF Separate, Copies
  <2> QED
    BY <2>1, <2>2
<1>8. Below(r)' = Below(r) /\ Below(r) \subseteq Lives
  BY <1>1, <1>7, BelowStays, BelowLives
<1>9. Originals(j) \cup Awaited(j) \subseteq Below(r)
  BY <1>2 DEF Separate
<1>10. Begun(k, r)
  BY <1>3, <1>6 DEF Begun
<1>11. \A p \in j.made : /\ p[1] \in Items \ {y} /\ p[2] \in Items \ {y}
                         /\ p[1] \in Originals(j) /\ p[2] \in Copies(j)
  BY <1>5 DEF Originals, Copies
<1>12. Chained(k, r)'
  <2>1. ASSUME NEW p \in k.made
        PROVE  \/ p[1] = r /\ parent'[p[2]] = k.to
               \/ p[1] # r /\ <<parent'[p[1]], parent'[p[2]]>> \in k.made
    <3>1. CASE p \in j.made
      BY <1>2, <1>4, <1>11, <3>1 DEF Chained
    <3>2. CASE p = <<c, y>>
      BY <1>4, <1>5, <1>6, <3>2
    <3> QED
      BY <3>1, <3>2
  <2>2. ASSUME NEW a \in Items, NEW b \in Items \cup {Root}, Waits(k, a, b)
        PROVE  a # r /\ a \notin Originals(k) /\ <<parent'[a], b>> \in k.made
    <3>1. a # c /\ Waits(j, a, b) /\ a \in Items \ {y}
      BY <1>3, <1>5, <2>2
    <3>2. j.made # {}
      <4> SUFFICES ASSUME j.made = {} PROVE FALSE
        OBVIOUS
      <4>1. Len(k.todo) = 0
        BY <1>6
      <4>2. k.pc \notin Before
        BY DEF Before
      <4> QED
        BY <2>2, <4>1, <4>2 DEF Waits
    <3>3. a # r /\ a \notin Originals(j) /\ <<parent[a], b>> \in j.made
      BY <1>2, <3>1, <3>2 DEF Chained
    <3> QED
      BY <1>3, <1>4, <3>1, <3>3
  <2> QED
    BY <2>1, <2>2 DEF Chained
<1>13. Single(k)
  <2>1. c \notin Originals(j) /\ y \notin Copies(j)
    BY <1>5, <1>6 DEF Originals, Copies
  <2>2. \A p, q \in k.made : p[1] = q[1] <=> p[2] = q[2]
    <3> SUFFICES ASSUME NEW p \in k.made, NEW q \in k.made PROVE p[1] = q[1] <=> p[2] = q[2]
      OBVIOUS
    <3>1. CASE p \in j.made /\ q \in j.made
      BY <1>2, <3>1 DEF Single
    <3>2. CASE p = <<c, y>> /\ q \in j.made
      BY <1>11, <2>1, <3>2
    <3>3. CASE q = <<c, y>> /\ p \in j.made
      BY <1>11, <2>1, <3>3
    <3> QED
      BY <3>1, <3>2, <3>3
  <2> QED
    BY <1>2, <2>2 DEF Single, Before
<1>14. Separate(k, r)'
  <2>1. ~Hot(r, j.to)'
    BY <1>1, <1>2, <1>7, ColdStays DEF Separate
  <2>2. y \notin Below(r) /\ y # j.to
    BY <1>4, <1>8, TreeAssumption DEF Homes, Lives
  <2>3. Copies(k) \cap Below(r)' = {} /\ k.to \notin Copies(k)
    BY <1>2, <1>3, <1>8, <2>2 DEF Separate
  <2>4. Originals(k) \cup Awaited(k) \subseteq Below(r)'
    BY <1>3, <1>8, <1>9
  <2>5. ASSUME NEW x \in Copies(k) PROVE LiveChildren(x)' \subseteq Copies(k)
    <3>1. CASE x = y
      <4>1. LiveChildren(y)' = {}
        BY <1>4
      <4> QED
        BY <3>1, <4>1
    <3>2. CASE x \in Copies(j)
      <4>1. x \in Items
        BY <1>5, <3>2 DEF Copies
      <4>2. LiveChildren(x)' \subseteq LiveChildren(x) \cup {y}
        BY <1>4, <4>1
      <4>3. LiveChildren(x) \subseteq Copies(j)
        BY <1>2, <3>2 DEF Separate
      <4> QED
        BY <1>3, <4>2, <4>3
    <3> QED
      BY <1>3, <3>1, <3>2
  <2> QED
    BY <2>1, <2>3, <2>4, <2>5 DEF Separate
<1>15. Covered(k)'
  <2>1. ASSUME y \in Folders
        PROVE  /\ <<k.cur.id, k.dst>> = <<c, y>> /\ LiveChildren(k.dst)' = {}
               /\ \A f \in 1..Len(k.todo) : k.todo[f].dst # y
    <3>1. LiveChildren(y)' = {}
      BY <1>4
    <3>2. k.dst = y /\ k.cur.id = c
      BY <1>1, <2>1
    <3>3. ASSUME NEW f \in 1..Len(k.todo) PROVE k.todo[f].dst # y
      <4>1. j.todo \in Seq(Frames)
        BY DEF CopyJobs
      <4>2. k.todo[f] \in Frames
        BY <4>1
      <4> QED
        BY <1>4, <4>2 DEF Frames, Homes, Lives
    <3> QED
      BY <3>1, <3>2, <3>3
  <2>2. ASSUME y \notin Folders PROVE LiveChildren(c)' = {}
    <3>1. c \notin Folders /\ c # Root
      BY <1>1, <2>2, TreeAssumption
    <3>2. LiveChildren(c) = {}
      BY <3>1 DEF LiveChildren, SerialInv, Tree, ParentIsFolder
    <3>3. c # d
      BY <1>4, <3>1 DEF Homes
    <3>4. LiveChildren(c)' = LiveChildren(c) \cup (IF c = d THEN {y} ELSE {})
      BY <1>1, <1>4
    <3> QED
      BY <3>2, <3>3, <3>4
  <2>3. ASSUME NEW p \in j.made PROVE LiveChildren(p[1])' \subseteq Originals(k) \cup Awaited(k)
    <3>1. p[1] \in Items /\ p[1] # d
      BY <1>7, <1>9, <1>11
    <3>2. PICK x \in Items : x = p[1]
      BY <3>1
    <3>3. LiveChildren(x)' = LiveChildren(x) \cup (IF x = d THEN {y} ELSE {})
      BY <1>4
    <3>5. LiveChildren(x)' = LiveChildren(x)
      <4>1. x # d
        BY <3>1, <3>2
      <4> HIDE DEF d
      <4> QED
        BY <3>3, <4>1
    <3>4. LiveChildren(x) \subseteq Originals(j) \cup Awaited(j)
      BY <1>2, <3>2 DEF Covered
    <3> QED
      BY <1>3, <3>2, <3>4, <3>5
  <2>4. CASE y \in Folders
    BY <2>1, <2>3, <2>4 DEF Covered
  <2>5. CASE y \notin Folders
    <3>1. k.pc = "next"
      BY <2>5
    <3>2. \A p \in k.made : LiveChildren(p[1])' \subseteq Originals(k) \cup Awaited(k)
      BY <2>2, <2>3, <2>5
    <3> QED
      BY <3>1, <3>2 DEF Covered
  <2> QED
    BY <2>4, <2>5
<1>16. Renamed(k, r)'
  <2>1. ASSUME NEW s \in Originals(j) PROVE Differ(s)' <=> Differ(s)
    <3>1. s \in Items /\ s # d
      BY <1>5, <1>7, <1>9 DEF Originals
    <3> QED
      BY <3>1, DifferStays
  <2>2. ASSUME NEW p \in j.made, p[1] # r, Differ(parent[p[1]])'
        PROVE  name'[p[2]] = name'[p[1]]
    <3>1. parent[p[1]] \in Originals(j)
      <4>1. <<parent[p[1]], parent[p[2]]>> \in j.made
        BY <1>2, <2>2 DEF Chained
      <4> QED
        BY <4>1 DEF Originals
    <3>2. parent'[p[1]] = parent[p[1]] /\ name'[p[1]] = name[p[1]] /\ name'[p[2]] = name[p[2]]
      BY <1>4, <1>11
    <3>3. Differ(parent[p[1]])
      BY <2>1, <2>2, <3>1, <3>2
    <3> QED
      BY <1>2, <2>2, <3>2, <3>3 DEF Renamed
  <2>3. ASSUME c # r, Differ(parent[c])' PROVE name'[y] = name'[c]
    <3>1. j.made # {} /\ parent[c] \in Originals(j)
      BY <1>6, <2>3 DEF Originals
    <3>2. parent'[c] = parent[c] /\ name'[c] = name[c]
      BY <1>4, <1>5
    <3>3. Differ(parent[c])
      BY <2>1, <2>3, <3>1, <3>2
    <3>4. j.n = 0
      BY <1>1, <1>2, <3>1, <3>3 DEF Renamed
    <3> QED
      BY <1>1, <1>4, <3>1, <3>2, <3>4 DEF NewName, Candidate
  <2>4. k.pc \notin Before
    BY DEF Before
  <2> QED
    BY <2>2, <2>3, <2>4 DEF Renamed
<1> QED
  BY <1>10, <1>12, <1>13, <1>14, <1>15, <1>16 DEF Clean, Begun, Single
LEMMA CopyInsertKeeps ==
    ASSUME NamesInv, NEW e \in Editors, CopyInsert(e)
    PROVE  NamesInv'
<1>1. PICK j : j = edit[e]
  OBVIOUS
<1>2. CopyInv(j) /\ j # NoEdit /\ j.pc = "insert"
  BY <1>1, CopyHas DEF CopyInsert
<1>3. /\ j \in CopyJobs /\ (HotJob(j) \/ \E r \in Lives : Clean(j, r))
      /\ j.dst \in Homes \cup {Root} /\ j.to \in Homes \cup {Root}
  BY <1>2 DEF CopyInv
<1>4. PICK c \in Lives : j.cur = Doc(c)
  BY <1>3 DEF CopyJobs, Docs
<1>5. j.cur.id = c
  BY <1>4 DEF Doc
<1>6. PICK y \in Items :
        /\ status[y] = "unused"
        /\ y \in Folders <=> j.cur.id \in Folders
        /\ status' = [status EXCEPT ![y] = "live"]
        /\ parent' = [parent EXCEPT ![y] = j.dst]
        /\ name' = [name EXCEPT ![y] = NewName(j)]
        /\ Step(e, [j EXCEPT !.pc = IF y \in Folders THEN "read" ELSE "next",
                             !.dst = IF y \in Folders THEN y ELSE @,
                             !.made = @ \cup {<<j.cur.id, y>>}])
  BY <1>1 DEF CopyInsert
<1>7. PICK k : k = [j EXCEPT !.pc = IF y \in Folders THEN "read" ELSE "next",
                             !.dst = IF y \in Folders THEN y ELSE @,
                             !.made = @ \cup {<<j.cur.id, y>>}]
  OBVIOUS
<1>8. edit' = [edit EXCEPT ![e] = k] /\ UNCHANGED <<call, purge, requests>>
  BY <1>6, <1>7 DEF Step
<1>9. /\ k.op = "copy" /\ k.pc = (IF y \in Folders THEN "read" ELSE "next")
      /\ k.dst = (IF y \in Folders THEN y ELSE j.dst) /\ k.made = j.made \cup {<<c, y>>}
      /\ k.cur = j.cur /\ k.n = j.n /\ k.todo = j.todo /\ k.to = j.to /\ k.more = j.more
      /\ k.storage = j.storage
  BY <1>3, <1>5, <1>7 DEF CopyJobs
<1>10. SerialInv /\ NamesOK
  BY DEF NamesInv
<1>11. Grows(y, j.dst, NewName(j))
  BY <1>3, <1>6 DEF Grows
<1>12. SerialInv'
  BY <1>1, <1>2, <1>8, <1>11, GrowthKeepsTree
<1>13. /\ NamesOK' /\ y \notin Lives /\ Lives' = Lives \cup {y} /\ Homes \subseteq Homes'
       /\ \A i \in Items \ {y} : name'[i] = name[i]
  BY <1>10, <1>11, Growth
<1>14. y \in Folders => y \in Homes'
  <2>1. y \in Lives'
    BY <1>13
  <2> QED
    BY <2>1 DEF Lives, Homes
<1>15. k \in CopyJobs'
  <2>1. Docs \subseteq Docs'
    <3> SUFFICES ASSUME NEW i \in Lives PROVE Doc(i) \in Docs'
      BY DEF Docs
    <3>1. i \in Lives' /\ name'[i] = name[i]
      BY <1>13 DEF Lives
    <3>2. Doc(i)' \in Docs'
      BY <3>1 DEF Docs
    <3> QED
      BY <3>1, <3>2 DEF Doc
  <2>2. Frames \subseteq Frames'
    BY <1>13, <2>1 DEF Frames
  <2>3. k.todo \in Seq(Frames')
    <3>1. j.todo \in Seq(Frames)
      BY <1>3 DEF CopyJobs
    <3>2. \A f \in 1..Len(j.todo) : j.todo[f] \in Frames'
      BY <2>2, <3>1
    <3> QED
      BY <1>9, <3>1, <3>2
  <2>4. k.cur \in Docs'
    BY <1>3, <1>9, <2>1 DEF CopyJobs
  <2>5. k.made \in SUBSET (Lives' \X Lives')
    <3>1. j.made \in SUBSET (Lives \X Lives)
      BY <1>3 DEF CopyJobs
    <3>2. <<c, y>> \in Lives' \X Lives'
      BY <1>13
    <3> QED
      BY <1>9, <1>13, <3>1, <3>2
  <2>6. k.dst \in Items \cup {Root}
    BY <1>3, <1>9 DEF CopyJobs
  <2>7. k.pc \in Before \cup {"read", "next"}
    BY <1>9
  <2>8. /\ k.n \in Nat /\ k.to \in Items \cup {Root} /\ k.more \in SUBSET Items
        /\ k.storage \in Stores
    BY <1>3, <1>9 DEF CopyJobs
  <2>9. k = [op |-> k.op, pc |-> k.pc, cur |-> k.cur, dst |-> k.dst, n |-> k.n,
             todo |-> k.todo, made |-> k.made, to |-> k.to, more |-> k.more,
             storage |-> k.storage]
    BY <1>3, <1>7 DEF CopyJobs
  <2>10. k \in [op : {"copy"}, pc : Before \cup {"read", "next"}, cur : Docs',
                dst : Items \cup {Root}, n : Nat, todo : Seq(Frames'),
                made : SUBSET (Lives' \X Lives'), to : Items \cup {Root},
                more : SUBSET Items, storage : Stores]
    BY <1>9, <2>3, <2>4, <2>5, <2>6, <2>7, <2>8, <2>9
  <2> QED
    BY <2>10 DEF CopyJobs
<1>16. HotJob(j) => HotJob(k)'
  BY <1>3, <1>2, <1>4, <1>5, <1>6, <1>9, <1>10, <1>11, InsertHot
<1>17. ASSUME NEW r \in Lives, Clean(j, r) PROVE r \in Lives' /\ Clean(k, r)'
  BY <1>3, <1>2, <1>4, <1>5, <1>6, <1>9, <1>10, <1>11, <1>13, <1>17, InsertClean
<1>18. CopyInv(k)'
  <2>1. k.pc \in {"read", "next"} /\ (k.pc = "read" => k.cur.id \in Folders /\ k.dst \in Homes')
    BY <1>6, <1>9, <1>14
  <2>2. {k.dst, k.to} \subseteq Homes' \cup {Root}
    BY <1>3, <1>9, <1>13, <1>14
  <2>3. HotJob(k)' \/ \E r \in Lives' : Clean(k, r)'
    BY <1>3, <1>16, <1>17
  <2> QED
    BY <1>15, <2>1, <2>2, <2>3 DEF CopyInv
<1>19. EditInv(k)'
  BY <1>18 DEF EditInv
<1> QED
  BY <1>1, <1>2, <1>8, <1>12, <1>13, <1>19, EditGoesOn

-----------------------------------------------------------------------------
LEMMA InitNames == NamesInit => NamesInv
<1> SUFFICES ASSUME NamesInit PROVE NamesInv
  OBVIOUS
<1>1. SerialInv
  BY InitSerialInv DEF NamesInit
<1>2. NamesOK
  BY DEF NamesInit, NamesOK
<1>3. Sole /\ EditsOK
  BY DEF NamesInit, Sole, EditsOK, EditInv
<1> QED
  BY <1>1, <1>2, <1>3 DEF NamesInv

LEMMA NamesRest == ASSUME NamesInv, UNCHANGED allvars PROVE NamesInv'
<1>1. /\ UNCHANGED <<status, parent, call, purge, requests, name, edit>>
      /\ requests' \in 0..MaxRequests
  BY DEF allvars, vars, NamesInv, SerialInv, TypeOK
<1>2. SerialInv' /\ NamesOK' /\ Sole'
  BY <1>1, SerialRests DEF NamesInv, NamesOK, Sole
<1>3. \A j \in {edit[e] : e \in Editors} : EditInv(j)'
  BY <1>1, TreeRests DEF NamesInv, EditsOK
<1>4. EditsOK'
  BY <1>1, <1>3 DEF NamesInv, EditsOK
<1> QED
  BY <1>2, <1>4 DEF NamesInv

LEMMA NamesStep ==
    ASSUME MaxInFlight = 1, NamesInv, [NamesNext]_allvars
    PROVE  NamesInv'
<1>1. CASE TreeStep
  BY <1>1, TreeStepKeeps
<1>2. ASSUME NEW e \in Editors, StartEdit(e) PROVE NamesInv'
  BY <1>2, BeginRenameKeeps, BeginCopyKeeps, BatchKeeps DEF StartEdit
<1>3. ASSUME NEW e \in Editors, ContinueEdit(e) PROVE NamesInv'
  BY <1>3, RenameCheckKeeps, RenameSaveKeeps, PickCopyKeeps, CopyTargetKeeps, CopyNameKeeps,
     CopyFileKeeps, CopyInsertKeeps, CopyReadKeeps, CopyNextKeeps DEF ContinueEdit
<1>4. CASE UNCHANGED allvars
  BY <1>4, NamesRest
<1> QED
  BY <1>1, <1>2, <1>3, <1>4 DEF NamesNext

(* Renames and copies keep the tree, and what they hold, in order, as long *)
(* as requests are served one at a time.                                   *)
THEOREM NamesCorrect == ASSUME MaxInFlight = 1 PROVE NamesSpec => []NamesInv
<1>1. NamesInit => NamesInv
  BY InitNames
<1>2. NamesInv /\ [NamesNext]_allvars => NamesInv'
  BY NamesStep
<1> QED
  BY <1>1, <1>2, PTL DEF NamesSpec

(* A rename gives no item a name that another live item of its folder and  *)
(* storage has, and a copy is inserted under a name that is free there     *)
(* (rename's look-up of a sibling; generateUniqueName), as long as         *)
(* requests are served one at a time.                                      *)
THEOREM NamesAreUnique == ASSUME MaxInFlight = 1 PROVE NamesSpec => NamesStayUnique
<1>1. ASSUME NamesInv, NEW e \in Editors, RenameSave(e)
      PROVE  Clashes' \subseteq Clashes
  <2>1. PICK i : i = edit[e].item
    OBVIOUS
  <2>2. PICK n : n = edit[e].new
    OBVIOUS
  <2>3. i \in Lives /\ ~Taken(StorageOf[i], parent[i], n, i)
    BY <1>1, <2>1, <2>2, RenameKnows
  <2>4. \A x \in Items : name'[x] = IF x = i THEN n ELSE name[x]
    BY <1>1, <2>1, <2>2, <2>3 DEF RenameSave, NamesInv, NamesOK, Lives, IsLive, Exists, Stored
  <2>5. UNCHANGED <<status, parent>>
    BY <1>1 DEF RenameSave
  <2>6. \A x : IsLive(x)' <=> IsLive(x)
    BY <2>5 DEF IsLive
  <2>7. ASSUME NEW p \in Clashes' PROVE p \in Clashes
    <3>1. /\ p \in Items \X Items /\ p[1] # p[2] /\ IsLive(p[1]) /\ IsLive(p[2])
          /\ parent[p[1]] = parent[p[2]] /\ name'[p[1]] = name'[p[2]]
          /\ StorageOf[p[1]] = StorageOf[p[2]]
      BY <2>5, <2>6, <2>7 DEF Clashes
    <3>2. p[1] # i /\ p[2] # i
      BY <2>3, <2>4, <3>1 DEF Taken, LiveChildren
    <3> QED
      BY <2>4, <3>1, <3>2 DEF Clashes
  <2> QED
    BY <2>7
<1>2. ASSUME NamesInv, NEW e \in Editors, CopyInsert(e)
      PROVE  Clashes' \subseteq Clashes
  <2>1. PICK j : j = edit[e]
    OBVIOUS
  <2>2. CopyInv(j) /\ j.pc = "insert"
    BY <1>2, <2>1, CopyHas DEF CopyInsert
  <2>3. ~Taken(j.storage, j.dst, NewName(j), Root)
    BY <2>2 DEF CopyInv
  <2>4. PICK y \in Items :
           /\ status[y] = "unused" /\ StorageOf[y] = j.storage
           /\ status' = [status EXCEPT ![y] = "live"]
           /\ parent' = [parent EXCEPT ![y] = j.dst]
           /\ name' = [name EXCEPT ![y] = NewName(j)]
    BY <1>2, <2>1 DEF CopyInsert
  <2>5. \A x \in Items :
           /\ status'[x] = (IF x = y THEN "live" ELSE status[x])
           /\ parent'[x] = (IF x = y THEN j.dst ELSE parent[x])
           /\ name'[x] = (IF x = y THEN NewName(j) ELSE name[x])
    BY <1>2, <2>4 DEF NamesInv, SerialInv, TypeOK, NamesOK
  <2>6. \A x \in Items : IsLive(x)' <=> IsLive(x) \/ x = y
    BY <2>5 DEF IsLive
  <2>7. \A x \in Items : IsLive(x) /\ parent[x] = j.dst /\ StorageOf[x] = j.storage
                           => name[x] # NewName(j)
    BY <2>3, TreeAssumption DEF Taken, LiveChildren
  <2>8. ASSUME NEW p \in Clashes' PROVE p \in Clashes
    <3>1. /\ p \in Items \X Items /\ p[1] # p[2] /\ IsLive(p[1])' /\ IsLive(p[2])'
          /\ parent'[p[1]] = parent'[p[2]] /\ name'[p[1]] = name'[p[2]]
      BY <2>8 DEF Clashes
    <3>0. StorageOf[p[1]] = StorageOf[p[2]]
      BY <2>8 DEF Clashes
    <3>2. p[1] \in Items /\ p[2] \in Items
      BY <3>1
    <3>3. (IsLive(p[1]) \/ p[1] = y) /\ (IsLive(p[2]) \/ p[2] = y)
      BY <2>5, <3>1, <3>2 DEF IsLive
    <3>4. p[1] # y /\ p[2] # y
      BY <2>4, <2>5, <2>7, <3>0, <3>1, <3>2, <3>3
    <3> QED
      BY <2>5, <3>0, <3>1, <3>2, <3>3, <3>4 DEF Clashes
  <2> QED
    BY <2>8
<1>3. NamesInv /\ [NamesNext]_allvars =>
        [(\E e \in Editors : RenameSave(e) \/ CopyInsert(e)) => Clashes' \subseteq Clashes]_allvars
  BY <1>1, <1>2
<1> QED
  BY <1>3, NamesCorrect, PTL DEF NamesSpec, NamesStayUnique

(* When a copy ends it has copied all that was below its source, each item *)
(* once and in its place (copyChildrenRecursively), as long as requests    *)
(* are served one at a time.                                               *)
THEOREM CopiesAreComplete == ASSUME MaxInFlight = 1 PROVE NamesSpec => []CopyIsComplete
<1>1. ASSUME NamesInv, NEW e \in Editors, CopyDone(e)
      PROVE  \E root \in Items : Mirrors(root, edit[e].made)
  <2>1. PICK j : j = edit[e]
    OBVIOUS
  <2>2. CopyInv(j) /\ j.pc = "next" /\ \A f \in 1..Len(j.todo) : j.todo[f].kids = {}
    BY <1>1, <2>1, CopyHas DEF CopyDone
  <2>3. \A c, d : ~Waits(j, c, d)
    BY <2>2 DEF Waits, Before
  <2>4. ~HotJob(j) /\ Awaited(j) = {}
    BY <2>2, <2>3 DEF HotJob, Awaited
  <2>5. j \in CopyJobs /\ \E r \in Lives : Clean(j, r)
    BY <2>2, <2>4 DEF CopyInv
  <2>6. PICK r \in Lives : Clean(j, r)
    BY <2>5
  <2>7. Begun(j, r) /\ Chained(j, r) /\ Single(j) /\ Separate(j, r) /\ Covered(j) /\ Renamed(j, r)
    BY <2>6 DEF Clean
  <2>8. j.made # {} /\ r \in Items
    BY <2>2, <2>7 DEF Begun, Before, Lives
  <2>9. Originals(j) = Below(r)
    <3>1. Originals(j) \subseteq Below(r)
      BY <2>7 DEF Separate
    <3>2. r \in Originals(j) /\ Originals(j) \in SUBSET Items
      BY <2>7, <2>8, <3>1 DEF Begun, Below
    <3>3. ASSUME NEW x \in Originals(j) PROVE LiveChildren(x) \subseteq Originals(j)
      <4>1. PICK p \in j.made : x = p[1]
        BY DEF Originals
      <4>2. LiveChildren(p[1]) \subseteq Originals(j)
        BY <2>2, <2>4, <2>7 DEF Covered
      <4> QED
        BY <4>1, <4>2
    <3>4. Below(r) \subseteq Originals(j)
      BY <3>2, <3>3, BelowLeast
    <3> QED
      BY <3>1, <3>4
  <2>10. ASSUME NEW p \in j.made, p[1] # r
         PROVE  /\ <<parent[p[1]], parent[p[2]]>> \in j.made
                /\ Differ(parent[p[1]]) => name[p[2]] = name[p[1]]
    BY <2>7, <2>10 DEF Chained, Renamed
  <2>11. Mirrors(r, j.made)
    BY <2>7, <2>9, <2>10 DEF Mirrors, Originals, Single
  <2> QED
    BY <2>1, <2>8, <2>11
<1>2. NamesInv => CopyIsComplete
  BY <1>1 DEF CopyIsComplete
<1> QED
  BY <1>2, NamesCorrect, PTL

=================================================================================
