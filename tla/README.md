# A TLA+ verification of the DropHub backend

DropHub is two NestJS services. `main-app` (HTTP, socket.io, Postgres, Redis)
holds users, permissions, chat, friends and the endpoints; `file-service`
(MongoDB, S3, Redis, a cron) holds files, storages and rooms. They talk by RPC
over RabbitMQ. Neither service takes locks and hardly anything runs in a
transaction: every handler is a chain of awaited reads and writes, and the
handlers of one process interleave at every `await` (`main-app/src/main.ts`,
`file-service/src/main.ts`).

So the questions of this project are: what do those chains keep true when they
run one after the other, what is left of it when they interleave, repeat or
stop half way, and which assumption makes the difference.

Contents: 1 inventory; 2 the modules and how they follow the code; 3 the runs;
4 fairness; 5 what is proved; 6 what the code does not keep; 7 what is not
modelled; 8 what is left.

## 1. Inventory

| Component | State | Operations | What makes it correct |
|---|---|---|---|
| Storage tree and trash (`file-service/.../storage`) | `StorageItem` documents: `parentId`, `deletedAt`, `permanentDeleteAt` | create, move, soft delete, restore, schedule, nightly purge | no live item below a trashed folder, no orphan, no cycle, the purge takes only trash |
| Names and copies | `name` of the items | rename, recursive copy, batches | unique names in a folder of a storage, complete copies, termination |
| Uploads | `UploadSession`, `File`, S3 objects | init, PUT, confirm (also repeated) | a confirmed upload is filed once, with its bytes, in every list |
| Files of rooms, listing cache, archive | `Room.files`, `Room.__v`, `File`, Redis | bind, remove, purge, rename, list, archive, delete room | nothing lost from the list, no dangling id but where the list could not be written, archives complete, the cache settles |
| Downloads, previews, caches of files | Redis entries for metadata and presigned addresses | links by permission or token, previews, thumbnails, streams, a second read after an error | an address handed out works; what is gone is refused soon |
| Confirmed and multipart uploads, conversions, removals | `File`, S3 objects, lists | confirm; init, complete; source to artifacts; `hardDeleteFiles` | what is listed has its document and its object |
| Room membership (`main-app/.../room`) | permission rows, chat members, `participants` | create room (with compensations), add, remove, delete; the chat's own add and remove on the room's channel | permission, chat and count agree |
| Permissions | `Permission` rows, no unique index | grant, revoke, verify, the guard | one row for a user and resource; who was removed has none |
| Chat channels | `Channel`, `ChannelMember` | direct and group channels, add, remove | one direct channel for two users |
| Chat messages | `Message`, `MessageReaction`, `ReadCursor`, sockets | send, edit, delete, pin, react, read | deletions are final, sockets are told what is stored, the removed are silent |
| Friends | `friend_requests`, `friends` | ask, accept, reject, cancel, part | nobody becomes a friend without an open request |
| Accounts (authentication, codes, users, profiles) | `User`, `Profile`, `Code` | sign up, in and on, Google, reset by code, rename, ban | no column goes back, one code each, the search for a name ends |
| Storages and sharing of main-app | `Permission` rows of types STORAGE and SHARED | the guard, the scope check, the endpoints that change items for owners or by share, shares | a share bounds what it admits to; revoked is revoked |
| Storage tags | `tags` of items and of the storage | update, remove | the storage lists the tags of its items |
| Favorites | `FavoriteStorageItem` rows | add, remove, batches | a removal takes no later addition |
| Search, support, push, notifications, statistics, avatars, clients, configuration, room cleanup worker | | | not modelled, section 7 |

Interactions. A storage upload (`Uploads`) ends in an item of the storage tree;
the purge of the tree deletes files, and with them objects and references of
rooms (`RoomFiles.PullFiles`); archiving a room copies its files into a storage
folder; creating a room makes a document in MongoDB, a channel and a permission
in Postgres, and undoes them by hand when a later call fails (`RoomMembers`);
a request by share reads permission rows in Postgres, walks up the tree in
MongoDB and only then changes it (`Sharing`); messages are let in by the member
rows that other requests insert and delete (`Chat`).

Hard behaviours, and the hazards of `PROJECT.json` they give rise to: checks that
read before an await and act after it (move, create, rename, grant, quota, the
scope of a share, direct channels, friend requests, names of users); ids
collected over many reads and written at once (soft delete, restore, purge);
arrays and rows read, changed and saved whole beside writes of one field (room
files, messages, users, profiles); compensation by hand (create room, add
member); clients that retry a call whose answer was lost (confirm); caches
filled after they were dropped, and presigned addresses that end while they are
cached; recursion over data that users shape (cycles, copies into themselves);
chains of writes that stop in the middle (confirm, conversion, acceptance).

## 2. The modules and how they follow the code

One action is the code between two awaits together with the database, S3, Redis
or RPC call that ends it. An early return or a thrown exception ends the request.
Requests are records in a function (`call`, `edit`, `req`, `creq`, `mreq`) whose
`pc` names the await they wait at and whose other fields are the handler's local
variables. The route of main-app, with the permission it requires, is the action
that begins the request.

| Module | Models | Its state in the code |
|---|---|---|
| `StorageTree` | the handlers on items and the purge cron | `status[i]` is `deletedAt`/`permanentDeleteAt` of item `i`; `parent` is `parentId`; `call[h]`, `purge` are local variables |
| `TrashBin` | the abstract promise: groups of items are added, discarded, recovered, scheduled, expire and are destroyed | `status` alone |
| `StorageNames` | EXTENDS `StorageTree` with names, rename and copy | `name`; `edit[e]` is a rename or copy, its `todo` the recursion stack, its `storage` the `storageId` of the request, by which every query for a name filters and which every copy gets |
| `Uploads` | sessions, objects, confirms; later removals by their effect | `session`, `key`, `objects`, `storedName` (unique index), `roomFiles`, `items`, `trash`; any file may be deleted through any room, which leaves its item |
| `RoomFiles` | the room document's file list with mongoose's version check, the documents, the cached listing, the archive | `list`, `version`, `stored`, `cache`, `archived` |
| `RoomMembers` | create room, add, remove, the grant and revoke endpoints, the chat's own add and remove (`BeginInvite`, `BeginExpel`), room deletion | `rows` (Permission), `channel`, `member`, `room`, `count`, `counts` (RabbitMQ events on their way) |
| `ChatChannels` | direct and group channels, their members | `kind`, `member` (rows known by the request that inserted them) |
| `ChatMessages` | messages, reactions, read cursors, the gateway's events | `message`, `reaction`, `cursor`; `shown` is what a socket was told |
| `Chat` | composes the two: the role that `ChatMessages` reads is the member row of `ChatChannels` | `out`, a history |
| `People` | what `Friends` and `Chat` share: the users, and the constant `Apart` | |
| `Friends` | requests and friendships | `status`, `row` |
| `Friendship` | the abstract promise: ask, withdraw, agree, part | `friends`, `asked` |
| `Accounts` | sign-up, Google sign-in, login, refresh, codes, reset, rename, ban | `user`, `profile`, `codes`; `meant` is what was last written on purpose |
| `Sharing` | the guard, the scope check, the endpoints on items (rename, copy and batches among them) by the owner or by share, tags, shares, createStorage | `own`, `rows` (Permission), `parent`, `trash`, `doomed`, `tags`, `listed`; `left` of a copy is what it has read and not inserted yet |
| `Favorites` | EXTENDS `Sharing` with favorites | `fav` |
| `Delivery` | addresses and their caches, metadata cache, expiry, removal, confirmed and multipart uploads, conversion, with time | `doc` (a confirmed upload keeps the schema's status `in_progress`), `late`, `object`, `listed`, `meta`, `address` |
| `StorageTree_proofs`, `Uploads_proofs`, `Delivery_proofs`, `People_proofs`, `Accounts_proofs`, `RoomFiles_proofs`, `RoomMembers_proofs`, `Sharing_proofs` | theorems | |
| `MC...` | instances for TLC | |

Where one step of a model stands for more than the code promises:

- `updateMany` and `deleteMany` are one step. MongoDB writes document by document.
- `RetentionElapses` (21 days) happens only when no request is under way.
- The entry of a handler is one step with its first read, and the wrapper's read
  in `StorageService` is merged with the inner service's read of the same document.
- A batch request is its items' requests, one after the other; items that fail are
  skipped, as in the code.
- In `RoomMembers` a request names one target (the code treats a list one after the
  other); the verification of the acting user and the first look-up of the target
  are one step; events reach the file service in order and are not lost.
- In `RoomFiles` a removal swallows every error of the room's list, as the code does,
  and may name another room; `left` marks that its files are still listed.
- In `Uploads` the removals of `RoomFiles` and the trash of `StorageTree` are single
  steps: only their effect on the file counts there. In `Sharing` every handler of
  the file service is one step, since `StorageTree` has the steps, but tag updates and
  copies, whose steps matter to the tags. A copy goes depth first, siblings in any order.
  Items of another storage are not in `Sharing`.
- In `Sharing` a request that the guard refuses is as if not made, and the second
  write of a tag update does not fail.
- `Favorites` has behaviours with requests for items or with requests for favorites,
  never both: the two kinds share no rows, so that a mixed behaviour is one of each.
- In `Accounts` who is asked for a password or token knows it; a wrong one changes
  nothing.
- In `Delivery` Redis answers, and the bytes themselves are left out. `cacheWrapper`
  calls its function again when the first call threw, and does not cache what the second
  call returns: `ReadAgain`, `SignAgain`. In `RoomFiles` and for permissions this second
  call is left out: it reads the same and leaves no trace. An upload is confirmed once
  there and an object belongs to one file (`Uploads` has repeats and shared keys).
- Names in `StorageNames` are sequences of marks: the original and one mark for each
  copy suffix that `generateUniqueName` adds; in `Accounts` a base and the number of
  a suffix. Names are short enough for their suffixes; trimming is left out.

`Slip...` operators are wrong variants of the definition that follows them. No
action uses them. They show that each property notices a plausible bug: with the
definition replaced by its slip, TLC finds the property violated.

## 3. The runs

| Run | Instance | What it shows |
|---|---|---|
| `tree_serial` | 3 folders, 1 file, 5 requests, one at a time, from every forest of live items | the trash is closed, no orphan, no cycle but by the restore of a live item, the purge takes only trash, and the tree implements `TrashBin` |
| `tree_concurrent` | 2 folders, 1 file, 3 requests, two under way | what survives interleaving: what was purged stays gone, and every walk ends while the tree has no cycle |
| `tree_v_live` | a restore beside the purge | violated: the purge destroys live items |
| `names` | 4 folders and 3 files, one of the files of a second storage and 3 of the 7 there from the start, 2 names (one looks like a copy's), 2 requests, one at a time | complete copies; renames and copies keep names unique in a folder and storage; copies end |
| `uploads` | 2 uploads of different sizes, one also to a room, 3 confirms, a quota of 2 | of an upload's items one at most has a file, with its bytes, in every list; the quota is passed only by what others added since it was checked |
| `rooms` | 2 files, 4 requests; no bind or purge beside a removal, removals may overlap | nothing lost, no dangling id but where a removal could not write the list or named another room, archives complete, the listing settles |
| `members` | creator and 2 users, 3 requests, requests on one user apart | one row for each user, chat only with access or by the chat's own invitation, a removed user has none, a failed creation leaves nothing but what could not be deleted, the count is right at rest |
| `chat` | 3 users, 3 requests of either kind, those on one message, or naming one pair of users, apart | one direct channel for two users, of just the two; sockets agree with the rows; a deleted message stays so; who was removed writes nothing |
| `friends` | 3 users, 5 calls, those on one pair apart | the rows implement `Friendship`; decisions are final |
| `accounts` | 2 spellings of one address, 1 name, 4 requests, whole-row writers alone with their account | every column holds what was last written on purpose; one code each; the search for a free name ends |
| `sharing` | owner and guest, a shared folder with a shared folder and a tagged file in it and two new ids, 2 requests; or 3 requests for favorites | a share bounds what is listed and changed through it (but for copies to the top), revoked shares admit nobody, the storage lists its items' tags (but those a copy held), favorites stay |
| `delivery` | a video and room for a picture, 3 requests (interchangeable), two at once, addresses that work 4 ticks and stay cached 1 | addresses handed out work, what is gone is refused in bounded time, what is listed has its object and the document of a complete file or a confirmed upload |

Why the bounds are enough. A cycle by moves needs two folders, a half-seen subtree
three levels (folder, folder, file). Every race here is between two requests,
and the third or later request shows what they left behind (a purge, a retry, a
removal). Two uploads are what a shared key needs, three confirms let one upload
be confirmed twice beside the other. Two files are what distinguishes "this file was
lost" from "the list was lost". Three users are two who ask each other and one who
is in neither request. Two spellings are what sign-in by password takes for two
addresses and sign-in through Google for one. In `names` the file of the second
storage may lie in a folder of the first from the start, as a restore leaves it. In
`sharing` two requests (`MaxItemRequests`) are a copy and what goes on beside it;
favorites need the third, an addition between two removals. In `delivery` a file is
removed while an address for it is signed and the other is being converted into; lives of
several ticks let an entry be read at each age, and only files of `Asked` and
`Batches` are asked for. `MaxActive` bounds what is under way at once, `Expiring`
the files whose time comes, `MaxRequests`, `MaxCalls` and, in `delivery`, the
set `Requests` all requests of a behaviour. Users other than a creator or founder are
interchangeable (symmetry); in `members` they are granted WRITE, the role that may act,
so that ADMIN stays the mark of the creator. The instances use symmetry only with invariants, properties of
single steps and refinements, never with liveness.

All runs but `delivery`, where time always passes, state `CHECK_DEADLOCK FALSE`:
behaviours are bounded by a number of requests, and after the last has ended nothing
happens.

Assumptions named by constants:

- `MaxInFlight = 1`: requests of `StorageTree` and `StorageNames` one at a time.
- `RemoveAlone`: no bind and no purge runs beside a removal; removals may overlap.
- `Apart`: requests on one member (`RoomMembers`), one pair of users (`Friends`,
  `ChatChannels`), one message or cursor (`ChatMessages`), two grants or revocations of
  one resource, a move or restore and a request by share, or two `createStorage` of one
  user (`Sharing`) do not overlap.
- `Alone`: what saves a whole row, or replaces a code, has the account to itself.
- `DistinctUploads` (`DistinctNames` in the run): no two uploads share a key.
- `MarginAssumption` with `Patience`: a request for an address is answered in less
  than half of the time by which addresses outlive their cache entries (10 seconds in
  the code: 60 and 50, 300 and 290).

The code enforces none of them but the lives in the last. They mark the line between
what the code keeps in itself and what it keeps only by luck of timing; section 6
shows the other side.

## 4. Fairness

Liveness is claimed only where the runtime gives it. Node resumes a handler whose
awaited call has returned: weak fairness of the continuation of each request
(`Continue`, `ContinueEdit`), never of its start, since users need not ask. The
cron fires every night (`WF(PurgeScan)`, `WF(PurgeStep)`), and Redis expires keys
(`WF(CacheExpires)`). `RoomFiles` lets every call fail in addition. There is no
fairness for users, for S3 uploads or for the passing of the retention.

`WalksEnd`: walks over a tree without cycles end. `CopyEnds`: a copy to a folder
outside of its source ends, whatever names are taken. `ListingSettles`: the cached
listing ends up right. `PickingEnds`: the search for a free name ends, though each
of its look-ups may find the next name taken.

## 5. What is proved

TLAPS checks these for all values of the constants, given the named assumptions of
the modules, which TLC evaluates on each instance.

`StorageTree_proofs`:

- `TypeCorrect`: the type invariant, for any number of handlers.
- `SerialCorrect`: with `MaxInFlight = 1`, `SerialInv` is invariant. `TrashClosed` is
  not inductive: between two awaits a handler holds ids it has collected. `SerialInv`
  says of each handler what its ids mean: `ClosedBut(ids, todo)` (only folders still
  to be read have children outside of what was collected), the state of the target
  a create, move or restore has read, and the same for the purge. `TypeOK`, `Tree`
  (parents are folders, no orphans, closed trash) and `Alone` complete it.
- `SerialTrashClosed` (`TrashClosed`), `SerialNoOrphan` (`NoOrphan`), `SerialPurgeIsSafe`
  (`LiveNeverDestroyed`): consequences; the third also needs that what the purge has
  collected is in the trash.
- `SerialMoveIsSafe`, `SerialStaysAcyclic`: the walk of a move stays inside every set
  of items that the move would close on itself (`WalkInv`), so that it must meet the
  moved item before it reaches the root. Acyclicity is stated without recursion:
  every non-empty set of items has a member whose parent is outside.
- `PurgedStaysGone`: `GoneForGood`, for any number of handlers. An `updateMany` matches no
  missing document, so only an insert could bring one back; `OwnIds` says that whoever
  is about to insert an item has its unused id for himself.
- `SerialImplementsBin`: `Spec` implements `TrashBin`: every step maps to a step of
  the bin or a stutter.

The same module, about `StorageNames` with `MaxInFlight = 1` (any items, names and
requests; that there are finitely many ids is an assumption of the module):

- `NamesCorrect`: `NamesInv` is invariant. It holds `SerialInv`, so that renames and
  copies keep the tree in order, `Sole` (while an edit is under way handlers and purge
  rest) and, for each place an edit waits at, what it holds (`EditInv`).
- `NamesAreUnique`: `NamesStayUnique`, for each folder and storage. What a rename or a
  copy has found free is free
  when it is used, since the number tried is kept (`NewName`) and nothing came between.
- `CopiesAreComplete`: `CopyIsComplete`. The storage may have cycles (a restore makes
  them), and a folder may be copied into itself; such a copy takes its own copies for
  originals. `Hot(c, d)` says that from `c` one can go down to `d` or go down for ever:
  a copy that waits to put `c` into `d` then never ends (`HotJob`; inserting a copy
  keeps it so). Every other copy is `Clean`: it began with its root (`Begun`), each copy
  hangs where the copy of its original's parent hangs (`Chained`), nothing is copied
  twice (`Single`), copies are outside of what is copied (`Separate`), every child of a
  copied folder is copied or waits (`Covered`), and a name was changed only where two
  were the same (`Renamed`). When a clean copy ends nothing waits, so that the
  originals are all that is `Below` the root. `Below` is an intersection of closed sets,
  which takes the place of an induction on the depth.

`Uploads_proofs` (any number of uploads, confirms and names, all interleavings):

- `TypeCorrect`, with the key of an upload tied to its session.
- `StorageFilesOnce`: `StorageUploadOnce`. `NameInv` says that a file whose session has no
  room keeps its session's stored name, and that stored names are unique; hence of two
  items of one upload at most one has a file, also when a file was deleted through a room
  and the upload was confirmed again.
- `FilesHaveBytes`: under `DistinctUploads` (uploads have keys of their own) `ByteInv`
  follows an object from the PUT to the check of each confirm.
- `ConfirmedFilesListed`: under the same assumption `ListInv` adds the lists a confirm
  has passed and the object, which only the removal of a file takes away.
- `QuotaOvershotByOthers`: `QuotaOvershoot`. `SeenFits`: between its last check and its
  insert, a confirm's bytes and those of the items it has seen fit the quota. This lasts
  since a file that was deleted does not come back under its item. `Bytes` counts bytes
  one by one, as the size of a set, so that the sum needs no induction.

`Delivery_proofs` (any files, lives and numbers of requests, all interleavings):

- `AddressesAlwaysWork`: a cached address outlives its entry by more than `Patience`
  (`CacheOK`), and an address that a request holds outlives what is left of the
  request: its remaining life and the request's age make more than `Patience`
  (`RequestOK`). The step to see is that of the cache: an address signed by a request
  of age `a` has lost at most `a` when it is cached for `KeptFor`, so that it then
  outlives the entry by at least `SignedFor - KeptFor - Patience`, which
  `MarginAssumption` makes more than `Patience`.
- `ListedIsAlwaysWhole`: `ListedIsWhole`. `WholeInv` says what conversions, confirmed
  uploads and removals hold between their writes (`CallWhole`): the file about to get
  its document has its object and no other request's, the one about to be listed is whole
  (its document complete, or of an upload that is done) unless its removal has begun, and
  what is being removed had a document when that began, so that its id is never taken for
  a new file.
- `GoneIsAlwaysRefused`: `GoneIsRefused`. `TimesOK`: a cached status that is out of date
  by `t` and lives `k` more ticks has `t + k <= Window`, where `Window` is the life of an
  entry and the patience of the request that made it. `FreshCall`: what a request has
  passed by was then out of date by less than `Window`, and since by its own age.

`People_proofs`, about `Friends` (any users and calls, under `Apart`):

- `PromiseKept`: `Spec` implements `Friendship`. `FInv` says of each call what it has
  found and still holds (`Found`), that of two users only one asks (`OneAsks`) and
  that calls under way have pairs of their own (`Lone`), so that what one has found
  no other changes. Every write is then one of four (`Asks`, `Agrees`, `Decides`,
  `Parts`), and each maps to a step of `Friendship` or a stutter: the status of an
  accepted request is written when the two are friends already.
- `DecisionsStand`: from the same four.

The same module, about `Chat` (any users and requests of both kinds, each failing
anywhere, under `Apart`):

- `OneDirectChannel`, `DirectAnswersAreOfBoth`: `OneDirectEach`, `DirectIsOfBoth`, from
  `CInv`. A request that looks for a direct channel has among the channels still to look
  at every one of its two users (`FoundBy`), so that it finds none only if there is none;
  no other request that looks for one of the two is under way (`Pairwise`); a channel made
  has rows of its two users alone until one is removed (`MadeBy`), and so has the one a
  request was answered with (`AnsweredTo`).
- `SocketsAlwaysAgree`: `SocketsAgree`, from `MInv`: what sockets hold of a message, cursor
  or reaction is what is stored, or a request is under way whose event will tell the
  difference (`ToldRow`, `ToldCursor`, `ToldReaction`); what a request has read is
  still stored when it saves (`FoundOn`), since no other is under way about it (`AloneOn`).
- `DeletedStaysSo`: `DeletedIsFinal`. Edits and pins save the row they read; under `MInv`
  it is the row as it is, and no action edits a deleted one.
- `RemovedStaySilent`: `RemovedAreSilent`, by `Outside`: who is out is no member, and has
  nothing under way but pins, for which the code asks for no membership.

`Accounts_proofs` (any addresses, names and requests, under `Alone`):

- `ColumnsStand`: `LastWriteStands`. `AInv` adds that an address without an account has
  no column (`Agree`), that a request about to save a row holds the row as it is
  (`Found`), and that of two requests on one account none is a wide one (`Lone`): then
  saving a row writes one column, and a narrow writer in between is impossible.
- `CodeIsReplaced`: `OneCodeEach`. Between deleting and inserting the address has no
  code of the type (`Found`), because no other request on it runs.

`RoomFiles_proofs` (any files and requests, each failing anywhere):

- `ArchivesAreWhole`: `ArchiveIsComplete`, in all interleavings, from `KInv`: the place
  a request waits at tells its kind, a file is bound once (`OnceBound`) and the purge
  takes what confirms were answered for (`PurgesBound`).
- `AddedFilesStay`, `ListedFilesExist`: `NothingLost` and `ListIsReal` under
  `RemoveAlone`. `LInv` adds what each request holds (`Found`): the file about to be
  pushed has its document, what a removal has read is still the list if the version is, and
  what is about to be deleted is not listed, unless the removal could not write the list
  or named another room (`Left`). A removal is safe since only removals write the list
  beside it and those change the version, a purge beside a bind since the two have
  different files (`PurgeApart`).

`RoomMembers_proofs` (any users, roles and requests, each failing anywhere, under `Apart`):

- `PermittedOnce`, `ChatFollowsAccess`, `RemovalStands`, `UndoneIsUndone`: `OneRowEach`,
  `ChatNeedsAccess`, `RemovedHaveNoAccess`, `CreationUndone`, from one invariant `MInv`.
  Requests begin in order and on one user one at a time (`InOrder`, `Lone`), so that the
  row a request has found is still the only one of its user when it is written or
  deleted (`Found`), and that whom a request has removed has no row until a later one
  names him (`Gone`). Who was invited through the chat (`Invited`) is excepted from
  `ChatNeedsAccess`; of a failed creation what could not be deleted is kept by the place
  the request ended at (`"leftRoom"`, `"leftChannel"`, `"leftBoth"`). Nothing the room
  serves begins before the creator has his permission (`Made`).
  That `"none"` is no user is an assumption of the module: it marks a free row.
- `RoomCountsItsMembers`: `CountAtRest`. The count lags behind a queue, so `CountInv` is about
  the last number on its way, or the count if there is none (`Told`): it is the number of
  rows, less one while an addition may still be refused (`Counted`). This holds as long as
  requests followed one another (`Alone`) and none was cut short or went past the room
  (`Clean`); the property asks for no more.

`Sharing_proofs` (any users, items, batches and requests; about `FavoritesSpec`, whose
behaviours without requests for favorites are those of `Sharing`):

- `TagsAreListed`: `TagsListed`, in all interleavings. `Tagged` says what holds between
  the writes: a tag of an item, or of what a copy has read and not inserted yet, is
  listed, or a request has still to list it or to take it off the items, or it was taken
  off while a copy held it (`lost`). This is why the order of the writes matters.
- `RevocationStands`: `RevokedStayOut` under `Apart`. `RInv`: a user has one row for a
  resource and rows have ids of their own (`Rows`), grants and revocations of one
  resource follow one another (`Lone`), and what one has found is still so (`Found`).
- `FavoritesAreKept`: `FavoritesStay`, in all interleavings. `MarkInv`: an addition inserts
  under an id that is new (`Open`, `Fresh`), and what a removal is about to delete is a row
  it has found, so that it takes no later addition.
- `SharesBound`: `StaysInShare` under `Apart`, but for copies to the top (`ToTheTop`).
  `SInv`: a request by share lies below its resource, as do the folder it copies to (`Target`)
  and all that its copy has read (`Copied`), or is walking up and is on the way
  (`Watched`); this lasts since
  no move or restore overlaps it, and an item created meanwhile was stored nowhere (`New`)
  and is created by one request (`Distinct`). `Up` is the least set that holds an item and
  the parents of its items; the lemmas `Up...` follow from that, with no induction.

Model-checked only: liveness, which is out of the prover's reach (`WalksEnd`, `CopyEnds`,
`ListingSettles`, `PickingEnds`). Every other property of the runs is stated by a theorem
above.

## 6. What the code does not keep

One disagreement between the code and what its messages say has a violation run
and is listed under `findings`: live items destroyed by the purge. The others were met
while the models were written; dropping the assumption named in section 3, or the
exception in the property, shows most of them.

Storage and its tree:

- Two concurrent moves close a cycle. A folder copied into itself copies its own
  copies without end.
- `createItem` beside a soft delete leaves a live item in a trashed folder; soft delete
  beside a move trashes what has moved away.
- `restore` accepts a live item, and a new parent below the item itself (a cycle) or of
  another storage; it does not look at the quota.
- A scheduled item may be restored, or deleted again, which clears its schedule.
- Two renames, or a rename and a copy, may take one name; `createItem` does not look
  at names at all.
- The queries for a name filter by `storageId`: siblings of different storages, which a
  restore may bring into one folder, may share a name. Copies of such children get the
  storage of the request.
- Children are read folder by folder while a copy runs: an item moved meanwhile may be
  copied twice or not at all.

Uploads, rooms and files:

- Two uploads of one name in one millisecond share an S3 key: one is confirmed with
  the bytes of the other, or without any.
- A confirm that fails after `createFileMeta` leaves a file in no list, and its stored
  name refuses every retry. A confirm that found the object before the file of an
  earlier confirm was deleted makes a file without bytes.
- A removal saves the filtered list and overwrites a file pushed meanwhile. Any error of
  the list (a failed read or save, the version conflict of a second removal, a room that
  is gone) is logged and the files are deleted all the same, which leaves their ids in
  the list; so does a removal that names another room. Users do not see such ids.
- `DELETE /file` deletes any file through any room the user may write to. A storage file
  deleted so leaves its item, and as its stored name is free, a repeated confirm whose
  session is still open may file the upload once more.
- Two archives of one room at once copy it twice.
- Deleting a room leaves its permissions, its channel and its files.
- `completeMultipart` never succeeds: it looks for its file with `getFileByUploadId`, which
  refuses all but COMPLETE ones.
- Files of confirmed uploads keep the schema's status `in_progress`, since nothing sets
  another: their previews are refused ("File upload not completed.",
  `preview.service.ts:121`); only copies and artifacts of conversions have any.
- A cached `expiresAt` is a text and compares with no date: previews take a cached file
  for one that has not expired. The addresses of previews are not dropped when a file
  is removed.
- `file.uploadByToken` and `file.archiveRoom` have no handler in the file service.
- A conversion looks at neither the folder nor the trash, and does not drop the cached
  listing of its room.
- The confirm routes check the permission of the room or storage in the body, while the
  session is found by the upload's id alone.

Permissions, rooms and sharing:

- Two grants to one user at once leave him two permission rows; removing him deletes
  one, and he keeps his access. An addition and a removal at once leave him in the
  chat without access.
- Adding a member once more, when the chat fails, takes the permission he had.
- A room's channel is an ordinary group channel: its creator adds anyone to it, and takes
  out anyone, by `/chat/channels/:id/members`, with no permission asked for or written.
- A failure of what undoes `createRoom` is swallowed: the channel may stay without its
  room, with the creator in it, or the room without a channel.
- `/permission/revoke` removes the creator of a room, which `removeUsersFromRoom` refuses.
- Two `createStorage` at once leave a user two storages; one whose permission call fails
  has no owner.
- A share's check is not repeated when the change is made: a move in between takes the
  item out of the share. A guest with WRITE may move an item to the top of the storage,
  and a copy by share with `targetParentId` null lands there: `shared.service.ts:122`
  checks only a parent that was given. `POST /shared/create-item` checks no scope at all:
  with a share one may create items anywhere in the storage (`CreateShared`, a request of
  its own, of which `StaysInShare` says nothing).
- A copy inserts the tags it read when it came to the item: tags taken off the storage
  meanwhile come back on the copy, and the storage does not list them.
- A trashed shared item cannot be restored through its own share.
- Rows of permissions and favorites outlive the items they name, and favorites of shared
  items ask for no permission.

Chat, friends and accounts:

- Two users who open a chat with each other at once get two direct channels.
- Edit, delete and pin save whole rows: an edit beside a deletion brings the message back.
  Deleting a message that is deleted replaces who deleted it.
- `client_request_id` is stored and never looked up: a repeated send is two messages.
- A refused or cancelled friend request refuses every later one of the same direction,
  also after the friendship ended. A cancellation beside an acceptance leaves friends of
  a withdrawn request.
- Two spellings of an address are two accounts to password sign-up and one to Google.
- Registration asks for no verified code; a code can be used until it expires.
- Overlapping logins and refreshes leave only the last refresh token valid, and a reset
  password leaves it valid.
- Bans, edits and Google pictures save rows read earlier and undo what was written since.
- A sign-up whose avatar call fails leaves the account, without tokens.
- `pickUniqueDisplayName` does not end for a taken name of 255 characters or more.

## 7. Not modelled

Search and statistics only read. Support tickets, notifications, action logs and device
tokens are single inserts, or whole rows saved in the way `Accounts` shows. Avatars are
one object per user. The clients of the services are remote calls; the models let a call
fail where the code handles the failure. The room cleanup worker is imported by no
module, and the queue it fills is not the one it reads. Of conversions, streams and
archives the bytes are left out, of multipart uploads the parts; of authentication the
signing of tokens; of sharing the owner's listings and items of other storages. Contents
of files, formats of messages, logging, HTTP validation and push messages are left out
everywhere: no property is about them.

Of the hazards listed in `PROJECT.json` those without properties are the ones the code is
exposed to and no property covers, since the code does not withstand them: the note of
each says which property becomes false when the assumption that excludes it is dropped.
The second call of `cacheWrapper` is modelled in `Delivery` alone (section 2).

## 8. What is left

Proofs: the assumptions `Apart`, `Alone` and `RemoveAlone` of section 3 are one for each
component; a theorem may need less than the whole of one.
Models: storages that several users own, and a failing second write of tags.
