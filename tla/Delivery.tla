------------------------------ MODULE Delivery ------------------------------
(***************************************************************************)
(* How the file service hands files out and makes new ones of them:        *)
(* download links, previews and thumbnails, the cached metadata and cached *)
(* presigned addresses they go through, the removal of files, confirmed    *)
(* and multipart uploads and conversions.  Every access to MongoDB, Redis  *)
(* or S3 is a step; time passes in ticks, and what counts it down are the  *)
(* lives of cache entries and of presigned addresses.                      *)
(*                                                                         *)
(* Names, sizes and contents are left out, and so is downloadCount, which  *)
(* nothing reads.  Redis answers; MongoDB and S3 may fail where failing    *)
(* leaves something half done, or where the call is made again.  An upload *)
(* is confirmed once: repeats are the matter of module Uploads.            *)
(*                                                                         *)
(* The operators named Slip... are wrong variants of the definition that   *)
(* follows them; no action uses them.                                      *)
(***************************************************************************)
EXTENDS Integers, FiniteSets, Sequences

CONSTANTS
    Requests, MaxActive, \* bounds: requests, and how many are served at once
    Expiring,  \* bound: files whose time comes
    Asked, Batches, \* files, and lists of files, whose addresses are asked for
    Files, Stored,  \* file ids; those of files stored from the start, listed in a room
    Copies,    \* and of them those a copy or a conversion made; the rest are uploads
    Mime,      \* "image", "video" or "other" for each file
    SignedFor, KeptFor, \* ticks a presigned address of a kind works, and stays cached
    MetaKept,  \* ticks that metadata stays cached
    Patience,  \* assumption: ticks within which a request for an address is answered
    Pages      \* numbers of artifacts a conversion may produce

\* The cache keys of a file's addresses: download:url:K, preview:url:K:image,
\* preview:url:K:video and preview:video:stream:K.
Kinds == {"download", "image", "thumbnail", "stream"}

ASSUME DeliveryAssumption ==
    /\ IsFiniteSet(Files) /\ Stored \subseteq Files /\ Copies \subseteq Stored
    /\ Mime \in [Files -> {"image", "video", "other"}]
    /\ SignedFor \in [Kinds -> Nat] /\ KeptFor \in [Kinds -> Nat]
    /\ MetaKept \in Nat \ {0} /\ Patience \in Nat /\ MaxActive \in Nat
    /\ Expiring \subseteq Files /\ Asked \subseteq Files
    /\ Batches \subseteq Seq(Files) \ {<<>>}
    /\ Pages \subseteq Nat \ {0}

\* Addresses are cached for less than they work (60 and 50 seconds, 300 and
\* 290), and requests take less than half of the difference.
ASSUME MarginAssumption == \A k \in Kinds : KeptFor[k] + 2 * Patience < SignedFor[k]

VARIABLES
    doc,    \* documents of files: "unborn", of an upload in progress ("partial" of a
            \* multipart one, "confirmed" of one that is done), "complete" or "gone"
    late,   \* files whose expiresAt has passed
    object, \* files whose object S3 holds
    listed, \* files in the list of the room, or with an item in the storage
    meta,   \* file:meta cache: ticks an entry still lives, 0 if there is none
    seen,   \* and the status of the upload it tells
    address, \* cached addresses: ticks the entry (keep) and the address (left) still live
    out,    \* history: ticks since a file expired or its document went, at most Longest
    struck, \* history: files a removal has begun for
    req,    \* what each request is doing
    age,    \* ticks since it began, if it is for addresses
    got     \* addresses it has: ticks each of them still works

files == <<doc, late, object, listed>>
cache == <<meta, seen, address>>
work  == <<req, age, got>>
vars  == <<files, cache, out, struck, work>>

None == [keep |-> 0, left |-> 0]
Nothing == [f \in {} |-> 0]
Longest == MetaKept + 2 * Patience \* out stops counting here

Links == {"download", "preview", "thumbnail", "stream"}
Rest(pc) == [op |-> "none", pc |-> pc, files |-> <<>>, n |-> 0, status |-> "none"]

At(r, pc) == req[r].pc = pc
Active(r) == req[r].pc \notin {"idle", "ended"}
File(r)   == Head(req[r].files)
Goto(r, pc) == req' = [req EXCEPT ![r].pc = pc] /\ UNCHANGED <<age, got>>

Begin(r, op, pc, s, n, status) ==
    /\ At(r, "idle")
    /\ req' = [req EXCEPT ![r] = [op |-> op, pc |-> pc, files |-> s, n |-> n, status |-> status]]
    /\ UNCHANGED <<files, cache, out, age, got>>

\* Refused or answered: nothing of the request stays.
Ends(r) ==
    /\ req' = [req EXCEPT ![r] = Rest("ended")]
    /\ age' = [age EXCEPT ![r] = 0]
    /\ got' = [got EXCEPT ![r] = Nothing]

Init ==
    /\ doc = [f \in Files |-> IF f \notin Stored THEN "unborn"
                               ELSE IF f \in Copies THEN "complete" ELSE "confirmed"]
    /\ late = {} /\ struck = {}
    /\ object = Stored /\ listed = Stored
    /\ meta = [f \in Files |-> 0] /\ seen = [f \in Files |-> "none"]
    /\ address = [f \in Files |-> [k \in Kinds |-> None]]
    /\ out = [f \in Files |-> 0]
    /\ req = [r \in Requests |-> Rest("idle")]
    /\ age = [r \in Requests |-> 0]
    /\ got = [r \in Requests |-> Nothing]

-----------------------------------------------------------------------------
(* Metadata.  getFileById goes through the cache.  A cached expiresAt is a *)
(* text, and no comparison of a text with a date is true: previews, which  *)
(* look at it again, see no cached file as expired.                        *)
Exists(f) == doc[f] \in {"partial", "confirmed", "complete"}
SlipInService(f) == Exists(f)
InService(f) == Exists(f) /\ f \notin late

BeginDownload(r, s) == Begin(r, "download", "look", s, 0, "none") /\ UNCHANGED struck
\* A token names one file; one that is not valid is as if not sent.
BeginByToken(r, f)   == Begin(r, "download", "look", <<f>>, 0, "none") /\ UNCHANGED struck
BeginPreview(r, f)   == Begin(r, "preview", "look", <<f>>, 0, "none") /\ UNCHANGED struck
BeginThumbnail(r, f) == Begin(r, "thumbnail", "look", <<f>>, 0, "none") /\ UNCHANGED struck
BeginStream(r, f)    == Begin(r, "stream", "look", <<f>>, 0, "none") /\ UNCHANGED struck
BeginShow(r, f)      == Begin(r, "show", "look", <<f>>, 0, "none") /\ UNCHANGED struck

\* c: the record of a request.
Kind(c) ==
    CASE c.op = "download" -> "download"
      [] c.op = "preview" /\ Mime[Head(c.files)] = "image" -> "image"
      [] c.op \in {"preview", "stream"} /\ Mime[Head(c.files)] = "video" -> "stream"
      [] c.op = "thumbnail" /\ Mime[Head(c.files)] = "video" -> "thumbnail"
      [] OTHER -> "none"

\* A download asks for no status; a preview is refused before the upload is complete.
Verified(r, status) ==
    IF req[r].op = "download" THEN Goto(r, "count")
    ELSE IF Kind(req[r]) # "none" /\ status = "complete" THEN Goto(r, "find")
    ELSE Ends(r)

Look(r) ==
    /\ At(r, "look")
    /\ IF meta[File(r)] > 0 THEN Verified(r, seen[File(r)]) ELSE Goto(r, "read")
    /\ UNCHANGED <<files, cache, out, struck>>

\* A file that is refused, and a read that fails, is an error to cacheWrapper,
\* which calls again and does not cache the outcome; a listing has no wrapper.
ReadDoc(r) ==
    /\ At(r, "read")
    /\ \/ /\ InService(File(r))
          /\ req' = [req EXCEPT ![r].pc = "cache", ![r].status = doc[File(r)]]
          /\ UNCHANGED <<age, got>>
       \/ IF req[r].op = "show" THEN Ends(r) ELSE Goto(r, "reread")
    /\ UNCHANGED <<files, cache, out, struck>>

ReadAgain(r) ==
    /\ At(r, "reread")
    /\ (InService(File(r)) /\ Verified(r, doc[File(r)])) \/ Ends(r)
    /\ UNCHANGED <<files, cache, out, struck>>

CacheMeta(r) ==
    /\ At(r, "cache")
    /\ meta' = [meta EXCEPT ![File(r)] = MetaKept]
    /\ seen' = [seen EXCEPT ![File(r)] = req[r].status]
    /\ Verified(r, req[r].status)
    /\ UNCHANGED <<files, address, out, struck>>

\* The count is raised, and metadata that tells the old one leaves the cache.
Count(r) ==
    /\ At(r, "count")
    /\ meta' = [meta EXCEPT ![File(r)] = 0]
    /\ seen' = [seen EXCEPT ![File(r)] = "none"]
    /\ Goto(r, "find")
    /\ UNCHANGED <<files, address, out, struck>>

-----------------------------------------------------------------------------
(* Addresses.                                                              *)
Put(g, f, left) == [x \in DOMAIN g \cup {f} |-> IF x = f THEN left ELSE g[x]]

\* The next file of the request, or the answer.
NextFile(r) ==
    req' = [req EXCEPT ![r].files = Tail(@), ![r].status = "none",
                       ![r].pc = IF Len(req[r].files) > 1 THEN "look" ELSE "answer"]

FindAddress(r) ==
    /\ At(r, "find")
    /\ LET cached == address[File(r)][Kind(req[r])]
       IN  IF cached.keep > 0
           THEN /\ got' = [got EXCEPT ![r] = Put(@, File(r), cached.left)]
                /\ NextFile(r) /\ UNCHANGED age
           ELSE Goto(r, "sign")
    /\ UNCHANGED <<files, cache, out, struck>>

\* The stream of a video asks S3 for its size first, and again if that fails.
Signable(r) == Kind(req[r]) = "stream" => File(r) \in object
Signed(r) == got' = [got EXCEPT ![r] = Put(@, File(r), SignedFor[Kind(req[r])])]

Sign(r) ==
    /\ At(r, "sign")
    /\ \/ Signable(r) /\ Signed(r) /\ req' = [req EXCEPT ![r].pc = "keep"] /\ UNCHANGED age
       \/ Kind(req[r]) = "stream" /\ Goto(r, "resign")
    /\ UNCHANGED <<files, cache, out, struck>>

SignAgain(r) ==
    /\ At(r, "resign")
    /\ (Signable(r) /\ Signed(r) /\ NextFile(r) /\ UNCHANGED age) \/ Ends(r)
    /\ UNCHANGED <<files, cache, out, struck>>

SlipKeepAddress(r) ==
    /\ At(r, "keep")
    /\ address' = [address EXCEPT ![File(r)][Kind(req[r])] =
                      [keep |-> SignedFor[Kind(req[r])], left |-> got[r][File(r)]]]
    /\ NextFile(r)
    /\ UNCHANGED <<files, meta, seen, out, struck, age, got>>
KeepAddress(r) ==
    /\ At(r, "keep")
    /\ address' = [address EXCEPT ![File(r)][Kind(req[r])] =
                      [keep |-> KeptFor[Kind(req[r])], left |-> got[r][File(r)]]]
    /\ NextFile(r)
    /\ UNCHANGED <<files, meta, seen, out, struck, age, got>>

Answer(r) == At(r, "answer") /\ Ends(r) /\ UNCHANGED <<files, cache, out, struck>>

-----------------------------------------------------------------------------
(* Time.  A file expires when its time comes or when file.delete says so.  *)
Expire(f) ==
    /\ InService(f)
    /\ late' = late \cup {f}
    /\ UNCHANGED <<doc, object, listed, cache, out, struck, work>>

Less(n) == IF n > 0 THEN n - 1 ELSE 0

Tick ==
    /\ \A r \in Requests : req[r].op \in Links \cup {"show"} => age[r] < Patience
    /\ age' = [r \in Requests |-> IF req[r].op \in Links \cup {"show"} THEN age[r] + 1 ELSE age[r]]
    /\ got' = [r \in Requests |-> [f \in DOMAIN got[r] |-> got[r][f] - 1]]
    /\ meta' = [f \in Files |-> Less(meta[f])]
    /\ seen' = [f \in Files |-> IF meta[f] > 1 THEN seen[f] ELSE "none"]
    /\ address' = [f \in Files |-> [k \in Kinds |->
                      IF address[f][k].keep > 1
                      THEN [keep |-> address[f][k].keep - 1, left |-> address[f][k].left - 1]
                      ELSE None]]
    /\ out' = [f \in Files |-> IF (doc[f] = "gone" \/ f \in late) /\ out[f] < Longest
                               THEN out[f] + 1 ELSE out[f]]
    /\ UNCHANGED <<files, struck, req>>

-----------------------------------------------------------------------------
(* Removal: the room's list, the object, the cached metadata and download  *)
(* address, and at last the document.  Of the room's list (n = 1; without  *)
(* a room all lists are searched) and of S3 failures are only logged.      *)
BeginRemove(r, f, n) ==
    /\ Exists(f)
    /\ Begin(r, "remove", "unlist", <<f>>, n, "none")
    /\ struck' = struck \cup {f}

Unlist(r) ==
    /\ At(r, "unlist")
    /\ listed' = listed \ {File(r)}
    /\ Goto(r, "erase")
    /\ UNCHANGED <<doc, late, object, cache, out, struck>>

UnlistFails(r) ==
    /\ At(r, "unlist")
    /\ IF req[r].n = 1 THEN Goto(r, "erase") ELSE Ends(r)
    /\ UNCHANGED <<files, cache, out, struck>>

Erase(r) ==
    /\ At(r, "erase")
    /\ object' \in {object, object \ {File(r)}}
    /\ Goto(r, "uncache")
    /\ UNCHANGED <<doc, late, listed, cache, out, struck>>

Uncache(r) ==
    /\ At(r, "uncache")
    /\ meta' = [meta EXCEPT ![File(r)] = 0]
    /\ seen' = [seen EXCEPT ![File(r)] = "none"]
    /\ Goto(r, "unlink")
    /\ UNCHANGED <<files, address, out, struck>>

Unlink(r) ==
    /\ At(r, "unlink")
    /\ address' = [address EXCEPT ![File(r)]["download"] = None]
    /\ Goto(r, "drop")
    /\ UNCHANGED <<files, meta, seen, out, struck>>

Drop(r) ==
    /\ At(r, "drop")
    /\ doc' = [doc EXCEPT ![File(r)] = "gone"]
    /\ Ends(r)
    /\ UNCHANGED <<late, object, listed, cache, out, struck>>

-----------------------------------------------------------------------------
(* Uploads.  When one is confirmed its object is there; the document and   *)
(* the room or the item follow, and nothing ever makes it complete.  What  *)
(* S3 and the client do with parts of multipart ones is left out.          *)
BeginConfirm(r, g) ==
    /\ At(r, "idle") /\ doc[g] = "unborn" /\ g \notin object
    /\ object' = object \cup {g}
    /\ req' = [req EXCEPT ![r] = [op |-> "confirm", pc |-> "create", files |-> <<g>>,
                                  n |-> 1, status |-> "none"]]
    /\ UNCHANGED <<doc, late, listed, cache, out, struck, age, got>>

InitMultipart(f) ==
    /\ doc[f] = "unborn" /\ f \notin object
    /\ doc' = [doc EXCEPT ![f] = "partial"]
    /\ UNCHANGED <<late, object, listed, cache, out, struck, work>>

FoundByUploadId(f) == InService(f) /\ doc[f] = "complete"

CompleteMultipart(f) ==
    /\ doc[f] = "partial"
    /\ IF FoundByUploadId(f)
       THEN /\ object' = object \cup {f} /\ listed' = listed \cup {f}
            /\ doc' = [doc EXCEPT ![f] = "complete"]
       ELSE UNCHANGED <<doc, object, listed>>
    /\ UNCHANGED <<late, cache, out, struck, work>>

\* The endpoints: who may write to the room begins an upload, anyone ends it.
Multipart(f) == InitMultipart(f) \/ CompleteMultipart(f)

-----------------------------------------------------------------------------
(* Conversions.  The document, the room or the item, and the object of the *)
(* source are read, its contents converted, and every artifact stored by   *)
(* three writes; one that fails ends the request and undoes nothing.       *)
BeginConvert(r, f) ==
    /\ Exists(f)
    /\ Begin(r, "convert", "target", <<f>>, 0, IF f \in late THEN "late" ELSE "none")
    /\ UNCHANGED struck

ResolveTarget(r) ==
    /\ At(r, "target")
    /\ IF File(r) \in listed THEN Goto(r, "load") ELSE Ends(r)
    /\ UNCHANGED <<files, cache, out, struck>>

LoadSource(r) ==
    /\ At(r, "load")
    /\ IF File(r) \in object THEN Goto(r, "convert") ELSE Ends(r)
    /\ UNCHANGED <<files, cache, out, struck>>

Produce(r, n) ==
    /\ At(r, "convert")
    /\ req' = [req EXCEPT ![r].pc = "upload", ![r].n = n, ![r].files = <<>>]
    /\ UNCHANGED <<files, cache, out, struck, age, got>>

\* A text becomes one text, a document one PDF, a PDF a picture for each page.
ConvertText(r)   == Produce(r, 1)
ConvertOffice(r) == Produce(r, 1)
ConvertPages(r)  == \E n \in Pages : Produce(r, n)

\* The contents are not what was said, or the program is missing or fails.
Inconvertible(r) ==
    /\ At(r, "convert")
    /\ Ends(r)
    /\ UNCHANGED <<files, cache, out, struck>>

SlipUpload(r, g) ==
    /\ At(r, "upload")
    /\ doc[g] = "unborn" /\ g \notin object
    /\ object' \in {object, object \cup {g}}
    /\ req' = [req EXCEPT ![r].pc = "create", ![r].files = <<g>>]
    /\ UNCHANGED <<doc, late, listed, cache, out, struck, age, got>>
Upload(r, g) ==
    /\ At(r, "upload")
    /\ doc[g] = "unborn" /\ g \notin object
    /\ object' = object \cup {g}
    /\ req' = [req EXCEPT ![r].pc = "create", ![r].files = <<g>>]
    /\ UNCHANGED <<doc, late, listed, cache, out, struck, age, got>>

\* A conversion says that its artifact is complete, and has it expire when its
\* source does; of an upload the status is the one of the schema: in progress.
Created(op) == IF op = "confirm" THEN "confirmed" ELSE "complete"

Create(r) ==
    /\ At(r, "create")
    /\ doc' = [doc EXCEPT ![File(r)] = Created(req[r].op)]
    /\ late' = IF req[r].status = "late" THEN late \cup {File(r)} ELSE late
    /\ Goto(r, "list")
    /\ UNCHANGED <<object, listed, cache, out, struck>>

List(r) ==
    /\ At(r, "list")
    /\ listed' = listed \cup {File(r)}
    /\ IF req[r].n = 1 THEN Ends(r)
       ELSE /\ req' = [req EXCEPT ![r].pc = "upload", ![r].n = @ - 1, ![r].files = <<>>]
            /\ UNCHANGED <<age, got>>
    /\ UNCHANGED <<doc, late, object, cache, out, struck>>

ConvertFails(r) ==
    /\ req[r].pc \in {"upload", "create", "list"}
    /\ Ends(r)
    /\ UNCHANGED <<files, cache, out, struck>>

-----------------------------------------------------------------------------
Start(r) ==
    /\ Cardinality({q \in Requests : Active(q)}) < MaxActive
    /\ \/ \E s \in Batches : BeginDownload(r, s)
       \/ \E f \in Asked : BeginByToken(r, f) \/ BeginPreview(r, f) \/ BeginThumbnail(r, f)
                          \/ BeginStream(r, f) \/ BeginShow(r, f)
       \/ \E f \in Files : \/ BeginConvert(r, f) \/ BeginConfirm(r, f)
                          \/ \E n \in {0, 1} : BeginRemove(r, f, n)

Link(r) ==
    \/ Look(r) \/ ReadDoc(r) \/ ReadAgain(r) \/ CacheMeta(r) \/ Count(r)
    \/ FindAddress(r) \/ Sign(r) \/ SignAgain(r) \/ KeepAddress(r) \/ Answer(r)

Removal(r) == Unlist(r) \/ UnlistFails(r) \/ Erase(r) \/ Uncache(r) \/ Unlink(r) \/ Drop(r)

Conversion(r) ==
    \/ ResolveTarget(r) \/ LoadSource(r)
    \/ ConvertText(r) \/ ConvertOffice(r) \/ ConvertPages(r) \/ Inconvertible(r)
    \/ (\E g \in Files : Upload(r, g)) \/ Create(r) \/ List(r) \/ ConvertFails(r)

Next ==
    \/ \E r \in Requests : Start(r) \/ Link(r) \/ Removal(r) \/ Conversion(r)
    \/ \E f \in Files : Multipart(f)
    \/ \E f \in Expiring : Expire(f)
    \/ Tick

Spec == Init /\ [][Next]_vars

-----------------------------------------------------------------------------
(* An address that a request has, signed by it or found in the cache,      *)
(* still works, however late in its life the cache gave it: addresses stay *)
(* cached for less than they work.                                         *)
AddressesWork == \A r \in Requests : \A f \in DOMAIN got[r] : got[r][f] > 0

(* What is answered was in service not long ago: a file that expired or    *)
(* was removed is refused once its metadata has left the cache, although   *)
(* neither expiry nor deletion stops requests under way from caching it.   *)
GoneIsRefused ==
    \A r \in Requests : At(r, "answer") =>
        \A f \in DOMAIN got[r] : out[f] < MetaKept + 2 * Patience

(* What a room or storage lists has its object and its document, of a file *)
(* that is complete or an upload that is done (its status stays in         *)
(* progress) and never of one whose parts are still to come, wherever      *)
(* confirms and conversions stopped, unless its removal has begun.         *)
ListedIsWhole ==
    \A f \in listed \ struck : doc[f] \in {"confirmed", "complete"} /\ f \in object
=============================================================================
