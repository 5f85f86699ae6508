-------------------------- MODULE Delivery_proofs ---------------------------
(***************************************************************************)
(* That every address a request has still works, that what is listed is    *)
(* whole and that what is gone is soon refused, for all files, lives and   *)
(* numbers of requests.                                                    *)
(***************************************************************************)
EXTENDS Delivery, SequenceTheorems, TLAPS

Ops == Links \cup {"none", "show", "remove", "convert", "confirm"}
Pcs == {"idle", "ended", "look", "read", "reread", "cache", "count", "find", "sign", "resign",
        "keep", "answer",
        "unlist", "erase", "uncache", "unlink", "drop",
        "target", "load", "convert", "upload", "create", "list"}
Statuses == {"none", "late", "unborn", "partial", "confirmed", "complete", "gone"}
Calls == [op : Ops, pc : Pcs, files : Seq(Files), n : Int, status : Statuses]

(* What holds of one request: c what it does, a its age, g its addresses.  *)
(* They last longer than it may still take; one it has signed and is to    *)
(* put into the cache has lost its age and no more.                        *)
RequestOK(c, a, g) ==
    /\ c \in Calls
    /\ a \in Nat /\ a <= Patience
    /\ DOMAIN g \subseteq Files
    /\ \A f \in DOMAIN g : g[f] \in Int /\ g[f] + a > Patience
    /\ c.op \notin Links => DOMAIN g = {}
    /\ c.pc = "idle" => c.op = "none"
    /\ c.pc \in {"look", "read", "reread", "cache", "count", "find", "sign", "resign", "keep"} =>
         c.files # <<>>
    /\ c.pc = "count" => c.op = "download"
    /\ c.pc \in {"find", "sign", "resign", "keep"} => c.op \in Links /\ Kind(c) \in Kinds
    /\ c.pc = "keep" => /\ Head(c.files) \in DOMAIN g
                        /\ g[Head(c.files)] + a >= SignedFor[Kind(c)]

RequestsOK ==
    /\ DOMAIN req = Requests /\ DOMAIN age = Requests /\ DOMAIN got = Requests
    /\ \A r \in Requests : RequestOK(req[r], age[r], got[r])

(* An address in the cache works longer than its entry and a request last. *)
CacheOK ==
    /\ address \in [Files -> [Kinds -> [keep : Nat, left : Int]]]
    /\ \A f \in Files : \A k \in Kinds :
         address[f][k].keep > 0 => address[f][k].left > address[f][k].keep + Patience

StatusOK == doc \in [Files -> Statuses] /\ seen \in [Files -> Statuses]

IInv == RequestsOK /\ CacheOK /\ StatusOK

-----------------------------------------------------------------------------
(* A step of request r leaves the others alone: it is enough to look at r. *)
Moves(r) ==
    /\ DOMAIN req' = Requests /\ DOMAIN age' = Requests /\ DOMAIN got' = Requests
    /\ \A q \in Requests \ {r} : req'[q] = req[q] /\ age'[q] = age[q] /\ got'[q] = got[q]

LEMMA OneMoves ==
    ASSUME RequestsOK, NEW r \in Requests, Moves(r), RequestOK(req'[r], age'[r], got'[r])
    PROVE  RequestsOK'
<1> SUFFICES ASSUME NEW q \in Requests PROVE RequestOK(req'[q], age'[q], got'[q])
  BY DEF RequestsOK, Moves
<1> CASE q = r
  OBVIOUS
<1> CASE q # r
  BY DEF RequestsOK, Moves
<1> QED
  OBVIOUS

LEMMA GotoOK ==
    ASSUME RequestsOK, NEW r \in Requests, NEW pc \in Pcs, Goto(r, pc),
           pc \notin {"idle", "keep"},
           pc \in {"look", "read", "reread", "cache", "count", "find", "sign", "resign"} =>
              req[r].files # <<>>,
           pc = "count" => req[r].op = "download",
           pc \in {"find", "sign", "resign"} => req[r].op \in Links /\ Kind(req[r]) \in Kinds
    PROVE  RequestsOK'
<1>1. RequestOK(req[r], age[r], got[r])
  BY DEF RequestsOK
<1>2. Moves(r) /\ age' = age /\ got' = got /\ req'[r] = [req[r] EXCEPT !.pc = pc]
  BY DEF Goto, Moves, RequestsOK
<1>3. req'[r] \in Calls /\ req'[r].op = req[r].op /\ req'[r].pc = pc /\ req'[r].files = req[r].files
  BY <1>1, <1>2 DEF RequestOK, Calls
<1>4. Kind(req'[r]) = Kind(req[r])
  BY <1>3 DEF Kind
<1>5. RequestOK(req'[r], age'[r], got'[r])
  BY <1>1, <1>2, <1>3, <1>4 DEF RequestOK
<1> QED
  BY <1>2, <1>5, OneMoves

LEMMA EndsOK ==
    ASSUME RequestsOK, NEW r \in Requests, Ends(r)
    PROVE  RequestsOK'
<1>1. Moves(r) /\ req'[r] = Rest("ended") /\ age'[r] = 0 /\ got'[r] = Nothing
  BY DEF Ends, Moves, RequestsOK
<1>2. DOMAIN Nothing = {}
  BY DEF Nothing
<1>3. Rest("ended") \in Calls
  <2>1. <<>> \in Seq(Files)
    BY EmptySeq
  <2> QED
    BY <2>1 DEF Rest, Calls, Ops, Pcs, Statuses
<1>4. RequestOK(Rest("ended"), 0, Nothing)
  <2>1. Rest("ended").op = "none" /\ Rest("ended").pc = "ended"
    BY DEF Rest
  <2> QED
    BY <1>2, <1>3, <2>1, DeliveryAssumption DEF RequestOK
<1> QED
  BY <1>1, <1>4, OneMoves

LEMMA BeginOK ==
    ASSUME RequestsOK, NEW r \in Requests, NEW op \in Ops, NEW pc \in Pcs,
           NEW s \in Seq(Files), NEW n \in Int, NEW status \in Statuses,
           Begin(r, op, pc, s, n, status), s # <<>>, pc \in {"look", "unlist", "target"}
    PROVE  RequestsOK'
<1> DEFINE c == [op |-> op, pc |-> pc, files |-> s, n |-> n, status |-> status]
<1>1. RequestOK(req[r], age[r], got[r]) /\ req[r].pc = "idle"
  BY DEF RequestsOK, Begin, At
<1>2. Moves(r) /\ age' = age /\ got' = got /\ req'[r] = c
  BY DEF Begin, Moves, RequestsOK
<1>3. DOMAIN got[r] = {}
  BY <1>1 DEF RequestOK, Links
<1>4. c \in Calls /\ c.pc = pc /\ c.files = s
  BY DEF Calls
<1> HIDE DEF c
<1>5. RequestOK(c, age[r], got[r])
  BY <1>1, <1>3, <1>4 DEF RequestOK
<1> QED
  BY <1>2, <1>5, OneMoves

(* The other ways a request goes on: within its conversion, and to the     *)
(* next file it asks for.                                                  *)
LEMMA PlainOK ==
    ASSUME RequestsOK, NEW r \in Requests, Moves(r), age'[r] = age[r], got'[r] = got[r],
           req'[r] \in Calls, req'[r].op = req[r].op, req'[r].pc \in {"upload", "create"}
    PROVE  RequestsOK'
<1>1. RequestOK(req[r], age[r], got[r])
  BY DEF RequestsOK
<1>2. RequestOK(req'[r], age'[r], got'[r])
  BY <1>1 DEF RequestOK
<1> QED
  BY <1>2, OneMoves

LEMMA NextFileOK ==
    ASSUME RequestsOK, NEW r \in Requests, NextFile(r), UNCHANGED age,
           DOMAIN got' = Requests, \A q \in Requests \ {r} : got'[q] = got[q],
           req[r].files # <<>>, req[r].op \in Links,
           DOMAIN got'[r] \subseteq Files,
           \A f \in DOMAIN got'[r] : got'[r][f] \in Int /\ got'[r][f] + age[r] > Patience
    PROVE  RequestsOK'
<1>1. RequestOK(req[r], age[r], got[r])
  BY DEF RequestsOK
<1> DEFINE pc == IF Len(req[r].files) > 1 THEN "look" ELSE "answer"
<1>2. Moves(r) /\ age'[r] = age[r]
      /\ req'[r] = [req[r] EXCEPT !.files = Tail(@), !.status = "none", !.pc = pc]
  BY DEF NextFile, Moves, RequestsOK
<1>3. Tail(req[r].files) \in Seq(Files) /\ (pc = "look" => Tail(req[r].files) # <<>>)
  <2>1. req[r].files \in Seq(Files)
    BY <1>1 DEF RequestOK, Calls
  <2>2. Tail(req[r].files) \in Seq(Files) /\ Len(Tail(req[r].files)) = Len(req[r].files) - 1
    BY <2>1, HeadTailProperties
  <2>3. Len(req[r].files) > 1 => Len(Tail(req[r].files)) > 0
    BY <2>1, <2>2, LenProperties
  <2>4. pc = "look" => Len(req[r].files) > 1
    OBVIOUS
  <2>5. Len(Tail(req[r].files)) > 0 => Tail(req[r].files) # <<>>
    BY EmptySeq
  <2> HIDE DEF pc
  <2> QED
    BY <2>2, <2>3, <2>4, <2>5
<1>4. pc \in {"look", "answer"} /\ "look" \in Pcs /\ "answer" \in Pcs /\ "none" \in Statuses
  BY DEF Pcs, Statuses
<1> HIDE DEF pc
<1>5. req[r] \in Calls
  BY <1>1 DEF RequestOK
<1>6. /\ req'[r] \in Calls /\ req'[r].op = req[r].op /\ req'[r].pc = pc
      /\ req'[r].files = Tail(req[r].files)
  BY <1>2, <1>3, <1>4, <1>5 DEF Calls
<1>7. RequestOK(req'[r], age'[r], got'[r])
  BY <1>1, <1>2, <1>3, <1>4, <1>6 DEF RequestOK
<1> QED
  BY <1>2, <1>7, OneMoves

LEMMA KindIsKind ==
    \A c : (Kind(c) = "none" \/ Kind(c) \in Kinds) /\ (Kind(c) # "none" => c.op \in Links)
BY DEF Kind, Kinds, Links

LEMMA VerifiedOK ==
    ASSUME RequestsOK, NEW r \in Requests, NEW status, Verified(r, status), req[r].files # <<>>
    PROVE  RequestsOK'
<1>1. CASE req[r].op = "download"
  <2>1. Goto(r, "count") /\ "count" \in Pcs
    BY <1>1 DEF Verified, Pcs
  <2> QED
    BY <1>1, <2>1, GotoOK
<1>2. CASE req[r].op # "download" /\ Kind(req[r]) # "none" /\ status = "complete"
  <2>1. Goto(r, "find") /\ Kind(req[r]) \in Kinds /\ req[r].op \in Links /\ "find" \in Pcs
    BY <1>2, KindIsKind DEF Verified, Pcs
  <2> QED
    BY <2>1, GotoOK
<1>3. CASE req[r].op # "download" /\ ~(Kind(req[r]) # "none" /\ status = "complete")
  BY <1>3, EndsOK DEF Verified
<1> QED
  BY <1>1, <1>2, <1>3

-----------------------------------------------------------------------------
(* The file a request asks for.                                            *)
LEMMA FileIsFile ==
    ASSUME RequestsOK, NEW r \in Requests, req[r].files # <<>>
    PROVE  File(r) \in Files
<1>1. req[r].files \in Seq(Files)
  BY DEF RequestsOK, RequestOK, Calls
<1> QED
  BY <1>1, HeadTailProperties DEF File

(* A confirm begins like any request, but for the object that it finds.    *)
LEMMA ConfirmMoves ==
    ASSUME RequestsOK, NEW r \in Requests, NEW g \in Files, BeginConfirm(r, g)
    PROVE  /\ Moves(r) /\ age' = age /\ got' = got /\ DOMAIN got[r] = {}
           /\ req'[r] \in Calls /\ req'[r].op = "confirm" /\ req'[r].pc = "create"
           /\ req'[r].files = <<g>> /\ <<g>> # <<>> /\ Head(<<g>>) = g
           /\ UNCHANGED <<doc, late, listed, meta, seen, address, out, struck>>
<1> DEFINE c == [op |-> "confirm", pc |-> "create", files |-> <<g>>, n |-> 1, status |-> "none"]
<1>1. Moves(r) /\ age' = age /\ got' = got /\ req'[r] = c
  BY DEF BeginConfirm, Moves, RequestsOK
<1>2. DOMAIN got[r] = {}
  <2>1. RequestOK(req[r], age[r], got[r]) /\ req[r].pc = "idle"
    BY DEF RequestsOK, BeginConfirm, At
  <2> QED
    BY <2>1 DEF RequestOK, Links
<1>3. c \in Calls
  <2>1. "confirm" \in Ops /\ "create" \in Pcs /\ "none" \in Statuses
    BY DEF Ops, Pcs, Statuses
  <2>2. <<g>> \in Seq(Files)
    OBVIOUS
  <2> QED
    BY <2>1, <2>2 DEF Calls
<1>4. UNCHANGED <<doc, late, listed, meta, seen, address, out, struck>>
  BY DEF BeginConfirm, cache
<1> QED
  BY <1>1, <1>2, <1>3, <1>4

LEMMA ConfirmOK ==
    ASSUME IInv, NEW r \in Requests, NEW g \in Files, BeginConfirm(r, g)
    PROVE  IInv'
<1>1. RequestsOK /\ CacheOK /\ StatusOK
  BY DEF IInv
<1>2. /\ Moves(r) /\ age' = age /\ got' = got /\ DOMAIN got[r] = {}
      /\ req'[r] \in Calls /\ req'[r].pc = "create"
      /\ UNCHANGED <<doc, seen, address>>
  BY <1>1, ConfirmMoves
<1>3. RequestOK(req[r], age[r], got[r])
  BY <1>1 DEF RequestsOK
<1>4. RequestOK(req'[r], age'[r], got'[r])
  BY <1>2, <1>3 DEF RequestOK
<1>5. CacheOK' /\ StatusOK'
  BY <1>1, <1>2 DEF CacheOK, StatusOK
<1> QED
  BY <1>1, <1>2, <1>4, <1>5, OneMoves DEF IInv

LEMMA StartOK ==
    ASSUME IInv, NEW r \in Requests, Start(r)
    PROVE  IInv'
<1>0. RequestsOK /\ CacheOK /\ StatusOK
  BY DEF IInv
<1>1. \A f \in Files : <<f>> \in Seq(Files) /\ <<f>> # <<>>
  OBVIOUS
<1>2. \A s \in Batches : s \in Seq(Files) /\ s # <<>>
  BY DeliveryAssumption
<1>3. Asked \subseteq Files
  BY DeliveryAssumption
<1>4. /\ {"download", "preview", "thumbnail", "stream", "show", "remove", "convert"} \subseteq Ops
      /\ {"look", "unlist", "target"} \subseteq Pcs
      /\ {"none", "late"} \subseteq Statuses
  BY DEF Ops, Pcs, Statuses, Links
<1>5. ASSUME NEW op, NEW pc, NEW s, NEW n, NEW status, Begin(r, op, pc, s, n, status),
             op \in Ops, pc \in Pcs, s \in Seq(Files), n \in Int, status \in Statuses,
             s # <<>>, pc \in {"look", "unlist", "target"}
      PROVE  IInv'
  <2>1. RequestsOK'
    BY <1>0, <1>5, BeginOK
  <2>2. CacheOK' /\ StatusOK'
    BY <1>0, <1>5 DEF Begin, CacheOK, StatusOK, files, cache
  <2> QED
    BY <2>1, <2>2 DEF IInv
<1>6. ASSUME NEW s \in Batches, BeginDownload(r, s) PROVE IInv'
  <2>1. Begin(r, "download", "look", s, 0, "none")
    BY <1>6 DEF BeginDownload
  <2>2. "download" \in Ops /\ "look" \in Pcs /\ "none" \in Statuses
    BY <1>4
  <2> QED
    BY <1>2, <1>5, <2>1, <2>2
<1>7. ASSUME NEW f \in Asked, BeginByToken(r, f) \/ BeginPreview(r, f) \/ BeginThumbnail(r, f)
                              \/ BeginStream(r, f) \/ BeginShow(r, f)
      PROVE IInv'
  <2>1. \E op \in {"download", "preview", "thumbnail", "stream", "show"} :
          Begin(r, op, "look", <<f>>, 0, "none")
    BY <1>7 DEF BeginByToken, BeginPreview, BeginThumbnail, BeginStream, BeginShow
  <2>2. ASSUME NEW op \in {"download", "preview", "thumbnail", "stream", "show"},
               Begin(r, op, "look", <<f>>, 0, "none")
        PROVE  IInv'
    <3>1. op \in Ops /\ "look" \in Pcs /\ "none" \in Statuses
      BY <1>4
    <3>2. <<f>> \in Seq(Files) /\ <<f>> # <<>>
      BY <1>1, <1>3
    <3>3. 0 \in Int /\ "look" \in {"look", "unlist", "target"}
      OBVIOUS
    <3> QED
      BY <1>5, <2>2, <3>1, <3>2, <3>3, Zenon
  <2> QED
    BY <2>1, <2>2
<1>8. ASSUME NEW f \in Files, BeginConvert(r, f) PROVE IInv'
  <2>1. PICK status \in {"late", "none"} : Begin(r, "convert", "target", <<f>>, 0, status)
    BY <1>8 DEF BeginConvert
  <2>2. "convert" \in Ops /\ "target" \in Pcs /\ status \in Statuses
    BY <1>4
  <2> QED
    BY <1>1, <1>5, <2>1, <2>2
<1>9. ASSUME NEW f \in Files, NEW n \in {0, 1}, BeginRemove(r, f, n) PROVE IInv'
  <2>1. Begin(r, "remove", "unlist", <<f>>, n, "none")
    BY <1>9 DEF BeginRemove
  <2>2. "remove" \in Ops /\ "unlist" \in Pcs /\ "none" \in Statuses /\ n \in Int
    BY <1>4
  <2> QED
    BY <1>1, <1>5, <2>1, <2>2
<1> QED
  BY <1>6, <1>7, <1>8, <1>9, ConfirmOK DEF Start

(* The part of the invariant that most steps leave alone.                  *)
LEMMA SameStores ==
    ASSUME IInv, UNCHANGED <<doc, seen, address>>
    PROVE  CacheOK' /\ StatusOK'
BY DEF IInv, CacheOK, StatusOK

LEMMA CallOK ==
    ASSUME RequestsOK, NEW r \in Requests
    PROVE  RequestOK(req[r], age[r], got[r]) /\ req[r] \in Calls /\ req[r].status \in Statuses
BY DEF RequestsOK, RequestOK, Calls

LEMMA LookOK ==
    ASSUME IInv, NEW r \in Requests, Look(r)
    PROVE  IInv'
<1>1. RequestsOK
  BY DEF IInv
<1>2. req[r].files # <<>>
  BY <1>1, CallOK DEF Look, At, RequestOK
<1>3. ASSUME Verified(r, seen[File(r)]) PROVE RequestsOK'
  BY <1>1, <1>2, <1>3, VerifiedOK
<1>4. ASSUME Goto(r, "read") PROVE RequestsOK'
  <2>1. "read" \in Pcs
    BY DEF Pcs
  <2> QED
    BY <1>1, <1>2, <1>4, <2>1, GotoOK
<1>5. RequestsOK'
  BY <1>3, <1>4 DEF Look
<1>6. UNCHANGED <<doc, seen, address>>
  BY DEF Look, files, cache
<1> QED
  BY <1>5, <1>6, SameStores DEF IInv

LEMMA ReadDocOK ==
    ASSUME IInv, NEW r \in Requests, ReadDoc(r)
    PROVE  IInv'
<1>1. RequestsOK /\ StatusOK
  BY DEF IInv
<1>2. RequestOK(req[r], age[r], got[r]) /\ req[r] \in Calls /\ req[r].files # <<>>
  BY <1>1, CallOK DEF ReadDoc, At, RequestOK
<1>3. doc[File(r)] \in Statuses
  BY <1>1, <1>2, FileIsFile DEF StatusOK
<1>4. ASSUME req' = [req EXCEPT ![r].pc = "cache", ![r].status = doc[File(r)]],
             UNCHANGED <<age, got>>
      PROVE  RequestsOK'
  <2>1. /\ Moves(r) /\ age'[r] = age[r] /\ got'[r] = got[r]
        /\ req'[r] = [req[r] EXCEPT !.pc = "cache", !.status = doc[File(r)]]
    BY <1>1, <1>4 DEF Moves, RequestsOK
  <2>2. "cache" \in Pcs
    BY DEF Pcs
  <2>3. /\ req'[r] \in Calls /\ req'[r].op = req[r].op /\ req'[r].pc = "cache"
        /\ req'[r].files = req[r].files
    BY <1>2, <1>3, <2>1, <2>2 DEF Calls
  <2>4. RequestOK(req'[r], age'[r], got'[r])
    BY <1>2, <2>1, <2>3 DEF RequestOK
  <2> QED
    BY <1>1, <2>1, <2>4, OneMoves
<1>5. ASSUME Goto(r, "reread") PROVE RequestsOK'
  <2>1. "reread" \in Pcs
    BY DEF Pcs
  <2> QED
    BY <1>1, <1>2, <1>5, <2>1, GotoOK
<1>6. UNCHANGED <<doc, seen, address>>
  BY DEF ReadDoc, files, cache
<1>7. RequestsOK'
  BY <1>1, <1>4, <1>5, EndsOK DEF ReadDoc
<1> QED
  BY <1>6, <1>7, SameStores DEF IInv

LEMMA ReadAgainOK ==
    ASSUME IInv, NEW r \in Requests, ReadAgain(r)
    PROVE  IInv'
<1>1. RequestsOK
  BY DEF IInv
<1>2. req[r].files # <<>>
  BY <1>1, CallOK DEF ReadAgain, At, RequestOK
<1>3. ASSUME Verified(r, doc[File(r)]) PROVE RequestsOK'
  BY <1>1, <1>2, <1>3, VerifiedOK
<1>4. RequestsOK'
  BY <1>1, <1>3, EndsOK DEF ReadAgain
<1>5. UNCHANGED <<doc, seen, address>>
  BY DEF ReadAgain, files, cache
<1> QED
  BY <1>4, <1>5, SameStores DEF IInv

LEMMA CacheMetaOK ==
    ASSUME IInv, NEW r \in Requests, CacheMeta(r)
    PROVE  IInv'
<1>1. RequestsOK /\ CacheOK /\ StatusOK
  BY DEF IInv
<1>2. req[r].files # <<>> /\ req[r].status \in Statuses
  BY <1>1, CallOK DEF CacheMeta, At, RequestOK
<1>3. RequestsOK'
  BY <1>1, <1>2, VerifiedOK DEF CacheMeta
<1>4. StatusOK' /\ CacheOK'
  BY <1>1, <1>2 DEF CacheMeta, files, StatusOK, CacheOK
<1> QED
  BY <1>3, <1>4 DEF IInv

LEMMA CountOK ==
    ASSUME IInv, NEW r \in Requests, Count(r)
    PROVE  IInv'
<1>1. RequestsOK /\ CacheOK /\ StatusOK
  BY DEF IInv
<1>2. req[r].files # <<>> /\ req[r].op = "download"
  BY <1>1, CallOK DEF Count, At, RequestOK
<1>3. Kind(req[r]) \in Kinds /\ req[r].op \in Links /\ "find" \in Pcs /\ "none" \in Statuses
  BY <1>2 DEF Kind, Kinds, Links, Pcs, Statuses
<1>4. RequestsOK'
  BY <1>1, <1>2, <1>3, GotoOK DEF Count
<1>5. StatusOK' /\ CacheOK'
  BY <1>1, <1>3 DEF Count, files, StatusOK, CacheOK
<1> QED
  BY <1>4, <1>5 DEF IInv

-----------------------------------------------------------------------------
(* The steps that deal in addresses.                                       *)
LEMMA Margins ==
    /\ Patience \in Nat
    /\ \A k \in Kinds : /\ KeptFor[k] \in Nat /\ SignedFor[k] \in Nat
                        /\ KeptFor[k] + 2 * Patience < SignedFor[k]
BY DeliveryAssumption, MarginAssumption

(* What every request for an address that came this far is.                *)
LEMMA AskedOK ==
    ASSUME RequestsOK, NEW r \in Requests, req[r].pc \in {"find", "sign", "resign", "keep"}
    PROVE  /\ RequestOK(req[r], age[r], got[r]) /\ req[r] \in Calls
           /\ age[r] \in Nat /\ age[r] <= Patience
           /\ req[r].files # <<>> /\ req[r].op \in Links /\ Kind(req[r]) \in Kinds
           /\ File(r) \in Files
<1>1. RequestOK(req[r], age[r], got[r]) /\ req[r] \in Calls
  BY CallOK
<1>2. req[r].files # <<>>
  BY <1>1 DEF RequestOK
<1> QED
  BY <1>1, <1>2, FileIsFile DEF RequestOK

LEMMA PutOK ==
    ASSUME RequestsOK, NEW r \in Requests, NEW f \in Files, NEW left \in Int,
           left + age[r] > Patience,
           got' = [got EXCEPT ![r] = Put(@, f, left)]
    PROVE  /\ DOMAIN got' = Requests /\ \A q \in Requests \ {r} : got'[q] = got[q]
           /\ DOMAIN got'[r] \subseteq Files
           /\ f \in DOMAIN got'[r] /\ got'[r][f] = left
           /\ \A g \in DOMAIN got'[r] : got'[r][g] \in Int /\ got'[r][g] + age[r] > Patience
<1>1. DOMAIN got = Requests /\ RequestOK(req[r], age[r], got[r])
  BY DEF RequestsOK
<1>2. got'[r] = [x \in DOMAIN got[r] \cup {f} |-> IF x = f THEN left ELSE got[r][x]]
  BY <1>1 DEF Put
<1>3. /\ DOMAIN got[r] \subseteq Files
      /\ \A g \in DOMAIN got[r] : got[r][g] \in Int /\ got[r][g] + age[r] > Patience
  BY <1>1 DEF RequestOK
<1> QED
  BY <1>1, <1>2, <1>3

LEMMA FindAddressOK ==
    ASSUME IInv, NEW r \in Requests, FindAddress(r)
    PROVE  IInv'
<1> DEFINE k == Kind(req[r])
           cached == address[File(r)][k]
<1>1. RequestsOK /\ CacheOK
  BY DEF IInv
<1>2. /\ req[r].files # <<>> /\ req[r].op \in Links /\ k \in Kinds /\ File(r) \in Files
      /\ age[r] \in Nat
  BY <1>1, AskedOK DEF FindAddress, At
<1>3. ASSUME cached.keep > 0 PROVE RequestsOK'
  <2>1. cached.keep \in Nat /\ cached.left \in Int /\ cached.left > cached.keep + Patience
    BY <1>1, <1>2, <1>3 DEF CacheOK
  <2>2. cached.left + age[r] > Patience
    BY <1>2, <2>1, Margins
  <2>3. got' = [got EXCEPT ![r] = Put(@, File(r), cached.left)] /\ NextFile(r) /\ UNCHANGED age
    BY <1>3 DEF FindAddress
  <2> HIDE DEF cached, k
  <2>4. /\ DOMAIN got' = Requests /\ \A q \in Requests \ {r} : got'[q] = got[q]
        /\ DOMAIN got'[r] \subseteq Files
        /\ \A g \in DOMAIN got'[r] : got'[r][g] \in Int /\ got'[r][g] + age[r] > Patience
    BY <1>1, <1>2, <2>1, <2>2, <2>3, PutOK
  <2> QED
    BY <1>1, <1>2, <2>3, <2>4, NextFileOK
<1>4. ASSUME ~(cached.keep > 0) PROVE RequestsOK'
  <2>1. Goto(r, "sign") /\ "sign" \in Pcs
    BY <1>4 DEF FindAddress, Pcs
  <2> QED
    BY <1>1, <1>2, <2>1, GotoOK
<1>5. UNCHANGED <<doc, seen, address>>
  BY DEF FindAddress, files, cache
<1> QED
  BY <1>3, <1>4, <1>5, SameStores DEF IInv

LEMMA SignOK ==
    ASSUME IInv, NEW r \in Requests, Sign(r)
    PROVE  IInv'
<1> DEFINE k == Kind(req[r])
<1>1. RequestsOK
  BY DEF IInv
<1>2. /\ RequestOK(req[r], age[r], got[r]) /\ req[r] \in Calls
      /\ req[r].files # <<>> /\ req[r].op \in Links /\ k \in Kinds /\ File(r) \in Files
      /\ age[r] \in Nat
  BY <1>1, AskedOK DEF Sign, At
<1>3. ASSUME Goto(r, "resign") PROVE RequestsOK'
  <2>1. "resign" \in Pcs
    BY DEF Pcs
  <2> QED
    BY <1>1, <1>2, <1>3, <2>1, GotoOK
<1>4. ASSUME Signed(r), UNCHANGED age, req' = [req EXCEPT ![r].pc = "keep"] PROVE RequestsOK'
  <2>1. /\ got' = [got EXCEPT ![r] = Put(@, File(r), SignedFor[k])] /\ UNCHANGED age
        /\ req' = [req EXCEPT ![r].pc = "keep"]
    BY <1>4 DEF Signed
  <2> HIDE DEF k
  <2>2. SignedFor[k] \in Int /\ SignedFor[k] + age[r] > Patience /\ SignedFor[k] + age[r] >= SignedFor[k]
    BY <1>2, Margins
  <2>3. /\ DOMAIN got' = Requests /\ \A q \in Requests \ {r} : got'[q] = got[q]
        /\ DOMAIN got'[r] \subseteq Files
        /\ File(r) \in DOMAIN got'[r] /\ got'[r][File(r)] = SignedFor[k]
        /\ \A g \in DOMAIN got'[r] : got'[r][g] \in Int /\ got'[r][g] + age[r] > Patience
    BY <1>1, <1>2, <2>1, <2>2, PutOK
  <2>4. Moves(r) /\ age'[r] = age[r] /\ req'[r] = [req[r] EXCEPT !.pc = "keep"]
    BY <1>1, <2>1, <2>3 DEF Moves, RequestsOK
  <2>5. "keep" \in Pcs
    BY DEF Pcs
  <2>6. /\ req'[r] \in Calls /\ req'[r].op = req[r].op /\ req'[r].pc = "keep"
        /\ req'[r].files = req[r].files
    BY <1>2, <2>4, <2>5 DEF Calls
  <2>7. Kind(req'[r]) = k
    BY <2>6 DEF Kind, k
  <2>8. RequestOK(req'[r], age'[r], got'[r])
    BY <1>2, <2>2, <2>3, <2>4, <2>6, <2>7 DEF RequestOK, File
  <2> QED
    BY <1>1, <2>4, <2>8, OneMoves
<1>5. UNCHANGED <<doc, seen, address>>
  BY DEF Sign, files, cache
<1>6. RequestsOK'
  BY <1>3, <1>4 DEF Sign
<1> QED
  BY <1>5, <1>6, SameStores DEF IInv

(* An address that is signed but not put into the cache.                   *)
LEMMA SignAgainOK ==
    ASSUME IInv, NEW r \in Requests, SignAgain(r)
    PROVE  IInv'
<1> DEFINE k == Kind(req[r])
<1>1. RequestsOK
  BY DEF IInv
<1>2. /\ req[r].files # <<>> /\ req[r].op \in Links /\ k \in Kinds /\ File(r) \in Files
      /\ age[r] \in Nat
  BY <1>1, AskedOK DEF SignAgain, At
<1>3. ASSUME Signed(r), NextFile(r), UNCHANGED age PROVE RequestsOK'
  <2>1. got' = [got EXCEPT ![r] = Put(@, File(r), SignedFor[k])]
    BY <1>3 DEF Signed
  <2> HIDE DEF k
  <2>2. SignedFor[k] \in Int /\ SignedFor[k] + age[r] > Patience
    BY <1>2, Margins
  <2>3. /\ DOMAIN got' = Requests /\ \A q \in Requests \ {r} : got'[q] = got[q]
        /\ DOMAIN got'[r] \subseteq Files
        /\ \A f \in DOMAIN got'[r] : got'[r][f] \in Int /\ got'[r][f] + age[r] > Patience
    BY <1>1, <1>2, <2>1, <2>2, PutOK
  <2> QED
    BY <1>1, <1>2, <1>3, <2>3, NextFileOK
<1>4. RequestsOK'
  BY <1>1, <1>3, EndsOK DEF SignAgain
<1>5. UNCHANGED <<doc, seen, address>>
  BY DEF SignAgain, files, cache
<1> QED
  BY <1>4, <1>5, SameStores DEF IInv

LEMMA KeepAddressOK ==
    ASSUME IInv, NEW r \in Requests, KeepAddress(r)
    PROVE  IInv'
<1> DEFINE k == Kind(req[r])
           left == got[r][File(r)]
<1>1. RequestsOK /\ CacheOK /\ StatusOK
  BY DEF IInv
<1>2. /\ RequestOK(req[r], age[r], got[r])
      /\ req[r].files # <<>> /\ req[r].op \in Links /\ k \in Kinds /\ File(r) \in Files
      /\ age[r] \in Nat /\ age[r] <= Patience
  BY <1>1, AskedOK DEF KeepAddress, At
<1>3. left \in Int /\ left + age[r] >= SignedFor[k]
  BY <1>2 DEF KeepAddress, At, RequestOK, File
<1>4. RequestsOK'
  <2>1. NextFile(r) /\ UNCHANGED <<age, got>>
    BY DEF KeepAddress
  <2>2. /\ DOMAIN got' = Requests /\ \A q \in Requests \ {r} : got'[q] = got[q]
        /\ DOMAIN got'[r] \subseteq Files
        /\ \A g \in DOMAIN got'[r] : got'[r][g] \in Int /\ got'[r][g] + age[r] > Patience
    BY <1>1, <1>2, <2>1 DEF RequestsOK, RequestOK
  <2> QED
    BY <1>1, <1>2, <2>1, <2>2, NextFileOK
<1>5. CacheOK'
  <2>1. address' = [address EXCEPT ![File(r)][k] = [keep |-> KeptFor[k], left |-> left]]
    BY DEF KeepAddress
  <2> HIDE DEF k, left
  <2>2. KeptFor[k] \in Nat /\ left > KeptFor[k] + Patience
    BY <1>2, <1>3, Margins
  <2> QED
    BY <1>1, <1>2, <1>3, <2>1, <2>2 DEF CacheOK
<1>6. StatusOK'
  BY <1>1 DEF KeepAddress, files, StatusOK
<1> QED
  BY <1>4, <1>5, <1>6 DEF IInv

LEMMA AnswerOK ==
    ASSUME IInv, NEW r \in Requests, Answer(r)
    PROVE  IInv'
<1>1. RequestsOK'
  BY EndsOK DEF Answer, IInv
<1>2. UNCHANGED <<doc, seen, address>>
  BY DEF Answer, files, cache
<1> QED
  BY <1>1, <1>2, SameStores DEF IInv

LEMMA LinkOK ==
    ASSUME IInv, NEW r \in Requests, Link(r)
    PROVE  IInv'
BY LookOK, ReadDocOK, ReadAgainOK, CacheMetaOK, CountOK, FindAddressOK, SignOK, SignAgainOK,
   KeepAddressOK, AnswerOK DEF Link

-----------------------------------------------------------------------------
(* Time takes as much from an address as it adds to the age of a request,  *)
(* and as much from a cached address as from the entry it is in.           *)
LEMMA TickOK ==
    ASSUME IInv, Tick
    PROVE  IInv'
<1>1. RequestsOK /\ CacheOK /\ StatusOK
  BY DEF IInv
<1>2. ASSUME NEW r \in Requests PROVE RequestOK(req'[r], age'[r], got'[r])
  <2>1. RequestOK(req[r], age[r], got[r]) /\ req'[r] = req[r]
    BY <1>1 DEF RequestsOK, Tick
  <2>2. got'[r] = [f \in DOMAIN got[r] |-> got[r][f] - 1]
    BY DEF Tick
  <2>3. CASE req[r].op \in Links \cup {"show"}
    <3>1. age'[r] = age[r] + 1 /\ age[r] < Patience
      BY <2>3 DEF Tick
    <3>2. age'[r] \in Nat /\ age'[r] <= Patience
      BY <2>1, <3>1, Margins DEF RequestOK
    <3>3. /\ DOMAIN got'[r] = DOMAIN got[r]
          /\ \A f \in DOMAIN got[r] : got'[r][f] \in Int /\ got'[r][f] + age'[r] = got[r][f] + age[r]
      <4>1. ASSUME NEW f \in DOMAIN got[r]
            PROVE  got'[r][f] \in Int /\ got'[r][f] + age'[r] = got[r][f] + age[r]
        <5>1. got[r][f] \in Int /\ age[r] \in Nat
          BY <2>1 DEF RequestOK
        <5>2. got'[r][f] = got[r][f] - 1
          BY <2>2
        <5> QED
          BY <3>1, <5>1, <5>2
      <4> QED
        BY <2>2, <4>1
    <3>4. /\ \A f \in DOMAIN got'[r] : got'[r][f] \in Int /\ got'[r][f] + age'[r] > Patience
          /\ DOMAIN got'[r] \subseteq Files
          /\ req[r].op \notin Links => DOMAIN got'[r] = {}
      BY <2>1, <3>3 DEF RequestOK
    <3>5. req[r].pc = "keep" =>
             /\ Head(req[r].files) \in DOMAIN got'[r]
             /\ got'[r][Head(req[r].files)] + age'[r] >= SignedFor[Kind(req[r])]
      BY <2>1, <3>3 DEF RequestOK
    <3> QED
      BY <2>1, <3>2, <3>4, <3>5 DEF RequestOK
  <2>4. CASE req[r].op \notin Links \cup {"show"}
    <3>1. age'[r] = age[r]
      BY <2>4 DEF Tick
    <3>2. DOMAIN got[r] = {} /\ DOMAIN got'[r] = {}
      BY <2>1, <2>2, <2>4 DEF RequestOK
    <3> QED
      BY <2>1, <3>1, <3>2 DEF RequestOK
  <2> QED
    BY <2>3, <2>4
<1>3. RequestsOK'
  BY <1>1, <1>2 DEF RequestsOK, Tick
<1>4. CacheOK'
  <2>1. ASSUME NEW f \in Files, NEW k \in Kinds
        PROVE  /\ address'[f][k] \in [keep : Nat, left : Int]
               /\ address'[f][k].keep > 0 => address'[f][k].left > address'[f][k].keep + Patience
    <3>1. /\ address[f][k] \in [keep : Nat, left : Int]
          /\ address[f][k].keep > 0 => address[f][k].left > address[f][k].keep + Patience
      BY <1>1 DEF CacheOK
    <3>2. address'[f][k] = IF address[f][k].keep > 1
                           THEN [keep |-> address[f][k].keep - 1, left |-> address[f][k].left - 1]
                           ELSE None
      BY DEF Tick
    <3> QED
      BY <3>1, <3>2, Margins DEF None
  <2>2. address' \in [Files -> [Kinds -> [keep : Nat, left : Int]]]
    BY <2>1 DEF Tick
  <2> QED
    BY <2>1, <2>2 DEF CacheOK
<1>5. StatusOK'
  <2>1. "none" \in Statuses
    BY DEF Statuses
  <2> QED
    BY <1>1, <2>1 DEF StatusOK, Tick, files
<1> QED
  BY <1>3, <1>4, <1>5 DEF IInv

LEMMA ExpireOK ==
    ASSUME IInv, NEW f \in Files, Expire(f)
    PROVE  IInv'
<1>1. UNCHANGED <<req, age, got>> /\ UNCHANGED <<doc, seen, address>>
  BY DEF Expire, cache, work
<1>2. RequestsOK'
  BY <1>1 DEF IInv, RequestsOK
<1> QED
  BY <1>1, <1>2, SameStores DEF IInv

-----------------------------------------------------------------------------
LEMMA RemovalOK ==
    ASSUME IInv, NEW r \in Requests, Removal(r)
    PROVE  IInv'
<1>1. RequestsOK /\ CacheOK /\ StatusOK
  BY DEF IInv
<1>2. {"erase", "uncache", "unlink", "drop"} \subseteq Pcs /\ {"none", "gone"} \subseteq Statuses
  BY DEF Pcs, Statuses
<1>3. ASSUME NEW pc \in {"erase", "uncache", "unlink", "drop"}, Goto(r, pc) PROVE RequestsOK'
  <2>1. pc \in Pcs
    BY <1>2
  <2> QED
    BY <1>1, <1>3, <2>1, GotoOK
<1>4. CASE Unlist(r)
  <2>1. RequestsOK' /\ UNCHANGED <<doc, seen, address>>
    BY <1>3, <1>4 DEF Unlist, cache
  <2> QED
    BY <2>1, SameStores DEF IInv
<1>5. CASE UnlistFails(r)
  <2>1. RequestsOK' /\ UNCHANGED <<doc, seen, address>>
    BY <1>1, <1>3, <1>5, EndsOK DEF UnlistFails, files, cache
  <2> QED
    BY <2>1, SameStores DEF IInv
<1>6. CASE Erase(r)
  <2>1. RequestsOK' /\ UNCHANGED <<doc, seen, address>>
    BY <1>3, <1>6 DEF Erase, cache
  <2> QED
    BY <2>1, SameStores DEF IInv
<1>7. CASE Uncache(r)
  <2>1. RequestsOK'
    BY <1>3, <1>7 DEF Uncache
  <2>2. CacheOK' /\ StatusOK'
    BY <1>1, <1>2, <1>7 DEF Uncache, files, CacheOK, StatusOK
  <2> QED
    BY <2>1, <2>2 DEF IInv
<1>8. CASE Unlink(r)
  <2>1. RequestsOK'
    BY <1>3, <1>8 DEF Unlink
  <2>2. CacheOK'
    <3>1. address' = [address EXCEPT ![File(r)]["download"] = None] /\ "download" \in Kinds
      BY <1>8 DEF Unlink, Kinds
    <3>2. None \in [keep : Nat, left : Int] /\ ~(None.keep > 0)
      BY DEF None
    <3> QED
      BY <1>1, <3>1, <3>2 DEF CacheOK
  <2>3. StatusOK'
    BY <1>1, <1>8 DEF Unlink, files, StatusOK
  <2> QED
    BY <2>1, <2>2, <2>3 DEF IInv
<1>9. CASE Drop(r)
  <2>1. RequestsOK'
    BY <1>1, <1>9, EndsOK DEF Drop
  <2>2. CacheOK' /\ StatusOK'
    BY <1>1, <1>2, <1>9 DEF Drop, cache, CacheOK, StatusOK
  <2> QED
    BY <2>1, <2>2 DEF IInv
<1> QED
  BY <1>4, <1>5, <1>6, <1>7, <1>8, <1>9 DEF Removal

LEMMA MultipartOK ==
    ASSUME IInv, NEW f \in Files, InitMultipart(f) \/ CompleteMultipart(f)
    PROVE  IInv'
<1>1. RequestsOK /\ CacheOK /\ StatusOK
  BY DEF IInv
<1>2. UNCHANGED <<req, age, got>> /\ UNCHANGED <<seen, address>>
  BY DEF InitMultipart, CompleteMultipart, cache, work
<1>3. {"partial", "complete"} \subseteq Statuses
  BY DEF Statuses
<1>4. RequestsOK' /\ CacheOK'
  BY <1>1, <1>2 DEF RequestsOK, CacheOK
<1>5. StatusOK'
  BY <1>1, <1>2, <1>3 DEF InitMultipart, CompleteMultipart, StatusOK
<1> QED
  BY <1>4, <1>5 DEF IInv

-----------------------------------------------------------------------------
(* Conversions leave the caches alone.                                     *)
LEMMA UploadOK ==
    ASSUME IInv, NEW r \in Requests, NEW g \in Files, Upload(r, g)
    PROVE  IInv'
<1>1. RequestsOK /\ req[r] \in Calls
  BY CallOK DEF IInv
<1>2. /\ Moves(r) /\ age'[r] = age[r] /\ got'[r] = got[r]
      /\ req'[r] = [req[r] EXCEPT !.pc = "create", !.files = <<g>>]
  BY <1>1 DEF Upload, Moves, RequestsOK
<1>3. "create" \in Pcs /\ <<g>> \in Seq(Files)
  BY DEF Pcs
<1>4. req'[r] \in Calls /\ req'[r].op = req[r].op /\ req'[r].pc = "create"
  BY <1>1, <1>2, <1>3 DEF Calls
<1>5. RequestsOK'
  BY <1>1, <1>2, <1>4, PlainOK
<1>6. UNCHANGED <<doc, seen, address>>
  BY DEF Upload, cache
<1> QED
  BY <1>5, <1>6, SameStores DEF IInv

(* On to the first or the next artifact, of which n are left.              *)
LEMMA NextArtifactOK ==
    ASSUME RequestsOK, NEW r \in Requests, NEW n \in Int, NEW s \in Seq(Files), UNCHANGED <<age, got>>,
           req' = [req EXCEPT ![r].pc = "upload", ![r].n = n, ![r].files = s]
    PROVE  RequestsOK'
<1>1. req[r] \in Calls
  BY CallOK
<1>2. /\ Moves(r) /\ age'[r] = age[r] /\ got'[r] = got[r]
      /\ req'[r] = [req[r] EXCEPT !.pc = "upload", !.n = n, !.files = s]
  BY DEF Moves, RequestsOK
<1>3. "upload" \in Pcs
  BY DEF Pcs
<1>4. ASSUME NEW c \in Calls, NEW d, d = [c EXCEPT !.pc = "upload", !.n = n, !.files = s]
      PROVE  d \in Calls /\ d.op = c.op /\ d.pc = "upload"
  BY <1>3, <1>4 DEF Calls
<1>5. req'[r] \in Calls /\ req'[r].op = req[r].op /\ req'[r].pc = "upload"
  BY <1>1, <1>2, <1>4
<1> QED
  BY <1>2, <1>5, PlainOK

LEMMA ConversionOK ==
    ASSUME IInv, NEW r \in Requests, Conversion(r)
    PROVE  IInv'
<1>1. RequestsOK /\ CacheOK /\ StatusOK
  BY DEF IInv
<1>2. {"load", "convert", "list"} \subseteq Pcs /\ \A op : Created(op) \in Statuses
  BY DEF Pcs, Statuses, Created
<1>3. ASSUME NEW pc \in {"load", "convert", "list"}, Goto(r, pc) PROVE RequestsOK'
  <2>1. pc \in Pcs
    BY <1>2
  <2> QED
    BY <1>1, <1>3, <2>1, GotoOK
<1>4. ASSUME RequestsOK', UNCHANGED <<doc, seen, address>> PROVE IInv'
  BY <1>4, SameStores DEF IInv
<1>5. CASE ResolveTarget(r)
  BY <1>1, <1>3, <1>4, <1>5, EndsOK DEF ResolveTarget, files, cache
<1>6. CASE LoadSource(r)
  BY <1>1, <1>3, <1>4, <1>6, EndsOK DEF LoadSource, files, cache
<1>0. <<>> \in Seq(Files)
  BY EmptySeq
<1>7. ASSUME NEW n \in Int, Produce(r, n) PROVE IInv'
  <2>1. RequestsOK'
    BY <1>0, <1>1, <1>7, NextArtifactOK DEF Produce
  <2> QED
    BY <1>4, <1>7, <2>1 DEF Produce, files, cache
<1>8. CASE ConvertText(r) \/ ConvertOffice(r) \/ ConvertPages(r)
  <2>1. \E n \in Pages \cup {1} : Produce(r, n)
    BY <1>8 DEF ConvertText, ConvertOffice, ConvertPages
  <2>2. Pages \cup {1} \subseteq Int
    BY DeliveryAssumption
  <2> QED
    BY <1>7, <2>1, <2>2
<1>9. CASE Inconvertible(r) \/ ConvertFails(r)
  BY <1>1, <1>4, <1>9, EndsOK DEF Inconvertible, ConvertFails, files, cache
<1>10. CASE \E g \in Files : Upload(r, g)
  BY <1>10, UploadOK
<1>11. CASE Create(r)
  <2>1. RequestsOK'
    BY <1>3, <1>11 DEF Create
  <2>2. CacheOK' /\ StatusOK'
    BY <1>1, <1>2, <1>11 DEF Create, cache, CacheOK, StatusOK
  <2> QED
    BY <2>1, <2>2 DEF IInv
<1>12. CASE List(r)
  <2>1. req[r].n - 1 \in Int /\ DOMAIN req = Requests
    BY <1>1, CallOK DEF Calls, RequestsOK
  <2>2. ASSUME req[r].n # 1 PROVE RequestsOK'
    <3>1. /\ req' = [req EXCEPT ![r].pc = "upload", ![r].n = req[r].n - 1, ![r].files = <<>>]
          /\ UNCHANGED <<age, got>>
      BY <1>12, <2>2 DEF List
    <3> QED
      BY <1>0, <1>1, <2>1, <3>1, NextArtifactOK
  <2>3. RequestsOK' /\ UNCHANGED <<doc, seen, address>>
    BY <1>1, <1>12, <2>2, EndsOK DEF List, cache
  <2> QED
    BY <1>4, <2>3
<1> QED
  BY <1>5, <1>6, <1>8, <1>9, <1>10, <1>11, <1>12 DEF Conversion

-----------------------------------------------------------------------------
LEMMA Initially == Init => IInv
<1> SUFFICES ASSUME Init PROVE IInv
  OBVIOUS
<1>1. Rest("idle") \in Calls /\ Rest("idle").op = "none" /\ Rest("idle").pc = "idle"
  BY EmptySeq DEF Rest, Calls, Ops, Pcs, Statuses
<1>2. DOMAIN Nothing = {}
  BY DEF Nothing
<1>3. RequestOK(Rest("idle"), 0, Nothing)
  BY <1>1, <1>2, Margins DEF RequestOK
<1>4. RequestsOK
  BY <1>3 DEF Init, RequestsOK
<1>5. CacheOK
  BY DEF Init, CacheOK, None
<1>6. StatusOK
  BY DEF Init, StatusOK, Statuses
<1> QED
  BY <1>4, <1>5, <1>6 DEF IInv

LEMMA Stepwise ==
    ASSUME IInv, [Next]_vars
    PROVE  IInv'
<1>1. CASE \E r \in Requests : Start(r) \/ Link(r) \/ Removal(r) \/ Conversion(r)
  BY <1>1, StartOK, LinkOK, RemovalOK, ConversionOK
<1>2. CASE \E f \in Files : Multipart(f)
  <2>1. PICK f \in Files : InitMultipart(f) \/ CompleteMultipart(f)
    BY <1>2 DEF Multipart
  <2> QED
    BY <2>1, MultipartOK
<1>3. CASE \E f \in Expiring : Expire(f)
  BY <1>3, ExpireOK, DeliveryAssumption
<1>4. CASE Tick
  BY <1>4, TickOK
<1>5. CASE UNCHANGED vars
  <2>1. UNCHANGED <<req, age, got>> /\ UNCHANGED <<doc, seen, address>>
    BY <1>5 DEF vars, files, cache, work
  <2>2. RequestsOK'
    BY <2>1 DEF IInv, RequestsOK
  <2> QED
    BY <2>1, <2>2, SameStores DEF IInv
<1> QED
  BY <1>1, <1>2, <1>3, <1>4, <1>5 DEF Next

(* Every address a request has, signed by it or found in the cache of      *)
(* presigned addresses, still works, with any number of files and requests *)
(* and for all lives of addresses and entries that keep the margin.        *)
THEOREM AddressesAlwaysWork == Spec => []AddressesWork
<1>1. IInv => AddressesWork
  <2> SUFFICES ASSUME IInv, NEW r \in Requests, NEW f \in DOMAIN got[r] PROVE got[r][f] > 0
    BY DEF AddressesWork
  <2>1. RequestOK(req[r], age[r], got[r])
    BY DEF IInv, RequestsOK
  <2>2. got[r][f] \in Int /\ got[r][f] + age[r] > Patience /\ age[r] \in Nat /\ age[r] <= Patience
    BY <2>1 DEF RequestOK
  <2> QED
    BY <2>2, Margins
<1>2. Spec => []IInv
  BY Initially, Stepwise, PTL DEF Spec
<1> QED
  BY <1>1, <1>2, PTL
-----------------------------------------------------------------------------
(* What every step leaves of a request: the others are as they were.  The  *)
(* calls of a request, the one it is at now and the next, by kind.         *)
Removing == {"unlist", "erase", "uncache", "unlink", "drop"}
Quiet == Pcs \ (Removing \cup {"create", "list"})

LEMMA GotoMoves ==
    ASSUME RequestsOK, NEW r \in Requests, NEW pc, Goto(r, pc)
    PROVE  /\ Moves(r) /\ req'[r].pc = pc /\ req'[r].files = req[r].files
           /\ req'[r].op = req[r].op /\ age' = age /\ got' = got
<1>1. req[r] \in Calls
  BY CallOK
<1>2. Moves(r) /\ age' = age /\ got' = got /\ req'[r] = [req[r] EXCEPT !.pc = pc]
  BY DEF Goto, Moves, RequestsOK
<1> QED
  BY <1>1, <1>2 DEF Calls

LEMMA EndsMoves ==
    ASSUME RequestsOK, NEW r \in Requests, Ends(r)
    PROVE  /\ Moves(r) /\ req'[r].pc = "ended" /\ age'[r] = 0 /\ DOMAIN got'[r] = {}
BY DEF Ends, Moves, RequestsOK, Rest, Nothing

LEMMA NextFileMoves ==
    ASSUME RequestsOK, NEW r \in Requests, NextFile(r), UNCHANGED age,
           DOMAIN got' = Requests, \A q \in Requests \ {r} : got'[q] = got[q]
    PROVE  /\ Moves(r) /\ req'[r].pc \in {"look", "answer"} /\ req'[r].op = req[r].op
           /\ age'[r] = age[r]
<1>1. req[r] \in Calls
  BY CallOK
<1> DEFINE pc == IF Len(req[r].files) > 1 THEN "look" ELSE "answer"
<1>2. /\ Moves(r) /\ age'[r] = age[r]
      /\ req'[r] = [req[r] EXCEPT !.files = Tail(@), !.status = "none", !.pc = pc]
  BY DEF NextFile, Moves, RequestsOK
<1>3. pc \in {"look", "answer"}
  OBVIOUS
<1> HIDE DEF pc
<1> QED
  BY <1>1, <1>2, <1>3 DEF Calls

LEMMA BeginMoves ==
    ASSUME RequestsOK, NEW r \in Requests, NEW op, NEW pc, NEW s, NEW n, NEW status,
           Begin(r, op, pc, s, n, status)
    PROVE  /\ Moves(r) /\ req'[r].pc = pc /\ req'[r].op = op /\ req'[r].files = s
           /\ age' = age /\ got' = got /\ DOMAIN got[r] = {}
           /\ UNCHANGED <<doc, late, object, listed, meta, seen, address, out>>
<1>1. Moves(r) /\ age' = age /\ got' = got
      /\ req'[r] = [op |-> op, pc |-> pc, files |-> s, n |-> n, status |-> status]
  BY DEF Begin, Moves, RequestsOK
<1>2. DOMAIN got[r] = {}
  <2>1. RequestOK(req[r], age[r], got[r]) /\ req[r].pc = "idle"
    BY DEF RequestsOK, Begin, At
  <2> QED
    BY <2>1 DEF RequestOK, Links
<1>3. UNCHANGED <<doc, late, object, listed, meta, seen, address, out>>
  BY DEF Begin, files, cache
<1> QED
  BY <1>1, <1>2, <1>3

LEMMA VerifiedMoves ==
    ASSUME RequestsOK, NEW r \in Requests, NEW status, Verified(r, status)
    PROVE  /\ Moves(r)
           /\ \/ /\ req'[r].pc = "count" /\ req[r].op = "download"
                 /\ req'[r].files = req[r].files /\ req'[r].op = req[r].op
                 /\ age' = age /\ got' = got
              \/ /\ req'[r].pc = "find" /\ req[r].op \in Links
                 /\ req'[r].files = req[r].files /\ req'[r].op = req[r].op
                 /\ age' = age /\ got' = got
              \/ req'[r].pc = "ended" /\ age'[r] = 0 /\ DOMAIN got'[r] = {}
<1>1. CASE req[r].op = "download"
  <2>1. Goto(r, "count")
    BY <1>1 DEF Verified
  <2> QED
    BY <1>1, <2>1, GotoMoves
<1>2. CASE req[r].op # "download" /\ Kind(req[r]) # "none" /\ status = "complete"
  <2>1. Goto(r, "find") /\ req[r].op \in Links
    BY <1>2, KindIsKind DEF Verified
  <2> QED
    BY <2>1, GotoMoves
<1>3. CASE req[r].op # "download" /\ ~(Kind(req[r]) # "none" /\ status = "complete")
  <2>1. Ends(r)
    BY <1>3 DEF Verified
  <2> QED
    BY <2>1, EndsMoves
<1> QED
  BY <1>1, <1>2, <1>3

-----------------------------------------------------------------------------
(* What is listed is whole.  d, o, s: the documents, the objects, and the  *)
(* files a removal has begun for.  The artifact a conversion has uploaded  *)
(* has its object and no document yet, and is nobody else's; once it has   *)
(* its document it is whole unless its removal began.  What is being       *)
(* removed had a document when its removal began.                          *)
Whole(f, d, o) == d[f] \in {"confirmed", "complete"} /\ f \in o

CallWhole(c, d, o, s) ==
    /\ c.pc = "create" => /\ c.files # <<>> /\ Head(c.files) \in Files
                          /\ d[Head(c.files)] = "unborn" /\ Head(c.files) \in o
    /\ c.pc = "list" => /\ c.files # <<>> /\ Head(c.files) \in Files
                        /\ Head(c.files) \notin s => Whole(Head(c.files), d, o)
    /\ c.pc \in Removing => /\ c.files # <<>> /\ Head(c.files) \in Files
                            /\ Head(c.files) \in s /\ d[Head(c.files)] # "unborn"

WholeInv ==
    /\ listed \subseteq Files
    /\ \A r \in Requests : CallWhole(req[r], doc, object, struck)
    /\ \A r, q \in Requests : r # q /\ At(r, "create") /\ At(q, "create") => File(r) # File(q)
    /\ \A f \in listed \ struck : Whole(f, doc, object)

(* A step keeps what others rely on, but for the file of a request that is *)
(* about to give its artifact a document.                                  *)
Keeps ==
    /\ struck \subseteq struck'
    /\ \A f \in Files : doc[f] # "unborn" => doc'[f] # "unborn"
    /\ \A f \in Files \ struck' : Whole(f, doc, object) => Whole(f, doc', object')

Spares(r) ==
    \A q \in Requests \ {r} : At(q, "create") =>
        doc'[File(q)] = doc[File(q)] /\ (File(q) \in object => File(q) \in object')

LEMMA WholeMoves ==
    ASSUME WholeInv, NEW r \in Requests, Moves(r), Keeps, Spares(r),
           CallWhole(req'[r], doc', object', struck'),
           req'[r].pc = "create" =>
              \A q \in Requests \ {r} : At(q, "create") => File(q) # Head(req'[r].files),
           listed' \subseteq Files,
           \A f \in listed' \ listed : f \notin struck' => Whole(f, doc', object')
    PROVE  WholeInv'
<1>1. ASSUME NEW q \in Requests PROVE CallWhole(req'[q], doc', object', struck')
  <2>1. CASE q = r
    BY <2>1
  <2>2. CASE q # r
    <3>1. req'[q] = req[q] /\ CallWhole(req[q], doc, object, struck)
      BY <2>2 DEF Moves, WholeInv
    <3>2. req[q].pc = "create" =>
            /\ doc'[Head(req[q].files)] = doc[Head(req[q].files)]
            /\ Head(req[q].files) \in object => Head(req[q].files) \in object'
      BY <2>2 DEF Spares, At, File
    <3> QED
      BY <3>1, <3>2 DEF CallWhole, Keeps
  <2> QED
    BY <2>1, <2>2
<1>2. ASSUME NEW p \in Requests, NEW q \in Requests, p # q,
             req'[p].pc = "create", req'[q].pc = "create"
      PROVE  Head(req'[p].files) # Head(req'[q].files)
  <2>1. CASE p = r
    <3>1. req'[q] = req[q]
      BY <1>2, <2>1 DEF Moves
    <3> QED
      BY <1>2, <2>1, <3>1 DEF At, File
  <2>2. CASE q = r
    <3>1. req'[p] = req[p]
      BY <1>2, <2>2 DEF Moves
    <3> QED
      BY <1>2, <2>2, <3>1 DEF At, File
  <2>3. CASE p # r /\ q # r
    <3>1. req'[p] = req[p] /\ req'[q] = req[q]
      BY <2>3 DEF Moves
    <3> QED
      BY <1>2, <3>1 DEF WholeInv, At, File
  <2> QED
    BY <2>1, <2>2, <2>3
<1>3. ASSUME NEW f \in listed', f \notin struck' PROVE Whole(f, doc', object')
  BY <1>3 DEF WholeInv, Keeps
<1> QED
  BY <1>1, <1>2, <1>3 DEF WholeInv, At, File

(* A step that leaves the files and the removals alone.                    *)
LEMMA StillWhole ==
    ASSUME WholeInv, NEW r \in Requests, Moves(r), UNCHANGED <<doc, object, listed, struck>>,
           CallWhole(req'[r], doc, object, struck), req'[r].pc # "create"
    PROVE  WholeInv'
<1>1. Keeps /\ Spares(r)
  BY DEF Keeps, Spares
<1> QED
  BY <1>1, WholeMoves DEF WholeInv

LEMMA QuietWhole ==
    ASSUME WholeInv, NEW r \in Requests, Moves(r), UNCHANGED <<doc, object, listed, struck>>,
           req'[r].pc \in Quiet
    PROVE  WholeInv'
<1>1. req'[r].pc \notin {"create", "list"} \cup Removing
  BY DEF Quiet
<1>2. CallWhole(req'[r], doc, object, struck)
  BY <1>1 DEF CallWhole
<1> QED
  BY <1>1, <1>2, StillWhole

LEMMA QuietCalls ==
    /\ {"idle", "ended", "look", "read", "reread", "cache", "count", "find", "sign", "resign",
        "keep", "answer", "target", "load", "convert", "upload"} \subseteq Quiet
    /\ Removing \cap Quiet = {}
BY DEF Quiet, Removing, Pcs

(* An object that was not there, of a file without a document: nobody else *)
(* is about to give it one.                                                *)
LEMMA NewObjectWhole ==
    ASSUME WholeInv, NEW r \in Requests, NEW g \in Files, Moves(r),
           doc[g] = "unborn", g \notin object, object' = object \cup {g},
           UNCHANGED <<doc, listed, struck>>,
           req'[r].pc = "create", req'[r].files = <<g>>, <<g>> # <<>>, Head(<<g>>) = g
    PROVE  WholeInv'
<1>1. \A q \in Requests : At(q, "create") => File(q) \in object
  BY DEF WholeInv, CallWhole, At, File
<1>2. Keeps /\ Spares(r)
  BY DEF Keeps, Spares, Whole
<1>3. req'[r].pc \notin Removing \cup {"list"}
  BY DEF Removing
<1>4. CallWhole(req'[r], doc', object', struck')
  BY <1>3 DEF CallWhole
<1>5. \A q \in Requests \ {r} : At(q, "create") => File(q) # Head(req'[r].files)
  BY <1>1
<1> QED
  BY <1>2, <1>4, <1>5, WholeMoves DEF WholeInv

LEMMA StartWhole ==
    ASSUME RequestsOK, WholeInv, StatusOK, NEW r \in Requests, Start(r)
    PROVE  WholeInv'
<1>1. ASSUME NEW op, NEW pc \in {"look", "target"}, NEW s, NEW status, UNCHANGED struck,
             Begin(r, op, pc, s, 0, status)
      PROVE  WholeInv'
  <2>1. Moves(r) /\ req'[r].pc = pc /\ UNCHANGED <<doc, object, listed, struck>>
    BY <1>1, BeginMoves
  <2> QED
    BY <2>1, QuietCalls, QuietWhole
<1>2. ASSUME NEW f \in Files, NEW n \in {0, 1}, BeginRemove(r, f, n) PROVE WholeInv'
  <2>1. Begin(r, "remove", "unlist", <<f>>, n, "none") /\ Exists(f) /\ struck' = struck \cup {f}
    BY <1>2 DEF BeginRemove
  <2>2. Moves(r) /\ req'[r].pc = "unlist" /\ req'[r].files = <<f>>
        /\ UNCHANGED <<doc, object, listed>>
    BY <2>1, BeginMoves
  <2>3. Keeps /\ Spares(r)
    BY <2>1, <2>2 DEF Keeps, Spares
  <2>4. <<f>> # <<>> /\ Head(<<f>>) = f
    OBVIOUS
  <2>5. CallWhole(req'[r], doc', object', struck')
    BY <2>1, <2>2, <2>4 DEF CallWhole, Exists, Removing
  <2> QED
    BY <2>2, <2>3, <2>5, WholeMoves DEF WholeInv
<1>3. ASSUME NEW s \in Batches, BeginDownload(r, s) PROVE WholeInv'
  BY <1>1, <1>3 DEF BeginDownload
<1>4. ASSUME NEW f, BeginByToken(r, f) \/ BeginPreview(r, f) \/ BeginThumbnail(r, f)
                    \/ BeginStream(r, f) \/ BeginShow(r, f)
      PROVE  WholeInv'
  BY <1>1, <1>4 DEF BeginByToken, BeginPreview, BeginThumbnail, BeginStream, BeginShow
<1>5. ASSUME NEW f, BeginConvert(r, f) PROVE WholeInv'
  <2>1. \E status : Begin(r, "convert", "target", <<f>>, 0, status)
    BY <1>5 DEF BeginConvert
  <2> QED
    BY <1>1, <1>5, <2>1 DEF BeginConvert
<1>6. ASSUME NEW g \in Files, BeginConfirm(r, g) PROVE WholeInv'
  <2>1. /\ doc[g] = "unborn" /\ g \notin object /\ object' = object \cup {g}
        /\ UNCHANGED <<doc, listed, struck>>
    BY <1>6 DEF BeginConfirm
  <2>2. /\ Moves(r) /\ req'[r].pc = "create"
        /\ req'[r].files = <<g>> /\ <<g>> # <<>> /\ Head(<<g>>) = g
    BY <1>6, ConfirmMoves
  <2> QED
    BY <2>1, <2>2, NewObjectWhole
<1> QED
  BY <1>2, <1>3, <1>4, <1>5, <1>6 DEF Start

(* Requests for addresses only read the files.                             *)
LEMMA LinkMoves ==
    ASSUME RequestsOK, NEW r \in Requests, Link(r)
    PROVE  /\ Moves(r) /\ UNCHANGED <<files, struck>>
           /\ req'[r].pc \in {"read", "reread", "cache", "count", "find", "sign", "resign", "keep",
                             "look", "answer", "ended"}
<1>1. CASE Look(r)
  BY <1>1, GotoMoves, VerifiedMoves DEF Look
<1>2. CASE ReadDoc(r)
  <2>1. ASSUME req' = [req EXCEPT ![r].pc = "cache", ![r].status = doc[File(r)]],
               UNCHANGED <<age, got>>
        PROVE  Moves(r) /\ req'[r].pc = "cache"
    <3>1. req[r] \in Calls
      BY CallOK
    <3> QED
      BY <2>1, <3>1 DEF Moves, RequestsOK, Calls
  <2>2. UNCHANGED <<files, struck>>
    BY <1>2 DEF ReadDoc
  <2> QED
    BY <1>2, <2>1, <2>2, EndsMoves, GotoMoves DEF ReadDoc
<1>3. CASE CacheMeta(r)
  BY <1>3, VerifiedMoves DEF CacheMeta
<1>4. CASE Count(r)
  BY <1>4, GotoMoves DEF Count
<1>5. CASE FindAddress(r)
  <2>1. CASE address[File(r)][Kind(req[r])].keep > 0
    <3>1. /\ got' = [got EXCEPT ![r] = Put(@, File(r), address[File(r)][Kind(req[r])].left)]
          /\ NextFile(r) /\ UNCHANGED age /\ UNCHANGED <<files, struck>>
      BY <1>5, <2>1 DEF FindAddress
    <3>2. DOMAIN got' = Requests /\ \A q \in Requests \ {r} : got'[q] = got[q]
      BY <3>1 DEF RequestsOK
    <3> QED
      BY <3>1, <3>2, NextFileMoves
  <2>2. CASE ~(address[File(r)][Kind(req[r])].keep > 0)
    BY <1>5, <2>2, GotoMoves DEF FindAddress
  <2> QED
    BY <2>1, <2>2
<1>6. CASE Sign(r)
  <2>1. ASSUME Signed(r), UNCHANGED age, req' = [req EXCEPT ![r].pc = "keep"]
        PROVE  Moves(r) /\ req'[r].pc = "keep"
    <3>1. req[r] \in Calls
      BY CallOK
    <3> QED
      BY <2>1, <3>1 DEF Signed, Moves, RequestsOK, Calls
  <2>2. UNCHANGED <<files, struck>>
    BY <1>6 DEF Sign
  <2> QED
    BY <1>6, <2>1, <2>2, GotoMoves DEF Sign
<1>7. CASE KeepAddress(r)
  <2>1. NextFile(r) /\ UNCHANGED <<age, got>> /\ UNCHANGED <<files, struck>>
    BY <1>7 DEF KeepAddress
  <2>2. DOMAIN got' = Requests /\ \A q \in Requests \ {r} : got'[q] = got[q]
    BY <2>1 DEF RequestsOK
  <2> QED
    BY <2>1, <2>2, NextFileMoves
<1>8. CASE Answer(r)
  BY <1>8, EndsMoves DEF Answer
<1>9. CASE ReadAgain(r)
  BY <1>9, VerifiedMoves, EndsMoves DEF ReadAgain
<1>10. CASE SignAgain(r)
  <2>1. ASSUME Signed(r), NextFile(r), UNCHANGED age
        PROVE  Moves(r) /\ req'[r].pc \in {"look", "answer"}
    <3>1. DOMAIN got' = Requests /\ \A q \in Requests \ {r} : got'[q] = got[q]
      BY <2>1 DEF Signed, RequestsOK
    <3> QED
      BY <2>1, <3>1, NextFileMoves
  <2>2. UNCHANGED <<files, struck>>
    BY <1>10 DEF SignAgain
  <2> QED
    BY <1>10, <2>1, <2>2, EndsMoves DEF SignAgain
<1> QED
  BY <1>1, <1>2, <1>3, <1>4, <1>5, <1>6, <1>7, <1>8, <1>9, <1>10 DEF Link

LEMMA LinkWhole ==
    ASSUME RequestsOK, WholeInv, NEW r \in Requests, Link(r)
    PROVE  WholeInv'
<1>1. /\ Moves(r) /\ UNCHANGED <<doc, object, listed, struck>>
      /\ req'[r].pc \in {"read", "reread", "cache", "count", "find", "sign", "resign", "keep",
                        "look", "answer", "ended"}
  BY LinkMoves DEF files
<1> QED
  BY <1>1, QuietCalls, QuietWhole

(* A removal only takes away what it has struck, and that no conversion is *)
(* about to give a document.                                               *)
LEMMA RemovalWhole ==
    ASSUME RequestsOK, WholeInv, StatusOK, NEW r \in Requests, Removal(r)
    PROVE  WholeInv'
<1>0. /\ CallWhole(req[r], doc, object, struck)
      /\ \A q \in Requests : CallWhole(req[q], doc, object, struck)
  BY DEF WholeInv
<1>1. ASSUME NEW pc \in Removing, req[r].pc \in Removing, Goto(r, pc),
             UNCHANGED <<doc, struck>>
      PROVE  Moves(r) /\ req'[r].pc # "create" /\ CallWhole(req'[r], doc', object', struck')
  <2>1. Moves(r) /\ req'[r].pc = pc /\ req'[r].files = req[r].files
    BY <1>1, GotoMoves
  <2> QED
    BY <1>0, <1>1, <2>1 DEF CallWhole, Removing
<1>2. {"unlist", "erase", "uncache", "unlink", "drop"} = Removing
  BY DEF Removing
<1>3. req[r].pc \in Removing => /\ File(r) \in Files /\ File(r) \in struck /\ doc[File(r)] # "unborn"
                                /\ \A q \in Requests : At(q, "create") => File(q) # File(r)
  BY <1>0 DEF CallWhole, File, At
<1>4. CASE Unlist(r)
  <2>1. /\ req[r].pc \in Removing /\ Goto(r, "erase") /\ listed' \subseteq listed
        /\ UNCHANGED <<doc, object, struck>>
    BY <1>2, <1>4 DEF Unlist, At
  <2>2. Moves(r) /\ req'[r].pc # "create" /\ CallWhole(req'[r], doc', object', struck')
    BY <1>1, <1>2, <2>1
  <2>3. Keeps /\ Spares(r)
    BY <2>1 DEF Keeps, Spares
  <2> QED
    BY <2>1, <2>2, <2>3, WholeMoves DEF WholeInv
<1>5. CASE UnlistFails(r)
  <2>1. req[r].pc \in Removing /\ UNCHANGED <<doc, object, listed, struck>>
    BY <1>2, <1>5 DEF UnlistFails, At, files
  <2>2. CASE req[r].n = 1
    <3>1. Moves(r) /\ req'[r].pc # "create" /\ CallWhole(req'[r], doc', object', struck')
      BY <1>1, <1>2, <1>5, <2>1, <2>2 DEF UnlistFails
    <3> QED
      BY <2>1, <3>1, StillWhole
  <2>3. CASE req[r].n # 1
    <3>1. Moves(r) /\ req'[r].pc = "ended"
      BY <1>5, <2>3, EndsMoves DEF UnlistFails
    <3> QED
      BY <2>1, <3>1, QuietCalls, QuietWhole
  <2> QED
    BY <2>2, <2>3
<1>6. CASE Erase(r)
  <2>1. /\ req[r].pc \in Removing /\ Goto(r, "uncache")
        /\ object' \in {object, object \ {File(r)}} /\ UNCHANGED <<doc, listed, struck>>
    BY <1>2, <1>6 DEF Erase, At
  <2>2. Moves(r) /\ req'[r].pc # "create" /\ CallWhole(req'[r], doc', object', struck')
    BY <1>1, <1>2, <2>1
  <2>3. Keeps /\ Spares(r)
    BY <1>3, <2>1 DEF Keeps, Spares, Whole
  <2> QED
    BY <2>1, <2>2, <2>3, WholeMoves DEF WholeInv
<1>7. CASE Uncache(r)
  <2>1. req[r].pc \in Removing /\ Goto(r, "unlink") /\ UNCHANGED <<doc, object, listed, struck>>
    BY <1>2, <1>7 DEF Uncache, At, files
  <2>2. Moves(r) /\ req'[r].pc # "create" /\ CallWhole(req'[r], doc', object', struck')
    BY <1>1, <1>2, <2>1
  <2> QED
    BY <2>1, <2>2, StillWhole
<1>8. CASE Unlink(r)
  <2>1. req[r].pc \in Removing /\ Goto(r, "drop") /\ UNCHANGED <<doc, object, listed, struck>>
    BY <1>2, <1>8 DEF Unlink, At, files
  <2>2. Moves(r) /\ req'[r].pc # "create" /\ CallWhole(req'[r], doc', object', struck')
    BY <1>1, <1>2, <2>1
  <2> QED
    BY <2>1, <2>2, StillWhole
<1>9. CASE Drop(r)
  <2>1. /\ req[r].pc \in Removing /\ Ends(r) /\ doc' = [doc EXCEPT ![File(r)] = "gone"]
        /\ UNCHANGED <<object, listed, struck>>
    BY <1>2, <1>9 DEF Drop, At
  <2>2. Moves(r) /\ req'[r].pc = "ended"
    BY <2>1, EndsMoves
  <2>3. Keeps /\ Spares(r)
    BY <1>3, <2>1 DEF Keeps, Spares, Whole, StatusOK
  <2>4. CallWhole(req'[r], doc', object', struck')
    BY <2>2 DEF CallWhole, Removing
  <2> QED
    BY <2>1, <2>2, <2>3, <2>4, WholeMoves DEF WholeInv
<1> QED
  BY <1>4, <1>5, <1>6, <1>7, <1>8, <1>9 DEF Removal

(* Multipart uploads begin with files nobody has, and never get to the end.*)
LEMMA StoresWhole ==
    ASSUME WholeInv, UNCHANGED <<req, listed, struck>>, Keeps,
           \A q \in Requests : At(q, "create") =>
              doc'[File(q)] = doc[File(q)] /\ (File(q) \in object => File(q) \in object')
    PROVE  WholeInv'
<1>1. ASSUME NEW q \in Requests PROVE CallWhole(req[q], doc', object', struck')
  <2>1. CallWhole(req[q], doc, object, struck)
    BY DEF WholeInv
  <2> QED
    BY <2>1 DEF CallWhole, Keeps, At, File
<1>2. ASSUME NEW f \in listed', f \notin struck' PROVE Whole(f, doc', object')
  BY <1>2 DEF WholeInv, Keeps
<1> QED
  BY <1>1, <1>2 DEF WholeInv, At, File

LEMMA MultipartWhole ==
    ASSUME WholeInv, StatusOK, NEW f \in Files, InitMultipart(f) \/ CompleteMultipart(f)
    PROVE  WholeInv'
<1>1. CASE InitMultipart(f)
  <2>1. /\ doc[f] = "unborn" /\ f \notin object /\ doc' = [doc EXCEPT ![f] = "partial"]
        /\ UNCHANGED <<req, object, listed, struck>>
    BY <1>1 DEF InitMultipart, work
  <2>2. \A q \in Requests : At(q, "create") => File(q) \in object
    BY DEF WholeInv, CallWhole, At, File
  <2>3. Keeps
    BY <2>1 DEF Keeps, Whole, StatusOK
  <2> QED
    BY <2>1, <2>2, <2>3, StoresWhole
<1>2. CASE CompleteMultipart(f)
  <2>1. UNCHANGED <<req, doc, object, listed, struck>>
    BY <1>2 DEF CompleteMultipart, FoundByUploadId, work
  <2>2. Keeps
    BY <2>1 DEF Keeps
  <2> QED
    BY <2>1, <2>2, StoresWhole
<1> QED
  BY <1>1, <1>2

(* An artifact is a file of its own until it has its document.             *)
LEMMA ConversionWhole ==
    ASSUME RequestsOK, WholeInv, StatusOK, NEW r \in Requests, Conversion(r)
    PROVE  WholeInv'
<1>0. CallWhole(req[r], doc, object, struck) /\ req[r] \in Calls
  BY CallOK DEF WholeInv
<1>1. ASSUME UNCHANGED <<doc, object, listed, struck>>, Ends(r) PROVE WholeInv'
  <2>1. Moves(r) /\ req'[r].pc = "ended"
    BY <1>1, EndsMoves
  <2> QED
    BY <1>1, <2>1, QuietCalls, QuietWhole
<1>2. ASSUME UNCHANGED <<doc, object, listed, struck>>, NEW pc \in {"load", "convert"}, Goto(r, pc)
      PROVE  WholeInv'
  <2>1. Moves(r) /\ req'[r].pc = pc
    BY <1>2, GotoMoves
  <2> QED
    BY <1>2, <2>1, QuietCalls, QuietWhole
<1>3. CASE ResolveTarget(r)
  BY <1>1, <1>2, <1>3 DEF ResolveTarget, files
<1>4. CASE LoadSource(r)
  BY <1>1, <1>2, <1>4 DEF LoadSource, files
<1>5. ASSUME NEW n, Produce(r, n) PROVE WholeInv'
  <2>1. /\ req' = [req EXCEPT ![r].pc = "upload", ![r].n = n, ![r].files = <<>>]
        /\ UNCHANGED <<doc, object, listed, struck, age, got>>
    BY <1>5 DEF Produce, files
  <2>2. Moves(r) /\ req'[r].pc = "upload"
    BY <1>0, <2>1 DEF Moves, RequestsOK, Calls
  <2> QED
    BY <2>1, <2>2, QuietCalls, QuietWhole
<1>6. CASE ConvertText(r) \/ ConvertOffice(r) \/ ConvertPages(r)
  BY <1>5, <1>6 DEF ConvertText, ConvertOffice, ConvertPages
<1>7. CASE Inconvertible(r) \/ ConvertFails(r)
  BY <1>1, <1>7 DEF Inconvertible, ConvertFails, files
<1>8. ASSUME NEW g \in Files, Upload(r, g) PROVE WholeInv'
  <2>1. /\ doc[g] = "unborn" /\ g \notin object /\ object' = object \cup {g}
        /\ req' = [req EXCEPT ![r].pc = "create", ![r].files = <<g>>]
        /\ UNCHANGED <<doc, listed, struck, age, got>>
    BY <1>8 DEF Upload
  <2>2. Moves(r) /\ req'[r].pc = "create" /\ req'[r].files = <<g>>
    BY <1>0, <2>1 DEF Moves, RequestsOK, Calls
  <2>3. <<g>> # <<>> /\ Head(<<g>>) = g
    OBVIOUS
  <2> QED
    BY <2>1, <2>2, <2>3, NewObjectWhole
<1>9. CASE Create(r)
  <2>0. PICK made \in {"confirmed", "complete"} : doc' = [doc EXCEPT ![File(r)] = made]
    BY <1>9 DEF Create, Created
  <2>1. /\ req[r].pc = "create" /\ doc' = [doc EXCEPT ![File(r)] = made] /\ Goto(r, "list")
        /\ UNCHANGED <<object, listed, struck>>
    BY <1>9, <2>0 DEF Create, At
  <2>2. File(r) \in Files /\ doc[File(r)] = "unborn" /\ File(r) \in object /\ req[r].files # <<>>
    BY <1>0, <2>1 DEF CallWhole, File
  <2>3. Moves(r) /\ req'[r].pc = "list" /\ req'[r].files = req[r].files
    BY <2>1, GotoMoves
  <2>4. Keeps
    BY <2>1, <2>2 DEF Keeps, Whole, StatusOK
  <2>5. Spares(r)
    BY <2>1, <2>2 DEF Spares, WholeInv, At, StatusOK
  <2>6. Whole(File(r), doc', object')
    BY <2>1, <2>2 DEF Whole, StatusOK
  <2>7. CallWhole(req'[r], doc', object', struck')
    BY <2>2, <2>3, <2>6 DEF CallWhole, Removing, File
  <2> QED
    BY <2>1, <2>3, <2>4, <2>5, <2>7, WholeMoves DEF WholeInv
<1>10. CASE List(r)
  <2>1. /\ req[r].pc = "list" /\ listed' = listed \cup {File(r)}
        /\ UNCHANGED <<doc, object, struck>>
    BY <1>10 DEF List, At
  <2>2. File(r) \in Files /\ (File(r) \notin struck => Whole(File(r), doc, object))
    BY <1>0, <2>1 DEF CallWhole, File
  <2>3. Moves(r) /\ req'[r].pc \in {"ended", "upload"}
    <3>1. CASE req[r].n = 1
      BY <1>10, <3>1, EndsMoves DEF List
    <3>2. CASE req[r].n # 1
      <4>1. /\ req' = [req EXCEPT ![r].pc = "upload", ![r].n = @ - 1, ![r].files = <<>>]
            /\ UNCHANGED <<age, got>>
        BY <1>10, <3>2 DEF List
      <4> QED
        BY <1>0, <4>1 DEF Moves, RequestsOK, Calls
    <3> QED
      BY <3>1, <3>2
  <2>4. Keeps /\ Spares(r)
    BY <2>1 DEF Keeps, Spares
  <2>5. CallWhole(req'[r], doc', object', struck')
    BY <2>3 DEF CallWhole, Removing
  <2>6. listed' \subseteq Files /\ \A f \in listed' \ listed : f \notin struck' => Whole(f, doc', object')
    BY <2>1, <2>2 DEF WholeInv
  <2> QED
    BY <2>3, <2>4, <2>5, <2>6, WholeMoves
<1> QED
  BY <1>3, <1>4, <1>6, <1>7, <1>8, <1>9, <1>10 DEF Conversion

LEMMA InitiallyWhole == Init => WholeInv
<1> SUFFICES ASSUME Init PROVE WholeInv
  OBVIOUS
<1>1. \A r \in Requests : req[r].pc = "idle"
  BY DEF Init, Rest
<1>2. \A r \in Requests : CallWhole(req[r], doc, object, struck)
  BY <1>1 DEF CallWhole, Removing
<1>3. \A f \in listed \ struck : Whole(f, doc, object)
  BY DeliveryAssumption DEF Init, Whole
<1> QED
  BY <1>1, <1>2, <1>3, DeliveryAssumption DEF Init, WholeInv, At

LEMMA StepwiseWhole ==
    ASSUME IInv, WholeInv, [Next]_vars
    PROVE  WholeInv'
<1>0. RequestsOK /\ StatusOK
  BY DEF IInv
<1>1. CASE \E r \in Requests : Start(r) \/ Link(r) \/ Removal(r) \/ Conversion(r)
  BY <1>0, <1>1, StartWhole, LinkWhole, RemovalWhole, ConversionWhole
<1>2. CASE \E f \in Files : Multipart(f)
  <2>1. PICK f \in Files : InitMultipart(f) \/ CompleteMultipart(f)
    BY <1>2 DEF Multipart
  <2> QED
    BY <1>0, <2>1, MultipartWhole
<1>3. ASSUME UNCHANGED <<req, doc, object, listed, struck>> PROVE WholeInv'
  <2>1. Keeps
    BY <1>3 DEF Keeps
  <2> QED
    BY <1>3, <2>1, StoresWhole
<1>4. CASE \E f \in Expiring : Expire(f)
  BY <1>3, <1>4 DEF Expire, work
<1>5. CASE Tick
  BY <1>3, <1>5 DEF Tick, files
<1>6. CASE UNCHANGED vars
  BY <1>3, <1>6 DEF vars, files, work
<1> QED
  BY <1>1, <1>2, <1>4, <1>5, <1>6 DEF Next

(* What a room or storage lists has its object and its document, complete  *)
(* or of an upload that is done, unless its removal has begun, wherever    *)
(* confirms and conversions stop, with whatever removals, uploads and      *)
(* other conversions between their three writes.                           *)
THEOREM ListedIsAlwaysWhole == Spec => []ListedIsWhole
<1>1. WholeInv => ListedIsWhole
  BY DEF WholeInv, ListedIsWhole, Whole
<1>2. IInv /\ WholeInv /\ [Next]_vars => IInv' /\ WholeInv'
  BY Stepwise, StepwiseWhole
<1>3. Init => IInv /\ WholeInv
  BY Initially, InitiallyWhole
<1>4. Spec => []WholeInv
  BY <1>2, <1>3, PTL DEF Spec
<1> QED
  BY <1>1, <1>4, PTL
-----------------------------------------------------------------------------
(* What is gone is refused.  u counts the time since a file expired or its *)
(* document went.  Metadata read while the file was in service is cached   *)
(* within the age of the request that read it, and an entry that still     *)
(* lives was made as long before as it has aged.  A request that passes by *)
(* such an entry, or its own reading, has taken that time and its own age. *)
Window == MetaKept + Patience

FreshCall(c, a, g, u) ==
    /\ c.pc \in {"look", "read", "reread", "cache"} => c.op \in Links \cup {"show"}
    /\ c.pc = "cache" => u[Head(c.files)] <= a
    /\ c.pc \in {"count", "find", "sign", "resign", "keep"} => u[Head(c.files)] < Window + a
    /\ \A f \in DOMAIN g : u[f] < Window + a

TimesOK ==
    /\ meta \in [Files -> Nat] /\ out \in [Files -> Nat]
    /\ \A f \in Files : f \notin late /\ doc[f] # "gone" => out[f] = 0
    /\ \A f \in Files : meta[f] > 0 => meta[f] <= MetaKept /\ out[f] + meta[f] <= Window

FreshInv == TimesOK /\ \A r \in Requests : FreshCall(req[r], age[r], got[r], out)

LEMMA Lives == MetaKept \in Nat /\ MetaKept > 0 /\ Patience \in Nat /\ Window \in Nat
BY DeliveryAssumption DEF Window

LEMMA FreshMoves ==
    ASSUME FreshInv, NEW r \in Requests, Moves(r), UNCHANGED out, TimesOK',
           FreshCall(req'[r], age'[r], got'[r], out)
    PROVE  FreshInv'
<1>1. ASSUME NEW q \in Requests PROVE FreshCall(req'[q], age'[q], got'[q], out')
  <2>1. CASE q = r
    BY <2>1
  <2>2. CASE q # r
    BY <2>2 DEF Moves, FreshInv
  <2> QED
    BY <2>1, <2>2
<1> QED
  BY <1>1 DEF FreshInv

(* A document that is gone does not come back, and time is not set back.   *)
LEMMA TimesStay ==
    ASSUME TimesOK, UNCHANGED <<meta, out>>, late \subseteq late',
           \A f \in Files : doc[f] = "gone" => doc'[f] = "gone"
    PROVE  TimesOK'
BY DEF TimesOK

LEMMA TimesForget ==
    ASSUME TimesOK, NEW f \in Files, meta' = [meta EXCEPT ![f] = 0], UNCHANGED <<out, late, doc>>
    PROVE  TimesOK'
BY DEF TimesOK

(* A request that is past the metadata of its file, or neither looks it up *)
(* nor deals in addresses.                                                 *)
LEMMA FreshPast ==
    ASSUME NEW c, NEW a \in Nat, NEW g, NEW u,
           c.pc \notin {"look", "read", "reread", "cache", "count", "find", "sign", "resign", "keep"},
           \A f \in DOMAIN g : u[f] < Window + a
    PROVE  FreshCall(c, a, g, u)
BY DEF FreshCall

LEMMA FreshEnds ==
    ASSUME RequestsOK, FreshInv, NEW r \in Requests, Ends(r), UNCHANGED out, TimesOK'
    PROVE  FreshInv'
<1>1. Moves(r) /\ req'[r].pc = "ended" /\ age'[r] = 0 /\ DOMAIN got'[r] = {}
  BY EndsMoves
<1>2. FreshCall(req'[r], age'[r], got'[r], out)
  BY <1>1, FreshPast
<1> QED
  BY <1>1, <1>2, FreshMoves

LEMMA FreshGoto ==
    ASSUME RequestsOK, FreshInv, NEW r \in Requests, NEW pc, Goto(r, pc), UNCHANGED out, TimesOK',
           pc \notin {"look", "read", "reread", "cache", "count", "find", "sign", "resign", "keep"}
    PROVE  FreshInv'
<1>1. Moves(r) /\ req'[r].pc = pc /\ age' = age /\ got' = got
  BY GotoMoves
<1>2. FreshCall(req[r], age[r], got[r], out) /\ age[r] \in Nat
  BY CallOK DEF FreshInv, RequestOK
<1>3. FreshCall(req'[r], age'[r], got'[r], out)
  BY <1>1, <1>2, FreshPast DEF FreshCall
<1> QED
  BY <1>1, <1>3, FreshMoves

LEMMA StartFresh ==
    ASSUME RequestsOK, FreshInv, NEW r \in Requests, Start(r)
    PROVE  FreshInv'
<1>1. ASSUME NEW op, NEW pc \in {"look", "target", "unlist"}, NEW s, NEW n, NEW status,
             Begin(r, op, pc, s, n, status), pc = "look" => op \in Links \cup {"show"}
      PROVE  FreshInv'
  <2>1. /\ Moves(r) /\ req'[r].pc = pc /\ req'[r].op = op /\ age' = age /\ got' = got
        /\ DOMAIN got[r] = {} /\ UNCHANGED <<doc, late, meta, out>>
    BY <1>1, BeginMoves
  <2>2. TimesOK'
    BY <2>1, TimesStay DEF FreshInv
  <2>3. FreshCall(req'[r], age'[r], got'[r], out)
    BY <1>1, <2>1 DEF FreshCall
  <2> QED
    BY <2>1, <2>2, <2>3, FreshMoves
<1>2. ASSUME NEW s \in Batches, BeginDownload(r, s) PROVE FreshInv'
  BY <1>1, <1>2 DEF BeginDownload, Links
<1>3. ASSUME NEW f, BeginByToken(r, f) \/ BeginPreview(r, f) \/ BeginThumbnail(r, f)
                    \/ BeginStream(r, f) \/ BeginShow(r, f)
      PROVE  FreshInv'
  BY <1>1, <1>3 DEF BeginByToken, BeginPreview, BeginThumbnail, BeginStream, BeginShow, Links
<1>4. ASSUME NEW f, BeginConvert(r, f) PROVE FreshInv'
  <2>1. \E status : Begin(r, "convert", "target", <<f>>, 0, status)
    BY <1>4 DEF BeginConvert
  <2> QED
    BY <1>1, <2>1
<1>5. ASSUME NEW f, NEW n \in {0, 1}, BeginRemove(r, f, n) PROVE FreshInv'
  <2>1. Begin(r, "remove", "unlist", <<f>>, n, "none")
    BY <1>5 DEF BeginRemove
  <2> QED
    BY <1>1, <2>1
<1>6. ASSUME NEW g \in Files, BeginConfirm(r, g) PROVE FreshInv'
  <2>1. /\ Moves(r) /\ age' = age /\ got' = got /\ DOMAIN got[r] = {} /\ req'[r].pc = "create"
        /\ UNCHANGED <<doc, late, meta, out>>
    BY <1>6, ConfirmMoves
  <2>2. TimesOK'
    BY <2>1, TimesStay DEF FreshInv
  <2>3. FreshCall(req'[r], age'[r], got'[r], out)
    BY <2>1 DEF FreshCall
  <2> QED
    BY <2>1, <2>2, <2>3, FreshMoves
<1> QED
  BY <1>2, <1>3, <1>4, <1>5, <1>6 DEF Start

-----------------------------------------------------------------------------
(* A request goes on with metadata that is fresh enough, or is refused.    *)
LEMMA VerifiedFresh ==
    ASSUME RequestsOK, FreshInv, NEW r \in Requests, NEW status, Verified(r, status),
           out[File(r)] < Window + age[r], UNCHANGED out, TimesOK'
    PROVE  FreshInv'
<1>1. FreshCall(req[r], age[r], got[r], out)
  BY DEF FreshInv
<1>2. CASE req'[r].pc \in {"count", "find"} /\ req'[r].files = req[r].files /\ age' = age /\ got' = got
  <2>1. FreshCall(req'[r], age'[r], got'[r], out)
    BY <1>1, <1>2 DEF FreshCall, File
  <2> QED
    BY <2>1, VerifiedMoves, FreshMoves
<1>3. CASE req'[r].pc = "ended" /\ age'[r] = 0 /\ DOMAIN got'[r] = {}
  <2>1. FreshCall(req'[r], age'[r], got'[r], out)
    BY <1>3, FreshPast
  <2> QED
    BY <2>1, VerifiedMoves, FreshMoves
<1> QED
  BY <1>2, <1>3, VerifiedMoves

LEMMA LookFresh ==
    ASSUME RequestsOK, FreshInv, NEW r \in Requests, Look(r)
    PROVE  FreshInv'
<1>1. /\ RequestOK(req[r], age[r], got[r]) /\ FreshCall(req[r], age[r], got[r], out)
      /\ req[r].pc = "look" /\ UNCHANGED <<doc, late, meta, out>>
  BY CallOK DEF FreshInv, Look, At, files, cache
<1>2. File(r) \in Files /\ age[r] \in Nat
  BY <1>1, FileIsFile DEF RequestOK
<1>3. TimesOK'
  BY <1>1, TimesStay DEF FreshInv
<1>4. CASE meta[File(r)] > 0
  <2>1. Verified(r, seen[File(r)])
    BY <1>4 DEF Look
  <2>2. meta[File(r)] \in Nat /\ out[File(r)] \in Nat /\ out[File(r)] + meta[File(r)] <= Window
    BY <1>2, <1>4 DEF FreshInv, TimesOK
  <2>3. out[File(r)] < Window + age[r]
    BY <1>2, <1>4, <2>2, Lives
  <2> QED
    BY <1>1, <1>3, <2>1, <2>3, VerifiedFresh
<1>5. CASE ~(meta[File(r)] > 0)
  <2>1. Goto(r, "read")
    BY <1>5 DEF Look
  <2>2. Moves(r) /\ req'[r].pc = "read" /\ req'[r].op = req[r].op /\ age' = age /\ got' = got
    BY <2>1, GotoMoves
  <2>3. FreshCall(req'[r], age'[r], got'[r], out)
    BY <1>1, <2>2 DEF FreshCall
  <2> QED
    BY <1>1, <1>3, <2>2, <2>3, FreshMoves
<1> QED
  BY <1>4, <1>5

LEMMA ReadDocFresh ==
    ASSUME RequestsOK, FreshInv, NEW r \in Requests, ReadDoc(r)
    PROVE  FreshInv'
<1>1. /\ RequestOK(req[r], age[r], got[r]) /\ FreshCall(req[r], age[r], got[r], out)
      /\ req[r] \in Calls /\ req[r].pc = "read" /\ UNCHANGED <<doc, late, meta, out>>
  BY CallOK DEF FreshInv, ReadDoc, At, files, cache
<1>2. File(r) \in Files /\ age[r] \in Nat
  BY <1>1, FileIsFile DEF RequestOK
<1>3. TimesOK'
  BY <1>1, TimesStay DEF FreshInv
<1>4. ASSUME InService(File(r)), req' = [req EXCEPT ![r].pc = "cache", ![r].status = doc[File(r)]],
             UNCHANGED <<age, got>>
      PROVE  FreshInv'
  <2>1. /\ req' = [req EXCEPT ![r].pc = "cache", ![r].status = doc[File(r)]]
        /\ UNCHANGED <<age, got>>
    BY <1>4
  <2>2. Moves(r) /\ req'[r].pc = "cache" /\ req'[r].op = req[r].op /\ req'[r].files = req[r].files
    BY <1>1, <2>1 DEF Moves, RequestsOK, Calls
  <2>3. out[File(r)] = 0
    BY <1>2, <1>4 DEF FreshInv, TimesOK, InService, Exists
  <2>4. FreshCall(req'[r], age'[r], got'[r], out)
    BY <1>1, <1>2, <2>1, <2>2, <2>3 DEF FreshCall, File
  <2> QED
    BY <1>1, <1>3, <2>2, <2>4, FreshMoves
<1>5. ASSUME Goto(r, "reread") PROVE FreshInv'
  <2>1. Moves(r) /\ req'[r].pc = "reread" /\ req'[r].op = req[r].op /\ age' = age /\ got' = got
    BY <1>5, GotoMoves
  <2>2. FreshCall(req'[r], age'[r], got'[r], out)
    BY <1>1, <2>1 DEF FreshCall
  <2> QED
    BY <1>1, <1>3, <2>1, <2>2, FreshMoves
<1>6. ASSUME Ends(r) PROVE FreshInv'
  BY <1>1, <1>3, <1>6, FreshEnds
<1> QED
  BY <1>4, <1>5, <1>6 DEF ReadDoc

LEMMA ReadAgainFresh ==
    ASSUME RequestsOK, FreshInv, NEW r \in Requests, ReadAgain(r)
    PROVE  FreshInv'
<1>1. /\ RequestOK(req[r], age[r], got[r]) /\ req[r].pc = "reread"
      /\ UNCHANGED <<doc, late, meta, out>>
  BY CallOK DEF ReadAgain, At, files, cache
<1>2. File(r) \in Files /\ age[r] \in Nat
  BY <1>1, FileIsFile DEF RequestOK
<1>3. TimesOK'
  BY <1>1, TimesStay DEF FreshInv
<1>4. ASSUME InService(File(r)), Verified(r, doc[File(r)]) PROVE FreshInv'
  <2>1. out[File(r)] = 0
    BY <1>2, <1>4 DEF FreshInv, TimesOK, InService, Exists
  <2>2. out[File(r)] < Window + age[r]
    BY <1>2, <2>1, Lives DEF Window
  <2> QED
    BY <1>1, <1>3, <1>4, <2>2, VerifiedFresh
<1>5. ASSUME Ends(r) PROVE FreshInv'
  BY <1>1, <1>3, <1>5, FreshEnds
<1> QED
  BY <1>4, <1>5 DEF ReadAgain

LEMMA CacheMetaFresh ==
    ASSUME RequestsOK, FreshInv, NEW r \in Requests, CacheMeta(r)
    PROVE  FreshInv'
<1>1. /\ RequestOK(req[r], age[r], got[r]) /\ FreshCall(req[r], age[r], got[r], out)
      /\ req[r].pc = "cache" /\ UNCHANGED <<doc, late, out>>
      /\ meta' = [meta EXCEPT ![File(r)] = MetaKept]
  BY CallOK DEF FreshInv, CacheMeta, At, files
<1>2. File(r) \in Files /\ age[r] \in Nat /\ age[r] <= Patience
  BY <1>1, FileIsFile DEF RequestOK
<1>3. out[File(r)] \in Nat /\ out[File(r)] <= age[r]
  BY <1>1, <1>2 DEF FreshCall, File, FreshInv, TimesOK
<1>4. MetaKept <= MetaKept /\ out[File(r)] + MetaKept <= Window /\ out[File(r)] < Window + age[r]
  BY <1>2, <1>3, Lives DEF Window
<1>5. TimesOK'
  BY <1>1, <1>2, <1>4, Lives DEF FreshInv, TimesOK
<1> QED
  BY <1>1, <1>4, <1>5, VerifiedFresh DEF CacheMeta

LEMMA CountFresh ==
    ASSUME RequestsOK, FreshInv, NEW r \in Requests, Count(r)
    PROVE  FreshInv'
<1>1. /\ RequestOK(req[r], age[r], got[r]) /\ FreshCall(req[r], age[r], got[r], out)
      /\ req[r].pc = "count" /\ UNCHANGED <<doc, late, out>>
      /\ meta' = [meta EXCEPT ![File(r)] = 0]
  BY CallOK DEF FreshInv, Count, At, files
<1>2. File(r) \in Files
  BY <1>1, FileIsFile DEF RequestOK
<1>3. TimesOK'
  BY <1>1, <1>2, TimesForget DEF FreshInv
<1>4. Moves(r) /\ req'[r].pc = "find" /\ req'[r].files = req[r].files /\ age' = age /\ got' = got
  BY GotoMoves DEF Count
<1>5. FreshCall(req'[r], age'[r], got'[r], out)
  BY <1>1, <1>4 DEF FreshCall
<1> QED
  BY <1>1, <1>3, <1>4, <1>5, FreshMoves

-----------------------------------------------------------------------------
(* Addresses are as fresh as the metadata that let the request get them.   *)
LEMMA PutFresh ==
    ASSUME RequestsOK, FreshInv, NEW r \in Requests, NEW f \in Files, NEW left,
           got' = [got EXCEPT ![r] = Put(@, f, left)], out[f] < Window + age[r]
    PROVE  /\ DOMAIN got' = Requests /\ \A q \in Requests \ {r} : got'[q] = got[q]
           /\ \A g \in DOMAIN got'[r] : out[g] < Window + age[r]
<1>1. DOMAIN got = Requests /\ FreshCall(req[r], age[r], got[r], out)
  BY DEF RequestsOK, FreshInv
<1>2. got'[r] = [x \in DOMAIN got[r] \cup {f} |-> IF x = f THEN left ELSE got[r][x]]
  BY <1>1 DEF Put
<1>3. DOMAIN got'[r] = DOMAIN got[r] \cup {f}
  BY <1>2
<1> QED
  BY <1>1, <1>3 DEF FreshCall

LEMMA NextFileFresh ==
    ASSUME RequestsOK, FreshInv, NEW r \in Requests, NextFile(r), UNCHANGED <<age, out>>, TimesOK',
           DOMAIN got' = Requests, \A q \in Requests \ {r} : got'[q] = got[q],
           req[r].op \in Links, \A g \in DOMAIN got'[r] : out[g] < Window + age[r]
    PROVE  FreshInv'
<1>1. Moves(r) /\ req'[r].pc \in {"look", "answer"} /\ req'[r].op = req[r].op /\ age'[r] = age[r]
  BY NextFileMoves
<1>2. FreshCall(req'[r], age'[r], got'[r], out)
  BY <1>1 DEF FreshCall
<1> QED
  BY <1>1, <1>2, FreshMoves

LEMMA AddressFresh ==
    ASSUME RequestsOK, FreshInv, NEW r \in Requests,
           FindAddress(r) \/ Sign(r) \/ SignAgain(r) \/ KeepAddress(r)
    PROVE  FreshInv'
<1>1. /\ FreshCall(req[r], age[r], got[r], out) /\ req[r] \in Calls
      /\ req[r].pc \in {"find", "sign", "resign", "keep"} /\ UNCHANGED <<doc, late, meta, out>>
      /\ req[r].op \in Links /\ File(r) \in Files /\ age[r] \in Nat
  BY AskedOK DEF FreshInv, FindAddress, Sign, SignAgain, KeepAddress, At, files, cache
<1>2. TimesOK'
  BY <1>1, TimesStay DEF FreshInv
<1>3. out[File(r)] < Window + age[r]
  BY <1>1 DEF FreshCall, File
<1>4. CASE FindAddress(r)
  <2>1. CASE address[File(r)][Kind(req[r])].keep > 0
    <3>1. /\ got' = [got EXCEPT ![r] = Put(@, File(r), address[File(r)][Kind(req[r])].left)]
          /\ NextFile(r) /\ UNCHANGED age
      BY <1>4, <2>1 DEF FindAddress
    <3>2. /\ DOMAIN got' = Requests /\ \A q \in Requests \ {r} : got'[q] = got[q]
          /\ \A g \in DOMAIN got'[r] : out[g] < Window + age[r]
      BY <1>1, <1>3, <3>1, PutFresh
    <3> QED
      BY <1>1, <1>2, <3>1, <3>2, NextFileFresh
  <2>2. CASE ~(address[File(r)][Kind(req[r])].keep > 0)
    <3>1. Goto(r, "sign")
      BY <1>4, <2>2 DEF FindAddress
    <3>2. Moves(r) /\ req'[r].pc = "sign" /\ req'[r].files = req[r].files /\ age' = age /\ got' = got
      BY <3>1, GotoMoves
    <3>3. FreshCall(req'[r], age'[r], got'[r], out)
      BY <1>1, <3>2 DEF FreshCall
    <3> QED
      BY <1>1, <1>2, <3>2, <3>3, FreshMoves
  <2> QED
    BY <2>1, <2>2
<1>5. ASSUME Signed(r)
      PROVE  /\ DOMAIN got' = Requests /\ \A q \in Requests \ {r} : got'[q] = got[q]
             /\ \A g \in DOMAIN got'[r] : out[g] < Window + age[r]
  BY <1>1, <1>3, <1>5, PutFresh DEF Signed
<1>6. CASE Sign(r)
  <2>1. ASSUME Goto(r, "resign") PROVE FreshInv'
    <3>1. Moves(r) /\ req'[r].pc = "resign" /\ req'[r].files = req[r].files /\ age' = age /\ got' = got
      BY <2>1, GotoMoves
    <3>2. FreshCall(req'[r], age'[r], got'[r], out)
      BY <1>1, <3>1 DEF FreshCall
    <3> QED
      BY <1>1, <1>2, <3>1, <3>2, FreshMoves
  <2>2. ASSUME Signed(r), UNCHANGED age, req' = [req EXCEPT ![r].pc = "keep"] PROVE FreshInv'
    <3>1. UNCHANGED age /\ req' = [req EXCEPT ![r].pc = "keep"]
      BY <2>2
    <3>2. /\ DOMAIN got' = Requests /\ \A q \in Requests \ {r} : got'[q] = got[q]
          /\ \A g \in DOMAIN got'[r] : out[g] < Window + age[r]
      BY <1>5, <2>2
    <3>3. Moves(r) /\ req'[r].pc = "keep" /\ req'[r].files = req[r].files
      BY <1>1, <3>1, <3>2 DEF Moves, RequestsOK, Calls
    <3>4. FreshCall(req'[r], age'[r], got'[r], out)
      BY <1>3, <3>1, <3>2, <3>3 DEF FreshCall, File
    <3> QED
      BY <1>1, <1>2, <3>3, <3>4, FreshMoves
  <2> QED
    BY <1>6, <2>1, <2>2 DEF Sign
<1>7. CASE SignAgain(r)
  <2>1. ASSUME Signed(r), NextFile(r), UNCHANGED age PROVE FreshInv'
    <3>1. /\ DOMAIN got' = Requests /\ \A q \in Requests \ {r} : got'[q] = got[q]
          /\ \A g \in DOMAIN got'[r] : out[g] < Window + age[r]
      BY <1>5, <2>1
    <3> QED
      BY <1>1, <1>2, <2>1, <3>1, NextFileFresh
  <2> QED
    BY <1>1, <1>2, <1>7, <2>1, FreshEnds DEF SignAgain
<1>8. CASE KeepAddress(r)
  <2>1. NextFile(r) /\ UNCHANGED <<age, got>>
    BY <1>8 DEF KeepAddress
  <2>2. /\ DOMAIN got' = Requests /\ \A q \in Requests \ {r} : got'[q] = got[q]
        /\ \A g \in DOMAIN got'[r] : out[g] < Window + age[r]
    BY <1>1, <2>1 DEF RequestsOK, FreshCall
  <2> QED
    BY <1>1, <1>2, <2>1, <2>2, NextFileFresh
<1> QED
  BY <1>4, <1>6, <1>7, <1>8

LEMMA LinkFresh ==
    ASSUME RequestsOK, FreshInv, NEW r \in Requests, Link(r)
    PROVE  FreshInv'
<1>1. CASE Answer(r)
  <2>1. Ends(r) /\ UNCHANGED <<doc, late, meta, out>>
    BY <1>1 DEF Answer, files, cache
  <2> QED
    BY <2>1, TimesStay, FreshEnds DEF FreshInv
<1> QED
  BY <1>1, LookFresh, ReadDocFresh, ReadAgainFresh, CacheMetaFresh, CountFresh, AddressFresh DEF Link

-----------------------------------------------------------------------------
LEMMA RemovalFresh ==
    ASSUME RequestsOK, WholeInv, StatusOK, FreshInv, NEW r \in Requests, Removal(r)
    PROVE  FreshInv'
<1>1. req[r].pc \in Removing
  BY DEF Removal, Unlist, UnlistFails, Erase, Uncache, Unlink, Drop, At, Removing
<1>2. File(r) \in Files /\ TimesOK
  BY <1>1 DEF WholeInv, CallWhole, File, FreshInv
<1>3. UNCHANGED <<late, out>>
  BY DEF Removal, Unlist, UnlistFails, Erase, Uncache, Unlink, Drop, files, cache
<1>4. ASSUME TimesOK' PROVE FreshInv'
  <2>1. \/ Ends(r)
        \/ \E pc \in Removing : Goto(r, pc)
    BY DEF Removal, Unlist, UnlistFails, Erase, Uncache, Unlink, Drop, Removing
  <2>2. \A pc \in Removing : pc \notin {"look", "read", "reread", "cache", "count", "find", "sign", "resign", "keep"}
    BY DEF Removing
  <2> QED
    BY <1>3, <1>4, <2>1, <2>2, FreshEnds, FreshGoto
<1>5. CASE Uncache(r)
  <2>1. meta' = [meta EXCEPT ![File(r)] = 0] /\ UNCHANGED <<out, late, doc>>
    BY <1>5 DEF Uncache, files
  <2> QED
    BY <1>2, <1>4, <2>1, TimesForget
<1>6. CASE Drop(r)
  <2>1. doc' = [doc EXCEPT ![File(r)] = "gone"] /\ UNCHANGED <<meta, out, late>>
    BY <1>6 DEF Drop, cache
  <2>2. TimesOK'
    BY <1>2, <2>1, TimesStay DEF StatusOK
  <2> QED
    BY <1>4, <2>2
<1>7. CASE Unlist(r) \/ UnlistFails(r) \/ Erase(r) \/ Unlink(r)
  <2>1. UNCHANGED <<meta, out, late, doc>>
    BY <1>7 DEF Unlist, UnlistFails, Erase, Unlink, files, cache
  <2> QED
    BY <1>2, <1>4, <2>1, TimesStay
<1> QED
  BY <1>5, <1>6, <1>7 DEF Removal

(* A conversion gives a document to a file that never had one.             *)
LEMMA ConversionFresh ==
    ASSUME RequestsOK, WholeInv, StatusOK, FreshInv, NEW r \in Requests, Conversion(r)
    PROVE  FreshInv'
<1>1. req[r] \in Calls /\ FreshCall(req[r], age[r], got[r], out) /\ age[r] \in Nat
  BY CallOK DEF FreshInv, RequestOK
<1>2. ASSUME NEW pc \in {"load", "convert", "list"}, Goto(r, pc), UNCHANGED <<out>>, TimesOK'
      PROVE  FreshInv'
  BY <1>2, FreshGoto
<1>3. ASSUME NEW n, NEW s, NEW pc \in {"upload", "create"},
             req' = [req EXCEPT ![r].pc = pc, ![r].n = n, ![r].files = s],
             UNCHANGED <<doc, late, meta, out, age, got>>
      PROVE  FreshInv'
  <2>1. Moves(r) /\ req'[r].pc = pc
    BY <1>1, <1>3 DEF Moves, RequestsOK, Calls
  <2>2. FreshCall(req'[r], age'[r], got'[r], out)
    BY <1>1, <1>3, <2>1 DEF FreshCall
  <2>3. TimesOK'
    BY <1>3, TimesStay DEF FreshInv
  <2> QED
    BY <1>3, <2>1, <2>2, <2>3, FreshMoves
<1>4. ASSUME UNCHANGED <<doc, late, meta, out>>,
             Ends(r) \/ \E pc \in {"load", "convert", "list"} : Goto(r, pc)
      PROVE  FreshInv'
  <2>1. TimesOK'
    BY <1>4, TimesStay DEF FreshInv
  <2> QED
    BY <1>2, <1>4, <2>1, FreshEnds
<1>5. CASE ResolveTarget(r) \/ LoadSource(r) \/ Inconvertible(r) \/ ConvertFails(r)
  BY <1>4, <1>5 DEF ResolveTarget, LoadSource, Inconvertible, ConvertFails, files, cache
<1>6. CASE ConvertText(r) \/ ConvertOffice(r) \/ ConvertPages(r)
  <2>1. PICK n : Produce(r, n)
    BY <1>6 DEF ConvertText, ConvertOffice, ConvertPages
  <2>2. /\ req' = [req EXCEPT ![r].pc = "upload", ![r].n = n, ![r].files = <<>>]
        /\ UNCHANGED <<doc, late, meta, out, age, got>>
    BY <2>1 DEF Produce, files, cache
  <2> QED
    BY <1>3, <2>2
<1>7. ASSUME NEW g \in Files, Upload(r, g) PROVE FreshInv'
  <2>1. /\ req' = [req EXCEPT ![r].pc = "create", ![r].files = <<g>>]
        /\ UNCHANGED <<doc, late, meta, out, age, got>>
    BY <1>7 DEF Upload, cache
  <2>2. Moves(r) /\ req'[r].pc = "create"
    BY <1>1, <2>1 DEF Moves, RequestsOK, Calls
  <2>3. FreshCall(req'[r], age'[r], got'[r], out)
    BY <1>1, <2>1, <2>2 DEF FreshCall
  <2>4. TimesOK'
    BY <2>1, TimesStay DEF FreshInv
  <2> QED
    BY <2>1, <2>2, <2>3, <2>4, FreshMoves
<1>8. CASE Create(r)
  <2>0. PICK made : doc' = [doc EXCEPT ![File(r)] = made]
    BY <1>8 DEF Create
  <2>1. /\ doc' = [doc EXCEPT ![File(r)] = made] /\ late \subseteq late'
        /\ Goto(r, "list") /\ UNCHANGED <<meta, out>> /\ req[r].pc = "create"
    BY <1>8, <2>0 DEF Create, cache, At
  <2>2. File(r) \in Files /\ doc[File(r)] = "unborn"
    BY <2>1 DEF WholeInv, CallWhole, File
  <2>3. TimesOK'
    BY <2>1, <2>2, TimesStay DEF FreshInv, StatusOK
  <2> QED
    BY <1>2, <2>1, <2>3
<1>9. CASE List(r)
  <2>1. UNCHANGED <<doc, late, meta, out>>
    BY <1>9 DEF List, cache
  <2>2. CASE req[r].n = 1
    BY <1>4, <1>9, <2>1, <2>2 DEF List
  <2>3. CASE req[r].n # 1
    <3>1. /\ req' = [req EXCEPT ![r].pc = "upload", ![r].n = req[r].n - 1, ![r].files = <<>>]
          /\ UNCHANGED <<age, got>>
      BY <1>9, <2>3 DEF List, RequestsOK
    <3> QED
      BY <1>3, <2>1, <3>1
  <2> QED
    BY <2>2, <2>3
<1> QED
  BY <1>5, <1>6, <1>7, <1>8, <1>9 DEF Conversion

(* The steps of no request.                                                *)
LEMMA StoresFresh ==
    ASSUME FreshInv, TimesOK', UNCHANGED <<req, age, got, out>>
    PROVE  FreshInv'
BY DEF FreshInv

LEMMA MultipartFresh ==
    ASSUME FreshInv, StatusOK, NEW f \in Files, InitMultipart(f) \/ CompleteMultipart(f)
    PROVE  FreshInv'
<1>1. UNCHANGED <<late, meta, out, req, age, got>>
  BY DEF InitMultipart, CompleteMultipart, cache, work
<1>2. \A g \in Files : doc[g] = "gone" => doc'[g] = "gone"
  BY DEF InitMultipart, CompleteMultipart, StatusOK
<1>3. TimesOK'
  BY <1>1, <1>2, TimesStay DEF FreshInv
<1> QED
  BY <1>1, <1>3, StoresFresh

LEMMA ExpireFresh ==
    ASSUME FreshInv, NEW f, Expire(f)
    PROVE  FreshInv'
<1>1. late \subseteq late' /\ UNCHANGED <<doc, meta, out, req, age, got>>
  BY DEF Expire, cache, work
<1>2. TimesOK'
  BY <1>1, TimesStay DEF FreshInv
<1> QED
  BY <1>1, <1>2, StoresFresh

(* What is gone ages as fast as requests do and as entries run out.        *)
LEMMA TickFresh ==
    ASSUME IInv, FreshInv, Tick
    PROVE  FreshInv'
<1>0. RequestsOK /\ TimesOK
  BY DEF IInv, FreshInv
<1>1. ASSUME NEW f \in Files
      PROVE  /\ out[f] \in Nat /\ out'[f] \in Nat /\ out'[f] <= out[f] + 1
             /\ meta[f] \in Nat /\ meta'[f] = Less(meta[f]) /\ meta'[f] \in Nat
             /\ f \notin late /\ doc[f] # "gone" => out'[f] = out[f]
  <2>1. out[f] \in Nat /\ meta[f] \in Nat
    BY <1>0 DEF TimesOK
  <2>2. /\ meta'[f] = Less(meta[f])
        /\ out'[f] = IF (doc[f] = "gone" \/ f \in late) /\ out[f] < Longest THEN out[f] + 1 ELSE out[f]
    BY DEF Tick
  <2> QED
    BY <2>1, <2>2 DEF Less
<1>2. TimesOK'
  <2>1. UNCHANGED <<doc, late>>
    BY DEF Tick, files
  <2>2. \A f \in Files : f \notin late /\ doc[f] # "gone" => out'[f] = 0
    BY <1>0, <1>1 DEF TimesOK
  <2>3. ASSUME NEW f \in Files, meta'[f] > 0
        PROVE  meta'[f] <= MetaKept /\ out'[f] + meta'[f] <= Window
    <3>1. meta[f] > 0 /\ meta'[f] = meta[f] - 1
      BY <1>1, <2>3 DEF Less
    <3>2. meta[f] <= MetaKept /\ out[f] + meta[f] <= Window
      BY <1>0, <3>1 DEF TimesOK
    <3> QED
      BY <1>1, <3>1, <3>2, Lives
  <2>4. meta' \in [Files -> Nat] /\ out' \in [Files -> Nat]
    BY <1>1 DEF Tick
  <2> QED
    BY <2>1, <2>2, <2>3, <2>4 DEF TimesOK
<1>3. ASSUME NEW r \in Requests PROVE FreshCall(req'[r], age'[r], got'[r], out')
  <2>1. /\ RequestOK(req[r], age[r], got[r]) /\ FreshCall(req[r], age[r], got[r], out)
        /\ req'[r] = req[r] /\ DOMAIN got'[r] = DOMAIN got[r] /\ age[r] \in Nat
    BY <1>0, CallOK DEF FreshInv, Tick, RequestOK
  <2>2. req[r].files # <<>> => Head(req[r].files) \in Files
    BY <1>0, FileIsFile DEF File
  <2>3. CASE req[r].op \in Links \cup {"show"}
    <3>1. age'[r] = age[r] + 1
      BY <2>3 DEF Tick
    <3>2. \A f \in DOMAIN got[r] : out'[f] < Window + age'[r]
      <4>1. ASSUME NEW f \in DOMAIN got[r] PROVE out'[f] < Window + age'[r]
        <5>1. f \in Files /\ out[f] < Window + age[r]
          BY <2>1 DEF RequestOK, FreshCall
        <5> QED
          BY <1>1, <2>1, <3>1, <5>1, Lives
      <4> QED
        BY <4>1
    <3>3. req[r].pc = "cache" => out'[Head(req[r].files)] <= age'[r]
      <4>1. SUFFICES ASSUME req[r].pc = "cache" PROVE out'[Head(req[r].files)] <= age'[r]
        OBVIOUS
      <4>2. Head(req[r].files) \in Files /\ out[Head(req[r].files)] <= age[r]
        BY <2>1, <2>2, <4>1 DEF RequestOK, FreshCall
      <4> QED
        BY <1>1, <2>1, <3>1, <4>2
    <3>4. req[r].pc \in {"count", "find", "sign", "resign", "keep"} =>
             out'[Head(req[r].files)] < Window + age'[r]
      <4>1. SUFFICES ASSUME req[r].pc \in {"count", "find", "sign", "resign", "keep"}
                     PROVE  out'[Head(req[r].files)] < Window + age'[r]
        OBVIOUS
      <4>2. Head(req[r].files) \in Files /\ out[Head(req[r].files)] < Window + age[r]
        BY <2>1, <2>2, <4>1 DEF RequestOK, FreshCall
      <4> QED
        BY <1>1, <2>1, <3>1, <4>2, Lives
    <3> QED
      BY <2>1, <3>2, <3>3, <3>4 DEF FreshCall
  <2>4. CASE req[r].op \notin Links \cup {"show"}
    <3>1. /\ req[r].pc \notin {"look", "read", "reread", "cache", "count", "find", "sign", "resign", "keep"}
          /\ DOMAIN got[r] = {} /\ age'[r] = age[r]
      BY <2>1, <2>4 DEF RequestOK, FreshCall, Tick, Links
    <3> QED
      BY <2>1, <3>1, FreshPast
  <2> QED
    BY <2>3, <2>4
<1> QED
  BY <1>2, <1>3 DEF FreshInv

LEMMA InitiallyFresh == Init => FreshInv
<1> SUFFICES ASSUME Init PROVE FreshInv
  OBVIOUS
<1>1. TimesOK
  BY DEF Init, TimesOK
<1>2. ASSUME NEW r \in Requests PROVE FreshCall(req[r], age[r], got[r], out)
  <2>1. req[r].pc = "idle" /\ age[r] = 0 /\ DOMAIN got[r] = {}
    BY DEF Init, Rest, Nothing
  <2> QED
    BY <2>1, FreshPast
<1> QED
  BY <1>1, <1>2 DEF FreshInv

LEMMA StepwiseFresh ==
    ASSUME IInv, WholeInv, FreshInv, [Next]_vars
    PROVE  FreshInv'
<1>0. RequestsOK /\ StatusOK
  BY DEF IInv
<1>1. CASE \E r \in Requests : Start(r) \/ Link(r) \/ Removal(r) \/ Conversion(r)
  BY <1>0, <1>1, StartFresh, LinkFresh, RemovalFresh, ConversionFresh
<1>2. CASE \E f \in Files : Multipart(f)
  <2>1. PICK f \in Files : InitMultipart(f) \/ CompleteMultipart(f)
    BY <1>2 DEF Multipart
  <2> QED
    BY <1>0, <2>1, MultipartFresh
<1>3. CASE \E f \in Expiring : Expire(f)
  BY <1>3, ExpireFresh
<1>4. CASE Tick
  BY <1>4, TickFresh
<1>5. CASE UNCHANGED vars
  <2>1. UNCHANGED <<doc, late, meta, out, req, age, got>>
    BY <1>5 DEF vars, files, cache, work
  <2>2. TimesOK'
    BY <2>1, TimesStay DEF FreshInv
  <2> QED
    BY <2>1, <2>2, StoresFresh
<1> QED
  BY <1>1, <1>2, <1>3, <1>4, <1>5 DEF Next

(* What a request is answered has been gone for less than a cache entry's  *)
(* life and two requests' patience, for every life of entries and every    *)
(* patience, although requests under way cache what expiry and removals    *)
(* have dropped.                                                           *)
THEOREM GoneIsAlwaysRefused == Spec => []GoneIsRefused
<1>1. IInv /\ FreshInv => GoneIsRefused
  <2> SUFFICES ASSUME IInv, FreshInv, NEW r \in Requests, NEW f \in DOMAIN got[r]
               PROVE  out[f] < MetaKept + 2 * Patience
    BY DEF GoneIsRefused
  <2>1. RequestOK(req[r], age[r], got[r]) /\ FreshCall(req[r], age[r], got[r], out)
    BY DEF IInv, RequestsOK, FreshInv
  <2>2. /\ f \in Files /\ age[r] \in Nat /\ age[r] <= Patience
        /\ out[f] < Window + age[r] /\ out[f] \in Nat
    BY <2>1 DEF RequestOK, FreshCall, FreshInv, TimesOK
  <2> QED
    BY <2>2, Lives DEF Window
<1>2. IInv /\ WholeInv /\ FreshInv /\ [Next]_vars => IInv' /\ WholeInv' /\ FreshInv'
  BY Stepwise, StepwiseWhole, StepwiseFresh
<1>3. Init => IInv /\ WholeInv /\ FreshInv
  BY Initially, InitiallyWhole, InitiallyFresh
<1>4. Spec => [](IInv /\ FreshInv)
  BY <1>2, <1>3, PTL DEF Spec
<1> QED
  BY <1>1, <1>4, PTL
=============================================================================
