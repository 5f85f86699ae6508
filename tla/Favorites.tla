----------------------------- MODULE Favorites ------------------------------
(***************************************************************************)
(* The favorites of users: rows of Postgres that name items of storages.   *)
(* A user has one row for an item at most, whether he marked it in his own *)
(* storage or as a shared one.  Trash, purge and revoked shares of Sharing *)
(* leave the rows alone.                                                   *)
(*                                                                         *)
(* Each item of a batch is looked up and written by itself; one that fails *)
(* is reported and the next one is taken.                                  *)
(*                                                                         *)
(* No request for favorites reads or writes what the requests of Sharing   *)
(* do, so that a behaviour with both kinds is one of each, interleaved.    *)
(* Each behaviour here has one kind only.                                  *)
(*                                                                         *)
(* The operators named Slip... are wrong variants of the definition that   *)
(* follows them; no action uses them.                                      *)
(***************************************************************************)
EXTENDS Sharing

CONSTANTS
    Marked,         \* bound: items that users mark one by one; Init: what the invited have marked
    MaxItemRequests \* bound: of MaxRequests, those for items

ASSUME FavoritesAssumption == Marked \subseteq Items

VARIABLES
    fav,   \* FavoriteStorageItem rows
    about, \* bound: what all requests are for, "items" or "favorites"
    kept   \* history: <<user, item>> added, and not found by a removal since

favorites == <<fav, about, kept>>

Row(id, u, i) == [id |-> id, u |-> u, i |-> i]
Marks(u, i) == {p \in fav : p.u = u /\ p.i = i}
IsFavorite(u, i) == Marks(u, i) # {}

FavoritesInit ==
    /\ Init
    /\ fav = {Row(<<0, u, i>>, u, i) : u \in Invited, i \in Marked}
    /\ kept = Invited \X Marked
    /\ about \in {"items", "favorites"}

-----------------------------------------------------------------------------
(* The endpoints.  Items of a storage ask for a permission on it, shared   *)
(* ones and removals for none.                                             *)

BeginMark(r, op, u, s) ==
    /\ Begin(r, Take(Call(op, "act", u, None), s))
    /\ UNCHANGED <<own, rows, tree, tagging, out, favorites>>

Add(r, u, i)            == <<u, 0>> \in own /\ BeginMark(r, "mark", u, <<i>>)
AddBatch(r, u, s)       == <<u, 0>> \in own /\ BeginMark(r, "mark", u, s)
AddShared(r, u, i)      == BeginMark(r, "mark", u, <<i>>)
AddSharedBatch(r, u, s) == BeginMark(r, "mark", u, s)
Remove(r, u, i)         == BeginMark(r, "unmark", u, <<i>>)
RemoveShared(r, u, i)   == BeginMark(r, "unmark", u, <<i>>)
RemoveBatch(r, u, s)    == BeginMark(r, "unmark", u, s)

-----------------------------------------------------------------------------
(* An item is looked up and, unless it is there, inserted; a row that came *)
(* in between refuses the insertion.  The id tells which item of the batch *)
(* a row was inserted for.                                                 *)

FindMark(r) ==
    /\ At(r, "act") /\ Op(r, {"mark"})
    /\ Goto(r, IF IsFavorite(req[r].u, Item(r)) THEN "ended" ELSE "insert")
    /\ UNCHANGED <<own, rows, tree, tagging, out, favorites>>

InsertMark(r) ==
    /\ At(r, "insert")
    /\ LET u == req[r].u
       IN  IF IsFavorite(u, Item(r))
             THEN UNCHANGED favorites
             ELSE /\ fav' = fav \cup {Row(<<r, Len(req[r].items)>>, u, Item(r))}
                  /\ kept' = kept \cup {<<u, Item(r)>>}
                  /\ UNCHANGED about
    /\ Goto(r, "ended")
    /\ UNCHANGED <<own, rows, tree, tagging, out>>

(* The row is looked up and then removed by its id.                        *)
FindMarked(r) ==
    /\ At(r, "act") /\ Op(r, {"unmark"})
    /\ LET u == req[r].u
       IN  IF ~IsFavorite(u, Item(r))
             THEN Goto(r, "ended")
             ELSE \E p \in Marks(u, Item(r)) :
                    req' = [req EXCEPT ![r].row = p.id, ![r].pc = "unmark"]
    /\ kept' = kept \ {<<req[r].u, Item(r)>>}
    /\ UNCHANGED <<own, rows, tree, tagging, out, fav, about>>

SlipRemoveMark(r) ==       \* removes what is there for the user and the item by now
    /\ At(r, "unmark")
    /\ fav' = fav \ Marks(req[r].u, Item(r))
    /\ Goto(r, "ended")
    /\ UNCHANGED <<own, rows, tree, tagging, out, about, kept>>

RemoveMark(r) ==
    /\ At(r, "unmark")
    /\ fav' = {p \in fav : p.id # req[r].row}
    /\ Goto(r, "ended")
    /\ UNCHANGED <<own, rows, tree, tagging, out, about, kept>>

(* A write fails.                                                          *)
MarkFails(r) ==
    /\ req[r].pc \in {"insert", "unmark"}
    /\ Goto(r, "ended")
    /\ UNCHANGED <<own, rows, tree, tagging, out, favorites>>

-----------------------------------------------------------------------------
StartMark(r) == At(r, "idle") /\ \E u \in Users :
    \/ \E i \in Marked : Add(r, u, i) \/ AddShared(r, u, i) \/ Remove(r, u, i) \/ RemoveShared(r, u, i)
    \/ \E s \in Batches : AddBatch(r, u, s) \/ AddSharedBatch(r, u, s) \/ RemoveBatch(r, u, s)

ContinueMark(r) ==
    FindMark(r) \/ InsertMark(r) \/ FindMarked(r) \/ RemoveMark(r) \/ MarkFails(r)

FavoritesNext ==
    \/ about = "items" /\ (\E r \in Requests : r <= MaxItemRequests /\ (Start(r) \/ Continue(r)))
       /\ UNCHANGED favorites
    \/ about = "favorites" /\ \E r \in Requests : StartMark(r) \/ ContinueMark(r)

FavoritesSpec == FavoritesInit /\ [][FavoritesNext]_<<vars, favorites>>

-----------------------------------------------------------------------------
(* What was added to the favorites stays there until a removal finds it: a *)
(* removal that found the row of an earlier addition takes no later one.   *)
FavoritesStay == \A p \in kept : IsFavorite(p[1], p[2])
=============================================================================
