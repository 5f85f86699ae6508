----------------------------- MODULE MCSharing ------------------------------
(* Folder "a" is shared, as is "b", a folder in it; the file "f" in "b"     *)
(* wears the tags; the folder "n" and the file "g" are ids not given out    *)
(* yet.                                                                     *)
EXTENDS Favorites
Plan == [i \in Items |-> CASE i = "a" -> Top [] i = "b" -> "a" [] i = "f" -> "b" [] OTHER -> None]
Tagged0 == [i \in Items |-> IF i = "f" THEN Tags ELSE {}]
Lists == {<<"a", "f">>}
=============================================================================
