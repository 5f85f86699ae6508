---------------------------- MODULE MCStorageTree ----------------------------
(* Instances of StorageTree for TLC.                                       *)
EXTENDS StorageTree, TLC

CONSTANTS d1, d2, d3, f1, s1    \* folders, a file, a storage

OneStorage == [i \in Items |-> s1]

FolderSymmetry == Permutations(Folders)
=============================================================================
