---------------------------- MODULE MCStorageNames ----------------------------
(* Instances of StorageNames for TLC.                                      *)
EXTENDS StorageNames, TLC

CONSTANTS d1, d2, d3, d4, f1, f2, f3, s1, s2, Guest, Old

(* The items Guest are of a second storage.                                *)
TwoStorages == [i \in Items |-> IF i \in Guest THEN s2 ELSE s1]

(* "x" and the name its copy would get.                                    *)
TwoNames == {<<"x">>, <<"x", CopyMark(0)>>}

(* Any forests of the items Old: the other ids are left for what comes.    *)
SmallInit ==
    /\ \E L \in SUBSET Old :
          /\ status = [i \in Items |-> IF i \in L THEN "live" ELSE "unused"]
          /\ parent \in {[i \in Items |-> IF i \in L THEN p[i] ELSE Root] :
                            p \in [L -> (L \cap Folders) \cup {Root}]}
          /\ name \in {[i \in Items |-> IF i \in L THEN n[i] ELSE <<"x">>] :
                            n \in [L -> UserNames]}
          /\ \A i \in Folders : name[i] = <<"x">>
    /\ NamesInit

SmallSpec == SmallInit /\ [][NamesNext]_allvars
FairSmallSpec == SmallSpec /\ \A e \in Editors : WF_allvars(ContinueEdit(e))
=============================================================================
