------------------------------- MODULE People -------------------------------
(***************************************************************************)
(* The users that Friends and Chat are about, and the assumption that both *)
(* name.                                                                   *)
(***************************************************************************)
CONSTANTS
    Users,
    Apart     \* two calls about one pair of users, or on one message, do not overlap

ASSUME PeopleAssumption == Apart \in BOOLEAN
=============================================================================
