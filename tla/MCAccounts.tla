---------------------------- MODULE MCAccounts ----------------------------
(* Two spellings of one address, and another address.                      *)
EXTENDS Accounts
Spelling(e) == IF e = "Ann" THEN "ann" ELSE e
=============================================================================
