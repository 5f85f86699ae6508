------------------------------- MODULE MCChat -------------------------------
(* A founder and others, who are interchangeable; lists that name one of   *)
(* them, both, or the founder himself.                                     *)
EXTENDS Chat, TLC
Others == Permutations(Users \ {Founder})
=============================================================================
