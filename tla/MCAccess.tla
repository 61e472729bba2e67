------------------------------ MODULE MCAccess ------------------------------
(* Access for TLC: sessions, token values and functions are                 *)
(* interchangeable.                                                         *)
EXTENDS Access, TLC

Symmetric == Permutations(Credentials) \cup Permutations(Tokens)
             \cup Permutations(Functions)
=============================================================================
