------------------------------ MODULE MCSessions ------------------------------
(***************************************************************************)
(* Sessions over interchangeable users, requests, tokens and codes.        *)
(***************************************************************************)
EXTENDS Sessions, TLC

Symmetry == Permutations(Users) \cup Permutations(Requests) \cup Permutations(Tokens)
                \cup Permutations(Codes)
===============================================================================
