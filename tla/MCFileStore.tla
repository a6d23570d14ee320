---------------------------- MODULE MCFileStore ----------------------------
(***************************************************************************)
(* Instances of FileStore for TLC.  No action treats one request, or one   *)
(* CP-ABE policy, unlike another.                                          *)
(***************************************************************************)
EXTENDS FileStore, TLC

Symmetry == Permutations(Requests) \cup Permutations(AbePolicies)
=============================================================================
