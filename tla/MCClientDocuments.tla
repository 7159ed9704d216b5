-------------------------- MODULE MCClientDocuments --------------------------
(***************************************************************************)
(* Instances of ClientDocuments for TLC.                                   *)
(***************************************************************************)
EXTENDS ClientDocuments, TLC

CONSTANTS d1, d2, r1, r2

Symmetry == Permutations(Docs) \cup Permutations(Requests)
=============================================================================
