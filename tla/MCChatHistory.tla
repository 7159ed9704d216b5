---------------------------- MODULE MCChatHistory ----------------------------
(***************************************************************************)
(* Instances of ChatHistory for TLC.                                       *)
(***************************************************************************)
EXTENDS ChatHistory, TLC

CONSTANTS u1, u2, r1, r2, c1, m1, admin, member

Symmetry == Permutations(Requests) \cup Permutations(Users)
=============================================================================
