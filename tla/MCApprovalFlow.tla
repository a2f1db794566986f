--------------------------- MODULE MCApprovalFlow ---------------------------
(* ApprovalFlow on a small instance: two resume goroutines, two humans.    *)
EXTENDS ApprovalFlow, TLC

Symmetry == Permutations(Workers) \cup Permutations(Deciders)
=============================================================================
