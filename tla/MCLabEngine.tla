---------------------------- MODULE MCLabEngine ----------------------------
(* LabEngine for TLC: identifiers are random, hence interchangeable.       *)
EXTENDS LabEngine, TLC

IdSymmetry == Permutations(Ids)
=============================================================================
