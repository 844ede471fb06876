-------------------------- MODULE MCSessionManager --------------------------
(* SessionManager for TLC: goroutines and identifiers are interchangeable. *)
EXTENDS SessionManager, TLC

Interchangeable == Permutations(Callers) \cup Permutations(Ids)
=============================================================================
