----------------------------- MODULE MCRecovery -----------------------------
(* An instance of Recovery: two rules, three requests. *)
EXTENDS Recovery, TLC

Interchangeable == Permutations(Rules) \cup Permutations(Requests)
=============================================================================
