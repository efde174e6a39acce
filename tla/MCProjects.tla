------------------------------ MODULE MCProjects ------------------------------
(***************************************************************************)
(* An instance of Projects for TLC: a project with two keys.               *)
(***************************************************************************)
EXTENDS Projects, TLC

CONSTANTS p1, k1, k2, r1, r2, a1, a2

MCProjectOf == [k \in Keys |-> p1]

MCSymmetry == Permutations(Keys) \cup Permutations(Requests) \cup Permutations(Admins)

=============================================================================
