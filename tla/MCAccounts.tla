------------------------------ MODULE MCAccounts ------------------------------
(***************************************************************************)
(* An instance of Accounts for TLC: two users, one of whom can be invited. *)
(***************************************************************************)
EXTENDS Accounts, TLC

CONSTANTS u1, u2, s1, s2, i1, a1, a2, g1, g2

MCInviteeOf == [i \in Invitations |-> u2]

MCSymmetry == Permutations(Sessions) \cup Permutations(Handlers) \cup Permutations(Guests)

=============================================================================
