------------------------------- MODULE MCOutbox -------------------------------
(***************************************************************************)
(* Instances of Outbox for TLC: a rule with a two-step escalation policy   *)
(* (a0, then a1) and a rule with a single notification (b0).               *)
(***************************************************************************)
EXTENDS Outbox, TLC

CONSTANTS a0, a1, b0, ra, rb, w1, w2

MCNotifications == {a0, a1, b0}
MCRules == {ra, rb}
MCRuleOf == (a0 :> ra) @@ (a1 :> ra) @@ (b0 :> rb)
MCSuccessor == (a0 :> a1) @@ (a1 :> None) @@ (b0 :> None)

\* The escalation policy alone
ChainNotifications == {a0, a1}
ChainRules == {ra}
ChainRuleOf == (a0 :> ra) @@ (a1 :> ra)
ChainSuccessor == (a0 :> a1) @@ (a1 :> None)

WorkerSymmetry == Permutations({w1, w2})

=============================================================================
