------------------------------ MODULE MCTriage ------------------------------
(* Instances of Triage.  There are as many fingerprints as ids, so that two  *)
(* issues can be merged into a third while an event arrives in one of them:  *)
(* e2 and e3 share a fingerprint.                                            *)
EXTENDS Triage, TLC

CONSTANTS e1, e2, e3, e4, a1, a2, i1, i2, i3, f1, f2, f3

MCPrintOf == (e1 :> f1) @@ (e2 :> f2) @@ (e3 :> f2) @@ (e4 :> f3)
MCExpired == {e1}

\* No constant tells the ids apart, nor the requests, nor e2 from e3.
Interchangeable ==
    Permutations(Issues) \cup Permutations(Admins) \cup Permutations({e2, e3})
=============================================================================
