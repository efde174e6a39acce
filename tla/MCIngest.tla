------------------------------ MODULE MCIngest ------------------------------
(***************************************************************************)
(* Instances of Ingest for TLC.                                            *)
(***************************************************************************)
EXTENDS Ingest, TLC

CONSTANTS r1, r2, r3, r4, e1, e2, p1, p2, i1, i2, s1, s2, v1, q1, q2

\* r1 and r2 send the same event; r3 another one of the same issue, service and
\* release, with an earlier timestamp; r4 uses the id of r1's event in another
\* project.
CrowdEventOf == [r \in Requests |-> IF r = r3 THEN e2 ELSE e1]
CrowdProject == [r \in Requests |-> IF r = r4 THEN p2 ELSE p1]
CrowdIssue == [r \in Requests |-> IF r = r4 THEN i2 ELSE i1]
CrowdService == [r \in Requests |-> IF r = r4 THEN s2 ELSE s1]
CrowdRelease == [r \in Requests |-> IF r = r4 THEN None ELSE v1]
CrowdTime == [r \in Requests |-> IF r = r3 THEN 1 ELSE 2]
OfTheirProject == [q \in Rules |-> {r1, r2, r3}]

OneProject == [r \in Requests |-> p1]

\* Events of two issues and two services, which share no row but the rules.
PairEventOf == [r \in Requests |-> IF r = r1 THEN e1 ELSE e2]
PairIssue == [r \in Requests |-> IF r = r1 THEN i1 ELSE i2]
PairService == [r \in Requests |-> IF r = r1 THEN s1 ELSE s2]
NoRelease == [r \in Requests |-> None]
SameTime == [r \in Requests |-> 0]

EveryRequest == [q \in Rules |-> Requests]
Always == [q \in Rules |-> 0]
Twice == [q \in Rules |-> 2]
One == [q \in Rules |-> 1]

=============================================================================
