---------------------------- MODULE AlertDelivery ----------------------------
(***************************************************************************)
(* What the outbox promises about an alert, without workers, claims,       *)
(* leases or time: an alert is closed as done only after the receiver got  *)
(* it, closed as dead only after more than Limit failed attempts, raised   *)
(* for the next escalation step only when the step before it used up its   *)
(* attempts, and otherwise stays open until its rule is deleted.           *)
(***************************************************************************)
EXTENDS Integers

CONSTANTS
    Notifications,  \* alerts, one for each escalation step
    None,           \* "no further step"
    Successor,      \* the next escalation step of an alert, or None
    Limit           \* an alert dies with attempt Limit + 1

VARIABLES
    stage,      \* "absent", "open", "done" or "dead"
    tries,      \* failed attempts since the alert was raised or retried
    got,        \* the receiver has seen it
    retried     \* an administrator has retried it

vars == <<stage, tries, got, retried>>

Init ==
    /\ stage = [n \in Notifications |-> "absent"]
    /\ tries = [n \in Notifications |-> 0]
    /\ got = [n \in Notifications |-> FALSE]
    /\ retried = [n \in Notifications |-> FALSE]

\* A first step is raised at any time, a later one when its predecessor has
\* used up its attempts.  A retry resets that count, so a retried predecessor
\* no longer shows it.
Raise(n) ==
    /\ stage[n] = "absent"
    /\ tries[n] = 0
    /\ \A m \in Notifications :
          Successor[m] = n => tries[m] > Limit \/ retried[m]
    /\ stage' = [stage EXCEPT ![n] = "open"]
    /\ UNCHANGED <<tries, got, retried>>

Arrive(n) ==
    /\ got' = [got EXCEPT ![n] = TRUE]
    /\ UNCHANGED <<stage, tries, retried>>

Confirm(n) ==
    /\ stage[n] # "absent"
    /\ got[n]
    /\ stage' = [stage EXCEPT ![n] = "done"]
    /\ UNCHANGED <<tries, got, retried>>

Fail(n) ==
    /\ stage[n] # "absent"
    /\ tries' = [tries EXCEPT ![n] = @ + 1]
    /\ stage' = [stage EXCEPT ![n] = IF tries[n] >= Limit THEN "dead" ELSE "open"]
    /\ UNCHANGED <<got, retried>>

Retry(n) ==
    /\ stage[n] # "absent"
    /\ stage' = [stage EXCEPT ![n] = "open"]
    /\ tries' = [tries EXCEPT ![n] = 0]
    /\ retried' = [retried EXCEPT ![n] = TRUE]
    /\ UNCHANGED got

\* The alerts of a rule go with it.
Remove(S) ==
    /\ stage' = [n \in Notifications |-> IF n \in S THEN "absent" ELSE stage[n]]
    /\ UNCHANGED <<tries, got, retried>>

Next ==
    \/ \E n \in Notifications :
          Raise(n) \/ Arrive(n) \/ Confirm(n) \/ Fail(n) \/ Retry(n)
    \/ \E S \in SUBSET Notifications : Remove(S)

Spec == Init /\ [][Next]_vars

=============================================================================
