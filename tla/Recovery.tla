------------------------------ MODULE Recovery ------------------------------
(***************************************************************************)
(* What the people on call are told about one issue: update_issue,         *)
(* batch_update_issues, fix_issue and the alert rules (src/api.rs), with   *)
(* mark_issue_status and enqueue_recovery_alerts (src/alert.rs), beside    *)
(* ingestion, which reopens the issue, and merges and splits, which        *)
(* rewrite its count.                                                      *)
(*                                                                         *)
(* update_issue runs one statement after the other, without a transaction: *)
(* the status is written, and only then are the recovery alerts queued,    *)
(* from a new look at the issue and the rules.  What has happened to the   *)
(* issue meanwhile is not noticed.  A recovery alert is deduplicated by    *)
(* rule, issue and the issue's event count.                                *)
(***************************************************************************)
EXTENDS Integers, FiniteSets

CONSTANTS
    Rules,      \* alert rules of the project
    Requests,   \* calls of update_issue and fix_issue
    MaxCount,   \* bound: event_count
    MaxRecounts,\* bound: merges and splits that write the count
    MaxEdits    \* bound: creations, updates and deletions of rules

ASSUME RecoveryAssumption ==
    /\ MaxCount \in Nat \ {0}
    /\ MaxRecounts \in Nat /\ MaxEdits \in Nat

VARIABLES
    status, count,          \* the row of the issue; "none" once it is deleted
    live, enabled, notify,  \* alert_rules, and those with enabled, notify_recovery
    recoveries,             \* recovery rows of the outbox, by rule and count
    pc,                     \* of each request
    \* history: the kind of alert that was queued last for each rule
    word,
    \* the rules subscribed since the issue was last marked as resolved
    steady,
    \* the requests whose mark has been undone before they queued their alerts
    overtaken,
    \* the rules that were told of a recovery by such a request, or whose issue
    \* an administrator, or an event they do not alert on, has opened since
    outdated,
    \* whether the resolution came without alerts, whether the count was ever
    \* lowered, and the budgets
    unannounced, lowered, recounts, edits

issueVars == <<status, count>>
ruleVars  == <<live, enabled, notify>>
history   == <<word, steady, overtaken, outdated, unannounced, lowered>>
vars == <<issueVars, ruleVars, recoveries, pc, history, recounts, edits>>

-----------------------------------------------------------------------------
Statuses == {"unresolved", "in_progress", "resolved", "ignored"}
Subscribed == enabled \cap notify
Told == {r \in Rules : word[r] = "recovery"}
Pending == {h \in Requests : pc[h] = "enqueue"}

TypeOK ==
    /\ status \in Statuses \cup {"none"}
    /\ count \in 1..MaxCount
    /\ live \in SUBSET Rules
    /\ enabled \in SUBSET live
    /\ notify \in SUBSET live
    /\ recoveries \in SUBSET (live \X (1..MaxCount))
    /\ pc \in [Requests -> {"new", "enqueue", "fix", "done", "failed"}]
    /\ word \in [Rules -> {"none", "alert", "recovery"}]
    /\ steady \in SUBSET Rules
    /\ overtaken \in SUBSET Requests
    /\ outdated \in SUBSET Rules
    /\ unannounced \in BOOLEAN /\ lowered \in BOOLEAN
    /\ recounts \in 0..MaxRecounts
    /\ edits \in 0..MaxEdits

\* The issue has just been created by its first event.
Init ==
    /\ status = "unresolved" /\ count = 1
    /\ live \in SUBSET Rules /\ enabled = live /\ notify \in SUBSET live
    /\ recoveries = {}
    /\ pc = [h \in Requests |-> "new"]
    /\ word = [r \in Rules |-> "none"]
    /\ steady = {} /\ overtaken = {} /\ outdated = {}
    /\ unannounced = FALSE /\ lowered = FALSE
    /\ recounts = 0 /\ edits = 0

-----------------------------------------------------------------------------
(* The issue. *)

\* Every UPDATE of the status by an administrator's request.
Write(s) ==
    /\ status' = s
    /\ IF s = "resolved"
       THEN /\ steady' = Subscribed
            /\ outdated' = {}
            /\ UNCHANGED overtaken
       ELSE /\ steady' = {}
            /\ outdated' = outdated \cup Told
            /\ overtaken' = overtaken \cup Pending

\* An ingestion commits: the upsert counts the event and reopens a resolved
\* issue, and the rules that match and have rested raise their alerts.
Arrive(fired) ==
    /\ status # "none"
    /\ count < MaxCount
    /\ fired \subseteq enabled
    /\ count' = count + 1
    /\ word' = [r \in Rules |-> IF r \in fired THEN "alert" ELSE word[r]]
    /\ IF status = "resolved"
       THEN /\ status' = "unresolved"
            /\ overtaken' = overtaken \cup Pending
            /\ outdated' = (outdated \cup Told) \ fired
            /\ steady' = {}
       ELSE /\ outdated' = outdated \ fired
            /\ UNCHANGED <<status, overtaken, steady>>
    /\ UNCHANGED <<ruleVars, recoveries, pc, unannounced, lowered, recounts, edits>>

\* A merge into the issue, or a split of it, writes the number of events it
\* found, which retention and the moves have changed in either direction.
Recount(n) ==
    /\ status # "none"
    /\ recounts < MaxRecounts
    /\ recounts' = recounts + 1
    /\ count' = n
    /\ lowered' = (lowered \/ n < count)
    /\ UNCHANGED <<status, ruleVars, recoveries, pc, word, steady, overtaken,
                   outdated, unannounced, edits>>

\* The issue is merged into another one, or split completely.
Remove ==
    /\ status # "none"
    /\ status' = "none"
    /\ UNCHANGED <<count, ruleVars, recoveries, pc, history, recounts, edits>>

-----------------------------------------------------------------------------
(* Requests. *)

Goto(h, place) == pc' = [pc EXCEPT ![h] = place]

\* Mutant of AfterMark: every change of the status is announced.
AlwaysEnqueue(s) == "enqueue"

\* if body.status == "resolved"
AfterMark(s) == IF s = "resolved" THEN "enqueue" ELSE "done"

\* update_issue: mark_issue_status.  The issue was there when the request was
\* authorized; if it is gone the answer is 404.
Mark(h, s) ==
    /\ pc[h] = "new"
    /\ status # "none"
    /\ Write(s)
    /\ Goto(h, AfterMark(s))
    /\ unannounced' = IF s = "resolved" THEN FALSE ELSE unannounced
    /\ UNCHANGED <<count, ruleVars, recoveries, word, lowered, recounts, edits>>

\* Mutant of KeyOf: the key leaves the count out.
KeyWithoutCount(r) == <<r, 1>>

\* 'recovery:' || rule || ':' || issue || ':' || event_count
KeyOf(r) == <<r, count>>

\* enqueue_recovery_alerts: one INSERT ... SELECT, whatever the status is by
\* now.  ON CONFLICT(dedup_key) DO NOTHING.
Enqueue(h) ==
    /\ pc[h] = "enqueue"
    /\ LET new == IF status = "none" THEN {}
                  ELSE {r \in Subscribed : KeyOf(r) \notin recoveries} IN
          /\ recoveries' = recoveries \cup {KeyOf(r) : r \in new}
          /\ word' = [r \in Rules |-> IF r \in new THEN "recovery" ELSE word[r]]
          /\ outdated' = IF h \in overtaken THEN outdated \cup new ELSE outdated \ new
    /\ Goto(h, "done")
    /\ UNCHANGED <<issueVars, ruleVars, steady, overtaken, unannounced, lowered,
                   recounts, edits>>

\* The request ends between its statements: the server dies, the database
\* cannot be reached, or a rule that the INSERT has selected is deleted before
\* its foreign key is checked, which refuses the rows of every rule.
Fail(h) ==
    /\ pc[h] \in {"enqueue", "fix"}
    /\ Goto(h, "failed")
    /\ unannounced' = (unannounced \/ pc[h] = "enqueue")
    /\ UNCHANGED <<issueVars, ruleVars, recoveries, word, steady, overtaken,
                   outdated, lowered, recounts, edits>>

\* batch_update_issues: one UPDATE, and no recovery alerts.
BatchUpdate(s) ==
    /\ status # "none"
    /\ Write(s)
    /\ unannounced' = (unannounced \/ s = "resolved")
    /\ UNCHANGED <<count, ruleVars, recoveries, pc, word, lowered, recounts, edits>>

\* fix_issue reads the issue and its last events, ...
FixRead(h) ==
    /\ pc[h] = "new"
    /\ status # "none"
    /\ Goto(h, "fix")
    /\ UNCHANGED <<issueVars, ruleVars, recoveries, history, recounts, edits>>

\* ... and then takes the issue into work, whatever its status is by now.
FixStart(h) ==
    /\ pc[h] = "fix"
    /\ IF status = "none"
       THEN UNCHANGED <<status, overtaken, steady, outdated>>
       ELSE Write("in_progress")
    /\ Goto(h, "done")
    /\ UNCHANGED <<count, ruleVars, recoveries, word, unannounced, lowered, recounts,
                   edits>>

-----------------------------------------------------------------------------
(* Rules. *)

Edit ==
    /\ edits < MaxEdits
    /\ edits' = edits + 1

\* create_rule: a rule is created enabled.
CreateRule(r, told) ==
    /\ Edit
    /\ r \notin live
    /\ live' = live \cup {r}
    /\ enabled' = enabled \cup {r}
    /\ notify' = IF told THEN notify \cup {r} ELSE notify
    /\ UNCHANGED <<issueVars, recoveries, pc, history, recounts>>

\* update_rule: COALESCE keeps what the request leaves out.
UpdateRule(r, on, told) ==
    /\ Edit
    /\ r \in live
    /\ enabled' = IF on THEN enabled \cup {r} ELSE enabled \ {r}
    /\ notify' = IF told THEN notify \cup {r} ELSE notify \ {r}
    /\ steady' = IF on /\ told THEN steady ELSE steady \ {r}
    /\ UNCHANGED <<issueVars, live, recoveries, pc, word, overtaken, outdated,
                   unannounced, lowered, recounts>>

\* Mutant of RowsWithout: the rows stay when their rule goes.
RowsKept(r) == recoveries

\* rule_id REFERENCES alert_rules(id) ON DELETE CASCADE
RowsWithout(r) == {k \in recoveries : k[1] # r}

\* delete_rule.
DeleteRule(r) ==
    /\ Edit
    /\ r \in live
    /\ live' = live \ {r}
    /\ enabled' = enabled \ {r}
    /\ notify' = notify \ {r}
    /\ recoveries' = RowsWithout(r)
    /\ word' = [word EXCEPT ![r] = "none"]
    /\ steady' = steady \ {r}
    /\ UNCHANGED <<issueVars, pc, overtaken, outdated, unannounced, lowered, recounts>>

-----------------------------------------------------------------------------
Next ==
    \/ \E fired \in SUBSET Rules : Arrive(fired)
    \/ \E n \in 1..MaxCount : Recount(n)
    \/ Remove
    \/ \E s \in Statuses : BatchUpdate(s)
    \/ \E h \in Requests : \/ \E s \in Statuses : Mark(h, s)
                           \/ Enqueue(h)
                           \/ Fail(h)
                           \/ FixRead(h)
                           \/ FixStart(h)
    \/ \E r \in Rules : \/ \E told \in BOOLEAN : CreateRule(r, told)
                        \/ \E on, told \in BOOLEAN : UpdateRule(r, on, told)
                        \/ DeleteRule(r)

Spec == Init /\ [][Next]_vars

-----------------------------------------------------------------------------
(* Properties. *)

\* The last word about an open issue is not that it has recovered: unless an
\* administrator has opened it again since, or an event for which the rule did
\* not fire, or the recovery was queued by a request whose resolution somebody
\* had already undone (src/api.rs:1938-1940).
RecoveryHolds ==
    status \notin {"resolved", "none"} => Told \subseteq outdated

\* Every rule that subscribes to recoveries is told about a resolution, once
\* the requests under way have ended: unless the resolution came with a batch,
\* or its request failed after the first statement, or a merge or a split has
\* lowered the count, so that the deduplication key may have been used before.
ResolutionIsTold ==
    status = "resolved" /\ Pending = {} /\ ~unannounced /\ ~lowered =>
        steady \subseteq Told

=============================================================================
