------------------------------- MODULE Ingest -------------------------------
(***************************************************************************)
(* Event ingestion: persist_event (src/api.rs) with its service upsert     *)
(* (telemetry.rs) and its alert evaluation (alert.rs), statement by        *)
(* statement under PostgreSQL's READ COMMITTED isolation.                  *)
(*                                                                         *)
(* A request runs one transaction.  A statement sees what was committed    *)
(* when it started and what its own transaction wrote; an upsert, an       *)
(* UPDATE and a SELECT ... FOR UPDATE wait for the transaction that        *)
(* changed or locked the row and then see the row as that left it.  Row    *)
(* locks and the advisory lock on the event id are kept until the          *)
(* transaction ends.  Before it commits, its rows exist only in its draft. *)
(*                                                                         *)
(* now() is the time at which the transaction began.                       *)
(***************************************************************************)
EXTENDS Integers, FiniteSets

CONSTANTS
    Requests,       \* POSTs of an event, the client's retries included
    Events,         \* event ids
    Projects,
    Issues,         \* (project, fingerprint) pairs
    Services,       \* (project, service name, environment) triples
    Releases,       \* (project, version) pairs
    Rules,          \* alert rules
    None,           \* nobody, no release
    EventOf, ProjectOf, IssueOf, ServiceOf, ReleaseOf,  \* of each request
    At,             \* occurred_at of the event, from the client's clock
    Matches,        \* the requests that match level, message and environment
    Tallied,        \* the requests that match level and environment
    Threshold,      \* threshold_count of each rule, 0 for NULL
    Window,         \* window_seconds of each rule
    Cooldown,       \* cooldown_seconds of each rule
    MaxNow,         \* bound: the clock
    MaxFaults,      \* bound: how often a transaction is lost
    MaxEdits        \* bound: how often rules and rosters are edited

Keys == Issues \cup Services \cup Releases
KeysOf == [r \in Requests |->
              {IssueOf[r], ServiceOf[r]} \cup ({ReleaseOf[r]} \ {None})]

ASSUME IngestAssumption ==
    /\ EventOf \in [Requests -> Events]
    /\ ProjectOf \in [Requests -> Projects]
    /\ IssueOf \in [Requests -> Issues]
    /\ ServiceOf \in [Requests -> Services]
    /\ ReleaseOf \in [Requests -> Releases \cup {None}]
    /\ None \notin Requests \cup Releases
    /\ Issues \cap Services = {}
    /\ Releases \cap (Issues \cup Services) = {}
    /\ Events \cap (Keys \cup Rules) = {}
    /\ Rules \cap Keys = {}
    /\ IsFiniteSet(Events)
    /\ At \in [Requests -> Int]
    /\ Matches \in [Rules -> SUBSET Requests]
    /\ Tallied \in [Rules -> SUBSET Requests]
    /\ Threshold \in [Rules -> Nat]
    /\ Window \in [Rules -> Nat]
    /\ Cooldown \in [Rules -> Nat]
    /\ MaxNow \in Nat /\ MaxFaults \in Nat /\ MaxEdits \in Nat

VARIABLES
    \* committed rows
    stored,     \* events: the request that stored each id, or None
    tally,      \* event_count, first_seen and last_seen of each key
    status,     \* of each issue, "none" until it exists
    queued,     \* events with a symbolication job
    last,       \* last_triggered_at of each rule, -1 for NULL
    enabled,    \* the rules that are enabled
    reachable,  \* the rules whose first escalation step resolves to somebody
    alerts,     \* rows of notification_outbox
    \* the transactions
    pc, start,
    holder,     \* who holds the lock on each event id, key and rule
    draft,      \* the keys as the transaction wrote them
    reopened,   \* status of its issue, as the transaction wrote it
    inserted,   \* the transactions that inserted their event
    cand,       \* the rules that the WHERE clause selected, not yet locked
    fired,      \* the rules that will raise an alert
    \* the clock and the budgets
    now, faults, edits

rows    == <<stored, tally, status, queued, last, alerts>>
config  == <<enabled, reachable>>
locals  == <<draft, reopened, inserted, cand, fired>>
budgets == <<now, faults, edits>>
vars == <<rows, config, pc, start, holder, locals, budgets>>

-----------------------------------------------------------------------------
Lockable == Events \cup Keys \cup Rules
Open == {"advisory", "lookup", "issue", "service", "event", "release",
         "match", "rules", "alerts", "commit"}
Closed == {"accepted", "conflict", "refused", "aborted"}
Statuses == {"unresolved", "in_progress", "resolved", "ignored"}
Tally == [count : Nat, first : Int, last : Int]
NoTally == [count |-> 0, first |-> 0, last |-> 0]

TypeOK ==
    /\ stored \in [Events -> Requests \cup {None}]
    /\ tally \in [Keys -> Tally]
    /\ status \in [Issues -> Statuses \cup {"none"}]
    /\ queued \in SUBSET Events
    /\ last \in [Rules -> -1..MaxNow]
    /\ enabled \in SUBSET Rules
    /\ reachable \in SUBSET Rules
    /\ alerts \in SUBSET [rule : Rules, by : Requests, time : 0..MaxNow]
    /\ pc \in [Requests -> Open \cup Closed \cup {"new"}]
    /\ start \in [Requests -> 0..MaxNow]
    /\ holder \in [Lockable -> Requests \cup {None}]
    /\ draft \in [Requests -> [Keys -> Tally]]
    /\ reopened \in [Requests -> Statuses \cup {"none"}]
    /\ inserted \in SUBSET Requests
    /\ cand \in [Requests -> SUBSET Rules]
    /\ fired \in [Requests -> SUBSET Rules]
    /\ now \in 0..MaxNow /\ faults \in Nat /\ edits \in Nat

Init ==
    /\ stored = [e \in Events |-> None]
    /\ tally = [k \in Keys |-> NoTally]
    /\ status = [i \in Issues |-> "none"]
    /\ queued = {}
    /\ last = [q \in Rules |-> -1]
    /\ enabled = Rules
    /\ reachable = Rules
    /\ alerts = {}
    /\ pc = [r \in Requests |-> "new"]
    /\ start = [r \in Requests |-> 0]
    /\ holder = [x \in Lockable |-> None]
    /\ draft = [r \in Requests |-> [k \in Keys |-> NoTally]]
    /\ reopened = [r \in Requests |-> "none"]
    /\ inserted = {}
    /\ cand = [r \in Requests |-> {}]
    /\ fired = [r \in Requests |-> {}]
    /\ now = 0 /\ faults = 0 /\ edits = 0

-----------------------------------------------------------------------------
\* A lock is granted when no open transaction holds it.
Free(x) == holder[x] = None

Take(r, x) ==
    /\ Free(x)
    /\ holder' = [holder EXCEPT ![x] = r]

Released(r) == [x \in Lockable |-> IF holder[x] = r THEN None ELSE holder[x]]

Goto(r, place) == pc' = [pc EXCEPT ![r] = place]

\* pg_advisory_lock instead of pg_advisory_xact_lock
EndInSession(r, answer) ==
    /\ Goto(r, answer)
    /\ holder' = [x \in Lockable |->
                    IF holder[x] = r /\ x \notin Events THEN None ELSE holder[x]]
    /\ draft' = [draft EXCEPT ![r] = [k \in Keys |-> NoTally]]
    /\ reopened' = [reopened EXCEPT ![r] = "none"]
    /\ inserted' = inserted \ {r}
    /\ cand' = [cand EXCEPT ![r] = {}]
    /\ fired' = [fired EXCEPT ![r] = {}]
    /\ UNCHANGED <<start, config>>

\* COMMIT or ROLLBACK, and the answer to the client.
End(r, answer) ==
    /\ Goto(r, answer)
    /\ holder' = Released(r)
    /\ draft' = [draft EXCEPT ![r] = [k \in Keys |-> NoTally]]
    /\ reopened' = [reopened EXCEPT ![r] = "none"]
    /\ inserted' = inserted \ {r}
    /\ cand' = [cand EXCEPT ![r] = {}]
    /\ fired' = [fired EXCEPT ![r] = {}]
    /\ UNCHANGED <<start, config>>

\* BEGIN, which fixes the transaction's now().
Begin(r) ==
    /\ pc[r] = "new"
    /\ Goto(r, "advisory")
    /\ start' = [start EXCEPT ![r] = now]
    /\ UNCHANGED <<rows, config, holder, locals, budgets>>

\* pg_advisory_xact_lock on the event id.
Serialize(r) ==
    /\ pc[r] = "advisory"
    /\ Take(r, EventOf[r])
    /\ Goto(r, "lookup")
    /\ UNCHANGED <<rows, config, start, locals, budgets>>

AnyProject(r) == TRUE
SameProject(r) == ProjectOf[stored[EventOf[r]]] = ProjectOf[r]

\* An event that is already stored is acknowledged again, unless its id
\* belongs to another project.
Lookup(r) ==
    /\ pc[r] = "lookup"
    /\ IF stored[EventOf[r]] = None
       THEN /\ Goto(r, "issue")
            /\ UNCHANGED <<config, start, holder, locals>>
       ELSE End(r, IF SameProject(r) THEN "accepted" ELSE "conflict")
    /\ UNCHANGED <<rows, budgets>>

\* event_count + 1, LEAST and GREATEST of the upsert.
Counted(t, at) ==
    [count |-> t.count + 1,
     first |-> IF t.count = 0 \/ at < t.first THEN at ELSE t.first,
     last  |-> IF t.count = 0 \/ at > t.last THEN at ELSE t.last]

\* SELECT, then UPDATE
ReadThenWrite(r, k) ==
    /\ UNCHANGED holder
    /\ draft' = [draft EXCEPT ![r][k] = Counted(tally[k], At[r])]

\* INSERT ... ON CONFLICT DO UPDATE: the row is locked, then read, then
\* rewritten.  Inserting the same key waits likewise.
Upsert(r, k) ==
    /\ Take(r, k)
    /\ draft' = [draft EXCEPT ![r][k] = Counted(tally[k], At[r])]

StatusRegressed(s) == IF s = "resolved" THEN "regressed" ELSE "unresolved"
StaysResolved(s) == IF s = "none" THEN "unresolved" ELSE s
StatusAfter(s) == IF s \in {"none", "resolved"} THEN "unresolved" ELSE s

UpsertIssue(r) ==
    /\ pc[r] = "issue"
    /\ Upsert(r, IssueOf[r])
    /\ reopened' = [reopened EXCEPT ![r] = StatusAfter(status[IssueOf[r]])]
    /\ Goto(r, "service")
    /\ UNCHANGED <<rows, config, start, inserted, cand, fired, budgets>>

UpsertService(r) ==
    /\ pc[r] = "service"
    /\ Upsert(r, ServiceOf[r])
    /\ Goto(r, "event")
    /\ UNCHANGED <<rows, config, start, reopened, inserted, cand, fired, budgets>>

\* ON CONFLICT (id) DO NOTHING, after the open transaction that inserted the
\* same id has ended.
InsertEvent(r) ==
    /\ pc[r] = "event"
    /\ \A s \in inserted : EventOf[s] # EventOf[r]
    /\ inserted' = IF stored[EventOf[r]] = None THEN inserted \cup {r} ELSE inserted
    /\ Goto(r, "release")
    /\ UNCHANGED <<rows, config, start, holder, draft, reopened, cand, fired, budgets>>

UpsertRelease(r) ==
    /\ pc[r] = "release"
    /\ IF ReleaseOf[r] = None
       THEN UNCHANGED <<holder, draft>>
       ELSE Upsert(r, ReleaseOf[r])
    /\ Goto(r, "match")
    /\ UNCHANGED <<rows, config, start, reopened, inserted, cand, fired, budgets>>

-----------------------------------------------------------------------------
\* enqueue_matching_alerts.  The events a statement of r can see, each with
\* the request that wrote it.
Visible(r) ==
    {stored[e] : e \in {e \in Events : stored[e] # None}} \cup (inserted \cap {r})

Reached(r, q) ==
    \/ Threshold[q] = 0
    \/ Cardinality({s \in Visible(r) :
                      s \in Tallied[q] /\ At[s] >= start[r] - Window[q]})
         >= Threshold[q]

Rested(r, q) == last[q] = -1 \/ last[q] < start[r] - Cooldown[q]

MatchRules(r) ==
    /\ pc[r] = "match"
    /\ LET matching == {q \in enabled :
                          r \in Matches[q] /\ Reached(r, q) /\ Rested(r, q)} IN
          /\ cand' = [cand EXCEPT ![r] = matching]
          /\ Goto(r, IF matching = {} THEN "alerts" ELSE "rules")
    /\ UNCHANGED <<rows, config, start, holder, draft, reopened, inserted,
                   fired, budgets>>

RestedOnly(r, q) == Rested(r, q)
EnabledAndRested(r, q) == q \in enabled /\ Rested(r, q)

\* without FOR UPDATE
SelectRule(r, q) ==
    /\ pc[r] = "rules"
    /\ q \in cand[r]
    /\ cand' = [cand EXCEPT ![r] = @ \ {q}]
    /\ fired' = [fired EXCEPT ![r] = @ \cup {q}]
    /\ Goto(r, IF cand[r] = {q} THEN "alerts" ELSE "rules")
    /\ UNCHANGED <<rows, config, start, holder, draft, reopened, inserted, budgets>>

\* FOR UPDATE: once the row is locked, the WHERE clause is evaluated again on
\* the row as it is now, with the count of the statement's snapshot.
LockRule(r, q) ==
    /\ pc[r] = "rules"
    /\ q \in cand[r]
    /\ Take(r, q)
    /\ cand' = [cand EXCEPT ![r] = @ \ {q}]
    /\ fired' = IF EnabledAndRested(r, q)
                THEN [fired EXCEPT ![r] = @ \cup {q}] ELSE fired
    /\ Goto(r, IF cand[r] = {q} THEN "alerts" ELSE "rules")
    /\ UNCHANGED <<rows, config, start, draft, reopened, inserted, budgets>>

\* A first escalation step that resolves to nobody is an error, and the error
\* rolls the event back.
RaiseAlerts(r) ==
    /\ pc[r] = "alerts"
    /\ IF fired[r] \subseteq reachable
       THEN /\ Goto(r, "commit")
            /\ UNCHANGED <<config, start, holder, locals>>
       ELSE End(r, "refused")
    /\ UNCHANGED <<rows, budgets>>

Commit(r) ==
    /\ pc[r] = "commit"
    /\ stored' = IF r \in inserted THEN [stored EXCEPT ![EventOf[r]] = r] ELSE stored
    /\ tally' = [k \in Keys |-> IF k \in KeysOf[r] THEN draft[r][k] ELSE tally[k]]
    /\ status' = [status EXCEPT ![IssueOf[r]] = reopened[r]]
    /\ queued' = IF ReleaseOf[r] = None THEN queued ELSE queued \cup {EventOf[r]}
    /\ last' = [q \in Rules |-> IF q \in fired[r] THEN start[r] ELSE last[q]]
    /\ alerts' = alerts \cup
                 {[rule |-> q, by |-> r, time |-> start[r]] : q \in fired[r]}
    /\ End(r, "accepted")
    /\ UNCHANGED budgets

-----------------------------------------------------------------------------
\* The server dies or loses the database: PostgreSQL rolls the transaction
\* back.
Lose(r) ==
    /\ pc[r] \in Open
    /\ faults < MaxFaults
    /\ faults' = faults + 1
    /\ End(r, "aborted")
    /\ UNCHANGED <<rows, now, edits>>

Stuck(r) ==
    /\ pc[r] = "rules"
    /\ \A q \in cand[r] : holder[q] \notin {None, r}

\* Transactions lock the rules in the order in which their plans meet them,
\* which an UPDATE of a rule changes: they can wait for each other, and
\* PostgreSQL aborts one that waits and is waited for.
Deadlocked(r) ==
    \E group \in SUBSET Requests :
        /\ r \in group
        /\ \A s \in group :
              /\ Stuck(s)
              /\ \A q \in cand[s] : holder[q] \in group
              /\ \E t \in group : \E q \in cand[t] : holder[q] = s

DeadlockVictim(r) ==
    /\ Deadlocked(r)
    /\ End(r, "aborted")
    /\ UNCHANGED <<rows, budgets>>

\* The client sends the event again.
Resend(r) ==
    /\ pc[r] = "aborted"
    /\ Goto(r, "new")
    /\ UNCHANGED <<rows, config, start, holder, locals, budgets>>

\* mark_issue_status: one UPDATE, which waits for the row.
SetStatus(i, s) ==
    /\ status[i] # "none"
    /\ Free(i)
    /\ status' = [status EXCEPT ![i] = s]
    /\ UNCHANGED <<stored, tally, queued, last, alerts, config, pc, start,
                   holder, locals, budgets>>

\* update_rule, as far as it concerns "enabled".
EditRule(q) ==
    /\ edits < MaxEdits
    /\ edits' = edits + 1
    /\ Free(q)
    /\ enabled' = IF q \in enabled THEN enabled \ {q} ELSE enabled \cup {q}
    /\ UNCHANGED <<rows, reachable, pc, start, holder, locals, now, faults>>

\* A user on the schedule of a first step is deactivated or activated.
EditRoster(q) ==
    /\ edits < MaxEdits
    /\ edits' = edits + 1
    /\ reachable' = IF q \in reachable THEN reachable \ {q} ELSE reachable \cup {q}
    /\ UNCHANGED <<rows, enabled, pc, start, holder, locals, now, faults>>

Tick ==
    /\ now < MaxNow
    /\ now' = now + 1
    /\ UNCHANGED <<rows, config, pc, start, holder, locals, faults, edits>>

Serve(r) ==
    \/ Serialize(r) \/ Lookup(r)
    \/ UpsertIssue(r) \/ UpsertService(r) \/ InsertEvent(r) \/ UpsertRelease(r)
    \/ MatchRules(r) \/ (\E q \in Rules : LockRule(r, q)) \/ RaiseAlerts(r)
    \/ Commit(r)
    \/ DeadlockVictim(r)

Next ==
    \/ \E r \in Requests : Begin(r) \/ Serve(r) \/ Lose(r) \/ Resend(r)
    \/ \E i \in Issues, s \in Statuses : SetStatus(i, s)
    \/ \E q \in Rules : EditRule(q) \/ EditRoster(q)
    \/ Tick

Spec == Init /\ [][Next]_vars

\* A statement that can run is run, and a deadlock is detected.  Nobody has
\* to send an event.
FairSpec == Spec /\ \A r \in Requests : WF_vars(Serve(r))

-----------------------------------------------------------------------------
(* Properties. *)

\* event_count, first_seen and last_seen of every issue, service and release
\* are those of the events stored under it: no concurrent ingestion is lost
\* and no retry is counted twice.
AggregatesAgree ==
    \A k \in Keys :
        LET members == {e \in Events : stored[e] # None /\ k \in KeysOf[stored[e]]}
        IN  /\ tally[k].count = Cardinality(members)
            /\ \A e \in members : /\ tally[k].first <= At[stored[e]]
                                  /\ At[stored[e]] <= tally[k].last
            /\ members # {} =>
                 \E d, e \in members : /\ tally[k].first = At[stored[d]]
                                       /\ tally[k].last = At[stored[e]]

\* 202 means that the event is stored, in the project of the client, and that
\* symbolication of an event with a release is queued.
AcceptedIsStored ==
    \A r \in Requests : pc[r] = "accepted" =>
        /\ stored[EventOf[r]] # None
        /\ ProjectOf[stored[EventOf[r]]] = ProjectOf[r]
        /\ ReleaseOf[stored[EventOf[r]]] # None => EventOf[r] \in queued

\* However often an event is sent, each rule raises at most one alert for it,
\* and only for an event that is stored.
AlertedOnce ==
    /\ \A a \in alerts : stored[EventOf[a.by]] = a.by
    /\ \A a, b \in alerts : a.rule = b.rule /\ a.by = b.by => a = b

\* Two alerts of a rule are further apart than its cooldown, even if the
\* events that raised them were ingested concurrently.
CooldownKept ==
    \A a, b \in alerts :
        a.rule = b.rule /\ a # b =>
            a.time - b.time > Cooldown[a.rule] \/ b.time - a.time > Cooldown[a.rule]

\* Once a rule has been disabled, no transaction commits an alert of it, not
\* even one that had selected the rule before.
DisabledIsSilent == [][\A a \in alerts' \ alerts : a.rule \in enabled]_vars

\* Every request that was begun is answered: the row locks, the advisory lock
\* and the rule locks never stop ingestion for good.
Answered == \A r \in Requests : pc[r] \in Open ~> pc[r] \in Closed

\* When the events stored in the window reach the threshold of a rule and
\* nothing is in flight, the rule has fired.
ThresholdFires ==
    \A q \in Rules :
        /\ \A r \in Requests : pc[r] \notin Open
        /\ Threshold[q] > 0
        /\ Cardinality({e \in Events : stored[e] # None /\
                          stored[e] \in Tallied[q] \cap Matches[q]}) >= Threshold[q]
        => \E a \in alerts : a.rule = q

WithRelease == {r \in Requests : ReleaseOf[r] # None}
Clock == 0..MaxNow

\* Ingestion implements EventStore: each transaction takes effect at once.
Promise == INSTANCE EventStore
ImplementsPromise == Promise!Spec

=============================================================================
