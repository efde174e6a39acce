----------------------------- MODULE EventStore -----------------------------
(***************************************************************************)
(* What ingestion promises, without transactions, locks, aborts or         *)
(* retries: an event is stored once, in one step that also counts it in    *)
(* its issue, service and release, reopens the issue if it was resolved,   *)
(* queues the event for symbolication and fires rules that have rested     *)
(* for their cooldown.                                                     *)
(***************************************************************************)
EXTENDS Integers

CONSTANTS
    Requests, Events, Issues, Keys, Rules, None,
    EventOf,        \* the event id in a request
    IssueOf,        \* the issue its fingerprint selects
    KeysOf,         \* the issue, the service and the release that count it
    WithRelease,    \* the requests whose event names a release
    At,             \* when the event occurred
    Cooldown,       \* of each rule
    Clock           \* the times at which a transaction can begin

VARIABLES
    stored,     \* the request that stored each event, or None
    tally,      \* count, first and last event of each issue, service, release
    status,     \* of each issue
    queued,     \* the events with a symbolication job
    last,       \* when each rule fired last; -1 stands for NULL
    alerts      \* the alerts in the outbox

vars == <<stored, tally, status, queued, last, alerts>>

Init ==
    /\ stored = [e \in Events |-> None]
    /\ tally = [k \in Keys |-> [count |-> 0, first |-> 0, last |-> 0]]
    /\ status = [i \in Issues |-> "none"]
    /\ queued = {}
    /\ last = [q \in Rules |-> -1]
    /\ alerts = {}

Counted(t, at) ==
    [count |-> t.count + 1,
     first |-> IF t.count = 0 \/ at < t.first THEN at ELSE t.first,
     last  |-> IF t.count = 0 \/ at > t.last THEN at ELSE t.last]

Store(r, fired, time) ==
    /\ stored[EventOf[r]] = None
    /\ \A q \in fired : last[q] = -1 \/ last[q] < time - Cooldown[q]
    /\ stored' = [stored EXCEPT ![EventOf[r]] = r]
    /\ tally' = [k \in Keys |-> IF k \in KeysOf[r]
                                THEN Counted(tally[k], At[r]) ELSE tally[k]]
    /\ status' = [status EXCEPT ![IssueOf[r]] =
                    IF @ \in {"none", "resolved"} THEN "unresolved" ELSE @]
    /\ queued' = IF r \in WithRelease THEN queued \cup {EventOf[r]} ELSE queued
    /\ last' = [q \in Rules |-> IF q \in fired THEN time ELSE last[q]]
    /\ alerts' = alerts \cup {[rule |-> q, by |-> r, time |-> time] : q \in fired}

SetStatus(i, s) ==
    /\ status[i] # "none"
    /\ status' = [status EXCEPT ![i] = s]
    /\ UNCHANGED <<stored, tally, queued, last, alerts>>

Next ==
    \/ \E r \in Requests, fired \in SUBSET Rules, time \in Clock :
          Store(r, fired, time)
    \/ \E i \in Issues, s \in {"unresolved", "in_progress", "resolved", "ignored"} :
          SetStatus(i, s)

Spec == Init /\ [][Next]_vars

=============================================================================
