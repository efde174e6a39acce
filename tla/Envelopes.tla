----------------------------- MODULE Envelopes -----------------------------
(***************************************************************************)
(* POST of an envelope, from the rate limiter (rate_limit_ingest and       *)
(* IngestRateLimiter, src/operations.rs) through the parser to the items   *)
(* in the database (ingest_envelope and persist_event, src/api.rs, and     *)
(* persist_log_batch, src/telemetry.rs), in one project.                   *)
(*                                                                         *)
(* The items of an envelope are stored one after the other, each by        *)
(* statements of its own; the first that fails ends the request and leaves *)
(* the ones before it stored.  A log item is stored raw first, and then    *)
(* its records in one transaction, which locks the services in the order   *)
(* of the records.  An event is one step here: module Ingest has its       *)
(* transaction, and module Projects the authorization of the request.      *)
(***************************************************************************)
EXTENDS EnvelopeFormat, FiniteSets

CONSTANTS
    Requests,       \* POSTs, the client's retries included
    Sent,           \* the items each client puts into its envelope
    Bodies,         \* the bodies it may send for them
    CutBodies,      \* such bodies after an end of them was lost
    HeaderOf,       \* its x-sentry-auth header, or None
    Headers, EventIds,
    Fields,         \* names that scrub_fields can hold
    None,
    Limit,          \* requests per window
    Window,         \* 60 seconds, in ticks
    MaxNow,         \* bound: the clock
    MaxFaults,      \* bound: lost connections and restarts of the server
    MaxEdits        \* bound: changes of scrub_fields

ASSUME EnvelopesAssumption ==
    /\ HeaderOf \in [Requests -> Headers \cup {None}]
    /\ None \notin Requests
    /\ IsFiniteSet(Requests)
    /\ Limit \in Nat \ {0} /\ Window \in Nat \ {0}
    /\ MaxNow \in Nat /\ MaxFaults \in Nat /\ MaxEdits \in Nat

\* The bodies are what a client writes for its items, or that without its end.
ASSUME BodiesAssumption ==
    \A r \in Requests :
        /\ IsSent(Sent[r])
        /\ \A body \in Bodies[r] : Written(body, Sent[r])
        /\ \A body \in CutBodies[r] : Cut(body, Sent[r])

VARIABLES
    \* committed rows: events, the raw items, the log records, and the log_count
    \* of each service
    events, raw, logs, logCount,
    fields,         \* scrub_fields of the project
    \* the limiter: when the window of each key began, -1 if there is none, and
    \* how many requests it has admitted
    began, count,
    \* the requests
    pc,
    items,          \* what parse returned
    at,             \* the index of the item in hand
    read,           \* scrub_fields, as read for the event in hand
    next,           \* the record of the log batch in hand
    written,        \* log_count, as the batch wrote it
    holder,         \* who has locked each service
    stamp,          \* Instant::now(), taken before the limiter's mutex
    now,
    \* history: the verdict of the limiter, when it was given, and the window it
    \* fell into; when the server restarted, and the requests judged before it
    \* last did; and the fields that were configured all the time since the
    \* event in hand had its turn; and the requests whose body was cut
    verdict, judged, window, restarts, past, owed, cut,
    faults, edits

rows    == <<events, raw, logs, logCount>>
limiter == <<began, count>>
trace   == <<verdict, judged, window, restarts, past>>
bounds  == <<now, faults, edits>>
inHand  == <<items, at, read, next, written, owed, cut>>
vars == <<rows, fields, limiter, pc, inHand, holder, stamp, trace, bounds>>

-----------------------------------------------------------------------------
Keys == Headers \cup {None}
Closed == {"accepted", "refused", "limited", "failed"}
Working == {"item", "event", "log"}
Times == Seq(0..MaxNow)

TypeOK ==
    /\ DOMAIN events = EventIds
    /\ raw \in SUBSET (Requests \X (Nat \ {0}))
    /\ logs \in SUBSET (Requests \X (Nat \ {0}) \X (Nat \ {0}))
    /\ logCount \in [Services -> Nat]
    /\ fields \in SUBSET Fields
    /\ began \in [Keys -> -1..MaxNow]
    /\ count \in [Keys -> 0..Limit]
    /\ pc \in [Requests -> {"new", "check", "open"} \cup Working \cup Closed]
    /\ DOMAIN items = Requests
    /\ at \in [Requests -> Nat \ {0}]
    /\ read \in [Requests -> SUBSET Fields]
    /\ next \in [Requests -> Nat \ {0}]
    /\ written \in [Requests -> [Services -> Nat]]
    /\ holder \in [Services -> Requests \cup {None}]
    /\ stamp \in [Requests -> 0..MaxNow]
    /\ now \in 0..MaxNow
    /\ verdict \in [Requests -> {"none", "in", "out"}]
    /\ judged \in [Requests -> 0..MaxNow]
    /\ window \in [Requests -> 0..MaxNow]
    /\ restarts \in Times
    /\ past \in SUBSET Requests
    /\ owed \in [Requests -> SUBSET Fields]
    /\ cut \in SUBSET Requests
    /\ faults \in 0..MaxFaults
    /\ edits \in 0..MaxEdits
    /\ \A s \in Services : holder[s] # None => pc[holder[s]] = "log"

Init ==
    /\ events = [i \in EventIds |-> None]
    /\ raw = {} /\ logs = {}
    /\ logCount = [s \in Services |-> 0]
    /\ fields \in SUBSET Fields
    /\ began = [k \in Keys |-> -1]
    /\ count = [k \in Keys |-> 0]
    /\ pc = [r \in Requests |-> "new"]
    /\ items = [r \in Requests |-> <<>>]
    /\ at = [r \in Requests |-> 1]
    /\ read = [r \in Requests |-> {}]
    /\ next = [r \in Requests |-> 1]
    /\ written = [r \in Requests |-> [s \in Services |-> 0]]
    /\ holder = [s \in Services |-> None]
    /\ stamp = [r \in Requests |-> 0]
    /\ now = 0
    /\ verdict = [r \in Requests |-> "none"]
    /\ judged = [r \in Requests |-> 0]
    /\ window = [r \in Requests |-> 0]
    /\ restarts = <<>>
    /\ past = {}
    /\ owed = [r \in Requests |-> {}]
    /\ cut = {}
    /\ faults = 0 /\ edits = 0

Goto(r, place) == pc' = [pc EXCEPT ![r] = place]

-----------------------------------------------------------------------------
(* The rate limiter. *)

\* rate_limit_ingest takes the time, and then waits for the mutex.
Arrive(r) ==
    /\ pc[r] = "new"
    /\ Goto(r, "check")
    /\ stamp' = [stamp EXCEPT ![r] = now]
    /\ UNCHANGED <<rows, fields, limiter, inHand, holder, trace, bounds>>

\* Mutant of Full: one request too many.
FullTooLate(n) == n > Limit

Full(n) == n >= Limit

\* check: the window of the key, which is the whole header.  Clients without
\* the header share one.  duration_since is 0 for a time before the window.
Check(r) ==
    /\ pc[r] = "check"
    /\ LET k == HeaderOf[r]
           fresh == began[k] = -1 \/ stamp[r] - began[k] >= Window
           start == IF fresh THEN stamp[r] ELSE began[k]
           used  == IF fresh THEN 0 ELSE count[k]
       IN
       /\ began' = [began EXCEPT ![k] = start]
       /\ count' = [count EXCEPT ![k] = IF Full(used) THEN used ELSE used + 1]
       /\ Goto(r, IF Full(used) THEN "limited" ELSE "open")
       /\ verdict' = [verdict EXCEPT ![r] = IF Full(used) THEN "out" ELSE "in"]
       /\ window' = [window EXCEPT ![r] = start]
    /\ judged' = [judged EXCEPT ![r] = now]
    /\ UNCHANGED <<rows, fields, inHand, holder, stamp, restarts, past, bounds>>

-----------------------------------------------------------------------------
(* The items. *)

Item(r) == items[r][at[r]]

\* The loop goes on with the next item, or the answer is 202.
Proceed(r) ==
    /\ at' = [at EXCEPT ![r] = @ + 1]
    /\ Goto(r, IF at[r] = Len(items[r]) THEN "accepted" ELSE "item")

AllBodies == UNION {Bodies[r] \cup CutBodies[r] : r \in Requests}
Parsed == [body \in AllBodies |-> Parse(body)]

\* ingest_envelope decodes and parses the whole body before it stores any of it.
Open(r) ==
    /\ pc[r] = "open"
    /\ \E body \in Bodies[r] \cup CutBodies[r] :
          LET parsed == Parsed[body] IN
          /\ cut' = IF body \in CutBodies[r] THEN cut \cup {r} ELSE cut
          /\ items' = [items EXCEPT ![r] = parsed.items]
          /\ Goto(r, IF ~parsed.ok THEN "refused"
                     ELSE IF parsed.items = <<>> THEN "accepted" ELSE "item")
    /\ UNCHANGED <<rows, fields, limiter, at, read, next, written, owed, holder,
                   stamp, trace, bounds>>

\* persist_event reads scrub_fields in a statement of its own.
ReadFields(r) ==
    /\ pc[r] = "item"
    /\ Item(r).type = "event"
    /\ IF IsEvent(Item(r).payload)
       THEN /\ read' = [read EXCEPT ![r] = fields]
            /\ owed' = [owed EXCEPT ![r] = fields]
            /\ Goto(r, "event")
       ELSE /\ Goto(r, "failed")
            /\ UNCHANGED <<read, owed>>
    /\ UNCHANGED <<rows, fields, limiter, items, cut, at, next, written, holder, stamp,
                   trace, bounds>>

\* Mutant of RowOf: the secrets have a part in the fingerprint.
RowPrintedFirst(e, F) == [event |-> Scrub(e, F), print |-> Fingerprint(Scrub(e, {}))]

\* The event is scrubbed, and what is left of it is fingerprinted.
RowOf(e, F) == [event |-> Scrub(e, F), print |-> Fingerprint(Scrub(e, F))]

\* The ids and the services of the events sent, and that None is not what is
\* stored of one.
ASSUME EventsAssumption ==
    \A r \in Requests : \A i \in 1..Len(Sent[r]) :
        IsEvent(Sent[r][i].payload) =>
            LET e == Json(Sent[r][i].payload)[1] IN
            /\ e.id \in EventIds /\ e.service \in Services
            /\ \A F, G \in SUBSET Fields : None # [row |-> RowOf(e, F), owed |-> G]

\* The transaction of persist_event; an event that is there already stays as it
\* is.  Its upsert of the service waits for a log batch that has locked it.
StoreEvent(r) ==
    /\ pc[r] = "event"
    /\ LET e == Json(Item(r).payload)[1] IN
          /\ e.id \in EventIds
          /\ events[e.id] = None => holder[e.service] = None
          /\ events' = IF events[e.id] # None THEN events
                       ELSE [events EXCEPT ![e.id] =
                               [row |-> RowOf(e, read[r]), owed |-> owed[r]]]
    /\ Proceed(r)
    /\ read' = [read EXCEPT ![r] = {}]
    /\ owed' = [owed EXCEPT ![r] = {}]
    /\ UNCHANGED <<raw, logs, logCount, fields, limiter, items, cut, next, written,
                   holder, stamp, trace, bounds>>

\* INSERT INTO envelope_items.  A log item is then read; if it cannot be, the
\* raw item stays.
StoreRaw(r) ==
    /\ pc[r] = "item"
    /\ Item(r).type # "event"
    /\ raw' = raw \cup {<<r, at[r]>>}
    /\ IF Item(r).type # "log"
       THEN Proceed(r)
       ELSE /\ Goto(r, IF IsBatch(Item(r).payload) THEN "log" ELSE "failed")
            /\ UNCHANGED at
    /\ UNCHANGED <<events, logs, logCount, fields, limiter, items, cut, read, next,
                   written, owed, holder, stamp, trace, bounds>>

-----------------------------------------------------------------------------
(* persist_log_batch. *)

Records(r) == Json(Item(r).payload)
ServiceAt(r, n) == Records(r)[n].service

\* Mutants of CanLock: the upsert does not wait; it is not in the transaction of
\* the batch, and waits for that too.
LockAnyway(r, s) == TRUE
LockFromOutside(r, s) == holder[s] = None

CanLock(r, s) == holder[s] \in {None, r}

\* The upsert of the record's service, and the INSERT of the record.
StoreRecord(r) ==
    /\ pc[r] = "log"
    /\ next[r] <= Len(Records(r))
    /\ LET s == ServiceAt(r, next[r]) IN
          /\ CanLock(r, s)
          /\ holder' = [holder EXCEPT ![s] = r]
          /\ written' = [written EXCEPT ![r][s] =
                           IF holder[s] = r THEN @ + 1 ELSE logCount[s] + 1]
    /\ next' = [next EXCEPT ![r] = @ + 1]
    /\ UNCHANGED <<rows, fields, limiter, pc, items, cut, at, read, owed, stamp, trace,
                   bounds>>

Locked(r) == {s \in Services : holder[s] = r}

\* Mutant of Released: a failed batch keeps its locks.
NotReleased(r) == holder

Released(r) == [s \in Services |-> IF holder[s] = r THEN None ELSE holder[s]]

\* What the end of a transaction forgets.
EndBatch(r) ==
    /\ next' = [next EXCEPT ![r] = 1]
    /\ written' = [written EXCEPT ![r] = [s \in Services |-> 0]]

CommitBatch(r) ==
    /\ pc[r] = "log"
    /\ next[r] > Len(Records(r))
    /\ logs' = logs \cup {<<r, at[r], n>> : n \in 1..Len(Records(r))}
    /\ logCount' = [s \in Services |-> IF s \in Locked(r) THEN written[r][s]
                                       ELSE logCount[s]]
    /\ holder' = [s \in Services |-> IF holder[s] = r THEN None ELSE holder[s]]
    /\ EndBatch(r)
    /\ Proceed(r)
    /\ UNCHANGED <<events, raw, fields, limiter, items, cut, read, owed, stamp, trace,
                   bounds>>

\* The batch that r's next record waits for.
WaitsFor(r) ==
    IF pc[r] = "log" /\ next[r] <= Len(Records(r))
    THEN {holder[ServiceAt(r, next[r])]} \ {None, r} ELSE {}

Abandon(r) ==
    /\ Goto(r, "failed")
    /\ holder' = Released(r)
    /\ EndBatch(r)
    /\ read' = [read EXCEPT ![r] = {}]
    /\ owed' = [owed EXCEPT ![r] = {}]
    /\ UNCHANGED <<rows, fields, limiter, items, cut, at, stamp, trace, now, edits>>

\* Batches that wait for each other: PostgreSQL aborts one of them, and its
\* request is answered 500.
Deadlocked(r) == \E S \in SUBSET Requests : r \in S /\ S = UNION {WaitsFor(q) : q \in S}

Deadlock(r) ==
    /\ Deadlocked(r)
    /\ Abandon(r)
    /\ UNCHANGED faults

-----------------------------------------------------------------------------
(* Faults, and what else happens. *)

\* The connection to the database, or to the client, is lost.
Lose(r) ==
    /\ pc[r] \in Working
    /\ faults < MaxFaults
    /\ faults' = faults + 1
    /\ Abandon(r)

\* The server restarts: the requests in flight end, and the limiter, which is
\* kept in memory, forgets what it has admitted.
Restart ==
    /\ faults < MaxFaults
    /\ faults' = faults + 1
    /\ pc' = [r \in Requests |-> IF pc[r] \in Closed \cup {"new"} THEN pc[r]
                                 ELSE "failed"]
    /\ began' = [k \in Keys |-> -1]
    /\ count' = [k \in Keys |-> 0]
    /\ restarts' = Append(restarts, now)
    /\ past' = {r \in Requests : verdict[r] # "none"}
    /\ next' = [r \in Requests |-> 1]
    /\ written' = [r \in Requests |-> [s \in Services |-> 0]]
    /\ holder' = [s \in Services |-> None]
    /\ read' = [r \in Requests |-> {}]
    /\ owed' = [r \in Requests |-> {}]
    /\ UNCHANGED <<rows, fields, items, cut, at, stamp, verdict, judged, window, now,
                   edits>>

\* update_project replaces scrub_fields.
UpdateProject(F) ==
    /\ edits < MaxEdits
    /\ edits' = edits + 1
    /\ fields' = F
    /\ owed' = [r \in Requests |-> owed[r] \cap F]
    /\ UNCHANGED <<rows, limiter, pc, items, cut, at, read, next, written, holder,
                   stamp, trace, now, faults>>

Tick ==
    /\ now < MaxNow
    /\ now' = now + 1
    /\ UNCHANGED <<rows, fields, limiter, pc, inHand, holder, stamp, trace, faults,
                   edits>>

-----------------------------------------------------------------------------
Serve(r) ==
    \/ Check(r) \/ Open(r)
    \/ ReadFields(r) \/ StoreEvent(r) \/ StoreRaw(r)
    \/ StoreRecord(r) \/ CommitBatch(r) \/ Deadlock(r)

Next ==
    \/ \E r \in Requests : Arrive(r) \/ Serve(r) \/ Lose(r)
    \/ Restart
    \/ \E F \in SUBSET Fields : UpdateProject(F)
    \/ Tick

Spec == Init /\ [][Next]_vars

\* The runtime polls every request, statements that can run are run, and
\* PostgreSQL detects deadlocks.
FairSpec == Spec /\ \A r \in Requests : WF_vars(Serve(r))

-----------------------------------------------------------------------------
(* Properties. *)

\* What is stored of the item that client r put at position i.
Stored(r, i) ==
    CASE Sent[r][i].type = "event" ->
            LET e == Json(Sent[r][i].payload)[1] IN
            events[e.id] # None /\ events[e.id].row.event.id = e.id
      [] Sent[r][i].type = "log" ->
            /\ <<r, i>> \in raw
            /\ \A n \in 1..Len(Json(Sent[r][i].payload)) : <<r, i, n>> \in logs
      [] OTHER -> <<r, i>> \in raw

\* The server reads the items that the client put into the envelope, however
\* they are delimited; 202 means that every one of them is stored, and no
\* envelope is refused that arrived whole.  Whatever the answer, the items
\* stored come before those that are not, and nothing of a refused envelope is
\* stored.
StoredAsSent ==
    \A r \in Requests :
        /\ items[r] \in {<<>>, Sent[r]}
        /\ pc[r] = "accepted" => \A i \in 1..Len(Sent[r]) : Stored(r, i)
        /\ pc[r] = "refused" => r \in cut
        /\ \A i \in 1..Len(Sent[r]) :
              i < at[r] => pc[r] \in Working \cup {"accepted", "failed"} /\ Stored(r, i)
        /\ \A row \in raw : row[1] = r => row[2] <= at[r]
        /\ \A row \in logs : row[1] = r => row[2] < at[r]

\* log_count of a service is the number of records stored for it: batches
\* that run at once, are aborted as victims of a deadlock or are sent again
\* neither lose nor invent one.
LogsCounted ==
    \A s \in Services :
        logCount[s] = Cardinality({l \in logs :
            Json(items[l[1]][l[2]].payload)[l[3]].service = s})

\* A stored event shows no field that was configured as secret from the moment
\* the event had its turn until it was stored; and events that look alike once
\* their secrets are taken out are grouped together, so that the fingerprint
\* tells nothing of a secret either.  (Only events are scrubbed: log records and
\* other raw items are stored as they came.)
NoTraceOfSecrets ==
    LET stored == {events[i] : i \in {j \in EventIds : events[j] # None}} IN
    /\ \A x \in stored : x.owed \cap DOMAIN x.row.event.data = {}
    /\ \A x, y \in stored :
          [x.row.event EXCEPT !.id = None] = [y.row.event EXCEPT !.id = None] =>
              x.row.print = y.row.print

Admitted(k) == {r \in Requests : HeaderOf[r] = k /\ verdict[r] = "in"}

\* The requests admitted in the period from t on that got the mutex in the tick
\* in which they took the time.
Prompt(k, t) ==
    {r \in Admitted(k) : judged[r] = stamp[r] /\ stamp[r] \in t..(t + Window - 1)}

\* The restarts of the server in that period.
RestartsFrom(t) == {i \in DOMAIN restarts : restarts[i] \in t..(t + Window - 1)}

\* Of the requests that do not wait for the mutex, fewer than twice the limit are
\* admitted in any period of the length of a window, and for each restart of the
\* server in the period one limit more at most; and a request is turned away
\* only if as many as the limit of its key were admitted after the window before
\* its own time.
LimitKept ==
    \A k \in Keys :
        /\ \A t \in 0..MaxNow :
              Cardinality(Prompt(k, t)) < (2 + Cardinality(RestartsFrom(t))) * Limit
        /\ \A r \in Requests : HeaderOf[r] = k /\ verdict[r] = "out" =>
              Cardinality({q \in Admitted(k) : judged[q] > stamp[r] - Window}) >= Limit

\* Every request that has arrived is answered, whatever batches it meets.
Answered == \A r \in Requests : pc[r] # "new" ~> pc[r] \in Closed

=============================================================================
