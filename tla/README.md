# A verification of open-sentry

open-sentry is an event monitoring server: an Axum application over
PostgreSQL, with background workers in the same process. This directory holds
TLA+ models of its parts, TLC instances that check them, and TLAPS proofs of
the most important results. Paths such as `api.rs:369` are relative to
`src/src/`; `PROJECT.json` maps every definition to the lines it models.

## The system

| part | state (tables, memory) | operations | talks to |
|---|---|---|---|
| Event ingestion (`api.rs` 191-440, `telemetry.rs` 15-79) | `events`, `issues`, `services`, `releases`, `symbolication_jobs` | `ingest`, `ingest_envelope`, `persist_event` | alert evaluation, in the same transaction |
| Alert evaluation (`alert.rs`) | `alert_rules.last_triggered_at`, rows of `notification_outbox` | `enqueue_matching_alerts`, `mark_issue_status`, `enqueue_recovery_alerts` | called by ingestion and triage; feeds the outbox |
| Notification outbox (`notification.rs`) | `notification_outbox`, `webhook_deliveries` | `run_worker`, `process_batch`, `enqueue_next_escalation`, `retry_notification` | SMTP, Telegram, Twilio, webhooks |
| Symbolication (`symbols.rs`, `api.rs` 1424-1501) | `symbolication_jobs`, `debug_files`, `events.symbolicated_exception` | `run_worker`, `process_event`, upload, delete, reprocess | jobs come from ingestion |
| Issue triage (`api.rs` 1096-1242, 1930-2002) | `issues`, `events.issue_id` | batch update, merge, split, change of fingerprint, update, fix | shares rows with ingestion |
| Project lifecycle (`api.rs` 602-780, 975-1036) | `projects`, `project_keys`, `project_deletion_requests` | create, update, archive, keys, request, cancel and purge of a deletion | decides what ingestion accepts |
| Accounts (`auth.rs`, `api.rs` 804-969) | `users`, `user_sessions`, `user_invitations` | bootstrap, login, logout, authenticate, users, invitations | guards every administrative handler; the roster is read by alerts |
| Operations (`operations.rs`) | `IngestRateLimiter` and `RuntimeMetrics` in memory, `audit_logs` | rate limit, metrics, audit, retention | retention deletes events of ingestion |
| Envelope and log batches (`envelope.rs`, `telemetry.rs` 100-164, `api.rs` 232-319) | `envelope_items`, `logs`, `services` | decode, parse, store the items, persist a batch | `ingest_envelope`; an event goes through `persist_event` |
| Rules, policies, schedules, webhooks, releases (`api.rs`) | `alert_rules`, `escalation_policies`, `on_call_schedules`, ... | create, update, delete | read by alert evaluation and the outbox |
| Configuration and start-up, tools, web console | none that changes | | |

What makes the behaviour hard:

- Concurrency lives in PostgreSQL: each request is a task with its own
  connection, every statement runs under READ COMMITTED, and handlers are
  sequences of statements, sometimes in a transaction and sometimes not.
- The workers hold claims across calls to the outside, in a table that
  administrators and other workers write at the same time.
- A process can stop between any two statements. What it had not committed is
  gone, and what it had committed stays.
- Retention, retries and administrators act on rows that somebody else is in
  the middle of processing.

Correctness, part by part:

- *Ingestion*: an event is stored and counted once however often it is sent,
  202 means stored, and concurrency shows only as some order of whole events.
- *Alert evaluation*: one alert per rule and event, no two within the
  cooldown, none of a disabled rule, and one when the threshold is reached.
- *Outbox*: no alert is lost after its commit, duplicates come only from named
  faults, attempts are bounded, escalation happens exactly after failure.
- *Symbolication*: a job is finished or tried again, with the newest files.
- *Triage*: every event belongs to an issue that exists and counts it; the people
  on call are told of a resolution, and not of one that does not hold.
- *Project lifecycle*: an archived project accepts no event and its keys are
  revoked, nothing is purged before its time or after a cancel, a purge leaves
  nothing behind.
- *Accounts*: a deactivated user has no session, an invitation makes one user,
  an organization keeps an administrator.
- *Operations*: the limit per window, nobody turned away below it, counts that
  survive retention.
- *Envelopes*: the server reads the items the client sent, however they are
  delimited; 202 means all of them are stored; a batch counts every record once
  and is not stuck in a deadlock; a secret field of an event leaves no trace.

`PROJECT.json` lists the components with their status, and the hazards of this
code, each at its line with the properties that cover it.


## The modules

| module | models | refines |
|---|---|---|
| `AlertDelivery` | what the outbox promises about one alert | |
| `Outbox` | `process_batch`, `run_worker`, escalation, `retry_notification`, `delete_rule` | `AlertDelivery` |
| `EventStore` | what ingestion promises: an event stored in one step | |
| `Ingest` | `persist_event`, `upsert_event_service`, `enqueue_matching_alerts`, `mark_issue_status`, statement by statement | `EventStore` |
| `Triage` | `merge_issues`, `split_issue`, `change_fingerprint`, retention, beside ingestion | |
| `Recovery` | `update_issue`, `batch_update_issues`, `fix_issue`, the alert rules and `enqueue_recovery_alerts`, for one issue | |
| `Symbolication` | `run_worker` and `process_event` of `symbols.rs`, `upload_debug_file`, `delete_debug_file`, `reprocess_event` | |
| `Projects` | projects, keys and deletion requests in `api.rs`, beside ingestion's three looks at a project | |
| `Accounts` | `auth.rs`, and users, sessions and invitations in `api.rs` | |
| `EnvelopeFormat` | the pure functions of an envelope: `parse`, the reading of a log batch, scrubbing, the fingerprint | |
| `Envelopes` | `rate_limit_ingest`, `ingest_envelope`, `persist_log_batch`; extends `EnvelopeFormat` | |
| `MCOutbox`, `MCIngest`, `MCTriage`, `MCRecovery`, `MCSymbolication`, `MCProjects`, `MCAccounts`, `MCEnvelopes` | instances for TLC | |
| `OutboxProofs`, `IngestProofs`, `TriageProofs`, `RecoveryProofs`, `SymbolicationProofs`, `ProjectsProofs`, `AccountsProofs`, `EnvelopesProofs` | theorems | |

Definitions that change a module into one with a plausible bug stand before the
definition they change and are marked *Mutant of*; no action uses them. They
show that a property can fail.

### PostgreSQL in the models

All state that matters is in PostgreSQL, so a model of this program is a model
of statements. Three rules, from the isolation level the pool uses (READ
COMMITTED), give the steps their size:

- A statement that runs on its own is one step. A transaction is one step per
  statement, except where nothing outside can tell two statements apart.
- A statement sees what was committed when it began and what its own
  transaction wrote. `UPDATE`, `DELETE`, `ON CONFLICT DO UPDATE` and
  `SELECT ... FOR UPDATE` wait for the transaction that wrote or locked the row,
  and then look at the row, but not at what they had read elsewhere, again; rows
  that came meanwhile they do not see. A statement that may have to wait and whose
  outcome depends on what it saw at first is therefore two steps, one that looks
  and one that writes.
- Locks are kept to the end of the transaction. Two transactions that wait for
  each other are a deadlock, and PostgreSQL aborts one of them.

### Outbox

`status`, `attempts`, `wait` and `age` are the columns `status`, `attempts`,
`available_at - now()` and `now() - claimed_at` of `notification_outbox`; `born`
is `created_at` as a rank, and stays when the row is deleted, so that an id is
not used twice. Times relative to now need no clock and no bound on it.
`pc`, `held`, `cur` and `snap` are the local variables of a worker between two
awaits: the vector of claimed jobs, the job in hand and its `attempts` as the
claim returned it. `delivered` and `blame` are history.

`Claim` is the whole transaction of `process_batch` (the CTE, the lock and the
`UPDATE`), `Send` a channel, `SettleOk` and `SettleErr` the two branches of the
loop, `Escalate` and `EscalateRefused` `enqueue_next_escalation` with and without
somebody at the next step, and `Abort` an error or a crash at any await, after
which `run_worker` polls again. A crash and an error leave the same state, as a
worker keeps nothing that outlives a batch. `Enqueue` is the insertion by
`enqueue_matching_alerts`, `Replay` is `retry_notification`, `DeleteRule` the
cascade of `delete_rule`.

`blame` names what can weaken the promise of a row: `overrun` (a worker kept it
beyond its lease), `replay`, `abort` and `lost` (the receiver got it and the send
failed nevertheless). The properties say what holds without blame, and so which
of these events each guarantee depends on. `reqwest::Client::new()` has no
timeout and the jobs of a batch are sent one after the other, so an overrun
needs no fault.

Abstractions: the policy chain of a rule is fixed while its alerts are open;
the channel, its payload and the record in `webhook_deliveries` are one
delivery; the backoff keeps its growth and its cap in ticks.

### Ingest

`stored` is the table `events`, `tally` the three aggregate columns of `issues`,
`services` and `releases`, `status` that of `issues`, `queued` is
`symbolication_jobs`, `last` is `last_triggered_at`, `alerts` are the rows of
`notification_outbox`, `holder` the lock on a row or on an event id. What a
transaction has written and not committed is in `draft`, `reopened`, `inserted`
and `fired`.

One action per statement, in the order of the code: `Begin`, `Serialize` (the
advisory lock), `Lookup`, `UpsertIssue`, `UpsertService`, `InsertEvent`,
`UpsertRelease`, `MatchRules` and `LockRule` (the evaluation of the `WHERE` clause
and the locks of `FOR UPDATE`, with its re-evaluation), `RaiseAlerts`, `Commit`.
`Lose` is a lost connection, `DeadlockVictim` the deadlock detector, `Resend` the
client's retry. `SetStatus`, `EditRule` and `EditRoster` are administrators.

Abstractions: a request is given its issue, service and release, so the
fingerprint is not computed; only `enabled` is edited of a rule; a service is
created by events only; the statements of `RaiseAlerts` are one step, as the
rows they touch are locked by then.

### Triage

`print`, `count` are `fingerprint` and `event_count` of `issues`, `home` is
`events.issue_id`; `None` means that the row is not there. A merge is
`BeginMerge`, `FindEvents`, `MoveEvents`, `CountEvents`, `WriteTarget`,
`DeleteSources`; a split is `BeginSplit`, `CountChosen`, `InsertIssue`, `FindEvents`,
`MoveEvents`, `CountEvents` and then `WriteRest` or `DeleteSources`. Three statements
are two steps. The `UPDATE` of `events` finds its rows when it begins (`found`), waits
for those that are locked, and moves those that are still in a source (`Leaving`): an
event that is stored in a source meanwhile is not moved, and goes with it. A merge
counts (`CountEvents`) when the `UPDATE` of its target begins, and may have to wait
for the row (`WriteTarget`). A split counts the chosen events (`CountChosen`) when its
`INSERT` begins, which may have to wait at the unique index (`InsertIssue`). `writer` holds the row locks of issues, `Sharers` the key-share locks that a
foreign key takes, `inserting` the entries of the unique index that are not
committed.

Ingestion is reduced to the statements that meet a merge: `Upsert` and `Store`.
The history variables name the ways in which an event or a count can go wrong:
`purged` (retention), `late` (stored in, or moved to, an issue that is being deleted:
by a merge that has found its events, or by a split that has counted none that stay;
`Emptying`), `selfMerged` (the target is one of the sources) and `skewed` (the count
was overtaken between counting and writing it, or retention deleted an event).

### Recovery

One issue: `status` and `count` are its columns, `live`, `enabled` and `notify` the
rules with their switches, `recoveries` the recovery rows of the outbox by rule and
count, which is what their `dedup_key` is made of. `update_issue` is `Mark` and then
`Enqueue`, two statements without a transaction; `BatchUpdate` is one `UPDATE` and
queues nothing; `fix_issue` is `FixRead` and `FixStart`. `Fail` is the end of a
request between its statements. Of the rest of the system there is what writes
the same rows: `Arrive` is the commit of an ingestion, which counts an event, reopens
a resolved issue and raises alerts, `Recount` and `Remove` a merge or a split,
`CreateRule`, `UpdateRule` and `DeleteRule` the administrators.

`word` is the kind of alert that was queued last for each rule, which is what the
people on call believe. `overtaken`, `outdated`, `unannounced` and `lowered` name
what can make it wrong; `steady` are the rules that have been subscribed since the
issue was resolved.

Abstractions: issues meet in no row of this part but the rules, so there is one;
its first event is taken to have raised no alert; an alert enters `word` when its
transaction commits, while a worker sends in the order of `available_at`, which can
differ by the length of a transaction; the context that `fix_issue` saves. Recovery
alerts follow neither the filters of a rule nor its escalation policy; that is the
code's choice, and the model's.

### Envelopes

`EnvelopeFormat` translates the parser symbol by symbol: a body is a sequence of
newlines and pieces of JSON without newlines, a payload is delimited by a length or
by the next newline. `ReadFrom` is a round of the loop of `parse`, and `Parse` takes
the recursive function of these rounds at the line after the envelope's header. The
module also says without the parser what a client writes: `Written` places the items
in the body one after the other, each with its header on a line of its own, with or
without its length (`Framed`), and nothing but newlines between them; `Cut` is such
a body that ends before the stated length of an item. `Scrub` and `Fingerprint` are `scrub_sensitive_with` and the choice of the
exception's frames in `fingerprint`; the level, the joining of the parts and the
hash are left out, as joining and hashing are taken to be injective.

`Envelopes` has a request from its arrival on: `Arrive` takes the time, `Check` is
`IngestRateLimiter::check` under its mutex, `Open` decodes and parses the body that
arrived, whole or cut, and then the items come one by one: `ReadFields` and
`StoreEvent`, or `StoreRaw` and, for a log item, `StoreRecord` per record and
`CommitBatch`. `holder` is the row lock of a service, `written` what the transaction
has made of its `log_count`. `Deadlock` aborts a batch of a cycle, `Lose` ends a
request, `Restart` all of them, and empties the limiter, which is only in memory; the
history of its verdicts stays, and `restarts` are the times at which that happened, so
that `LimitKept` speaks of all lives of the server and says what a restart adds: a
limit at most, in each period that it falls into. `past`, the requests judged before
the last restart, is there for the proof. `UpdateProject` replaces `scrub_fields`.

The key of the limiter is the whole `x-sentry-auth` header, and requests without one
share a key. `stamp` is taken before the mutex is, so that a request can bring an
older time than the window it meets; `duration_since` is then zero.

`Sent` is what the client meant; `Bodies` are `Written` ways to write it down;
`CutBodies` are `Cut` bodies, of items with a length, since without one a cut cannot
be told (`BodiesAssumption`, which TLC evaluates for the instances). `owed` are the fields that were configured as secret all the time since the
event had its turn.

Abstractions: an event is one step (`Ingest` has its transaction), and a request is
authorized (`Projects` has that); the names of fields are compared in lower case on
both sides; decompression is part of the body; retention of logs and raw items. What
`NoTraceOfSecrets` promises is promised for events only: the code scrubs neither the
attributes of a log record nor any other raw item, and stores them as they came. A
client that sends an envelope again stores its raw items and logs again, and its
events only once.

### Symbolication

`job` is `symbolication_jobs.status`, `resting` says that `available_at` is to
come, `mark` is `events.symbolication_status`, `result` stands for
`symbolicated_exception` by the files that went into it, `home` is
`debug_files.release_id`. The worker goes through `Claim`, `ReadMaps` (the event
and the source maps), `ReadNative` (the native files and the loop over the
frames), `WriteResult` and `CloseJob`, or to `FailJob` from any of them; `Lose` is
the end of the process or of the statement that would have closed the job, whose
error `run_worker` discards. An upload is `BeginUpload`, `Attach`, `Request`; a
reprocessing is `BeginReprocess`, `ResetJob`, `ResetMark`; a request can end
between its statements (`Abandon`). None of these is in a transaction.

`Claim` takes any due job. The code asks for the oldest, but skips a row that
another statement has locked, and a reset or a deletion can be at any row.
Which debug files match a frame is the constant `Fits`; an event without a
matching frame, file or release fails. `attempts` and `last_error` are read by
nothing and left out.

A claim is no lease, and a worker closes its job by event id whatever its status
has become. `blame` names what this weakens: `overtaken` (the job was reset or
deleted while it was processed), `crossed` (the mark was reset after the claim)
and `dropped` (a worker was lost). `announced` are the files whose upload was
completed for their release.

### Projects

`project` and `key` are the rows of `projects` and `project_keys` with `archived_at`
and `revoked_at`, `wait` is `execute_after - now()` of the deletion request, `stored`
the events. `Begin` is `authorize_project`; what follows it is a statement of its
own: `ArchiveProject` and then `RevokeAll`, `CreateKey`, `RevokeKey`,
`RequestDeletion`, `CancelDeletion`, `CheckPurge` and then `PurgeProject`. A handler
can end before any of them (`Abandon`).

Of ingestion only what concerns the project is there: `Authorize` (the key and
`archived_at`), `ReadProject` (the fields to scrub, and `archived_at` again), `Write`
(the foreign keys) and `Commit`. From `Write` to `Commit` a transaction holds
key-share locks on the row of the project (`Writers`), for which a purge waits; the
cascade then sees what they committed.

`overtaken`, `fresh`, `halfway` and `barred` name a purge whose request was changed
after it looked, a key made for an archived project, an archiving that ended after
its first statement, and a request that had yet to read its project when it was
archived.

The requests here are events. For a log record or another raw item the code does not
read the project again after it has authorized the request, so that `ArchivingStops`
is not true of them: they are stored whenever the project is archived after that.

Abstractions: the confirmation by slug, which nothing changes; `external_id`;
`update_project`, an `UPDATE` of columns that no other statement here reads; what
hangs on an event; retention; a client that sends an event twice (`Ingest`).

### Accounts

`role` and `active` are the columns of `users`, a user being his e-mail address;
`session` and `owner` are `user_sessions`, `invite` and `offer`
`user_invitations`. A login is `CheckPassword` and `OpenSession`; logout and
expiry are `CloseSession`. A handler is `Begin` (`current_admin`) and then one of
`CreateUser`, `UpdateUser`, `RevokeSession`, `CreateInvitation`; an update that
leaves the user inactive goes on to `DeleteSessions`. `deactivate_user` calls
`update_user`. The acceptance of an invitation is a transaction: `FindInvitation`
and `LockInvitation` are the evaluation of the `WHERE` clause and of it again
under the lock, `InsertUser` meets the unique index (`Inserting`),
`CommitInvitation` marks the invitation and commits.

`doomed` are the sessions that a deactivation found, `late` those that were opened
for an inactive user, `halfway` the users whose deactivation ended after its first
statement; `crossed` says that somebody took an administrator's access who had no
longer any himself; `maker` is the invitation a user was made by.

Abstractions: passwords, hashes and cookies; one organization, as the code has no
way to make another; addresses are compared as they are stored, in lower case. A
session whose time is over is taken as deleted, since every query that uses a
session compares `expires_at`, except that an administrator can list and revoke it.

## The runs

| run | instance | shows |
|---|---|---|
| `outbox_safety` | 2 workers, a policy of 2 steps, 2 attempts, lease 1, 1 abort, 1 retry | types, bounded attempts, exclusion by lease, no duplicate, no needless, no lost and no skipped escalation, all but for the blamed events; every step is a step of `AlertDelivery` |
| `outbox_live` | 1 worker, 3 rows of 2 rules, batches of 2, 1 abort | every due alert is settled |
| `ingest_retry` | 4 requests: an event, its retry, another event of the same rows, and another project's use of the id; 1 loss, 1 change of who is on duty or of the rule | aggregates, answers; implements `EventStore` |
| `ingest_rules` | 2 events that share only 2 rules, cooldown 1, clock 3, 1 edit, 1 loss | cooldown, disabled rules, an answer for every request |
| `ingest_threshold` | 2 events, threshold 2 | finding |
| `triage_safety` | 2 administrators, 4 events of 3 fingerprints, 3 ids, 2 of the fingerprints to be given to issues, 1 event may expire | events are lost and counts are wrong only in the named ways |
| `recovery` | 3 requests, 2 rules, counts up to 3, 1 merge or split, 1 edit of a rule | a recovery is announced when there is one, and withdrawn by what reopens the issue, all but for the named races |
| `symbolication` | 2 workers, 1 event, a source map and a native file that fit it, 2 releases, 1 administrator | who is at a job, where it can be stuck, and with which files an event is completed |
| `projects` | 1 project with 2 keys, 2 administrators, 2 requests, a cooling-off period of 2 ticks | what an archive, a revocation and a purge promise to requests and to each other |
| `accounts` | 2 users, 2 logins, 2 handlers, 1 invitation, 2 guests | the organization keeps an administrator, sessions end with a deactivation, an invitation is spent with its user; all but for the named races |
| `envelopes_items` | 3 requests: an envelope with an event and a log batch, the same again, and one that locks the services in the opposite order and has a second, unreadable event; 1 fault, 1 change of the secret fields | the items are read as they were sent, 202 means stored, logs are counted, secrets leave no trace, every request is answered |
| `envelopes_limit` | 6 requests, 1 of them without the header; limit 2, window 2, clock 2, 1 restart | what the fixed window admits, with and without a restart, and whom it turns away |

Why these bounds are enough to be interesting: two workers, or two transactions,
are what an overrun, a lost update or a deadlock takes; batches of two in
`outbox_live` let an abort leave a claimed row that was not yet in hand (that the
`LIMIT` starves no row is proved, see `DueRowsAreServed`); the policy of two steps has
a first step, a last step and the passage between them; a lease of one tick can be kept,
met exactly and overrun. The number of retries, aborts, losses and edits
(`MaxReplays`, `MaxFaults`, `MaxEdits`, `MaxRecounts`) is bounded by one, the
clocks of `Ingest` and `Envelopes` by `MaxNow`, the count of `Recovery` by
`MaxCount`; nothing else is bounded. In `symbolication` one event is enough, as
workers meet only at an event, and events share nothing but files; the second
release is the one to which a file can be attached first; losses and requests are
not bounded at all. Projects meet nowhere, so `projects` has one; two keys tell
the revocation of all from that of one; two ticks let a deletion be put off while
it is half due. In `accounts` two users are enough to demote each other, and the
logins are what bounds a run. In `triage_safety` three issues can be live at once, so
that a merge of two into the third waits for a merge between the two while an event
arrives; that takes an event in each of the three, and one that comes late to a
source and has the fingerprint of its first. Administrators, ids of issues and the two events
of one fingerprint are symmetric, as each only names a row; `NewPrints`, the
fingerprints that administrators give, are two, one that an event has which they may
regroup and one that two have. In `recovery` three requests are
a resolution, one that undoes it and another resolution; counts up to three let
one be lowered to a value it has had. `envelopes_items` has `MaxItems` 3 and
`MaxBytes` 1 for the code's 100 and 1 MiB, so that a full envelope and a largest
event are the ones that are sent, and leaves the limiter open (`Limit` 3, one
tick); `envelopes_limit` has empty bodies instead, a window of two ticks, which a
request can enter early or late, a clock that reaches a second window, and as many
requests as it takes to meet the bound without a restart (three admitted in a period)
and to go beyond it with one.
`CHECK_DEADLOCK FALSE` is there because every request ends and an empty outbox has
nothing to do.

### Fairness

`outbox_live` assumes that time passes and that a worker that can
take a step takes one. `run_worker` is an endless loop that logs an error of a
batch and polls again, so that is what the code does as long as a send
returns; that it returns is an assumption about lettre, reqwest and TCP. Aborts
are not fair, and finitely many. `ingest_rules` assumes that a statement that can
run is run and that PostgreSQL resolves deadlocks, which it does after
`deadlock_timeout`. `envelopes_items` assumes the same of each request: the runtime
polls the tasks that are ready, and a statement waits only for a lock, whose holder
goes on or is aborted. No client has to send or resend anything.

## What is proved

TLAPS proves the following for every value of the constants that satisfies
`OutboxAssumption`, `IngestAssumption`, `TriageAssumption`, `RecoveryAssumption`,
`SymbolicationAssumption`, `ProjectsAssumption`, `AccountsAssumption`, or
`EnvelopesAssumption` with `FormatAssumption`, `BodiesAssumption` and
`EventsAssumption`: any number of workers, rows, rules, requests, events,
issues, files, releases, projects, users, invitations and bodies (where a count
needs it, finite), any lease, policy, cooldown, threshold, cooling-off period,
limit and window, and any bound on the faults. The assumptions say what the schema
says: a policy step has one predecessor and belongs to the same rule, an issue is
not a service; those of `Envelopes` say besides that a client writes an envelope as
the format asks (at most `MaxItems` items, events of at most `MaxBytes`), and that
the ids and services of its events are ids and services.

`OutboxProofs` proves the properties of `outbox_safety`: `TypeCorrect`,
`AttemptsAreBounded`, `LeaseExcludes`, `DeliveredOnce`, `EscalationIsSound`,
`SentIsFinal`, and `Refinement`, that the outbox implements `AlertDelivery`. None of
the properties is inductive. The invariant adds

- `WorkerOK`: a worker between a send and its settlement holds the job it sent;
- `RowInv`: what a status says about the other columns;
- `LeaseInv`: without overrun or retry, a held row is `processing`, its lease has
  not expired, and its holder is the only one;
- `CountInv`: attempts plus holders stay below the bound. Each holder will count
  at most one more failure, so the sum, and not `attempts` alone, is inductive;
- `DeliveryInv`, `EscalationInv`: where a delivered row without blame can be, and
  when a row of a later step exists;
- `SnapshotInv`: the attempts that a worker read at its claim are those of the row,
  as long as nobody else could have written it. `StatusAfterError` decides on the
  column and `Escalates` on the snapshot, so `EscalationSound` needs it.

`DueRowsAreServed` is the safety half of `Settles`: while a row is due, a worker that
polls finds a batch within `LIMIT 20`, a worker that does not poll has a job to go on
with, and the oldest due row is in every batch. Rows have different `created_at`
(`OrderInv`), so there is an oldest one; and the largest set of due rows that is
older than the rest and within the limit is a batch (`BatchExists`).

`IngestProofs` proves the invariants and the action property of `ingest_retry` and
`ingest_rules`, `OneAlertPerEvent`, and `StoresAtomically`, that ingestion implements
`EventStore`. The
invariant is: a transaction holds the lock of every row it has written
(`RowInv`); its draft is the committed row with its own event counted, which can
be said because nobody else can commit that row meanwhile; alerts belong to
stored events and are not younger than `last_triggered_at` (`AlertInv`); a stored
event with a release is queued (`StoredInv`). `OnlyCommitPublishes` reduces the
rest to one action.

`SomebodyGoesOn` is the safety half of `Answered`: of any finitely many open
transactions that wait for no others, one can run its next statement. A transaction
holds no lock that it has not taken yet or has given back (`HoldersInv`), so whoever
is waited for has passed the place of the one who waits (`WaitsAhead`): upserts never
wait in a circle. At the rules they can; then the smallest set of transactions that
wait for no others is such a circle (`Circle`), and PostgreSQL aborts one of it.

`TriageProofs` proves all properties of `triage_safety`: `TriageTyped`,
`LossesAreNamed`, `CountsAreNamed`. The invariant says what the locks are for. An
issue that is being inserted has an id and a fingerprint of its own (`InsertInv`);
an event that a request has moved is still where it found it, for everybody else,
and its target cannot go (`MovedInv`, lemmas `Locked` and `TargetStays`). What is
in an issue that is about to be deleted was found or moved out by the request, or is
`late` (`EmptyInv`); with the last step of a request, which deletes exactly what is then
in its sources, this gives `LostOnlyByRace`. `SeenInv` says that the counts a
request holds are right as long as nobody has overtaken it, and `Undisturbed` that
every step of another that could make one wrong overtakes it.

`RecoveryProofs` proves all properties of `recovery`: `RecoveryTyped`,
`LastWordIsTrue`, `EveryResolutionIsTold`. A request whose mark was not undone
finds the issue resolved or gone (`MarkInv`), so its alerts do not outlive the
resolution. As long as no count was lowered there is no row with a count that is
still to come, and a row with the present count belongs to a rule that was told
(`KeyInv`): this is when the deduplication suppresses only what was said.

`EnvelopesProofs` proves all safety properties of the envelope runs:
`EnvelopesTyped`, `LimitIsKept`, `LogCountIsExact`, `SentIsStored`,
`SecretsAreGone`. For the limiter: whoever was admitted in a window is counted by
it (`CountInv`), windows of a key follow each other at a distance of at least the
window (`TimeInv`, `WindowInv`), so a period of that length meets at most two in one
life of the server, and the request that opened the first of two came before it
(`TwoWindows`). A life that began in the period has one window in it (`LifeInv`), so
each restart adds a limit at most, which `PastInv` carries from life to life. A window
that is full has been filled since it began (`TurnedAwayInv`). For the
logs: what a batch has written is what was committed and its own records so far,
as nobody commits a service it holds (`BatchInv`). `SecretsAreGone` needs that the
fields read contain those that were owed (`EventInv`), and that the fingerprint is
computed from what is left of the event.

`SentIsStored` rests on two theorems about the parser, for every body: `WrittenIsRead`,
that `Parse` of a `Written` body returns the items sent, and `CutIsRefused`, that a
`Cut` body is refused. The library's induction takes a predicate as a parameter, which
the provers cannot instantiate, but its theorem about minimal elements takes a set
(`Least`): so the recursion is well defined (`ItemsFromDef`), because a least place
where it is not would have a later one; and of the items that are read wrongly there
would be a last (`Gaps` carries the parser over newlines, `ReadsOn` from item to
item). In the states, what an open request has in `items` is what was sent, and what
comes before `at` is stored: `HandInv` says which item the place of a request belongs
to, `IdInv` that an event is stored under its id, `StoredInv` that the items before the
one in hand are stored and those after it are not (`SentInv` is their conjunction).

`SomebodyGoesOn` says of `Answered` here what it says in `IngestProofs`: batches that
lock the same services wait for each other in a circle, which is broken, or for one
that can go on; an event waits for a batch only, and holds no lock that a batch
wants.

`SymbolicationProofs` proves all properties of `symbolication`: `SymbolicationTyped`,
`OneWorkerPerEvent`, `StuckOnlyWhenLost`, `MarksFollowJobs`, `NoFileMissed`. The
invariant says what a worker can rely on until somebody overtakes it: the job is
still `processing` (`ClaimInv`), so that no other worker can claim it and the event
exists; once it is about to close the job the mark is set (`MarkInv`); and what it
has read, or written, contains every announced file its event needs (`ReadInv`).
The step that matters is `Request`: a new file is announced by the statement that
resets the jobs of its release, so a worker that has missed the file is
overtaken by the same step.

`ProjectsProofs` proves all properties of `projects`, and `PurgesAreClean`, that a
purge leaves no key, deletion request or event without its project. The invariant
adds that the project of a handler or of a request was made (`AtInv`,
`RequestInv`), that the project of a request between `Write` and `Commit` is
there, which is what the lock is for, and that a request that was barred finds its
project archived or gone (`BarredInv`). It rests on `ProjectsGoForward`: no
archived project becomes active again.

`AccountsProofs` proves all properties of `accounts`. `AdminRemains` is carried by
the caller: an update by an administrator leaves himself one, because he can
neither deactivate nor demote himself, and any other update needs a witness only
when it is not blamed. `SessionsEnd` needs that a doomed session is open
(`RowInv`) and that a pending deletion stays pending until it is carried out
(`PendingFrame`). `InvitationSpent` needs `GuestInv`: while a guest has inserted
his user there is no other with that address, committed or not, so that no
invitation of his is spent. TLC checks it with one invitation; that a second one
for the same user does no harm is proved.

`CanStep` of `OutboxProofs` and `CanGoOn` of the other two are the guards of
`WorkerStep` and `Serve` written out, as `ENABLED` is beyond the provers; TLC finds
them equal to `ENABLED` in every state of the runs' instances.

Only model-checked: that what can go on does, and so comes to its end, which is
`Settles` and `Answered` of `Ingest` and of `Envelopes` (liveness under fairness);
and the finding.

## Findings

- *A threshold that is reached and does not fire* (`ingest_threshold`). Two
  transactions that share no row each count the events without the other's
  (`alert.rs:30`), so the rule stays silent although its window holds as many
  events as it asks for.

What follows was met while modelling and is excepted, by name, in the properties:

- The outbox. `notification.rs:112` commits `failed`, and the next escalation step is
  inserted by a later statement: a batch that ends in between loses the rest of
  the escalation (`EscalationSound` excepts an aborted batch), while
  `docs/architecture.md:18` says the outbox loses no alert after a commit.
- Ingestion. The target of a policy's first step is resolved in the transaction of
  the event (`alert.rs:46`): when nobody is on duty the event is rolled back, and
  refused again at each retry until somebody is.
- Triage. The source issue is not locked from the moment the merge looks for its
  events until it deletes it, so an event that was answered 202 in between, also
  while the merge waits for another row, is deleted with it (`late` in
  `LostOnlyByRace`).
- Recovery. A batch that resolves issues announces nothing; a recovery is announced
  although an event has reopened the issue since it was marked; and once a merge or
  a split has lowered a count, the key of a recovery can be one that was used, and
  the recovery is silently dropped.
- The limiter. Two adjoining windows admit nearly twice the limit, and a restart lets
  another limit through (`RestartsFrom` in `LimitKept`); clients that do not send the
  header share one window; keys are never evicted.
- Logs and raw items. They are stored unscrubbed, and an archived project still
  takes those of a request that was authorized before (`NoTraceOfSecrets` and
  `ArchivingStops` are about events).
- Schedules. Deleting a schedule sets the `schedule_id` of its escalation steps to
  NULL, which their `CHECK(target IS NOT NULL OR schedule_id IS NOT NULL)` refuses
  (`0011_escalation_webhooks.sql:19-20`). The purge of a project deletes schedules
  too, and whether their steps are gone by then is left to the order in which
  PostgreSQL runs the cascades. (Read in the migrations; the projects of `Projects`
  have no policies.)

Further, in the other models: a job whose worker was lost stays `processing` until
an upload or an administrator resets it; the completion of an overtaken worker
overwrites the reset, so the file that was uploaded is not looked at
(`ResultsAreFresh` has to except it); a purge that has looked at the deletion
request deletes the project although the request is cancelled or put off before
the `DELETE` (`PurgeIsDue` excepts it); a request that has been authorized stores
its event after its key was revoked, or after its project was archived if it had
read the project by then, while `docs/architecture.md:50` says that a revocation
stops ingestion immediately; a key can be made for an archived project, and cannot
be used (`ArchivedIsRevoked`); two administrators who deactivate each other leave
the organization without one, and a restart does not make one, as the row of the
bootstrap user is still there (`AdminRemains`); a session that a login opens for a
user who was deactivated meanwhile can be used once he is active again
(`SessionsEnd`); an invitation that has expired still occupies the unique index of
pending ones, and nothing deletes it, so that address cannot be invited again
(`Vacant`); a file that is uploaded for a second release stays with the first. The
count that a merge or split writes can be overtaken (`CountsAgreeUnlessRaced` has
to except it); merging an issue into itself deletes it and its events; retention
leaves counts as they were, until the next merge counts what is left.

## Not modelled

Cryptography and encodings (password hashes, session tokens, signatures, gzip,
multipart), HTTP routing, listings and searches, the wording of notifications,
metrics (independent atomic counters), the configuration, the web console, the
deployment and the command-line tools. The modules other than `Projects` and
`Accounts` begin when a request is authorized.

The handlers of escalation policies, schedules, webhooks and releases: each is a
statement, or a transaction that nobody else's statement meets; what ingestion and
the outbox read of their rows is in `Ingest` and `Outbox`. `audit`: an `INSERT` after
the effect of a handler, whose rows only a listing reads. Of retention, the deletion
of logs, raw items and sessions: nothing counts them again, and `log_count` is a
total. How long a channel may take to answer is outside the repository, so the
worker that waits for one forever has a hazard and no property.

## Order of the modules, and what is left

The modules were written in the order of their importance: the outbox, ingestion,
triage, symbolication, projects, accounts, recovery, envelopes. What could be added:

1. `Projects` composed with `EventStore`, so that what a purge deletes is what
   ingestion promised to keep.
2. Policies and schedules that change while an alert escalates; `Outbox` has a fixed
   chain per rule.
3. Several issues in `Recovery`, which share nothing but the edits of rules.
