------------------------------- MODULE Outbox -------------------------------
(***************************************************************************)
(* The notification outbox of open-sentry (src/notification.rs, with its   *)
(* producers in alert.rs and api.rs).                                      *)
(*                                                                         *)
(* Every alert is a row of notification_outbox.  Each server process runs  *)
(* one worker, which claims up to twenty due rows in one transaction,      *)
(* sends them one after the other and settles each row with an UPDATE that *)
(* names only its id.  A claim is a lease: a row that stays 'processing'   *)
(* for more than five minutes may be claimed again, by any worker.  A row  *)
(* that failed GiveUpAt + 1 times is 'failed', and the next step of its    *)
(* escalation policy is inserted as a new row.                             *)
(*                                                                         *)
(* Time is kept relative to now(): wait[n] is available_at - now() (not    *)
(* below 0) and age[n] is now() - claimed_at (not above Lease + 1), so     *)
(* that no clock has to be bounded.                                        *)
(***************************************************************************)
EXTENDS Integers, FiniteSets

CONSTANTS
    Notifications,  \* ids a row of notification_outbox can have
    Rules,          \* alert rules
    None,           \* "no row"
    RuleOf,         \* the rule_id of each row
    Successor,      \* the row of the next escalation step, or None
    Workers,        \* server processes, each with one notification worker
    GiveUpAt,       \* attempts >= 7 in the code
    Lease,          \* '5 minutes', in ticks
    StepDelay,      \* delay_seconds of an escalation step, in ticks
    BatchLimit,     \* LIMIT 20
    MaxFaults,      \* bound: how often a batch is aborted
    MaxReplays      \* bound: how often an administrator retries a row

ASSUME OutboxAssumption ==
    /\ RuleOf \in [Notifications -> Rules]
    /\ Successor \in [Notifications -> Notifications \cup {None}]
    /\ None \notin Notifications
    /\ \A m, n \in Notifications :
          Successor[m] = Successor[n] /\ Successor[m] # None => m = n
    /\ \A n \in Notifications :
          Successor[n] # None => RuleOf[Successor[n]] = RuleOf[n]
    /\ IsFiniteSet(Workers)
    /\ GiveUpAt \in Nat
    /\ Lease \in Nat
    /\ StepDelay \in Nat
    /\ BatchLimit \in Nat \ {0}
    /\ MaxFaults \in Nat
    /\ MaxReplays \in Nat

VARIABLES
    \* the table notification_outbox; "none" is a row that does not exist
    status, attempts, wait, age, born,
    nextBorn,       \* the next created_at
    live,           \* the rows of alert_rules
    \* the workers: program counter, claimed and unsettled jobs, the job in
    \* hand, and the attempts column as the claim returned it
    pc, held, cur, snap,
    \* history: deliveries the receiver saw (2 stands for more), what has
    \* happened to a row that weakens its guarantees, and the two budgets
    delivered, blame, faults, replays

rowVars    == <<status, attempts, wait, age, born, nextBorn, live>>
workerVars == <<pc, held, cur, snap>>
historyVars == <<delivered, blame, faults, replays>>
vars == <<rowVars, workerVars, historyVars>>

-----------------------------------------------------------------------------
Status == {"none", "pending", "processing", "sent", "failed"}
Roots == {n \in Notifications : \A m \in Notifications : Successor[m] # n}
Holders(n) == {w \in Workers : n \in held[w]}

\* What can weaken the guarantees of a row: a worker kept it longer than its
\* lease, an administrator retried it, the batch was aborted between its
\* delivery (or its failure) and the statement that was to follow, or the
\* receiver got it although the send returned an error.
Blames == {"overrun", "replay", "abort", "lost"}

TypeOK ==
    /\ status \in [Notifications -> Status]
    /\ attempts \in [Notifications -> Nat]
    /\ wait \in [Notifications -> Nat]
    /\ age \in [Notifications -> Nat]
    /\ born \in [Notifications -> Nat]
    /\ nextBorn \in Nat \ {0}
    /\ live \in SUBSET Rules
    /\ pc \in [Workers -> {"poll", "send", "ok", "err", "escalate"}]
    /\ held \in [Workers -> SUBSET Notifications]
    /\ cur \in [Workers -> Notifications \cup {None}]
    /\ snap \in [Workers -> [Notifications -> Nat]]
    /\ delivered \in [Notifications -> 0..2]
    /\ blame \in [Notifications -> SUBSET Blames]
    /\ faults \in Nat
    /\ replays \in Nat

Init ==
    /\ status = [n \in Notifications |-> "none"]
    /\ attempts = [n \in Notifications |-> 0]
    /\ wait = [n \in Notifications |-> 0]
    /\ age = [n \in Notifications |-> 0]
    /\ born = [n \in Notifications |-> 0]
    /\ nextBorn = 1
    /\ live = Rules
    /\ pc = [w \in Workers |-> "poll"]
    /\ held = [w \in Workers |-> {}]
    /\ cur = [w \in Workers |-> None]
    /\ snap = [w \in Workers |-> [n \in Notifications |-> 0]]
    /\ delivered = [n \in Notifications |-> 0]
    /\ blame = [n \in Notifications |-> {}]
    /\ faults = 0
    /\ replays = 0

-----------------------------------------------------------------------------
\* INSERT INTO notification_outbox: attempts and status take their defaults.
Insert(n, delay) ==
    /\ status' = [status EXCEPT ![n] = "pending"]
    /\ wait' = [wait EXCEPT ![n] = delay]
    /\ born' = [born EXCEPT ![n] = nextBorn]
    /\ nextBorn' = nextBorn + 1
    /\ UNCHANGED <<attempts, age, live>>

\* A matching event, a recovery, a rule test or a webhook test commits an
\* alert.  Only an alert that starts at step 0 of a policy is delayed.
Enqueue(n) ==
    /\ n \in Roots
    /\ born[n] = 0
    /\ RuleOf[n] \in live
    /\ \E delay \in {0, StepDelay} : Insert(n, delay)
    /\ UNCHANGED <<workerVars, historyVars>>

\* DELETE FROM alert_rules: the rows of the rule go with it (ON DELETE
\* CASCADE).  A worker that holds one of them still has its copy of the job.
DeleteRule(r) ==
    /\ r \in live
    /\ live' = live \ {r}
    /\ status' = [n \in Notifications |->
                    IF RuleOf[n] = r THEN "none" ELSE status[n]]
    /\ age' = [n \in Notifications |-> IF RuleOf[n] = r THEN 0 ELSE age[n]]
    /\ wait' = [n \in Notifications |-> IF RuleOf[n] = r THEN 0 ELSE wait[n]]
    /\ UNCHANGED <<attempts, born, nextBorn, workerVars, historyVars>>

\* POST /notifications/{id}/retry resets a row in whatever state it is.
Replay(n) ==
    /\ replays < MaxReplays
    /\ replays' = replays + 1
    /\ status[n] # "none"
    /\ status' = [status EXCEPT ![n] = "pending"]
    /\ attempts' = [attempts EXCEPT ![n] = 0]
    /\ wait' = [wait EXCEPT ![n] = 0]
    /\ age' = [age EXCEPT ![n] = 0]
    /\ blame' = [blame EXCEPT ![n] = @ \cup {"replay"}]
    /\ UNCHANGED <<born, nextBorn, live, workerVars, delivered, faults>>

-----------------------------------------------------------------------------
ExpiredAtOnce(n) == status[n] = "processing"
ExpiredEarly(n) == status[n] = "processing" /\ age[n] >= Lease
ExpiredNever(n) == FALSE

\* status = 'processing' AND claimed_at < now() - interval '5 minutes'
Expired(n) == status[n] = "processing" /\ age[n] > Lease

Eligible ==
    {n \in Notifications : (status[n] = "pending" /\ wait[n] = 0) \/ Expired(n)}

\* ORDER BY created_at ... LIMIT 20
Oldest(batch) ==
    /\ batch \subseteq Eligible
    /\ Cardinality(batch) <= BatchLimit
    /\ \A m \in Eligible \ batch :
          /\ Cardinality(batch) = BatchLimit
          /\ \A n \in batch : born[n] < born[m]

\* The claiming transaction.  SKIP LOCKED makes concurrent claims disjoint,
\* as if one came after the other.
Claim(w) ==
    /\ pc[w] = "poll"
    /\ \E batch \in SUBSET Eligible :
          /\ batch # {}
          /\ Oldest(batch)
          /\ status' = [n \in Notifications |->
                          IF n \in batch THEN "processing" ELSE status[n]]
          /\ age' = [n \in Notifications |-> IF n \in batch THEN 0 ELSE age[n]]
          /\ held' = [held EXCEPT ![w] = batch]
          /\ snap' = [snap EXCEPT ![w] = [n \in Notifications |->
                          IF n \in batch THEN attempts[n] ELSE 0]]
    /\ pc' = [pc EXCEPT ![w] = "send"]
    /\ UNCHANGED <<attempts, wait, born, nextBorn, live, cur, historyVars>>

\* One call of the transport.  The receiver may get the message although the
\* call returns an error: the answer was lost, it was a 5xx, or the INSERT
\* into webhook_deliveries that follows the POST failed.
Send(w, n) ==
    /\ pc[w] = "send"
    /\ n \in held[w]
    /\ cur' = [cur EXCEPT ![w] = n]
    /\ \E outcome \in {"ok", "err", "lost"} :
          /\ pc' = [pc EXCEPT ![w] = IF outcome = "ok" THEN "ok" ELSE "err"]
          /\ delivered' = IF outcome # "err" /\ delivered[n] < 2
                          THEN [delivered EXCEPT ![n] = @ + 1]
                          ELSE delivered
          /\ blame' = IF outcome = "lost"
                      THEN [blame EXCEPT ![n] = @ \cup {"lost"}]
                      ELSE blame
    /\ UNCHANGED <<rowVars, held, snap, faults, replays>>

-----------------------------------------------------------------------------
\* The loop goes on with the next job of the batch, or ends.
Advance(w) ==
    /\ held' = [held EXCEPT ![w] = @ \ {cur[w]}]
    /\ snap' = [snap EXCEPT ![w][cur[w]] = 0]

AfterJob(w) == IF held[w] \ {cur[w]} = {} THEN "poll" ELSE "send"

\* UPDATE ... SET status='sent' WHERE id=$1: whatever the row holds now.
SettleOk(w) ==
    /\ pc[w] = "ok"
    /\ LET n == cur[w] IN
          /\ status' = IF status[n] = "none" THEN status
                       ELSE [status EXCEPT ![n] = "sent"]
          /\ age' = [age EXCEPT ![n] = 0]
          /\ wait' = [wait EXCEPT ![n] = 0]
    /\ Advance(w)
    /\ pc' = [pc EXCEPT ![w] = AfterJob(w)]
    /\ cur' = [cur EXCEPT ![w] = None]
    /\ UNCHANGED <<attempts, born, nextBorn, live, historyVars>>

\* 2_i64.pow(min(attempts, 8)) seconds
Backoff == <<1, 2, 4, 8, 16, 32, 64, 128, 256>>
BackoffOf(k) == Backoff[(IF k < 8 THEN k ELSE 8) + 1]

StatusFromSnapshot(w, n) == IF snap[w][n] >= GiveUpAt THEN "failed" ELSE "pending"
StatusUnknown(w, n) == IF attempts[n] >= GiveUpAt THEN "failed" ELSE "retrying"
StatusTooSoon(w, n) == IF attempts[n] + 1 >= GiveUpAt THEN "failed" ELSE "pending"

\* CASE WHEN attempts >= 7 reads the row, not the claimed copy.
StatusAfterError(w, n) == IF attempts[n] >= GiveUpAt THEN "failed" ELSE "pending"

\* Mutant of Escalates: every failure escalates.
EscalatesAlways(w, n) == TRUE

\* if job.attempts >= 7 reads the claimed copy, not the row.
Escalates(w, n) == snap[w][n] >= GiveUpAt

SettleErr(w) ==
    /\ pc[w] = "err"
    /\ LET n == cur[w] IN
          /\ IF status[n] = "none"
             THEN UNCHANGED <<status, attempts, wait>>
             ELSE /\ status' = [status EXCEPT ![n] = StatusAfterError(w, n)]
                  /\ attempts' = [attempts EXCEPT ![n] = @ + 1]
                  /\ wait' = [wait EXCEPT ![n] = BackoffOf(snap[w][n])]
          /\ age' = [age EXCEPT ![n] = 0]
          /\ IF Escalates(w, n) /\ Successor[n] # None
             THEN /\ pc' = [pc EXCEPT ![w] = "escalate"]
                  /\ UNCHANGED cur
             ELSE /\ pc' = [pc EXCEPT ![w] = AfterJob(w)]
                  /\ cur' = [cur EXCEPT ![w] = None]
    /\ Advance(w)
    /\ UNCHANGED <<born, nextBorn, live, historyVars>>

\* enqueue_next_escalation: ON CONFLICT(dedup_key) DO NOTHING.
Escalate(w) ==
    /\ pc[w] = "escalate"
    /\ RuleOf[cur[w]] \in live
    /\ LET next == Successor[cur[w]] IN
          IF status[next] = "none"
          THEN Insert(next, StepDelay)
          ELSE UNCHANGED rowVars
    /\ pc' = [pc EXCEPT ![w] = IF held[w] = {} THEN "poll" ELSE "send"]
    /\ cur' = [cur EXCEPT ![w] = None]
    /\ UNCHANGED <<held, snap, historyVars>>

\* The rule is gone, the foreign key refuses the row, and the error ends
\* process_batch: the rest of the batch waits for its lease to expire.
EscalateRefused(w) ==
    /\ pc[w] = "escalate"
    /\ RuleOf[cur[w]] \notin live
    /\ pc' = [pc EXCEPT ![w] = "poll"]
    /\ held' = [held EXCEPT ![w] = {}]
    /\ cur' = [cur EXCEPT ![w] = None]
    /\ snap' = [snap EXCEPT ![w] = [n \in Notifications |-> 0]]
    /\ UNCHANGED <<rowVars, historyVars>>

\* The process dies, or a statement of process_batch fails (the database is
\* unreachable, or the escalation step resolves to nobody on call): the
\* worker polls again and knows nothing of its batch.
Abort(w) ==
    /\ pc[w] # "poll"
    /\ faults < MaxFaults
    /\ faults' = faults + 1
    /\ pc' = [pc EXCEPT ![w] = "poll"]
    /\ held' = [held EXCEPT ![w] = {}]
    /\ cur' = [cur EXCEPT ![w] = None]
    /\ snap' = [snap EXCEPT ![w] = [n \in Notifications |-> 0]]
    /\ blame' = IF pc[w] \in {"ok", "escalate"}
                THEN [blame EXCEPT ![cur[w]] = @ \cup {"abort"}]
                ELSE blame
    /\ UNCHANGED <<rowVars, delivered, replays>>

-----------------------------------------------------------------------------
\* now() advances.  A worker that still has a row when its lease expires is
\* overrun: reqwest is built without a timeout and the jobs of a batch are
\* sent one by one, so nothing bounds how long a claimed row waits.
Tick ==
    /\ \E n \in Notifications :
          wait[n] > 0 \/ (status[n] = "processing" /\ age[n] <= Lease)
    /\ wait' = [n \in Notifications |->
                  IF wait[n] > 0 THEN wait[n] - 1 ELSE 0]
    /\ age' = [n \in Notifications |->
                  IF status[n] = "processing" /\ age[n] <= Lease
                  THEN age[n] + 1 ELSE age[n]]
    /\ blame' = [n \in Notifications |->
                  IF status[n] = "processing" /\ age[n] = Lease /\ Holders(n) # {}
                  THEN blame[n] \cup {"overrun"} ELSE blame[n]]
    /\ UNCHANGED <<status, attempts, born, nextBorn, live, workerVars,
                   delivered, faults, replays>>

WorkerStep(w) ==
    \/ Claim(w)
    \/ \E n \in Notifications : Send(w, n)
    \/ SettleOk(w)
    \/ SettleErr(w)
    \/ Escalate(w)
    \/ EscalateRefused(w)

Next ==
    \/ \E n \in Notifications : Enqueue(n) \/ Replay(n)
    \/ \E r \in Rules : DeleteRule(r)
    \/ \E w \in Workers : WorkerStep(w) \/ Abort(w)
    \/ Tick

Spec == Init /\ [][Next]_vars

\* run_worker loops for ever, a send returns, and time passes.
Fairness == WF_vars(Tick) /\ \A w \in Workers : WF_vars(WorkerStep(w))
FairSpec == Spec /\ Fairness

-----------------------------------------------------------------------------
(* Properties. *)

\* A row is tried at most GiveUpAt + 1 times by the worker that gives it up,
\* and every other worker can add one late failure: the UPDATE in the Err
\* branch counts attempts on rows that are already 'failed' or 'sent'.
AttemptsBounded ==
    \A n \in Notifications :
        attempts[n] + Cardinality(Holders(n)) <= GiveUpAt + Cardinality(Workers)

\* The lease works: two workers hold the same job only if one of them was
\* overrun, or an administrator retried the row while it was being sent.
SingleHolder ==
    \A n \in Notifications :
        blame[n] \cap {"overrun", "replay"} = {} =>
            \A v, w \in Workers : n \in held[v] /\ n \in held[w] => v = w

\* Delivery is exactly-once unless one of the named events happened to the
\* row; "at-least-once" is the price of those events and of nothing else.
NoSpuriousDuplicate ==
    \A n \in Notifications : blame[n] = {} => delivered[n] <= 1

\* Nobody further down the escalation policy is contacted about an alert
\* that reached its receiver.
NoNeedlessEscalation ==
    \A n \in Notifications :
        /\ Successor[n] # None
        /\ born[Successor[n]] > 0
        /\ blame[n] = {}
        => delivered[n] = 0

\* A step that failed for good has been followed by the next step, or a
\* worker is about to insert it.
EscalationFollows ==
    \A n \in Notifications :
        /\ status[n] = "failed"
        /\ blame[n] = {}
        /\ Successor[n] # None
        => \/ born[Successor[n]] > 0
           \/ \E w \in Workers : pc[w] = "escalate" /\ cur[w] = n

\* Escalation does what the policy asks for, no more and no less: the attempts
\* that decide it, those of the claimed copy, agree with the attempts of the row
\* unless one of the named events happened to it.
EscalationSound == NoNeedlessEscalation /\ EscalationFollows

\* A sent alert is never sent again: only a worker that outlived its lease or
\* a retry takes a row out of 'sent'.
SentStaysSent ==
    [][\A n \in Notifications :
          status[n] = "sent" /\ status'[n] \notin {"sent", "none"}
          => blame'[n] \cap {"overrun", "replay"} # {}]_vars

\* Every alert that is due is eventually sent, given up, or removed with its
\* rule, although batches are aborted and workers die.
Settles ==
    \A n \in Notifications :
        status[n] \in {"pending", "processing"} ~>
            status[n] \in {"sent", "failed", "none"}

Stage(n) ==
    CASE status[n] = "none" -> "absent"
      [] status[n] \in {"pending", "processing"} -> "open"
      [] status[n] = "sent" -> "done"
      [] status[n] = "failed" -> "dead"

\* The outbox implements the promise of AlertDelivery.
Delivery ==
    INSTANCE AlertDelivery WITH
        stage <- [n \in Notifications |-> Stage(n)],
        tries <- attempts,
        got <- [n \in Notifications |-> delivered[n] > 0],
        retried <- [n \in Notifications |-> "replay" \in blame[n]],
        Limit <- GiveUpAt

ImplementsDelivery == Delivery!Spec

=============================================================================
