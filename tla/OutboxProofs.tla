----------------------------- MODULE OutboxProofs -----------------------------
(***************************************************************************)
(* Proofs about the notification outbox, for every set of notifications,   *)
(* rules and workers and every value of the limits.                        *)
(***************************************************************************)
EXTENDS Outbox, FiniteSetTheorems, WellFoundedInduction, TLAPS

-----------------------------------------------------------------------------
(* Type correctness, with what the program counter of a worker says of the *)
(* jobs in its hands.                                                      *)

WorkerOK ==
    \A w \in Workers :
        /\ pc[w] = "poll" => held[w] = {}
        /\ pc[w] \in {"ok", "err"} => cur[w] \in held[w]
        /\ pc[w] = "escalate" => /\ cur[w] \in Notifications
                                 /\ Successor[cur[w]] # None

\* A worker between a send and its settlement has a job in hand.
LEMMA CurType ==
    ASSUME TypeOK, WorkerOK, NEW w \in Workers, pc[w] \in {"ok", "err", "escalate"}
    PROVE  /\ cur[w] \in Notifications
           /\ pc[w] = "escalate" => Successor[cur[w]] \in Notifications
  BY OutboxAssumption DEF TypeOK, WorkerOK

\* The backoff 2^min(attempts, 8) is a natural number for every attempts.
LEMMA BackoffType == \A k \in Nat : BackoffOf(k) \in Nat
  BY DEF BackoffOf, Backoff

\* An inserted row keeps the columns of the table in their types.
LEMMA InsertType ==
    ASSUME TypeOK, NEW n \in Notifications, NEW delay \in Nat, Insert(n, delay)
    PROVE  /\ status' \in [Notifications -> Status]
           /\ attempts' \in [Notifications -> Nat]
           /\ wait' \in [Notifications -> Nat]
           /\ age' \in [Notifications -> Nat]
           /\ born' \in [Notifications -> Nat]
           /\ nextBorn' \in Nat \ {0}
           /\ live' \in SUBSET Rules
  BY DEF TypeOK, Insert, Status

\* A send keeps the types of what it writes.
LEMMA SendType ==
    ASSUME TypeOK, NEW w \in Workers, NEW n \in Notifications, Send(w, n)
    PROVE  TypeOK'
<1>1. PICK outcome \in {"ok", "err", "lost"} :
          /\ pc' = [pc EXCEPT ![w] = IF outcome = "ok" THEN "ok" ELSE "err"]
          /\ delivered' = IF outcome # "err" /\ delivered[n] < 2
                          THEN [delivered EXCEPT ![n] = @ + 1]
                          ELSE delivered
          /\ blame' = IF outcome = "lost"
                      THEN [blame EXCEPT ![n] = @ \cup {"lost"}]
                      ELSE blame
  BY DEF Send
<1>2. delivered' \in [Notifications -> 0..2]
  BY <1>1 DEF TypeOK
<1>3. blame' \in [Notifications -> SUBSET Blames]
  BY <1>1 DEF TypeOK, Blames
<1>4. QED
  BY <1>1, <1>2, <1>3 DEF TypeOK, Send, rowVars

\* Both settlements of a job keep the types of what they write.
LEMMA SettleType ==
    ASSUME TypeOK, WorkerOK, NEW w \in Workers, SettleOk(w) \/ SettleErr(w)
    PROVE  TypeOK'
<1>0. cur[w] \in Notifications
  BY CurType DEF SettleOk, SettleErr
<1>1. /\ held' \in [Workers -> SUBSET Notifications]
      /\ snap' \in [Workers -> [Notifications -> Nat]]
  <2>1. /\ held' = [held EXCEPT ![w] = @ \ {cur[w]}]
        /\ snap' = [snap EXCEPT ![w] = [@ EXCEPT ![cur[w]] = 0]]
    BY DEF SettleOk, SettleErr, Advance
  <2>2. [snap[w] EXCEPT ![cur[w]] = 0] \in [Notifications -> Nat]
    BY <1>0 DEF TypeOK
  <2>3. QED
    BY <2>1, <2>2 DEF TypeOK
<1>2. AfterJob(w) \in {"poll", "send"}
  BY DEF AfterJob
<1>3. CASE SettleOk(w)
  BY <1>0, <1>1, <1>2, <1>3 DEF TypeOK, SettleOk, Status, historyVars
<1>4. CASE SettleErr(w)
  <2>1. /\ StatusAfterError(w, cur[w]) \in Status
        /\ BackoffOf(snap[w][cur[w]]) \in Nat
    BY <1>0, BackoffType DEF TypeOK, StatusAfterError, Status
  <2>2. status' \in [Notifications -> Status]
    BY <1>0, <1>4, <2>1 DEF TypeOK, SettleErr
  <2>3. attempts' \in [Notifications -> Nat]
    BY <1>0, <1>4 DEF TypeOK, SettleErr
  <2>4. wait' \in [Notifications -> Nat]
    BY <1>0, <1>4, <2>1 DEF TypeOK, SettleErr
  <2>5. /\ pc' \in [Workers -> {"poll", "send", "ok", "err", "escalate"}]
        /\ cur' \in [Workers -> Notifications \cup {None}]
        /\ age' \in [Notifications -> Nat]
    BY <1>0, <1>2, <1>4 DEF TypeOK, SettleErr
  <2>6. QED
    BY <1>1, <1>4, <2>2, <2>3, <2>4, <2>5 DEF TypeOK, SettleErr, historyVars
<1>5. QED
  BY <1>3, <1>4

\* Inserting the next escalation step keeps the types.
LEMMA EscalateType ==
    ASSUME TypeOK, WorkerOK, NEW w \in Workers, Escalate(w)
    PROVE  TypeOK'
<1> DEFINE next == Successor[cur[w]]
<1>0. next \in Notifications
  BY CurType DEF Escalate
<1>1. /\ status' \in [Notifications -> Status]
      /\ attempts' \in [Notifications -> Nat]
      /\ wait' \in [Notifications -> Nat]
      /\ age' \in [Notifications -> Nat]
      /\ born' \in [Notifications -> Nat]
      /\ nextBorn' \in Nat \ {0}
      /\ live' \in SUBSET Rules
  <2>1. CASE Insert(next, StepDelay)
    BY <1>0, <2>1, InsertType, OutboxAssumption
  <2>2. CASE UNCHANGED rowVars
    BY <2>2 DEF TypeOK, rowVars
  <2>3. QED
    BY <2>1, <2>2 DEF Escalate
<1>2. QED
  BY <1>1 DEF TypeOK, Escalate, historyVars

\* The empty outbox and idle workers are well typed.
LEMMA TypeInit == Init => TypeOK /\ WorkerOK
  BY DEF Init, TypeOK, WorkerOK, Status, Blames

\* The job in hand matches the program counter after every step.
LEMMA WorkerStepOK ==
    ASSUME TypeOK, WorkerOK, [Next]_vars
    PROVE  WorkerOK'
<1>1. CASE \E n \in Notifications : Enqueue(n) \/ Replay(n)
  BY <1>1 DEF WorkerOK, Enqueue, Replay, workerVars
<1>2. CASE (\E r \in Rules : DeleteRule(r)) \/ Tick \/ UNCHANGED vars
  BY <1>2 DEF WorkerOK, DeleteRule, Tick, vars, workerVars
<1>3. ASSUME NEW w \in Workers, Claim(w) PROVE WorkerOK'
  <2>1. pc' = [pc EXCEPT ![w] = "send"] /\ cur' = cur
    BY <1>3 DEF Claim
  <2>2. \A v \in Workers \ {w} : held'[v] = held[v]
    BY <1>3 DEF Claim, TypeOK
  <2>3. QED
    BY <2>1, <2>2 DEF WorkerOK, TypeOK
<1>4. ASSUME NEW w \in Workers, NEW n \in Notifications, Send(w, n) PROVE WorkerOK'
  <2>1. /\ pc' = [pc EXCEPT ![w] = pc'[w]] /\ pc'[w] \in {"ok", "err"}
        /\ cur' = [cur EXCEPT ![w] = n] /\ n \in held[w] /\ held' = held
    BY <1>4 DEF Send, TypeOK
  <2>2. QED
    BY <2>1 DEF WorkerOK, TypeOK
<1>5. ASSUME NEW w \in Workers, SettleOk(w) PROVE WorkerOK'
  BY <1>5 DEF WorkerOK, TypeOK, SettleOk, Advance, AfterJob
<1>6. ASSUME NEW w \in Workers, SettleErr(w) PROVE WorkerOK'
  <2>1. cur[w] \in Notifications
    BY <1>6, CurType DEF SettleErr
  <2>2. held' = [held EXCEPT ![w] = @ \ {cur[w]}]
    BY <1>6 DEF SettleErr, Advance
  <2>3. CASE Escalates(w, cur[w]) /\ Successor[cur[w]] # None
    <3>1. pc' = [pc EXCEPT ![w] = "escalate"] /\ cur' = cur
      BY <1>6, <2>3 DEF SettleErr
    <3>2. QED
      BY <2>1, <2>2, <2>3, <3>1 DEF WorkerOK, TypeOK
  <2>4. CASE ~(Escalates(w, cur[w]) /\ Successor[cur[w]] # None)
    <3>1. pc' = [pc EXCEPT ![w] = AfterJob(w)] /\ cur' = [cur EXCEPT ![w] = None]
      BY <1>6, <2>4 DEF SettleErr
    <3>2. QED
      BY <2>2, <3>1 DEF WorkerOK, TypeOK, AfterJob
  <2>5. QED
    BY <2>3, <2>4
<1>7. ASSUME NEW w \in Workers, Escalate(w) PROVE WorkerOK'
  BY <1>7 DEF WorkerOK, TypeOK, Escalate
<1>8. ASSUME NEW w \in Workers, EscalateRefused(w) \/ Abort(w) PROVE WorkerOK'
  BY <1>8 DEF WorkerOK, TypeOK, EscalateRefused, Abort
<1>9. QED
  BY <1>1, <1>2, <1>3, <1>4, <1>5, <1>6, <1>7, <1>8 DEF Next, WorkerStep

\* Every step keeps every type.
LEMMA TypeStep ==
    ASSUME TypeOK, WorkerOK, [Next]_vars
    PROVE  TypeOK'
<1>1. ASSUME NEW n \in Notifications, Enqueue(n) PROVE TypeOK'
  <2>1. PICK delay \in {0, StepDelay} : Insert(n, delay)
    BY <1>1 DEF Enqueue
  <2>2. delay \in Nat
    BY OutboxAssumption
  <2>3. QED
    BY <1>1, <2>1, <2>2, InsertType
       DEF TypeOK, Enqueue, workerVars, historyVars
<1>2. ASSUME NEW n \in Notifications, Replay(n) PROVE TypeOK'
  BY <1>2 DEF TypeOK, Replay, workerVars, Status, Blames
<1>3. ASSUME NEW r \in Rules, DeleteRule(r) PROVE TypeOK'
  BY <1>3 DEF TypeOK, DeleteRule, workerVars, historyVars, Status
<1>4. ASSUME NEW w \in Workers, Claim(w) PROVE TypeOK'
  <2>1. PICK batch \in SUBSET Notifications :
            /\ status' = [n \in Notifications |->
                            IF n \in batch THEN "processing" ELSE status[n]]
            /\ age' = [n \in Notifications |->
                            IF n \in batch THEN 0 ELSE age[n]]
            /\ held' = [held EXCEPT ![w] = batch]
            /\ snap' = [snap EXCEPT ![w] = [n \in Notifications |->
                            IF n \in batch THEN attempts[n] ELSE 0]]
    BY <1>4 DEF Claim, Eligible
  <2>2. /\ status' \in [Notifications -> Status]
        /\ age' \in [Notifications -> Nat]
    BY <2>1 DEF TypeOK, Status
  <2>3. /\ held' \in [Workers -> SUBSET Notifications]
        /\ snap' \in [Workers -> [Notifications -> Nat]]
    BY <2>1 DEF TypeOK
  <2>4. QED
    BY <1>4, <2>2, <2>3 DEF TypeOK, Claim, historyVars
<1>5. ASSUME NEW w \in Workers, EscalateRefused(w) PROVE TypeOK'
  BY <1>5 DEF TypeOK, EscalateRefused, rowVars, historyVars
<1>6. ASSUME NEW w \in Workers, Abort(w) PROVE TypeOK'
  <2>1. blame' \in [Notifications -> SUBSET Blames]
    BY <1>6, CurType DEF TypeOK, Abort, Blames
  <2>2. QED
    BY <1>6, <2>1 DEF TypeOK, Abort, rowVars
<1>7. CASE Tick
  <2>1. /\ wait' \in [Notifications -> Nat]
        /\ age' \in [Notifications -> Nat]
    BY <1>7 DEF TypeOK, Tick
  <2>2. blame' \in [Notifications -> SUBSET Blames]
    BY <1>7 DEF TypeOK, Tick, Blames
  <2>3. QED
    BY <1>7, <2>1, <2>2 DEF TypeOK, Tick, workerVars
<1>8. CASE UNCHANGED vars
  BY <1>8 DEF TypeOK, vars, rowVars, workerVars, historyVars
<1>9. QED
  BY <1>1, <1>2, <1>3, <1>4, <1>5, <1>6, <1>7, <1>8, SendType, SettleType,
     EscalateType DEF Next, WorkerStep

\* Every variable keeps its type, for every instance of the constants, and a
\* worker between a send and its settlement still holds the job it sent.
THEOREM TypeCorrect == Spec => [](TypeOK /\ WorkerOK)
  BY TypeInit, TypeStep, WorkerStepOK, PTL DEF Spec

-----------------------------------------------------------------------------
(* The inductive invariant.  Its parts are about the rows, the leases, the *)
(* attempts, the deliveries and the escalations, in the order in which     *)
(* each part rests on the ones before it.                                  *)

Clean(n) == blame[n] \cap {"overrun", "replay"} = {}

\* A row exists from its insertion until its rule is deleted.
RowInv ==
    \A n \in Notifications :
        /\ RuleOf[n] \notin live => status[n] = "none"
        /\ born[n] > 0 /\ RuleOf[n] \in live => status[n] # "none"
        /\ born[n] = 0 => /\ status[n] = "none"
                          /\ attempts[n] = 0
                          /\ delivered[n] = 0
                          /\ blame[n] = {}
        /\ \A w \in Workers :
              n \in held[w] \/ cur[w] = n => born[n] > 0
        /\ Successor[n] # None /\ born[n] = 0 => born[Successor[n]] = 0

\* A job held cleanly is still leased to its holder, which knows its attempts.
LeaseInv ==
    /\ \A n \in Notifications, w \in Workers :
          n \in held[w] /\ Clean(n) =>
              /\ snap[w][n] = attempts[n]
              /\ RuleOf[n] \in live => status[n] = "processing" /\ age[n] <= Lease
    /\ SingleHolder

\* A row that can still be claimed has attempts left.
CountInv ==
    /\ \A n \in Notifications :
          status[n] \in {"pending", "processing"} => attempts[n] <= GiveUpAt
    /\ AttemptsBounded

\* A clean delivery is settled, or about to be.
DeliveryInv ==
    \A n \in Notifications :
        blame[n] = {} /\ delivered[n] > 0 =>
            /\ delivered[n] = 1
            /\ \A w \in Workers : n \in held[w] => pc[w] = "ok" /\ cur[w] = n
            /\ status[n] \in {"sent", "none"} \/ \E w \in Workers : n \in held[w]

Escalating(n) == \E w \in Workers : pc[w] = "escalate" /\ cur[w] = n

\* A row whose escalation has begun is finished, undelivered and in no hands.
EscalationInv ==
    /\ \A n \in Notifications :
          /\ blame[n] = {}
          /\ Successor[n] # None
          /\ born[Successor[n]] > 0 \/ Escalating(n)
          => /\ status[n] \in {"failed", "none"}
             /\ delivered[n] = 0
             /\ \A w \in Workers : n \notin held[w]
    /\ EscalationFollows

\* What a worker knows of the rows that were not retried.
Informed(w) ==
    /\ \A n \in held[w] : "replay" \notin blame[n] => snap[w][n] <= attempts[n]
    /\ pc[w] = "ok" => delivered[cur[w]] > 0
    /\ pc[w] = "escalate" => \/ attempts[cur[w]] > GiveUpAt
                             \/ "replay" \in blame[cur[w]]
                             \/ RuleOf[cur[w]] \notin live

SnapshotInv == \A w \in Workers : Informed(w)

IInv ==
    /\ TypeOK
    /\ WorkerOK
    /\ RowInv
    /\ LeaseInv
    /\ CountInv
    /\ DeliveryInv
    /\ EscalationInv
    /\ SnapshotInv

\* Every step keeps RowInv: what the columns of a missing row hold.
LEMMA RowStep ==
    ASSUME TypeOK, TypeOK', WorkerOK, RowInv, [Next]_vars
    PROVE  RowInv'
<1>1. ASSUME NEW n \in Notifications, Enqueue(n) PROVE RowInv'
  <2>1. /\ n \in Roots /\ born[n] = 0 /\ RuleOf[n] \in live
        /\ status' = [status EXCEPT ![n] = "pending"]
        /\ born' = [born EXCEPT ![n] = nextBorn] /\ nextBorn > 0
        /\ UNCHANGED <<attempts, live, delivered, blame, held, cur>>
    BY <1>1 DEF Enqueue, Insert, workerVars, historyVars, TypeOK
  <2>2. QED
    BY <2>1 DEF RowInv, TypeOK, Roots
<1>2. ASSUME NEW n \in Notifications, Replay(n) PROVE RowInv'
  BY <1>2 DEF RowInv, TypeOK, Replay, workerVars
<1>3. ASSUME NEW r \in Rules, DeleteRule(r) PROVE RowInv'
  BY <1>3, OutboxAssumption DEF RowInv, TypeOK, DeleteRule, workerVars, historyVars
<1>4. ASSUME NEW w \in Workers, Claim(w) PROVE RowInv'
  <2>1. PICK batch \in SUBSET Eligible :
            /\ status' = [n \in Notifications |->
                            IF n \in batch THEN "processing" ELSE status[n]]
            /\ held' = [held EXCEPT ![w] = batch]
    BY <1>4 DEF Claim
  <2>2. \A n \in batch : n \in Notifications /\ status[n] # "none"
    BY DEF Eligible, Expired
  <2>3. UNCHANGED <<attempts, born, live, cur, delivered, blame>>
    BY <1>4 DEF Claim, historyVars
  <2>4. QED
    BY <2>1, <2>2, <2>3 DEF RowInv, TypeOK
<1>5. ASSUME NEW w \in Workers, NEW n \in Notifications, Send(w, n) PROVE RowInv'
  <2>1. /\ n \in held[w] /\ held' = held
        /\ cur' = [cur EXCEPT ![w] = n]
        /\ \A m \in Notifications \ {n} : delivered'[m] = delivered[m] /\ blame'[m] = blame[m]
        /\ UNCHANGED <<status, born, live, attempts>>
    BY <1>5 DEF Send, rowVars, TypeOK
  <2>2. QED
    BY <2>1 DEF RowInv, TypeOK
<1>6. ASSUME NEW w \in Workers, SettleOk(w) \/ SettleErr(w) PROVE RowInv'
  <2>1. cur[w] \in Notifications
    BY <1>6, CurType DEF SettleOk, SettleErr
  <2>2. /\ status[cur[w]] = "none" => status' = status /\ attempts' = attempts
        /\ status'[cur[w]] = "none" <=> status[cur[w]] = "none"
        /\ \A n \in Notifications \ {cur[w]} :
              status'[n] = status[n] /\ attempts'[n] = attempts[n]
    <3>1. CASE SettleOk(w)
      BY <2>1, <3>1 DEF SettleOk, TypeOK
    <3>2. CASE SettleErr(w)
      BY <2>1, <3>2 DEF SettleErr, StatusAfterError, TypeOK
    <3>3. QED
      BY <1>6, <3>1, <3>2
  <2>3. /\ \A v \in Workers : held'[v] \subseteq held[v]
        /\ \A v \in Workers : cur'[v] \in {cur[v], None}
        /\ UNCHANGED <<born, live, delivered, blame>>
    BY <1>6 DEF SettleOk, SettleErr, Advance, historyVars, TypeOK
  <2>4. QED
    BY <2>1, <2>2, <2>3, OutboxAssumption DEF RowInv, TypeOK
<1>7. ASSUME NEW w \in Workers, Escalate(w) PROVE RowInv'
  <2> DEFINE next == Successor[cur[w]]
  <2>1. cur[w] \in Notifications /\ next \in Notifications /\ RuleOf[next] \in live
    BY <1>7, CurType, OutboxAssumption DEF Escalate
  <2>2. /\ UNCHANGED <<attempts, live, held, delivered, blame>>
        /\ \A v \in Workers : cur'[v] \in {cur[v], None}
    BY <1>7 DEF Escalate, Insert, rowVars, historyVars, TypeOK
  <2>3. CASE status[next] = "none"
    <3>1. /\ status' = [status EXCEPT ![next] = "pending"]
          /\ born' = [born EXCEPT ![next] = nextBorn] /\ nextBorn > 0
      BY <1>7, <2>3 DEF Escalate, Insert, TypeOK
    <3>2. \A m \in Notifications : Successor[m] = next => m = cur[w]
      BY <2>1, OutboxAssumption
    <3>3. QED
      BY <2>1, <2>2, <3>1, <3>2, OutboxAssumption DEF RowInv, TypeOK
  <2>4. CASE status[next] # "none"
    BY <1>7, <2>2, <2>4, OutboxAssumption DEF Escalate, rowVars, RowInv, TypeOK
  <2>5. QED
    BY <2>3, <2>4
<1>8. ASSUME NEW w \in Workers, EscalateRefused(w) \/ Abort(w) PROVE RowInv'
  <2>1. /\ UNCHANGED <<status, attempts, born, live, delivered>>
        /\ \A v \in Workers : held'[v] \subseteq held[v]
        /\ \A v \in Workers : cur'[v] \in {cur[v], None}
    BY <1>8 DEF EscalateRefused, Abort, rowVars, historyVars, TypeOK
  <2>2. \A n \in Notifications : n # cur[w] => blame'[n] = blame[n]
    BY <1>8 DEF EscalateRefused, Abort, historyVars, TypeOK
  <2>3. QED
    BY <2>1, <2>2, OutboxAssumption DEF RowInv, TypeOK
<1>9. CASE Tick
  <2>1. /\ UNCHANGED <<status, attempts, born, live, delivered, held, cur>>
        /\ \A n \in Notifications : status[n] = "none" => blame'[n] = blame[n]
    BY <1>9 DEF Tick, workerVars
  <2>2. QED
    BY <2>1 DEF RowInv, TypeOK
<1>10. CASE UNCHANGED vars
  BY <1>10 DEF RowInv, vars, rowVars, workerVars, historyVars
<1>11. QED
  BY <1>1, <1>2, <1>3, <1>4, <1>5, <1>6, <1>7, <1>8, <1>9, <1>10
     DEF Next, WorkerStep

-----------------------------------------------------------------------------
\* What the steps that touch one row leave alone, row by row.

\* What a claim does to one row, for every worker.
LEMMA ClaimEffect ==
    ASSUME TypeOK, NEW w \in Workers, Claim(w)
    PROVE  \E batch \in SUBSET Eligible :
             /\ \A n \in batch : /\ status'[n] = "processing"
                                 /\ age'[n] = 0
                                 /\ snap'[w][n] = attempts[n]
             /\ \A n \in Notifications \ batch :
                   status'[n] = status[n] /\ age'[n] = age[n]
             /\ held'[w] = batch
             /\ \A v \in Workers \ {w} :
                   /\ held'[v] = held[v]
                   /\ snap'[v] = snap[v]
                   /\ pc'[v] = pc[v]
             /\ pc[w] = "poll"
             /\ pc'[w] = "send"
             /\ UNCHANGED <<attempts, wait, born, nextBorn, live, cur,
                            delivered, blame>>
<1>1. PICK batch \in SUBSET Eligible :
          /\ status' = [n \in Notifications |->
                          IF n \in batch THEN "processing" ELSE status[n]]
          /\ age' = [n \in Notifications |-> IF n \in batch THEN 0 ELSE age[n]]
          /\ held' = [held EXCEPT ![w] = batch]
          /\ snap' = [snap EXCEPT ![w] = [n \in Notifications |->
                          IF n \in batch THEN attempts[n] ELSE 0]]
  BY DEF Claim
<1>2. /\ batch \subseteq Notifications
      /\ pc[w] = "poll" /\ pc' = [pc EXCEPT ![w] = "send"]
      /\ UNCHANGED <<attempts, wait, born, nextBorn, live, cur, delivered, blame>>
  BY DEF Claim, Eligible, historyVars
<1>3. WITNESS batch \in SUBSET Eligible
<1>4. QED
  BY <1>1, <1>2 DEF TypeOK

\* What a settlement does to one row, for every worker.
LEMMA SettleEffect ==
    ASSUME TypeOK, WorkerOK, NEW w \in Workers, SettleOk(w) \/ SettleErr(w)
    PROVE  /\ cur[w] \in Notifications
           /\ cur[w] \in held[w]
           /\ held'[w] = held[w] \ {cur[w]}
           /\ \A n \in held'[w] : snap'[w][n] = snap[w][n]
           /\ \A v \in Workers \ {w} :
                 /\ held'[v] = held[v]
                 /\ snap'[v] = snap[v]
                 /\ pc'[v] = pc[v]
                 /\ cur'[v] = cur[v]
           /\ \A n \in Notifications \ {cur[w]} :
                 /\ status'[n] = status[n]
                 /\ attempts'[n] = attempts[n]
                 /\ age'[n] = age[n]
           /\ UNCHANGED <<born, nextBorn, live, delivered, blame>>
<1>1. cur[w] \in Notifications /\ cur[w] \in held[w]
  BY CurType DEF SettleOk, SettleErr, WorkerOK
<1>2. /\ held' = [held EXCEPT ![w] = @ \ {cur[w]}]
      /\ snap' = [snap EXCEPT ![w] = [@ EXCEPT ![cur[w]] = 0]]
      /\ UNCHANGED <<born, nextBorn, live, delivered, blame>>
  BY DEF SettleOk, SettleErr, Advance, historyVars
<1>3. \A n \in held'[w] : snap'[w][n] = snap[w][n]
  BY <1>1, <1>2 DEF TypeOK
<1>4. \A v \in Workers \ {w} :
         /\ held'[v] = held[v]
         /\ snap'[v] = snap[v]
         /\ pc'[v] = pc[v]
         /\ cur'[v] = cur[v]
  BY <1>2 DEF SettleOk, SettleErr, TypeOK
<1>5. \A n \in Notifications \ {cur[w]} :
         /\ status'[n] = status[n]
         /\ attempts'[n] = attempts[n]
         /\ age'[n] = age[n]
  <2>1. CASE SettleOk(w)
    BY <1>1, <2>1 DEF SettleOk, TypeOK
  <2>2. CASE SettleErr(w)
    BY <1>1, <2>2 DEF SettleErr, TypeOK
  <2>3. QED
    BY <2>1, <2>2
<1>6. QED
  BY <1>1, <1>2, <1>3, <1>4, <1>5 DEF TypeOK

\* What the end of a batch does to one row.
LEMMA DropEffect ==
    ASSUME TypeOK, WorkerOK, NEW w \in Workers, EscalateRefused(w) \/ Abort(w)
    PROVE  /\ pc'[w] = "poll"
           /\ held'[w] = {}
           /\ \A v \in Workers \ {w} :
                 /\ held'[v] = held[v]
                 /\ snap'[v] = snap[v]
                 /\ pc'[v] = pc[v]
                 /\ cur'[v] = cur[v]
           /\ \A n \in Notifications : blame[n] \subseteq blame'[n]
           /\ UNCHANGED <<status, attempts, wait, age, born, nextBorn, live, delivered>>
<1>1. \A n \in Notifications : blame[n] \subseteq blame'[n]
  <2>1. CASE pc[w] \in {"ok", "escalate"}
    <3>1. cur[w] \in Notifications
      BY <2>1, CurType
    <3>2. QED
      <4>1. CASE EscalateRefused(w)
        BY <4>1 DEF EscalateRefused, historyVars
      <4>2. CASE Abort(w)
        BY <2>1, <3>1, <4>2 DEF Abort, TypeOK
      <4>3. QED
        BY <4>1, <4>2
  <2>2. CASE pc[w] \notin {"ok", "escalate"}
    BY <2>2 DEF EscalateRefused, Abort, historyVars
  <2>3. QED
    BY <2>1, <2>2
<1>2. QED
  BY <1>1 DEF EscalateRefused, Abort, rowVars, historyVars, TypeOK

\* A row that is inserted while its rule exists is in nobody's hands.
LEMMA InsertFree ==
    ASSUME TypeOK, RowInv, NEW n \in Notifications,
           status[n] = "none", RuleOf[n] \in live
    PROVE  /\ born[n] = 0
           /\ blame[n] = {}
           /\ attempts[n] = 0
           /\ delivered[n] = 0
           /\ \A w \in Workers : n \notin held[w] /\ cur[w] # n
<1>1. born[n] = 0
  BY DEF RowInv, TypeOK
<1>2. QED
  BY <1>1 DEF RowInv

\* What the insertion of an escalation step does to one row.
LEMMA EscalateEffect ==
    ASSUME TypeOK, WorkerOK, NEW w \in Workers, Escalate(w)
    PROVE  /\ cur[w] \in Notifications
           /\ Successor[cur[w]] \in Notifications
           /\ RuleOf[Successor[cur[w]]] \in live
           /\ \A v \in Workers \ {w} : pc'[v] = pc[v] /\ cur'[v] = cur[v]
           /\ pc[w] = "escalate"
           /\ pc'[w] \in {"poll", "send"}
           /\ \A n \in Notifications \ {Successor[cur[w]]} :
                 status'[n] = status[n] /\ born'[n] = born[n]
           /\ LET next == Successor[cur[w]] IN
                 IF status[next] = "none"
                 THEN status'[next] = "pending" /\ born'[next] > 0
                 ELSE status'[next] = status[next] /\ born'[next] = born[next]
           /\ UNCHANGED <<attempts, age, live, held, snap, delivered, blame>>
<1>1. /\ cur[w] \in Notifications
      /\ Successor[cur[w]] \in Notifications
      /\ RuleOf[Successor[cur[w]]] \in live
  BY CurType, OutboxAssumption DEF Escalate
<1>2. CASE status[Successor[cur[w]]] = "none"
  BY <1>1, <1>2 DEF Escalate, Insert, historyVars, TypeOK
<1>3. CASE status[Successor[cur[w]]] # "none"
  BY <1>1, <1>3 DEF Escalate, rowVars, historyVars, TypeOK
<1>4. QED
  BY <1>2, <1>3

-----------------------------------------------------------------------------
\* Every step keeps LeaseInv, on which the exclusion of two holders rests.
LEMMA LeaseStep ==
    ASSUME TypeOK, TypeOK', WorkerOK, RowInv, LeaseInv, [Next]_vars
    PROVE  LeaseInv'
<1>1. ASSUME NEW n \in Notifications, Enqueue(n) PROVE LeaseInv'
  <2>1. /\ status[n] = "none" /\ RuleOf[n] \in live
        /\ \A m \in Notifications \ {n} : status'[m] = status[m]
        /\ UNCHANGED <<attempts, age, live, held, snap, blame>>
    BY <1>1 DEF Enqueue, Insert, workerVars, historyVars, TypeOK, RowInv
  <2>2. \A w \in Workers : n \notin held[w]
    BY <2>1, InsertFree
  <2>3. QED
    BY <2>1, <2>2 DEF LeaseInv, SingleHolder, Clean
<1>2. ASSUME NEW n \in Notifications, Replay(n) PROVE LeaseInv'
  <2>1. /\ ~Clean(n)'
        /\ \A m \in Notifications \ {n} : /\ blame'[m] = blame[m]
                                          /\ status'[m] = status[m]
                                          /\ attempts'[m] = attempts[m]
                                          /\ age'[m] = age[m]
        /\ UNCHANGED <<live, held, snap>>
    BY <1>2 DEF Replay, workerVars, TypeOK, Clean
  <2>2. QED
    BY <2>1 DEF LeaseInv, SingleHolder, Clean
<1>3. ASSUME NEW r \in Rules, DeleteRule(r) PROVE LeaseInv'
  <2>1. /\ \A m \in Notifications : RuleOf[m] \in live' =>
               /\ RuleOf[m] \in live
               /\ status'[m] = status[m]
               /\ age'[m] = age[m]
        /\ UNCHANGED <<attempts, held, snap, blame>>
    BY <1>3 DEF DeleteRule, workerVars, historyVars, TypeOK
  <2>2. QED
    BY <2>1 DEF LeaseInv, SingleHolder, Clean
<1>4. ASSUME NEW w \in Workers, Claim(w) PROVE LeaseInv'
  <2>1. PICK batch \in SUBSET Eligible :
           /\ \A n \in batch : /\ status'[n] = "processing"
                               /\ age'[n] = 0
                               /\ snap'[w][n] = attempts[n]
           /\ \A n \in Notifications \ batch :
                 status'[n] = status[n] /\ age'[n] = age[n]
           /\ held'[w] = batch
           /\ \A v \in Workers \ {w} :
                 held'[v] = held[v] /\ snap'[v] = snap[v]
           /\ UNCHANGED <<attempts, live, blame>>
    BY <1>4, ClaimEffect
  <2>2. \A n \in batch, v \in Workers : n \in held[v] => ~Clean(n)
    <3>1. ASSUME NEW n \in batch, NEW v \in Workers, n \in held[v], Clean(n)
          PROVE  FALSE
      <4>1. n \in Notifications /\ status[n] # "none" /\ age[n] \in Nat
        BY DEF Eligible, Expired, TypeOK
      <4>2. RuleOf[n] \in live
        BY <4>1 DEF RowInv
      <4>3. status[n] = "processing" /\ age[n] <= Lease
        BY <3>1, <4>1, <4>2 DEF LeaseInv
      <4>4. QED
        BY <4>1, <4>3, OutboxAssumption DEF Eligible, Expired
    <3>2. QED
      BY <3>1
  <2>3. batch \subseteq Notifications
    BY DEF Eligible
  <2>4. \A n \in Notifications, v \in Workers :
           n \in held'[v] /\ Clean(n) =>
              /\ snap'[v][n] = attempts'[n]
              /\ RuleOf[n] \in live => status'[n] = "processing" /\ age'[n] <= Lease
    <3>1. ASSUME NEW n \in Notifications, NEW v \in Workers,
                 n \in held'[v], Clean(n), n \in batch
          PROVE  v = w
      BY <2>1, <2>2, <3>1
    <3>2. QED
      BY <2>1, <3>1, OutboxAssumption DEF LeaseInv
  <2>5. SingleHolder'
    BY <2>1, <2>2 DEF LeaseInv, SingleHolder, Clean
  <2>6. QED
    BY <2>1, <2>4, <2>5 DEF LeaseInv, Clean
<1>5. ASSUME NEW w \in Workers, NEW n \in Notifications, Send(w, n) PROVE LeaseInv'
  <2>1. /\ \A m \in Notifications : blame[m] \subseteq blame'[m]
        /\ UNCHANGED <<status, attempts, age, live, held, snap>>
    BY <1>5 DEF Send, rowVars, TypeOK
  <2>2. QED
    BY <2>1 DEF LeaseInv, SingleHolder, Clean
<1>6. ASSUME NEW w \in Workers, SettleOk(w) \/ SettleErr(w) PROVE LeaseInv'
  <2>1. \A v \in Workers : held'[v] \subseteq held[v]
    BY <1>6, SettleEffect
  <2>2. \A n \in Notifications, v \in Workers :
           n \in held'[v] /\ Clean(n) => n # cur[w]
    BY <1>6, <2>1, SettleEffect DEF LeaseInv, SingleHolder, Clean
  <2>3. \A n \in Notifications, v \in Workers :
           n \in held'[v] /\ Clean(n) =>
              /\ snap'[v][n] = attempts'[n]
              /\ RuleOf[n] \in live => status'[n] = "processing" /\ age'[n] <= Lease
    BY <1>6, <2>1, <2>2, SettleEffect DEF LeaseInv
  <2>4. QED
    BY <1>6, <2>1, <2>3, SettleEffect DEF LeaseInv, SingleHolder, Clean
<1>7. ASSUME NEW w \in Workers, Escalate(w) PROVE LeaseInv'
  <2> DEFINE next == Successor[cur[w]]
  <2>1. status[next] = "none" => \A v \in Workers : next \notin held[v]
    BY <1>7, EscalateEffect, InsertFree
  <2>2. QED
    BY <1>7, <2>1, EscalateEffect DEF LeaseInv, SingleHolder, Clean
<1>8. ASSUME NEW w \in Workers, EscalateRefused(w) \/ Abort(w) PROVE LeaseInv'
  BY <1>8, DropEffect DEF LeaseInv, SingleHolder, Clean
<1>9. CASE Tick
  <2>1. /\ UNCHANGED <<status, attempts, live, held, snap>>
        /\ \A n \in Notifications : blame[n] \subseteq blame'[n]
    BY <1>9 DEF Tick, workerVars
  <2>2. \A n \in Notifications, w \in Workers :
           n \in held[w] /\ Clean(n)' /\ RuleOf[n] \in live => age'[n] <= Lease
    <3>1. ASSUME NEW n \in Notifications, NEW w \in Workers,
                 n \in held[w], Clean(n)', RuleOf[n] \in live
          PROVE  age'[n] <= Lease
      <4>1. status[n] = "processing" /\ age[n] <= Lease /\ age[n] \in Nat
        BY <2>1, <3>1 DEF LeaseInv, Clean, TypeOK
      <4>2. Holders(n) # {}
        BY <3>1 DEF Holders
      <4>3. age[n] # Lease
        BY <1>9, <3>1, <4>1, <4>2 DEF Tick, Clean
      <4>4. age'[n] = age[n] + 1
        BY <1>9, <4>1 DEF Tick
      <4>5. QED
        BY <4>1, <4>3, <4>4, OutboxAssumption
    <3>2. QED
      BY <3>1
  <2>3. QED
    BY <2>1, <2>2 DEF LeaseInv, SingleHolder, Clean
<1>10. CASE UNCHANGED vars
  BY <1>10 DEF LeaseInv, SingleHolder, Clean, vars, rowVars, workerVars, historyVars
<1>11. QED
  BY <1>1, <1>2, <1>3, <1>4, <1>5, <1>6, <1>7, <1>8, <1>9, <1>10
     DEF Next, WorkerStep

-----------------------------------------------------------------------------
\* The holders of a row are a finite set of workers.
LEMMA HoldersCount ==
    ASSUME NEW S \in SUBSET Workers, NEW T \in SUBSET S
    PROVE  /\ IsFiniteSet(S)
           /\ Cardinality(S) \in Nat
           /\ Cardinality(T) \in Nat
           /\ Cardinality(T) <= Cardinality(S)
           /\ Cardinality(S) <= Cardinality(Workers)
           /\ Cardinality(Workers) \in Nat
<1>1. IsFiniteSet(Workers)
  BY OutboxAssumption
<1>2. IsFiniteSet(S) /\ Cardinality(S) <= Cardinality(Workers)
  BY <1>1, FS_Subset
<1>3. IsFiniteSet(T) /\ Cardinality(T) <= Cardinality(S)
  BY <1>2, FS_Subset
<1>4. QED
  BY <1>1, <1>2, <1>3, FS_CardinalityType

\* A step that adds no holder and no attempt to a row keeps the bound.
LEMMA BoundKept ==
    ASSUME TypeOK, TypeOK', AttemptsBounded, NEW n \in Notifications,
           Holders(n)' \subseteq Holders(n), attempts'[n] <= attempts[n]
    PROVE  attempts'[n] + Cardinality(Holders(n)') <= GiveUpAt + Cardinality(Workers)
<1>1. Holders(n) \in SUBSET Workers /\ Holders(n)' \in SUBSET Holders(n)
  BY DEF Holders
<1>2. /\ Cardinality(Holders(n)) \in Nat
      /\ Cardinality(Holders(n)') \in Nat
      /\ Cardinality(Holders(n)') <= Cardinality(Holders(n))
      /\ Cardinality(Workers) \in Nat
  BY <1>1, HoldersCount
<1>3. /\ attempts[n] \in Nat /\ attempts'[n] \in Nat
      /\ attempts[n] + Cardinality(Holders(n)) <= GiveUpAt + Cardinality(Workers)
  BY DEF TypeOK, AttemptsBounded
<1>4. QED
  BY <1>2, <1>3, OutboxAssumption

\* Every step keeps the bound on attempts and holders.
LEMMA CountStep ==
    ASSUME TypeOK, TypeOK', WorkerOK, RowInv, CountInv, [Next]_vars
    PROVE  CountInv'
<1> DEFINE Bound(n) ==
       attempts'[n] + Cardinality(Holders(n)') <= GiveUpAt + Cardinality(Workers)
<1>0. GiveUpAt \in Nat /\ \A n \in Notifications : attempts[n] \in Nat
  BY OutboxAssumption DEF TypeOK
<1>1. ASSUME NEW n \in Notifications, Enqueue(n) PROVE CountInv'
  <2>1. /\ attempts[n] = 0
        /\ \A m \in Notifications \ {n} : status'[m] = status[m]
        /\ UNCHANGED <<attempts, held>>
    BY <1>1 DEF Enqueue, Insert, workerVars, historyVars, TypeOK, RowInv
  <2>2. \A m \in Notifications : Holders(m)' \subseteq Holders(m)
    BY <2>1 DEF Holders
  <2>3. QED
    BY <1>0, <2>1, <2>2, BoundKept DEF CountInv, AttemptsBounded
<1>2. ASSUME NEW n \in Notifications, Replay(n) PROVE CountInv'
  <2>1. /\ attempts'[n] = 0
        /\ \A m \in Notifications \ {n} : /\ status'[m] = status[m]
                                          /\ attempts'[m] = attempts[m]
        /\ UNCHANGED held
    BY <1>2 DEF Replay, workerVars, TypeOK
  <2>2. \A m \in Notifications : Holders(m)' \subseteq Holders(m)
    BY <2>1 DEF Holders
  <2>3. \A m \in Notifications : attempts'[m] <= attempts[m]
    BY <1>0, <2>1
  <2>4. QED
    BY <1>0, <2>1, <2>2, <2>3, BoundKept DEF CountInv, AttemptsBounded
<1>3. ASSUME NEW r \in Rules, DeleteRule(r) PROVE CountInv'
  <2>1. /\ \A m \in Notifications : status'[m] \in {status[m], "none"}
        /\ UNCHANGED <<attempts, held>>
    BY <1>3 DEF DeleteRule, workerVars, TypeOK
  <2>2. \A m \in Notifications : Holders(m)' \subseteq Holders(m)
    BY <2>1 DEF Holders
  <2>3. QED
    BY <1>0, <2>1, <2>2, BoundKept DEF CountInv, AttemptsBounded
<1>4. ASSUME NEW w \in Workers, Claim(w) PROVE CountInv'
  <2>1. PICK batch \in SUBSET Eligible :
           /\ \A n \in Notifications \ batch : status'[n] = status[n]
           /\ held'[w] = batch
           /\ \A v \in Workers \ {w} : held'[v] = held[v]
           /\ UNCHANGED attempts
    BY <1>4, ClaimEffect
  <2>2. \A n \in batch : n \in Notifications /\ attempts[n] <= GiveUpAt
    BY DEF Eligible, Expired, CountInv
  <2>3. ASSUME NEW n \in Notifications PROVE Bound(n)
    <3>1. CASE n \in batch
      <4>1. Cardinality(Holders(n)') \in Nat /\ Cardinality(Workers) \in Nat
            /\ Cardinality(Holders(n)') <= Cardinality(Workers)
        BY HoldersCount DEF Holders
      <4>2. attempts'[n] <= GiveUpAt
        BY <2>1, <2>2, <3>1
      <4>3. QED
        BY <1>0, <2>1, <4>1, <4>2
    <3>2. CASE n \notin batch
      <4>1. Holders(n)' \subseteq Holders(n)
        BY <2>1, <3>2 DEF Holders
      <4>2. QED
        BY <1>0, <2>1, <4>1, BoundKept DEF CountInv
    <3>3. QED
      BY <3>1, <3>2
  <2>4. QED
    BY <2>1, <2>2, <2>3 DEF CountInv, AttemptsBounded
<1>5. ASSUME NEW w \in Workers, NEW n \in Notifications, Send(w, n) PROVE CountInv'
  BY <1>5 DEF Send, rowVars, CountInv, AttemptsBounded, Holders
<1>6. ASSUME NEW w \in Workers, SettleOk(w) PROVE CountInv'
  <2>1. /\ \A m \in Notifications : status'[m] \in {status[m], "sent"}
        /\ UNCHANGED attempts
    <3>1. cur[w] \in Notifications
      BY <1>6, SettleEffect
    <3>2. QED
      BY <1>6, <3>1 DEF SettleOk, TypeOK
  <2>2. \A m \in Notifications : Holders(m)' \subseteq Holders(m)
    BY <1>6, SettleEffect DEF Holders
  <2>3. ASSUME NEW m \in Notifications PROVE Bound(m)
    BY <1>0, <2>1, <2>2, BoundKept DEF CountInv
  <2>4. ASSUME NEW m \in Notifications, status'[m] \in {"pending", "processing"}
        PROVE  attempts'[m] <= GiveUpAt
    BY <2>1, <2>4 DEF CountInv
  <2>5. QED
    BY <2>3, <2>4 DEF CountInv, AttemptsBounded
<1>7. ASSUME NEW w \in Workers, SettleErr(w) PROVE CountInv'
  <2>0. PICK n \in Notifications : n = cur[w]
    BY <1>7, SettleEffect
  <2>1. /\ n \in Notifications /\ n \in held[w]
        /\ held'[w] = held[w] \ {n}
        /\ \A v \in Workers \ {w} : held'[v] = held[v]
        /\ \A m \in Notifications \ {n} : /\ status'[m] = status[m]
                                          /\ attempts'[m] = attempts[m]
    BY <1>7, <2>0, SettleEffect
  <2>2. Holders(n)' = Holders(n) \ {w} /\ w \in Holders(n)
    BY <2>1 DEF Holders
  <2>3. \/ /\ status[n] = "none" /\ status'[n] = "none"
           /\ attempts'[n] = attempts[n]
        \/ /\ status'[n] = StatusAfterError(w, n)
           /\ attempts'[n] = attempts[n] + 1
    BY <1>7, <2>0 DEF SettleErr, TypeOK
  <2>4. status'[n] \in {"pending", "processing"} => attempts'[n] <= GiveUpAt
    <3>1. attempts[n] \in Nat
      BY <1>0, <2>1
    <3>2. QED
      BY <1>0, <2>3, <3>1 DEF StatusAfterError
  <2>5. Bound(n)
    <3>1. /\ IsFiniteSet(Holders(n))
          /\ Cardinality(Holders(n)) \in Nat
          /\ Cardinality(Workers) \in Nat
      BY HoldersCount DEF Holders
    <3>2. Cardinality(Holders(n)') = Cardinality(Holders(n)) - 1
      BY <2>2, <3>1, FS_RemoveElement
    <3>3. attempts[n] + Cardinality(Holders(n)) <= GiveUpAt + Cardinality(Workers)
      BY <2>1 DEF CountInv, AttemptsBounded
    <3>4. attempts'[n] <= attempts[n] + 1 /\ attempts'[n] \in Nat
      BY <1>0, <2>1, <2>3
    <3>5. QED
      BY <1>0, <2>1, <3>1, <3>2, <3>3, <3>4
  <2>6. ASSUME NEW m \in Notifications, m # n PROVE Bound(m)
    <3>1. Holders(m)' \subseteq Holders(m) /\ attempts'[m] <= attempts[m]
      BY <1>0, <2>1, <2>6 DEF Holders
    <3>2. QED
      BY <3>1, BoundKept DEF CountInv
  <2>7. ASSUME NEW m \in Notifications, status'[m] \in {"pending", "processing"}
        PROVE  attempts'[m] <= GiveUpAt
    BY <2>1, <2>4, <2>7 DEF CountInv
  <2>8. \A m \in Notifications : Bound(m)
    BY <2>5, <2>6
  <2>9. QED
    BY <2>7, <2>8 DEF CountInv, AttemptsBounded
<1>8. ASSUME NEW w \in Workers, Escalate(w) PROVE CountInv'
  <2> DEFINE next == Successor[cur[w]]
  <2>1. status[next] = "none" => attempts[next] = 0
    BY <1>8, EscalateEffect, InsertFree
  <2>2. /\ \A m \in Notifications \ {next} : status'[m] = status[m]
        /\ status[next] # "none" => status'[next] = status[next]
        /\ UNCHANGED <<attempts, held>>
    BY <1>8, EscalateEffect
  <2>3. \A m \in Notifications : Holders(m)' \subseteq Holders(m)
    BY <2>2 DEF Holders
  <2>4. QED
    BY <1>0, <2>1, <2>2, <2>3, BoundKept DEF CountInv, AttemptsBounded
<1>9. ASSUME NEW w \in Workers, EscalateRefused(w) \/ Abort(w) PROVE CountInv'
  <2>1. UNCHANGED <<status, attempts>>
    BY <1>9, DropEffect
  <2>2. \A m \in Notifications : Holders(m)' \subseteq Holders(m)
    BY <1>9, DropEffect DEF Holders
  <2>3. QED
    BY <1>0, <2>1, <2>2, BoundKept DEF CountInv, AttemptsBounded
<1>10. CASE Tick \/ UNCHANGED vars
  BY <1>10 DEF CountInv, AttemptsBounded, Holders, Tick, vars, rowVars, workerVars
<1>11. QED
  BY <1>1, <1>2, <1>3, <1>4, <1>5, <1>6, <1>7, <1>8, <1>9, <1>10
     DEF Next, WorkerStep

-----------------------------------------------------------------------------
\* What a send does to one row.
LEMMA SendEffect ==
    ASSUME TypeOK, NEW w \in Workers, NEW n \in Notifications, Send(w, n)
    PROVE  /\ pc[w] = "send"
           /\ n \in held[w]
           /\ cur'[w] = n
           /\ pc'[w] \in {"ok", "err"}
           /\ \A v \in Workers \ {w} : pc'[v] = pc[v] /\ cur'[v] = cur[v]
           /\ \A m \in Notifications \ {n} :
                 delivered'[m] = delivered[m] /\ blame'[m] = blame[m]
           /\ \/ /\ pc'[w] = "ok"
                 /\ delivered'[n] > 0
                 /\ delivered[n] = 0 => delivered'[n] = 1
                 /\ blame'[n] = blame[n]
              \/ /\ pc'[w] = "err"
                 /\ delivered'[n] = delivered[n]
                 /\ blame'[n] = blame[n]
              \/ /\ pc'[w] = "err"
                 /\ "lost" \in blame'[n]
                 /\ blame[n] \subseteq blame'[n]
                 /\ "replay" \in blame'[n] => "replay" \in blame[n]
                 /\ delivered'[n] > 0
           /\ UNCHANGED <<status, attempts, age, born, live, held, snap>>
<1>1. PICK outcome \in {"ok", "err", "lost"} :
          /\ pc' = [pc EXCEPT ![w] = IF outcome = "ok" THEN "ok" ELSE "err"]
          /\ delivered' = IF outcome # "err" /\ delivered[n] < 2
                          THEN [delivered EXCEPT ![n] = @ + 1]
                          ELSE delivered
          /\ blame' = IF outcome = "lost"
                      THEN [blame EXCEPT ![n] = @ \cup {"lost"}]
                      ELSE blame
  BY DEF Send
<1>2. /\ pc[w] = "send" /\ n \in held[w]
      /\ cur' = [cur EXCEPT ![w] = n]
      /\ UNCHANGED <<status, attempts, age, born, live, held, snap>>
  BY DEF Send, rowVars
<1>3. delivered[n] \in 0..2
  BY DEF TypeOK
<1>4. CASE outcome = "ok"
  BY <1>1, <1>2, <1>3, <1>4 DEF TypeOK
<1>5. CASE outcome = "err"
  BY <1>1, <1>2, <1>3, <1>5 DEF TypeOK
<1>6. CASE outcome = "lost"
  <2>1. blame' = [blame EXCEPT ![n] = @ \cup {"lost"}]
    BY <1>1, <1>6
  <2>2. /\ "lost" \in blame'[n] /\ blame[n] \subseteq blame'[n]
        /\ "replay" \in blame'[n] => "replay" \in blame[n]
        /\ \A m \in Notifications \ {n} : blame'[m] = blame[m]
    BY <2>1 DEF TypeOK
  <2>3. QED
    BY <1>1, <1>2, <1>3, <1>6, <2>2 DEF TypeOK
<1>7. QED
  BY <1>4, <1>5, <1>6

\* A row without blame that was delivered cannot be claimed.
LEMMA DeliveredNotEligible ==
    ASSUME TypeOK, RowInv, LeaseInv, DeliveryInv, NEW n \in Eligible,
           blame[n] = {}
    PROVE  delivered[n] = 0
<1>1. /\ n \in Notifications /\ status[n] \in {"pending", "processing"}
      /\ age[n] \in Nat /\ Clean(n) /\ delivered[n] \in 0..2
  BY DEF Eligible, Expired, TypeOK, Clean
<1>2. RuleOf[n] \in live
  BY <1>1 DEF RowInv
<1>3. SUFFICES ASSUME delivered[n] > 0 PROVE FALSE
  BY <1>1
<1>4. PICK w \in Workers : n \in held[w]
  BY <1>1, <1>3 DEF DeliveryInv
<1>5. status[n] = "processing" /\ age[n] <= Lease
  BY <1>1, <1>2, <1>4 DEF LeaseInv
<1>6. QED
  BY <1>1, <1>5, OutboxAssumption DEF Eligible, Expired

\* A held job without blame is undelivered, unless its settlement is next.
LEMMA HeldUndelivered ==
    ASSUME TypeOK, DeliveryInv, NEW w \in Workers, NEW n \in held[w],
           blame[n] = {}, pc[w] # "ok" \/ cur[w] # n
    PROVE  n \in Notifications /\ delivered[n] = 0
<1>1. held[w] \in SUBSET Notifications
  BY DEF TypeOK
<1>2. n \in Notifications
  BY <1>1
<1>3. delivered[n] \in 0..2
  BY <1>2 DEF TypeOK
<1>4. ~(delivered[n] > 0)
  BY <1>2 DEF DeliveryInv
<1>5. QED
  BY <1>2, <1>3, <1>4

\* A held job is a row.
LEMMA HeldType ==
    ASSUME TypeOK, NEW w \in Workers, NEW n \in held[w]
    PROVE  n \in Notifications
<1>1. held[w] \in SUBSET Notifications
  BY DEF TypeOK
<1>2. QED
  BY <1>1

\* Every step keeps DeliveryInv: an unblamed row is delivered once.
LEMMA DeliveryStep ==
    ASSUME TypeOK, TypeOK', WorkerOK, RowInv, LeaseInv, DeliveryInv, [Next]_vars
    PROVE  DeliveryInv'
<1>0. \A n \in Notifications : delivered[n] \in 0..2
  BY DEF TypeOK
<1>1. ASSUME NEW n \in Notifications, Enqueue(n) PROVE DeliveryInv'
  <2>1. /\ delivered[n] = 0
        /\ \A m \in Notifications \ {n} : status'[m] = status[m]
        /\ UNCHANGED <<held, pc, cur, delivered, blame>>
    BY <1>1 DEF Enqueue, Insert, workerVars, historyVars, TypeOK, RowInv
  <2>2. QED
    BY <2>1 DEF DeliveryInv
<1>2. ASSUME NEW n \in Notifications, Replay(n) PROVE DeliveryInv'
  <2>1. /\ blame'[n] # {}
        /\ \A m \in Notifications \ {n} : status'[m] = status[m] /\ blame'[m] = blame[m]
        /\ UNCHANGED <<held, pc, cur, delivered>>
    BY <1>2 DEF Replay, workerVars, TypeOK
  <2>2. QED
    BY <2>1 DEF DeliveryInv
<1>3. ASSUME NEW r \in Rules, DeleteRule(r) PROVE DeliveryInv'
  <2>1. /\ \A m \in Notifications : status'[m] \in {status[m], "none"}
        /\ UNCHANGED <<held, pc, cur, delivered, blame>>
    BY <1>3 DEF DeleteRule, workerVars, historyVars, TypeOK
  <2>2. QED
    BY <2>1 DEF DeliveryInv
<1>4. ASSUME NEW w \in Workers, Claim(w) PROVE DeliveryInv'
  <2>1. PICK batch \in SUBSET Eligible :
           /\ \A n \in Notifications \ batch : status'[n] = status[n]
           /\ held'[w] = batch
           /\ \A v \in Workers \ {w} : held'[v] = held[v] /\ pc'[v] = pc[v]
           /\ pc[w] = "poll"
           /\ UNCHANGED <<cur, delivered, blame>>
    BY <1>4, ClaimEffect
  <2>2. \A n \in batch : blame[n] = {} => delivered[n] = 0
    BY DeliveredNotEligible
  <2>3. held[w] = {}
    BY <2>1 DEF WorkerOK
  <2>4. QED
    BY <1>0, <2>1, <2>2, <2>3 DEF DeliveryInv
<1>5. ASSUME NEW w \in Workers, NEW n \in Notifications, Send(w, n) PROVE DeliveryInv'
  <2>1. \A m \in held[w] : m \in Notifications /\ (blame[m] = {} => delivered[m] = 0)
    BY <1>5, SendEffect, HeldUndelivered, HeldType
  <2>2. ASSUME NEW m \in Notifications, m # n, blame'[m] = {}, delivered'[m] > 0
        PROVE  /\ delivered'[m] = 1
               /\ \A v \in Workers : m \in held'[v] => pc'[v] = "ok" /\ cur'[v] = m
               /\ status'[m] \in {"sent", "none"} \/ \E v \in Workers : m \in held'[v]
    <3>1. blame[m] = {} /\ delivered[m] = delivered'[m] /\ m \notin held[w]
      BY <1>5, <2>1, <2>2, SendEffect
    <3>2. QED
      BY <1>5, <2>2, <3>1, SendEffect DEF DeliveryInv
  <2>3. ASSUME blame'[n] = {}, delivered'[n] > 0
        PROVE  /\ delivered'[n] = 1
               /\ \A v \in Workers : n \in held'[v] => pc'[v] = "ok" /\ cur'[v] = n
               /\ status'[n] \in {"sent", "none"} \/ \E v \in Workers : n \in held'[v]
    <3>1. blame[n] = {} /\ delivered[n] = 0 /\ pc'[w] = "ok" /\ delivered'[n] = 1
      BY <1>0, <1>5, <2>1, <2>3, SendEffect
    <3>2. \A v \in Workers : n \in held[v] => v = w
      BY <1>5, <3>1, SendEffect DEF LeaseInv, SingleHolder
    <3>3. QED
      BY <1>5, <3>1, <3>2, SendEffect
  <2>4. QED
    BY <2>2, <2>3 DEF DeliveryInv
<1>6. ASSUME NEW w \in Workers, SettleOk(w) \/ SettleErr(w) PROVE DeliveryInv'
  <2>0. PICK n \in Notifications : n = cur[w]
    BY <1>6, SettleEffect
  <2>1. \A m \in held[w] \ {n} :
           m \in Notifications /\ (blame[m] = {} => delivered[m] = 0)
    BY <2>0, HeldUndelivered, HeldType
  <2>2. ASSUME NEW m \in Notifications, m # n, blame'[m] = {}, delivered'[m] > 0
        PROVE  /\ delivered'[m] = 1
               /\ \A v \in Workers : m \in held'[v] => pc'[v] = "ok" /\ cur'[v] = m
               /\ status'[m] \in {"sent", "none"} \/ \E v \in Workers : m \in held'[v]
    <3>1. blame[m] = {} /\ delivered[m] = delivered'[m] /\ m \notin held[w]
      BY <1>0, <1>6, <2>1, <2>2, SettleEffect
    <3>2. QED
      BY <1>6, <2>0, <2>2, <3>1, SettleEffect DEF DeliveryInv
  <2>3. ASSUME blame'[n] = {}, delivered'[n] > 0
        PROVE  /\ delivered'[n] = 1
               /\ \A v \in Workers : n \notin held'[v]
               /\ status'[n] \in {"sent", "none"}
    <3>1. blame[n] = {} /\ delivered[n] = delivered'[n] /\ n \in held[w]
      BY <1>6, <2>0, <2>3, SettleEffect
    <3>2. \A v \in Workers : n \in held[v] => v = w
      BY <3>1 DEF LeaseInv, SingleHolder
    <3>3. delivered[n] = 1 /\ pc[w] = "ok"
      BY <2>3, <3>1 DEF DeliveryInv
    <3>4. status'[n] \in {"sent", "none"}
      BY <1>6, <2>0, <3>3 DEF SettleOk, SettleErr, TypeOK
    <3>5. QED
      BY <1>6, <2>0, <3>1, <3>2, <3>3, <3>4, SettleEffect
  <2>4. QED
    BY <2>2, <2>3 DEF DeliveryInv
<1>7. ASSUME NEW w \in Workers, Escalate(w) PROVE DeliveryInv'
  <2>0. PICK next \in Notifications : next = Successor[cur[w]]
    BY <1>7, EscalateEffect
  <2>1. status[next] = "none" => delivered[next] = 0
    BY <1>7, <2>0, EscalateEffect, InsertFree
  <2>2. \A m \in held[w] : blame[m] = {} => delivered[m] = 0
    BY <1>7, EscalateEffect, HeldUndelivered
  <2>3. /\ \A m \in Notifications \ {next} : status'[m] = status[m]
        /\ status[next] # "none" => status'[next] = status[next]
        /\ \A v \in Workers \ {w} : pc'[v] = pc[v] /\ cur'[v] = cur[v]
        /\ UNCHANGED <<held, delivered, blame>>
    BY <1>7, <2>0, EscalateEffect
  <2>4. QED
    BY <1>0, <2>1, <2>2, <2>3 DEF DeliveryInv
<1>8. ASSUME NEW w \in Workers, EscalateRefused(w) \/ Abort(w) PROVE DeliveryInv'
  <2>1. \A m \in held[w] : blame'[m] = {} => delivered[m] = 0
    <3>1. ASSUME NEW m \in held[w], blame'[m] = {}, delivered[m] # 0 PROVE FALSE
      <4>1. m \in Notifications /\ blame[m] = {} /\ delivered[m] > 0
        <5>1. m \in Notifications
          BY <3>1, HeldType
        <5>2. delivered[m] \in 0..2 /\ blame[m] \subseteq blame'[m]
          BY <1>0, <1>8, <5>1, DropEffect
        <5>3. QED
          BY <3>1, <5>1, <5>2
      <4>2. pc[w] = "ok" /\ cur[w] = m
        BY <4>1 DEF DeliveryInv
      <4>3. "abort" \in blame'[m]
        BY <1>8, <4>1, <4>2 DEF EscalateRefused, Abort, TypeOK
      <4>4. QED
        BY <3>1, <4>3
    <3>2. QED
      BY <3>1
  <2>2. QED
    BY <1>0, <1>8, <2>1, DropEffect DEF DeliveryInv
<1>9. CASE Tick
  <2>1. /\ UNCHANGED <<status, held, pc, cur, delivered>>
        /\ \A n \in Notifications : blame[n] \subseteq blame'[n]
    BY <1>9 DEF Tick, workerVars
  <2>2. QED
    BY <2>1 DEF DeliveryInv
<1>10. CASE UNCHANGED vars
  BY <1>10 DEF DeliveryInv, vars, rowVars, workerVars, historyVars
<1>11. QED
  BY <1>1, <1>2, <1>3, <1>4, <1>5, <1>6, <1>7, <1>8, <1>9, <1>10
     DEF Next, WorkerStep

-----------------------------------------------------------------------------
\* The two halves of EscalationInv for one row.
Begun(n) == /\ blame[n] = {}
            /\ Successor[n] # None
            /\ born[Successor[n]] > 0 \/ Escalating(n)

Over(n) == /\ status[n] \in {"failed", "none"}
           /\ delivered[n] = 0
           /\ \A w \in Workers : n \notin held[w]

Followed(n) ==
    status[n] = "failed" /\ blame[n] = {} /\ Successor[n] # None
    => born[Successor[n]] > 0 \/ Escalating(n)

\* EscalationInv, row by row.
LEMMA EscalationRows ==
    EscalationInv <=> \A n \in Notifications : (Begun(n) => Over(n)) /\ Followed(n)
  BY DEF EscalationInv, EscalationFollows, Begun, Over, Followed, Escalating

\* Every step keeps EscalationInv.
LEMMA EscalationStep ==
    ASSUME TypeOK, TypeOK', WorkerOK, RowInv, LeaseInv, DeliveryInv,
           EscalationInv, [Next]_vars
    PROVE  EscalationInv'
<1> SUFFICES ASSUME NEW n \in Notifications
             PROVE  (Begun(n)' => Over(n)') /\ Followed(n)'
  BY DEF EscalationInv, EscalationFollows, Begun, Over, Followed, Escalating
<1>0. /\ Begun(n) => Over(n)
      /\ Followed(n)
      /\ Begun(n) => born[n] > 0
      /\ Successor[n] # None => Successor[n] \in Notifications /\ born[Successor[n]] \in Nat
      /\ born[n] \in Nat
  BY EscalationRows, OutboxAssumption DEF Begun, Escalating, RowInv, TypeOK
<1>1. ASSUME NEW m \in Notifications, Enqueue(m)
      PROVE  (Begun(n)' => Over(n)') /\ Followed(n)'
  <2>1. /\ m \in Roots /\ born[m] = 0
        /\ status'[m] = "pending"
        /\ \A k \in Notifications \ {m} : status'[k] = status[k] /\ born'[k] = born[k]
        /\ UNCHANGED <<held, pc, cur, delivered, blame>>
    BY <1>1 DEF Enqueue, Insert, workerVars, historyVars, TypeOK
  <2>2. Successor[n] # m
    BY <2>1 DEF Roots
  <2>3. Begun(n)' <=> Begun(n)
    BY <1>0, <2>1, <2>2 DEF Begun, Escalating
  <2>4. QED
    BY <1>0, <2>1, <2>2, <2>3 DEF Over, Followed, Escalating
<1>2. ASSUME NEW m \in Notifications, Replay(m)
      PROVE  (Begun(n)' => Over(n)') /\ Followed(n)'
  <2>1. /\ blame'[m] # {}
        /\ \A k \in Notifications \ {m} : status'[k] = status[k] /\ blame'[k] = blame[k]
        /\ UNCHANGED <<born, held, pc, cur, delivered>>
    BY <1>2 DEF Replay, workerVars, TypeOK
  <2>2. QED
    BY <1>0, <2>1 DEF Begun, Over, Followed, Escalating
<1>3. ASSUME NEW r \in Rules, DeleteRule(r)
      PROVE  (Begun(n)' => Over(n)') /\ Followed(n)'
  <2>1. /\ status'[n] \in {status[n], "none"}
        /\ UNCHANGED <<born, held, pc, cur, delivered, blame>>
    BY <1>3 DEF DeleteRule, workerVars, historyVars, TypeOK
  <2>2. QED
    BY <1>0, <2>1 DEF Begun, Over, Followed, Escalating
<1>4. ASSUME NEW w \in Workers, Claim(w)
      PROVE  (Begun(n)' => Over(n)') /\ Followed(n)'
  <2>1. PICK batch \in SUBSET Eligible :
           /\ n \in batch => status'[n] = "processing"
           /\ n \notin batch => status'[n] = status[n]
           /\ held'[w] = batch
           /\ \A v \in Workers \ {w} : held'[v] = held[v] /\ pc'[v] = pc[v]
           /\ pc[w] = "poll" /\ pc'[w] = "send"
           /\ UNCHANGED <<born, cur, delivered, blame>>
    BY <1>4, ClaimEffect
  <2>2. Escalating(n)' <=> Escalating(n)
    BY <2>1 DEF Escalating
  <2>3. Begun(n) => n \notin batch
    BY <1>0 DEF Over, Eligible, Expired
  <2>4. QED
    BY <1>0, <2>1, <2>2, <2>3 DEF Begun, Over, Followed
<1>5. ASSUME NEW w \in Workers, NEW m \in Notifications, Send(w, m)
      PROVE  (Begun(n)' => Over(n)') /\ Followed(n)'
  <2>1. Escalating(n)' <=> Escalating(n)
    BY <1>5, SendEffect DEF Escalating
  <2>2. blame'[n] = {} => blame[n] = {}
    BY <1>5, SendEffect
  <2>3. Over(n) => n # m
    BY <1>5, SendEffect DEF Over
  <2>4. n # m => delivered'[n] = delivered[n] /\ blame'[n] = blame[n]
    BY <1>5, SendEffect
  <2>5. UNCHANGED <<status, born, held>>
    BY <1>5, SendEffect
  <2>6. QED
    BY <1>0, <2>1, <2>2, <2>3, <2>4, <2>5 DEF Begun, Over, Followed
<1>6. ASSUME NEW w \in Workers, SettleOk(w)
      PROVE  (Begun(n)' => Over(n)') /\ Followed(n)'
  <2>1. /\ cur[w] \in held[w]
        /\ n # cur[w] => status'[n] = status[n]
        /\ \A v \in Workers : held'[v] \subseteq held[v]
        /\ UNCHANGED <<born, delivered, blame>>
    BY <1>6, SettleEffect
  <2>2. status'[cur[w]] # "failed"
    BY <1>6, SettleEffect DEF SettleOk, TypeOK
  <2>3. pc[w] = "ok" /\ pc'[w] \in {"poll", "send"}
    BY <1>6 DEF SettleOk, AfterJob, TypeOK
  <2>4. Escalating(n)' <=> Escalating(n)
    BY <1>6, <2>3, SettleEffect DEF Escalating
  <2>5. Over(n) => n # cur[w]
    BY <2>1 DEF Over
  <2>6. QED
    BY <1>0, <2>1, <2>2, <2>4, <2>5 DEF Begun, Over, Followed
<1>7. ASSUME NEW w \in Workers, SettleErr(w)
      PROVE  (Begun(n)' => Over(n)') /\ Followed(n)'
  <2>0. PICK k \in Notifications : k = cur[w]
    BY <1>7, SettleEffect
  <2>1. /\ k \in held[w]
        /\ held'[w] = held[w] \ {k}
        /\ \A v \in Workers \ {w} :
              held'[v] = held[v] /\ pc'[v] = pc[v] /\ cur'[v] = cur[v]
        /\ n # k => status'[n] = status[n]
        /\ UNCHANGED <<born, live, delivered, blame>>
    BY <1>7, <2>0, SettleEffect
  <2>2. pc[w] = "err" /\ Over(n) => n # k
    BY <2>1 DEF Over
  <2>3. CASE n # k
    <3>1. Escalating(n)' <=> Escalating(n)
      <4>1. pc[w] = "err"
        BY <1>7 DEF SettleErr
      <4>2. pc'[w] = "escalate" => cur'[w] = k
        <5>1. CASE Escalates(w, k) /\ Successor[k] # None
          BY <1>7, <2>0, <5>1 DEF SettleErr
        <5>2. CASE ~(Escalates(w, k) /\ Successor[k] # None)
          BY <1>7, <2>0, <5>2 DEF SettleErr, AfterJob, TypeOK
        <5>3. QED
          BY <5>1, <5>2
      <4>3. QED
        BY <2>1, <2>3, <4>1, <4>2 DEF Escalating
    <3>2. QED
      BY <1>0, <2>1, <2>3, <3>1 DEF Begun, Over, Followed
  <2>4. CASE n = k /\ blame[n] # {}
    BY <2>1, <2>4 DEF Begun, Followed
  <2>5. CASE n = k /\ blame[n] = {}
    <3>1. /\ snap[w][n] = attempts[n]
          /\ \A v \in Workers : n \notin held'[v]
      BY <2>1, <2>5 DEF LeaseInv, SingleHolder, Clean
    <3>2. delivered'[n] = 0
      BY <1>7, <2>0, <2>1, <2>5, HeldUndelivered DEF SettleErr
    <3>3. ~Begun(n)
      BY <1>0, <2>1, <2>5 DEF Over
    <3>4. pc[w] = "err"
      BY <1>7 DEF SettleErr
    <3>5. CASE Escalates(w, n) /\ Successor[n] # None
      <4>1. pc'[w] = "escalate" /\ cur'[w] = n
        BY <1>7, <2>0, <2>5, <3>5 DEF SettleErr, TypeOK
      <4>2. status'[n] \in {"failed", "none"}
        BY <1>7, <2>0, <2>5, <3>1, <3>5
           DEF SettleErr, Escalates, StatusAfterError, TypeOK
      <4>3. Escalating(n)'
        BY <4>1 DEF Escalating
      <4>4. QED
        BY <3>1, <3>2, <4>2, <4>3 DEF Over, Followed
    <3>6. CASE ~(Escalates(w, n) /\ Successor[n] # None)
      <4>1. pc'[w] = AfterJob(w)
        BY <1>7, <2>0, <2>5, <3>6 DEF SettleErr, TypeOK
      <4>2. ~Escalating(n)' \/ Escalating(n)
        BY <2>1, <4>1 DEF Escalating, AfterJob
      <4>3. ~Begun(n)'
        BY <2>1, <3>3, <4>2 DEF Begun
      <4>4. Successor[n] # None => status'[n] # "failed"
        BY <1>7, <2>0, <2>5, <3>1, <3>6
           DEF SettleErr, Escalates, StatusAfterError, TypeOK, LeaseInv, Clean
      <4>5. QED
        BY <4>3, <4>4 DEF Followed
    <3>7. QED
      BY <3>5, <3>6
  <2>6. QED
    BY <2>3, <2>4, <2>5
<1>8. ASSUME NEW w \in Workers, Escalate(w)
      PROVE  (Begun(n)' => Over(n)') /\ Followed(n)'
  <2>0. PICK k \in Notifications, next \in Notifications :
           k = cur[w] /\ next = Successor[k]
    BY <1>8, EscalateEffect
  <2>1. /\ pc[w] = "escalate" /\ pc'[w] \in {"poll", "send"}
        /\ RuleOf[next] \in live
        /\ \A v \in Workers \ {w} : pc'[v] = pc[v] /\ cur'[v] = cur[v]
        /\ \A m \in Notifications \ {next} :
              status'[m] = status[m] /\ born'[m] = born[m]
        /\ status[next] = "none" => status'[next] = "pending" /\ born'[next] > 0
        /\ status[next] # "none" =>
              status'[next] = status[next] /\ born'[next] = born[next]
        /\ UNCHANGED <<held, delivered, blame>>
    BY <1>8, <2>0, EscalateEffect
  <2>2. status[next] = "none" => born[next] = 0
    BY <2>1, InsertFree
  <2>3. /\ status[next] # "none" => born[next] > 0
        /\ born'[next] > 0
    BY <2>1 DEF RowInv, TypeOK
  <2>4. Successor[n] # None /\ n # k => Successor[n] # next
    BY <2>0, OutboxAssumption
  <2>5. CASE n = k
    <3>1. Escalating(n)
      BY <2>0, <2>1, <2>5 DEF Escalating
    <3>2. Begun(n)' => Begun(n)
      BY <2>1, <3>1 DEF Begun
    <3>3. Begun(n) => born[n] > 0 /\ status[n] \in {"failed", "none"}
      BY <1>0 DEF Over
    <3>4. Begun(n) => status'[n] = status[n]
      BY <2>1, <2>2, <3>3
    <3>5. QED
      BY <1>0, <2>0, <2>1, <2>3, <2>5, <3>2, <3>4 DEF Over, Followed
  <2>6. CASE n # k
    <3>1. Escalating(n)' <=> Escalating(n)
      BY <2>0, <2>1, <2>6 DEF Escalating
    <3>2. Successor[n] # None => born'[Successor[n]] = born[Successor[n]]
      BY <1>0, <2>1, <2>4, <2>6
    <3>3. Begun(n)' <=> Begun(n)
      BY <2>1, <3>1, <3>2 DEF Begun
    <3>4. status'[n] = status[n] \/ (born[n] = 0 /\ status'[n] = "pending")
      BY <2>1, <2>2
    <3>5. Begun(n) => status'[n] = status[n]
      BY <1>0, <3>4
    <3>6. QED
      BY <1>0, <2>1, <3>1, <3>2, <3>3, <3>4, <3>5 DEF Over, Followed
  <2>7. QED
    BY <2>5, <2>6
<1>9. ASSUME NEW w \in Workers, EscalateRefused(w) \/ Abort(w)
      PROVE  (Begun(n)' => Over(n)') /\ Followed(n)'
  <2>1. /\ pc'[w] = "poll" /\ held'[w] = {}
        /\ \A v \in Workers \ {w} :
              held'[v] = held[v] /\ pc'[v] = pc[v] /\ cur'[v] = cur[v]
        /\ blame[n] \subseteq blame'[n]
        /\ UNCHANGED <<status, born, live, delivered>>
    BY <1>9, DropEffect
  <2>2. Escalating(n)' => Escalating(n)
    BY <2>1 DEF Escalating
  <2>3. ASSUME pc[w] = "escalate", cur[w] = n, blame'[n] = {}
        PROVE  status[n] = "none"
    <3>1. RuleOf[n] \notin live
      <4>1. ~Abort(w)
        <5>1. Abort(w) => blame' = [blame EXCEPT ![n] = @ \cup {"abort"}]
          BY <2>3 DEF Abort
        <5>2. Abort(w) => "abort" \in blame'[n]
          BY <5>1 DEF TypeOK
        <5>3. QED
          BY <2>3, <5>2
      <4>2. QED
        BY <1>9, <2>3, <4>1 DEF EscalateRefused
    <3>2. QED
      BY <3>1 DEF RowInv
  <2>4. Escalating(n) => Escalating(n)' \/ (pc[w] = "escalate" /\ cur[w] = n)
    BY <2>1 DEF Escalating
  <2>5. QED
    BY <1>0, <2>1, <2>2, <2>3, <2>4 DEF Begun, Over, Followed
<1>10. CASE Tick
  <2>1. /\ UNCHANGED <<status, born, held, pc, cur, delivered>>
        /\ blame[n] \subseteq blame'[n]
    BY <1>10 DEF Tick, workerVars
  <2>2. QED
    BY <1>0, <2>1 DEF Begun, Over, Followed, Escalating
<1>11. CASE UNCHANGED vars
  BY <1>0, <1>11
     DEF Begun, Over, Followed, Escalating, vars, rowVars, workerVars, historyVars
<1>12. QED
  BY <1>1, <1>2, <1>3, <1>4, <1>5, <1>6, <1>7, <1>8, <1>9, <1>10, <1>11
     DEF Next, WorkerStep

-----------------------------------------------------------------------------
\* A worker that a step leaves alone stays informed, when the step only adds
\* blame, attempts and deliveries to rows, and only drops rules.
LEMMA InformedKept ==
    ASSUME TypeOK, TypeOK', WorkerOK, NEW w \in Workers, Informed(w),
           pc'[w] = pc[w], cur'[w] = cur[w], held'[w] = held[w],
           snap'[w] = snap[w], live' \subseteq live,
           \A n \in Notifications : blame[n] \subseteq blame'[n],
           \A n \in Notifications : delivered[n] > 0 => delivered'[n] > 0,
           \A n \in Notifications :
               "replay" \in blame'[n] \/ attempts[n] <= attempts'[n]
    PROVE  Informed(w)'
<1>1. ASSUME NEW n \in held[w], "replay" \notin blame'[n]
      PROVE  snap[w][n] <= attempts'[n]
  <2>1. n \in Notifications
    BY HeldType
  <2>2. snap[w][n] \in Nat /\ attempts[n] \in Nat /\ attempts'[n] \in Nat
    BY <2>1 DEF TypeOK
  <2>3. "replay" \notin blame[n] /\ attempts[n] <= attempts'[n]
    BY <1>1, <2>1
  <2>4. snap[w][n] <= attempts[n]
    BY <2>3 DEF Informed
  <2>5. QED
    BY <2>2, <2>3, <2>4
<1>2. ASSUME pc[w] = "ok" PROVE delivered'[cur[w]] > 0
  <2>1. cur[w] \in Notifications
    BY <1>2, CurType
  <2>2. delivered[cur[w]] > 0
    BY <1>2 DEF Informed
  <2>3. QED
    BY <2>1, <2>2
<1>3. ASSUME pc[w] = "escalate"
      PROVE  \/ attempts'[cur[w]] > GiveUpAt
             \/ "replay" \in blame'[cur[w]]
             \/ RuleOf[cur[w]] \notin live'
  <2>1. cur[w] \in Notifications
    BY <1>3, CurType
  <2>2. attempts[cur[w]] \in Nat /\ attempts'[cur[w]] \in Nat /\ GiveUpAt \in Nat
    BY <2>1, OutboxAssumption DEF TypeOK
  <2>3. \/ attempts[cur[w]] > GiveUpAt
        \/ "replay" \in blame[cur[w]]
        \/ RuleOf[cur[w]] \notin live
    BY <1>3 DEF Informed
  <2>4. "replay" \in blame'[cur[w]] \/ attempts[cur[w]] <= attempts'[cur[w]]
    BY <2>1
  <2>5. blame[cur[w]] \subseteq blame'[cur[w]]
    BY <2>1
  <2>6. QED
    BY <2>2, <2>3, <2>4, <2>5
<1>4. QED
  BY <1>1, <1>2, <1>3 DEF Informed

\* Every step keeps SnapshotInv: what the claimed attempts still tell.
LEMMA SnapshotStep ==
    ASSUME TypeOK, TypeOK', WorkerOK, RowInv, CountInv, SnapshotInv, [Next]_vars
    PROVE  SnapshotInv'
<1>0. /\ GiveUpAt \in Nat
      /\ \A n \in Notifications : attempts[n] \in Nat /\ attempts'[n] \in Nat
      /\ \A w \in Workers : \A n \in held[w] : n \in Notifications
  BY OutboxAssumption, HeldType DEF TypeOK
<1>1. CASE (\E n \in Notifications : Enqueue(n) \/ Replay(n))
           \/ (\E r \in Rules : DeleteRule(r)) \/ Tick \/ UNCHANGED vars
  <2>1. /\ UNCHANGED <<pc, cur, held, snap, delivered>>
        /\ live' \subseteq live
    BY <1>1 DEF Enqueue, Insert, Replay, DeleteRule, Tick, vars, rowVars,
                workerVars, historyVars
  <2>2. ASSUME NEW n \in Notifications
        PROVE  /\ blame[n] \subseteq blame'[n]
               /\ attempts[n] <= attempts'[n] \/ "replay" \in blame'[n]
    <3>1. CASE \E m \in Notifications : Replay(m)
      <4>1. PICK m \in Notifications : Replay(m)
        BY <3>1
      <4>2. /\ blame' = [blame EXCEPT ![m] = @ \cup {"replay"}]
            /\ attempts' = [attempts EXCEPT ![m] = 0]
        BY <4>1 DEF Replay
      <4>3. QED
        BY <1>0, <4>2 DEF TypeOK
    <3>2. CASE Tick
      BY <1>0, <3>2 DEF Tick
    <3>3. CASE (\E m \in Notifications : Enqueue(m))
               \/ (\E r \in Rules : DeleteRule(r)) \/ UNCHANGED vars
      BY <1>0, <3>3 DEF Enqueue, Insert, DeleteRule, vars, rowVars, historyVars
    <3>4. QED
      BY <1>1, <3>1, <3>2, <3>3
  <2>3. QED
    BY <2>1, <2>2, InformedKept DEF SnapshotInv
<1>2. ASSUME NEW w \in Workers, Claim(w) PROVE SnapshotInv'
  <2>1. PICK batch \in SUBSET Eligible :
           /\ \A n \in batch : snap'[w][n] = attempts[n]
           /\ held'[w] = batch
           /\ \A v \in Workers \ {w} :
                 held'[v] = held[v] /\ snap'[v] = snap[v] /\ pc'[v] = pc[v]
           /\ pc'[w] = "send"
           /\ UNCHANGED <<attempts, live, cur, delivered, blame>>
    BY <1>2, ClaimEffect
  <2>2. \A n \in batch : attempts[n] \in Nat
    BY <1>0 DEF Eligible
  <2>3. Informed(w)'
    BY <1>0, <2>1, <2>2 DEF Informed
  <2>4. ASSUME NEW v \in Workers, v # w PROVE Informed(v)'
    BY <1>0, <2>1, <2>4, InformedKept DEF SnapshotInv
  <2>5. QED
    BY <2>3, <2>4 DEF SnapshotInv
<1>3. ASSUME NEW w \in Workers, NEW n \in Notifications, Send(w, n) PROVE SnapshotInv'
  <2>1. /\ pc'[w] \in {"ok", "err"} /\ cur'[w] = n
        /\ pc'[w] = "ok" => delivered'[n] > 0
        /\ UNCHANGED <<attempts, live, held, snap>>
        /\ \A v \in Workers \ {w} : pc'[v] = pc[v] /\ cur'[v] = cur[v]
    BY <1>3, SendEffect
  <2>2. /\ \A m \in Notifications : blame[m] \subseteq blame'[m]
        /\ \A m \in Notifications : delivered[m] > 0 => delivered'[m] > 0
    <3>1. blame[n] \subseteq blame'[n] /\ (delivered[n] > 0 => delivered'[n] > 0)
      BY <1>3, SendEffect
    <3>2. \A m \in Notifications \ {n} :
             delivered'[m] = delivered[m] /\ blame'[m] = blame[m]
      BY <1>3, SendEffect
    <3>3. QED
      BY <3>1, <3>2
  <2>3. \A m \in held[w] : "replay" \notin blame'[m] => snap[w][m] <= attempts[m]
    <3>1. ASSUME NEW m \in held[w], "replay" \notin blame'[m]
          PROVE  snap[w][m] <= attempts[m]
      <4>1. blame[m] \subseteq blame'[m]
        BY <2>2, HeldType
      <4>2. Informed(w)
        BY DEF SnapshotInv
      <4>3. QED
        BY <3>1, <4>1, <4>2 DEF Informed
    <3>2. QED
      BY <3>1
  <2>4. Informed(w)'
    BY <2>1, <2>3 DEF Informed
  <2>5. ASSUME NEW v \in Workers, v # w PROVE Informed(v)'
    BY <1>0, <2>1, <2>2, <2>5, InformedKept DEF SnapshotInv
  <2>6. QED
    BY <2>4, <2>5 DEF SnapshotInv
<1>4. ASSUME NEW w \in Workers, SettleOk(w) \/ SettleErr(w) PROVE SnapshotInv'
  <2>0. PICK k \in Notifications : k = cur[w]
    BY <1>4, SettleEffect
  <2>1. /\ held'[w] \subseteq held[w]
        /\ \A n \in held'[w] : snap'[w][n] = snap[w][n]
        /\ \A v \in Workers \ {w} :
              /\ held'[v] = held[v] /\ snap'[v] = snap[v]
              /\ pc'[v] = pc[v] /\ cur'[v] = cur[v]
        /\ UNCHANGED <<live, delivered, blame>>
        /\ k \in held[w]
        /\ \A n \in Notifications \ {k} : attempts'[n] = attempts[n]
    BY <1>4, <2>0, SettleEffect
  <2>2. \A n \in Notifications : attempts[n] <= attempts'[n]
    <3>1. attempts'[k] = attempts[k] \/ attempts'[k] = attempts[k] + 1
      BY <1>4, <2>0 DEF SettleOk, SettleErr, TypeOK
    <3>2. QED
      BY <1>0, <2>1, <3>1
  <2>3. pc'[w] \in {"poll", "send"} \/
        /\ pc'[w] = "escalate" /\ cur'[w] = k /\ SettleErr(w) /\ Escalates(w, k)
    <3>1. CASE SettleOk(w)
      BY <3>1 DEF SettleOk, AfterJob, TypeOK
    <3>2. CASE SettleErr(w) /\ Escalates(w, k) /\ Successor[k] # None
      BY <2>0, <3>2 DEF SettleErr, TypeOK
    <3>3. CASE SettleErr(w) /\ ~(Escalates(w, k) /\ Successor[k] # None)
      BY <2>0, <3>3 DEF SettleErr, AfterJob, TypeOK
    <3>4. QED
      BY <1>4, <3>1, <3>2, <3>3
  <2>4. ASSUME SettleErr(w), Escalates(w, k)
        PROVE  \/ attempts'[k] > GiveUpAt
               \/ "replay" \in blame'[k]
               \/ RuleOf[k] \notin live'
    <3>1. CASE status[k] = "none"
      BY <2>1, <3>1 DEF RowInv, TypeOK
    <3>2. CASE status[k] # "none"
      <4>1. attempts'[k] = attempts[k] + 1
        BY <2>0, <2>4, <3>2 DEF SettleErr, TypeOK
      <4>2. "replay" \notin blame[k] => snap[w][k] <= attempts[k]
        BY <2>1 DEF SnapshotInv, Informed
      <4>3. snap[w][k] >= GiveUpAt /\ snap[w][k] \in Nat
        BY <2>4 DEF Escalates, TypeOK
      <4>4. QED
        BY <1>0, <2>1, <4>1, <4>2, <4>3
    <3>3. QED
      BY <3>1, <3>2
  <2>5. \A n \in held'[w] : "replay" \notin blame'[n] => snap'[w][n] <= attempts'[n]
    <3>1. ASSUME NEW n \in held'[w], "replay" \notin blame'[n]
          PROVE  snap'[w][n] <= attempts'[n]
      <4>1. n \in held[w] /\ n \in Notifications /\ snap'[w][n] = snap[w][n]
        BY <1>0, <2>1
      <4>2. snap[w][n] <= attempts[n] /\ snap[w][n] \in Nat
        BY <2>1, <3>1, <4>1 DEF SnapshotInv, Informed, TypeOK
      <4>3. QED
        BY <1>0, <2>2, <4>1, <4>2
    <3>2. QED
      BY <3>1
  <2>6. Informed(w)'
    BY <2>3, <2>4, <2>5 DEF Informed
  <2>7. ASSUME NEW v \in Workers, v # w PROVE Informed(v)'
    BY <1>0, <2>1, <2>2, <2>7, InformedKept DEF SnapshotInv
  <2>8. QED
    BY <2>6, <2>7 DEF SnapshotInv
<1>5. ASSUME NEW w \in Workers, Escalate(w) PROVE SnapshotInv'
  <2>1. /\ pc'[w] \in {"poll", "send"}
        /\ \A v \in Workers \ {w} : pc'[v] = pc[v] /\ cur'[v] = cur[v]
        /\ UNCHANGED <<attempts, live, held, snap, delivered, blame>>
    BY <1>5, EscalateEffect
  <2>2. Informed(w)'
    BY <2>1 DEF SnapshotInv, Informed
  <2>3. ASSUME NEW v \in Workers, v # w PROVE Informed(v)'
    BY <1>0, <2>1, <2>3, InformedKept DEF SnapshotInv
  <2>4. QED
    BY <2>2, <2>3 DEF SnapshotInv
<1>6. ASSUME NEW w \in Workers, EscalateRefused(w) \/ Abort(w) PROVE SnapshotInv'
  <2>1. /\ pc'[w] = "poll" /\ held'[w] = {}
        /\ \A v \in Workers \ {w} :
              /\ held'[v] = held[v] /\ snap'[v] = snap[v]
              /\ pc'[v] = pc[v] /\ cur'[v] = cur[v]
        /\ \A n \in Notifications : blame[n] \subseteq blame'[n]
        /\ UNCHANGED <<attempts, live, delivered>>
    BY <1>6, DropEffect
  <2>2. Informed(w)'
    BY <2>1 DEF Informed
  <2>3. ASSUME NEW v \in Workers, v # w PROVE Informed(v)'
    BY <1>0, <2>1, <2>3, InformedKept DEF SnapshotInv
  <2>4. QED
    BY <2>2, <2>3 DEF SnapshotInv
<1>7. QED
  BY <1>1, <1>2, <1>3, <1>4, <1>5, <1>6 DEF Next, WorkerStep

-----------------------------------------------------------------------------
\* The inductive invariant holds initially.
LEMMA InvInit == Init => IInv
<1> SUFFICES ASSUME Init PROVE IInv
  OBVIOUS
<1>1. TypeOK /\ WorkerOK
  BY TypeInit
<1>2. RowInv /\ LeaseInv /\ DeliveryInv /\ EscalationInv /\ SnapshotInv
  <2>1. RowInv
    BY OutboxAssumption DEF Init, RowInv
  <2>2. LeaseInv /\ DeliveryInv /\ EscalationInv /\ SnapshotInv
    BY DEF Init, LeaseInv, SingleHolder, DeliveryInv, EscalationInv, Escalating,
           EscalationFollows, SnapshotInv, Informed, Status
  <2>3. QED
    BY <2>1, <2>2
<1>3. CountInv
  <2>1. ASSUME NEW n \in Notifications
        PROVE  attempts[n] + Cardinality(Holders(n)) <= GiveUpAt + Cardinality(Workers)
    <3>1. /\ Cardinality(Holders(n)) \in Nat /\ Cardinality(Workers) \in Nat
          /\ Cardinality(Holders(n)) <= Cardinality(Workers)
      BY HoldersCount DEF Holders
    <3>2. attempts[n] = 0
      BY DEF Init
    <3>3. QED
      BY <3>1, <3>2, OutboxAssumption
  <2>2. QED
    BY <2>1 DEF Init, CountInv, AttemptsBounded
<1>4. QED
  BY <1>1, <1>2, <1>3 DEF IInv

\* The inductive invariant is kept by every step.
LEMMA InvStep ==
    ASSUME IInv, [Next]_vars
    PROVE  IInv'
<1>1. TypeOK' /\ WorkerOK'
  BY TypeStep, WorkerStepOK DEF IInv
<1>2. RowInv' /\ LeaseInv' /\ CountInv' /\ SnapshotInv'
  BY <1>1, RowStep, LeaseStep, CountStep, SnapshotStep DEF IInv
<1>3. DeliveryInv' /\ EscalationInv'
  BY <1>1, DeliveryStep, EscalationStep DEF IInv
<1>4. QED
  BY <1>1, <1>2, <1>3 DEF IInv

\* The conjunction of every part above is invariant, for any number of rows,
\* rules and workers, any policy chains and any settings.
THEOREM Invariance == Spec => []IInv
  BY InvInit, InvStep, PTL DEF Spec

\* No row is tried more than GiveUpAt times plus once for each worker.
THEOREM AttemptsAreBounded == Spec => []AttemptsBounded
<1>1. IInv => AttemptsBounded
  BY DEF IInv, CountInv
<1>2. QED
  BY <1>1, Invariance, PTL

\* A job is in two hands only after an overrun lease or a retry.
THEOREM LeaseExcludes == Spec => []SingleHolder
<1>1. IInv => SingleHolder
  BY DEF IInv, LeaseInv
<1>2. QED
  BY <1>1, Invariance, PTL

\* A row that nothing happened to is delivered at most once.
THEOREM DeliveredOnce == Spec => []NoSpuriousDuplicate
<1>1. IInv => NoSpuriousDuplicate
  <2> SUFFICES ASSUME IInv, NEW n \in Notifications, blame[n] = {}
               PROVE  delivered[n] <= 1
    BY DEF NoSpuriousDuplicate
  <2>1. delivered[n] \in 0..2 /\ (delivered[n] > 0 => delivered[n] = 1)
    BY DEF IInv, TypeOK, DeliveryInv
  <2>2. QED
    BY <2>1
<1>2. QED
  BY <1>1, Invariance, PTL

\* The next step of a policy is contacted only about an alert that the step
\* before it did not deliver, and is contacted when that step is given up.
THEOREM EscalationIsSound == Spec => []EscalationSound
<1>1. IInv => EscalationSound
  BY DEF IInv, EscalationInv, EscalationSound, NoNeedlessEscalation
<1>2. QED
  BY <1>1, Invariance, PTL

\* Without an overrun or a retry, 'sent' is final.
THEOREM SentIsFinal == Spec => SentStaysSent
<1> DEFINE Step == \A n \in Notifications :
                      status[n] = "sent" /\ status'[n] \notin {"sent", "none"}
                      => blame'[n] \cap {"overrun", "replay"} # {}
<1>1. IInv /\ [Next]_vars => [Step]_vars
  <2> SUFFICES ASSUME IInv, Next, NEW n \in Notifications,
                      status[n] = "sent", status'[n] \notin {"sent", "none"}
               PROVE  blame'[n] \cap {"overrun", "replay"} # {}
    OBVIOUS
  <2> USE DEF IInv
  <2>1. ASSUME NEW m \in Notifications, Enqueue(m) PROVE FALSE
    BY <2>1 DEF Enqueue, Insert, TypeOK, RowInv
  <2>2. ASSUME NEW m \in Notifications, Replay(m)
        PROVE  blame'[n] \cap {"overrun", "replay"} # {}
    BY <2>2 DEF Replay, TypeOK
  <2>3. ASSUME NEW r \in Rules, DeleteRule(r) PROVE FALSE
    BY <2>3 DEF DeleteRule, TypeOK
  <2>4. ASSUME NEW w \in Workers, Claim(w) PROVE FALSE
    BY <2>4, ClaimEffect DEF Eligible, Expired
  <2>5. ASSUME NEW w \in Workers, NEW m \in Notifications, Send(w, m) PROVE FALSE
    BY <2>5, SendEffect
  <2>6. ASSUME NEW w \in Workers, SettleOk(w) \/ SettleErr(w)
        PROVE  blame'[n] \cap {"overrun", "replay"} # {}
    <3>1. n = cur[w] /\ n \in held[w] /\ blame' = blame
      BY <2>6, SettleEffect
    <3>2. RuleOf[n] \in live
      BY DEF RowInv
    <3>3. ~Clean(n)
      BY <3>1, <3>2 DEF LeaseInv
    <3>4. QED
      BY <3>1, <3>3 DEF Clean
  <2>7. ASSUME NEW w \in Workers, Escalate(w) PROVE FALSE
    BY <2>7, EscalateEffect
  <2>8. ASSUME NEW w \in Workers, EscalateRefused(w) \/ Abort(w) PROVE FALSE
    BY <2>8, DropEffect
  <2>9. ASSUME Tick PROVE FALSE
    BY <2>9 DEF Tick
  <2>10. QED
    BY <2>1, <2>2, <2>3, <2>4, <2>5, <2>6, <2>7, <2>8, <2>9 DEF Next, WorkerStep
<1>2. QED
  BY <1>1, Invariance, PTL DEF Spec, SentStaysSent

-----------------------------------------------------------------------------
(* Refinement.  A claim, an aborted batch and a tick leave the alerts as    *)
(* they are; every other step is one step of AlertDelivery.                *)

StageOf == [n \in Notifications |-> Stage(n)]
GotOf == [n \in Notifications |-> delivered[n] > 0]
RetriedOf == [n \in Notifications |-> "replay" \in blame[n]]

\* When only one row changes its status, only its stage can change.
LEMMA StageChange ==
    ASSUME TypeOK, TypeOK', NEW n \in Notifications,
           \A m \in Notifications \ {n} : Stage(m)' = Stage(m)
    PROVE  StageOf' = [StageOf EXCEPT ![n] = Stage(n)']
  BY DEF StageOf

\* When no row changes its status, every stage stays.
LEMMA StageSame ==
    ASSUME \A n \in Notifications : status'[n] = status[n]
    PROVE  StageOf' = StageOf
<1>1. \A n \in Notifications : Stage(n)' = Stage(n)
  BY DEF Stage
<1>2. QED
  BY <1>1 DEF StageOf

\* The empty outbox is the empty set of alerts.
LEMMA RefinementInit == Init => Delivery!Init
<1> SUFFICES ASSUME Init PROVE Delivery!Init
  OBVIOUS
<1>1. \A n \in Notifications : Stage(n) = "absent"
  BY DEF Init, Stage
<1>2. \A n \in Notifications : (delivered[n] > 0) = FALSE
  BY DEF Init
<1>3. \A n \in Notifications : ("replay" \in blame[n]) = FALSE
  BY DEF Init
<1>4. attempts = [n \in Notifications |-> 0]
  BY DEF Init
<1>5. QED
  BY <1>1, <1>2, <1>3, <1>4 DEF Delivery!Init

\* Every step of the outbox is a step of AlertDelivery, or leaves it alone.
LEMMA RefinementStep ==
    ASSUME IInv, IInv', [Next]_vars
    PROVE  [Delivery!Next]_(Delivery!vars)
<1> USE DEF IInv
<1> DEFINE Same == UNCHANGED <<StageOf, attempts, GotOf, RetriedOf>>
<1>0. Same => [Delivery!Next]_(Delivery!vars)
  BY DEF Delivery!vars, StageOf, GotOf, RetriedOf
<1>1. ASSUME NEW n \in Notifications, RuleOf[n] \in live,
             status[n] = "none", status'[n] = "pending",
             \A m \in Notifications : Successor[m] = n =>
                 attempts[m] > GiveUpAt \/ "replay" \in blame[m],
             \A m \in Notifications \ {n} : status'[m] = status[m],
             UNCHANGED <<attempts, delivered, blame>>
      PROVE  Delivery!Next
  <2>1. Stage(n) = "absent" /\ Stage(n)' = "open" /\ attempts[n] = 0
    BY <1>1, InsertFree DEF Stage
  <2>2. \A m \in Notifications \ {n} : Stage(m)' = Stage(m)
    BY <1>1 DEF Stage
  <2>3. StageOf' = [StageOf EXCEPT ![n] = "open"]
    BY <2>1, <2>2, StageChange
  <2>4. GotOf' = GotOf /\ RetriedOf' = RetriedOf
    BY <1>1 DEF GotOf, RetriedOf
  <2>5. Delivery!Raise(n)
    BY <1>1, <2>1, <2>3, <2>4 DEF Delivery!Raise, StageOf, GotOf, RetriedOf
  <2>6. QED
    BY <2>5 DEF Delivery!Next
<1>2. ASSUME NEW n \in Notifications, Enqueue(n) PROVE Delivery!Next
  <2>1. /\ n \in Roots /\ born[n] = 0 /\ RuleOf[n] \in live
        /\ status' = [status EXCEPT ![n] = "pending"]
        /\ UNCHANGED <<attempts, delivered, blame>>
    BY <1>2 DEF Enqueue, Insert, historyVars
  <2>2. status[n] = "none"
    BY <2>1 DEF RowInv
  <2>3. QED
    BY <1>1, <2>1, <2>2 DEF Roots, TypeOK
<1>3. ASSUME NEW n \in Notifications, Replay(n) PROVE Delivery!Next
  <2>1. /\ status[n] # "none"
        /\ status' = [status EXCEPT ![n] = "pending"]
        /\ attempts' = [attempts EXCEPT ![n] = 0]
        /\ blame' = [blame EXCEPT ![n] = @ \cup {"replay"}]
        /\ delivered' = delivered
    BY <1>3 DEF Replay
  <2>2. Stage(n) # "absent" /\ Stage(n)' = "open"
    BY <2>1 DEF Stage, TypeOK, Status
  <2>3. \A m \in Notifications \ {n} : Stage(m)' = Stage(m)
    BY <2>1 DEF Stage, TypeOK
  <2>4. StageOf' = [StageOf EXCEPT ![n] = "open"]
    BY <2>2, <2>3, StageChange
  <2>5. RetriedOf' = [RetriedOf EXCEPT ![n] = TRUE]
    BY <2>1 DEF RetriedOf, TypeOK
  <2>6. GotOf' = GotOf
    BY <2>1 DEF GotOf
  <2>7. Delivery!Retry(n)
    BY <2>1, <2>2, <2>4, <2>5, <2>6 DEF Delivery!Retry, StageOf, GotOf, RetriedOf
  <2>8. QED
    BY <2>7 DEF Delivery!Next
<1>4. ASSUME NEW r \in Rules, DeleteRule(r) PROVE Delivery!Next
  <2> DEFINE S == {n \in Notifications : RuleOf[n] = r}
  <2>1. \A n \in Notifications : Stage(n)' = IF n \in S THEN "absent" ELSE Stage(n)
    <3>1. \A n \in S : status'[n] = "none"
      BY <1>4 DEF DeleteRule
    <3>2. \A n \in Notifications \ S : status'[n] = status[n]
      BY <1>4 DEF DeleteRule
    <3>3. \A n \in S : Stage(n)' = "absent"
      BY <3>1 DEF Stage
    <3>4. \A n \in Notifications \ S : Stage(n)' = Stage(n)
      BY <3>2 DEF Stage
    <3>5. QED
      BY <3>3, <3>4
  <2>2. UNCHANGED <<attempts, delivered, blame>>
    BY <1>4 DEF DeleteRule, historyVars
  <2>3. Delivery!Remove(S)
    BY <2>1, <2>2 DEF Delivery!Remove
  <2>4. QED
    BY <2>3 DEF Delivery!Next
<1>5. ASSUME NEW w \in Workers, Claim(w) PROVE Same
  <2>1. PICK batch \in SUBSET Eligible :
           /\ \A n \in batch : status'[n] = "processing"
           /\ \A n \in Notifications \ batch : status'[n] = status[n]
           /\ UNCHANGED <<attempts, delivered, blame>>
    BY <1>5, ClaimEffect
  <2>2. \A n \in Notifications : Stage(n)' = Stage(n)
    BY <2>1 DEF Stage, Eligible, Expired
  <2>3. QED
    BY <2>1, <2>2 DEF StageOf, GotOf, RetriedOf
<1>6. ASSUME NEW w \in Workers, NEW n \in Notifications, Send(w, n)
      PROVE  Same \/ Delivery!Next
  <2>1. /\ UNCHANGED <<status, attempts>>
        /\ \A m \in Notifications \ {n} :
              delivered'[m] = delivered[m] /\ blame'[m] = blame[m]
        /\ delivered'[n] = delivered[n] \/ delivered'[n] > 0
        /\ "replay" \in blame'[n] <=> "replay" \in blame[n]
    BY <1>6, SendEffect
  <2>2. StageOf' = StageOf
    BY <2>1 DEF StageOf, Stage
  <2>3. RetriedOf' = RetriedOf
    <3>1. \A m \in Notifications : ("replay" \in blame'[m]) = ("replay" \in blame[m])
      BY <2>1
    <3>2. QED
      BY <3>1 DEF RetriedOf
  <2>4. CASE delivered'[n] = delivered[n]
    <3>1. GotOf' = GotOf
      BY <2>1, <2>4 DEF GotOf
    <3>2. QED
      BY <2>1, <2>2, <2>3, <3>1
  <2>5. CASE delivered'[n] > 0
    <3>1. GotOf' = [GotOf EXCEPT ![n] = TRUE]
      BY <2>1, <2>5 DEF GotOf
    <3>2. Delivery!Arrive(n)
      BY <2>1, <2>2, <2>3, <3>1 DEF Delivery!Arrive, StageOf, GotOf, RetriedOf
    <3>3. QED
      BY <3>2 DEF Delivery!Next
  <2>6. QED
    BY <2>1, <2>4, <2>5
<1>7. ASSUME NEW w \in Workers, SettleOk(w) PROVE Same \/ Delivery!Next
  <2>0. PICK n \in Notifications : n = cur[w]
    BY <1>7, SettleEffect
  <2>1. /\ status[n] = "none" => status' = status
        /\ status[n] # "none" => status' = [status EXCEPT ![n] = "sent"]
        /\ UNCHANGED <<attempts, delivered, blame>>
    BY <1>7, <2>0 DEF SettleOk, historyVars
  <2>2. GotOf' = GotOf /\ RetriedOf' = RetriedOf
    BY <2>1 DEF GotOf, RetriedOf
  <2>3. CASE status[n] = "none"
    BY <2>1, <2>2, <2>3, StageSame
  <2>4. CASE status[n] # "none"
    <3>1. Stage(n) # "absent" /\ Stage(n)' = "done"
      BY <2>1, <2>4 DEF Stage, TypeOK, Status
    <3>2. \A m \in Notifications \ {n} : Stage(m)' = Stage(m)
      BY <2>1, <2>4 DEF Stage, TypeOK
    <3>3. StageOf' = [StageOf EXCEPT ![n] = "done"]
      BY <3>1, <3>2, StageChange
    <3>4. delivered[n] > 0
      BY <1>7, <2>0 DEF SettleOk, SnapshotInv, Informed
    <3>5. Delivery!Confirm(n)
      BY <2>1, <2>2, <3>1, <3>3, <3>4 DEF Delivery!Confirm, StageOf, GotOf, RetriedOf
    <3>6. QED
      BY <3>5 DEF Delivery!Next
  <2>5. QED
    BY <2>3, <2>4
<1>8. ASSUME NEW w \in Workers, SettleErr(w) PROVE Same \/ Delivery!Next
  <2>0. PICK n \in Notifications : n = cur[w]
    BY <1>8, SettleEffect
  <2>1. /\ status[n] = "none" => status' = status /\ attempts' = attempts
        /\ status[n] # "none" =>
              /\ status' = [status EXCEPT ![n] = IF attempts[n] >= GiveUpAt
                                                 THEN "failed" ELSE "pending"]
              /\ attempts' = [attempts EXCEPT ![n] = @ + 1]
        /\ UNCHANGED <<delivered, blame>>
    BY <1>8, <2>0 DEF SettleErr, StatusAfterError, historyVars
  <2>2. GotOf' = GotOf /\ RetriedOf' = RetriedOf
    BY <2>1 DEF GotOf, RetriedOf
  <2>3. CASE status[n] = "none"
    BY <2>1, <2>2, <2>3, StageSame
  <2>4. CASE status[n] # "none"
    <3>1. /\ Stage(n) # "absent"
          /\ Stage(n)' = IF attempts[n] >= GiveUpAt THEN "dead" ELSE "open"
      BY <2>1, <2>4 DEF Stage, TypeOK, Status
    <3>2. \A m \in Notifications \ {n} : Stage(m)' = Stage(m)
      BY <2>1, <2>4 DEF Stage, TypeOK
    <3>3. StageOf' = [StageOf EXCEPT ![n] =
                         IF attempts[n] >= GiveUpAt THEN "dead" ELSE "open"]
      BY <3>1, <3>2, StageChange
    <3>4. Delivery!Fail(n)
      BY <2>1, <2>2, <2>4, <3>1, <3>3 DEF Delivery!Fail, StageOf, GotOf, RetriedOf
    <3>5. QED
      BY <3>4 DEF Delivery!Next
  <2>5. QED
    BY <2>3, <2>4
<1>9. ASSUME NEW w \in Workers, Escalate(w) PROVE Same \/ Delivery!Next
  <2>0. PICK k \in Notifications, next \in Notifications :
           k = cur[w] /\ next = Successor[k]
    BY <1>9, EscalateEffect
  <2>1. /\ RuleOf[next] \in live
        /\ \A m \in Notifications \ {next} : status'[m] = status[m]
        /\ status[next] = "none" => status'[next] = "pending"
        /\ status[next] # "none" => status'[next] = status[next]
        /\ UNCHANGED <<attempts, delivered, blame>>
    BY <1>9, <2>0, EscalateEffect
  <2>2. CASE status[next] # "none"
    <3>1. StageOf' = StageOf
      BY <2>1, <2>2, StageSame
    <3>2. GotOf' = GotOf /\ RetriedOf' = RetriedOf
      BY <2>1 DEF GotOf, RetriedOf
    <3>3. QED
      BY <2>1, <3>1, <3>2
  <2>3. CASE status[next] = "none"
    <3>1. RuleOf[next] = RuleOf[k]
      BY <2>0, OutboxAssumption
    <3>2. attempts[k] > GiveUpAt \/ "replay" \in blame[k]
      BY <1>9, <2>0 DEF Escalate, SnapshotInv, Informed
    <3>3. \A m \in Notifications : Successor[m] = next => m = k
      BY <2>0, OutboxAssumption
    <3>4. QED
      BY <1>1, <2>1, <2>3, <3>2, <3>3
  <2>4. QED
    BY <2>2, <2>3
<1>10. ASSUME NEW w \in Workers, EscalateRefused(w) \/ Abort(w) PROVE Same
  <2>1. UNCHANGED <<status, attempts, delivered>>
    BY <1>10, DropEffect
  <2>2. \A n \in Notifications : ("replay" \in blame'[n]) = ("replay" \in blame[n])
    <3>1. CASE EscalateRefused(w)
      BY <3>1 DEF EscalateRefused, historyVars
    <3>2. CASE Abort(w)
      BY <3>2 DEF Abort, TypeOK
    <3>3. QED
      BY <1>10, <3>1, <3>2
  <2>3. QED
    BY <2>1, <2>2 DEF StageOf, Stage, GotOf, RetriedOf
<1>11. ASSUME Tick PROVE Same
  <2>1. UNCHANGED <<status, attempts, delivered>>
    BY <1>11 DEF Tick
  <2>2. \A n \in Notifications : ("replay" \in blame'[n]) = ("replay" \in blame[n])
    BY <1>11 DEF Tick
  <2>3. QED
    BY <2>1, <2>2 DEF StageOf, Stage, GotOf, RetriedOf
<1>12. CASE UNCHANGED vars
  BY <1>0, <1>12 DEF vars, rowVars, historyVars, StageOf, Stage, GotOf, RetriedOf
<1>13. QED
  BY <1>0, <1>2, <1>3, <1>4, <1>5, <1>6, <1>7, <1>8, <1>9, <1>10, <1>11, <1>12
     DEF Next, WorkerStep

\* The outbox, with its workers, leases and faults, implements AlertDelivery.
THEOREM Refinement == Spec => ImplementsDelivery
<1>1. IInv /\ IInv' /\ [Next]_vars => [Delivery!Next]_(Delivery!vars)
  BY RefinementStep
<1>2. QED
  BY <1>1, RefinementInit, Invariance, PTL DEF Spec, ImplementsDelivery, Delivery!Spec

-----------------------------------------------------------------------------
(* No due row is passed over.  CanStep says when a step of WorkerStep can be *)
(* taken.                                                                   *)

\* The guards of WorkerStep.
CanStep(w) ==
    \/ pc[w] = "poll" /\ \E batch \in SUBSET Eligible : batch # {} /\ Oldest(batch)
    \/ pc[w] = "send" /\ held[w] # {}
    \/ pc[w] \in {"ok", "err", "escalate"}

\* As long as a row is due, no worker has nothing to do: there is a batch for each
\* that polls, and the oldest due row is in all of them.
DueIsServed ==
    Eligible # {} =>
        /\ \A w \in Workers : CanStep(w)
        /\ \E n \in Eligible : \A batch \in SUBSET Eligible :
              batch # {} /\ Oldest(batch) => n \in batch

\* Rows are born one after the other, and a worker that sends has a job to send.
OrderInv ==
    /\ \A n \in Notifications : born[n] < nextBorn
    /\ \A m, n \in Notifications : born[m] = born[n] /\ born[m] > 0 => m = n
    /\ \A w \in Workers : pc[w] = "send" => held[w] # {}

LEMMA OrderInit == Init => OrderInv
  BY DEF Init, OrderInv

LEMMA InsertOrder ==
    ASSUME TypeOK, OrderInv, NEW n \in Notifications, NEW delay, Insert(n, delay)
    PROVE  /\ \A m \in Notifications : born'[m] < nextBorn'
           /\ \A m, k \in Notifications : born'[m] = born'[k] /\ born'[m] > 0 => m = k
<1>1. /\ \A m \in Notifications : born'[m] = IF m = n THEN nextBorn ELSE born[m]
      /\ nextBorn' = nextBorn + 1
  BY DEF Insert, TypeOK
<1>2. nextBorn \in Nat /\ \A m \in Notifications : born[m] \in Nat /\ born[m] < nextBorn
  BY DEF TypeOK, OrderInv
<1>3. \A m \in Notifications : born'[m] < nextBorn'
  BY <1>1, <1>2
<1>4. \A m, k \in Notifications : born'[m] = born'[k] /\ born'[m] > 0 => m = k
  BY <1>1, <1>2 DEF OrderInv
<1>5. QED
  BY <1>3, <1>4

LEMMA OrderStep == TypeOK /\ WorkerOK /\ OrderInv /\ [Next]_vars => OrderInv'
<1> SUFFICES ASSUME TypeOK, WorkerOK, OrderInv, [Next]_vars PROVE OrderInv'
  OBVIOUS
<1>1. ASSUME UNCHANGED <<born, nextBorn, pc, held>> PROVE OrderInv'
  BY <1>1 DEF OrderInv
<1>2. ASSUME NEW n \in Notifications, Enqueue(n) PROVE OrderInv'
  <2>1. UNCHANGED <<pc, held>> /\ \E delay \in {0, StepDelay} : Insert(n, delay)
    BY <1>2 DEF Enqueue, workerVars
  <2>2. QED
    BY <2>1, InsertOrder DEF OrderInv
<1>3. ASSUME NEW n \in Notifications, Replay(n) PROVE OrderInv'
  BY <1>1, <1>3 DEF Replay, workerVars
<1>4. ASSUME NEW r \in Rules, DeleteRule(r) PROVE OrderInv'
  BY <1>1, <1>4 DEF DeleteRule, workerVars
<1>5. ASSUME NEW w \in Workers, UNCHANGED <<born, nextBorn>>,
             pc'[w] = "send" => held'[w] # {},
             \A v \in Workers \ {w} : pc'[v] = pc[v] /\ held'[v] = held[v]
      PROVE  OrderInv'
  BY <1>5 DEF OrderInv
<1>6. ASSUME NEW w \in Workers, Claim(w) PROVE OrderInv'
  <2>1. PICK batch \in SUBSET Eligible : batch # {} /\ held' = [held EXCEPT ![w] = batch]
    BY <1>6 DEF Claim
  <2>2. UNCHANGED <<born, nextBorn>> /\ pc' = [pc EXCEPT ![w] = "send"]
    BY <1>6 DEF Claim
  <2>3. QED
    BY <1>5, <2>1, <2>2 DEF TypeOK
<1>7. ASSUME NEW w \in Workers, NEW n \in Notifications, Send(w, n) PROVE OrderInv'
  <2>1. /\ UNCHANGED <<born, nextBorn, held>>
        /\ \E place \in {"ok", "err"} : pc' = [pc EXCEPT ![w] = place]
    BY <1>7 DEF Send, rowVars
  <2>2. QED
    BY <1>5, <2>1 DEF TypeOK
<1>8. ASSUME NEW w \in Workers, SettleOk(w) \/ SettleErr(w) PROVE OrderInv'
  <2>1. /\ UNCHANGED <<born, nextBorn>>
        /\ held' = [held EXCEPT ![w] = held[w] \ {cur[w]}]
        /\ \E place \in {"escalate", AfterJob(w)} : pc' = [pc EXCEPT ![w] = place]
    BY <1>8 DEF SettleOk, SettleErr, Advance
  <2>2. AfterJob(w) = "send" => held[w] \ {cur[w]} # {}
    BY DEF AfterJob
  <2>3. QED
    BY <1>5, <2>1, <2>2 DEF TypeOK
<1>9. ASSUME NEW w \in Workers, Escalate(w) PROVE OrderInv'
  <2>1. /\ UNCHANGED held
        /\ pc' = [pc EXCEPT ![w] = IF held[w] = {} THEN "poll" ELSE "send"]
    BY <1>9 DEF Escalate
  <2>2. \A v \in Workers : pc'[v] = "send" => held'[v] # {}
    BY <2>1 DEF TypeOK, OrderInv
  <2> DEFINE next == Successor[cur[w]]
  <2>3. next \in Notifications
    BY <1>9, OutboxAssumption DEF Escalate, WorkerOK
  <2>4. Insert(next, StepDelay) \/ UNCHANGED <<born, nextBorn>>
    BY <1>9 DEF Escalate, rowVars
  <2>5. QED
    BY <2>2, <2>3, <2>4, InsertOrder DEF OrderInv
<1>10. ASSUME NEW w \in Workers, EscalateRefused(w) \/ Abort(w) PROVE OrderInv'
  <2>1. /\ UNCHANGED <<born, nextBorn>>
        /\ pc' = [pc EXCEPT ![w] = "poll"]
        /\ held' = [held EXCEPT ![w] = {}]
    BY <1>10 DEF EscalateRefused, Abort, rowVars
  <2>2. QED
    BY <1>5, <2>1 DEF TypeOK
<1>11. CASE Tick \/ UNCHANGED vars
  BY <1>1, <1>11 DEF Tick, vars, rowVars, workerVars
<1>12. QED
  BY <1>2, <1>3, <1>4, <1>6, <1>7, <1>8, <1>9, <1>10, <1>11 DEF Next, WorkerStep

Before == {ss \in Nat \X Nat : ss[1] < ss[2]}

\* A set of numbers that is not empty has a least one.
LEMMA Least ==
    ASSUME NEW T \in SUBSET Nat, T # {}
    PROVE  \E x \in T : \A y \in T : x <= y
<1>1. IsWellFoundedOn(Before, Nat)
  BY NatLessThanWellFounded DEF OpToRel, Before
<1>2. PICK x \in T : \A y \in T : ~ (<<y, x>> \in Before)
  BY <1>1, WFMin
<1>3. \A y \in T : y < x => <<y, x>> \in Before
  BY DEF Before
<1>4. ASSUME NEW y \in T PROVE x <= y
  <2>1. ~ (y < x)
    BY <1>2, <1>3
  <2>2. QED
    BY <2>1
<1>5. QED
  BY <1>4

\* Of some rows that exist one is the oldest.
LEMMA OldestRow ==
    ASSUME TypeOK, OrderInv, NEW S \in SUBSET Notifications, S # {},
           \A n \in S : born[n] > 0
    PROVE  \E n \in S : \A m \in S \ {n} : born[n] < born[m]
<1> DEFINE Births == {born[n] : n \in S}
<1>1. Births \in SUBSET Nat /\ Births # {}
  BY DEF TypeOK
<1>2. PICK b \in Births : \A c \in Births : b <= c
  <2> HIDE DEF Births
  <2>1. QED
    BY <1>1, Least
<1>3. PICK n \in S : b = born[n]
  OBVIOUS
<1>4. ASSUME NEW m \in S \ {n} PROVE born[n] < born[m]
  <2>1. born[n] <= born[m]
    BY <1>2, <1>3
  <2>2. born[n] # born[m]
    BY <1>4 DEF OrderInv
  <2>3. born[n] \in Nat /\ born[m] \in Nat
    BY DEF TypeOK
  <2>4. QED
    BY <2>1, <2>2, <2>3
<1>5. QED
  BY <1>3, <1>4

\* The rows that LIMIT may return: older than all other due rows.
Batches == {batch \in SUBSET Eligible :
               /\ IsFiniteSet(batch) /\ batch # {} /\ Cardinality(batch) <= BatchLimit
               /\ \A n \in batch, m \in Eligible \ batch : born[n] < born[m]}

\* LIMIT finds a batch whenever a row is due: the largest of Batches.
LEMMA BatchExists ==
    ASSUME TypeOK, RowInv, OrderInv, Eligible # {}
    PROVE  \E batch \in SUBSET Eligible : batch # {} /\ Oldest(batch)
<1> DEFINE Room == {BatchLimit - Cardinality(batch) : batch \in Batches}
<1>1. \A n \in Eligible : n \in Notifications /\ born[n] > 0 /\ born[n] \in Nat
  BY DEF Eligible, Expired, RowInv, TypeOK
<1>2. BatchLimit \in Nat \ {0}
  BY OutboxAssumption
<1>3. Batches # {}
  <2>1. PICK n \in Eligible : \A m \in Eligible \ {n} : born[n] < born[m]
    BY <1>1, OldestRow
  <2>2. IsFiniteSet({n}) /\ Cardinality({n}) = 1
    BY FS_Singleton
  <2>3. {n} \in Batches
    BY <1>2, <2>1, <2>2 DEF Batches
  <2>4. QED
    BY <2>3
<1>4. \A batch \in Batches : Cardinality(batch) \in Nat /\ Cardinality(batch) <= BatchLimit
  BY FS_CardinalityType DEF Batches
<1>5. Room \in SUBSET Nat /\ Room # {}
  BY <1>2, <1>3, <1>4
<1>6. PICK k \in Room : \A j \in Room : k <= j
  <2> HIDE DEF Room
  <2>1. QED
    BY <1>5, Least
<1>7. PICK batch \in Batches : k = BatchLimit - Cardinality(batch)
  OBVIOUS
<1>8. CASE Eligible \subseteq batch
  BY <1>7, <1>8 DEF Oldest, Batches
<1>9. CASE Cardinality(batch) = BatchLimit
  BY <1>2, <1>7, <1>9 DEF Oldest, Batches
<1>10. CASE ~(Eligible \subseteq batch) /\ Cardinality(batch) # BatchLimit
  <2>1. PICK n \in Eligible \ batch : \A m \in (Eligible \ batch) \ {n} : born[n] < born[m]
    <3>1. Eligible \ batch \in SUBSET Notifications /\ Eligible \ batch # {}
          /\ \A n \in Eligible \ batch : born[n] > 0
      BY <1>1, <1>10
    <3>2. QED
      BY <3>1, OldestRow
  <2> DEFINE more == batch \cup {n}
  <2>2. IsFiniteSet(more) /\ Cardinality(more) = Cardinality(batch) + 1
    BY <2>1, FS_AddElement DEF Batches
  <2>3. Cardinality(more) <= BatchLimit
    BY <1>2, <1>4, <1>10, <2>2
  <2>4. more \in SUBSET Eligible /\ more # {}
    BY <2>1 DEF Batches
  <2>5. \A x \in more, m \in Eligible \ more : born[x] < born[m]
    BY <2>1 DEF Batches
  <2> HIDE DEF more
  <2>6. more \in Batches
    BY <2>2, <2>3, <2>4, <2>5 DEF Batches
  <2>7. BatchLimit - Cardinality(more) \in Room
    BY <2>6
  <2> HIDE DEF Room
  <2>8. k <= BatchLimit - Cardinality(more)
    BY <1>6, <2>7
  <2>9. QED
    BY <1>2, <1>4, <1>7, <2>2, <2>8
<1>11. QED
  BY <1>8, <1>9, <1>10

\* A claim finds a batch whenever a row is due, with the oldest such row in it, and
\* a worker that is not polling has a job to go on with: no due row is passed over
\* forever (run_worker, process_batch).
THEOREM DueRowsAreServed == Spec => []DueIsServed
<1>1. Init => OrderInv
  BY OrderInit
<1>2. IInv /\ OrderInv /\ [Next]_vars => OrderInv'
  BY OrderStep DEF IInv
<1>3. ASSUME IInv, OrderInv, Eligible # {}
      PROVE  /\ \A w \in Workers : CanStep(w)
             /\ \E n \in Eligible : \A batch \in SUBSET Eligible :
                   batch # {} /\ Oldest(batch) => n \in batch
  <2>1. ASSUME NEW w \in Workers PROVE CanStep(w)
    <3>1. pc[w] = "poll" => CanStep(w)
      BY <1>3, BatchExists DEF IInv, CanStep
    <3>2. pc[w] # "poll" => CanStep(w)
      BY <1>3 DEF IInv, TypeOK, OrderInv, CanStep
    <3>3. QED
      BY <3>1, <3>2
  <2>2. \A n \in Eligible : n \in Notifications /\ born[n] > 0 /\ born[n] \in Nat
    BY <1>3 DEF IInv, Eligible, Expired, RowInv, TypeOK
  <2>3. PICK n \in Eligible : \A m \in Eligible \ {n} : born[n] < born[m]
    BY <1>3, <2>2, OldestRow DEF IInv
  <2>4. ASSUME NEW batch \in SUBSET Eligible, batch # {}, Oldest(batch), n \notin batch
        PROVE  FALSE
    <3>1. PICK m \in batch : TRUE
      BY <2>4
    <3>2. born[m] < born[n] /\ born[n] < born[m]
      BY <2>3, <2>4, <3>1 DEF Oldest
    <3>3. QED
      BY <2>2, <3>1, <3>2
  <2>5. QED
    BY <2>1, <2>4
<1>4. IInv /\ OrderInv => DueIsServed
  BY <1>3 DEF DueIsServed
<1>5. QED
  BY <1>1, <1>2, <1>4, Invariance, PTL DEF Spec

=============================================================================
