---------------------------- MODULE IngestProofs ----------------------------
(***************************************************************************)
(* Proofs about Ingest, for any number of requests, events, issues,        *)
(* services, releases and rules.                                           *)
(*                                                                         *)
(* The argument: what a transaction has written stays what an atomic step  *)
(* would write, because it holds the lock of every row it wrote and nobody *)
(* else commits a change to a row whose lock he does not hold (RowInv).    *)
(* Every property follows at the one step that publishes a draft, Commit.  *)
(* Locks are taken in the order of the statements (HoldersInv), so that    *)
(* only transactions at the rules can wait for each other.                 *)
(***************************************************************************)
EXTENDS Ingest, FiniteSetTheorems, WellFoundedInduction, TLAPS

AfterRelease == {"match", "rules", "alerts", "commit"}
AfterInsert == AfterRelease \cup {"release"}
AfterService == AfterInsert \cup {"event"}
AfterIssue == AfterService \cup {"service"}
AfterLookup == AfterIssue \cup {"issue"}
AfterAdvisory == AfterLookup \cup {"lookup"}

\* The transaction holds the row, and its draft is one event ahead of it.
Written(r, k) ==
    /\ holder[k] = r
    /\ draft[r][k] = Counted(tally[k], At[r])

\* What an open transaction holds, and what that makes of its draft.
RowInv(r) ==
    /\ pc[r] \in AfterAdvisory => holder[EventOf[r]] = r
    /\ pc[r] \in AfterLookup => stored[EventOf[r]] = None
    /\ pc[r] \in AfterIssue => /\ Written(r, IssueOf[r])
                               /\ reopened[r] = StatusAfter(status[IssueOf[r]])
    /\ pc[r] \in AfterService => Written(r, ServiceOf[r])
    /\ r \in inserted <=> pc[r] \in AfterInsert
    /\ pc[r] \in AfterRelease /\ ReleaseOf[r] # None => Written(r, ReleaseOf[r])
    /\ \A q \in fired[r] : /\ holder[q] = r
                           /\ q \in enabled
                           /\ Rested(r, q)
    /\ fired[r] # {} => pc[r] \in {"rules", "alerts", "commit"}

RowsInv == \A r \in Requests : RowInv(r)

\* What the alerts in the outbox say of the rules.
AlertInv ==
    /\ \A a \in alerts : /\ stored[EventOf[a.by]] = a.by
                         /\ a.time <= last[a.rule]
    /\ \A q \in Rules : last[q] = -1 => \A a \in alerts : a.rule # q

\* What stored events say of requests.
StoredInv ==
    /\ \A e \in Events : stored[e] # None => EventOf[stored[e]] = e
    /\ \A e \in Events : stored[e] # None =>
          (ReleaseOf[stored[e]] # None => e \in queued)

IInv ==
    /\ TypeOK
    /\ RowsInv
    /\ AlertInv
    /\ StoredInv
    /\ AcceptedIsStored
    /\ AlertedOnce
    /\ CooldownKept
    /\ AggregatesAgree


-----------------------------------------------------------------------------
(* Types. *)

\* The lockable things that a request takes are lockable.
LEMMA RequestTypes ==
    ASSUME NEW r \in Requests
    PROVE  /\ EventOf[r] \in Events /\ EventOf[r] \in Lockable
           /\ IssueOf[r] \in Issues /\ IssueOf[r] \in Keys /\ IssueOf[r] \in Lockable
           /\ ServiceOf[r] \in Keys /\ ServiceOf[r] \in Lockable
           /\ ReleaseOf[r] # None => ReleaseOf[r] \in Keys /\ ReleaseOf[r] \in Lockable
           /\ KeysOf[r] = {IssueOf[r], ServiceOf[r]} \cup ({ReleaseOf[r]} \ {None})
           /\ KeysOf[r] \subseteq Keys
           /\ At[r] \in Int
  BY IngestAssumption DEF Lockable, Keys, KeysOf

\* One more event keeps a row a count and two times.
LEMMA CountedType == \A t \in Tally, at \in Int : Counted(t, at) \in Tally
  BY DEF Tally, Counted

\* The end of a transaction keeps the types of what it resets.
LEMMA EndType ==
    ASSUME TypeOK, NEW r \in Requests, NEW answer \in Closed, End(r, answer)
    PROVE  /\ pc' \in [Requests -> Open \cup Closed \cup {"new"}]
           /\ start' \in [Requests -> 0..MaxNow]
           /\ holder' \in [Lockable -> Requests \cup {None}]
           /\ draft' \in [Requests -> [Keys -> Tally]]
           /\ reopened' \in [Requests -> Statuses \cup {"none"}]
           /\ inserted' \in SUBSET Requests
           /\ cand' \in [Requests -> SUBSET Rules]
           /\ fired' \in [Requests -> SUBSET Rules]
           /\ enabled' \in SUBSET Rules
           /\ reachable' \in SUBSET Rules
<1>1. [k \in Keys |-> NoTally] \in [Keys -> Tally]
  BY DEF NoTally, Tally
<1>2. QED
  BY <1>1 DEF TypeOK, End, Goto, Released, config

\* An upsert keeps the types of locks and drafts.
LEMMA UpsertType ==
    ASSUME TypeOK, NEW r \in Requests, NEW k \in Keys, Upsert(r, k)
    PROVE  /\ holder' \in [Lockable -> Requests \cup {None}]
           /\ draft' \in [Requests -> [Keys -> Tally]]
<1>1. Counted(tally[k], At[r]) \in Tally
  BY CountedType, RequestTypes DEF TypeOK
<1>2. draft[r] \in [Keys -> Tally]
  BY DEF TypeOK
<1>3. draft' = [draft EXCEPT ![r] = [draft[r] EXCEPT ![k] = Counted(tally[k], At[r])]]
  BY DEF Upsert
<1>4. [draft[r] EXCEPT ![k] = Counted(tally[k], At[r])] \in [Keys -> Tally]
  BY <1>1, <1>2
<1>5. QED
  BY <1>3, <1>4 DEF TypeOK, Upsert, Take, Lockable

\* The empty store is well typed.
LEMMA TypeInit == Init => TypeOK
  BY IngestAssumption DEF Init, TypeOK, NoTally, Tally, Open, Closed, Statuses

\* Every step keeps every type.
LEMMA TypeStep == TypeOK /\ [Next]_vars => TypeOK'
<1> SUFFICES ASSUME TypeOK, [Next]_vars PROVE TypeOK'
  OBVIOUS
<1> USE RequestTypes
<1>1. ASSUME NEW r \in Requests, Begin(r) PROVE TypeOK'
  BY <1>1 DEF TypeOK, Begin, Goto, rows, config, locals, budgets, Open
<1>2. ASSUME NEW r \in Requests, Serialize(r) PROVE TypeOK'
  BY <1>2 DEF TypeOK, Serialize, Goto, Take, rows, config, locals, budgets, Open
<1>3. ASSUME NEW r \in Requests, Lookup(r) PROVE TypeOK'
  <2>1. CASE stored[EventOf[r]] = None
    BY <1>3, <2>1 DEF TypeOK, Lookup, Goto, rows, config, locals, budgets, Open
  <2>2. CASE stored[EventOf[r]] # None
    <3>1. PICK answer \in Closed : End(r, answer)
      BY <1>3, <2>2 DEF Lookup, Closed
    <3>2. UNCHANGED <<rows, budgets>>
      BY <1>3 DEF Lookup
    <3>3. QED
      BY <3>1, <3>2, EndType DEF TypeOK, rows, budgets
  <2>3. QED
    BY <2>1, <2>2
<1>4. ASSUME NEW r \in Requests, UpsertIssue(r) PROVE TypeOK'
  <2>1. Upsert(r, IssueOf[r])
    BY <1>4 DEF UpsertIssue
  <2>2. StatusAfter(status[IssueOf[r]]) \in Statuses \cup {"none"}
    BY DEF TypeOK, StatusAfter, Statuses
  <2>3. QED
    BY <1>4, <2>1, <2>2, UpsertType
       DEF TypeOK, UpsertIssue, Goto, rows, config, budgets, Open
<1>5. ASSUME NEW r \in Requests, UpsertService(r) PROVE TypeOK'
  <2>1. Upsert(r, ServiceOf[r])
    BY <1>5 DEF UpsertService
  <2>2. QED
    BY <1>5, <2>1, UpsertType
       DEF TypeOK, UpsertService, Goto, rows, config, budgets, Open
<1>6. ASSUME NEW r \in Requests, InsertEvent(r) PROVE TypeOK'
  BY <1>6 DEF TypeOK, InsertEvent, Goto, rows, config, budgets, Open
<1>7. ASSUME NEW r \in Requests, UpsertRelease(r) PROVE TypeOK'
  <2>1. /\ holder' \in [Lockable -> Requests \cup {None}]
        /\ draft' \in [Requests -> [Keys -> Tally]]
    <3>1. CASE ReleaseOf[r] = None
      BY <1>7, <3>1 DEF UpsertRelease, TypeOK
    <3>2. CASE ReleaseOf[r] # None
      BY <1>7, <3>2, UpsertType DEF UpsertRelease
    <3>3. QED
      BY <3>1, <3>2
  <2>2. QED
    BY <1>7, <2>1 DEF TypeOK, UpsertRelease, Goto, rows, config, budgets, Open
<1>8. ASSUME NEW r \in Requests, MatchRules(r) PROVE TypeOK'
  <2> DEFINE matching == {q \in enabled :
                            r \in Matches[q] /\ Reached(r, q) /\ Rested(r, q)}
  <2>1. matching \in SUBSET Rules
    BY DEF TypeOK
  <2>2. /\ cand' = [cand EXCEPT ![r] = matching]
        /\ pc' = [pc EXCEPT ![r] = IF matching = {} THEN "alerts" ELSE "rules"]
    BY <1>8 DEF MatchRules, Goto
  <2> HIDE DEF matching
  <2>3. QED
    BY <1>8, <2>1, <2>2 DEF TypeOK, MatchRules, rows, config, budgets, Open
<1>9. ASSUME NEW r \in Requests, NEW q \in Rules, LockRule(r, q) PROVE TypeOK'
  <2>1. q \in Lockable
    BY DEF Lockable
  <2>2. /\ cand' \in [Requests -> SUBSET Rules]
        /\ fired' \in [Requests -> SUBSET Rules]
    BY <1>9 DEF LockRule, TypeOK
  <2>3. holder' \in [Lockable -> Requests \cup {None}]
    BY <1>9, <2>1 DEF LockRule, Take, TypeOK
  <2>4. QED
    BY <1>9, <2>2, <2>3 DEF TypeOK, LockRule, Goto, rows, config, budgets, Open
<1>10. ASSUME NEW r \in Requests, RaiseAlerts(r) PROVE TypeOK'
  <2>1. CASE fired[r] \subseteq reachable
    BY <1>10, <2>1 DEF TypeOK, RaiseAlerts, Goto, rows, config, locals, budgets, Open
  <2>2. CASE ~(fired[r] \subseteq reachable)
    <3>1. End(r, "refused") /\ UNCHANGED <<rows, budgets>>
      BY <1>10, <2>2 DEF RaiseAlerts
    <3>2. QED
      BY <3>1, EndType DEF TypeOK, rows, budgets, Closed
  <2>3. QED
    BY <2>1, <2>2
<1>11. ASSUME NEW r \in Requests, Commit(r) PROVE TypeOK'
  <2>1. End(r, "accepted") /\ "accepted" \in Closed
    BY <1>11 DEF Commit, Closed
  <2>2. stored' \in [Events -> Requests \cup {None}]
    BY <1>11 DEF Commit, TypeOK
  <2>3. tally' \in [Keys -> Tally]
    BY <1>11 DEF Commit, TypeOK
  <2>4. status' \in [Issues -> Statuses \cup {"none"}] /\ queued' \in SUBSET Events
    BY <1>11 DEF Commit, TypeOK
  <2>5. last' \in [Rules -> -1..MaxNow]
    <3>1. start[r] \in -1..MaxNow
      BY IngestAssumption DEF TypeOK
    <3>2. QED
      BY <1>11, <3>1 DEF Commit, TypeOK
  <2>6. alerts' \in SUBSET [rule : Rules, by : Requests, time : 0..MaxNow]
    BY <1>11 DEF Commit, TypeOK
  <2>7. UNCHANGED budgets
    BY <1>11 DEF Commit
  <2>8. QED
    BY <2>1, <2>2, <2>3, <2>4, <2>5, <2>6, <2>7, EndType DEF TypeOK, budgets
<1>12. ASSUME NEW r \in Requests, Lose(r) PROVE TypeOK'
  BY <1>12, EndType DEF TypeOK, Lose, rows, Closed
<1>13. ASSUME NEW r \in Requests, DeadlockVictim(r) PROVE TypeOK'
  BY <1>13, EndType DEF TypeOK, DeadlockVictim, rows, budgets, Closed
<1>14. ASSUME NEW r \in Requests, Resend(r) PROVE TypeOK'
  BY <1>14 DEF TypeOK, Resend, Goto, rows, config, locals, budgets
<1>15. ASSUME NEW i \in Issues, NEW s \in Statuses, SetStatus(i, s) PROVE TypeOK'
  BY <1>15 DEF TypeOK, SetStatus, config, locals, budgets
<1>16. ASSUME NEW q \in Rules, EditRule(q) PROVE TypeOK'
  BY <1>16 DEF TypeOK, EditRule, rows, locals
<1>17. ASSUME NEW q \in Rules, EditRoster(q) PROVE TypeOK'
  BY <1>17 DEF TypeOK, EditRoster, rows, locals
<1>18. CASE Tick
  BY <1>18, IngestAssumption DEF TypeOK, Tick, rows, config, locals
<1>19. CASE UNCHANGED vars
  BY <1>19 DEF TypeOK, vars, rows, config, locals, budgets
<1>20. QED
  BY <1>1, <1>2, <1>3, <1>4, <1>5, <1>6, <1>7, <1>8, <1>9, <1>10, <1>11, <1>12,
     <1>13, <1>14, <1>15, <1>16, <1>17, <1>18, <1>19 DEF Next, Serve

\* Every variable keeps its type.
THEOREM IngestTyped == Spec => []TypeOK
  BY TypeInit, TypeStep, PTL DEF Spec

-----------------------------------------------------------------------------
(* RowInv: what a transaction holds and has written. *)

\* The locals of request t are as they were, and it keeps its locks.
Kept(t) ==
    /\ pc'[t] = pc[t] /\ start'[t] = start[t] /\ draft'[t] = draft[t]
    /\ reopened'[t] = reopened[t] /\ fired'[t] = fired[t]
    /\ t \in inserted' <=> t \in inserted
    /\ \A x \in Lockable : holder[x] = t => holder'[x] = t

\* The rows that request t has locked are as they were.
RowsKept(t) ==
    /\ holder[EventOf[t]] = t => stored'[EventOf[t]] = stored[EventOf[t]]
    /\ \A k \in Keys : holder[k] = t => tally'[k] = tally[k]
    /\ \A i \in Issues : holder[i] = t => status'[i] = status[i]
    /\ \A q \in Rules : holder[q] = t => /\ last'[q] = last[q]
                                         /\ q \in enabled => q \in enabled'

\* A request that keeps its locals, its locks and its locked rows keeps its
\* invariant.
LEMMA RowFrame ==
    ASSUME NEW t \in Requests, TypeOK, RowInv(t), Kept(t), RowsKept(t)
    PROVE  RowInv(t)'
<1> USE RequestTypes
<1>1. /\ pc'[t] \in AfterAdvisory => holder'[EventOf[t]] = t
      /\ pc'[t] \in AfterLookup => stored'[EventOf[t]] = None
  BY DEF RowInv, Kept, RowsKept, AfterAdvisory
<1>2. ASSUME NEW k \in Keys, Written(t, k) PROVE Written(t, k)'
  <2>1. k \in Lockable
    BY DEF Lockable
  <2>2. holder'[k] = t /\ tally'[k] = tally[k] /\ draft'[t] = draft[t]
    BY <1>2, <2>1 DEF Written, Kept, RowsKept
  <2>3. QED
    BY <1>2, <2>2 DEF Written
<1>3. pc'[t] \in AfterIssue => /\ Written(t, IssueOf[t])'
                               /\ reopened'[t] = StatusAfter(status'[IssueOf[t]])
  <2> SUFFICES ASSUME pc[t] \in AfterIssue
               PROVE  /\ Written(t, IssueOf[t])'
                      /\ reopened'[t] = StatusAfter(status'[IssueOf[t]])
    BY DEF Kept
  <2>1. Written(t, IssueOf[t]) /\ reopened[t] = StatusAfter(status[IssueOf[t]])
    BY DEF RowInv
  <2>2. status'[IssueOf[t]] = status[IssueOf[t]]
    BY <2>1 DEF Written, RowsKept
  <2>3. QED
    BY <1>2, <2>1, <2>2 DEF Kept
<1>4. pc'[t] \in AfterService => Written(t, ServiceOf[t])'
  BY <1>2 DEF RowInv, Kept
<1>5. t \in inserted' <=> pc'[t] \in AfterInsert
  BY DEF RowInv, Kept
<1>6. pc'[t] \in AfterRelease /\ ReleaseOf[t] # None => Written(t, ReleaseOf[t])'
  BY <1>2 DEF RowInv, Kept
<1>7. ASSUME NEW q \in fired'[t]
      PROVE  /\ holder'[q] = t
             /\ q \in enabled'
             /\ Rested(t, q)'
  <2>1. q \in fired[t] /\ q \in Rules /\ q \in Lockable
    BY <1>7 DEF Kept, TypeOK, Lockable
  <2>2. holder[q] = t /\ q \in enabled /\ Rested(t, q)
    BY <2>1 DEF RowInv
  <2>3. last'[q] = last[q] /\ start'[t] = start[t] /\ q \in enabled' /\ holder'[q] = t
    BY <2>1, <2>2 DEF Kept, RowsKept
  <2>4. QED
    BY <2>2, <2>3 DEF Rested
<1>8. fired'[t] # {} => pc'[t] \in {"rules", "alerts", "commit"}
  BY DEF RowInv, Kept
<1>9. QED
  BY <1>1, <1>3, <1>4, <1>5, <1>6, <1>7, <1>8 DEF RowInv

\* A step that publishes nothing and edits no rule keeps every locked row.
LEMMA QuietRows ==
    ASSUME NEW t \in Requests, UNCHANGED <<stored, tally, status, last, enabled>>
    PROVE  RowsKept(t)
  BY DEF RowsKept

\* A transaction that is not open satisfies its invariant.
LEMMA IdleRow ==
    ASSUME NEW t \in Requests, pc[t] \notin AfterAdvisory,
           t \notin inserted, fired[t] = {}
    PROVE  RowInv(t)
  BY DEF RowInv, AfterAdvisory, AfterLookup, AfterIssue, AfterService,
         AfterInsert, AfterRelease

\* The end of a transaction leaves nothing of it, and nothing else changed.
LEMMA EndEffect ==
    ASSUME TypeOK, NEW r \in Requests, NEW answer \in Closed, End(r, answer)
    PROVE  /\ RowInv(r)'
           /\ \A t \in Requests \ {r} : Kept(t)
<1>1. pc'[r] = answer /\ r \notin inserted' /\ fired'[r] = {}
  BY DEF End, Goto, TypeOK
<1>2. RowInv(r)'
  BY <1>1 DEF RowInv, AfterAdvisory, AfterLookup, AfterIssue, AfterService,
              AfterInsert, AfterRelease, Closed
<1>3. ASSUME NEW t \in Requests \ {r} PROVE Kept(t)
  BY <1>3 DEF End, Goto, TypeOK, Kept, Released
<1>4. QED
  BY <1>2, <1>3

\* A lock that is granted takes no lock from anybody.
LEMMA TakeKeeps ==
    ASSUME TypeOK, NEW r \in Requests, NEW x \in Lockable, Take(r, x)
    PROVE  /\ holder'[x] = r
           /\ \A y \in Lockable : holder[y] # None => holder'[y] = holder[y]
  BY DEF TypeOK, Take, Free

\* An upsert leaves its transaction one event ahead of the row.
LEMMA UpsertEffect ==
    ASSUME TypeOK, NEW r \in Requests, NEW k \in Keys, Upsert(r, k),
           UNCHANGED tally
    PROVE  /\ Written(r, k)'
           /\ \A j \in Keys : Written(r, j) => Written(r, j)'
           /\ \A x \in Lockable : holder[x] # None => holder'[x] = holder[x]
           /\ \A t \in Requests \ {r} : draft'[t] = draft[t]
<1> r # None
  BY IngestAssumption
<1>1. k \in Lockable
  BY DEF Lockable
<1>2. /\ holder'[k] = r
      /\ \A x \in Lockable : holder[x] # None => holder'[x] = holder[x]
  BY <1>1, TakeKeeps DEF Upsert
<1>3. draft'[r] = [draft[r] EXCEPT ![k] = Counted(tally[k], At[r])]
  BY DEF Upsert, TypeOK
<1>4. draft[r] \in [Keys -> Tally] /\ draft'[r] \in [Keys -> Tally]
  BY UpsertType DEF TypeOK
<1>5. Written(r, k)'
  BY <1>2, <1>3, <1>4 DEF Written
<1>6. ASSUME NEW j \in Keys, Written(r, j) PROVE Written(r, j)'
  <2>1. j \in Lockable /\ holder[j] = r /\ holder[k] = None
    BY <1>6 DEF Written, Lockable, Upsert, Take, Free
  <2>2. j # k
    BY <2>1
  <2>3. draft'[r][j] = draft[r][j] /\ holder'[j] = r
    BY <1>2, <1>3, <1>4, <2>1, <2>2
  <2>4. QED
    BY <1>6, <2>3 DEF Written
<1>7. \A t \in Requests \ {r} : draft'[t] = draft[t]
  BY DEF Upsert, TypeOK
<1>8. QED
  BY <1>2, <1>5, <1>6, <1>7

\* It suffices to look at the request that steps, if the others keep their
\* locals and the rows they have locked.
LEMMA OneSteps ==
    ASSUME TypeOK, RowsInv, NEW r \in Requests, RowInv(r)',
           \A t \in Requests \ {r} : Kept(t) /\ RowsKept(t)
    PROVE  RowsInv'
<1>1. ASSUME NEW t \in Requests \ {r} PROVE RowInv(t)'
  BY <1>1, RowFrame DEF RowsInv
<1>2. QED
  BY <1>1 DEF RowsInv

\* Before its first upsert a transaction has written nothing, and it owns no
\* rule until it has matched them.
LEMMA RowAtPlace ==
    ASSUME NEW r \in Requests, RowInv(r)
    PROVE  /\ pc[r] \notin AfterInsert => r \notin inserted
           /\ pc[r] \notin {"rules", "alerts", "commit"} => fired[r] = {}
  BY DEF RowInv

\* BEGIN, the advisory lock and the lookup establish the first two parts.
LEMMA RowsOpening ==
    ASSUME TypeOK, RowsInv, NEW r \in Requests,
           Begin(r) \/ Serialize(r) \/ Lookup(r)
    PROVE  RowsInv'
<1> USE RequestTypes
<1>0. RowInv(r)
  BY DEF RowsInv
<1>1. CASE Begin(r)
  <2>1. pc'[r] = "advisory" /\ r \notin inserted' /\ fired'[r] = {}
    BY <1>0, <1>1, RowAtPlace DEF Begin, Goto, locals, TypeOK, AfterInsert, AfterRelease
  <2>2. RowInv(r)'
    BY <2>1 DEF RowInv, AfterAdvisory, AfterLookup, AfterIssue, AfterService,
                AfterInsert, AfterRelease
  <2>3. ASSUME NEW t \in Requests \ {r} PROVE Kept(t) /\ RowsKept(t)
    BY <1>1, <2>3 DEF Begin, Goto, locals, rows, config, TypeOK, Kept, RowsKept
  <2>4. QED
    BY <2>2, <2>3, OneSteps
<1>2. CASE Serialize(r)
  <2>1. pc'[r] = "lookup" /\ r \notin inserted' /\ fired'[r] = {}
    BY <1>0, <1>2, RowAtPlace DEF Serialize, Goto, locals, TypeOK, AfterInsert, AfterRelease
  <2>2. holder'[EventOf[r]] = r
    BY <1>2, TakeKeeps DEF Serialize
  <2>3. RowInv(r)'
    BY <2>1, <2>2 DEF RowInv, AfterAdvisory, AfterLookup, AfterIssue,
                      AfterService, AfterInsert, AfterRelease
  <2>4. ASSUME NEW t \in Requests \ {r} PROVE Kept(t) /\ RowsKept(t)
    <3>1. \A y \in Lockable : holder[y] # None => holder'[y] = holder[y]
      BY <1>2, TakeKeeps DEF Serialize
    <3>2. QED
      BY <1>2, <2>4, <3>1, IngestAssumption
         DEF Serialize, Goto, locals, rows, config, TypeOK, Kept, RowsKept
  <2>5. QED
    BY <2>3, <2>4, OneSteps
<1>3. CASE Lookup(r)
  <2>1. CASE stored[EventOf[r]] = None
    <3>1. pc[r] = "lookup" /\ pc'[r] = "issue" /\ r \notin inserted'
          /\ fired'[r] = {}
      BY <1>0, <1>3, <2>1, RowAtPlace
         DEF Lookup, Goto, locals, TypeOK, AfterInsert, AfterRelease
    <3>2. holder'[EventOf[r]] = r /\ stored'[EventOf[r]] = None
      BY <1>0, <1>3, <2>1, <3>1 DEF Lookup, rows, RowInv, AfterAdvisory
    <3>3. RowInv(r)'
      BY <3>1, <3>2 DEF RowInv, AfterAdvisory, AfterLookup, AfterIssue,
                        AfterService, AfterInsert, AfterRelease
    <3>4. ASSUME NEW t \in Requests \ {r} PROVE Kept(t) /\ RowsKept(t)
      BY <1>3, <2>1, <3>4
         DEF Lookup, Goto, locals, rows, config, TypeOK, Kept, RowsKept
    <3>5. QED
      BY <3>3, <3>4, OneSteps
  <2>2. CASE stored[EventOf[r]] # None
    <3>1. PICK answer \in Closed : End(r, answer)
      BY <1>3, <2>2 DEF Lookup, Closed
    <3>2. RowInv(r)' /\ \A t \in Requests \ {r} : Kept(t)
      BY <3>1, EndEffect
    <3>3. UNCHANGED <<stored, tally, status, last, enabled>>
      BY <1>3, <3>1 DEF Lookup, rows, End, config
    <3>4. QED
      BY <3>2, <3>3, QuietRows, OneSteps
  <2>3. QED
    BY <2>1, <2>2
<1>4. QED
  BY <1>1, <1>2, <1>3

\* What RowInv says up to the upsert of the issue, so that a step that only
\* adds to it can refer to it.
LEMMA RowParts ==
    ASSUME NEW r \in Requests, RowInv(r)
    PROVE  /\ pc[r] \in AfterLookup =>
                 holder[EventOf[r]] = r /\ stored[EventOf[r]] = None
           /\ pc[r] \in AfterIssue =>
                 /\ Written(r, IssueOf[r])
                 /\ reopened[r] = StatusAfter(status[IssueOf[r]])
           /\ pc[r] \in AfterService => Written(r, ServiceOf[r])
           /\ r \in inserted <=> pc[r] \in AfterInsert
           /\ pc[r] \in AfterRelease /\ ReleaseOf[r] # None =>
                 Written(r, ReleaseOf[r])
  BY DEF RowInv, AfterAdvisory

\* The four statements that write rows extend the draft and its locks.
LEMMA RowsWriting ==
    ASSUME TypeOK, RowsInv, NEW r \in Requests,
           UpsertIssue(r) \/ UpsertService(r) \/ InsertEvent(r) \/ UpsertRelease(r)
    PROVE  RowsInv'
<1> USE RequestTypes
<1>0. RowInv(r) /\ r # None
  BY IngestAssumption DEF RowsInv
<1>1. CASE UpsertIssue(r)
  <2>1. /\ pc[r] = "issue" /\ pc'[r] = "service"
        /\ r \notin inserted' /\ fired'[r] = {}
        /\ reopened'[r] = StatusAfter(status'[IssueOf[r]])
    BY <1>0, <1>1, RowAtPlace
       DEF UpsertIssue, Goto, rows, TypeOK, AfterInsert, AfterRelease
  <2>2. Upsert(r, IssueOf[r]) /\ UNCHANGED <<stored, tally, status, last, enabled>>
    BY <1>1 DEF UpsertIssue, rows, config
  <2>3. /\ Written(r, IssueOf[r])'
        /\ \A x \in Lockable : holder[x] # None => holder'[x] = holder[x]
        /\ \A t \in Requests \ {r} : draft'[t] = draft[t]
    BY <2>2, UpsertEffect
  <2>4. holder'[EventOf[r]] = r /\ stored'[EventOf[r]] = None
    BY <1>0, <2>1, <2>2, <2>3, RowParts DEF AfterLookup, AfterIssue
  <2>5. RowInv(r)'
    BY <2>1, <2>3, <2>4 DEF RowInv, AfterAdvisory, AfterLookup, AfterIssue,
                            AfterService, AfterInsert, AfterRelease
  <2>6. ASSUME NEW t \in Requests \ {r} PROVE Kept(t) /\ RowsKept(t)
    <3>1. Kept(t)
      BY <1>1, <2>3, <2>6, IngestAssumption DEF UpsertIssue, Goto, TypeOK, Kept
    <3>2. QED
      BY <2>2, <3>1, QuietRows
  <2>7. QED
    BY <2>5, <2>6, OneSteps
<1>2. CASE UpsertService(r)
  <2>1. /\ pc[r] = "service" /\ pc'[r] = "event"
        /\ r \notin inserted' /\ fired'[r] = {} /\ reopened'[r] = reopened[r]
    BY <1>0, <1>2, RowAtPlace
       DEF UpsertService, Goto, rows, TypeOK, AfterInsert, AfterRelease
  <2>2. Upsert(r, ServiceOf[r]) /\ UNCHANGED <<stored, tally, status, last, enabled>>
    BY <1>2 DEF UpsertService, rows, config
  <2>3. /\ Written(r, ServiceOf[r])'
        /\ Written(r, IssueOf[r]) => Written(r, IssueOf[r])'
        /\ \A x \in Lockable : holder[x] # None => holder'[x] = holder[x]
        /\ \A t \in Requests \ {r} : draft'[t] = draft[t]
    BY <2>2, UpsertEffect
  <2>4. /\ holder[EventOf[r]] = r /\ stored[EventOf[r]] = None
        /\ Written(r, IssueOf[r]) /\ reopened[r] = StatusAfter(status[IssueOf[r]])
    BY <1>0, <2>1, RowParts DEF AfterLookup, AfterIssue
  <2>5. RowInv(r)'
    BY <1>0, <2>1, <2>2, <2>3, <2>4
       DEF RowInv, AfterAdvisory, AfterLookup, AfterIssue,
           AfterService, AfterInsert, AfterRelease
  <2>6. ASSUME NEW t \in Requests \ {r} PROVE Kept(t) /\ RowsKept(t)
    <3>1. Kept(t)
      BY <1>2, <2>3, <2>6, IngestAssumption DEF UpsertService, Goto, TypeOK, Kept
    <3>2. QED
      BY <2>2, <3>1, QuietRows
  <2>7. QED
    BY <2>5, <2>6, OneSteps
<1>3. CASE InsertEvent(r)
  <2>1. /\ pc[r] = "event" /\ pc'[r] = "release" /\ fired'[r] = {}
        /\ reopened'[r] = reopened[r]
    BY <1>0, <1>3, RowAtPlace DEF InsertEvent, Goto, TypeOK
  <2>2. UNCHANGED <<stored, tally, status, last, enabled, holder, draft>>
    BY <1>3 DEF InsertEvent, rows, config
  <2>3. /\ holder[EventOf[r]] = r /\ stored[EventOf[r]] = None
        /\ Written(r, IssueOf[r]) /\ reopened[r] = StatusAfter(status[IssueOf[r]])
        /\ Written(r, ServiceOf[r])
    BY <1>0, <2>1, RowParts DEF AfterLookup, AfterIssue, AfterService
  <2>4. r \in inserted'
    BY <1>3, <2>3 DEF InsertEvent
  <2>5. Written(r, IssueOf[r])' /\ Written(r, ServiceOf[r])'
    BY <2>2, <2>3 DEF Written
  <2>6. RowInv(r)'
    BY <2>1, <2>2, <2>3, <2>4, <2>5
       DEF RowInv, AfterAdvisory, AfterLookup, AfterIssue,
           AfterService, AfterInsert, AfterRelease
  <2>7. ASSUME NEW t \in Requests \ {r} PROVE Kept(t) /\ RowsKept(t)
    <3>1. Kept(t)
      BY <1>3, <2>7 DEF InsertEvent, Goto, TypeOK, Kept
    <3>2. QED
      BY <2>2, <3>1, QuietRows
  <2>8. QED
    BY <2>6, <2>7, OneSteps
<1>4. CASE UpsertRelease(r)
  <2>1. /\ pc[r] = "release" /\ pc'[r] = "match" /\ fired'[r] = {}
        /\ reopened'[r] = reopened[r] /\ r \in inserted'
    <3>1. pc[r] = "release" /\ inserted' = inserted /\ fired' = fired
      BY <1>4 DEF UpsertRelease
    <3>2. r \in inserted /\ fired[r] = {}
      BY <1>0, <3>1, RowAtPlace, RowParts DEF AfterInsert
    <3>3. QED
      BY <1>4, <3>1, <3>2 DEF UpsertRelease, Goto, TypeOK
  <2>2. UNCHANGED <<stored, tally, status, last, enabled>>
    BY <1>4 DEF UpsertRelease, rows, config
  <2>3. /\ holder[EventOf[r]] = r /\ stored[EventOf[r]] = None
        /\ Written(r, IssueOf[r]) /\ reopened[r] = StatusAfter(status[IssueOf[r]])
        /\ Written(r, ServiceOf[r])
    BY <1>0, <2>1, RowParts DEF AfterLookup, AfterIssue, AfterService, AfterInsert
  <2>4. /\ ReleaseOf[r] # None => Written(r, ReleaseOf[r])'
        /\ Written(r, IssueOf[r])' /\ Written(r, ServiceOf[r])'
        /\ \A x \in Lockable : holder[x] # None => holder'[x] = holder[x]
        /\ \A t \in Requests \ {r} : draft'[t] = draft[t]
    <3>1. CASE ReleaseOf[r] = None
      <4>1. UNCHANGED <<holder, draft, tally>>
        BY <1>4, <2>2, <3>1 DEF UpsertRelease
      <4>2. QED
        BY <2>3, <3>1, <4>1 DEF Written
    <3>2. CASE ReleaseOf[r] # None
      <4>1. Upsert(r, ReleaseOf[r])
        BY <1>4, <3>2 DEF UpsertRelease
      <4>2. QED
        BY <2>2, <2>3, <3>2, <4>1, UpsertEffect
    <3>3. QED
      BY <3>1, <3>2
  <2>5. RowInv(r)'
    BY <1>0, <2>1, <2>2, <2>3, <2>4
       DEF RowInv, AfterAdvisory, AfterLookup, AfterIssue,
           AfterService, AfterInsert, AfterRelease
  <2>6. ASSUME NEW t \in Requests \ {r} PROVE Kept(t) /\ RowsKept(t)
    <3>1. Kept(t)
      BY <1>4, <2>4, <2>6, IngestAssumption DEF UpsertRelease, Goto, TypeOK, Kept
    <3>2. QED
      BY <2>2, <3>1, QuietRows
  <2>7. QED
    BY <2>5, <2>6, OneSteps
<1>5. QED
  BY <1>1, <1>2, <1>3, <1>4

\* A step that only moves an open transaction on, from a place after its
\* last upsert to another, and changes at most its candidates.
LEMMA RowMoves ==
    ASSUME NEW r \in Requests, RowInv(r),
           pc[r] \in AfterRelease, pc'[r] \in {"rules", "alerts", "commit"},
           \A x \in Lockable : holder[x] = r => holder'[x] = r,
           UNCHANGED <<stored, tally, status, last, enabled, start,
                       draft, reopened, inserted>>,
           \A q \in fired'[r] : holder'[q] = r /\ q \in enabled /\ Rested(r, q)
    PROVE  RowInv(r)'
<1> USE RequestTypes
<1>1. /\ holder[EventOf[r]] = r /\ stored[EventOf[r]] = None
      /\ Written(r, IssueOf[r]) /\ reopened[r] = StatusAfter(status[IssueOf[r]])
      /\ Written(r, ServiceOf[r])
      /\ ReleaseOf[r] # None => Written(r, ReleaseOf[r])
      /\ r \in inserted
  BY RowParts DEF AfterLookup, AfterIssue, AfterService, AfterInsert
<1>2. \A k \in Keys : Written(r, k) => Written(r, k)'
  BY DEF Written, Lockable
<1>3. \A q \in fired'[r] : Rested(r, q)'
  BY DEF Rested
<1>4. QED
  BY <1>1, <1>2, <1>3 DEF RowInv, AfterAdvisory, AfterLookup, AfterIssue,
                          AfterService, AfterInsert, AfterRelease

\* The alert evaluation fires rules that it has locked, enabled and rested.
LEMMA RowsMatching ==
    ASSUME TypeOK, RowsInv, NEW r \in Requests,
           \/ MatchRules(r) \/ RaiseAlerts(r)
           \/ \E q \in Rules : LockRule(r, q)
    PROVE  RowsInv'
<1> USE RequestTypes
<1>0. RowInv(r) /\ r # None
  BY IngestAssumption DEF RowsInv
<1>1. CASE MatchRules(r)
  <2>1. /\ pc[r] = "match" /\ pc'[r] \in {"rules", "alerts"}
        /\ UNCHANGED <<stored, tally, status, last, enabled, start,
                       draft, reopened, inserted, holder, fired>>
        /\ \A t \in Requests \ {r} : pc'[t] = pc[t]
    BY <1>1 DEF MatchRules, Goto, rows, config, TypeOK
  <2>2. fired'[r] = {}
    BY <1>0, <2>1, RowAtPlace
  <2>3. RowInv(r)'
    BY <1>0, <2>1, <2>2, RowMoves DEF AfterRelease
  <2>4. ASSUME NEW t \in Requests \ {r} PROVE Kept(t) /\ RowsKept(t)
    BY <2>1, <2>4 DEF Kept, RowsKept
  <2>5. QED
    BY <2>3, <2>4, OneSteps
<1>2. ASSUME NEW q \in Rules, LockRule(r, q) PROVE RowsInv'
  <2>1. /\ pc[r] = "rules" /\ pc'[r] \in {"rules", "alerts"}
        /\ UNCHANGED <<stored, tally, status, last, enabled, start,
                       draft, reopened, inserted>>
        /\ \A t \in Requests \ {r} : pc'[t] = pc[t] /\ fired'[t] = fired[t]
    BY <1>2 DEF LockRule, Goto, rows, config, TypeOK
  <2>2. q \in Lockable
    BY DEF Lockable
  <2>3. /\ holder'[q] = r
        /\ \A x \in Lockable : holder[x] # None => holder'[x] = holder[x]
    BY <1>2, <2>2, TakeKeeps DEF LockRule
  <2>4. ASSUME NEW p \in fired'[r]
        PROVE  holder'[p] = r /\ p \in enabled /\ Rested(r, p)
    <3>1. CASE p \in fired[r]
      <4>1. p \in Lockable /\ holder[p] = r /\ p \in enabled /\ Rested(r, p)
        BY <1>0, <3>1 DEF RowInv, TypeOK, Lockable
      <4>2. QED
        BY <1>0, <2>3, <4>1
    <3>2. CASE p \notin fired[r]
      <4>1. p = q /\ EnabledAndRested(r, q)
        BY <1>2, <2>4, <3>2 DEF LockRule, TypeOK
      <4>2. QED
        BY <2>3, <4>1 DEF EnabledAndRested
    <3>3. QED
      BY <3>1, <3>2
  <2>5. RowInv(r)'
    BY <1>0, <2>1, <2>3, <2>4, RowMoves DEF AfterRelease
  <2>6. ASSUME NEW t \in Requests \ {r} PROVE Kept(t) /\ RowsKept(t)
    BY <2>1, <2>3, <2>6, IngestAssumption DEF Kept, RowsKept
  <2>7. QED
    BY <2>5, <2>6, OneSteps
<1>3. CASE RaiseAlerts(r)
  <2>1. pc[r] = "alerts" /\ UNCHANGED <<stored, tally, status, last>>
    BY <1>3 DEF RaiseAlerts, rows
  <2>2. CASE fired[r] \subseteq reachable
    <3>1. /\ pc'[r] = "commit"
          /\ UNCHANGED <<enabled, start, draft, reopened, inserted, holder, fired>>
          /\ \A t \in Requests \ {r} : pc'[t] = pc[t]
      BY <1>3, <2>2 DEF RaiseAlerts, Goto, config, locals, TypeOK
    <3>2. \A q \in fired'[r] : holder'[q] = r /\ q \in enabled /\ Rested(r, q)
      BY <1>0, <3>1 DEF RowInv
    <3>3. RowInv(r)'
      BY <1>0, <2>1, <3>1, <3>2, RowMoves DEF AfterRelease
    <3>4. ASSUME NEW t \in Requests \ {r} PROVE Kept(t) /\ RowsKept(t)
      BY <2>1, <3>1, <3>4 DEF Kept, RowsKept
    <3>5. QED
      BY <3>3, <3>4, OneSteps
  <2>3. CASE ~(fired[r] \subseteq reachable)
    <3>1. End(r, "refused") /\ "refused" \in Closed
      BY <1>3, <2>3 DEF RaiseAlerts, Closed
    <3>2. RowInv(r)' /\ \A t \in Requests \ {r} : Kept(t)
      BY <3>1, EndEffect
    <3>3. UNCHANGED <<stored, tally, status, last, enabled>>
      BY <2>1, <3>1 DEF End, config
    <3>4. QED
      BY <3>2, <3>3, QuietRows, OneSteps
  <2>4. QED
    BY <2>2, <2>3
<1>4. QED
  BY <1>1, <1>2, <1>3

\* At its commit a transaction holds every row it publishes.
LEMMA CommitHolds ==
    ASSUME TypeOK, RowsInv, NEW r \in Requests, pc[r] = "commit"
    PROVE  /\ r \in inserted /\ r # None
           /\ holder[EventOf[r]] = r /\ stored[EventOf[r]] = None
           /\ \A k \in KeysOf[r] : /\ k \in Keys /\ holder[k] = r
                                   /\ draft[r][k] = Counted(tally[k], At[r])
           /\ holder[IssueOf[r]] = r
           /\ reopened[r] = StatusAfter(status[IssueOf[r]])
           /\ \A q \in fired[r] : /\ q \in Rules /\ holder[q] = r
                                  /\ q \in enabled /\ Rested(r, q)
<1> USE RequestTypes
<1>1. RowInv(r) /\ r # None
  BY IngestAssumption DEF RowsInv
<1>2. /\ holder[EventOf[r]] = r /\ stored[EventOf[r]] = None
      /\ Written(r, IssueOf[r]) /\ reopened[r] = StatusAfter(status[IssueOf[r]])
      /\ Written(r, ServiceOf[r])
      /\ ReleaseOf[r] # None => Written(r, ReleaseOf[r])
      /\ r \in inserted
  BY <1>1, RowParts DEF AfterLookup, AfterIssue, AfterService, AfterInsert, AfterRelease
<1>3. \A q \in fired[r] : /\ q \in Rules /\ holder[q] = r
                         /\ q \in enabled /\ Rested(r, q)
  BY <1>1 DEF RowInv, TypeOK
<1>4. QED
  BY <1>1, <1>2, <1>3 DEF Written

\* A commit changes no row that another transaction holds.
LEMMA RowsCommit ==
    ASSUME TypeOK, RowsInv, NEW r \in Requests, Commit(r)
    PROVE  RowsInv'
<1> USE RequestTypes
<1>1. pc[r] = "commit" /\ End(r, "accepted") /\ "accepted" \in Closed
  BY DEF Commit, Closed
<1>2. RowInv(r)' /\ \A t \in Requests \ {r} : Kept(t)
  BY <1>1, EndEffect
<1>3. ASSUME NEW t \in Requests \ {r} PROVE RowsKept(t)
  <2>1. ASSUME holder[EventOf[t]] = t PROVE stored'[EventOf[t]] = stored[EventOf[t]]
    <3>1. EventOf[t] # EventOf[r]
      BY <1>1, <2>1, CommitHolds
    <3>2. QED
      BY <3>1 DEF Commit, TypeOK
  <2>2. ASSUME NEW k \in Keys, holder[k] = t PROVE tally'[k] = tally[k]
    <3>1. k \notin KeysOf[r]
      BY <1>1, <2>2, CommitHolds
    <3>2. QED
      BY <3>1 DEF Commit
  <2>3. ASSUME NEW i \in Issues, holder[i] = t PROVE status'[i] = status[i]
    <3>1. i # IssueOf[r]
      BY <1>1, <2>3, CommitHolds
    <3>2. QED
      BY <3>1 DEF Commit, TypeOK
  <2>4. ASSUME NEW q \in Rules, holder[q] = t
        PROVE  last'[q] = last[q] /\ (q \in enabled => q \in enabled')
    <3>1. q \notin fired[r]
      BY <1>1, <2>4, CommitHolds
    <3>2. QED
      BY <1>1, <3>1 DEF Commit, End, config
  <2>5. QED
    BY <2>1, <2>2, <2>3, <2>4 DEF RowsKept
<1>4. QED
  BY <1>2, <1>3, OneSteps

\* Losses, deadlock victims and the steps of others disturb no transaction.
LEMMA RowsOthers ==
    ASSUME TypeOK, RowsInv,
           \/ \E r \in Requests : Lose(r) \/ DeadlockVictim(r) \/ Resend(r)
           \/ \E i \in Issues, s \in Statuses : SetStatus(i, s)
           \/ \E q \in Rules : EditRule(q) \/ EditRoster(q)
           \/ Tick
           \/ UNCHANGED vars
    PROVE  RowsInv'
<1> USE RequestTypes, IngestAssumption
<1>0. ASSUME \A t \in Requests : Kept(t) /\ RowsKept(t) PROVE RowsInv'
  BY <1>0, RowFrame DEF RowsInv
<1>1. ASSUME NEW r \in Requests, Lose(r) \/ DeadlockVictim(r) PROVE RowsInv'
  <2>1. End(r, "aborted") /\ "aborted" \in Closed
    BY <1>1 DEF Lose, DeadlockVictim, Closed
  <2>2. UNCHANGED <<stored, tally, status, last, enabled>>
    BY <1>1 DEF Lose, DeadlockVictim, rows, End, config
  <2>3. RowInv(r)' /\ \A t \in Requests \ {r} : Kept(t)
    BY <2>1, EndEffect
  <2>4. QED
    BY <2>2, <2>3, QuietRows, OneSteps
<1>2. ASSUME NEW r \in Requests, Resend(r) PROVE RowsInv'
  <2>1. RowInv(r)
    BY DEF RowsInv
  <2>2. /\ pc[r] = "aborted" /\ pc'[r] = "new"
        /\ UNCHANGED <<stored, tally, status, last, enabled, start, holder,
                       draft, reopened, inserted, fired>>
        /\ \A t \in Requests \ {r} : pc'[t] = pc[t]
    BY <1>2 DEF Resend, Goto, rows, config, locals, TypeOK
  <2>3. r \notin inserted' /\ fired'[r] = {}
    BY <2>1, <2>2, RowAtPlace DEF AfterInsert, AfterRelease
  <2>4. RowInv(r)'
    BY <2>2, <2>3 DEF RowInv, AfterAdvisory, AfterLookup, AfterIssue,
                      AfterService, AfterInsert, AfterRelease
  <2>5. \A t \in Requests \ {r} : Kept(t) /\ RowsKept(t)
    BY <2>2 DEF Kept, RowsKept
  <2>6. QED
    BY <2>4, <2>5, OneSteps
<1>3. ASSUME NEW i \in Issues, NEW s \in Statuses, SetStatus(i, s) PROVE RowsInv'
  <2>1. ASSUME NEW t \in Requests PROVE Kept(t)
    BY <1>3 DEF SetStatus, Kept, locals
  <2>2. ASSUME NEW t \in Requests PROVE RowsKept(t)
    BY <1>3, <2>2 DEF SetStatus, Free, TypeOK, RowsKept, config
  <2>3. QED
    BY <1>0, <2>1, <2>2
<1>4. ASSUME NEW q \in Rules, EditRule(q) PROVE RowsInv'
  <2>1. ASSUME NEW t \in Requests PROVE Kept(t)
    BY <1>4 DEF EditRule, Kept, locals
  <2>2. ASSUME NEW t \in Requests PROVE RowsKept(t)
    BY <1>4, <2>2 DEF EditRule, Free, TypeOK, RowsKept, rows
  <2>3. QED
    BY <1>0, <2>1, <2>2
<1>5. ASSUME NEW q \in Rules, EditRoster(q) PROVE RowsInv'
  BY <1>0, <1>5 DEF EditRoster, rows, locals, Kept, RowsKept
<1>6. CASE Tick
  BY <1>0, <1>6 DEF Tick, rows, config, locals, Kept, RowsKept
<1>7. CASE UNCHANGED vars
  BY <1>0, <1>7 DEF vars, rows, config, locals, Kept, RowsKept
<1>8. QED
  BY <1>1, <1>2, <1>3, <1>4, <1>5, <1>6, <1>7

\* Every step keeps what the open transactions hold and have written.
LEMMA RowsStep == TypeOK /\ RowsInv /\ [Next]_vars => RowsInv'
  BY RowsOpening, RowsWriting, RowsMatching, RowsCommit, RowsOthers DEF Next, Serve

\* No transaction is open at first.
LEMMA RowsInit == Init => RowsInv
  BY DEF Init, RowsInv, RowInv, AfterAdvisory, AfterLookup, AfterIssue,
         AfterService, AfterInsert, AfterRelease

-----------------------------------------------------------------------------
(* Commit is the step that publishes. *)

\* Every other step leaves events, counts, jobs and alerts as they are.
LEMMA OnlyCommitPublishes ==
    ASSUME [Next]_vars
    PROVE  \/ \E r \in Requests : Commit(r)
           \/ UNCHANGED <<stored, tally, queued, last, alerts>>
<1>1. ASSUME NEW r \in Requests, Serve(r)
      PROVE  Commit(r) \/ UNCHANGED <<stored, tally, queued, last, alerts>>
  BY <1>1 DEF Serve, Serialize, Lookup, UpsertIssue, UpsertService, InsertEvent,
              UpsertRelease, MatchRules, LockRule, RaiseAlerts, DeadlockVictim, rows
<1>2. QED
  BY <1>1 DEF Next, Begin, Lose, Resend, SetStatus, EditRule, EditRoster, Tick,
              vars, rows

\* What a commit publishes, read from the rows the transaction holds.
LEMMA CommitEffect ==
    ASSUME TypeOK, RowsInv, NEW r \in Requests, Commit(r)
    PROVE  /\ stored[EventOf[r]] = None
           /\ stored' = [stored EXCEPT ![EventOf[r]] = r]
           /\ tally' = [k \in Keys |-> IF k \in KeysOf[r]
                                      THEN Counted(tally[k], At[r]) ELSE tally[k]]
           /\ status' = [status EXCEPT ![IssueOf[r]] = StatusAfter(@)]
           /\ queued' = IF ReleaseOf[r] = None THEN queued ELSE queued \cup {EventOf[r]}
           /\ last' = [q \in Rules |-> IF q \in fired[r] THEN start[r] ELSE last[q]]
           /\ alerts' = alerts \cup
                 {[rule |-> q, by |-> r, time |-> start[r]] : q \in fired[r]}
           /\ fired[r] \subseteq Rules
           /\ \A q \in fired[r] : q \in enabled /\ Rested(r, q)
           /\ start[r] \in 0..MaxNow
<1> USE RequestTypes
<1>1. pc[r] = "commit"
  BY DEF Commit
<1>2. reopened[r] = StatusAfter(status[IssueOf[r]])
  BY <1>1, CommitHolds
<1>3. status' = [status EXCEPT ![IssueOf[r]] = StatusAfter(@)]
  BY <1>2 DEF Commit, TypeOK
<1>4. tally' = [k \in Keys |-> IF k \in KeysOf[r]
                             THEN Counted(tally[k], At[r]) ELSE tally[k]]
  BY <1>1, CommitHolds DEF Commit
<1>5. stored' = [stored EXCEPT ![EventOf[r]] = r] /\ stored[EventOf[r]] = None
  BY <1>1, CommitHolds DEF Commit
<1>6. /\ fired[r] \subseteq Rules
      /\ \A q \in fired[r] : q \in enabled /\ Rested(r, q)
  BY <1>1, CommitHolds
<1>7. start[r] \in 0..MaxNow
  BY DEF TypeOK
<1>8. QED
  BY <1>3, <1>4, <1>5, <1>6, <1>7 DEF Commit

\* An event that is stored stays stored by the same request.
LEMMA StoredStays ==
    ASSUME TypeOK, RowsInv, NEW r \in Requests, Commit(r),
           NEW e \in Events, stored[e] # None
    PROVE  stored'[e] = stored[e]
  BY CommitEffect, RequestTypes DEF TypeOK

\* A new alert is dated by the commit that raises it, after every earlier
\* alert of its rule.
LEMMA AlertStep ==
    ASSUME TypeOK, RowsInv, AlertInv, AlertedOnce, CooldownKept, [Next]_vars
    PROVE  AlertInv' /\ AlertedOnce' /\ CooldownKept'
<1> USE RequestTypes
<1>1. CASE UNCHANGED <<stored, tally, queued, last, alerts>>
  BY <1>1 DEF AlertInv, AlertedOnce, CooldownKept
<1>2. ASSUME NEW r \in Requests, Commit(r)
      PROVE  AlertInv' /\ AlertedOnce' /\ CooldownKept'
  <2> DEFINE fresh == {[rule |-> q, by |-> r, time |-> start[r]] : q \in fired[r]}
  <2>1. alerts' = alerts \cup fresh
    BY <1>2, CommitEffect
  <2>2. ASSUME NEW a \in fresh
        PROVE  a.rule \in fired[r] /\ a.by = r /\ a.time = start[r]
               /\ a = [rule |-> a.rule, by |-> r, time |-> start[r]]
    BY <2>2
  <2>3. ASSUME NEW a \in alerts
        PROVE  a.rule \in Rules /\ a.by \in Requests /\ a.time \in 0..MaxNow
    BY <2>3 DEF TypeOK
  <2> HIDE DEF fresh
  <2>4. ASSUME NEW q \in fired[r]
        PROVE  /\ q \in Rules /\ last'[q] = start[r] /\ start[r] \in 0..MaxNow
               /\ last[q] \in -1..MaxNow /\ Cooldown[q] \in Nat
               /\ last[q] = -1 \/ last[q] < start[r] - Cooldown[q]
    BY <1>2, <2>4, CommitEffect, IngestAssumption DEF TypeOK, Rested
  <2>5. ASSUME NEW q \in Rules, q \notin fired[r] PROVE last'[q] = last[q]
    BY <1>2, <2>5, CommitEffect
  <2>6. ASSUME NEW a \in alerts
        PROVE  /\ stored'[EventOf[a.by]] = a.by
               /\ a.time <= last'[a.rule]
               /\ a.by # r
    <3>1. stored[EventOf[a.by]] = a.by /\ a.by # None /\ a.time <= last[a.rule]
      BY <2>3, <2>6, IngestAssumption DEF AlertInv
    <3>2. stored'[EventOf[a.by]] = a.by
      BY <1>2, <2>3, <2>6, <3>1, StoredStays
    <3>3. a.by # r
      BY <1>2, <3>1, CommitEffect
    <3>4. a.time <= last'[a.rule]
      <4>1. CASE a.rule \in fired[r]
        BY <2>3, <2>4, <2>6, <3>1, <4>1, IngestAssumption
      <4>2. CASE a.rule \notin fired[r]
        BY <2>3, <2>5, <2>6, <3>1, <4>2
      <4>3. QED
        BY <4>1, <4>2
    <3>5. QED
      BY <3>2, <3>3, <3>4
  <2>7. ASSUME NEW a \in fresh
        PROVE  stored'[EventOf[a.by]] = a.by /\ a.time <= last'[a.rule]
    <3>1. stored'[EventOf[r]] = r
      BY <1>2, CommitEffect DEF TypeOK
    <3>2. QED
      BY <2>2, <2>4, <2>7, <3>1, IngestAssumption
  <2>8. ASSUME NEW q \in Rules, last'[q] = -1, NEW a \in alerts'
        PROVE  a.rule # q
    <3>1. q \notin fired[r]
      BY <2>4, <2>8, IngestAssumption
    <3>2. last[q] = -1
      BY <2>5, <2>8, <3>1
    <3>3. QED
      BY <2>1, <2>2, <2>8, <3>1, <3>2 DEF AlertInv
  <2>9. AlertInv'
    BY <2>1, <2>6, <2>7, <2>8 DEF AlertInv
  <2>10. AlertedOnce'
    <3>1. \A a, b \in alerts' : a.rule = b.rule /\ a.by = b.by => a = b
      BY <2>1, <2>2, <2>6 DEF AlertedOnce
    <3>2. QED
      BY <2>9, <3>1 DEF AlertedOnce, AlertInv
  <2>11. ASSUME NEW a \in alerts, NEW b \in fresh, a.rule = b.rule
         PROVE  b.time - a.time > Cooldown[a.rule]
    <3>1. a.rule \in fired[r] /\ b.time = start[r] /\ last[a.rule] # -1
          /\ a.time <= last[a.rule]
      BY <2>2, <2>3, <2>11 DEF AlertInv
    <3>2. QED
      BY <2>3, <2>4, <2>11, <3>1, IngestAssumption
  <2>12. ASSUME NEW a \in alerts', NEW b \in alerts', a.rule = b.rule, a # b
         PROVE  a.time - b.time > Cooldown[a.rule] \/ b.time - a.time > Cooldown[a.rule]
    <3>1. CASE a \in alerts /\ b \in alerts
      BY <2>12, <3>1 DEF CooldownKept
    <3>2. CASE a \in fresh /\ b \in fresh
      BY <2>2, <2>12, <3>2
    <3>3. CASE a \in alerts /\ b \in fresh
      BY <2>11, <2>12, <3>3
    <3>4. CASE a \in fresh /\ b \in alerts
      BY <2>11, <2>12, <3>4
    <3>5. QED
      BY <2>1, <3>1, <3>2, <3>3, <3>4
  <2>13. CooldownKept'
    BY <2>12 DEF CooldownKept
  <2>14. QED
    BY <2>9, <2>10, <2>13
<1>3. QED
  BY <1>1, <1>2, OnlyCommitPublishes

\* A commit stores an event under its own id and queues it if it has a
\* release; an answer is given only once that is done.
LEMMA StoreStep ==
    ASSUME TypeOK, RowsInv, StoredInv, AcceptedIsStored, [Next]_vars
    PROVE  StoredInv' /\ AcceptedIsStored'
<1> USE RequestTypes
<1>1. CASE UNCHANGED <<stored, tally, queued, last, alerts>>
  <2>1. StoredInv'
    BY <1>1 DEF StoredInv
  <2>2. ASSUME NEW t \in Requests, pc'[t] = "accepted", pc[t] # "accepted"
        PROVE  /\ stored[EventOf[t]] # None
               /\ ProjectOf[stored[EventOf[t]]] = ProjectOf[t]
    <3>1. ASSUME NEW r \in Requests, Begin(r) \/ Serve(r) \/ Lose(r) \/ Resend(r)
          PROVE  (Lookup(r) /\ t = r) \/ Commit(r)
      <4>1. CASE Begin(r) \/ Lose(r) \/ Resend(r) \/ DeadlockVictim(r)
        BY <2>2, <4>1 DEF Begin, Lose, Resend, DeadlockVictim, End, Goto, TypeOK
      <4>2. CASE Serialize(r) \/ UpsertIssue(r) \/ UpsertService(r)
                 \/ InsertEvent(r) \/ UpsertRelease(r) \/ MatchRules(r)
        BY <2>2, <4>2 DEF Serialize, UpsertIssue, UpsertService, InsertEvent,
                          UpsertRelease, MatchRules, Goto, TypeOK
      <4>3. CASE Lookup(r)
        BY <2>2, <4>3 DEF Lookup, End, Goto, TypeOK
      <4>4. CASE RaiseAlerts(r)
        BY <2>2, <4>4 DEF RaiseAlerts, End, Goto, TypeOK
      <4>5. ASSUME NEW q \in Rules, LockRule(r, q) PROVE FALSE
        BY <2>2, <4>5 DEF LockRule, Goto, TypeOK
      <4>6. QED
        BY <3>1, <4>1, <4>2, <4>3, <4>4, <4>5 DEF Serve
    <3>2. ASSUME NEW r \in Requests, Commit(r) PROVE FALSE
      <4>1. stored[EventOf[r]] = None /\ stored'[EventOf[r]] = r
        BY <3>2, CommitEffect DEF TypeOK
      <4>2. QED
        BY <1>1, <4>1, IngestAssumption
    <3>3. pc' # pc
      BY <2>2
    <3>4. Lookup(t)
      BY <3>1, <3>2, <3>3
         DEF Next, SetStatus, EditRule, EditRoster, Tick, vars
    <3>5. stored[EventOf[t]] # None
      BY <2>2, <3>4 DEF Lookup, Goto, TypeOK
    <3>6. SameProject(t)
      BY <2>2, <3>4, <3>5 DEF Lookup, End, Goto, TypeOK
    <3>7. QED
      BY <3>5, <3>6 DEF SameProject
  <2>3. AcceptedIsStored'
    BY <1>1, <2>2 DEF AcceptedIsStored, StoredInv
  <2>4. QED
    BY <2>1, <2>3
<1>2. ASSUME NEW r \in Requests, Commit(r)
      PROVE  StoredInv' /\ AcceptedIsStored'
  <2>1. /\ stored[EventOf[r]] = None
        /\ stored' = [stored EXCEPT ![EventOf[r]] = r]
        /\ queued' = IF ReleaseOf[r] = None THEN queued ELSE queued \cup {EventOf[r]}
    BY <1>2, CommitEffect
  <2>2. StoredInv'
    BY <2>1 DEF StoredInv, TypeOK
  <2>3. ASSUME NEW t \in Requests, pc'[t] = "accepted"
        PROVE  /\ stored'[EventOf[t]] # None
               /\ ProjectOf[stored'[EventOf[t]]] = ProjectOf[t]
    <3>1. CASE t = r
      BY <2>1, <3>1, IngestAssumption DEF TypeOK
    <3>2. CASE t # r
      <4>1. pc[t] = "accepted"
        BY <1>2, <2>3, <3>2 DEF Commit, End, Goto, TypeOK
      <4>2. /\ stored[EventOf[t]] # None
            /\ ProjectOf[stored[EventOf[t]]] = ProjectOf[t]
        BY <4>1 DEF AcceptedIsStored
      <4>3. stored'[EventOf[t]] = stored[EventOf[t]]
        BY <1>2, <4>2, StoredStays
      <4>4. QED
        BY <4>2, <4>3
    <3>3. QED
      BY <3>1, <3>2
  <2>4. AcceptedIsStored'
    BY <2>2, <2>3 DEF AcceptedIsStored, StoredInv
  <2>5. QED
    BY <2>2, <2>4
<1>3. QED
  BY <1>1, <1>2, OnlyCommitPublishes

\* The stored events that key k counts.
Members(k) == {e \in Events : stored[e] # None /\ k \in KeysOf[stored[e]]}

\* AggregatesAgree, key by key.
LEMMA AggregatesByKey ==
    AggregatesAgree <=>
      \A k \in Keys :
        /\ tally[k].count = Cardinality(Members(k))
        /\ \A e \in Members(k) : /\ tally[k].first <= At[stored[e]]
                                 /\ At[stored[e]] <= tally[k].last
        /\ Members(k) # {} =>
             \E d, e \in Members(k) : /\ tally[k].first = At[stored[d]]
                                     /\ tally[k].last = At[stored[e]]
  BY DEF AggregatesAgree, Members

\* A commit adds its event to the three keys that count it, and to no other.
LEMMA AggregatesStep ==
    ASSUME TypeOK, RowsInv, AggregatesAgree, [Next]_vars
    PROVE  AggregatesAgree'
<1> USE RequestTypes
<1>1. CASE UNCHANGED <<stored, tally, queued, last, alerts>>
  BY <1>1 DEF AggregatesAgree
<1>2. ASSUME NEW r \in Requests, Commit(r) PROVE AggregatesAgree'
  <2>1. /\ stored[EventOf[r]] = None
        /\ stored' = [stored EXCEPT ![EventOf[r]] = r]
        /\ tally' = [k \in Keys |-> IF k \in KeysOf[r]
                                   THEN Counted(tally[k], At[r]) ELSE tally[k]]
        /\ r # None
    BY <1>2, CommitEffect, IngestAssumption
  <2>2. stored'[EventOf[r]] = r /\ \A e \in Events \ {EventOf[r]} : stored'[e] = stored[e]
    BY <2>1 DEF TypeOK
  <2> SUFFICES ASSUME NEW k \in Keys
               PROVE  /\ tally'[k].count = Cardinality(Members(k)')
                      /\ \A e \in Members(k)' : /\ tally'[k].first <= At[stored'[e]]
                                                /\ At[stored'[e]] <= tally'[k].last
                      /\ Members(k)' # {} =>
                           \E d, e \in Members(k)' : /\ tally'[k].first = At[stored'[d]]
                                                    /\ tally'[k].last = At[stored'[e]]
    BY DEF AggregatesAgree, Members
  <2>3. /\ tally[k].count = Cardinality(Members(k))
        /\ \A e \in Members(k) : /\ tally[k].first <= At[stored[e]]
                                 /\ At[stored[e]] <= tally[k].last
        /\ Members(k) # {} =>
             \E d, e \in Members(k) : /\ tally[k].first = At[stored[d]]
                                     /\ tally[k].last = At[stored[e]]
    BY AggregatesByKey
  <2>4. /\ Members(k) \subseteq Events \ {EventOf[r]}
        /\ \A e \in Members(k) : stored'[e] = stored[e]
    BY <2>1, <2>2 DEF Members
  <2>5. IsFiniteSet(Members(k))
    BY IngestAssumption, FS_Subset DEF Members
  <2>6. CASE k \notin KeysOf[r]
    <3>1. Members(k)' = Members(k) /\ tally'[k] = tally[k]
      BY <2>1, <2>2, <2>6 DEF Members
    <3>2. QED
      BY <2>3, <2>4, <3>1
  <2>7. CASE k \in KeysOf[r]
    <3>1. Members(k)' = Members(k) \cup {EventOf[r]}
      BY <2>1, <2>2, <2>7 DEF Members
    <3>2. tally'[k] = Counted(tally[k], At[r])
      BY <2>1, <2>7
    <3>3. Cardinality(Members(k)') = tally[k].count + 1
      <4>1. EventOf[r] \notin Members(k)
        BY <2>4
      <4>2. Cardinality(Members(k) \cup {EventOf[r]}) = Cardinality(Members(k)) + 1
        BY <2>5, <4>1, FS_AddElement
      <4>3. QED
        BY <2>3, <3>1, <4>2
    <3>4. tally[k] \in Tally /\ \A e \in Members(k) : At[stored[e]] \in Int
      BY IngestAssumption DEF TypeOK, Members
    <3>5. tally[k].count = 0 <=> Members(k) = {}
      BY <2>3, <2>5, FS_EmptySet
    <3>6. tally'[k].count = Cardinality(Members(k)')
      BY <3>2, <3>3 DEF Counted
    <3>7. CASE Members(k) = {}
      <4>1. Members(k)' = {EventOf[r]} /\ tally'[k].first = At[r] /\ tally'[k].last = At[r]
        BY <3>1, <3>2, <3>5, <3>7 DEF Counted
      <4>2. QED
        BY <2>2, <3>6, <4>1
    <3>8. CASE Members(k) # {}
      <4>1. tally[k].count # 0
        BY <3>5, <3>8
      <4>2. /\ tally'[k].first = IF At[r] < tally[k].first THEN At[r] ELSE tally[k].first
            /\ tally'[k].last = IF At[r] > tally[k].last THEN At[r] ELSE tally[k].last
        BY <3>2, <4>1 DEF Counted
      <4>3. /\ tally[k].first \in Int /\ tally[k].last \in Int
            /\ tally'[k].first <= tally[k].first /\ tally'[k].first <= At[r]
            /\ tally[k].last <= tally'[k].last /\ At[r] <= tally'[k].last
        BY <3>4, <4>2 DEF Tally
      <4>4. ASSUME NEW e \in Members(k)'
            PROVE  tally'[k].first <= At[stored'[e]] /\ At[stored'[e]] <= tally'[k].last
        <5>1. CASE e = EventOf[r]
          BY <2>2, <4>3, <5>1
        <5>2. CASE e \in Members(k)
          <6>1. /\ stored'[e] = stored[e] /\ At[stored[e]] \in Int
                /\ tally[k].first <= At[stored[e]] /\ At[stored[e]] <= tally[k].last
            BY <2>3, <2>4, <3>4, <5>2
          <6>2. QED
            BY <3>4, <4>2, <6>1 DEF Tally
        <5>3. QED
          BY <3>1, <4>4, <5>1, <5>2
      <4>5. PICK d \in Members(k), e \in Members(k) :
              tally[k].first = At[stored[d]] /\ tally[k].last = At[stored[e]]
        BY <2>3, <3>8
      <4>6. \E c \in Members(k)' : tally'[k].first = At[stored'[c]]
        BY <2>2, <2>4, <3>1, <4>2, <4>5
      <4>7. \E c \in Members(k)' : tally'[k].last = At[stored'[c]]
        BY <2>2, <2>4, <3>1, <4>2, <4>5
      <4>8. QED
        BY <3>6, <4>4, <4>6, <4>7
    <3>9. QED
      BY <3>7, <3>8
  <2>8. QED
    BY <2>6, <2>7
<1>3. QED
  BY <1>1, <1>2, OnlyCommitPublishes

-----------------------------------------------------------------------------
(* Nobody waits forever.  CanGoOn says when a step of Serve can be taken. *)

\* What r's next statement locks.
Wanted(r) ==
    CASE pc[r] = "advisory" -> {EventOf[r]}
      [] pc[r] = "issue"    -> {IssueOf[r]}
      [] pc[r] = "service"  -> {ServiceOf[r]}
      [] pc[r] = "release"  -> {ReleaseOf[r]} \ {None}
      [] pc[r] = "rules"    -> cand[r]
      [] OTHER              -> {}

\* The transactions that r waits for.
WaitsFor(r) == {holder[x] : x \in Wanted(r)} \ {None}

\* The guards of the actions of Serve.
CanGoOn(r) ==
    \/ pc[r] \in {"lookup", "match", "alerts", "commit"}
    \/ pc[r] = "event" /\ \A s \in inserted : EventOf[s] # EventOf[r]
    \/ /\ pc[r] \in {"advisory", "issue", "service", "release"}
       /\ \A x \in Wanted(r) : Free(x)
    \/ pc[r] = "rules" /\ \E q \in cand[r] : Free(q)
    \/ Deadlocked(r)

\* Open transactions that wait for nobody outside are not all waiting.
NeverStuck ==
    \A S \in SUBSET {r \in Requests : pc[r] \in Open} :
        S # {} /\ IsFiniteSet(S) /\ (\A r \in S : WaitsFor(r) \subseteq S)
            => \E r \in S : CanGoOn(r)

\* The locks that a transaction has taken by now.
Taken(r) ==
    {x \in Lockable :
        \/ x = EventOf[r]   /\ pc[r] \in AfterAdvisory
        \/ x = IssueOf[r]   /\ pc[r] \in AfterIssue
        \/ x = ServiceOf[r] /\ pc[r] \in AfterService
        \/ x = ReleaseOf[r] /\ x # None /\ pc[r] \in AfterRelease
        \/ x \in Rules      /\ pc[r] \in {"rules", "alerts", "commit"}}

\* Nobody holds a lock that he has not taken yet or has given back, and a
\* transaction at the rules still wants one that it does not hold.
HoldersInv ==
    \A r \in Requests :
        /\ \A x \in Lockable : holder[x] = r => x \in Taken(r)
        /\ \A q \in cand[r] : holder[q] # r
        /\ cand[r] # {} <=> pc[r] = "rules"

\* It suffices to look at the request that steps, if the others lose nothing and
\* are given no lock.
LEMMA OneHolds ==
    ASSUME TypeOK, HoldersInv, NEW r \in Requests,
           pc' = [pc EXCEPT ![r] = pc'[r]], cand' = [cand EXCEPT ![r] = cand'[r]],
           \A x \in Lockable : holder'[x] \in {holder[x], r, None},
           \A x \in Lockable : holder'[x] = r => x \in Taken(r)',
           \A q \in cand'[r] : holder'[q] # r,
           cand'[r] # {} <=> pc'[r] = "rules"
    PROVE  HoldersInv'
<1> SUFFICES ASSUME NEW s \in Requests \ {r}
             PROVE  /\ \A x \in Lockable : holder'[x] = s => x \in Taken(s)'
                    /\ \A q \in cand'[s] : holder'[q] # s
                    /\ cand'[s] # {} <=> pc'[s] = "rules"
  BY DEF HoldersInv
<1>1. pc'[s] = pc[s] /\ cand'[s] = cand[s] /\ cand[s] \subseteq Lockable
  BY DEF TypeOK, Lockable
<1>2. \A x \in Lockable : holder'[x] = s => holder[x] = s
  BY IngestAssumption
<1>3. Taken(s)' = Taken(s)
  BY <1>1 DEF Taken
<1>4. QED
  BY <1>1, <1>2, <1>3 DEF HoldersInv

LEMMA EndHolders ==
    ASSUME TypeOK, HoldersInv, NEW r \in Requests, NEW answer \in Closed, End(r, answer)
    PROVE  HoldersInv'
<1>1. pc' = [pc EXCEPT ![r] = answer] /\ pc'[r] = answer
  BY DEF End, Goto, TypeOK
<1>2. cand' = [cand EXCEPT ![r] = {}] /\ cand'[r] = {}
  BY DEF End, TypeOK
<1>3. \A x \in Lockable : holder'[x] \in {holder[x], None} /\ holder'[x] # r
  BY IngestAssumption DEF End, Released
<1>4. answer # "rules"
  BY DEF Closed
<1>5. QED
  BY <1>1, <1>2, <1>3, <1>4, OneHolds

\* A step that goes on to another place takes at most the lock that it wanted.
LEMMA PlaceHolders ==
    ASSUME TypeOK, HoldersInv, NEW r \in Requests, NEW place, Goto(r, place),
           UNCHANGED cand, pc[r] # "rules", place # "rules",
           \A x \in Lockable : holder'[x] \in {holder[x], r},
           \A x \in Lockable : holder'[x] = r /\ holder[x] # r => x \in Taken(r)',
           Taken(r) \subseteq Taken(r)'
    PROVE  HoldersInv'
<1>1. pc' = [pc EXCEPT ![r] = place] /\ pc'[r] = place
  BY DEF Goto, TypeOK
<1>2. cand' = [cand EXCEPT ![r] = cand'[r]] /\ cand'[r] = {}
  BY DEF HoldersInv, TypeOK
<1>3. \A x \in Lockable : holder'[x] = r => x \in Taken(r)'
  BY DEF HoldersInv
<1>4. QED
  BY <1>1, <1>2, <1>3, OneHolds

LEMMA MovesHold ==
    ASSUME TypeOK, HoldersInv, NEW r \in Requests,
           \/ Begin(r) \/ Serialize(r) \/ UpsertIssue(r) \/ UpsertService(r)
           \/ InsertEvent(r) \/ UpsertRelease(r) \/ Resend(r)
    PROVE  HoldersInv'
<1> USE RequestTypes DEF AfterAdvisory, AfterLookup, AfterIssue, AfterService,
                         AfterInsert, AfterRelease, locals
<1>1. CASE Begin(r)
  <2>1. Goto(r, "advisory") /\ pc[r] = "new" /\ UNCHANGED <<holder, cand>>
    BY <1>1 DEF Begin
  <2>2. pc'[r] = "advisory"
    BY <2>1 DEF Goto, TypeOK
  <2>3. QED
    BY <2>1, <2>2, PlaceHolders DEF Taken
<1>2. CASE Resend(r)
  <2>1. Goto(r, "new") /\ pc[r] = "aborted" /\ UNCHANGED <<holder, cand>>
    BY <1>2 DEF Resend
  <2>2. pc'[r] = "new"
    BY <2>1 DEF Goto, TypeOK
  <2>3. QED
    BY <2>1, <2>2, PlaceHolders DEF Taken
<1>3. CASE Serialize(r)
  <2>1. /\ Goto(r, "lookup") /\ pc[r] = "advisory" /\ UNCHANGED cand
        /\ holder' = [holder EXCEPT ![EventOf[r]] = r]
    BY <1>3 DEF Serialize, Take
  <2>2. pc'[r] = "lookup" /\ \A x \in Lockable : x # EventOf[r] => holder'[x] = holder[x]
    BY <2>1 DEF Goto, TypeOK
  <2>3. QED
    BY <2>1, <2>2, PlaceHolders DEF Taken, TypeOK
<1>4. CASE UpsertIssue(r)
  <2>1. /\ Goto(r, "service") /\ pc[r] = "issue" /\ UNCHANGED cand
        /\ holder' = [holder EXCEPT ![IssueOf[r]] = r]
    BY <1>4 DEF UpsertIssue, Upsert, Take
  <2>2. pc'[r] = "service" /\ \A x \in Lockable : x # IssueOf[r] => holder'[x] = holder[x]
    BY <2>1 DEF Goto, TypeOK
  <2>3. QED
    BY <2>1, <2>2, PlaceHolders DEF Taken, TypeOK
<1>5. CASE UpsertService(r)
  <2>1. /\ Goto(r, "event") /\ pc[r] = "service" /\ UNCHANGED cand
        /\ holder' = [holder EXCEPT ![ServiceOf[r]] = r]
    BY <1>5 DEF UpsertService, Upsert, Take
  <2>2. pc'[r] = "event" /\ \A x \in Lockable : x # ServiceOf[r] => holder'[x] = holder[x]
    BY <2>1 DEF Goto, TypeOK
  <2>3. QED
    BY <2>1, <2>2, PlaceHolders DEF Taken, TypeOK
<1>6. CASE InsertEvent(r)
  <2>1. Goto(r, "release") /\ pc[r] = "event" /\ UNCHANGED <<holder, cand>>
    BY <1>6 DEF InsertEvent
  <2>2. pc'[r] = "release"
    BY <2>1 DEF Goto, TypeOK
  <2>3. QED
    BY <2>1, <2>2, PlaceHolders DEF Taken
<1>7. CASE UpsertRelease(r)
  <2>1. /\ Goto(r, "match") /\ pc[r] = "release" /\ UNCHANGED cand
        /\ \/ UNCHANGED holder
           \/ ReleaseOf[r] # None /\ holder' = [holder EXCEPT ![ReleaseOf[r]] = r]
    BY <1>7 DEF UpsertRelease, Upsert, Take
  <2>2. pc'[r] = "match" /\ \A x \in Lockable : x # ReleaseOf[r] => holder'[x] = holder[x]
    BY <2>1 DEF Goto, TypeOK
  <2>3. \A x \in Lockable : holder'[x] \in {holder[x], r}
    BY <2>1 DEF TypeOK
  <2>4. QED
    BY <2>1, <2>2, <2>3, PlaceHolders DEF Taken
<1>8. QED
  BY <1>1, <1>2, <1>3, <1>4, <1>5, <1>6, <1>7

LEMMA RulesHold ==
    ASSUME TypeOK, HoldersInv, NEW r \in Requests,
           MatchRules(r) \/ \E q \in Rules : LockRule(r, q)
    PROVE  HoldersInv'
<1> USE DEF AfterAdvisory, AfterLookup, AfterIssue, AfterService, AfterInsert,
            AfterRelease
<1>1. CASE MatchRules(r)
  <2> DEFINE matching == {q \in enabled :
                            r \in Matches[q] /\ Reached(r, q) /\ Rested(r, q)}
  <2>1. /\ cand' = [cand EXCEPT ![r] = matching] /\ matching \in SUBSET Rules
        /\ pc' = [pc EXCEPT ![r] = IF matching = {} THEN "alerts" ELSE "rules"]
        /\ pc[r] = "match" /\ UNCHANGED holder
    BY <1>1 DEF MatchRules, Goto, TypeOK
  <2> HIDE DEF matching
  <2>2. /\ cand'[r] = matching
        /\ pc'[r] = IF matching = {} THEN "alerts" ELSE "rules"
    BY <2>1 DEF TypeOK
  <2>3. Taken(r) \subseteq Taken(r)' /\ \A q \in Rules : q \notin Taken(r)
    <3>1. \A q \in Rules : q \notin Events \cup Keys
      BY IngestAssumption
    <3>2. \A q \in Rules : q \notin Taken(r)
      BY <2>1, <3>1, RequestTypes DEF Taken
    <3>3. QED
      BY <2>1, <2>2, <3>2 DEF Taken
  <2>4. \A x \in Lockable : holder'[x] = r => x \in Taken(r)'
    BY <2>1, <2>3 DEF HoldersInv
  <2>5. \A q \in cand'[r] : holder'[q] # r
    BY <2>1, <2>2, <2>3 DEF HoldersInv, Lockable
  <2>6. pc' = [pc EXCEPT ![r] = pc'[r]]
    BY <2>1, <2>2
  <2>7. cand' = [cand EXCEPT ![r] = cand'[r]]
    BY <2>1, <2>2
  <2>8. \A x \in Lockable : holder'[x] \in {holder[x], r, None}
    BY <2>1, <2>2
  <2>9. cand'[r] # {} <=> pc'[r] = "rules"
    BY <2>1, <2>2
  <2>10. QED
    BY <2>4, <2>5, <2>6, <2>7, <2>8, <2>9, OneHolds
<1>2. ASSUME NEW q \in Rules, LockRule(r, q) PROVE HoldersInv'
  <2>1. /\ pc[r] = "rules" /\ q \in cand[r] /\ q \in Lockable
        /\ cand' = [cand EXCEPT ![r] = cand[r] \ {q}]
        /\ holder' = [holder EXCEPT ![q] = r]
        /\ pc' = [pc EXCEPT ![r] = IF cand[r] = {q} THEN "alerts" ELSE "rules"]
    BY <1>2 DEF LockRule, Take, Goto, Lockable
  <2>2. /\ cand'[r] = cand[r] \ {q}
        /\ pc'[r] = IF cand[r] = {q} THEN "alerts" ELSE "rules"
        /\ \A x \in Lockable : holder'[x] = IF x = q THEN r ELSE holder[x]
    BY <2>1 DEF TypeOK
  <2>3. Taken(r) \subseteq Taken(r)' /\ q \in Taken(r)'
    BY <2>1, <2>2 DEF Taken
  <2>4. \A x \in Lockable : holder'[x] = r => x \in Taken(r)'
    BY <2>2, <2>3 DEF HoldersInv
  <2>5. \A p \in cand'[r] : p \in Lockable /\ holder'[p] # r
    BY <2>2 DEF HoldersInv, TypeOK, Lockable
  <2>6. pc' = [pc EXCEPT ![r] = pc'[r]]
    BY <2>1, <2>2
  <2>7. cand' = [cand EXCEPT ![r] = cand'[r]]
    BY <2>1, <2>2
  <2>8. \A x \in Lockable : holder'[x] \in {holder[x], r, None}
    BY <2>1, <2>2
  <2>9. cand'[r] # {} <=> pc'[r] = "rules"
    BY <2>1, <2>2
  <2>10. QED
    BY <2>4, <2>5, <2>6, <2>7, <2>8, <2>9, OneHolds
<1>3. QED
  BY <1>1, <1>2

LEMMA QuietHolders ==
    ASSUME TypeOK, HoldersInv, UNCHANGED <<pc, holder, cand>> PROVE HoldersInv'
  BY DEF HoldersInv, Taken

LEMMA HoldersStep == TypeOK /\ HoldersInv /\ [Next]_vars => HoldersInv'
<1> SUFFICES ASSUME TypeOK, HoldersInv, [Next]_vars PROVE HoldersInv'
  OBVIOUS
<1>1. ASSUME NEW r \in Requests, Lookup(r) PROVE HoldersInv'
  <2>1. CASE stored[EventOf[r]] = None
    <3>1. Goto(r, "issue") /\ pc[r] = "lookup" /\ UNCHANGED <<holder, cand>>
      BY <1>1, <2>1 DEF Lookup, locals
    <3>2. pc'[r] = "issue"
      BY <3>1 DEF Goto, TypeOK
    <3>3. QED
      BY <3>1, <3>2, PlaceHolders DEF Taken, AfterAdvisory, AfterLookup, AfterIssue,
         AfterService, AfterInsert, AfterRelease
  <2>2. CASE stored[EventOf[r]] # None
    BY <1>1, <2>2, EndHolders DEF Lookup, Closed
  <2>3. QED
    BY <2>1, <2>2
<1>2. ASSUME NEW r \in Requests, RaiseAlerts(r) PROVE HoldersInv'
  <2>1. CASE fired[r] \subseteq reachable
    <3>1. Goto(r, "commit") /\ pc[r] = "alerts" /\ UNCHANGED <<holder, cand>>
      BY <1>2, <2>1 DEF RaiseAlerts, locals
    <3>2. pc'[r] = "commit"
      BY <3>1 DEF Goto, TypeOK
    <3>3. QED
      BY <3>1, <3>2, PlaceHolders DEF Taken, AfterAdvisory, AfterLookup, AfterIssue,
         AfterService, AfterInsert, AfterRelease
  <2>2. CASE ~(fired[r] \subseteq reachable)
    BY <1>2, <2>2, EndHolders DEF RaiseAlerts, Closed
  <2>3. QED
    BY <2>1, <2>2
<1>3. ASSUME NEW r \in Requests, Commit(r) \/ Lose(r) \/ DeadlockVictim(r)
      PROVE  HoldersInv'
  BY <1>3, EndHolders DEF Commit, Lose, DeadlockVictim, Closed
<1>4. ASSUME NEW i \in Issues, NEW s \in Statuses, SetStatus(i, s) PROVE HoldersInv'
  BY <1>4, QuietHolders DEF SetStatus, locals
<1>5. ASSUME NEW q \in Rules, EditRule(q) \/ EditRoster(q) PROVE HoldersInv'
  BY <1>5, QuietHolders DEF EditRule, EditRoster, locals
<1>6. CASE Tick \/ UNCHANGED vars
  BY <1>6, QuietHolders DEF Tick, vars, locals
<1>7. QED
  BY <1>1, <1>2, <1>3, <1>4, <1>5, <1>6, MovesHold, RulesHold DEF Next, Serve

LEMMA HoldersInit == Init => HoldersInv
  BY IngestAssumption DEF Init, HoldersInv

\* Whoever is waited for has passed the place of the one who waits: only at the
\* rules can they wait for each other.
LEMMA WaitsAhead ==
    ASSUME TypeOK, HoldersInv, NEW r \in Requests, NEW h \in WaitsFor(r)
    PROVE  /\ h \in Requests
           /\ pc[r] = "advisory" => pc[h] \in AfterAdvisory
           /\ pc[r] = "issue" => pc[h] \in AfterIssue
           /\ pc[r] = "service" => pc[h] \in AfterService
           /\ pc[r] = "release" => pc[h] \in AfterRelease
           /\ pc[r] = "rules" => pc[h] \in {"rules", "alerts", "commit"}
<1> USE DEF AfterAdvisory, AfterLookup, AfterIssue, AfterService, AfterInsert,
            AfterRelease
<1>1. PICK x \in Wanted(r) : h = holder[x] /\ h # None
  BY DEF WaitsFor
<1>2. /\ pc[r] = "advisory" => x = EventOf[r] /\ x \in Events
      /\ pc[r] = "issue" => x = IssueOf[r] /\ x \in Issues
      /\ pc[r] = "service" => x = ServiceOf[r] /\ x \in Services
      /\ pc[r] = "release" => x = ReleaseOf[r] /\ x \in Releases
      /\ pc[r] = "rules" => x \in Rules
      /\ pc[r] \in {"advisory", "issue", "service", "release", "rules"}
  BY <1>1, IngestAssumption DEF Wanted, TypeOK
<1>3. x \in Lockable
  BY <1>2 DEF Lockable, Keys
<1>4. h \in Requests /\ x \in Taken(h)
  BY <1>1, <1>3 DEF TypeOK, HoldersInv
<1>5. /\ EventOf[h] \in Events /\ IssueOf[h] \in Issues /\ ServiceOf[h] \in Services
      /\ ReleaseOf[h] \in Releases \cup {None}
  BY <1>4, IngestAssumption
<1>6. \/ x = EventOf[h] /\ pc[h] \in AfterAdvisory
      \/ x = IssueOf[h] /\ pc[h] \in AfterIssue
      \/ x = ServiceOf[h] /\ pc[h] \in AfterService
      \/ x = ReleaseOf[h] /\ x # None /\ pc[h] \in AfterRelease
      \/ x \in Rules /\ pc[h] \in {"rules", "alerts", "commit"}
  BY <1>4 DEF Taken
<1>7. /\ Events \cap Issues = {} /\ Events \cap Services = {} /\ Events \cap Releases = {}
      /\ Issues \cap Services = {} /\ Issues \cap Releases = {}
      /\ Services \cap Releases = {}
      /\ Rules \cap (Events \cup Issues \cup Services \cup Releases) = {}
  BY IngestAssumption DEF Keys
<1> HIDE DEF AfterAdvisory, AfterLookup, AfterIssue, AfterService, AfterInsert,
             AfterRelease
<1>8. /\ x \in Events => pc[h] \in AfterAdvisory
      /\ x \in Issues => pc[h] \in AfterIssue
      /\ x \in Services => pc[h] \in AfterService
      /\ x \in Releases => pc[h] \in AfterRelease
      /\ x \in Rules => pc[h] \in {"rules", "alerts", "commit"}
  BY <1>5, <1>6, <1>7
<1>9. QED
  BY <1>2, <1>4, <1>8

\* The insertion of an event waits for nobody: whoever has inserted the same
\* event holds the advisory lock on its id.
LEMMA InsertGoesOn ==
    ASSUME TypeOK, RowsInv, NEW r \in Requests, pc[r] = "event"
    PROVE  \A s \in inserted : EventOf[s] # EventOf[r]
<1>1. holder[EventOf[r]] = r /\ r \notin inserted
  BY DEF RowsInv, RowInv, AfterAdvisory, AfterLookup, AfterIssue, AfterService,
         AfterInsert, AfterRelease
<1>2. ASSUME NEW s \in inserted PROVE holder[EventOf[s]] = s
  BY DEF TypeOK, RowsInv, RowInv, AfterAdvisory, AfterLookup, AfterIssue, AfterService,
         AfterInsert, AfterRelease
<1>3. QED
  BY <1>1, <1>2

Before == {ss \in Nat \X Nat : ss[1] < ss[2]}

\* A set of numbers that is not empty has a least one.
LEMMA Least ==
    ASSUME NEW T \in SUBSET Nat, T # {}
    PROVE  \E x \in T : \A y \in T : x <= y
<1>1. IsWellFoundedOn(Before, Nat)
  BY NatLessThanWellFounded DEF OpToRel, Before
<1>2. PICK x \in T : \A y \in T : ~ (<<y, x>> \in Before)
  BY <1>1, WFMin
<1>3. \A y \in T : y < x => <<y, x>> \in Before
  BY DEF Before
<1>4. ASSUME NEW y \in T PROVE x <= y
  <2>1. ~ (y < x)
    BY <1>2, <1>3
  <2>2. QED
    BY <2>1
<1>5. QED
  BY <1>4

\* Of the transactions that wait for each other in a finite set that waits for
\* nobody else, some wait in a circle: the fewest that wait for nobody else.
LEMMA Circle ==
    ASSUME NEW T, IsFiniteSet(T), T # {},
           \A q \in T : WaitsFor(q) \subseteq T /\ WaitsFor(q) # {}
    PROVE  \E U \in SUBSET T : U # {} /\ U = UNION {WaitsFor(q) : q \in U}
<1> DEFINE Onto(U) == UNION {WaitsFor(q) : q \in U}
           Closing == {U \in SUBSET T : U # {} /\ Onto(U) \subseteq U}
           Sizes == {Cardinality(U) : U \in Closing}
<1>1. \A U \in SUBSET T : IsFiniteSet(U) /\ Cardinality(U) \in Nat
  BY FS_Subset, FS_CardinalityType
<1>2. T \in Closing
  OBVIOUS
<1>3. Sizes \in SUBSET Nat /\ Sizes # {}
  BY <1>1, <1>2
<1>4. PICK n \in Sizes : \A m \in Sizes : n <= m
  <2> HIDE DEF Sizes
  <2>1. QED
    BY <1>3, Least
<1>5. PICK U \in Closing : n = Cardinality(U)
  OBVIOUS
<1> DEFINE V == Onto(U)
<1>6. V \subseteq U /\ U \subseteq T /\ U # {}
  OBVIOUS
<1>7. V # {}
  <2>1. PICK q \in U : TRUE
    BY <1>6
  <2>2. WaitsFor(q) # {} /\ WaitsFor(q) \subseteq V
    BY <1>6, <2>1
  <2>3. QED
    BY <2>2
<1>8. Onto(V) \subseteq V
  BY <1>6
<1>9. V \in Closing
  BY <1>6, <1>7, <1>8
<1> HIDE DEF V
<1>10. Cardinality(U) <= Cardinality(V)
  <2>1. Cardinality(V) \in Sizes
    BY <1>9
  <2> HIDE DEF Sizes
  <2>2. n <= Cardinality(V)
    BY <1>4, <2>1
  <2>3. QED
    BY <2>2, <1>5
<1>11. V = U
  <2>1. IsFiniteSet(U) /\ Cardinality(U) \in Nat /\ Cardinality(V) \in Nat
    BY <1>1, <1>6
  <2>2. Cardinality(V) = Cardinality(U) => V = U
    BY <1>6, <2>1, FS_Subset
  <2>3. Cardinality(V) <= Cardinality(U)
    BY <1>6, <2>1, FS_Subset
  <2>4. QED
    BY <1>10, <2>1, <2>2, <2>3
<1>12. QED
  BY <1>6, <1>11 DEF V

LEMMA StuckFollows ==
    ASSUME TypeOK, RowsInv, HoldersInv PROVE NeverStuck
<1> SUFFICES ASSUME NEW S \in SUBSET {r \in Requests : pc[r] \in Open},
                    S # {}, IsFiniteSet(S),
                    \A r \in S : WaitsFor(r) \subseteq S,
                    \A r \in S : ~CanGoOn(r)
             PROVE  FALSE
  BY DEF NeverStuck
<1> DEFINE T == {r \in S : pc[r] = "rules"}
<1>1. \A r \in S : /\ r \in Requests
                   /\ pc[r] \in {"advisory", "issue", "service", "release", "rules"}
  BY InsertGoesOn DEF Open, CanGoOn
<1>2. ASSUME NEW r \in S PROVE WaitsFor(r) # {}
  <2>1. PICK x \in Wanted(r) : ~Free(x)
    <3>1. CASE pc[r] # "rules"
      BY <1>1, <3>1 DEF CanGoOn
    <3>2. CASE pc[r] = "rules"
      BY <1>1, <3>2 DEF CanGoOn, Wanted, HoldersInv
    <3>3. QED
      BY <3>1, <3>2
  <2>2. QED
    BY <2>1 DEF WaitsFor, Free
<1>3. \A r \in S : \A h \in WaitsFor(r) :
         /\ h \in S
         /\ pc[r] = "advisory" => pc[h] \in AfterAdvisory
         /\ pc[r] = "issue" => pc[h] \in AfterIssue
         /\ pc[r] = "service" => pc[h] \in AfterService
         /\ pc[r] = "release" => pc[h] \in AfterRelease
         /\ pc[r] = "rules" => pc[h] \in {"rules", "alerts", "commit"}
  BY <1>1, WaitsAhead
<1>4. T # {}
  <2> USE DEF AfterAdvisory, AfterLookup, AfterIssue, AfterService, AfterInsert,
              AfterRelease
  <2>1. \A r \in S : pc[r] = "release" => T # {}
    BY <1>1, <1>2, <1>3
  <2>2. \A r \in S : pc[r] = "service" => T # {}
    BY <1>1, <1>2, <1>3, <2>1
  <2>3. \A r \in S : pc[r] = "issue" => T # {}
    BY <1>1, <1>2, <1>3, <2>1, <2>2
  <2>4. \A r \in S : pc[r] = "advisory" => T # {}
    BY <1>1, <1>2, <1>3, <2>1, <2>2, <2>3
  <2>5. QED
    BY <1>1, <2>1, <2>2, <2>3, <2>4
<1>5. \A r \in T : WaitsFor(r) \subseteq T /\ WaitsFor(r) # {}
  BY <1>1, <1>2, <1>3
<1>6. PICK U \in SUBSET T : U # {} /\ U = UNION {WaitsFor(q) : q \in U}
  <2>1. IsFiniteSet(T)
    BY FS_Subset
  <2> HIDE DEF T
  <2>2. QED
    BY <1>4, <1>5, <2>1, Circle
<1>7. \A s \in U : /\ s \in S /\ pc[s] = "rules"
                   /\ WaitsFor(s) = {holder[q] : q \in cand[s]} \ {None}
                   /\ WaitsFor(s) \subseteq U
  BY <1>6 DEF WaitsFor, Wanted
<1>8. ASSUME NEW s \in U
      PROVE  /\ Stuck(s)
             /\ \A q \in cand[s] : holder[q] \in U
             /\ \E t \in U : \E q \in cand[t] : holder[q] = s
  <2>1. \A q \in cand[s] : holder[q] # None /\ holder[q] # s
    BY <1>1, <1>7 DEF CanGoOn, Free, HoldersInv
  <2>2. \A q \in cand[s] : holder[q] \in WaitsFor(s)
    BY <1>7, <2>1
  <2>3. PICK t \in U : s \in WaitsFor(t)
    BY <1>6
  <2>4. QED
    BY <1>7, <2>1, <2>2, <2>3 DEF Stuck
<1>9. PICK r \in U : TRUE
  BY <1>6
<1>10. U \in SUBSET Requests /\ r \in S
  BY <1>1, <1>7, <1>9
<1>11. Deadlocked(r)
  BY <1>8, <1>9, <1>10 DEF Deadlocked
<1>12. QED
  BY <1>10, <1>11 DEF CanGoOn

-----------------------------------------------------------------------------
(* The theorems. *)

\* The inductive invariant holds at first.
LEMMA InvariantInit == Init => IInv
<1> SUFFICES ASSUME Init PROVE IInv
  OBVIOUS
<1>1. AlertInv /\ StoredInv /\ AlertedOnce /\ CooldownKept
  BY DEF Init, AlertInv, StoredInv, AlertedOnce, CooldownKept
<1>2. AcceptedIsStored
  BY DEF Init, AcceptedIsStored
<1>3. AggregatesAgree
  <2>1. ASSUME NEW k \in Keys PROVE Members(k) = {} /\ tally[k].count = 0
    BY DEF Init, Members, NoTally
  <2>2. QED
    BY <2>1, FS_EmptySet, AggregatesByKey
<1>4. QED
  BY <1>1, <1>2, <1>3, TypeInit, RowsInit DEF IInv

\* Every step keeps the inductive invariant.
LEMMA InvariantStep == IInv /\ [Next]_vars => IInv'
  BY TypeStep, RowsStep, AlertStep, StoreStep, AggregatesStep DEF IInv

\* The inductive invariant holds of every behaviour.
THEOREM IngestInvariance == Spec => []IInv
  BY InvariantInit, InvariantStep, PTL DEF Spec

\* For any number of concurrent requests, counts and times of every issue,
\* service and release are those of the events stored under it.
THEOREM NoUpdateIsLost == Spec => []AggregatesAgree
<1>1. IInv => AggregatesAgree
  BY DEF IInv
<1>2. QED
  BY <1>1, IngestInvariance, PTL

\* A request is acknowledged only when its event is stored in its project
\* and queued for symbolication if it has a release.
THEOREM AcknowledgedIsStored == Spec => []AcceptedIsStored
<1>1. IInv => AcceptedIsStored
  BY DEF IInv
<1>2. QED
  BY <1>1, IngestInvariance, PTL

\* A rule raises at most one alert for an event, however often it is sent.
THEOREM OneAlertPerEvent == Spec => []AlertedOnce
<1>1. IInv => AlertedOnce
  BY DEF IInv
<1>2. QED
  BY <1>1, IngestInvariance, PTL

\* Concurrent transactions do not fire a rule twice within its cooldown.
THEOREM CooldownHolds == Spec => []CooldownKept
<1>1. IInv => CooldownKept
  BY DEF IInv
<1>2. QED
  BY <1>1, IngestInvariance, PTL

\* No transaction commits an alert of a rule that is disabled.
THEOREM DisabledStaysSilent == Spec => DisabledIsSilent
<1>1. ASSUME IInv, [Next]_vars
      PROVE  [\A a \in alerts' \ alerts : a.rule \in enabled]_vars
  <2>1. CASE UNCHANGED <<stored, tally, queued, last, alerts>>
    BY <2>1
  <2>2. ASSUME NEW r \in Requests, Commit(r)
        PROVE  \A a \in alerts' \ alerts : a.rule \in enabled
    BY <1>1, <2>2, CommitEffect DEF IInv
  <2>3. QED
    BY <1>1, <2>1, <2>2, OnlyCommitPublishes
<1>2. QED
  BY <1>1, IngestInvariance, PTL DEF Spec, DisabledIsSilent

\* A commit is one atomic Store of the abstract store.
LEMMA CommitStores ==
    ASSUME TypeOK, RowsInv, NEW r \in Requests, Commit(r)
    PROVE  Promise!Store(r, fired[r], start[r])
<1>1. /\ stored[EventOf[r]] = None
      /\ stored' = [stored EXCEPT ![EventOf[r]] = r]
      /\ \A q \in fired[r] : last[q] = -1 \/ last[q] < start[r] - Cooldown[q]
      /\ queued' = IF r \in WithRelease THEN queued \cup {EventOf[r]} ELSE queued
      /\ last' = [q \in Rules |-> IF q \in fired[r] THEN start[r] ELSE last[q]]
      /\ alerts' = alerts \cup
            {[rule |-> q, by |-> r, time |-> start[r]] : q \in fired[r]}
  BY CommitEffect DEF Rested, WithRelease
<1>2. tally' = [k \in Keys |-> IF k \in KeysOf[r]
                             THEN Promise!Counted(tally[k], At[r]) ELSE tally[k]]
  BY CommitEffect DEF Counted, Promise!Counted
<1>3. status' = [status EXCEPT ![IssueOf[r]] =
                    IF @ \in {"none", "resolved"} THEN "unresolved" ELSE @]
  BY CommitEffect DEF StatusAfter
<1>4. QED
  BY <1>1, <1>2, <1>3 DEF Promise!Store

\* A step that is neither a commit nor a triage stutters in the abstract
\* store.
LEMMA StoreStutters ==
    ASSUME [Next]_vars
    PROVE  \/ \E r \in Requests : Commit(r)
           \/ \E i \in Issues, s \in Statuses : SetStatus(i, s)
           \/ UNCHANGED <<stored, tally, status, queued, last, alerts>>
<1>1. ASSUME NEW r \in Requests, Serve(r)
      PROVE  Commit(r) \/ UNCHANGED <<stored, tally, status, queued, last, alerts>>
  BY <1>1 DEF Serve, Serialize, Lookup, UpsertIssue, UpsertService, InsertEvent,
              UpsertRelease, MatchRules, LockRule, RaiseAlerts, DeadlockVictim, rows
<1>2. QED
  BY <1>1 DEF Next, Begin, Lose, Resend, EditRule, EditRoster, Tick, vars, rows

\* Ingestion with its transactions, locks, aborts and retries implements a
\* store in which every event is stored in one step.
THEOREM StoresAtomically == Spec => ImplementsPromise
<1>1. Init => Promise!Init
  BY DEF Init, Promise!Init, NoTally
<1>2. ASSUME IInv, [Next]_vars
      PROVE  [Promise!Next]_(Promise!vars)
  <2>1. ASSUME NEW r \in Requests, Commit(r) PROVE Promise!Next
    <3>1. Promise!Store(r, fired[r], start[r])
      BY <1>2, <2>1, CommitStores DEF IInv
    <3>2. fired[r] \in SUBSET Rules /\ start[r] \in Clock
      BY <1>2 DEF IInv, TypeOK, Clock
    <3>3. QED
      BY <3>1, <3>2 DEF Promise!Next
  <2>2. ASSUME NEW i \in Issues, NEW s \in Statuses, SetStatus(i, s)
        PROVE  Promise!Next
    BY <2>2 DEF SetStatus, Promise!SetStatus, Promise!Next, Statuses
  <2>3. CASE UNCHANGED <<stored, tally, status, queued, last, alerts>>
    BY <2>3 DEF Promise!vars
  <2>4. QED
    BY <1>2, <2>1, <2>2, <2>3, StoreStutters
<1>3. QED
  BY <1>1, <1>2, IngestInvariance, PTL DEF Spec, ImplementsPromise, Promise!Spec

\* Transactions that wait for nobody outside do not wait for each other forever:
\* one of them can go on, if only as the victim of a deadlock at the rules
\* (persist_event, enqueue_matching_alerts).
THEOREM SomebodyGoesOn == Spec => []NeverStuck
<1>1. Init => HoldersInv
  BY HoldersInit
<1>2. IInv /\ HoldersInv /\ [Next]_vars => HoldersInv'
  BY HoldersStep DEF IInv
<1>3. IInv /\ HoldersInv => NeverStuck
  BY StuckFollows DEF IInv
<1>4. QED
  BY <1>1, <1>2, <1>3, IngestInvariance, PTL DEF Spec

=============================================================================
