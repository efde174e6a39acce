------------------------------- MODULE Triage -------------------------------
(***************************************************************************)
(* Reshaping issues while events arrive: merge_issues, split_issue and     *)
(* change_fingerprint (src/api.rs), beside ingestion and retention, in one *)
(* project.                                                                *)
(*                                                                         *)
(* A merge and a split are transactions of several statements under READ   *)
(* COMMITTED: each statement sees what was committed when it began.  It    *)
(* then waits for the locks of other transactions; it looks again at the   *)
(* rows it waited for, but finds no other rows and does not count again    *)
(* what it has counted.  Deleting an issue deletes its events (ON DELETE   *)
(* CASCADE), those that arrived meanwhile too.                             *)
(*                                                                         *)
(* Ingestion takes two steps here, the upsert of the issue, which locks    *)
(* it, and the commit; module Ingest has the whole transaction.  event     *)
(* times are left out: first_seen and last_seen are written by the same    *)
(* statements as event_count.                                              *)
(***************************************************************************)
EXTENDS Integers, FiniteSets

CONSTANTS
    Events,         \* each with the transaction that ingests it
    Admins,         \* requests to merge or to split
    Issues,         \* ids a row of issues can get
    Fingerprints,
    None,           \* "no issue", "no transaction"
    PrintOf,        \* the fingerprint of each event
    Expired,        \* the events that retention may delete
    NewPrints       \* the fingerprints that administrators may give an issue

ASSUME TriageAssumption ==
    /\ PrintOf \in [Events -> Fingerprints]
    /\ Expired \subseteq Events
    /\ NewPrints \subseteq Fingerprints
    /\ IsFiniteSet(Events)
    /\ None \notin Issues \cup Fingerprints \cup Events \cup Admins
    /\ Events \cap Admins = {}

VARIABLES
    \* committed rows
    print,      \* the fingerprint of each issue, None if there is no row
    count,      \* event_count
    home,       \* issue_id of each event, None if there is no row
    \* the transactions
    pc,
    issue,      \* ingestion: its issue; merge: the target; split: the new one
    sources,    \* merge: the sources; split: the issue it splits
    picked,     \* split: event_ids
    inserting,  \* the fingerprint of an issue it has inserted
    found,      \* the events that its UPDATE of issue_id found as it began
    moved,      \* the events whose issue_id it has changed
    fresh,      \* split: the count it inserted
    seen,       \* the count it is going to write
    writer,     \* who has updated each issue, or inserted it
    used,       \* the ids that have been given out
    \* history: events deleted by retention, events that reached an issue that
    \* a transaction empties, after it looked, events whose issue was merged
    \* into itself, transactions whose counts were overtaken, and the issues they
    \* wrote them to
    purged, late, selfMerged, overtaken, skewed

rows    == <<print, count, home>>
locals  == <<issue, sources, picked, inserting, found, moved, fresh, seen>>
history == <<purged, late, selfMerged, overtaken, skewed>>
vars == <<rows, pc, locals, writer, used, history>>

-----------------------------------------------------------------------------
Transactions == Events \cup Admins
Exists(i) == print[i] # None
Members(i) == {e \in Events : home[e] = i}
IsSplit(a) == picked[a] # {}

Places == {"new", "upserted", "insert", "chosen", "move", "moving", "count", "write",
           "delete", "done", "aborted"}

Types ==
    /\ print \in [Issues -> Fingerprints \cup {None}]
    /\ count \in [Issues -> Nat]
    /\ home \in [Events -> Issues \cup {None}]
    /\ pc \in [Transactions -> Places]
    /\ issue \in [Transactions -> Issues \cup {None}]
    /\ sources \in [Admins -> SUBSET Issues]
    /\ picked \in [Admins -> SUBSET Events]
    /\ inserting \in [Transactions -> Fingerprints \cup {None}]
    /\ found \in [Admins -> SUBSET Events]
    /\ moved \in [Admins -> SUBSET Events]
    /\ fresh \in [Admins -> Nat]
    /\ seen \in [Admins -> Nat]
    /\ writer \in [Issues -> Transactions \cup {None}]
    /\ used \in SUBSET Issues
    /\ purged \in SUBSET Events
    /\ late \in SUBSET Events
    /\ selfMerged \in SUBSET Events
    /\ overtaken \in SUBSET Admins
    /\ skewed \in SUBSET Issues

ForeignKey == \A e \in Events : home[e] # None => Exists(home[e])
UniquePrints == \A i, j \in Issues : Exists(i) /\ print[i] = print[j] => i = j

\* Types, the foreign key of events and the unique fingerprints of issues
\* (migrations/0001_initial.sql:10-40).
TypeOK == Types /\ ForeignKey /\ UniquePrints

Init ==
    /\ print = [i \in Issues |-> None]
    /\ count = [i \in Issues |-> 0]
    /\ home = [e \in Events |-> None]
    /\ pc = [t \in Transactions |-> "new"]
    /\ issue = [t \in Transactions |-> None]
    /\ sources = [a \in Admins |-> {}]
    /\ picked = [a \in Admins |-> {}]
    /\ inserting = [t \in Transactions |-> None]
    /\ found = [a \in Admins |-> {}]
    /\ moved = [a \in Admins |-> {}]
    /\ fresh = [a \in Admins |-> 0]
    /\ seen = [a \in Admins |-> 0]
    /\ writer = [i \in Issues |-> None]
    /\ used = {}
    /\ purged = {} /\ late = {} /\ selfMerged = {}
    /\ overtaken = {} /\ skewed = {}

-----------------------------------------------------------------------------
(* Rows, locks and transactions. *)

\* Moving an event into an issue takes FOR KEY SHARE on the issue: it may be
\* updated, but not deleted or given another fingerprint.
Sharers(i) == {a \in Admins : moved[a] # {} /\ issue[a] = i}

\* An issue can be updated, respectively deleted or re-keyed, by t.
CanUpdate(t, i) == writer[i] \in {None, t}
CanRekey(t, i) == CanUpdate(t, i) /\ Sharers(i) \subseteq {t}

\* A unique index makes an insertion wait for an open one of the same value.
Pending(f) == \E t \in Transactions : inserting[t] = f
Taken(f) == \E i \in Issues : print[i] = f

\* The rows of events that other transactions have changed.
LockedFor(a) == UNION {moved[b] : b \in Admins \ {a}}

\* The issue of an event, as a statement of a sees it.
HomeFor(a, e) == IF e \in moved[a] THEN issue[a] ELSE home[e]

\* The issue whose events a has counted and not yet published: what arrives
\* there meanwhile, or leaves, is missing from the count.
Counted(a) ==
    CASE pc[a] \in {"chosen", "move", "moving", "write"} /\ IsSplit(a) -> sources[a]
      [] pc[a] \in {"write", "delete"} /\ ~IsSplit(a) -> {issue[a]}
      [] OTHER -> {}

\* Transactions that will delete i and have already looked for its events.
Emptying(i) ==
    {a \in Admins : /\ i \in sources[a]
                    /\ pc[a] \in IF IsSplit(a) THEN {"delete"}
                                 ELSE {"moving", "count", "write", "delete"}}

\* The events of S that reach i too late for one of them.
Missed(i, S, by) == {e \in S : \E a \in Emptying(i) \ {by} : e \notin found[a]}

\* The members of the issues in S have changed.
Overtake(S, by) ==
    overtaken' = overtaken \cup {a \in Admins \ {by} : Counted(a) \cap S # {}}

Goto(t, place) == pc' = [pc EXCEPT ![t] = place]

Release(t) ==
    /\ writer' = [i \in Issues |-> IF writer[i] = t THEN None ELSE writer[i]]
    /\ inserting' = [inserting EXCEPT ![t] = None]

\* What the end of a request forgets.
Forget(a) ==
    /\ found' = [found EXCEPT ![a] = {}]
    /\ moved' = [moved EXCEPT ![a] = {}]
    /\ issue' = [issue EXCEPT ![a] = None]
    /\ sources' = [sources EXCEPT ![a] = {}]
    /\ picked' = [picked EXCEPT ![a] = {}]
    /\ fresh' = [fresh EXCEPT ![a] = 0]
    /\ seen' = [seen EXCEPT ![a] = 0]

\* ROLLBACK: an error, a lost connection, or a deadlock that PostgreSQL breaks.
Abort(a) ==
    /\ pc[a] \notin {"new", "done", "aborted"}
    /\ Goto(a, "aborted")
    /\ Release(a)
    /\ Forget(a)
    /\ overtaken' = overtaken \ {a}
    /\ UNCHANGED <<rows, used, purged, late, selfMerged, skewed>>

AbortIngestion(e) ==
    /\ pc[e] = "upserted"
    /\ Goto(e, "aborted")
    /\ Release(e)
    /\ issue' = [issue EXCEPT ![e] = None]
    /\ UNCHANGED <<rows, sources, picked, found, moved, fresh, seen, used, history>>

-----------------------------------------------------------------------------
(* Ingestion. *)

\* INSERT ... ON CONFLICT (project_id, fingerprint) DO UPDATE.
Upsert(e) ==
    /\ pc[e] = "new"
    /\ \/ \E i \in Issues :
             /\ print[i] = PrintOf[e]
             /\ CanUpdate(e, i)
             /\ issue' = [issue EXCEPT ![e] = i]
             /\ writer' = [writer EXCEPT ![i] = e]
             /\ UNCHANGED <<inserting, used>>
       \/ /\ ~Taken(PrintOf[e]) /\ ~Pending(PrintOf[e])
          /\ \E i \in Issues \ used :
                /\ issue' = [issue EXCEPT ![e] = i]
                /\ writer' = [writer EXCEPT ![i] = e]
                /\ used' = used \cup {i}
          /\ inserting' = [inserting EXCEPT ![e] = PrintOf[e]]
    /\ Goto(e, "upserted")
    /\ UNCHANGED <<rows, sources, picked, found, moved, fresh, seen, history>>

\* The commit, and 202.
Store(e) ==
    /\ pc[e] = "upserted"
    /\ LET i == issue[e] IN
          /\ print' = [print EXCEPT ![i] =
                         IF inserting[e] = None THEN @ ELSE inserting[e]]
          /\ count' = [count EXCEPT ![i] = @ + 1]
          /\ home' = [home EXCEPT ![e] = i]
          /\ late' = late \cup Missed(i, {e}, e)
          /\ Overtake({i}, e)
    /\ Goto(e, "done")
    /\ Release(e)
    /\ issue' = [issue EXCEPT ![e] = None]
    /\ UNCHANGED <<sources, picked, found, moved, fresh, seen, used, purged, selfMerged,
                   skewed>>

\* run_retention_once: one DELETE of the events that are old enough by now.  It
\* touches no issue.
Retain(S) ==
    /\ S # {}
    /\ \A e \in S : home[e] # None /\ \A a \in Admins : e \notin moved[a]
    /\ home' = [e \in Events |-> IF e \in S THEN None ELSE home[e]]
    /\ purged' = purged \cup S
    /\ skewed' = skewed \cup {home[e] : e \in S}
    /\ Overtake({home[e] : e \in S}, None)
    /\ UNCHANGED <<print, count, pc, locals, writer, used, late, selfMerged>>

-----------------------------------------------------------------------------
(* merge_issues and split_issue. *)

BeginMerge(a) ==
    /\ pc[a] = "new"
    /\ \E target \in Issues, S \in SUBSET Issues :
          /\ Exists(target)
          /\ S # {} /\ \A i \in S : Exists(i)
          /\ issue' = [issue EXCEPT ![a] = target]
          /\ sources' = [sources EXCEPT ![a] = S]
    /\ Goto(a, "move")
    /\ UNCHANGED <<rows, picked, inserting, found, moved, fresh, seen, writer, used,
                   history>>

BeginSplit(a) ==
    /\ pc[a] = "new"
    /\ \E i \in Issues, P \in SUBSET Events :
          /\ Exists(i)
          /\ P # {} /\ \A e \in P : pc[e] = "done"
          /\ sources' = [sources EXCEPT ![a] = {i}]
          /\ picked' = [picked EXCEPT ![a] = P]
    /\ Goto(a, "insert")
    /\ UNCHANGED <<rows, issue, inserting, found, moved, fresh, seen, writer, used,
                   history>>

\* INSERT INTO issues ... SELECT count(*) ... HAVING count(*) > 0: the count, as
\* the statement begins.  An empty choice is an error.
CountChosen(a) ==
    /\ pc[a] = "insert"
    /\ LET chosen == {e \in picked[a] : home[e] \in sources[a]} IN
          /\ chosen # {}
          /\ fresh' = [fresh EXCEPT ![a] = Cardinality(chosen)]
    /\ Goto(a, "chosen")
    /\ UNCHANGED <<rows, issue, sources, picked, inserting, found, moved, seen, writer,
                   used, history>>

\* Its insertion, which may have to wait; a fingerprint that another issue has is
\* an error.
InsertIssue(a) ==
    /\ pc[a] = "chosen"
    /\ \E f \in NewPrints :
          /\ ~Taken(f) /\ ~Pending(f)
          /\ inserting' = [inserting EXCEPT ![a] = f]
    /\ \E i \in Issues \ used :
          /\ issue' = [issue EXCEPT ![a] = i]
          /\ writer' = [writer EXCEPT ![i] = a]
          /\ used' = used \cup {i}
    /\ Goto(a, "move")
    /\ UNCHANGED <<rows, sources, picked, found, moved, fresh, seen, history>>

\* The events that an UPDATE of issue_id by a is about.
Movable(a) == {e \in Events : home[e] \in sources[a] /\ (IsSplit(a) => e \in picked[a])}

\* UPDATE events SET issue_id: what the statement sees as it begins.
FindEvents(a) ==
    /\ pc[a] = "move"
    /\ found' = [found EXCEPT ![a] = Movable(a)]
    /\ Goto(a, "moving")
    /\ UNCHANGED <<rows, issue, sources, picked, inserting, moved, fresh, seen, writer,
                   used, history>>

\* The rows it then updates, once no other transaction has locked them: those
\* that it has found and that are still what it is about.
Leaving(a) == found[a] \cap Movable(a)

\* Mutant of MoveEvents: no foreign key on issue_id.
MoveUnchecked(a) ==
    /\ pc[a] = "moving"
    /\ found[a] \cap LockedFor(a) = {}
    /\ moved' = [moved EXCEPT ![a] = Leaving(a)]
    /\ found' = [found EXCEPT ![a] = {}]
    /\ Goto(a, "count")
    /\ UNCHANGED <<rows, issue, sources, picked, inserting, fresh, seen, writer,
                   used, history>>

\* The foreign key refuses a target that has been deleted.
MoveEvents(a) ==
    /\ pc[a] = "moving"
    /\ found[a] \cap LockedFor(a) = {}
    /\ Leaving(a) # {} => Exists(issue[a]) \/ IsSplit(a)
    /\ moved' = [moved EXCEPT ![a] = Leaving(a)]
    /\ found' = [found EXCEPT ![a] = {}]
    /\ Goto(a, "count")
    /\ UNCHANGED <<rows, issue, sources, picked, inserting, fresh, seen, writer,
                   used, history>>

\* Mutant of CountEvents: the count is taken before the events are moved.
CountUnmoved(a) ==
    /\ pc[a] = "count"
    /\ LET n == Cardinality({e \in Events :
                   home[e] \in (IF IsSplit(a) THEN sources[a] ELSE {issue[a]})}) IN
          /\ seen' = [seen EXCEPT ![a] = n]
          /\ Goto(a, IF IsSplit(a) /\ n = 0 THEN "delete" ELSE "write")
    /\ UNCHANGED <<rows, issue, sources, picked, inserting, found, moved, fresh, writer,
                   used, history>>

\* Mutant of CountEvents: a split always deletes the issue it splits.
SplitDeletes(a) ==
    /\ pc[a] = "count"
    /\ Goto(a, IF IsSplit(a) THEN "delete" ELSE "write")
    /\ LET n == Cardinality({e \in Events :
                   HomeFor(a, e) \in (IF IsSplit(a) THEN sources[a] ELSE {issue[a]})}) IN
          seen' = [seen EXCEPT ![a] = n]
    /\ UNCHANGED <<rows, issue, sources, picked, inserting, found, moved, fresh, writer,
                   used, history>>

\* A merge counts in the snapshot of the UPDATE that writes the count, a split
\* in a statement before it.
CountEvents(a) ==
    /\ pc[a] = "count"
    /\ LET n == Cardinality({e \in Events :
                   HomeFor(a, e) \in (IF IsSplit(a) THEN sources[a] ELSE {issue[a]})}) IN
          /\ seen' = [seen EXCEPT ![a] = n]
          /\ Goto(a, IF IsSplit(a) /\ n = 0 THEN "delete" ELSE "write")
    /\ UNCHANGED <<rows, issue, sources, picked, inserting, found, moved, fresh, writer,
                   used, history>>

\* The UPDATE of a merge's target, if it is still there.  min() of no events is
\* NULL, which the column refuses.
WriteTarget(a) ==
    /\ pc[a] = "write"
    /\ ~IsSplit(a)
    /\ Exists(issue[a]) => seen[a] > 0 /\ CanUpdate(a, issue[a])
    /\ writer' = IF Exists(issue[a]) THEN [writer EXCEPT ![issue[a]] = a] ELSE writer
    /\ Goto(a, "delete")
    /\ UNCHANGED <<rows, locals, used, history>>

-----------------------------------------------------------------------------
\* What a commits besides the rows it moves: counts of the issues it counted,
\* the new issue of a split, and the deletion of the issues in D.
Publish(a, D) ==
    LET kept == IF IsSplit(a) THEN sources[a] \ D ELSE {issue[a]} \ D
        arrived == [e \in Events |-> HomeFor(a, e)]
        written == {i \in kept : Exists(i)} \cup (IF IsSplit(a) THEN {issue[a]} ELSE {})
    IN
    /\ \A i \in D : CanRekey(a, i)
    /\ {e \in Events : arrived[e] \in D} \cap LockedFor(a) = {}
    /\ home' = [e \in Events |-> IF arrived[e] \in D THEN None ELSE arrived[e]]
    /\ print' = [i \in Issues |-> IF i \in D THEN None
                                  ELSE IF IsSplit(a) /\ i = issue[a] THEN inserting[a]
                                  ELSE print[i]]
    /\ count' = [i \in Issues |-> IF IsSplit(a) /\ i = issue[a] THEN fresh[a]
                                  ELSE IF i \in written THEN seen[a]
                                  ELSE count[i]]
    /\ late' = late \cup Missed(issue[a], moved[a], a)
    /\ selfMerged' = IF issue[a] \in D THEN selfMerged \cup {e \in Events : arrived[e] \in D}
                     ELSE selfMerged
    /\ skewed' = IF a \in overtaken THEN skewed \cup written ELSE skewed \ written
    /\ overtaken' = (overtaken \cup
                       {b \in Admins : Counted(b) \cap (sources[a] \cup {issue[a]}) # {}})
                    \ {a}
    /\ Goto(a, "done")
    /\ Release(a)
    /\ Forget(a)
    /\ UNCHANGED <<used, purged>>

\* The UPDATE of a split's issue, and the commit.
WriteRest(a) ==
    /\ pc[a] = "write"
    /\ IsSplit(a)
    /\ \A i \in sources[a] : Exists(i) =>
          CanUpdate(a, i) /\ \E e \in Events : HomeFor(a, e) = i
    /\ Publish(a, {})

\* DELETE FROM issues, which takes their events along, and the commit.
DeleteSources(a) ==
    /\ pc[a] = "delete"
    /\ Publish(a, sources[a])

\* change_fingerprint: one UPDATE, refused if another issue has it.
ChangeFingerprint(i, f) ==
    /\ Exists(i)
    /\ f # print[i]
    /\ CanRekey(None, i)
    /\ ~Taken(f) /\ ~Pending(f)
    /\ print' = [print EXCEPT ![i] = f]
    /\ UNCHANGED <<count, home, pc, locals, writer, used, history>>

-----------------------------------------------------------------------------
Next ==
    \/ \E e \in Events : \/ Upsert(e)
                         \/ Store(e)
                         \/ AbortIngestion(e)
    \/ \E S \in SUBSET Expired : Retain(S)
    \/ \E a \in Admins : \/ BeginMerge(a)
                         \/ BeginSplit(a)
                         \/ CountChosen(a)
                         \/ InsertIssue(a)
                         \/ FindEvents(a)
                         \/ MoveEvents(a)
                         \/ CountEvents(a)
                         \/ WriteTarget(a)
                         \/ WriteRest(a)
                         \/ DeleteSources(a)
                         \/ Abort(a)
    \/ \E i \in Issues, f \in NewPrints : ChangeFingerprint(i, f)

Spec == Init /\ [][Next]_vars

-----------------------------------------------------------------------------
(* Properties. *)

\* An ingested event leaves the store in three ways only: retention deletes
\* it, its issue is merged into itself, or it reaches an issue that is being
\* deleted: after a merge has begun to look for the events of its sources, or
\* after a split has counted none that stay.  Every other interleaving
\* of moves, deletions and arrivals keeps it.
LostOnlyByRace ==
    \A e \in Events : pc[e] = "done" /\ home[e] = None =>
        e \in purged \cup late \cup selfMerged

\* An issue counts its events, unless retention deleted one of them, or the
\* last merge or split that wrote the count was overtaken between counting and
\* writing it.
CountsAgreeUnlessRaced ==
    \A i \in Issues : Exists(i) /\ i \notin skewed =>
        count[i] = Cardinality(Members(i))

=============================================================================
