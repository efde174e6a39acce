---------------------------- MODULE TriageProofs ----------------------------
(***************************************************************************)
(* Theorems about module Triage, for any number of events, administrators  *)
(* and issues.                                                             *)
(***************************************************************************)
EXTENDS Triage, FiniteSetTheorems, TLAPS

USE TriageAssumption

Begun == {"move", "moving", "count", "write", "delete"}
HasMoved == {"count", "write", "delete"}

\* An ingestion between its statements holds the lock of its issue, which is
\* there unless it is the one that inserts it.
IngestInv ==
    \A e \in Events :
        /\ pc[e] \in {"new", "upserted", "done", "aborted"}
        /\ pc[e] # "done" => home[e] = None
        /\ pc[e] # "upserted" => inserting[e] = None
        /\ pc[e] = "upserted" =>
              /\ issue[e] \in used
              /\ writer[issue[e]] = e
              /\ inserting[e] = None => Exists(issue[e])

\* An issue that is being inserted has an id and a fingerprint of its own.
InsertInv ==
    \A t \in Transactions : inserting[t] # None =>
        /\ issue[t] \in used
        /\ writer[issue[t]] = t
        /\ ~Exists(issue[t])
        /\ count[issue[t]] = 0
        /\ ~Taken(inserting[t])
        /\ \A u \in Transactions : inserting[u] = inserting[t] => u = t

UsedInv == \A i \in Issues \ used : ~Exists(i) /\ count[i] = 0 /\ writer[i] = None

\* Where a request is, and what it knows by then.
AdminInv ==
    \A a \in Admins :
        /\ pc[a] \in {"new", "insert", "chosen", "done", "aborted"} \cup Begun
        /\ pc[a] = "new" => ~IsSplit(a)
        /\ pc[a] \in {"insert", "chosen"} => IsSplit(a)
        /\ pc[a] \in {"insert", "chosen"} \cup Begun /\ IsSplit(a) =>
              \E i \in Issues : sources[a] = {i}
        /\ pc[a] \in Begun => issue[a] \in Issues
        /\ inserting[a] # None <=> pc[a] \in Begun /\ IsSplit(a)
        /\ pc[a] # "moving" => found[a] = {}
        /\ pc[a] \notin HasMoved => moved[a] = {}

\* The events that a request has moved are locked: they are still, for everybody
\* else, where it found them; and so is the issue it has moved them to.
MovedInv ==
    \A a \in Admins :
        /\ \A e \in moved[a] : home[e] \in sources[a]
        /\ \A b \in Admins \ {a} : moved[a] \cap moved[b] = {}
        /\ moved[a] # {} => IsSplit(a) \/ Exists(issue[a])

\* What is in an issue that a request will delete is what the request has found
\* there and will move, or has moved, or has arrived since.
EmptyInv ==
    \A a \in Admins :
        pc[a] \in {"moving"} \cup HasMoved /\ (IsSplit(a) => pc[a] = "delete") =>
            \A e \in Events : home[e] \in sources[a] => e \in found[a] \cup moved[a] \cup late

\* The events of i, as a request sees them.
View(a, i) == {e \in Events : HomeFor(a, e) = i}

\* The counts of a request that was not overtaken are right.
SeenInv ==
    \A a \in Admins \ overtaken :
        /\ pc[a] \in {"chosen", "move"} /\ IsSplit(a) =>
              fresh[a] = Cardinality({e \in picked[a] : home[e] \in sources[a]})
        /\ pc[a] = "moving" /\ IsSplit(a) => fresh[a] = Cardinality(Leaving(a))
        /\ pc[a] \in HasMoved /\ IsSplit(a) => fresh[a] = Cardinality(moved[a])
        /\ pc[a] = "write" /\ IsSplit(a) => \A i \in sources[a] :
              seen[a] = Cardinality(View(a, i))
        /\ pc[a] \in {"write", "delete"} /\ ~IsSplit(a) =>
              seen[a] = Cardinality(View(a, issue[a]))

IInv ==
    /\ TypeOK
    /\ IngestInv /\ InsertInv /\ UsedInv
    /\ AdminInv /\ MovedInv
    /\ EmptyInv /\ LostOnlyByRace
    /\ SeenInv /\ CountsAgreeUnlessRaced

-----------------------------------------------------------------------------
LEMMA Cardinal ==
    ASSUME NEW S \in SUBSET Events
    PROVE  IsFiniteSet(S) /\ Cardinality(S) \in Nat
BY FS_Subset, FS_CardinalityType

LEMMA InvInit == Init => IInv
<1> SUFFICES ASSUME Init PROVE IInv
  OBVIOUS
<1>1. TypeOK
  <2>1. Types
    BY DEF Init, Types, Places
  <2>2. ForeignKey /\ UniquePrints
    BY DEF Init, ForeignKey, UniquePrints, Exists
  <2>3. QED
    BY <2>1, <2>2 DEF TypeOK
<1>2. IngestInv /\ InsertInv /\ UsedInv
  BY DEF Init, IngestInv, InsertInv, UsedInv, Exists, Transactions
<1>3. AdminInv /\ MovedInv
  BY DEF Init, AdminInv, MovedInv, Exists, IsSplit, Begun, HasMoved, Transactions
<1>4. EmptyInv /\ LostOnlyByRace /\ SeenInv /\ CountsAgreeUnlessRaced
  BY DEF Init, EmptyInv, LostOnlyByRace, SeenInv, CountsAgreeUnlessRaced, Exists,
         HasMoved, Transactions
<1>5. QED
  BY <1>1, <1>2, <1>3, <1>4 DEF IInv

-----------------------------------------------------------------------------
(* Types. *)

LEMMA Moves ==
    ASSUME Types, NEW t \in Transactions, NEW place \in Places, Goto(t, place)
    PROVE  pc' \in [Transactions -> Places]
BY DEF Types, Goto

LEMMA TypesIngest ==
    ASSUME IInv, NEW e \in Events, Upsert(e) \/ Store(e) \/ AbortIngestion(e)
    PROVE  Types'
<1>1. Types /\ e \in Transactions
  BY DEF IInv, TypeOK, Transactions
<1>2. pc' \in [Transactions -> Places]
  <2>1. \E place \in Places : Goto(e, place)
    BY DEF Upsert, Store, AbortIngestion, Places
  <2>2. QED
    BY <1>1, <2>1, Moves
<1>3. CASE Upsert(e)
  BY <1>1, <1>3, <1>2 DEF Types, Upsert, rows, history
<1>4. CASE Store(e)
  <2>1. issue[e] \in Issues
    BY <1>4 DEF Store, IInv, IngestInv, UsedInv, TypeOK, Types
  <2>2. late' \in SUBSET Events /\ overtaken' \in SUBSET Admins
    BY <1>1, <1>4 DEF Types, Store, Overtake, Missed
  <2>3. /\ print' \in [Issues -> Fingerprints \cup {None}]
        /\ count' \in [Issues -> Nat]
        /\ home' \in [Events -> Issues \cup {None}]
    BY <1>1, <1>4, <2>1 DEF Types, Store
  <2>4. /\ issue' \in [Transactions -> Issues \cup {None}]
        /\ inserting' \in [Transactions -> Fingerprints \cup {None}]
        /\ writer' \in [Issues -> Transactions \cup {None}]
    BY <1>1, <1>4 DEF Types, Store, Release
  <2>5. UNCHANGED <<sources, picked, found, moved, fresh, seen, used, purged, selfMerged,
                    skewed>>
    BY <1>4 DEF Store
  <2>6. QED
    BY <1>1, <1>2, <2>2, <2>3, <2>4, <2>5 DEF Types
<1>5. CASE AbortIngestion(e)
  BY <1>1, <1>5, <1>2 DEF Types, AbortIngestion, Release, rows, history
<1>6. QED
  BY <1>3, <1>4, <1>5

LEMMA TypesRequest ==
    ASSUME IInv, NEW a \in Admins,
           \/ BeginMerge(a) \/ BeginSplit(a) \/ CountChosen(a) \/ InsertIssue(a)
           \/ FindEvents(a) \/ MoveEvents(a) \/ CountEvents(a) \/ WriteTarget(a) \/ Abort(a)
    PROVE  Types'
<1>1. Types /\ a \in Transactions
  BY DEF IInv, TypeOK, Transactions
<1>2. pc' \in [Transactions -> Places]
  <2>1. \E place \in Places : Goto(a, place)
    BY DEF BeginMerge, BeginSplit, CountChosen, InsertIssue, FindEvents, MoveEvents,
           CountEvents, WriteTarget, Abort, Places
  <2>2. QED
    BY <1>1, <2>1, Moves
<1>3. CASE BeginMerge(a) \/ BeginSplit(a)
  BY <1>1, <1>3, <1>2 DEF Types, BeginMerge, BeginSplit, rows, history
<1>4. CASE CountChosen(a) \/ InsertIssue(a)
  <2>1. Cardinality({e \in picked[a] : home[e] \in sources[a]}) \in Nat
    BY <1>1, Cardinal DEF Types
  <2>2. QED
    BY <1>1, <1>4, <1>2, <2>1 DEF Types, CountChosen, InsertIssue, rows, history
<1>5. CASE FindEvents(a) \/ MoveEvents(a)
  BY <1>1, <1>5, <1>2 DEF Types, FindEvents, MoveEvents, Movable, Leaving, rows, history
<1>6. CASE CountEvents(a)
  <2> DEFINE S == {e \in Events :
                     HomeFor(a, e) \in (IF IsSplit(a) THEN sources[a] ELSE {issue[a]})}
  <2>1. Cardinality(S) \in Nat
    BY Cardinal
  <2>2. seen' = [seen EXCEPT ![a] = Cardinality(S)]
    BY <1>6 DEF CountEvents
  <2> HIDE DEF S
  <2>3. QED
    BY <1>1, <1>6, <1>2, <2>1, <2>2 DEF Types, CountEvents, rows, history
<1>7. CASE WriteTarget(a)
  BY <1>1, <1>7, <1>2 DEF Types, WriteTarget, rows, locals, history
<1>8. CASE Abort(a)
  BY <1>1, <1>8, <1>2 DEF Types, Abort, Release, Forget, rows
<1>9. QED
  BY <1>3, <1>4, <1>5, <1>6, <1>7, <1>8

LEMMA TypesOther ==
    ASSUME IInv,
           \/ \E S \in SUBSET Expired : Retain(S)
           \/ \E i \in Issues, f \in NewPrints : ChangeFingerprint(i, f)
    PROVE  Types'
<1>1. Types
  BY DEF IInv, TypeOK
<1>2. CASE \E S \in SUBSET Expired : Retain(S)
  <2>1. PICK S \in SUBSET Expired : Retain(S)
    BY <1>2
  <2>2. {home[e] : e \in S} \subseteq Issues
    BY <1>1, <2>1 DEF Types, Retain
  <2>3. QED
    BY <1>1, <2>1, <2>2 DEF Types, Retain, Overtake, locals
<1>3. CASE \E i \in Issues, f \in NewPrints : ChangeFingerprint(i, f)
  BY <1>1, <1>3 DEF Types, ChangeFingerprint, locals, history
<1>4. QED
  BY <1>2, <1>3

\* What Publish does to the rows, and to everybody else.
LEMMA Publishing ==
    ASSUME IInv, NEW a \in Admins, NEW D \in SUBSET Issues, Publish(a, D),
           pc[a] \in {"write", "delete"}
    PROVE  /\ issue[a] \in Issues
           /\ \A e \in Events :
                 home'[e] = IF HomeFor(a, e) \in D THEN None ELSE HomeFor(a, e)
           /\ \A e \in Events : HomeFor(a, e) \in Issues \cup {None}
           /\ \A i \in Issues :
                 print'[i] = IF i \in D THEN None
                             ELSE IF IsSplit(a) /\ i = issue[a] THEN inserting[a]
                             ELSE print[i]
           /\ IsSplit(a) <=> inserting[a] # None
           /\ \A i \in D : writer[i] \in {None, a} /\ Sharers(i) \subseteq {a}
           /\ \A b \in Admins \ {a} : \A e \in moved[b] : home'[e] = home[e]
<1>1. Types
  BY DEF IInv, TypeOK
<1>2. issue[a] \in Issues /\ (IsSplit(a) <=> inserting[a] # None)
  BY DEF IInv, AdminInv, Begun
<1>3. \A e \in Events : HomeFor(a, e) \in Issues \cup {None}
  BY <1>1, <1>2 DEF Types, HomeFor
<1>4. \A e \in Events :
         home'[e] = IF HomeFor(a, e) \in D THEN None ELSE HomeFor(a, e)
  BY DEF Publish
<1>5. \A i \in Issues :
         print'[i] = IF i \in D THEN None
                     ELSE IF IsSplit(a) /\ i = issue[a] THEN inserting[a] ELSE print[i]
  BY DEF Publish
<1>6. \A i \in D : writer[i] \in {None, a} /\ Sharers(i) \subseteq {a}
  BY DEF Publish, CanRekey, CanUpdate
<1>7. ASSUME NEW b \in Admins \ {a}, NEW e \in moved[b]
      PROVE  home'[e] = home[e]
  <2>1. e \in Events /\ e \notin moved[a]
    BY <1>1, <1>7 DEF IInv, MovedInv, Types
  <2>2. HomeFor(a, e) = home[e]
    BY <2>1 DEF HomeFor
  <2>3. e \in LockedFor(a)
    BY <1>7 DEF LockedFor
  <2>4. {q \in Events : HomeFor(a, q) \in D} \cap LockedFor(a) = {}
    <3>1. {q \in Events : [x \in Events |-> HomeFor(a, x)][q] \in D} \cap LockedFor(a) = {}
      BY DEF Publish
    <3>2. QED
      BY <3>1
  <2>5. home[e] \notin D
    BY <2>1, <2>2, <2>3, <2>4
  <2>6. QED
    BY <1>4, <2>1, <2>2, <2>5
<1>8. QED
  BY <1>2, <1>3, <1>4, <1>5, <1>6, <1>7

LEMMA TypesPublish ==
    ASSUME IInv, NEW a \in Admins, NEW D \in SUBSET Issues, Publish(a, D),
           pc[a] \in {"write", "delete"}
    PROVE  Types'
<1> DEFINE arrived == [e \in Events |-> HomeFor(a, e)]
           kept == IF IsSplit(a) THEN sources[a] \ D ELSE {issue[a]} \ D
           written == {i \in kept : Exists(i)} \cup (IF IsSplit(a) THEN {issue[a]} ELSE {})
<1>1. Types /\ a \in Transactions /\ issue[a] \in Issues
  BY Publishing DEF IInv, TypeOK, Transactions
<1>2. written \subseteq Issues
  BY <1>1 DEF Types
<1>3. home' \in [Events -> Issues \cup {None}]
  BY Publishing DEF Publish
<1>4. print' \in [Issues -> Fingerprints \cup {None}]
  BY <1>1 DEF Publish, Types
<1>5. count' = [i \in Issues |-> IF IsSplit(a) /\ i = issue[a] THEN fresh[a]
                                 ELSE IF i \in written THEN seen[a]
                                 ELSE count[i]]
  BY DEF Publish
<1>6. skewed' = IF a \in overtaken THEN skewed \cup written ELSE skewed \ written
  BY DEF Publish
<1> HIDE DEF written
<1>7. count' \in [Issues -> Nat] /\ skewed' \in SUBSET Issues
  BY <1>1, <1>2, <1>5, <1>6 DEF Types
<1>8. selfMerged' \in SUBSET Events /\ late' \in SUBSET Events
  BY <1>1 DEF Publish, Missed, Types
<1>9. overtaken' \in SUBSET Admins
  BY <1>1 DEF Publish, Types
<1>10. pc' \in [Transactions -> Places]
  BY <1>1, Moves DEF Publish, Places
<1>11. /\ writer' \in [Issues -> Transactions \cup {None}]
       /\ inserting' \in [Transactions -> Fingerprints \cup {None}]
  BY <1>1 DEF Publish, Types, Release
<1>12. /\ issue' \in [Transactions -> Issues \cup {None}]
       /\ sources' \in [Admins -> SUBSET Issues]
       /\ picked' \in [Admins -> SUBSET Events]
       /\ found' \in [Admins -> SUBSET Events]
       /\ moved' \in [Admins -> SUBSET Events]
       /\ fresh' \in [Admins -> Nat]
       /\ seen' \in [Admins -> Nat]
  BY <1>1 DEF Publish, Types, Forget
<1>13. used' \in SUBSET Issues /\ purged' \in SUBSET Events
  BY <1>1 DEF Publish, Types
<1>14. QED
  BY <1>3, <1>4, <1>7, <1>8, <1>9, <1>10, <1>11, <1>12, <1>13 DEF Types

\* A request's last step publishes without a deletion, or deletes its sources.
Ends(a) ==
    \E D \in SUBSET Issues :
        /\ Publish(a, D)
        /\ \/ D = {} /\ pc[a] = "write" /\ IsSplit(a)
           \/ D = sources[a] /\ pc[a] = "delete"

\* Its other steps change no row.
Works(a) ==
    \/ BeginMerge(a) \/ BeginSplit(a) \/ CountChosen(a) \/ InsertIssue(a)
    \/ FindEvents(a) \/ MoveEvents(a) \/ CountEvents(a) \/ WriteTarget(a) \/ Abort(a)

Ingests(e) == Upsert(e) \/ Store(e) \/ AbortIngestion(e)
Retains == \E S \in SUBSET Expired : Retain(S)
Rekeys == \E i \in Issues, f \in NewPrints : ChangeFingerprint(i, f)

LEMMA Steps ==
    ASSUME IInv, Next
    PROVE  \/ \E e \in Events : Ingests(e)
           \/ \E a \in Admins : Works(a) \/ Ends(a)
           \/ Retains \/ Rekeys
<1>1. ASSUME NEW a \in Admins, WriteRest(a) PROVE Ends(a)
  BY <1>1 DEF WriteRest, Ends
<1>2. ASSUME NEW a \in Admins, DeleteSources(a) PROVE Ends(a)
  BY <1>2 DEF DeleteSources, Ends, IInv, TypeOK, Types
<1>3. QED
  BY <1>1, <1>2 DEF Next, Ingests, Works, Retains, Rekeys

LEMMA TypesStep ==
    ASSUME IInv, Next
    PROVE  Types'
<1>1. ASSUME NEW a \in Admins, Ends(a) PROVE Types'
  BY <1>1, TypesPublish DEF Ends
<1>2. QED
  BY <1>1, Steps, TypesIngest, TypesRequest, TypesOther DEF Ingests, Works, Retains, Rekeys

\* The steps of a request leave the variables of the others alone.
Alone(a) ==
    /\ \A t \in Transactions \ {a} :
          pc'[t] = pc[t] /\ issue'[t] = issue[t] /\ inserting'[t] = inserting[t]
    /\ \A b \in Admins \ {a} :
          /\ sources'[b] = sources[b] /\ picked'[b] = picked[b]
          /\ found'[b] = found[b] /\ moved'[b] = moved[b]
          /\ fresh'[b] = fresh[b] /\ seen'[b] = seen[b]

LEMMA WorksAlone ==
    ASSUME IInv, NEW a \in Admins, Works(a)
    PROVE  Alone(a) /\ UNCHANGED rows
<1>1. Types
  BY DEF IInv, TypeOK
<1>2. CASE BeginMerge(a) \/ BeginSplit(a) \/ CountChosen(a) \/ InsertIssue(a)
  BY <1>1, <1>2 DEF BeginMerge, BeginSplit, CountChosen, InsertIssue, Goto, Alone, Types
<1>3. CASE FindEvents(a) \/ MoveEvents(a) \/ CountEvents(a) \/ WriteTarget(a)
  BY <1>1, <1>3 DEF FindEvents, MoveEvents, CountEvents, WriteTarget, Goto, Alone, Types, locals
<1>4. CASE Abort(a)
  BY <1>1, <1>4 DEF Abort, Goto, Release, Forget, Alone, Types
<1>5. QED
  BY <1>2, <1>3, <1>4 DEF Works

LEMMA EndsAlone ==
    ASSUME IInv, NEW a \in Admins, Ends(a)
    PROVE  Alone(a)
BY DEF IInv, TypeOK, Types, Ends, Publish, Goto, Release, Forget, Alone

LEMMA IngestsAlone ==
    ASSUME IInv, NEW e \in Events, Ingests(e)
    PROVE  Alone(e)
<1>1. Types /\ e \notin Admins
  BY DEF IInv, TypeOK
<1>2. CASE Upsert(e)
  BY <1>1, <1>2 DEF Types, Upsert, Goto, Alone
<1>3. CASE Store(e)
  BY <1>1, <1>3 DEF Types, Store, Goto, Release, Alone
<1>4. CASE AbortIngestion(e)
  BY <1>1, <1>4 DEF Types, AbortIngestion, Goto, Release, Alone
<1>5. QED
  BY <1>2, <1>3, <1>4 DEF Ingests

-----------------------------------------------------------------------------
(* Keys: the foreign key of events and the fingerprints of issues. *)

LEMMA KeysStep ==
    ASSUME IInv, Next
    PROVE  ForeignKey' /\ UniquePrints'
<1>1. Types /\ ForeignKey /\ UniquePrints
  BY DEF IInv, TypeOK
<1>2. CASE \E e \in Events : Ingests(e)
  <2>1. PICK e \in Events : Ingests(e)
    BY <1>2
  <2>2. CASE Upsert(e) \/ AbortIngestion(e)
    BY <1>1, <2>2 DEF Upsert, AbortIngestion, rows, ForeignKey, UniquePrints, Exists
  <2>3. CASE Store(e)
    <3>1. /\ issue[e] \in Issues
          /\ inserting[e] = None => Exists(issue[e])
          /\ inserting[e] # None => ~Taken(inserting[e])
      BY <1>1, <2>3 DEF Store, IInv, IngestInv, InsertInv, Types, Transactions
    <3>2. /\ print' = [print EXCEPT ![issue[e]] =
                         IF inserting[e] = None THEN @ ELSE inserting[e]]
          /\ home' = [home EXCEPT ![e] = issue[e]]
      BY <2>3 DEF Store
    <3>3. ForeignKey'
      BY <1>1, <3>1, <3>2 DEF ForeignKey, Exists, Types
    <3>4. UniquePrints'
      BY <1>1, <3>1, <3>2 DEF UniquePrints, Exists, Types, Taken
    <3>5. QED
      BY <3>3, <3>4
  <2>4. QED
    BY <2>1, <2>2, <2>3 DEF Ingests
<1>3. CASE \E a \in Admins : Works(a)
  BY <1>1, <1>3, WorksAlone DEF rows, ForeignKey, UniquePrints, Exists
<1>4. CASE \E a \in Admins : Ends(a)
  <2>1. PICK a \in Admins, D \in SUBSET Issues :
           Publish(a, D) /\ pc[a] \in {"write", "delete"}
    BY <1>4 DEF Ends
  <2>2. /\ issue[a] \in Issues
        /\ \A e \in Events :
              home'[e] = IF HomeFor(a, e) \in D THEN None ELSE HomeFor(a, e)
        /\ \A i \in Issues :
              print'[i] = IF i \in D THEN None
                          ELSE IF IsSplit(a) /\ i = issue[a] THEN inserting[a]
                          ELSE print[i]
        /\ IsSplit(a) <=> inserting[a] # None
        /\ \A e \in Events : HomeFor(a, e) \in Issues \cup {None}
    BY <2>1, Publishing
  <2>3. moved[a] # {} => IsSplit(a) \/ Exists(issue[a])
    BY DEF IInv, MovedInv
  <2>4. IsSplit(a) => ~Taken(inserting[a])
    BY <2>2 DEF IInv, InsertInv, Transactions
  <2>5. ASSUME NEW e \in Events, home'[e] # None
        PROVE  print'[home'[e]] # None
    <3>1. home'[e] = HomeFor(a, e) /\ home'[e] \in Issues \ D
      BY <2>2, <2>5
    <3>2. CASE e \in moved[a]
      BY <2>2, <2>3, <3>1, <3>2 DEF HomeFor, Exists
    <3>3. CASE e \notin moved[a]
      BY <1>1, <2>2, <2>5, <3>1, <3>3 DEF HomeFor, ForeignKey, Exists
    <3>4. QED
      BY <3>2, <3>3
  <2>6. UniquePrints'
    BY <1>1, <2>2, <2>4 DEF UniquePrints, Exists, Taken
  <2>7. QED
    BY <2>5, <2>6 DEF ForeignKey, Exists
<1>5. CASE Retains
  <2>1. print' = print /\ \A e \in Events : home'[e] \in {None, home[e]}
    BY <1>5 DEF Retains, Retain
  <2>2. QED
    BY <1>1, <2>1 DEF ForeignKey, UniquePrints, Exists
<1>6. CASE Rekeys
  BY <1>1, <1>6 DEF Rekeys, ChangeFingerprint, ForeignKey, UniquePrints, Exists, Taken, Types
<1>7. QED
  BY Steps, <1>2, <1>3, <1>4, <1>5, <1>6

-----------------------------------------------------------------------------
(* Ids, and the locks of those who insert an issue or ingest an event. *)

LEMMA UsedStep ==
    ASSUME IInv, Next
    PROVE  UsedInv'
<1>1. Types /\ UsedInv /\ InsertInv /\ IngestInv
  BY DEF IInv, TypeOK
<1>2. CASE \E e \in Events : Ingests(e)
  <2>1. PICK e \in Events : Ingests(e)
    BY <1>2
  <2>2. CASE Upsert(e)
    BY <1>1, <2>2 DEF Upsert, rows, UsedInv, Exists, Types
  <2>3. CASE Store(e)
    BY <1>1, <2>3 DEF Store, Release, UsedInv, IngestInv, Exists, Types
  <2>4. CASE AbortIngestion(e)
    BY <1>1, <2>4 DEF AbortIngestion, Release, rows, UsedInv, Exists, Types
  <2>5. QED
    BY <2>1, <2>2, <2>3, <2>4 DEF Ingests
<1>3. CASE \E a \in Admins : Works(a)
  <2>1. PICK a \in Admins : Works(a)
    BY <1>3
  <2>2. CASE InsertIssue(a)
    BY <1>1, <2>2 DEF InsertIssue, rows, UsedInv, Exists, Types
  <2>3. CASE WriteTarget(a)
    BY <1>1, <2>3 DEF WriteTarget, rows, UsedInv, Exists, Types
  <2>4. CASE Abort(a)
    BY <1>1, <2>4 DEF Abort, Release, rows, UsedInv, Exists, Types
  <2>5. CASE \/ BeginMerge(a) \/ BeginSplit(a) \/ CountChosen(a)
             \/ FindEvents(a) \/ MoveEvents(a) \/ CountEvents(a)
    BY <1>1, <2>5 DEF BeginMerge, BeginSplit, CountChosen, FindEvents, MoveEvents,
                      CountEvents, rows, UsedInv, Exists
  <2>6. QED
    BY <2>1, <2>2, <2>3, <2>4, <2>5 DEF Works
<1>4. CASE \E a \in Admins : Ends(a)
  <2>1. PICK a \in Admins, D \in SUBSET Issues :
           Publish(a, D) /\ pc[a] \in {"write", "delete"}
    BY <1>4 DEF Ends
  <2>2. /\ \A i \in Issues :
              print'[i] = IF i \in D THEN None
                          ELSE IF IsSplit(a) /\ i = issue[a] THEN inserting[a]
                          ELSE print[i]
        /\ IsSplit(a) <=> inserting[a] # None
    BY <2>1, Publishing
  <2>3. IsSplit(a) => issue[a] \in used
    BY <1>1, <2>2 DEF InsertInv, Transactions
  <2>4. \A i \in Issues : ~Exists(i) /\ ~(IsSplit(a) /\ i = issue[a]) =>
           count'[i] = count[i]
    BY <2>1 DEF Publish
  <2>5. used' = used /\ \A i \in Issues : writer'[i] \in {None, writer[i]}
    BY <2>1 DEF Publish, Release
  <2>6. QED
    BY <1>1, <2>2, <2>3, <2>4, <2>5 DEF UsedInv, Exists
<1>5. CASE Retains \/ Rekeys
  BY <1>1, <1>5 DEF Retains, Retain, Rekeys, ChangeFingerprint, UsedInv, Exists, Types
<1>6. QED
  BY Steps, <1>2, <1>3, <1>4, <1>5

LEMMA IngestStep ==
    ASSUME IInv, Next
    PROVE  IngestInv'
<1>1. Types /\ UsedInv /\ InsertInv /\ IngestInv
  BY DEF IInv, TypeOK
<1>2. CASE \E e \in Events : Ingests(e)
  <2>1. PICK e \in Events : Ingests(e)
    BY <1>2
  <2>2. CASE Upsert(e)
    BY <1>1, <2>2 DEF Upsert, Goto, CanUpdate, rows, IngestInv, UsedInv, Exists, Types,
                      Transactions
  <2>3. CASE Store(e)
    BY <1>1, <2>3 DEF Store, Goto, Release, IngestInv, Exists, Types, Transactions
  <2>4. CASE AbortIngestion(e)
    BY <1>1, <2>4 DEF AbortIngestion, Goto, Release, rows, IngestInv, Exists, Types,
                      Transactions
  <2>5. QED
    BY <2>1, <2>2, <2>3, <2>4 DEF Ingests
<1>3. CASE \E a \in Admins : Works(a)
  <2>1. PICK a \in Admins : Works(a)
    BY <1>3
  <2>2. /\ UNCHANGED rows
        /\ \A e \in Events :
              pc'[e] = pc[e] /\ issue'[e] = issue[e] /\ inserting'[e] = inserting[e]
    BY <2>1, WorksAlone DEF Alone, Transactions
  <2>3. used \subseteq used' /\ \A e \in Events, i \in used : writer[i] = e => writer'[i] = e
    <3>1. CASE InsertIssue(a)
      BY <1>1, <3>1 DEF InsertIssue, Types
    <3>2. CASE WriteTarget(a)
      BY <1>1, <3>2 DEF WriteTarget, CanUpdate, Types
    <3>3. CASE Abort(a)
      BY <1>1, <3>3 DEF Abort, Release, Types
    <3>4. CASE \/ BeginMerge(a) \/ BeginSplit(a) \/ CountChosen(a)
               \/ FindEvents(a) \/ MoveEvents(a) \/ CountEvents(a)
      BY <3>4 DEF BeginMerge, BeginSplit, CountChosen, FindEvents, MoveEvents, CountEvents
    <3>5. QED
      BY <2>1, <3>1, <3>2, <3>3, <3>4 DEF Works
  <2>4. QED
    BY <1>1, <2>2, <2>3 DEF IngestInv, Exists, rows
<1>4. CASE \E a \in Admins : Ends(a)
  <2>1. PICK a \in Admins, D \in SUBSET Issues :
           Publish(a, D) /\ pc[a] \in {"write", "delete"} /\ Ends(a)
    BY <1>4 DEF Ends
  <2>2. /\ \A e \in Events :
              home'[e] = IF HomeFor(a, e) \in D THEN None ELSE HomeFor(a, e)
        /\ \A i \in Issues :
              print'[i] = IF i \in D THEN None
                          ELSE IF IsSplit(a) /\ i = issue[a] THEN inserting[a]
                          ELSE print[i]
        /\ IsSplit(a) <=> inserting[a] # None
        /\ \A i \in D : writer[i] \in {None, a}
    BY <2>1, Publishing
  <2>3. \A e \in Events :
           pc'[e] = pc[e] /\ issue'[e] = issue[e] /\ inserting'[e] = inserting[e]
    BY <2>1, EndsAlone DEF Alone, Transactions
  <2>4. used' = used /\ \A e \in Events, i \in Issues : writer[i] = e => writer'[i] = e
    BY <1>1, <2>1 DEF Publish, Release
  <2>5. \A e \in Events : home[e] = None => home'[e] = None
    <3>1. \A e \in moved[a] : home[e] # None
      BY <1>1 DEF IInv, MovedInv, Types
    <3>2. QED
      BY <2>2, <3>1 DEF HomeFor
  <2>6. \A e \in Events : pc[e] = "upserted" /\ Exists(issue[e]) => print'[issue[e]] # None
    BY <1>1, <2>2 DEF IngestInv, Exists, Types
  <2>7. QED
    BY <1>1, <2>3, <2>4, <2>5, <2>6 DEF IngestInv, Exists, Types
<1>5. CASE Retains
  BY <1>1, <1>5 DEF Retains, Retain, locals, IngestInv, Exists
<1>6. CASE Rekeys
  BY <1>1, <1>6 DEF Rekeys, ChangeFingerprint, locals, IngestInv, Exists, Types
<1>7. QED
  BY Steps, <1>2, <1>3, <1>4, <1>5, <1>6

LEMMA InsertStep ==
    ASSUME IInv, Next
    PROVE  InsertInv'
<1>1. Types /\ UsedInv /\ InsertInv /\ IngestInv /\ AdminInv
  BY DEF IInv, TypeOK
<1>2. CASE \E e \in Events : Ingests(e)
  <2>1. PICK e \in Events : Ingests(e)
    BY <1>2
  <2> e \in Transactions
    BY DEF Transactions
  <2>2. CASE Upsert(e)
    <3> SUFFICES ASSUME NEW t \in Transactions, inserting'[t] # None
                 PROVE  /\ issue'[t] \in used'
                        /\ writer'[issue'[t]] = t
                        /\ print'[issue'[t]] = None
                        /\ count'[issue'[t]] = 0
                        /\ \A i \in Issues : print'[i] # inserting'[t]
                        /\ \A u \in Transactions : inserting'[u] = inserting'[t] => u = t
      BY DEF InsertInv, Exists, Taken
    <3>1. CASE t = e
      BY <1>1, <2>2, <3>1 DEF Upsert, rows, IngestInv, UsedInv, Exists, Types, Taken, Pending
    <3>2. CASE t # e
      BY <1>1, <2>2, <3>2 DEF Upsert, CanUpdate, rows, InsertInv, UsedInv, Exists, Types,
                              Taken, Pending
    <3>3. QED
      BY <3>1, <3>2
  <2>3. CASE Store(e)
    BY <1>1, <2>3 DEF Store, Release, InsertInv, IngestInv, Exists, Types, Taken
  <2>4. CASE AbortIngestion(e)
    BY <1>1, <2>4 DEF AbortIngestion, Release, rows, InsertInv, Exists, Types, Taken
  <2>5. QED
    BY <2>1, <2>2, <2>3, <2>4 DEF Ingests
<1>3. CASE \E a \in Admins : Works(a)
  <2>1. PICK a \in Admins : Works(a)
    BY <1>3
  <2> a \in Transactions
    BY DEF Transactions
  <2>2. CASE InsertIssue(a)
    <3> SUFFICES ASSUME NEW t \in Transactions, inserting'[t] # None
                 PROVE  /\ issue'[t] \in used'
                        /\ writer'[issue'[t]] = t
                        /\ print'[issue'[t]] = None
                        /\ count'[issue'[t]] = 0
                        /\ \A i \in Issues : print'[i] # inserting'[t]
                        /\ \A u \in Transactions : inserting'[u] = inserting'[t] => u = t
      BY DEF InsertInv, Exists, Taken
    <3>1. CASE t = a
      BY <1>1, <2>2, <3>1 DEF InsertIssue, rows, UsedInv, Exists, Types, Taken, Pending
    <3>2. CASE t # a
      BY <1>1, <2>2, <3>2 DEF InsertIssue, rows, InsertInv, UsedInv, Exists, Types,
                              Taken, Pending
    <3>3. QED
      BY <3>1, <3>2
  <2>3. CASE WriteTarget(a)
    BY <1>1, <2>3 DEF WriteTarget, CanUpdate, rows, locals, InsertInv, Exists, Types, Taken
  <2>4. CASE Abort(a)
    BY <1>1, <2>4 DEF Abort, Release, Forget, rows, InsertInv, Exists, Types, Taken
  <2>5. CASE BeginMerge(a)
    BY <1>1, <2>5 DEF BeginMerge, rows, InsertInv, AdminInv, Begun, Exists, Types, Taken
  <2>6. CASE \/ BeginSplit(a) \/ CountChosen(a)
             \/ FindEvents(a) \/ MoveEvents(a) \/ CountEvents(a)
    BY <1>1, <2>6 DEF BeginSplit, CountChosen, FindEvents, MoveEvents, CountEvents, rows,
                      InsertInv, Exists, Taken
  <2>7. QED
    BY <2>1, <2>2, <2>3, <2>4, <2>5, <2>6 DEF Works
<1>4. CASE \E a \in Admins : Ends(a)
  <2>1. PICK a \in Admins, D \in SUBSET Issues :
           Publish(a, D) /\ pc[a] \in {"write", "delete"} /\ Ends(a)
    BY <1>4 DEF Ends
  <2> a \in Transactions
    BY DEF Transactions
  <2>2. /\ \A i \in Issues :
              print'[i] = IF i \in D THEN None
                          ELSE IF IsSplit(a) /\ i = issue[a] THEN inserting[a]
                          ELSE print[i]
        /\ IsSplit(a) <=> inserting[a] # None
    BY <2>1, Publishing
  <2>3. /\ inserting'[a] = None /\ used' = used
        /\ \A t \in Transactions \ {a}, i \in Issues : writer[i] = t => writer'[i] = t
    BY <1>1, <2>1 DEF Publish, Release, Types
  <2>4. \A t \in Transactions \ {a} :
           issue'[t] = issue[t] /\ inserting'[t] = inserting[t]
    BY <2>1, EndsAlone DEF Alone
  <2>5. \A i \in Issues : ~Exists(i) /\ ~(IsSplit(a) /\ i = issue[a]) =>
           count'[i] = count[i]
    BY <2>1 DEF Publish
  <2>6. ASSUME NEW t \in Transactions, inserting'[t] # None
        PROVE  /\ issue'[t] \in used'
               /\ writer'[issue'[t]] = t
               /\ print'[issue'[t]] = None
               /\ count'[issue'[t]] = 0
               /\ \A i \in Issues : print'[i] # inserting'[t]
               /\ \A u \in Transactions : inserting'[u] = inserting'[t] => u = t
    <3>1. t # a /\ inserting[t] # None /\ issue[t] \in Issues
      BY <1>1, <2>3, <2>4, <2>6 DEF InsertInv, Types
    <3>2. ~(IsSplit(a) /\ issue[t] = issue[a])
      BY <1>1, <2>2, <3>1 DEF InsertInv
    <3>3. IsSplit(a) => inserting[a] # inserting[t]
      BY <1>1, <3>1 DEF InsertInv
    <3>4. QED
      BY <1>1, <2>2, <2>3, <2>4, <2>5, <3>1, <3>2, <3>3 DEF InsertInv, Exists, Taken
  <2>7. QED
    BY <2>6 DEF InsertInv, Exists, Taken
<1>5. CASE Retains
  BY <1>1, <1>5 DEF Retains, Retain, locals, InsertInv, Exists, Taken
<1>6. CASE Rekeys
  BY <1>1, <1>6 DEF Rekeys, ChangeFingerprint, locals, InsertInv, Exists, Types, Taken, Pending
<1>7. QED
  BY Steps, <1>2, <1>3, <1>4, <1>5, <1>6

-----------------------------------------------------------------------------
(* Requests: what they know, what they have locked, and what they will delete. *)

LEMMA OthersSame ==
    ASSUME IInv, Next
    PROVE  \A b \in Admins :
              \/ Works(b) \/ Ends(b)
              \/ /\ pc'[b] = pc[b] /\ issue'[b] = issue[b] /\ inserting'[b] = inserting[b]
                 /\ sources'[b] = sources[b] /\ picked'[b] = picked[b]
                 /\ found'[b] = found[b] /\ moved'[b] = moved[b]
                 /\ fresh'[b] = fresh[b] /\ seen'[b] = seen[b]
<1>1. CASE \E e \in Events : Ingests(e)
  BY <1>1, IngestsAlone DEF Alone, Transactions
<1>2. CASE \E a \in Admins : Works(a) \/ Ends(a)
  BY <1>2, WorksAlone, EndsAlone DEF Alone, Transactions
<1>3. CASE Retains \/ Rekeys
  BY <1>3 DEF Retains, Retain, Rekeys, ChangeFingerprint, locals
<1>4. QED
  BY Steps, <1>1, <1>2, <1>3

LEMMA AdminStep ==
    ASSUME IInv, Next
    PROVE  AdminInv'
<1>1. Types /\ AdminInv
  BY DEF IInv, TypeOK
<1> SUFFICES ASSUME NEW a \in Admins
             PROVE  /\ pc'[a] \in {"new", "insert", "chosen", "done", "aborted"} \cup Begun
                    /\ pc'[a] = "new" => picked'[a] = {}
                    /\ pc'[a] \in {"insert", "chosen"} => picked'[a] # {}
                    /\ pc'[a] \in {"insert", "chosen"} \cup Begun /\ picked'[a] # {} =>
                          \E i \in Issues : sources'[a] = {i}
                    /\ pc'[a] \in Begun => issue'[a] \in Issues
                    /\ inserting'[a] # None <=> pc'[a] \in Begun /\ picked'[a] # {}
                    /\ pc'[a] # "moving" => found'[a] = {}
                    /\ pc'[a] \notin HasMoved => moved'[a] = {}
  BY DEF AdminInv, IsSplit
<1> a \in Transactions
  BY DEF Transactions
<1>2. CASE Works(a)
  <2>1. CASE BeginMerge(a)
    BY <1>1, <2>1 DEF BeginMerge, Goto, AdminInv, Types, IsSplit, Begun, HasMoved
  <2>2. CASE BeginSplit(a)
    BY <1>1, <2>2 DEF BeginSplit, Goto, AdminInv, Types, IsSplit, Begun, HasMoved
  <2>3. CASE CountChosen(a) \/ InsertIssue(a)
    BY <1>1, <2>3 DEF CountChosen, InsertIssue, Goto, AdminInv, Types, IsSplit, Begun, HasMoved
  <2>4. CASE FindEvents(a) \/ MoveEvents(a)
    BY <1>1, <2>4 DEF FindEvents, MoveEvents, Goto, AdminInv, Types, IsSplit, Begun, HasMoved
  <2>5. CASE CountEvents(a)
    <3>1. /\ pc[a] = "count" /\ pc'[a] \in {"write", "delete"}
          /\ UNCHANGED <<issue, sources, picked, inserting, found, moved>>
      BY <1>1, <2>5 DEF CountEvents, Goto, Types
    <3>2. QED
      BY <1>1, <3>1 DEF AdminInv, IsSplit, Begun, HasMoved
  <2>6. CASE WriteTarget(a)
    BY <1>1, <2>6 DEF WriteTarget, Goto, locals, AdminInv, Types, IsSplit, Begun, HasMoved
  <2>7. CASE Abort(a)
    BY <1>1, <2>7 DEF Abort, Goto, Release, Forget, AdminInv, Types, IsSplit, Begun, HasMoved
  <2>8. QED
    BY <1>2, <2>1, <2>2, <2>3, <2>4, <2>5, <2>6, <2>7 DEF Works
<1>3. CASE Ends(a)
  BY <1>1, <1>3 DEF Ends, Publish, Goto, Release, Forget, AdminInv, Types, IsSplit, Begun,
                    HasMoved
<1>4. CASE ~Works(a) /\ ~Ends(a)
  BY <1>1, <1>4, OthersSame DEF AdminInv, IsSplit
<1>5. QED
  BY <1>2, <1>3, <1>4

\* Nobody but the request itself changes a row of an event it has moved.
LEMMA Locked ==
    ASSUME IInv, Next, NEW b \in Admins, ~Ends(b)
    PROVE  \A e \in moved[b] : home'[e] = home[e]
<1>1. Types /\ MovedInv /\ IngestInv
  BY DEF IInv, TypeOK
<1>2. \A e \in moved[b] : e \in Events /\ home[e] # None
  BY <1>1 DEF MovedInv, Types
<1>3. CASE \E e \in Events : Ingests(e)
  BY <1>1, <1>2, <1>3 DEF Ingests, Upsert, Store, AbortIngestion, rows, IngestInv, Types
<1>4. CASE \E a \in Admins : Works(a)
  BY <1>2, <1>4, WorksAlone DEF rows
<1>5. CASE \E a \in Admins : Ends(a)
  <2>1. PICK a \in Admins, D \in SUBSET Issues :
           Publish(a, D) /\ pc[a] \in {"write", "delete"} /\ a # b
    BY <1>5 DEF Ends
  <2>2. QED
    BY <2>1, Publishing
<1>6. CASE Retains \/ Rekeys
  BY <1>2, <1>6 DEF Retains, Retain, Rekeys, ChangeFingerprint
<1>7. QED
  BY Steps, <1>3, <1>4, <1>5, <1>6

\* Nobody deletes the issue that a request has moved events to.
LEMMA TargetStays ==
    ASSUME IInv, Next, NEW b \in Admins, ~Ends(b), moved[b] # {}, Exists(issue[b]),
           issue[b] \in Issues
    PROVE  print'[issue[b]] # None
<1>1. Types
  BY DEF IInv, TypeOK
<1>2. CASE \E e \in Events : Ingests(e)
  BY <1>1, <1>2 DEF Ingests, Upsert, Store, AbortIngestion, rows, Types, Exists
<1>3. CASE \E a \in Admins : Works(a)
  BY <1>3, WorksAlone DEF rows, Exists
<1>4. CASE \E a \in Admins : Ends(a)
  <2>1. PICK a \in Admins, D \in SUBSET Issues :
           Publish(a, D) /\ pc[a] \in {"write", "delete"} /\ a # b
    BY <1>4 DEF Ends
  <2>2. b \in Sharers(issue[b])
    BY DEF Sharers
  <2>3. /\ \A i \in D : Sharers(i) \subseteq {a}
        /\ \A i \in Issues :
              print'[i] = IF i \in D THEN None
                          ELSE IF IsSplit(a) /\ i = issue[a] THEN inserting[a]
                          ELSE print[i]
        /\ IsSplit(a) <=> inserting[a] # None
    BY <2>1, Publishing
  <2>4. QED
    BY <2>1, <2>2, <2>3 DEF Exists
<1>5. CASE Retains
  BY <1>5 DEF Retains, Retain, Exists
<1>6. CASE Rekeys
  BY <1>1, <1>6 DEF Rekeys, ChangeFingerprint, Types, Exists
<1>7. QED
  BY Steps, <1>2, <1>3, <1>4, <1>5, <1>6

LEMMA MovedStep ==
    ASSUME IInv, Next
    PROVE  MovedInv'
<1>1. Types /\ AdminInv /\ MovedInv
  BY DEF IInv, TypeOK
<1>2. ASSUME NEW b \in Admins, ~Ends(b), ~MoveEvents(b)
      PROVE  moved'[b] \in {{}, moved[b]}
  <2>1. CASE Abort(b)
    BY <1>1, <2>1 DEF Abort, Forget, Types
  <2>2. CASE Works(b) /\ ~Abort(b)
    BY <1>2, <2>2 DEF Works, BeginMerge, BeginSplit, CountChosen, InsertIssue, FindEvents,
                      CountEvents, WriteTarget, locals
  <2>3. CASE ~Works(b)
    BY <1>2, <2>3, OthersSame
  <2>4. QED
    BY <2>1, <2>2, <2>3
<1>3. \A b \in Admins : Ends(b) => moved'[b] = {}
  BY <1>1 DEF Ends, Publish, Forget, Types
<1>4. ASSUME NEW a \in Admins, MoveEvents(a)
      PROVE  /\ \A e \in moved'[a] : home'[e] \in sources'[a]
             /\ moved'[a] \cap LockedFor(a) = {}
             /\ moved'[a] # {} => picked'[a] # {} \/ print'[issue'[a]] # None
             /\ \A b \in Admins \ {a} : moved'[b] = moved[b]
  BY <1>1, <1>4 DEF MoveEvents, Movable, Leaving, rows, Types, IsSplit, Exists
<1>5. ASSUME NEW b \in Admins, ~Ends(b), ~MoveEvents(b), moved'[b] # {}
      PROVE  /\ \A e \in moved'[b] : home'[e] \in sources'[b]
             /\ picked'[b] # {} \/ print'[issue'[b]] # None
  <2>1. moved'[b] = moved[b] /\ pc[b] \in HasMoved /\ issue[b] \in Issues
    BY <1>1, <1>2, <1>5 DEF AdminInv, HasMoved, Begun
  <2>2. ~Abort(b)
    BY <1>1, <1>5 DEF Abort, Forget, Types
  <2>3. issue'[b] = issue[b] /\ sources'[b] = sources[b] /\ picked'[b] = picked[b]
    BY <1>5, <2>1, <2>2, OthersSame
    DEF Works, BeginMerge, BeginSplit, CountChosen, InsertIssue, FindEvents, CountEvents,
        WriteTarget, locals, HasMoved
  <2>4. \A e \in moved[b] : home'[e] = home[e] /\ home[e] \in sources[b]
    BY <1>1, <1>5, Locked DEF MovedInv
  <2>5. picked[b] # {} \/ Exists(issue[b])
    BY <1>1, <1>5, <2>1 DEF MovedInv, IsSplit
  <2>6. Exists(issue[b]) => print'[issue[b]] # None
    BY <1>5, <2>1, TargetStays
  <2>7. QED
    BY <2>1, <2>3, <2>4, <2>5, <2>6
<1>6. ASSUME NEW a \in Admins, NEW b \in Admins \ {a}
      PROVE  moved'[a] \cap moved'[b] = {}
  <2>1. CASE MoveEvents(a)
    BY <1>4, <2>1 DEF LockedFor
  <2>2. CASE MoveEvents(b)
    BY <1>4, <2>2 DEF LockedFor
  <2>3. CASE ~MoveEvents(a) /\ ~MoveEvents(b)
    BY <1>1, <1>2, <1>3, <2>3 DEF MovedInv
  <2>4. QED
    BY <2>1, <2>2, <2>3
<1>7. QED
  BY <1>3, <1>4, <1>5, <1>6 DEF MovedInv, IsSplit, Exists

LEMMA EmptyStep ==
    ASSUME IInv, Next
    PROVE  EmptyInv'
<1>1. Types /\ AdminInv /\ MovedInv /\ EmptyInv /\ IngestInv
  BY DEF IInv, TypeOK
<1> SUFFICES ASSUME NEW a \in Admins, pc'[a] \in {"moving"} \cup HasMoved,
                    picked'[a] # {} => pc'[a] = "delete",
                    NEW e \in Events, home'[e] \in sources'[a]
             PROVE  e \in found'[a] \cup moved'[a] \cup late'
  BY DEF EmptyInv, IsSplit
<1> a \in Transactions /\ e \in Transactions
  BY DEF Transactions
<1>2. CASE Works(a)
  <2>1. home' = home /\ late' = late
    BY <1>2, WorksAlone DEF Works, BeginMerge, BeginSplit, CountChosen, InsertIssue,
                            FindEvents, MoveEvents, CountEvents, WriteTarget, Abort,
                            rows, history
  <2>2. CASE FindEvents(a)
    BY <1>1, <2>1, <2>2 DEF FindEvents, Movable, Goto, Types, IsSplit, HasMoved
  <2>3. CASE MoveEvents(a)
    <3>1. /\ pc[a] = "moving" /\ pc'[a] = "count" /\ picked' = picked
          /\ sources' = sources /\ moved'[a] = Leaving(a)
      BY <1>1, <2>3 DEF MoveEvents, Goto, Types
    <3>2. ~IsSplit(a) /\ e \in found[a] \cup late
      BY <1>1, <2>1, <3>1 DEF EmptyInv, AdminInv, IsSplit, HasMoved
    <3>3. QED
      BY <2>1, <3>1, <3>2 DEF Leaving, Movable
  <2>4. CASE CountEvents(a)
    <3> DEFINE S == {q \in Events :
                       HomeFor(a, q) \in (IF IsSplit(a) THEN sources[a] ELSE {issue[a]})}
    <3>1. /\ pc[a] = "count" /\ found' = found /\ moved' = moved
          /\ sources' = sources /\ picked' = picked
          /\ pc'[a] = IF IsSplit(a) /\ Cardinality(S) = 0 THEN "delete" ELSE "write"
      BY <1>1, <2>4 DEF CountEvents, Goto, Types
    <3>2. Cardinality(S) = 0 => S = {}
      BY Cardinal, FS_EmptySet
    <3>3. CASE IsSplit(a)
      <4>1. S = {}
        BY <3>1, <3>2, <3>3 DEF IsSplit
      <4>2. HomeFor(a, e) \notin sources[a]
        BY <3>3, <4>1
      <4>3. QED
        BY <2>1, <3>1, <4>2 DEF HomeFor
    <3>4. CASE ~IsSplit(a)
      BY <1>1, <2>1, <3>1, <3>4 DEF EmptyInv, HasMoved
    <3>5. QED
      BY <3>3, <3>4
  <2>5. CASE WriteTarget(a)
    BY <1>1, <2>1, <2>5 DEF WriteTarget, locals, EmptyInv, HasMoved
  <2>6. CASE BeginMerge(a) \/ BeginSplit(a) \/ CountChosen(a) \/ InsertIssue(a) \/ Abort(a)
    BY <1>1, <2>6 DEF BeginMerge, BeginSplit, CountChosen, InsertIssue, Abort, Goto, Types,
                      HasMoved
  <2>7. QED
    BY <1>2, <2>2, <2>4, <2>5, <2>6, <2>3 DEF Works
<1>3. CASE Ends(a)
  BY <1>1, <1>3 DEF Ends, Publish, Goto, Types, HasMoved
<1>4. CASE ~Works(a) /\ ~Ends(a)
  <2>1. /\ pc'[a] = pc[a] /\ sources'[a] = sources[a] /\ picked'[a] = picked[a]
        /\ found'[a] = found[a] /\ moved'[a] = moved[a]
    BY <1>4, OthersSame
  <2>2. home[e] = home'[e] => e \in found[a] \cup moved[a] \cup late
    BY <1>1, <2>1 DEF EmptyInv, IsSplit
  <2>3. CASE \E q \in Events : Ingests(q)
    <3>1. PICK q \in Events : Ingests(q)
      BY <2>3
    <3>2. CASE Store(q)
      <4>1. home' = [home EXCEPT ![q] = issue[q]]
        BY <3>2 DEF Store
      <4>2. CASE e = q
        <5>1. a \in Emptying(issue[q]) /\ a # q
          BY <1>1, <2>1, <4>1, <4>2 DEF Emptying, HasMoved, IsSplit, Types
        <5>2. late' = late \cup Missed(issue[q], {q}, q)
          BY <3>2 DEF Store
        <5>3. QED
          BY <2>1, <4>2, <5>1, <5>2 DEF Missed
      <4>3. CASE e # q
        BY <1>1, <2>1, <2>2, <3>2, <4>1, <4>3 DEF Store, Types
      <4>4. QED
        BY <4>2, <4>3
    <3>3. CASE Upsert(q) \/ AbortIngestion(q)
      BY <2>1, <2>2, <3>3 DEF Upsert, AbortIngestion, rows, history
    <3>4. QED
      BY <3>1, <3>2, <3>3 DEF Ingests
  <2>4. CASE \E b \in Admins : Works(b)
    <3>1. home' = home /\ late' = late
      BY <2>4, WorksAlone DEF Works, BeginMerge, BeginSplit, CountChosen, InsertIssue,
                              FindEvents, MoveEvents, CountEvents, WriteTarget, Abort,
                              rows, history
    <3>2. QED
      BY <2>1, <2>2, <3>1
  <2>5. CASE \E b \in Admins : Ends(b)
    <3>1. PICK b \in Admins, D \in SUBSET Issues :
             Publish(b, D) /\ pc[b] \in {"write", "delete"} /\ a # b
      BY <1>4, <2>5 DEF Ends
    <3>2. home'[e] = HomeFor(b, e)
      <4>1. home'[e] # None
        BY <1>1, <2>1 DEF Types
      <4>2. QED
        BY <3>1, <4>1, Publishing
    <3>3. late' = late \cup Missed(issue[b], moved[b], b)
      BY <3>1 DEF Publish
    <3>4. CASE e \in moved[b]
      <4>1. a \in Emptying(issue[b])
        BY <2>1, <3>2, <3>4 DEF HomeFor, Emptying, HasMoved, IsSplit
      <4>2. QED
        BY <2>1, <3>1, <3>3, <3>4, <4>1 DEF Missed
    <3>5. CASE e \notin moved[b]
      BY <2>1, <2>2, <3>2, <3>3, <3>5 DEF HomeFor
    <3>6. QED
      BY <3>4, <3>5
  <2>6. CASE Retains
    <3>1. late' = late /\ home'[e] \in {None, home[e]}
      BY <2>6 DEF Retains, Retain
    <3>2. home'[e] # None
      BY <1>1, <2>1 DEF Types
    <3>3. QED
      BY <2>1, <2>2, <3>1, <3>2
  <2>7. CASE Rekeys
    BY <2>1, <2>2, <2>7 DEF Rekeys, ChangeFingerprint, history
  <2>8. QED
    BY Steps, <2>3, <2>4, <2>5, <2>6, <2>7
<1>5. QED
  BY <1>2, <1>3, <1>4

LEMMA LostStep ==
    ASSUME IInv, Next
    PROVE  LostOnlyByRace'
<1>1. Types /\ AdminInv /\ EmptyInv /\ LostOnlyByRace /\ IngestInv
  BY DEF IInv, TypeOK
<1> SUFFICES ASSUME NEW e \in Events, pc'[e] = "done", home'[e] = None
             PROVE  e \in purged' \cup late' \cup selfMerged'
  BY DEF LostOnlyByRace
<1> e \in Transactions
  BY DEF Transactions
<1>2. CASE \E q \in Events : Ingests(q)
  <2>1. PICK q \in Events : Ingests(q)
    BY <1>2
  <2>2. CASE Store(q)
    BY <1>1, <2>2 DEF Store, Goto, Types, IngestInv, LostOnlyByRace
  <2>3. CASE Upsert(q) \/ AbortIngestion(q)
    BY <1>1, <2>3 DEF Upsert, AbortIngestion, Goto, Types, rows, history, LostOnlyByRace
  <2>4. QED
    BY <2>1, <2>2, <2>3 DEF Ingests
<1>3. CASE \E a \in Admins : Works(a)
  <2>1. PICK a \in Admins : Works(a)
    BY <1>3
  <2>2. home' = home /\ pc'[e] = pc[e]
    BY <2>1, WorksAlone DEF rows, Alone, Transactions
  <2>3. late' = late /\ purged' = purged /\ selfMerged' = selfMerged
    BY <2>1 DEF Works, BeginMerge, BeginSplit, CountChosen, InsertIssue, FindEvents,
                MoveEvents, CountEvents, WriteTarget, Abort, history
  <2>4. QED
    BY <1>1, <2>2, <2>3 DEF LostOnlyByRace
<1>4. CASE \E a \in Admins : Ends(a)
  <2>1. PICK a \in Admins : Ends(a)
    BY <1>4
  <2>2. PICK D \in SUBSET Issues :
           /\ Publish(a, D) /\ pc[a] \in {"write", "delete"}
           /\ D = {} \/ (D = sources[a] /\ pc[a] = "delete")
    BY <2>1 DEF Ends
  <2>3. pc[e] = "done"
    BY <2>1, EndsAlone DEF Alone, Transactions
  <2>4. purged' = purged /\ late \subseteq late' /\ selfMerged \subseteq selfMerged'
    BY <2>2 DEF Publish
  <2>5. CASE home[e] = None
    BY <1>1, <2>3, <2>4, <2>5 DEF LostOnlyByRace
  <2>6. CASE home[e] # None
    <3>1. HomeFor(a, e) \in D
      <4>1. HomeFor(a, e) # None
        BY <2>2, <2>6, Publishing DEF HomeFor
      <4>2. QED
        BY <2>2, <4>1, Publishing
    <3>2. CASE issue[a] \in D
      <4>1. selfMerged' = selfMerged
                            \cup {q \in Events : [x \in Events |-> HomeFor(a, x)][q] \in D}
        BY <2>2, <3>2 DEF Publish
      <4>2. QED
        BY <3>1, <4>1
    <3>3. CASE issue[a] \notin D
      <4>1. e \notin moved[a] /\ home[e] \in sources[a] /\ pc[a] = "delete"
        BY <2>2, <3>1, <3>3 DEF HomeFor
      <4>2. QED
        BY <1>1, <2>4, <4>1 DEF EmptyInv, AdminInv, HasMoved
    <3>4. QED
      BY <3>2, <3>3
  <2>7. QED
    BY <2>5, <2>6
<1>5. CASE Retains
  BY <1>1, <1>5 DEF Retains, Retain, LostOnlyByRace
<1>6. CASE Rekeys
  BY <1>1, <1>6 DEF Rekeys, ChangeFingerprint, history, LostOnlyByRace
<1>7. QED
  BY Steps, <1>2, <1>3, <1>4, <1>5, <1>6

-----------------------------------------------------------------------------
(* Counts. *)

\* What a request has counted stays as it was, or the request is overtaken.
LEMMA Undisturbed ==
    ASSUME IInv, Next, NEW b \in Admins \ overtaken', ~Works(b), ~Ends(b),
           Counted(b) \subseteq Issues
    PROVE  /\ b \notin overtaken
           /\ \A i \in Counted(b), e \in Events : home'[e] = i <=> home[e] = i
<1>1. Types /\ IngestInv /\ MovedInv
  BY DEF IInv, TypeOK
<1>2. CASE \E q \in Events : Ingests(q)
  <2>1. PICK q \in Events : Ingests(q)
    BY <1>2
  <2>2. CASE Store(q)
    <3>1. /\ home' = [home EXCEPT ![q] = issue[q]]
          /\ overtaken' = overtaken \cup
               {a \in Admins \ {q} : Counted(a) \cap {issue[q]} # {}}
      BY <2>2 DEF Store, Overtake
    <3>2. home[q] = None /\ b # q
      BY <1>1, <2>2 DEF Store, IngestInv
    <3>3. issue[q] \notin Counted(b)
      BY <3>1, <3>2
    <3>4. QED
      BY <1>1, <3>1, <3>2, <3>3 DEF Types
  <2>3. CASE Upsert(q) \/ AbortIngestion(q)
    BY <2>3 DEF Upsert, AbortIngestion, rows, history
  <2>4. QED
    BY <2>1, <2>2, <2>3 DEF Ingests
<1>3. CASE \E a \in Admins : Works(a)
  <2>1. PICK a \in Admins : Works(a)
    BY <1>3
  <2>2. home' = home
    BY <2>1, WorksAlone DEF rows
  <2>3. overtaken' = overtaken \/ (overtaken' = overtaken \ {a} /\ a # b)
    BY <2>1 DEF Works, BeginMerge, BeginSplit, CountChosen, InsertIssue, FindEvents,
                MoveEvents, CountEvents, WriteTarget, Abort, history
  <2>4. QED
    BY <2>2, <2>3
<1>4. CASE \E a \in Admins : Ends(a)
  <2>1. PICK a \in Admins : Ends(a)
    BY <1>4
  <2>2. PICK D \in SUBSET Issues :
           /\ Publish(a, D) /\ pc[a] \in {"write", "delete"}
           /\ D \subseteq sources[a] /\ a # b
    BY <2>1 DEF Ends
  <2>3. overtaken' = (overtaken \cup
                        {c \in Admins : Counted(c) \cap (sources[a] \cup {issue[a]}) # {}})
                     \ {a}
    BY <2>2 DEF Publish
  <2>4. Counted(b) \cap (sources[a] \cup {issue[a]}) = {} /\ b \notin overtaken
    BY <2>2, <2>3
  <2>5. \A e \in moved[a] : home[e] \in sources[a]
    BY <1>1 DEF MovedInv
  <2>6. \A e \in Events :
           home'[e] = IF HomeFor(a, e) \in D THEN None ELSE HomeFor(a, e)
    BY <2>2, Publishing
  <2>7. ASSUME NEW i \in Counted(b), NEW e \in Events
        PROVE  home'[e] = i <=> home[e] = i
    <3>1. i \notin sources[a] /\ i # issue[a] /\ i # None
      BY <2>4
    <3>2. CASE e \in moved[a]
      BY <2>5, <2>6, <3>1, <3>2 DEF HomeFor
    <3>3. CASE e \notin moved[a]
      BY <2>2, <2>6, <3>1, <3>3 DEF HomeFor
    <3>4. QED
      BY <3>2, <3>3
  <2>8. QED
    BY <2>4, <2>7
<1>5. CASE Retains
  <2>1. PICK S \in SUBSET Expired : Retain(S)
    BY <1>5 DEF Retains
  <2>2. /\ home' = [e \in Events |-> IF e \in S THEN None ELSE home[e]]
        /\ overtaken' = overtaken \cup
             {a \in Admins \ {None} : Counted(a) \cap {home[e] : e \in S} # {}}
    BY <2>1 DEF Retain, Overtake
  <2>3. Counted(b) \cap {home[e] : e \in S} = {} /\ b \notin overtaken
    BY <2>2
  <2>4. QED
    BY <2>2, <2>3
<1>6. CASE Rekeys
  BY <1>6 DEF Rekeys, ChangeFingerprint, history
<1>7. QED
  BY Steps, <1>2, <1>3, <1>4, <1>5, <1>6

LEMMA SeenStep ==
    ASSUME IInv, Next
    PROVE  SeenInv'
<1>1. Types /\ AdminInv /\ SeenInv
  BY DEF IInv, TypeOK
<1> SUFFICES ASSUME NEW b \in Admins, b \notin overtaken'
             PROVE  /\ pc'[b] \in {"chosen", "move"} /\ picked'[b] # {} =>
                          fresh'[b] = Cardinality({e \in picked'[b] : home'[e] \in sources'[b]})
                    /\ pc'[b] = "moving" /\ picked'[b] # {} =>
                          fresh'[b] = Cardinality(Leaving(b)')
                    /\ pc'[b] \in HasMoved /\ picked'[b] # {} =>
                          fresh'[b] = Cardinality(moved'[b])
                    /\ pc'[b] = "write" /\ picked'[b] # {} => \A i \in sources'[b] :
                          seen'[b] = Cardinality(View(b, i)')
                    /\ pc'[b] \in {"write", "delete"} /\ picked'[b] = {} =>
                          seen'[b] = Cardinality(View(b, issue[b])')
  BY DEF SeenInv, IsSplit
<1> b \in Transactions
  BY DEF Transactions
<1>2. CASE Works(b)
  <2>1. home' = home
    BY <1>2, WorksAlone DEF rows
  <2>2. CASE BeginMerge(b) \/ BeginSplit(b) \/ Abort(b)
    BY <1>1, <2>2 DEF BeginMerge, BeginSplit, Abort, Goto, Types, AdminInv, IsSplit, HasMoved
  <2>3. CASE CountChosen(b)
    <3>1. /\ fresh'[b] = Cardinality({e \in picked[b] : home[e] \in sources[b]})
          /\ picked' = picked /\ sources' = sources /\ pc'[b] = "chosen"
      BY <1>1, <2>3 DEF CountChosen, Goto, Types
    <3>2. QED
      BY <2>1, <3>1 DEF HasMoved
  <2>4. CASE InsertIssue(b) \/ FindEvents(b)
    <3>1. /\ pc[b] \in {"chosen", "move"}
          /\ UNCHANGED <<picked, sources, fresh, overtaken>>
      BY <2>4 DEF InsertIssue, FindEvents, history
    <3>2. IsSplit(b) => fresh[b] = Cardinality({e \in picked[b] : home[e] \in sources[b]})
      BY <1>1, <3>1 DEF SeenInv
    <3>3. CASE InsertIssue(b)
      <4>1. pc'[b] = "move"
        BY <1>1, <3>3 DEF InsertIssue, Goto, Types
      <4>2. QED
        BY <2>1, <3>1, <3>2, <4>1 DEF HasMoved, IsSplit
    <3>4. CASE FindEvents(b)
      <4>1. pc'[b] = "moving" /\ found'[b] = Movable(b)
        BY <1>1, <3>4 DEF FindEvents, Goto, Types
      <4>2. Leaving(b)' = Movable(b)
        BY <2>1, <3>1, <4>1 DEF Leaving, Movable, IsSplit
      <4>3. IsSplit(b) => Movable(b) = {e \in picked[b] : home[e] \in sources[b]}
        BY <1>1 DEF Movable, Types
      <4>4. QED
        BY <3>1, <3>2, <4>1, <4>2, <4>3 DEF HasMoved, IsSplit
    <3>5. QED
      BY <2>4, <3>3, <3>4
  <2>5. CASE MoveEvents(b)
    <3>1. /\ moved'[b] = Leaving(b)
          /\ UNCHANGED <<picked, fresh, overtaken>> /\ pc[b] = "moving" /\ pc'[b] = "count"
      BY <1>1, <2>5 DEF MoveEvents, Goto, Types, history
    <3>2. IsSplit(b) => fresh[b] = Cardinality(Leaving(b))
      BY <1>1, <3>1 DEF SeenInv
    <3>3. QED
      BY <3>1, <3>2 DEF IsSplit
  <2>6. CASE CountEvents(b)
    <3> DEFINE S == {e \in Events :
                       HomeFor(b, e) \in (IF IsSplit(b) THEN sources[b] ELSE {issue[b]})}
    <3>1. /\ seen'[b] = Cardinality(S) /\ pc[b] = "count"
          /\ pc'[b] \in {"write", "delete"}
          /\ UNCHANGED <<issue, sources, picked, moved, fresh, overtaken>>
      BY <1>1, <2>6 DEF CountEvents, Goto, Types, history
    <3>2. \A e \in Events : HomeFor(b, e)' = HomeFor(b, e)
      BY <2>1, <3>1 DEF HomeFor
    <3>3. CASE IsSplit(b)
      <4>1. PICK i \in Issues : sources[b] = {i}
        BY <1>1, <3>1, <3>3 DEF AdminInv, Begun
      <4>2. S = View(b, i)'
        BY <3>2, <3>3, <4>1 DEF View
      <4>3. fresh[b] = Cardinality(moved[b])
        BY <1>1, <3>1, <3>3 DEF SeenInv, HasMoved
      <4>4. QED
        BY <3>1, <3>3, <4>1, <4>2, <4>3 DEF IsSplit
    <3>4. CASE ~IsSplit(b)
      <4>1. S = View(b, issue[b])'
        BY <3>1, <3>2, <3>4 DEF View
      <4>2. QED
        BY <3>1, <3>4, <4>1 DEF IsSplit
    <3>5. QED
      BY <3>3, <3>4
  <2>7. CASE WriteTarget(b)
    <3>1. /\ pc[b] = "write" /\ pc'[b] = "delete" /\ ~IsSplit(b)
          /\ UNCHANGED <<issue, sources, picked, moved, fresh, seen, overtaken>>
      BY <1>1, <2>7 DEF WriteTarget, Goto, Types, locals, history
    <3>2. \A e \in Events : HomeFor(b, e)' = HomeFor(b, e)
      BY <2>1, <3>1 DEF HomeFor
    <3>3. View(b, issue[b])' = View(b, issue[b])
      BY <3>1, <3>2 DEF View
    <3>4. seen[b] = Cardinality(View(b, issue[b]))
      BY <1>1, <3>1 DEF SeenInv
    <3>5. QED
      BY <3>1, <3>3, <3>4 DEF IsSplit
  <2>8. QED
    BY <1>2, <2>2, <2>3, <2>5, <2>6, <2>7, <2>4 DEF Works
<1>3. CASE Ends(b)
  BY <1>1, <1>3 DEF Ends, Publish, Goto, Types, HasMoved
<1>4. CASE ~Works(b) /\ ~Ends(b)
  <2>1. /\ pc'[b] = pc[b] /\ issue'[b] = issue[b] /\ sources'[b] = sources[b]
        /\ picked'[b] = picked[b] /\ found'[b] = found[b]
        /\ moved'[b] = moved[b] /\ fresh'[b] = fresh[b]
        /\ seen'[b] = seen[b]
    BY <1>4, OthersSame
  <2>2. Counted(b) \subseteq Issues
    BY <1>1 DEF Counted, AdminInv, Begun, Types
  <2>3. /\ b \notin overtaken
        /\ \A i \in Counted(b), e \in Events : home'[e] = i <=> home[e] = i
    BY <1>4, <2>2, Undisturbed
  <2>4. \A i \in Counted(b), e \in Events : HomeFor(b, e)' = i <=> HomeFor(b, e) = i
    BY <2>1, <2>3 DEF HomeFor
  <2>5. CASE pc[b] \in {"chosen", "move"} /\ IsSplit(b)
    <3>1. fresh[b] = Cardinality({e \in picked[b] : home[e] \in sources[b]})
      BY <1>1, <2>3, <2>5 DEF SeenInv
    <3>2. Counted(b) = sources[b]
      BY <2>5 DEF Counted
    <3>3. {e \in picked[b] : home[e] \in sources[b]}
             = {e \in picked[b] : home'[e] \in sources[b]}
      BY <1>1, <2>3, <3>2 DEF Types
    <3>4. QED
      BY <2>1, <2>5, <3>1, <3>3 DEF HasMoved
  <2>6. CASE pc[b] = "moving" /\ IsSplit(b)
    <3>1. fresh[b] = Cardinality(Leaving(b))
      BY <1>1, <2>3, <2>6 DEF SeenInv
    <3>2. Counted(b) = sources[b]
      BY <2>6 DEF Counted
    <3>3. Leaving(b)' = Leaving(b)
      <4>1. \A e \in Events : home'[e] \in sources[b] <=> home[e] \in sources[b]
        BY <2>3, <3>2
      <4>2. QED
        BY <2>1, <4>1 DEF Leaving, Movable, IsSplit
    <3>4. QED
      BY <2>1, <2>6, <3>1, <3>3 DEF HasMoved
  <2>7. CASE pc[b] \in HasMoved /\ IsSplit(b)
    <3>1. fresh[b] = Cardinality(moved[b])
      BY <1>1, <2>3, <2>7 DEF SeenInv
    <3>2. ASSUME pc[b] = "write", NEW i \in sources[b]
          PROVE  seen[b] = Cardinality(View(b, i)')
      <4>1. i \in Counted(b)
        BY <2>7, <3>2 DEF Counted
      <4>2. View(b, i)' = View(b, i)
        BY <2>4, <4>1 DEF View
      <4>3. seen[b] = Cardinality(View(b, i))
        BY <1>1, <2>3, <2>7, <3>2 DEF SeenInv
      <4>4. QED
        BY <4>2, <4>3
    <3>3. QED
      BY <2>1, <2>7, <3>1, <3>2 DEF HasMoved, IsSplit
  <2>8. CASE pc[b] \in {"write", "delete"} /\ ~IsSplit(b)
    <3>1. issue[b] \in Counted(b)
      BY <2>8 DEF Counted
    <3>2. View(b, issue[b])' = View(b, issue[b])
      BY <2>1, <2>4, <3>1 DEF View
    <3>3. seen[b] = Cardinality(View(b, issue[b]))
      BY <1>1, <2>3, <2>8 DEF SeenInv
    <3>4. seen'[b] = Cardinality(View(b, issue[b])')
      BY <2>1, <3>2, <3>3
    <3>5. QED
      BY <2>1, <2>8, <3>4 DEF IsSplit
  <2>9. QED
    BY <2>1, <2>5, <2>7, <2>8, <2>6 DEF HasMoved, IsSplit
<1>5. QED
  BY <1>2, <1>3, <1>4

LEMMA CountsStep ==
    ASSUME IInv, Next
    PROVE  CountsAgreeUnlessRaced'
<1>1. /\ Types /\ ForeignKey /\ IngestInv /\ InsertInv /\ AdminInv /\ MovedInv /\ SeenInv
      /\ CountsAgreeUnlessRaced
  BY DEF IInv, TypeOK
<1> DEFINE Here(i) == {e \in Events : home[e] = i}
           Then(i) == {e \in Events : home'[e] = i}
<1> SUFFICES ASSUME NEW i \in Issues, print'[i] # None, i \notin skewed'
             PROVE  count'[i] = Cardinality(Then(i))
  BY DEF CountsAgreeUnlessRaced, Exists, Members
<1>2. ASSUME Exists(i), i \notin skewed
      PROVE  count[i] = Cardinality(Here(i))
  BY <1>1, <1>2 DEF CountsAgreeUnlessRaced, Members
<1>3. ~Exists(i) => Here(i) = {}
  BY <1>1 DEF ForeignKey
<1>4. ASSUME count'[i] = count[i], print'[i] = print[i], skewed' = skewed,
             \A e \in Events : home'[e] = i <=> home[e] = i
      PROVE  count'[i] = Cardinality(Then(i))
  <2>1. Here(i) = Then(i)
    BY <1>4
  <2>2. QED
    BY <1>2, <1>4, <2>1 DEF Exists
<1>5. CASE \E q \in Events : Ingests(q)
  <2>1. PICK q \in Events : Ingests(q)
    BY <1>5
  <2>2. CASE Store(q)
    <3>1. /\ print' = [print EXCEPT ![issue[q]] =
                         IF inserting[q] = None THEN @ ELSE inserting[q]]
          /\ count' = [count EXCEPT ![issue[q]] = @ + 1]
          /\ home' = [home EXCEPT ![q] = issue[q]]
          /\ skewed' = skewed /\ home[q] = None
      BY <1>1, <2>2 DEF Store, IngestInv
    <3>2. CASE i = issue[q]
      <4>1. count[i] = Cardinality(Here(i))
        <5>1. CASE inserting[q] = None
          BY <1>1, <1>2, <2>2, <3>1, <3>2, <5>1 DEF Store, IngestInv
        <5>2. CASE inserting[q] # None
          <6>1. ~Exists(i) /\ count[i] = 0
            BY <1>1, <3>2, <5>2 DEF InsertInv, Transactions
          <6>2. QED
            BY <1>3, <6>1, FS_EmptySet
        <5>3. QED
          BY <5>1, <5>2
      <4>2. Then(i) = Here(i) \cup {q} /\ q \notin Here(i)
        BY <1>1, <3>1, <3>2 DEF Types
      <4>3. Cardinality(Then(i)) = Cardinality(Here(i)) + 1
        <5>1. IsFiniteSet(Here(i))
          BY Cardinal
        <5>2. QED
          BY <4>2, <5>1, FS_AddElement
      <4>4. count'[i] = count[i] + 1
        BY <1>1, <3>1, <3>2 DEF Types
      <4>5. QED
        BY <4>1, <4>3, <4>4
    <3>3. CASE i # issue[q]
      BY <1>1, <1>4, <3>1, <3>3 DEF Types
    <3>4. QED
      BY <3>2, <3>3
  <2>3. CASE Upsert(q) \/ AbortIngestion(q)
    BY <1>4, <2>3 DEF Upsert, AbortIngestion, rows, history
  <2>4. QED
    BY <2>1, <2>2, <2>3 DEF Ingests
<1>6. CASE \E a \in Admins : Works(a)
  <2>1. PICK a \in Admins : Works(a)
    BY <1>6
  <2>2. UNCHANGED rows
    BY <2>1, WorksAlone
  <2>3. skewed' = skewed
    BY <2>1 DEF Works, BeginMerge, BeginSplit, CountChosen, InsertIssue, FindEvents,
                MoveEvents, CountEvents, WriteTarget, Abort, history
  <2>4. QED
    BY <1>4, <2>2, <2>3 DEF rows
<1>7. CASE \E a \in Admins : Ends(a)
  <2>1. PICK a \in Admins, D \in SUBSET Issues :
           /\ Publish(a, D) /\ pc[a] \in {"write", "delete"}
           /\ \/ D = {} /\ pc[a] = "write" /\ IsSplit(a)
              \/ D = sources[a] /\ pc[a] = "delete"
    BY <1>7 DEF Ends
  <2> DEFINE kept == IF IsSplit(a) THEN sources[a] \ D ELSE {issue[a]} \ D
             written == {k \in kept : Exists(k)} \cup
                          (IF IsSplit(a) THEN {issue[a]} ELSE {})
  <2>2. /\ issue[a] \in Issues
        /\ \A e \in Events :
              home'[e] = IF HomeFor(a, e) \in D THEN None ELSE HomeFor(a, e)
        /\ \A k \in Issues :
              print'[k] = IF k \in D THEN None
                          ELSE IF IsSplit(a) /\ k = issue[a] THEN inserting[a]
                          ELSE print[k]
        /\ IsSplit(a) <=> inserting[a] # None
    BY <2>1, Publishing
  <2>3. count'[i] = IF IsSplit(a) /\ i = issue[a] THEN fresh[a]
                    ELSE IF i \in written THEN seen[a] ELSE count[i]
    BY <2>1 DEF Publish
  <2>4. skewed' = IF a \in overtaken THEN skewed \cup written ELSE skewed \ written
    BY <2>1 DEF Publish
  <2>5. i \notin D /\ Then(i) = View(a, i)
    BY <2>2 DEF View
  <2>6. CASE IsSplit(a) /\ i = issue[a]
    <3>1. a \notin overtaken
      BY <2>4, <2>6
    <3>2. fresh[a] = Cardinality(moved[a])
      BY <1>1, <2>1, <2>6, <3>1 DEF SeenInv, HasMoved
    <3>3. ~Exists(i)
      BY <1>1, <2>2, <2>6 DEF InsertInv, Transactions
    <3>4. View(a, i) = moved[a]
      BY <1>1, <1>3, <2>6, <3>3 DEF View, HomeFor, Types
    <3>5. QED
      BY <2>3, <2>5, <2>6, <3>2, <3>4
  <2>7. CASE i \in written /\ ~(IsSplit(a) /\ i = issue[a])
    <3>1. a \notin overtaken
      BY <2>4, <2>7
    <3>2. seen[a] = Cardinality(View(a, i))
      <4>1. CASE IsSplit(a)
        <5>1. i \in sources[a] /\ pc[a] = "write"
          BY <2>1, <2>7, <4>1
        <5>2. seen[a] = Cardinality(View(a, i))
          BY <1>1, <3>1, <4>1, <5>1 DEF SeenInv
        <5>3. QED
          BY <5>2
      <4>2. CASE ~IsSplit(a)
        <5>1. i = issue[a]
          BY <2>7, <4>2
        <5>2. seen[a] = Cardinality(View(a, issue[a]))
          BY <1>1, <2>1, <3>1, <4>2 DEF SeenInv
        <5>3. QED
          BY <5>1, <5>2
      <4>3. QED
        BY <4>1, <4>2
    <3>3. QED
      BY <2>3, <2>5, <2>7, <3>2
  <2>8. CASE i \notin written /\ ~(IsSplit(a) /\ i = issue[a])
    <3>1. Exists(i) /\ i \notin skewed
      BY <2>2, <2>4, <2>5, <2>8 DEF Exists
    <3>2. i # issue[a] /\ i \notin sources[a]
      BY <2>1, <2>5, <2>8, <3>1
    <3>3. View(a, i) = Here(i)
      BY <1>1, <3>2 DEF View, HomeFor, MovedInv
    <3>4. QED
      BY <1>2, <2>3, <2>5, <2>8, <3>1, <3>3
  <2>9. QED
    BY <2>6, <2>7, <2>8
<1>8. CASE Retains
  <2>1. PICK S \in SUBSET Expired : Retain(S)
    BY <1>8 DEF Retains
  <2>2. /\ home' = [e \in Events |-> IF e \in S THEN None ELSE home[e]]
        /\ skewed' = skewed \cup {home[e] : e \in S}
        /\ print' = print /\ count' = count
    BY <2>1 DEF Retain
  <2>3. Here(i) = Then(i)
    BY <2>2
  <2>4. QED
    BY <1>2, <2>2, <2>3 DEF Exists
<1>9. CASE Rekeys
  <2>1. /\ home' = home /\ count' = count /\ skewed' = skewed
        /\ print'[i] # None => print[i] # None
    BY <1>1, <1>9 DEF Rekeys, ChangeFingerprint, history, Exists, Types
  <2>2. QED
    BY <1>2, <2>1 DEF Exists
<1>10. QED
  BY Steps, <1>5, <1>6, <1>7, <1>8, <1>9

-----------------------------------------------------------------------------
(* The invariant, and the theorems. *)

LEMMA InvStep == IInv /\ [Next]_vars => IInv'
<1>1. ASSUME IInv, Next PROVE IInv'
  <2>1. TypeOK'
    BY <1>1, TypesStep, KeysStep DEF TypeOK
  <2>2. IngestInv' /\ InsertInv' /\ UsedInv'
    BY <1>1, IngestStep, InsertStep, UsedStep
  <2>3. AdminInv' /\ MovedInv' /\ EmptyInv'
    BY <1>1, AdminStep, MovedStep, EmptyStep
  <2>4. LostOnlyByRace' /\ SeenInv' /\ CountsAgreeUnlessRaced'
    BY <1>1, LostStep, SeenStep, CountsStep
  <2>5. QED
    BY <2>1, <2>2, <2>3, <2>4 DEF IInv
<1>2. ASSUME IInv, UNCHANGED vars PROVE IInv'
  <2> USE <1>2 DEF vars, rows, locals, history
  <2>1. TypeOK'
    BY DEF IInv, TypeOK, Types, ForeignKey, UniquePrints, Exists
  <2>2. IngestInv' /\ InsertInv' /\ UsedInv'
    BY DEF IInv, IngestInv, InsertInv, UsedInv, Exists, Taken
  <2>3. AdminInv' /\ MovedInv' /\ EmptyInv'
    BY DEF IInv, AdminInv, MovedInv, EmptyInv, Exists, IsSplit
  <2>4. LostOnlyByRace' /\ CountsAgreeUnlessRaced'
    BY DEF IInv, LostOnlyByRace, CountsAgreeUnlessRaced, Exists, Members
  <2>5. SeenInv'
    <3>1. \A a \in Admins, e \in Events : HomeFor(a, e)' = HomeFor(a, e)
      BY DEF HomeFor
    <3>2. \A a \in Admins : /\ \A i : View(a, i)' = View(a, i)
                            /\ View(a, issue[a])' = View(a, issue[a])
      BY <3>1 DEF View
    <3>3. SeenInv /\ \A a \in Admins : Leaving(a)' = Leaving(a)
      BY DEF IInv, Leaving, Movable, IsSplit
    <3>4. QED
      BY <3>2, <3>3 DEF SeenInv, IsSplit
  <2>6. QED
    BY <2>1, <2>2, <2>3, <2>4, <2>5 DEF IInv
<1>3. QED
  BY <1>1, <1>2

LEMMA Invariance == Spec => []IInv
BY InvInit, InvStep, PTL DEF Spec

\* The foreign key of events and the unique fingerprints of issues hold however
\* merges, splits, changes of fingerprints, ingestion and retention interleave
\* (src/api.rs): each statement's own checks and locks are enough.
THEOREM TriageTyped == Spec => []TypeOK
<1>1. IInv => TypeOK
  BY DEF IInv
<1>2. QED
  BY <1>1, Invariance, PTL

\* An event that was answered with 202 is lost by retention, by a merge of an
\* issue into itself, or by reaching an issue that is being deleted, after the
\* merge has begun to look for its events or the split has counted none that
\* stay (src/api.rs), and in no other way.
THEOREM LossesAreNamed == Spec => []LostOnlyByRace
<1>1. IInv => LostOnlyByRace
  BY DEF IInv
<1>2. QED
  BY <1>1, Invariance, PTL

\* event_count is the number of the issue's events unless retention took one of
\* them, or events came or went between the statement of the last merge or split
\* that counted them and its commit (src/api.rs).
THEOREM CountsAreNamed == Spec => []CountsAgreeUnlessRaced
<1>1. IInv => CountsAgreeUnlessRaced
  BY DEF IInv
<1>2. QED
  BY <1>1, Invariance, PTL
=============================================================================
