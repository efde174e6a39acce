--------------------------- MODULE RecoveryProofs ---------------------------
(***************************************************************************)
(* Proofs about Recovery, for any number of rules and requests.            *)
(*                                                                         *)
(* The invariant says what a request that has marked the issue can rely    *)
(* on: until somebody undoes the mark the issue is resolved.  And what the *)
(* deduplication key stands for as long as no count is lowered: no row has *)
(* a count that is still to come, and a row with the present count means   *)
(* that nothing was queued for its rule since.                             *)
(***************************************************************************)
EXTENDS Recovery, TLAPS

USE RecoveryAssumption

\* A request whose mark was not undone finds the issue resolved, or gone.
MarkInv ==
    \A h \in Pending \ overtaken : status \in {"resolved", "none"}

\* What the keys mean.
KeyInv ==
    ~lowered =>
        /\ \A k \in recoveries : k[2] <= count
        /\ \A r \in Rules : <<r, count>> \in recoveries => r \in Told

\* A subscription that has not changed since is still one.
SteadyInv == steady \subseteq Subscribed

\* ResolutionIsTold, with the requests that are still to queue their alerts.
ToldInv ==
    status = "resolved" /\ ~unannounced /\ ~lowered =>
        Pending # {} \/ steady \subseteq Told

IInv == TypeOK /\ MarkInv /\ RecoveryHolds /\ KeyInv /\ SteadyInv /\ ToldInv

Edits(r) ==
    \/ \E told \in BOOLEAN : CreateRule(r, told)
    \/ \E on, told \in BOOLEAN : UpdateRule(r, on, told)
    \/ DeleteRule(r)

-----------------------------------------------------------------------------
(* Types. *)

LEMMA ArriveType == ASSUME TypeOK, NEW fired \in SUBSET Rules, Arrive(fired) PROVE TypeOK'
<1>1. count' \in 1..MaxCount
  BY DEF Arrive, TypeOK
<1>2. word' \in [Rules -> {"none", "alert", "recovery"}]
  BY DEF Arrive, TypeOK
<1>3. /\ status' \in Statuses \cup {"none"}
      /\ steady' \in SUBSET Rules
      /\ outdated' \in SUBSET Rules
      /\ overtaken' \in SUBSET Requests
  BY DEF Arrive, TypeOK, Statuses, Told, Pending
<1>4. QED
  BY <1>1, <1>2, <1>3 DEF Arrive, TypeOK, ruleVars

LEMMA RecountType == ASSUME TypeOK, NEW n \in 1..MaxCount, Recount(n) PROVE TypeOK'
BY DEF Recount, TypeOK, ruleVars

LEMMA RemoveType == ASSUME TypeOK, Remove PROVE TypeOK'
BY DEF Remove, TypeOK, ruleVars, history

LEMMA WriteType ==
    ASSUME TypeOK, NEW s \in Statuses, Write(s)
    PROVE  /\ status' \in Statuses \cup {"none"}
           /\ steady' \in SUBSET Rules
           /\ outdated' \in SUBSET Rules
           /\ overtaken' \in SUBSET Requests
BY DEF Write, TypeOK, Subscribed, Told, Pending

LEMMA BatchType == ASSUME TypeOK, NEW s \in Statuses, BatchUpdate(s) PROVE TypeOK'
<1>1. Write(s)
  BY DEF BatchUpdate
<1>2. QED
  BY <1>1, WriteType DEF BatchUpdate, TypeOK, ruleVars

LEMMA MarkType ==
    ASSUME TypeOK, NEW h \in Requests, NEW s \in Statuses, Mark(h, s)
    PROVE  TypeOK'
<1>1. Write(s)
  BY DEF Mark
<1>2. AfterMark(s) \in {"enqueue", "done"}
  BY DEF AfterMark
<1>3. QED
  BY <1>1, <1>2, WriteType DEF Mark, Goto, TypeOK, ruleVars

\* The rules for which enqueue_recovery_alerts inserts a row.
NewlyTold ==
    IF status = "none" THEN {} ELSE {r \in Subscribed : KeyOf(r) \notin recoveries}

LEMMA EnqueueType == ASSUME TypeOK, NEW h \in Requests, Enqueue(h) PROVE TypeOK'
<1>1. NewlyTold \subseteq live /\ live \subseteq Rules
  BY DEF NewlyTold, Subscribed, TypeOK
<1>2. /\ recoveries' = recoveries \cup {KeyOf(r) : r \in NewlyTold}
      /\ word' = [r \in Rules |-> IF r \in NewlyTold THEN "recovery" ELSE word[r]]
      /\ outdated' = IF h \in overtaken THEN outdated \cup NewlyTold
                     ELSE outdated \ NewlyTold
  BY DEF Enqueue, NewlyTold
<1>3. recoveries' \in SUBSET (live \X (1..MaxCount))
  BY <1>1, <1>2 DEF KeyOf, TypeOK
<1>4. word' \in [Rules -> {"none", "alert", "recovery"}]
  BY <1>2 DEF TypeOK
<1>5. outdated' \in SUBSET Rules
  BY <1>1, <1>2 DEF TypeOK
<1>6. QED
  BY <1>3, <1>4, <1>5 DEF Enqueue, Goto, TypeOK, issueVars, ruleVars

LEMMA FailType == ASSUME TypeOK, NEW h \in Requests, Fail(h) PROVE TypeOK'
BY DEF Fail, Goto, TypeOK, issueVars, ruleVars

LEMMA FixReadType == ASSUME TypeOK, NEW h \in Requests, FixRead(h) PROVE TypeOK'
BY DEF FixRead, Goto, TypeOK, issueVars, ruleVars, history

LEMMA FixStartType == ASSUME TypeOK, NEW h \in Requests, FixStart(h) PROVE TypeOK'
<1>1. CASE status = "none"
  BY <1>1 DEF FixStart, Goto, TypeOK, ruleVars
<1>2. CASE status # "none"
  <2>1. Write("in_progress") /\ "in_progress" \in Statuses
    BY <1>2 DEF FixStart, Statuses
  <2>2. QED
    BY <2>1, WriteType DEF FixStart, Goto, TypeOK, ruleVars
<1>3. QED
  BY <1>1, <1>2

LEMMA EditType == ASSUME TypeOK, NEW r \in Rules, Edits(r) PROVE TypeOK'
<1>1. ASSUME NEW told \in BOOLEAN, CreateRule(r, told) PROVE TypeOK'
  BY <1>1 DEF CreateRule, Edit, TypeOK, issueVars, history
<1>2. ASSUME NEW on \in BOOLEAN, NEW told \in BOOLEAN, UpdateRule(r, on, told)
      PROVE  TypeOK'
  BY <1>2 DEF UpdateRule, Edit, TypeOK, issueVars
<1>3. CASE DeleteRule(r)
  BY <1>3 DEF DeleteRule, RowsWithout, Edit, TypeOK, issueVars
<1>4. QED
  BY <1>1, <1>2, <1>3 DEF Edits

LEMMA NextType == ASSUME TypeOK, [Next]_vars PROVE TypeOK'
<1>1. CASE UNCHANGED vars
  BY <1>1 DEF vars, issueVars, ruleVars, history, TypeOK
<1>2. ASSUME NEW h \in Requests,
             \/ \E s \in Statuses : Mark(h, s)
             \/ Enqueue(h) \/ Fail(h) \/ FixRead(h) \/ FixStart(h)
      PROVE  TypeOK'
  BY <1>2, MarkType, EnqueueType, FailType, FixReadType, FixStartType
<1>3. CASE Next
  BY <1>2, <1>3, ArriveType, RecountType, RemoveType, BatchType, EditType
     DEF Next, Edits
<1>4. QED
  BY <1>1, <1>3

-----------------------------------------------------------------------------
(* The actions. *)

\* Nothing but a lowered count can break what the keys mean by changing it.
LEMMA RecountInv ==
    ASSUME IInv, NEW n \in 1..MaxCount, Recount(n)
    PROVE  MarkInv' /\ RecoveryHolds' /\ KeyInv' /\ SteadyInv' /\ ToldInv'
<1>1. Told' = Told /\ Pending' = Pending /\ Subscribed' = Subscribed
  BY DEF Recount, Told, Pending, Subscribed, ruleVars
<1>2. MarkInv' /\ RecoveryHolds' /\ SteadyInv' /\ ToldInv'
  BY <1>1 DEF IInv, MarkInv, RecoveryHolds, SteadyInv, ToldInv, Recount
<1>3. KeyInv'
  <2>1. SUFFICES ASSUME ~lowered' PROVE KeyInv'
    BY DEF KeyInv
  <2>2. ~lowered /\ count' >= count /\ recoveries' = recoveries
    <3>1. ~(lowered \/ n < count)
      BY <2>1, Zenon DEF Recount
    <3>2. count' = n /\ count \in Int /\ recoveries' = recoveries
      BY DEF Recount, IInv, TypeOK
    <3>3. QED
      BY <3>1, <3>2
  <2>3. \A k \in recoveries : k[2] <= count /\ k[2] \in Int
    BY <2>2 DEF IInv, KeyInv, TypeOK
  <2>4. \A k \in recoveries' : k[2] <= count'
    BY <2>2, <2>3 DEF IInv, TypeOK, Recount
  <2>5. ASSUME NEW r \in Rules, <<r, count'>> \in recoveries PROVE r \in Told
    <3>1. count' <= count
      BY <2>3, <2>5
    <3>2. count' = count
      BY <3>1, <2>2 DEF IInv, TypeOK, Recount
    <3>3. QED
      BY <3>2, <2>2, <2>5 DEF IInv, KeyInv
  <2>6. QED
    BY <1>1, <2>2, <2>4, <2>5 DEF KeyInv
<1>4. QED
  BY <1>2, <1>3

\* A new event has a count that no row has yet.
LEMMA ArriveInv ==
    ASSUME IInv, NEW fired \in SUBSET Rules, Arrive(fired)
    PROVE  MarkInv' /\ RecoveryHolds' /\ KeyInv' /\ SteadyInv' /\ ToldInv'
<1>1. Told' = Told \ fired
  BY DEF Arrive, Told, IInv, TypeOK
<1>2. Pending' = Pending /\ Subscribed' = Subscribed
  BY DEF Arrive, Pending, Subscribed, ruleVars
<1>3. MarkInv'
  BY <1>2 DEF IInv, MarkInv, Arrive
<1>4. RecoveryHolds'
  BY <1>1 DEF IInv, RecoveryHolds, Arrive
<1>5. KeyInv'
  <2>1. SUFFICES ASSUME ~lowered PROVE KeyInv'
    BY DEF KeyInv, Arrive
  <2>2. \A k \in recoveries : k[2] <= count /\ k[2] \in Int
    BY <2>1 DEF IInv, KeyInv, TypeOK
  <2>3. recoveries' = recoveries /\ count' = count + 1 /\ count \in Int
    BY DEF Arrive, IInv, TypeOK
  <2>4. \A k \in recoveries : k[2] <= count' /\ k[2] # count'
    BY <2>2, <2>3
  <2>5. QED
    BY <2>3, <2>4 DEF KeyInv
<1>6. SteadyInv'
  BY <1>2 DEF IInv, SteadyInv, Arrive
<1>7. ToldInv'
  BY DEF ToldInv, Arrive
<1>8. QED
  BY <1>3, <1>4, <1>5, <1>6, <1>7

LEMMA RemoveInv ==
    ASSUME IInv, Remove
    PROVE  MarkInv' /\ RecoveryHolds' /\ KeyInv' /\ SteadyInv' /\ ToldInv'
BY DEF Remove, IInv, MarkInv, RecoveryHolds, KeyInv, SteadyInv, ToldInv, Told,
       Pending, Subscribed, ruleVars, history

\* Whoever writes another status undoes the marks of the requests under way.
LEMMA WriteInv ==
    ASSUME IInv, NEW s \in Statuses, Write(s), Pending \subseteq Pending',
           s # "resolved" => Pending' = Pending,
           s = "resolved" => Pending' # {} \/ unannounced',
           UNCHANGED <<count, ruleVars, recoveries, word, lowered>>
    PROVE  MarkInv' /\ RecoveryHolds' /\ KeyInv' /\ SteadyInv' /\ ToldInv'
<1>1. Told' = Told /\ Subscribed' = Subscribed
  BY DEF Told, Subscribed, ruleVars
<1>2. MarkInv' /\ RecoveryHolds'
  BY <1>1 DEF IInv, MarkInv, RecoveryHolds, Write, Statuses
<1>3. KeyInv'
  BY <1>1 DEF IInv, KeyInv
<1>4. SteadyInv' /\ ToldInv'
  BY <1>1 DEF SteadyInv, ToldInv, Write
<1>5. QED
  BY <1>2, <1>3, <1>4

LEMMA BatchInv ==
    ASSUME IInv, NEW s \in Statuses, BatchUpdate(s)
    PROVE  MarkInv' /\ RecoveryHolds' /\ KeyInv' /\ SteadyInv' /\ ToldInv'
<1>1. Pending' = Pending
  BY DEF BatchUpdate, Pending
<1>2. QED
  BY <1>1, WriteInv DEF BatchUpdate

LEMMA MarkStepInv ==
    ASSUME IInv, NEW h \in Requests, NEW s \in Statuses, Mark(h, s)
    PROVE  MarkInv' /\ RecoveryHolds' /\ KeyInv' /\ SteadyInv' /\ ToldInv'
<1>1. Pending' = IF s = "resolved" THEN Pending \cup {h} ELSE Pending
  BY DEF Mark, Goto, AfterMark, Pending, IInv, TypeOK
<1>2. QED
  BY <1>1, WriteInv DEF Mark

LEMMA FixStartInv ==
    ASSUME IInv, NEW h \in Requests, FixStart(h)
    PROVE  MarkInv' /\ RecoveryHolds' /\ KeyInv' /\ SteadyInv' /\ ToldInv'
<1>1. Pending' = Pending
  BY DEF FixStart, Goto, Pending, IInv, TypeOK
<1>2. CASE status = "none"
  BY <1>1, <1>2 DEF FixStart, IInv, MarkInv, RecoveryHolds, KeyInv, SteadyInv,
                    ToldInv, Told, Subscribed, ruleVars
<1>3. CASE status # "none"
  <2>1. Write("in_progress") /\ "in_progress" \in Statuses
    BY <1>3 DEF FixStart, Statuses
  <2>2. QED
    BY <1>1, <2>1, WriteInv DEF FixStart
<1>4. QED
  BY <1>2, <1>3

\* A request that queues its alerts tells every subscribed rule: either a row is
\* inserted, or there is one with the present count.
LEMMA EnqueueInv ==
    ASSUME IInv, NEW h \in Requests, Enqueue(h)
    PROVE  MarkInv' /\ RecoveryHolds' /\ KeyInv' /\ SteadyInv' /\ ToldInv'
<1>1. Pending' = Pending \ {h} /\ Subscribed' = Subscribed /\ h \in Pending
  BY DEF Enqueue, Goto, Pending, Subscribed, ruleVars, IInv, TypeOK
<1>2. /\ recoveries' = recoveries \cup {KeyOf(r) : r \in NewlyTold}
      /\ word' = [r \in Rules |-> IF r \in NewlyTold THEN "recovery" ELSE word[r]]
      /\ outdated' = IF h \in overtaken THEN outdated \cup NewlyTold
                     ELSE outdated \ NewlyTold
  BY DEF Enqueue, NewlyTold
<1>3. NewlyTold \subseteq Rules
  BY DEF NewlyTold, Subscribed, IInv, TypeOK
<1>4. Told' = Told \cup NewlyTold
  BY <1>2, <1>3 DEF Told, IInv, TypeOK
<1>5. MarkInv'
  BY <1>1 DEF IInv, MarkInv, Enqueue, issueVars
<1>6. RecoveryHolds'
  <2>1. CASE h \in overtaken
    BY <1>2, <1>4, <2>1 DEF IInv, RecoveryHolds, Enqueue, issueVars
  <2>2. CASE h \notin overtaken
    BY <1>1, <2>2 DEF IInv, MarkInv, RecoveryHolds, Enqueue, issueVars
  <2>3. QED
    BY <2>1, <2>2
<1>7. KeyInv'
  <2>1. SUFFICES ASSUME ~lowered PROVE KeyInv'
    BY DEF KeyInv, Enqueue
  <2>2. count' = count /\ count \in Int
    BY DEF Enqueue, issueVars, IInv, TypeOK
  <2>3. \A k \in recoveries' : k[2] <= count
    BY <1>2, <2>1, <2>2 DEF IInv, KeyInv, KeyOf
  <2>4. ASSUME NEW r \in Rules, <<r, count>> \in recoveries' PROVE r \in Told'
    BY <1>2, <1>4, <2>1, <2>4 DEF IInv, KeyInv, KeyOf
  <2>5. QED
    BY <2>2, <2>3, <2>4 DEF KeyInv
<1>8. SteadyInv'
  BY <1>1 DEF IInv, SteadyInv, Enqueue
<1>9. ToldInv'
  <2>1. SUFFICES ASSUME status = "resolved", ~lowered PROVE steady \subseteq Told'
    BY DEF ToldInv, Enqueue, issueVars
  <2>2. ASSUME NEW r \in steady PROVE r \in Told \cup NewlyTold
    <3>1. r \in Subscribed /\ r \in Rules
      BY DEF IInv, SteadyInv, TypeOK
    <3>2. KeyOf(r) \in recoveries => r \in Told
      BY <2>1, <3>1 DEF IInv, KeyInv, KeyOf
    <3>3. QED
      BY <2>1, <3>1, <3>2 DEF NewlyTold
  <2>3. QED
    BY <1>4, <2>2
<1>10. QED
  BY <1>5, <1>6, <1>7, <1>8, <1>9

LEMMA FailInv ==
    ASSUME IInv, NEW h \in Requests, Fail(h)
    PROVE  MarkInv' /\ RecoveryHolds' /\ KeyInv' /\ SteadyInv' /\ ToldInv'
<1>1. Pending' = Pending \ {h} /\ Told' = Told /\ Subscribed' = Subscribed
  BY DEF Fail, Goto, Pending, Told, Subscribed, ruleVars, IInv, TypeOK
<1>2. pc[h] # "enqueue" => Pending' = Pending
  BY <1>1 DEF Pending
<1>3. QED
  BY <1>1, <1>2 DEF Fail, IInv, MarkInv, RecoveryHolds, KeyInv, SteadyInv, ToldInv,
                    issueVars

LEMMA FixReadInv ==
    ASSUME IInv, NEW h \in Requests, FixRead(h)
    PROVE  MarkInv' /\ RecoveryHolds' /\ KeyInv' /\ SteadyInv' /\ ToldInv'
<1>1. Pending' = Pending
  BY DEF FixRead, Goto, Pending, IInv, TypeOK
<1>2. QED
  BY <1>1 DEF FixRead, IInv, MarkInv, RecoveryHolds, KeyInv, SteadyInv, ToldInv,
              Told, Subscribed, issueVars, ruleVars, history

\* A rule that is edited is told nothing, and no longer counts as steady.
LEMMA EditInv ==
    ASSUME IInv, NEW r \in Rules, Edits(r)
    PROVE  MarkInv' /\ RecoveryHolds' /\ KeyInv' /\ SteadyInv' /\ ToldInv'
<1>1. Pending' = Pending
  BY DEF Edits, CreateRule, UpdateRule, DeleteRule, Pending
<1>2. ASSUME NEW told \in BOOLEAN, CreateRule(r, told)
      PROVE  MarkInv' /\ RecoveryHolds' /\ KeyInv' /\ SteadyInv' /\ ToldInv'
  <2>1. Told' = Told /\ Subscribed \subseteq Subscribed'
    BY <1>2 DEF CreateRule, Told, Subscribed, history
  <2>2. QED
    BY <1>1, <1>2, <2>1 DEF CreateRule, IInv, MarkInv, RecoveryHolds, KeyInv,
                            SteadyInv, ToldInv, issueVars, history
<1>3. ASSUME NEW on \in BOOLEAN, NEW told \in BOOLEAN, UpdateRule(r, on, told)
      PROVE  MarkInv' /\ RecoveryHolds' /\ KeyInv' /\ SteadyInv' /\ ToldInv'
  <2>1. Told' = Told
    BY <1>3 DEF UpdateRule, Told
  <2>2. SteadyInv'
    BY <1>3 DEF UpdateRule, SteadyInv, Subscribed, IInv
  <2>3. QED
    BY <1>1, <1>3, <2>1, <2>2 DEF UpdateRule, IInv, MarkInv, RecoveryHolds, KeyInv,
                                  ToldInv, issueVars
<1>4. CASE DeleteRule(r)
  <2>1. Told' = Told \ {r}
    BY <1>4 DEF DeleteRule, Told, IInv, TypeOK
  <2>2. recoveries' \subseteq recoveries /\ \A k \in recoveries' : k[1] # r
    BY <1>4 DEF DeleteRule, RowsWithout
  <2>3. KeyInv'
    BY <1>4, <2>1, <2>2 DEF DeleteRule, IInv, KeyInv, issueVars
  <2>4. SteadyInv'
    BY <1>4 DEF DeleteRule, SteadyInv, Subscribed, IInv
  <2>5. QED
    BY <1>1, <1>4, <2>1, <2>3, <2>4 DEF DeleteRule, IInv, MarkInv, RecoveryHolds,
                                        ToldInv, issueVars
<1>5. QED
  BY <1>2, <1>3, <1>4 DEF Edits

-----------------------------------------------------------------------------
LEMMA Initially == Init => IInv
<1> SUFFICES ASSUME Init PROVE IInv
  OBVIOUS
<1>1. TypeOK
  <2>1. count \in 1..MaxCount /\ recounts \in 0..MaxRecounts /\ edits \in 0..MaxEdits
    BY DEF Init
  <2>2. /\ pc \in [Requests -> {"new", "enqueue", "fix", "done", "failed"}]
        /\ word \in [Rules -> {"none", "alert", "recovery"}]
    BY DEF Init
  <2>3. QED
    BY <2>1, <2>2 DEF Init, TypeOK, Statuses
<1>2. Told = {} /\ Pending = {}
  BY DEF Init, Told, Pending
<1>3. QED
  BY <1>1, <1>2 DEF Init, IInv, MarkInv, RecoveryHolds, KeyInv, SteadyInv, ToldInv

LEMMA NextInv == ASSUME IInv, [Next]_vars PROVE IInv'
<1>1. TypeOK'
  BY NextType DEF IInv
<1>2. CASE UNCHANGED vars
  BY <1>1, <1>2 DEF vars, issueVars, ruleVars, history, IInv, MarkInv, RecoveryHolds,
                    KeyInv, SteadyInv, ToldInv, Told, Pending, Subscribed
<1>3. ASSUME NEW h \in Requests,
             \/ \E s \in Statuses : Mark(h, s)
             \/ Enqueue(h) \/ Fail(h) \/ FixRead(h) \/ FixStart(h)
      PROVE  IInv'
  BY <1>1, <1>3, MarkStepInv, EnqueueInv, FailInv, FixReadInv, FixStartInv DEF IInv
<1>4. ASSUME \/ \E fired \in SUBSET Rules : Arrive(fired)
             \/ \E n \in 1..MaxCount : Recount(n)
             \/ Remove
             \/ \E s \in Statuses : BatchUpdate(s)
             \/ \E r \in Rules : Edits(r)
      PROVE  IInv'
  BY <1>1, <1>4, ArriveInv, RecountInv, RemoveInv, BatchInv, EditInv DEF IInv
<1>5. CASE Next
  BY <1>3, <1>4, <1>5 DEF Next, Edits
<1>6. QED
  BY <1>2, <1>5

LEMMA Invariance == Spec => []IInv
BY Initially, NextInv, PTL DEF Spec

\* The rows of the outbox belong to rules that exist, whatever is deleted, and
\* every variable keeps its type.
THEOREM RecoveryTyped == Spec => []TypeOK
<1>1. IInv => TypeOK
  BY DEF IInv
<1>2. QED
  BY <1>1, Invariance, PTL

\* Whatever administrators, events, merges and edits of rules do between the two
\* statements of update_issue, nobody is left believing that an open issue has
\* recovered, but for the exceptions that RecoveryHolds names.
THEOREM LastWordIsTrue == Spec => []RecoveryHolds
<1>1. IInv => RecoveryHolds
  BY DEF IInv
<1>2. QED
  BY <1>1, Invariance, PTL

\* Every resolution reaches every rule that subscribes to it, but for the
\* exceptions that ResolutionIsTold names: the deduplication suppresses nothing
\* else.
THEOREM EveryResolutionIsTold == Spec => []ResolutionIsTold
<1>1. IInv => ResolutionIsTold
  BY DEF IInv, ToldInv, ResolutionIsTold
<1>2. QED
  BY <1>1, Invariance, PTL

=============================================================================
