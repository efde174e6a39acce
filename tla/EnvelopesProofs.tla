--------------------------- MODULE EnvelopesProofs ---------------------------
(***************************************************************************)
(* Proofs about Envelopes, for any number of requests, keys, services and  *)
(* bodies: the types, the limiter, the counts of the logs, the secrets of  *)
(* the events, what is read and stored of an envelope, and that requests   *)
(* do not wait for each other forever.                                     *)
(***************************************************************************)
EXTENDS Envelopes, FiniteSetTheorems, SequenceTheorems, WellFoundedInduction, TLAPS

USE EnvelopesAssumption

-----------------------------------------------------------------------------
(* Types. *)

LEMMA InitType == ASSUME Init PROVE TypeOK
BY DEF Init, TypeOK, Keys, Closed, Working, Times

LEMMA ArriveType == ASSUME TypeOK, NEW r \in Requests, Arrive(r) PROVE TypeOK'
BY DEF Arrive, TypeOK, Goto, Closed, Working, rows, limiter, trace, bounds, inHand

LEMMA CheckType == ASSUME TypeOK, NEW r \in Requests, Check(r) PROVE TypeOK'
<1> USE DEF Check, TypeOK, Goto, Keys, rows, inHand, bounds
<1> DEFINE k == HeaderOf[r]
           fresh == began[k] = -1 \/ stamp[r] - began[k] >= Window
           start == IF fresh THEN stamp[r] ELSE began[k]
           used  == IF fresh THEN 0 ELSE count[k]
<1>1. k \in Keys /\ start \in 0..MaxNow /\ used \in 0..Limit
  OBVIOUS
<1>2. began' \in [Keys -> -1..MaxNow] /\ window' \in [Requests -> 0..MaxNow]
  BY <1>1
<1>3. count' \in [Keys -> 0..Limit]
  <2>1. Full(used) \/ used + 1 \in 0..Limit
    BY <1>1 DEF Full
  <2>2. count' = [count EXCEPT ![k] = IF Full(used) THEN used ELSE used + 1]
    OBVIOUS
  <2>3. QED
    BY <1>1, <2>1, <2>2
<1>4. /\ pc' \in [Requests -> {"new", "check", "open"} \cup Working \cup Closed]
      /\ verdict' \in [Requests -> {"none", "in", "out"}]
      /\ judged' \in [Requests -> 0..MaxNow]
  BY DEF Closed
<1>5. \A s \in Services : holder[s] # None => pc'[holder[s]] = "log"
  OBVIOUS
<1>6. QED
  BY <1>2, <1>3, <1>4, <1>5

LEMMA GotoType ==
    ASSUME TypeOK, NEW r \in Requests, NEW place \in Working \cup Closed, Goto(r, place),
           pc[r] # "log" \/ \A s \in Services : holder'[s] # r,
           \A s \in Services : holder'[s] \in {holder[s], None}
    PROVE  /\ pc' \in [Requests -> {"new", "check", "open"} \cup Working \cup Closed]
           /\ \A s \in Services : holder'[s] # None => pc'[holder'[s]] = "log"
<1>1. \A s \in Services : holder'[s] # None => holder'[s] = holder[s] /\ holder'[s] # r
  BY DEF TypeOK
<1>2. QED
  BY <1>1 DEF TypeOK, Goto

LEMMA OpenType == ASSUME TypeOK, NEW r \in Requests, Open(r) PROVE TypeOK'
<1>1. \E place \in Working \cup Closed : Goto(r, place)
  BY DEF Open, Working, Closed
<1>2. DOMAIN items' = Requests /\ cut' \in SUBSET Requests
  BY DEF Open, TypeOK
<1>3. /\ pc' \in [Requests -> {"new", "check", "open"} \cup Working \cup Closed]
      /\ \A s \in Services : holder'[s] # None => pc'[holder'[s]] = "log"
  BY <1>1, GotoType DEF Open
<1>4. QED
  BY <1>2, <1>3 DEF Open, TypeOK, rows, limiter, trace, bounds

LEMMA ReadFieldsType == ASSUME TypeOK, NEW r \in Requests, ReadFields(r) PROVE TypeOK'
<1>1. \E place \in Working \cup Closed : Goto(r, place)
  BY DEF ReadFields, Working, Closed
<1>2. /\ pc' \in [Requests -> {"new", "check", "open"} \cup Working \cup Closed]
      /\ \A s \in Services : holder'[s] # None => pc'[holder'[s]] = "log"
  BY <1>1, GotoType DEF ReadFields
<1>3. /\ read' = read \/ read' = [read EXCEPT ![r] = fields]
      /\ owed' = owed \/ owed' = [owed EXCEPT ![r] = fields]
  BY DEF ReadFields
<1>4. read' \in [Requests -> SUBSET Fields] /\ owed' \in [Requests -> SUBSET Fields]
  BY <1>3 DEF TypeOK
<1>5. QED
  BY <1>2, <1>4 DEF ReadFields, TypeOK, rows, limiter, trace, bounds

LEMMA StoreEventType == ASSUME TypeOK, NEW r \in Requests, StoreEvent(r) PROVE TypeOK'
<1>1. \E place \in Working \cup Closed : Goto(r, place)
  BY DEF StoreEvent, Proceed, Working, Closed
<1>2. /\ pc' \in [Requests -> {"new", "check", "open"} \cup Working \cup Closed]
      /\ \A s \in Services : holder'[s] # None => pc'[holder'[s]] = "log"
  BY <1>1, GotoType DEF StoreEvent
<1>3. DOMAIN events' = EventIds
  BY DEF StoreEvent, TypeOK
<1>4. /\ read' \in [Requests -> SUBSET Fields] /\ owed' \in [Requests -> SUBSET Fields]
      /\ at' \in [Requests -> Nat \ {0}]
  BY DEF StoreEvent, TypeOK, Proceed
<1>5. QED
  BY <1>2, <1>3, <1>4 DEF StoreEvent, TypeOK, limiter, trace, bounds

LEMMA StoreRawType == ASSUME TypeOK, NEW r \in Requests, StoreRaw(r) PROVE TypeOK'
<1>1. \E place \in Working \cup Closed : Goto(r, place)
  BY DEF StoreRaw, Proceed, Working, Closed
<1>2. /\ pc' \in [Requests -> {"new", "check", "open"} \cup Working \cup Closed]
      /\ \A s \in Services : holder'[s] # None => pc'[holder'[s]] = "log"
  BY <1>1, GotoType DEF StoreRaw
<1>3. raw' \in SUBSET (Requests \X (Nat \ {0})) /\ at' \in [Requests -> Nat \ {0}]
  <2>1. raw' = raw \cup {<<r, at[r]>>}
    BY DEF StoreRaw
  <2>2. at' = at \/ at' = [at EXCEPT ![r] = @ + 1]
    BY DEF StoreRaw, Proceed
  <2>3. raw \in SUBSET (Requests \X (Nat \ {0})) /\ at \in [Requests -> Nat \ {0}]
    BY DEF TypeOK
  <2>4. at[r] \in Nat \ {0} /\ raw' \in SUBSET (Requests \X (Nat \ {0}))
    BY <2>1, <2>3
  <2>5. at' \in [Requests -> Nat \ {0}]
    BY <2>2, <2>3
  <2>6. QED
    BY <2>4, <2>5
<1>4. QED
  BY <1>2, <1>3 DEF StoreRaw, TypeOK, limiter, trace, bounds

LEMMA StoreRecordType == ASSUME TypeOK, NEW r \in Requests, StoreRecord(r) PROVE TypeOK'
<1> DEFINE s == ServiceAt(r, next[r])
<1>1. /\ holder' = [holder EXCEPT ![s] = r]
      /\ written' = [written EXCEPT ![r][s] =
                        IF holder[s] = r THEN @ + 1 ELSE logCount[s] + 1]
  BY DEF StoreRecord
<1>2. holder' \in [Services -> Requests \cup {None}]
  BY <1>1 DEF TypeOK
<1>3. written' \in [Requests -> [Services -> Nat]]
  <2>1. CASE s \in Services
    BY <1>1, <2>1 DEF TypeOK
  <2>2. CASE s \notin Services
    <3>1. \A v : [written[r] EXCEPT ![s] = v] \in [Services -> Nat]
      <4>1. written[r] \in [Services -> Nat]
        BY DEF TypeOK
      <4> HIDE DEF s
      <4>2. QED
        BY <2>2, <4>1
    <3>2. written' = [written EXCEPT ![r] = [written[r] EXCEPT ![s] =
                        IF holder[s] = r THEN written[r][s] + 1 ELSE logCount[s] + 1]]
      BY <1>1
    <3>3. QED
      BY <3>1, <3>2 DEF TypeOK
  <2>3. QED
    BY <2>1, <2>2
<1>4. \A t \in Services : holder'[t] # None => pc[holder'[t]] = "log"
  BY <1>1 DEF TypeOK, StoreRecord
<1>5. next' \in [Requests -> Nat \ {0}] /\ pc' = pc
  BY DEF StoreRecord, TypeOK
<1>6. QED
  BY <1>2, <1>3, <1>4, <1>5 DEF StoreRecord, TypeOK, rows, limiter, trace, bounds

LEMMA CommitBatchType == ASSUME TypeOK, NEW r \in Requests, CommitBatch(r) PROVE TypeOK'
<1> USE DEF CommitBatch, TypeOK, EndBatch, Proceed, Goto, limiter, trace, bounds
<1>1. logs' \in SUBSET (Requests \X (Nat \ {0}) \X (Nat \ {0}))
  OBVIOUS
<1>2. logCount' \in [Services -> Nat]
  OBVIOUS
<1>3. /\ holder' \in [Services -> Requests \cup {None}]
      /\ next' \in [Requests -> Nat \ {0}]
      /\ written' \in [Requests -> [Services -> Nat]]
      /\ at' \in [Requests -> Nat \ {0}]
  OBVIOUS
<1>4. /\ pc' \in [Requests -> {"new", "check", "open"} \cup Working \cup Closed]
      /\ \A s \in Services : holder'[s] # None => pc'[holder'[s]] = "log"
  BY DEF Closed, Working
<1>5. QED
  BY <1>1, <1>2, <1>3, <1>4

LEMMA AbandonType ==
    ASSUME TypeOK, NEW r \in Requests, Abandon(r), faults' \in 0..MaxFaults PROVE TypeOK'
<1> USE DEF Abandon, TypeOK, Released, EndBatch, Goto, rows, limiter, trace
<1>1. /\ pc' \in [Requests -> {"new", "check", "open"} \cup Working \cup Closed]
      /\ \A s \in Services : holder'[s] # None => pc'[holder'[s]] = "log"
  BY DEF Closed
<1>2. QED
  BY <1>1

LEMMA RestartType == ASSUME TypeOK, Restart PROVE TypeOK'
<1>1. pc' \in [Requests -> {"new", "check", "open"} \cup Working \cup Closed]
  BY DEF Restart, TypeOK, Closed
<1>2. restarts' \in Times /\ past' \in SUBSET Requests
  BY DEF Restart, TypeOK, Times
<1>3. faults' \in 0..MaxFaults
  BY DEF Restart, TypeOK
<1>4. QED
  BY <1>1, <1>2, <1>3 DEF Restart, TypeOK, rows

LEMMA UpdateProjectType ==
    ASSUME TypeOK, NEW F \in SUBSET Fields, UpdateProject(F) PROVE TypeOK'
BY DEF UpdateProject, TypeOK, rows, limiter, trace

LEMMA TickType == ASSUME TypeOK, Tick PROVE TypeOK'
BY DEF Tick, TypeOK, rows, limiter, trace, inHand

LEMMA NextType == ASSUME TypeOK, [Next]_vars PROVE TypeOK'
<1>1. ASSUME NEW r \in Requests, Serve(r) \/ Arrive(r) \/ Lose(r) PROVE TypeOK'
  <2>1. CASE Deadlock(r)
    BY <2>1, AbandonType DEF Deadlock, TypeOK
  <2>2. CASE Lose(r)
    BY <2>2, AbandonType DEF Lose, TypeOK
  <2>3. QED
    BY <1>1, <2>1, <2>2, ArriveType, CheckType, OpenType, ReadFieldsType,
       StoreEventType, StoreRawType, StoreRecordType, CommitBatchType DEF Serve
<1>2. CASE UNCHANGED vars
  BY <1>2 DEF TypeOK, vars, rows, limiter, trace, bounds, inHand
<1>3. QED
  BY <1>1, <1>2, RestartType, UpdateProjectType, TickType DEF Next
-----------------------------------------------------------------------------
(* The limiter. *)

\* What k has admitted since the last restart, and what of it in its window w.
Current(k) == Admitted(k) \ past
Of(k, w) == {r \in Current(k) : window[r] = w}

\* Only the limiter gives a verdict, and time goes on.
TimeInv ==
    /\ \A r \in Requests : pc[r] \in {"new", "check"} => verdict[r] = "none"
    /\ \A r \in Requests : stamp[r] <= now
    /\ \A k \in Keys : began[k] <= now
    /\ \A r \in Requests : verdict[r] # "none" => stamp[r] <= judged[r]

\* Two windows of a key since the restart do not overlap, the present one is the
\* last, and each was opened by one of its requests.
WindowInv ==
    \A k \in Keys :
        /\ began[k] # -1 =>
              \E q \in Current(k) : window[q] = began[k] /\ stamp[q] = window[q]
        /\ \A r \in Current(k) :
              /\ began[k] # -1
              /\ window[r] = began[k] \/ window[r] + Window <= began[k]
              /\ stamp[r] < window[r] + Window
              /\ window[r] <= judged[r]
              /\ \E q \in Current(k) : window[q] = window[r] /\ stamp[q] = window[q]
        /\ \A q, r \in Current(k) :
              \/ window[q] = window[r]
              \/ window[q] + Window <= window[r]
              \/ window[r] + Window <= window[q]

\* The count is that of the present window, and no window has more than the limit.
CountInv ==
    \A k \in Keys :
        /\ began[k] # -1 => Cardinality(Of(k, began[k])) = count[k]
        /\ \A w \in 0..MaxNow : Cardinality(Of(k, w)) <= Limit

\* When the server restarted last, and whether that was in the period from t on.
Since == restarts[Len(restarts)]
Restarted == restarts # <<>>
RestartedIn(t) == Restarted /\ t <= Since /\ Since < t + Window

\* The requests judged since the last restart arrived and opened their windows
\* after it, those judged before it before.
LifeInv ==
    /\ \A r \in past : /\ verdict[r] # "none" /\ Restarted
                       /\ stamp[r] <= Since
    /\ Restarted =>
          /\ Since <= now
          /\ \A r \in Requests \ past :
                verdict[r] # "none" \/ pc[r] = "check" => Since <= stamp[r]
          /\ \A k \in Keys : began[k] # -1 => Since <= began[k]
          /\ \A k \in Keys : \A r \in Current(k) : Since <= window[r]

\* What the earlier lives of the server have admitted in a period: fewer than
\* the limit allows, and one limit less if the present life began in it.
PastInv ==
    \A k \in Keys : \A t \in 0..MaxNow :
        LET n == Cardinality(RestartsFrom(t)) IN
        /\ Cardinality(Prompt(k, t) \cap past) < (2 + n) * Limit
        /\ RestartedIn(t) => Cardinality(Prompt(k, t) \cap past) < (1 + n) * Limit

\* The second part of LimitKept.
TurnedAwayInv ==
    \A k \in Keys : \A r \in Requests : HeaderOf[r] = k /\ verdict[r] = "out" =>
        Cardinality({q \in Admitted(k) : judged[q] > stamp[r] - Window}) >= Limit

LimitInv == TimeInv /\ WindowInv /\ CountInv /\ LifeInv /\ PastInv /\ TurnedAwayInv

\* Sets of requests are finite.
LEMMA SomeRequests ==
    ASSUME NEW S \in SUBSET Requests
    PROVE  IsFiniteSet(S) /\ Cardinality(S) \in Nat
BY FS_Subset, FS_CardinalityType

\* A larger set of them has no fewer.
LEMMA MoreRequests ==
    ASSUME NEW S \in SUBSET Requests, NEW T \in SUBSET S
    PROVE  Cardinality(T) <= Cardinality(S)
BY SomeRequests, FS_Subset

LEMMA LastRestart == ASSUME TypeOK, Restarted PROVE Since \in 0..MaxNow
BY DEF TypeOK, Times, Restarted, Since

\* A step in which the limiter decides nothing.
Elsewhere ==
    /\ UNCHANGED <<limiter, trace>>
    /\ now' >= now
    /\ \A r \in Requests : \/ stamp'[r] = stamp[r]
                           \/ verdict[r] = "none" /\ stamp'[r] = now
    /\ \A r \in Requests : pc'[r] \in {"new", "check"} => pc[r] \in {"new", "check"}
    /\ \A r \in Requests : pc'[r] = "check" => pc[r] = "check" \/ stamp'[r] = now

LEMMA ElsewhereLimit ==
    ASSUME TypeOK, TypeOK', LimitInv, Elsewhere PROVE LimitInv'
<1> USE DEF Elsewhere, limiter, trace
<1>1. \A k \in Keys : /\ Admitted(k)' = Admitted(k) /\ Admitted(k) \subseteq Requests
                      /\ Current(k)' = Current(k) /\ Current(k) \subseteq Admitted(k)
  BY DEF Admitted, Current
<1>2. \A k \in Keys : \A r \in Admitted(k) : stamp'[r] = stamp[r]
  BY DEF Admitted
<1>3. TimeInv'
  <2>1. \A r \in Requests : pc'[r] \in {"new", "check"} => verdict'[r] = "none"
    BY DEF LimitInv, TimeInv
  <2>2. \A r \in Requests : stamp'[r] <= now'
    <3>1. now \in Int /\ now' \in Int /\ \A r \in Requests : stamp[r] \in Int
      BY DEF TypeOK
    <3>2. QED
      BY <3>1 DEF LimitInv, TimeInv
  <2>3. \A k \in Keys : began'[k] <= now'
    BY DEF LimitInv, TimeInv, TypeOK
  <2>4. \A r \in Requests : verdict'[r] # "none" => stamp'[r] <= judged'[r]
    BY DEF LimitInv, TimeInv
  <2>5. QED
    BY <2>1, <2>2, <2>3, <2>4 DEF TimeInv
<1>4. WindowInv'
  BY <1>1, <1>2 DEF LimitInv, WindowInv
<1>5. CountInv'
  <2>1. \A k \in Keys : \A w : Of(k, w)' = Of(k, w)
    BY <1>1 DEF Of
  <2>2. began' = began /\ count' = count
    OBVIOUS
  <2>3. QED
    BY <2>1, <2>2 DEF LimitInv, CountInv
<1>6. TurnedAwayInv'
  <2> SUFFICES ASSUME NEW k \in Keys, NEW r \in Requests,
                      HeaderOf[r] = k, verdict[r] = "out"
               PROVE  Cardinality({q \in Admitted(k)' : judged'[q] > stamp'[r] - Window})
                          >= Limit
    BY DEF TurnedAwayInv
  <2>1. stamp'[r] = stamp[r] /\ judged' = judged
    OBVIOUS
  <2>2. QED
    BY <1>1, <2>1 DEF LimitInv, TurnedAwayInv
<1>7. LifeInv'
  <2>1. (Since = Since') /\ (Restarted' <=> Restarted)
    BY DEF Since, Restarted
  <2>2. \A r \in past : verdict[r] # "none" /\ stamp'[r] = stamp[r]
    BY DEF LimitInv, LifeInv, TypeOK
  <2>3. ASSUME Restarted PROVE Since \in 0..MaxNow /\ Since <= now
    BY <2>3, LastRestart DEF LimitInv, LifeInv
  <2>4. ASSUME Restarted, NEW r \in Requests \ past,
               verdict'[r] # "none" \/ pc'[r] = "check"
        PROVE  Since <= stamp'[r]
    <3>1. stamp'[r] = stamp[r] \/ stamp'[r] = now
      OBVIOUS
    <3>2. verdict[r] # "none" \/ pc[r] = "check" => Since <= stamp[r]
      BY <2>4 DEF LimitInv, LifeInv
    <3>3. QED
      BY <2>3, <2>4, <3>1, <3>2
  <2>5. Restarted => Since <= now'
    BY <2>3 DEF TypeOK
  <2>6. QED
    BY <1>1, <2>1, <2>2, <2>4, <2>5 DEF LimitInv, LifeInv
<1>8. PastInv'
  <2>1. \A k \in Keys : \A t \in 0..MaxNow : Prompt(k, t)' = Prompt(k, t)
    BY <1>1, <1>2 DEF Prompt
  <2>2. \A t : RestartsFrom(t)' = RestartsFrom(t) /\ (RestartedIn(t)' <=> RestartedIn(t))
    BY DEF RestartsFrom, RestartedIn, Since, Restarted
  <2>3. QED
    BY <2>1, <2>2 DEF LimitInv, PastInv
<1>9. QED
  BY <1>3, <1>4, <1>5, <1>6, <1>7, <1>8 DEF LimitInv

LEMMA CheckLimit ==
    ASSUME TypeOK, TypeOK', LimitInv, NEW r \in Requests, Check(r) PROVE LimitInv'
<1> DEFINE k == HeaderOf[r]
           fresh == began[k] = -1 \/ stamp[r] - began[k] >= Window
           start == IF fresh THEN stamp[r] ELSE began[k]
           used  == IF fresh THEN 0 ELSE count[k]
<1>1. /\ k \in Keys
      /\ start \in 0..MaxNow
      /\ used \in 0..Limit
      /\ start <= now
      /\ stamp[r] <= now
      /\ stamp[r] < start + Window
  BY DEF TypeOK, Keys, LimitInv, TimeInv
<1>2. /\ began' = [began EXCEPT ![k] = start]
      /\ count' = [count EXCEPT ![k] = IF Full(used) THEN used ELSE used + 1]
      /\ verdict' = [verdict EXCEPT ![r] = IF Full(used) THEN "out" ELSE "in"]
      /\ window' = [window EXCEPT ![r] = start]
      /\ judged' = [judged EXCEPT ![r] = now]
      /\ pc' = [pc EXCEPT ![r] = IF Full(used) THEN "limited" ELSE "open"]
      /\ stamp' = stamp /\ now' = now /\ restarts' = restarts /\ past' = past
  BY DEF Check, Goto, bounds
<1>3. pc[r] = "check" /\ verdict[r] = "none" /\ r \notin past
  BY DEF Check, LimitInv, TimeInv, LifeInv
<1>4. \A j \in Keys : /\ Admitted(j) \subseteq Requests \ {r}
                      /\ Current(j) \subseteq Requests \ {r}
  BY <1>3 DEF Admitted, Current
<1>a. \A j \in Keys : Admitted(j)' = Admitted(j)
                          \cup (IF j = k /\ ~Full(used) THEN {r} ELSE {})
  BY <1>2, <1>3 DEF Admitted, TypeOK
<1>5. \A j \in Keys : Current(j)' = Current(j)
                          \cup (IF j = k /\ ~Full(used) THEN {r} ELSE {})
  BY <1>2, <1>3, <1>a DEF Current
<1>6. \A q \in Requests \ {r} :
         window'[q] = window[q] /\ judged'[q] = judged[q] /\ verdict'[q] = verdict[q]
  BY <1>2 DEF TypeOK
<1>7. /\ window'[r] = start /\ judged'[r] = now
      /\ verdict'[r] = (IF Full(used) THEN "out" ELSE "in")
  BY <1>2 DEF TypeOK
<1>8. \A j \in Keys : began'[j] = IF j = k THEN start ELSE began[j]
  BY <1>1, <1>2 DEF TypeOK
\* The windows that admitted something earlier, and the present one.
<1>9. \A q \in Current(k) : window[q] = start \/ window[q] + Window <= start
  <2> SUFFICES ASSUME NEW q \in Current(k)
               PROVE  window[q] = start \/ window[q] + Window <= start
    OBVIOUS
  <2>1. /\ began[k] # -1
        /\ window[q] = began[k] \/ window[q] + Window <= began[k]
    BY <1>1 DEF LimitInv, WindowInv
  <2>2. window[q] \in Int /\ stamp[r] \in Int /\ began[k] \in Int
    BY <1>1, <1>4 DEF TypeOK
  <2>3. QED
    BY <2>1, <2>2
<1>w. PICK w \in Int : w = start
  BY <1>1
<1>10. Cardinality(Of(k, w)) = used
  <2>1. CASE ~fresh
    BY <2>1, <1>1, <1>w DEF LimitInv, CountInv
  <2>2. CASE fresh
    <3>1. ASSUME NEW q \in Current(k) PROVE window[q] # w
      <4>1. /\ began[k] # -1
            /\ window[q] = began[k] \/ window[q] + Window <= began[k]
        BY <1>1 DEF LimitInv, WindowInv
      <4>2. window[q] \in Int /\ stamp[r] \in Int /\ began[k] \in Int
        BY <1>1, <1>4 DEF TypeOK
      <4>3. QED
        BY <1>w, <2>2, <4>1, <4>2
    <3>2. Of(k, w) = {}
      BY <3>1 DEF Of
    <3>3. QED
      BY <2>2, <3>2, FS_EmptySet
  <2>3. QED
    BY <2>1, <2>2
<1> HIDE DEF fresh, start, used
<1>11. TimeInv'
  <2>1. \A q \in Requests : pc'[q] \in {"new", "check"} => q # r /\ pc[q] = pc'[q]
    BY <1>2 DEF TypeOK
  <2>2. \A q \in Requests : verdict'[q] # "none" => stamp'[q] <= judged'[q]
    BY <1>1, <1>2, <1>6, <1>7 DEF LimitInv, TimeInv
  <2>3. \A j \in Keys : began'[j] <= now'
    BY <1>1, <1>2, <1>8 DEF LimitInv, TimeInv
  <2>4. QED
    BY <1>2, <1>6, <2>1, <2>2, <2>3 DEF LimitInv, TimeInv
<1>12. WindowInv'
  <2> SUFFICES ASSUME NEW j \in Keys
               PROVE  /\ began'[j] # -1 =>
                            \E q \in Current(j)' :
                               window'[q] = began'[j] /\ stamp'[q] = window'[q]
                      /\ \A q \in Current(j)' :
                            /\ began'[j] # -1
                            /\ window'[q] = began'[j] \/ window'[q] + Window <= began'[j]
                            /\ stamp'[q] < window'[q] + Window
                            /\ window'[q] <= judged'[q]
                            /\ \E p \in Current(j)' :
                                  window'[p] = window'[q] /\ stamp'[p] = window'[p]
                      /\ \A p, q \in Current(j)' :
                            \/ window'[p] = window'[q]
                            \/ window'[p] + Window <= window'[q]
                            \/ window'[q] + Window <= window'[p]
    BY DEF WindowInv
  <2>1. \A q \in Current(j) :
           /\ began[j] # -1
           /\ window[q] = began[j] \/ window[q] + Window <= began[j]
           /\ stamp[q] < window[q] + Window
           /\ window[q] <= judged[q]
           /\ \E p \in Current(j) : window[p] = window[q] /\ stamp[p] = window[p]
    BY DEF LimitInv, WindowInv
  <2>2. \A p, q \in Current(j) :
           \/ window[p] = window[q]
           \/ window[p] + Window <= window[q]
           \/ window[q] + Window <= window[p]
    BY DEF LimitInv, WindowInv
  <2>3. \A q \in Current(j) :
           q \in Requests /\ window'[q] = window[q] /\ judged'[q] = judged[q]
    BY <1>4, <1>6
  <2>4. CASE j # k
    <3>1. Current(j)' = Current(j) /\ began'[j] = began[j]
      BY <1>5, <1>8, <2>4
    <3>2. began[j] # -1 =>
             \E q \in Current(j) : window[q] = began[j] /\ stamp[q] = window[q]
      BY DEF LimitInv, WindowInv
    <3>3. began'[j] # -1 =>
             \E q \in Current(j)' : window'[q] = began'[j] /\ stamp'[q] = window'[q]
      BY <1>2, <2>3, <3>1, <3>2
    <3>4. \A q \in Current(j)' : \E p \in Current(j)' :
             window'[p] = window'[q] /\ stamp'[p] = window'[p]
      BY <1>2, <2>1, <2>3, <3>1
    <3>5. QED
      BY <1>2, <2>1, <2>2, <2>3, <3>1, <3>3, <3>4
  <2>5. CASE j = k
    <3>1. \A q \in Current(j)' : q \in Current(j) \/ q = r
      BY <1>5
    <3>2. began'[j] = start
      BY <1>8, <2>5
    <3>3. \A q \in Current(j)' : window'[q] = start \/ window'[q] + Window <= start
      BY <1>7, <1>9, <2>3, <2>5, <3>1
    <3>4. \A q \in Current(j)' :
             stamp'[q] < window'[q] + Window /\ window'[q] <= judged'[q]
      BY <1>1, <1>2, <1>7, <2>1, <2>3, <3>1
    <3>5. \A p, q \in Current(j)' :
             \/ window'[p] = window'[q]
             \/ window'[p] + Window <= window'[q]
             \/ window'[q] + Window <= window'[p]
      BY <1>7, <1>9, <2>2, <2>3, <2>5, <3>1
    <3>6. \A q \in Current(j)' : \E p \in Current(j)' :
             window'[p] = window'[q] /\ stamp'[p] = window'[p]
      <4>1. ASSUME NEW q \in Current(j)
            PROVE  \E p \in Current(j)' :
                      window'[p] = window'[q] /\ stamp'[p] = window'[p]
        BY <1>2, <1>5, <2>1, <2>3, <4>1
      <4>2. ASSUME r \in Current(j)'
            PROVE  \E p \in Current(j)' :
                      window'[p] = window'[r] /\ stamp'[p] = window'[p]
        <5>1. CASE fresh
          BY <1>2, <1>7, <4>2, <5>1 DEF start
        <5>2. CASE ~fresh
          <6>1. PICK p \in Current(k) : window[p] = began[k] /\ stamp[p] = window[p]
            BY <1>1, <5>2 DEF LimitInv, WindowInv, fresh
          <6>2. window'[p] = start
            BY <2>3, <2>5, <5>2, <6>1 DEF start
          <6>3. QED
            BY <1>7, <2>5, <4>1, <6>1, <6>2
        <5>3. QED
          BY <5>1, <5>2
      <4>3. QED
        BY <3>1, <4>1, <4>2
    <3>7. \E q \in Current(j)' : window'[q] = began'[j] /\ stamp'[q] = window'[q]
      <4>1. CASE fresh
        <5>1. r \in Current(j)' /\ window'[r] = start /\ stamp'[r] = start
          BY <1>2, <1>5, <1>7, <2>5, <4>1 DEF start, used, Full
        <5>2. QED
          BY <3>2, <5>1
      <4>2. CASE ~fresh
        <5>1. PICK p \in Current(k) : window[p] = began[k] /\ stamp[p] = window[p]
          BY <1>1, <4>2 DEF LimitInv, WindowInv, fresh
        <5>2. p \in Current(j)' /\ window'[p] = start /\ stamp'[p] = window'[p]
          BY <1>2, <1>5, <2>3, <2>5, <4>2, <5>1 DEF start
        <5>3. QED
          BY <3>2, <5>2
      <4>3. QED
        BY <4>1, <4>2
    <3>8. QED
      BY <1>1, <3>2, <3>3, <3>4, <3>5, <3>6, <3>7
  <2>6. QED
    BY <2>4, <2>5
<1>13. CountInv'
  <2>1. \A j \in Keys : \A v \in Int :
           Of(j, v)' = Of(j, v) \cup (IF j = k /\ ~Full(used) /\ v = w THEN {r} ELSE {})
    BY <1>4, <1>5, <1>6, <1>7, <1>w DEF Of
  <2>2. IsFiniteSet(Of(k, w)) /\ r \notin Of(k, w)
    BY <1>1, <1>4, SomeRequests DEF Of
  <2>3. Cardinality(Of(k, w)') = IF Full(used) THEN used ELSE used + 1
    <3>1. CASE Full(used)
      <4>1. Of(k, w)' = Of(k, w)
        BY <1>1, <2>1, <3>1
      <4>2. QED
        BY <1>10, <3>1, <4>1
    <3>2. CASE ~Full(used)
      <4>1. Of(k, w)' = Of(k, w) \cup {r}
        BY <1>1, <2>1, <3>2
      <4>2. Cardinality(Of(k, w) \cup {r}) = Cardinality(Of(k, w)) + 1
        BY <2>2, FS_AddElement
      <4>3. QED
        BY <1>10, <3>2, <4>1, <4>2
    <3>3. QED
      BY <3>1, <3>2
  <2>4. \A j \in Keys : \A v \in Int : j # k \/ v # w => Of(j, v)' = Of(j, v)
    BY <2>1
  <2>5. count'[k] = (IF Full(used) THEN used ELSE used + 1) /\ count'[k] <= Limit
    BY <1>1, <1>2 DEF TypeOK
  <2>6. \A j \in Keys : j # k => count'[j] = count[j] /\ began'[j] = began[j]
    BY <1>2, <1>8 DEF TypeOK
  <2>7. ASSUME NEW j \in Keys, began'[j] # -1
        PROVE  Cardinality(Of(j, began[j])') = count'[j]
    <3>1. PICK v \in Int : v = began'[j]
      BY DEF TypeOK
    <3>2. Of(j, began[j])' = Of(j, v)'
      BY <3>1 DEF Of
    <3>3. CASE j = k
      BY <1>8, <1>w, <2>3, <2>5, <3>1, <3>2, <3>3
    <3>4. CASE j # k
      <4>1. Of(j, v)' = Of(j, v) /\ v = began[j] /\ count'[j] = count[j]
        BY <2>4, <2>6, <3>1, <3>4
      <4>2. QED
        BY <2>7, <3>1, <3>2, <4>1 DEF LimitInv, CountInv
    <3>5. QED
      BY <3>3, <3>4
  <2>8. ASSUME NEW j \in Keys, NEW v \in 0..MaxNow PROVE Cardinality(Of(j, v)') <= Limit
    <3>1. CASE j = k /\ v = w
      BY <2>3, <2>5, <3>1
    <3>2. CASE ~(j = k /\ v = w)
      <4>1. Of(j, v)' = Of(j, v)
        BY <2>4, <3>2
      <4>2. QED
        BY <4>1 DEF LimitInv, CountInv
    <3>3. QED
      BY <3>1, <3>2
  <2>9. QED
    BY <2>7, <2>8 DEF CountInv
<1>14. TurnedAwayInv'
  <2> SUFFICES ASSUME NEW j \in Keys, NEW q \in Requests,
                      HeaderOf[q] = j, verdict'[q] = "out"
               PROVE  Cardinality({p \in Admitted(j)' : judged'[p] > stamp'[q] - Window})
                          >= Limit
    BY DEF TurnedAwayInv
  <2> DEFINE before == {p \in Admitted(j) : judged[p] > stamp[q] - Window}
             after == {p \in Admitted(j)' : judged'[p] > stamp'[q] - Window}
  <2>1. after \in SUBSET Requests /\ before \in SUBSET after
    BY <1>2, <1>4, <1>6, <1>a DEF Admitted
  <2>2. Cardinality(before) <= Cardinality(after)
    BY <2>1, MoreRequests
  <2>3. Cardinality(before) >= Limit
    <3>1. CASE q # r
      BY <1>6, <3>1 DEF LimitInv, TurnedAwayInv
    <3>2. CASE q = r
      <4>1. Full(used) /\ used >= Limit
        BY <1>1, <1>7, <3>2 DEF Full
      <4>2. Of(k, w) \in SUBSET before
        <5>1. ~fresh /\ stamp[r] - start < Window
          BY <1>1, <4>1 DEF used, start, fresh, TypeOK
        <5>2. \A p \in Current(k) : window[p] <= judged[p]
          BY <1>1 DEF LimitInv, WindowInv
        <5>3. \A p \in Current(k) : p \in Requests
          BY <1>1, <1>4
        <5>4. \A p \in Current(k) : window[p] = w => judged[p] > stamp[r] - Window
          BY <1>1, <1>w, <5>1, <5>2, <5>3 DEF TypeOK
        <5>5. QED
          BY <3>2, <5>4 DEF Of, Current
      <4>3. before \in SUBSET Requests
        BY <1>4
      <4>4. Cardinality(Of(k, w)) <= Cardinality(before)
        BY <4>2, <4>3, MoreRequests
      <4>5. Cardinality(before) \in Nat
        BY <4>3, SomeRequests
      <4>6. QED
        BY <1>1, <1>10, <4>1, <4>4, <4>5
    <3>3. QED
      BY <3>1, <3>2
  <2>4. Cardinality(before) \in Nat /\ Cardinality(after) \in Nat
    <3>1. before \in SUBSET Requests
      BY <2>1
    <3>2. QED
      BY <2>1, <3>1, SomeRequests
  <2>5. QED
    BY <2>2, <2>3, <2>4
<1>15. LifeInv'
  <2>1. Since' = Since /\ (Restarted' <=> Restarted)
    BY <1>2 DEF Since, Restarted
  <2>2. ASSUME Restarted PROVE Since <= stamp[r] /\ Since \in Int
    BY <1>3, <2>2, LastRestart DEF TypeOK, LimitInv, LifeInv
  <2>3. ASSUME Restarted PROVE Since <= start
    BY <1>1, <2>2, <2>3 DEF LimitInv, LifeInv, start, fresh
  <2>4. \A q \in Requests : pc'[q] = "check" => pc[q] = "check"
    BY <1>2 DEF TypeOK
  <2>5. \A j \in Keys : \A q \in Current(j)' :
           Restarted => Since <= window'[q]
    BY <1>4, <1>5, <1>6, <1>7, <2>3 DEF LimitInv, LifeInv
  <2>6. \A q \in past : verdict'[q] # "none"
    BY <1>3, <1>6 DEF TypeOK, LimitInv, LifeInv
  <2>7. \A q \in Requests \ past :
           Restarted /\ (verdict'[q] # "none" \/ pc'[q] = "check") => Since <= stamp[q]
    BY <1>3, <1>6, <2>2, <2>4 DEF LimitInv, LifeInv
  <2>8. \A j \in Keys : Restarted /\ began'[j] # -1 => Since <= began'[j]
    BY <1>8, <2>3 DEF LimitInv, LifeInv
  <2>9. QED
    BY <1>2, <2>1, <2>5, <2>6, <2>7, <2>8 DEF LimitInv, LifeInv
<1>16. PastInv'
  <2>1. \A j \in Keys : \A t \in 0..MaxNow :
           (Prompt(j, t) \cap past)' = Prompt(j, t) \cap past
    <3>1. \A q \in past : q \in Requests \ {r}
      BY <1>3 DEF TypeOK
    <3>2. \A j \in Keys : \A q \in past : q \in Admitted(j)' <=> q \in Admitted(j)
      BY <1>a, <3>1
    <3>3. QED
      BY <1>2, <1>6, <3>1, <3>2 DEF Prompt
  <2>2. \A t : RestartsFrom(t)' = RestartsFrom(t) /\ (RestartedIn(t)' <=> RestartedIn(t))
    BY <1>2 DEF RestartsFrom, RestartedIn, Since, Restarted
  <2>3. QED
    BY <2>1, <2>2 DEF LimitInv, PastInv
<1>17. QED
  BY <1>11, <1>12, <1>13, <1>14, <1>15, <1>16 DEF LimitInv

LEMMA InitLimit == ASSUME Init PROVE LimitInv
<1>1. \A k \in Keys : Admitted(k) = {} /\ Current(k) = {}
  BY DEF Init, Admitted, Current
<1>2. \A k \in Keys : \A w : Of(k, w) = {}
  BY <1>1 DEF Of
<1>3. TimeInv
  BY DEF Init, TimeInv
<1>4. WindowInv /\ TurnedAwayInv
  BY <1>1 DEF Init, WindowInv, TurnedAwayInv
<1>5. Cardinality({}) = 0
  BY FS_EmptySet
<1>6. CountInv
  <2>1. \A k \in Keys : began[k] = -1
    BY DEF Init
  <2>2. \A k \in Keys : \A w \in 0..MaxNow : Cardinality(Of(k, w)) = 0
    BY <1>2, <1>5
  <2>3. QED
    BY <2>1, <2>2 DEF CountInv
<1>7. restarts = <<>> /\ past = {}
  BY DEF Init
<1>8. LifeInv
  BY <1>7 DEF LifeInv, Restarted
<1>9. PastInv
  <2>1. \A t : RestartsFrom(t) = {} /\ ~RestartedIn(t)
    BY <1>7 DEF RestartsFrom, RestartedIn, Restarted
  <2>2. \A k \in Keys : \A t : Prompt(k, t) \cap past = {}
    BY <1>7
  <2>3. QED
    BY <1>5, <2>1, <2>2 DEF PastInv
<1>10. QED
  BY <1>3, <1>4, <1>6, <1>8, <1>9 DEF LimitInv

\* Every step is one of the limiter, a restart, or elsewhere.
LEMMA NextElsewhere ==
    ASSUME TypeOK, TypeOK', LimitInv, [Next]_vars
    PROVE  (\E r \in Requests : Check(r)) \/ Restart \/ Elsewhere
<1> USE DEF Elsewhere, rows, limiter, trace, bounds, inHand
<1>1. now \in Int
  BY DEF TypeOK
<1>2. ASSUME NEW r \in Requests, NEW place, Goto(r, place), place \notin {"new", "check"},
             UNCHANGED <<limiter, trace, now, stamp>>
      PROVE  Elsewhere
  BY <1>1, <1>2 DEF Goto, TypeOK
<1>3. ASSUME NEW r \in Requests, Arrive(r) PROVE Elsewhere
  <2>1. verdict[r] = "none"
    BY <1>3 DEF Arrive, LimitInv, TimeInv
  <2>2. QED
    BY <1>1, <1>3, <2>1 DEF Arrive, Goto, TypeOK
<1>4. ASSUME NEW r \in Requests, Open(r) \/ ReadFields(r) \/ StoreRaw(r) \/ StoreEvent(r)
                                  \/ CommitBatch(r) \/ Deadlock(r) \/ Lose(r)
      PROVE  Elsewhere
  <2>1. \E place : place \notin {"new", "check"} /\ Goto(r, place)
    BY <1>4 DEF Open, ReadFields, StoreRaw, StoreEvent, CommitBatch, Deadlock, Lose,
                Abandon, Proceed
  <2>2. UNCHANGED <<limiter, trace, now, stamp>>
    BY <1>4 DEF Open, ReadFields, StoreRaw, StoreEvent, CommitBatch, Deadlock, Lose,
                Abandon
  <2>3. QED
    BY <1>2, <2>1, <2>2
<1>5. ASSUME NEW r \in Requests, StoreRecord(r) PROVE Elsewhere
  BY <1>1, <1>5 DEF StoreRecord
<1>6. ASSUME NEW F \in SUBSET Fields, UpdateProject(F) PROVE Elsewhere
  BY <1>1, <1>6 DEF UpdateProject
<1>7. CASE Tick
  BY <1>1, <1>7 DEF Tick
<1>8. CASE UNCHANGED vars
  BY <1>1, <1>8 DEF vars
<1>9. QED
  BY <1>3, <1>4, <1>5, <1>6, <1>7, <1>8 DEF Next, Serve

\* A larger number of restarts allows a limit more.
LEMMA OneLimitMore ==
    ASSUME NEW n \in Nat
    PROVE  /\ (2 + n) * Limit = (1 + n) * Limit + Limit
           /\ (1 + (n + 1)) * Limit = (2 + n) * Limit
           /\ (2 + (n + 1)) * Limit = (2 + n) * Limit + Limit
           /\ (2 + n) * Limit \in Nat /\ (1 + n) * Limit \in Nat
           /\ 2 * Limit <= (2 + n) * Limit
OBVIOUS

LEMMA SomeRestarts ==
    ASSUME TypeOK, NEW t \in 0..MaxNow
    PROVE  IsFiniteSet(RestartsFrom(t)) /\ Cardinality(RestartsFrom(t)) \in Nat
<1>1. Len(restarts) \in Nat /\ RestartsFrom(t) \in SUBSET (1..Len(restarts))
  BY DEF RestartsFrom, TypeOK, Times
<1>2. IsFiniteSet(1..Len(restarts))
  BY <1>1, FS_Interval
<1>3. QED
  BY <1>1, <1>2, FS_Subset, FS_CardinalityType

\* The windows of those admitted in a period since the last restart overlap it.
LEMMA WindowsInPeriod ==
    ASSUME TypeOK, LimitInv, NEW k \in Keys, NEW t \in 0..MaxNow,
           NEW q \in Prompt(k, t) \ past
    PROVE  /\ q \in Current(k) /\ t <= stamp[q] /\ stamp[q] < t + Window
           /\ window[q] \in 0..MaxNow
           /\ window[q] < t + Window
           /\ t < window[q] + Window
<1>1. q \in Current(k) /\ q \in Requests /\ judged[q] = stamp[q]
  BY DEF Prompt, Admitted, Current
<1>2. t <= stamp[q] /\ stamp[q] < t + Window
  BY <1>1 DEF Prompt, TypeOK
<1>3. stamp[q] < window[q] + Window /\ window[q] <= judged[q]
  BY <1>1 DEF LimitInv, WindowInv
<1>4. stamp[q] \in Int /\ window[q] \in 0..MaxNow
  BY <1>1 DEF TypeOK
<1>5. QED
  BY <1>1, <1>2, <1>3, <1>4

LEMMA OfFinite ==
    ASSUME TypeOK, LimitInv, NEW k \in Keys, NEW w \in 0..MaxNow
    PROVE  /\ Of(k, w) \in SUBSET Requests
           /\ IsFiniteSet(Of(k, w)) /\ Cardinality(Of(k, w)) \in Nat
           /\ Cardinality(Of(k, w)) <= Limit
<1>1. Of(k, w) \in SUBSET Requests
  BY DEF Of, Current, Admitted
<1>2. QED
  BY <1>1, SomeRequests DEF LimitInv, CountInv

\* Those of one window are no more than the limit.
LEMMA OneWindow ==
    ASSUME TypeOK, LimitInv, NEW k \in Keys, NEW t \in 0..MaxNow,
           \A p, q \in Prompt(k, t) \ past : window[p] = window[q]
    PROVE  Cardinality(Prompt(k, t) \ past) <= Limit
<1> DEFINE P == Prompt(k, t) \ past
<1>1. CASE P = {}
  BY <1>1, FS_EmptySet
<1>2. CASE P # {}
  <2>1. PICK q \in P : TRUE
    BY <1>2
  <2>2. PICK w \in 0..MaxNow : w = window[q]
    BY <2>1, WindowsInPeriod
  <2>3. P \in SUBSET Of(k, w)
    BY <2>1, <2>2, WindowsInPeriod DEF Of
  <2>4. Cardinality(P) <= Cardinality(Of(k, w))
    BY <2>3, OfFinite, MoreRequests
  <2>5. Cardinality(P) \in Nat
    BY <2>3, OfFinite, SomeRequests
  <2> HIDE DEF P
  <2>6. QED
    BY <2>4, <2>5, OfFinite DEF P
<1>3. QED
  BY <1>1, <1>2

\* A period of the length of a window meets two windows of one life at most, and
\* the request that opened the first of two came before the period.
LEMMA TwoWindows ==
    ASSUME TypeOK, LimitInv, NEW k \in Keys, NEW t \in 0..MaxNow
    PROVE  Cardinality(Prompt(k, t) \ past) < 2 * Limit
<1> DEFINE P == Prompt(k, t) \ past
<1>1. CASE \A p, q \in P : window[p] = window[q]
  <2>1. Cardinality(P) <= Limit
    BY <1>1, OneWindow
  <2>2. P \in SUBSET Requests
    BY DEF Prompt, Admitted
  <2>3. Cardinality(P) \in Nat
    BY <2>2, SomeRequests
  <2> HIDE DEF P
  <2>4. QED
    BY <2>1, <2>3 DEF P
<1>2. ASSUME NEW p \in P, NEW q \in P, window[p] + Window <= window[q]
      PROVE  Cardinality(P) < 2 * Limit
  <2>1. PICK v, w \in 0..MaxNow : v = window[p] /\ w = window[q]
    BY WindowsInPeriod
  <2>2. v < t
    BY <1>2, <2>1, WindowsInPeriod
  <2> DEFINE both == Of(k, v) \cup Of(k, w)
  <2>3. P \subseteq both
    <3>1. \A a, b \in P : \/ window[a] = window[b]
                          \/ window[a] + Window <= window[b]
                          \/ window[b] + Window <= window[a]
      BY WindowsInPeriod DEF LimitInv, WindowInv
    <3>2. \A a \in P : /\ window[a] \in Int /\ window[a] < t + Window
                       /\ t < window[a] + Window
      BY WindowsInPeriod
    <3>3. \A a \in P : window[a] = v \/ window[a] = w
      BY <1>2, <2>1, <3>1, <3>2
    <3>4. QED
      BY <3>3, WindowsInPeriod DEF Of
  <2>4. PICK o \in Current(k) : window[o] = v /\ stamp[o] = v
    BY <2>1, WindowsInPeriod DEF LimitInv, WindowInv
  <2>5. o \in both /\ o \notin P
    <3>1. o \in both
      BY <2>4 DEF Of
    <3>2. o \notin P
      BY <2>2, <2>4, WindowsInPeriod
    <3>3. QED
      BY <3>1, <3>2
  <2>6. Cardinality(both) = Cardinality(Of(k, v)) + Cardinality(Of(k, w))
                            - Cardinality(Of(k, v) \cap Of(k, w))
    BY OfFinite, FS_Union
  <2>7. both \in SUBSET Requests /\ P \in SUBSET Requests
        /\ P \cup {o} \in SUBSET both /\ Of(k, v) \cap Of(k, w) \in SUBSET Requests
    <3>1. both \in SUBSET Requests
      BY OfFinite
    <3>2. QED
      BY <2>3, <2>5, <3>1, OfFinite
  <2> HIDE DEF both, P
  <2>8. Cardinality(P \cup {o}) = Cardinality(P) + 1
    BY <2>5, <2>7, SomeRequests, FS_AddElement
  <2>9. Cardinality(P \cup {o}) <= Cardinality(both)
    BY <2>7, MoreRequests
  <2>10. /\ Cardinality(P) \in Nat /\ Cardinality(both) \in Nat
         /\ Cardinality(Of(k, v) \cap Of(k, w)) \in Nat
    BY <2>7, SomeRequests
  <2>11. QED
    BY <2>6, <2>8, <2>9, <2>10, OfFinite
<1>3. \A p, q \in P : \/ window[p] = window[q]
                      \/ window[p] + Window <= window[q]
                      \/ window[q] + Window <= window[p]
  BY WindowsInPeriod DEF LimitInv, WindowInv
<1>4. QED
  BY <1>1, <1>2, <1>3

\* The parts of a period before and since the last restart.
LEMMA PartsOfPeriod ==
    ASSUME TypeOK, LimitInv, NEW k \in Keys, NEW t \in 0..MaxNow
    PROVE  \/ Prompt(k, t) \cap past = {}
           \/ Prompt(k, t) \ past = {}
           \/ RestartedIn(t) /\ Cardinality(Prompt(k, t) \ past) <= Limit
<1>1. CASE ~Restarted
  BY <1>1 DEF LimitInv, LifeInv
<1>2. CASE Restarted
  <2>1. Since \in 0..MaxNow
    BY <1>2, LastRestart
  <2>2. CASE Since < t
    <3>1. \A q \in Prompt(k, t) : t <= stamp[q] /\ q \in Requests
      BY DEF Prompt, Admitted, TypeOK
    <3>2. \A q \in past : stamp[q] <= Since /\ stamp[q] \in Int
      BY DEF TypeOK, LimitInv, LifeInv
    <3>3. QED
      BY <2>1, <2>2, <3>1, <3>2
  <2>3. ASSUME NEW q \in Prompt(k, t) \ past
        PROVE  /\ Since < t + Window /\ Since <= window[q]
               /\ window[q] \in 0..MaxNow /\ window[q] < t + Window
    <3>1. q \in Current(k) /\ q \in Requests /\ verdict[q] # "none" /\ stamp[q] \in Int
      BY WindowsInPeriod DEF Current, Admitted, TypeOK
    <3>2. Since <= stamp[q] /\ Since <= window[q]
      BY <1>2, <3>1 DEF LimitInv, LifeInv
    <3>3. QED
      BY <2>1, <3>1, <3>2, WindowsInPeriod
  <2>4. CASE ~(Since < t) /\ Prompt(k, t) \ past # {}
    <3>1. RestartedIn(t)
      BY <1>2, <2>1, <2>3, <2>4 DEF RestartedIn
    <3>2. \A p, q \in Prompt(k, t) \ past : \/ window[p] = window[q]
                                            \/ window[p] + Window <= window[q]
                                            \/ window[q] + Window <= window[p]
      BY WindowsInPeriod DEF LimitInv, WindowInv
    <3>3. \A p, q \in Prompt(k, t) \ past : window[p] = window[q]
      BY <2>1, <2>3, <2>4, <3>2
    <3>4. QED
      BY <3>1, <3>3, OneWindow
  <2>5. QED
    BY <2>2, <2>4
<1>3. QED
  BY <1>1, <1>2

\* The first part of LimitKept.
LEMMA AllLives ==
    ASSUME TypeOK, LimitInv, NEW k \in Keys, NEW t \in 0..MaxNow
    PROVE  Cardinality(Prompt(k, t)) < (2 + Cardinality(RestartsFrom(t))) * Limit
<1> DEFINE rest == Prompt(k, t) \ past
           before == Prompt(k, t) \cap past
<1>1. PICK n \in Nat : n = Cardinality(RestartsFrom(t))
  BY SomeRestarts
<1>2. /\ Prompt(k, t) \in SUBSET Requests
      /\ rest \in SUBSET Requests /\ before \in SUBSET Requests
      /\ Prompt(k, t) = rest \cup before /\ rest \cap before = {}
  BY DEF Prompt, Admitted
<1>3. /\ Cardinality(before) < (2 + n) * Limit
      /\ RestartedIn(t) => Cardinality(before) < (1 + n) * Limit
  BY <1>1 DEF LimitInv, PastInv
<1>4. Cardinality(rest) < 2 * Limit
  BY TwoWindows
<1>5. \/ before = {} \/ rest = {}
      \/ RestartedIn(t) /\ Cardinality(rest) <= Limit
  BY PartsOfPeriod
<1> HIDE DEF rest, before
<1>6. /\ Cardinality(rest) \in Nat /\ Cardinality(before) \in Nat
      /\ IsFiniteSet(rest) /\ IsFiniteSet(before)
  BY <1>2, SomeRequests
<1>7. CASE before = {}
  <2>1. Prompt(k, t) = rest
    BY <1>2, <1>7
  <2>2. QED
    BY <1>1, <1>4, <1>6, <2>1, OneLimitMore
<1>8. CASE rest = {}
  <2>1. Prompt(k, t) = before
    BY <1>2, <1>8
  <2>2. QED
    BY <1>1, <1>3, <2>1
<1>9. CASE RestartedIn(t) /\ Cardinality(rest) <= Limit
  <2>1. Cardinality(rest \cup before) = Cardinality(rest) + Cardinality(before)
    <3>1. Cardinality(rest \cup before) = Cardinality(rest) + Cardinality(before)
                                         - Cardinality(rest \cap before)
      BY <1>6, FS_Union
    <3>2. Cardinality(rest \cap before) = 0
      BY <1>2, FS_EmptySet
    <3>3. QED
      BY <1>6, <3>1, <3>2
  <2>2. PICK a, b \in Nat : a = (1 + n) * Limit /\ b = (2 + n) * Limit /\ b = a + Limit
    BY <1>1, OneLimitMore
  <2>3. QED
    BY <1>1, <1>2, <1>3, <1>6, <1>9, <2>1, <2>2
<1>10. QED
  BY <1>5, <1>7, <1>8, <1>9

LEMMA LimitFollows == ASSUME TypeOK, LimitInv PROVE LimitKept
BY AllLives DEF LimitInv, TurnedAwayInv, LimitKept

\* A restart makes what was admitted the past, which is within the limit.
LEMMA RestartLimit == ASSUME TypeOK, TypeOK', LimitInv, Restart PROVE LimitInv'
<1>1. /\ began' = [k \in Keys |-> -1]
      /\ restarts' = Append(restarts, now)
      /\ past' = {r \in Requests : verdict[r] # "none"}
      /\ pc' = [r \in Requests |-> IF pc[r] \in Closed \cup {"new"} THEN pc[r]
                                   ELSE "failed"]
      /\ UNCHANGED <<verdict, judged, window, stamp, now>>
  BY DEF Restart
<1>2. \A k \in Keys : Admitted(k)' = Admitted(k) /\ Current(k)' = {}
  BY <1>1 DEF Admitted, Current
<1>3. TimeInv'
  <2>1. \A r \in Requests : pc'[r] \in {"new", "check"} => pc[r] = "new"
    BY <1>1 DEF Closed
  <2>2. QED
    BY <1>1, <2>1 DEF TypeOK, LimitInv, TimeInv
<1>4. WindowInv'
  BY <1>1, <1>2 DEF WindowInv
<1>5. CountInv'
  <2>1. \A k \in Keys : \A w : Of(k, w)' = {}
    BY <1>2 DEF Of
  <2>2. QED
    <3>1. \A k \in Keys : began'[k] = -1
      BY <1>1
    <3>2. \A k \in Keys : \A w \in 0..MaxNow : Cardinality(Of(k, w)') = 0
      BY <2>1, FS_EmptySet
    <3>3. QED
      BY <3>1, <3>2 DEF CountInv
<1>6. TurnedAwayInv'
  BY <1>1, <1>2 DEF LimitInv, TurnedAwayInv
<1>7. /\ Len(restarts) \in Nat /\ restarts' \in Seq(0..MaxNow)
      /\ Len(restarts') = Len(restarts) + 1
      /\ \A i \in 1..Len(restarts) : restarts'[i] = restarts[i]
      /\ restarts'[Len(restarts) + 1] = now
      /\ DOMAIN restarts = 1..Len(restarts) /\ DOMAIN restarts' = 1..Len(restarts')
  BY <1>1 DEF TypeOK, Times
<1>8. Restarted' /\ Since' = now
  BY <1>7 DEF Restarted, Since
<1>9. LifeInv'
  <2>1. \A r \in past' : verdict'[r] # "none" /\ stamp'[r] <= now
    BY <1>1 DEF LimitInv, TimeInv
  <2>2. \A r \in Requests \ past' : verdict'[r] = "none" /\ pc'[r] # "check"
    BY <1>1 DEF Closed
  <2>3. now' = now /\ now <= now /\ \A k \in Keys : began'[k] = -1
    BY <1>1 DEF TypeOK
  <2>4. QED
    BY <1>2, <1>8, <2>1, <2>2, <2>3 DEF LifeInv
<1>10. PastInv'
  <2> SUFFICES ASSUME NEW k \in Keys, NEW t \in 0..MaxNow
               PROVE  LET m == Cardinality(RestartsFrom(t)') IN
                      /\ Cardinality(Prompt(k, t)' \cap past') < (2 + m) * Limit
                      /\ RestartedIn(t)' =>
                            Cardinality(Prompt(k, t)' \cap past') < (1 + m) * Limit
    BY DEF PastInv
  <2>1. Prompt(k, t)' \cap past' = Prompt(k, t)
    BY <1>1, <1>2 DEF Prompt, Admitted
  <2>2. PICK n \in Nat : n = Cardinality(RestartsFrom(t))
    BY SomeRestarts
  <2>3. Cardinality(Prompt(k, t)) < (2 + n) * Limit
    BY <2>2, AllLives
  <2>4. Cardinality(Prompt(k, t)) \in Nat
    <3>1. Prompt(k, t) \in SUBSET Requests
      BY DEF Prompt, Admitted
    <3>2. QED
      BY <3>1, SomeRequests
  <2>5. CASE now \in t..(t + Window - 1)
    <3>1. /\ RestartsFrom(t)' = RestartsFrom(t) \cup {Len(restarts) + 1}
          /\ Len(restarts) + 1 \notin RestartsFrom(t)
      BY <1>7, <2>5 DEF RestartsFrom
    <3>2. Cardinality(RestartsFrom(t)') = n + 1
      BY <2>2, <3>1, SomeRestarts, FS_AddElement
    <3>3. PICK b \in Nat : b = (2 + n) * Limit
      BY OneLimitMore
    <3>4. /\ (1 + Cardinality(RestartsFrom(t)')) * Limit = b
          /\ (2 + Cardinality(RestartsFrom(t)')) * Limit = b + Limit
      BY <3>2, <3>3, OneLimitMore
    <3>5. Cardinality(Prompt(k, t)) < b /\ Cardinality(Prompt(k, t)) < b + Limit
      BY <2>3, <2>4, <3>3
    <3>6. QED
      BY <2>1, <3>4, <3>5
  <2>6. CASE now \notin t..(t + Window - 1)
    <3>1. RestartsFrom(t)' = RestartsFrom(t)
      BY <1>7, <2>6 DEF RestartsFrom
    <3>2. ~RestartedIn(t)'
      BY <1>8, <2>6 DEF RestartedIn, TypeOK
    <3>3. QED
      BY <2>1, <2>2, <2>3, <3>1, <3>2
  <2>7. QED
    BY <2>5, <2>6
<1>11. QED
  BY <1>3, <1>4, <1>5, <1>6, <1>9, <1>10 DEF LimitInv

LEMMA NextLimit == ASSUME TypeOK, LimitInv, [Next]_vars PROVE LimitInv'
BY NextType, NextElsewhere, ElsewhereLimit, CheckLimit, RestartLimit


-----------------------------------------------------------------------------
(* The logs. *)

LogsOf(s) == {l \in logs : Json(items[l[1]][l[2]].payload)[l[3]].service = s}

\* The records of s in the transaction of r's batch.
Uncommitted(r, s) ==
    {<<r, at[r], n>> : n \in {m \in 1..(next[r] - 1) : ServiceAt(r, m) = s}}

\* A batch has locked the services of the records behind it; logs come from
\* items that are done with.
BatchInv ==
    \A r \in Requests :
        /\ pc[r] \in {"new", "check", "open"} => at[r] = 1
        /\ pc[r] # "log" => next[r] = 1
        /\ pc[r] = "log" =>
              /\ IsBatch(Item(r).payload)
              /\ next[r] <= Len(Records(r)) + 1
              /\ \A n \in 1..(next[r] - 1) : holder[ServiceAt(r, n)] = r
        /\ \A l \in logs : l[1] = r => l[2] < at[r]

\* LogsCounted, and what a batch has written of it.
CountedInv ==
    /\ IsFiniteSet(logs)
    /\ \A s \in Services : logCount[s] = Cardinality(LogsOf(s))
    /\ \A r \in Requests : \A s \in Services : holder[s] = r =>
           written[r][s] = logCount[s] + Cardinality(Uncommitted(r, s))

LogsInv == BatchInv /\ CountedInv

LEMMA InitLogs == ASSUME Init PROVE LogsInv
<1>1. BatchInv
  BY DEF Init, BatchInv
<1>2. \A s \in Services : LogsOf(s) = {} /\ logCount[s] = 0 /\ holder[s] = None
  BY DEF Init, LogsOf
<1>3. IsFiniteSet(logs)
  BY FS_EmptySet DEF Init
<1>4. QED
  BY <1>1, <1>2, <1>3, FS_EmptySet DEF LogsInv, CountedInv

LEMMA SeqElements ==
    ASSUME NEW S, NEW R \in Seq(S), NEW n \in 1..Len(R) PROVE R[n] \in S
OBVIOUS

\* A batch's records name services, and those behind it are few.
LEMMA BatchRecords ==
    ASSUME TypeOK, LogsInv, NEW r \in Requests, pc[r] = "log"
    PROVE  /\ Len(Records(r)) \in Nat
           /\ \A n \in 1..Len(Records(r)) : ServiceAt(r, n) \in Services
<1>1. Records(r) \in Seq([kind : {"record"}, service : Services])
  BY DEF LogsInv, BatchInv, IsBatch, Records
<1>2. \A n \in 1..Len(Records(r)) :
         Records(r)[n] \in [kind : {"record"}, service : Services]
  BY <1>1, SeqElements
<1>3. QED
  BY <1>1, <1>2 DEF ServiceAt

LEMMA FewUncommitted ==
    ASSUME TypeOK, NEW r \in Requests, NEW s
    PROVE  IsFiniteSet(Uncommitted(r, s)) /\ Cardinality(Uncommitted(r, s)) \in Nat
<1> DEFINE M == {m \in 1..(next[r] - 1) : ServiceAt(r, m) = s}
           f == [n \in M |-> <<r, at[r], n>>]
<1>1. next[r] - 1 \in Int
  BY DEF TypeOK
<1>2. IsFiniteSet(1..(next[r] - 1))
  BY <1>1, FS_Interval
<1>3. IsFiniteSet(M)
  BY <1>2, FS_Subset
<1>4. f \in Surjection(M, Uncommitted(r, s))
  BY DEF Surjection, Uncommitted
<1>5. IsFiniteSet(Uncommitted(r, s))
  BY <1>3, <1>4, FS_Surjection
<1>6. QED
  BY <1>5, FS_CardinalityType

\* A step of a request that is not within a batch.
LEMMA OutsideLogs ==
    ASSUME TypeOK, TypeOK', LogsInv, NEW r \in Requests,
           pc[r] # "log",
           UNCHANGED <<logs, logCount, next, written, holder>>,
           \A q \in Requests \ {r} :
               pc'[q] = pc[q] /\ at'[q] = at[q] /\ items'[q] = items[q],
           at'[r] >= at[r],
           items'[r] = items[r] \/ pc[r] = "open",
           pc'[r] = "log" => IsBatch(Item(r)'.payload),
           pc'[r] \in {"new", "check", "open"} => at'[r] = 1
    PROVE  LogsInv'
<1>1. \A q \in Requests \ {r} : /\ Item(q)' = Item(q)
                                 /\ Records(q)' = Records(q)
                                 /\ \A n : ServiceAt(q, n)' = ServiceAt(q, n)
  BY DEF Item, Records, ServiceAt
<1>2. next[r] = 1
  BY DEF LogsInv, BatchInv
<1>3. \A l \in logs : l \in Requests \X (Nat \ {0}) \X (Nat \ {0})
                      /\ items'[l[1]] = items[l[1]]
  <2> SUFFICES ASSUME NEW l \in logs
               PROVE  l \in Requests \X (Nat \ {0}) \X (Nat \ {0})
                      /\ items'[l[1]] = items[l[1]]
    OBVIOUS
  <2>1. l \in Requests \X (Nat \ {0}) \X (Nat \ {0})
    BY DEF TypeOK
  <2>2. l[1] = r => at[r] # 1
    <3>1. l[2] \in Nat \ {0} /\ at[r] \in Nat
      BY <2>1 DEF TypeOK
    <3>2. l[1] = r => l[2] < at[r]
      BY DEF LogsInv, BatchInv
    <3>3. QED
      BY <3>1, <3>2
  <2>3. l[1] = r => pc[r] # "open"
    BY <2>2 DEF LogsInv, BatchInv
  <2>4. QED
    BY <2>1, <2>3
<1>4. BatchInv'
  <2> SUFFICES ASSUME NEW q \in Requests
               PROVE  /\ pc'[q] \in {"new", "check", "open"} => at'[q] = 1
                      /\ pc'[q] # "log" => next'[q] = 1
                      /\ pc'[q] = "log" =>
                            /\ IsBatch(Item(q)'.payload)
                            /\ next'[q] <= Len(Records(q)') + 1
                            /\ \A n \in 1..(next'[q] - 1) : holder'[ServiceAt(q, n)'] = q
                      /\ \A l \in logs' : l[1] = q => l[2] < at'[q]
    BY DEF BatchInv
  <2>1. CASE q # r
    BY <1>1, <2>1 DEF LogsInv, BatchInv
  <2>2. CASE q = r
    <3>1. \A l \in logs : l[1] = r => l[2] < at'[r]
      <4>1. \A l \in logs : l[2] \in Nat
        BY <1>3
      <4>2. \A l \in logs : l[1] = r => l[2] < at[r]
        BY DEF LogsInv, BatchInv
      <4>3. at[r] \in Nat /\ at'[r] \in Nat
        BY DEF TypeOK
      <4>4. QED
        BY <4>1, <4>2, <4>3
    <3>2. ASSUME pc'[r] = "log" PROVE next'[r] <= Len(Records(r)') + 1
      <4>1. IsBatch(Item(r)'.payload)
        BY <3>2
      <4>2. Records(r)' \in Seq([kind : {"record"}, service : Services])
        BY <4>1 DEF IsBatch, Records
      <4>3. Len(Records(r)') \in Nat
        BY <4>2
      <4>4. QED
        BY <1>2, <4>3
    <3>3. \A n \in 1..(next'[r] - 1) : FALSE
      BY <1>2
    <3>4. QED
      BY <1>2, <2>2, <3>1, <3>2, <3>3
  <2>3. QED
    BY <2>1, <2>2
<1>5. CountedInv'
  <2>1. \A s \in Services : LogsOf(s)' = LogsOf(s)
    BY <1>3 DEF LogsOf
  <2>2. ASSUME NEW q \in Requests, NEW s \in Services, holder[s] = q
        PROVE  Uncommitted(q, s)' = Uncommitted(q, s)
    <3>1. q # r
      BY <2>2 DEF TypeOK
    <3>2. QED
      BY <1>1, <3>1 DEF Uncommitted
  <2>3. QED
    BY <2>1, <2>2 DEF LogsInv, CountedInv
<1>6. QED
  BY <1>4, <1>5 DEF LogsInv

LEMMA StoreRecordLogs ==
    ASSUME TypeOK, TypeOK', LogsInv, NEW r \in Requests, StoreRecord(r) PROVE LogsInv'
<1> DEFINE s == ServiceAt(r, next[r])
<1>1. /\ pc[r] = "log"
      /\ next[r] \in 1..Len(Records(r))
      /\ holder[s] \in {None, r}
      /\ holder' = [holder EXCEPT ![s] = r]
      /\ written' = [written EXCEPT ![r][s] =
                        IF holder[s] = r THEN @ + 1 ELSE logCount[s] + 1]
      /\ next' = [next EXCEPT ![r] = @ + 1]
      /\ UNCHANGED <<logs, logCount, pc, items, at>>
  BY BatchRecords DEF StoreRecord, CanLock, TypeOK, rows
<1>2. s \in Services /\ Len(Records(r)) \in Nat /\ next[r] \in Nat /\ at[r] \in Nat
  BY <1>1, BatchRecords DEF TypeOK
<1>3. /\ \A q : Item(q)' = Item(q) /\ Records(q)' = Records(q)
      /\ \A q, n : ServiceAt(q, n)' = ServiceAt(q, n)
  BY <1>1 DEF Item, Records, ServiceAt
<1>4. \A n \in 1..(next[r] - 1) : holder[ServiceAt(r, n)] = r
  BY <1>1 DEF LogsInv, BatchInv
<1>5. next'[r] = next[r] + 1 /\ \A q \in Requests \ {r} : next'[q] = next[q]
  BY <1>1 DEF TypeOK
<1>6. holder'[s] = r /\ \A t \in Services \ {s} : holder'[t] = holder[t]
  BY <1>1, <1>2 DEF TypeOK
<1>7. BatchInv'
  <2> SUFFICES ASSUME NEW q \in Requests
               PROVE  /\ pc[q] \in {"new", "check", "open"} => at[q] = 1
                      /\ pc[q] # "log" => next'[q] = 1
                      /\ pc[q] = "log" =>
                            /\ IsBatch(Item(q).payload)
                            /\ next'[q] <= Len(Records(q)) + 1
                            /\ \A n \in 1..(next'[q] - 1) : holder'[ServiceAt(q, n)] = q
                      /\ \A l \in logs : l[1] = q => l[2] < at[q]
    BY <1>1, <1>3 DEF BatchInv
  <2>1. CASE q = r
    <3>1. \A n \in 1..(next'[r] - 1) : n \in 1..(next[r] - 1) \/ n = next[r]
      BY <1>2, <1>5
    <3>2. ASSUME NEW n \in 1..(next[r] - 1) PROVE holder'[ServiceAt(r, n)] = r
      <4>1. n \in 1..Len(Records(r))
        BY <1>1, <1>2
      <4>2. ServiceAt(r, n) \in Services
        BY <1>1, <4>1, BatchRecords
      <4>3. QED
        BY <1>4, <1>6, <4>2
    <3>3. \A n \in 1..(next'[r] - 1) : holder'[ServiceAt(r, n)] = r
      BY <1>6, <3>1, <3>2
    <3>4. QED
      BY <1>1, <1>2, <1>5, <2>1, <3>3 DEF LogsInv, BatchInv
  <2>2. CASE q # r
    <3>1. ASSUME pc[q] = "log", NEW n \in 1..(next[q] - 1)
          PROVE  holder'[ServiceAt(q, n)] = q
      <4>1. holder[ServiceAt(q, n)] = q
        BY <3>1 DEF LogsInv, BatchInv
      <4>2. q # None
        OBVIOUS
      <4>3. n \in 1..Len(Records(q))
        <5>1. next[q] <= Len(Records(q)) + 1 /\ Len(Records(q)) \in Nat /\ next[q] \in Nat
          BY <3>1, BatchRecords DEF LogsInv, BatchInv, TypeOK
        <5>2. QED
          BY <5>1
      <4>4. ServiceAt(q, n) \in Services
        BY <3>1, <4>3, BatchRecords
      <4>5. QED
        BY <1>1, <1>6, <2>2, <4>1, <4>2, <4>4
    <3>2. QED
      BY <1>5, <2>2, <3>1 DEF LogsInv, BatchInv
  <2>3. QED
    BY <2>1, <2>2
<1>8. ASSUME NEW q \in Requests, NEW t \in Services, holder'[t] = q
      PROVE  written'[q][t] = logCount[t] + Cardinality(Uncommitted(q, t)')
  <2>1. CASE q # r
    <3>1. t # s /\ holder[t] = q
      BY <1>6, <1>8, <2>1
    <3>2. written'[q][t] = written[q][t]
      BY <1>1, <2>1 DEF TypeOK
    <3>3. Uncommitted(q, t)' = Uncommitted(q, t)
      BY <1>1, <1>3, <1>5, <2>1 DEF Uncommitted
    <3>4. QED
      BY <3>1, <3>2, <3>3 DEF LogsInv, CountedInv
  <2>2. CASE q = r /\ t # s
    <3>1. holder[t] = r
      BY <1>6, <1>8, <2>2
    <3>2. written'[r][t] = written[r][t]
      BY <1>1, <2>2 DEF TypeOK
    <3>3. Uncommitted(r, t)' = Uncommitted(r, t)
      <4>1. Uncommitted(r, t)' =
               {<<r, at[r], n>> : n \in {m \in 1..next[r] : ServiceAt(r, m) = t}}
        BY <1>1, <1>2, <1>3, <1>5 DEF Uncommitted
      <4>2. \A n \in 1..next[r] : ServiceAt(r, n) = t => n \in 1..(next[r] - 1)
        BY <1>2, <2>2
      <4>3. QED
        BY <1>2, <4>1, <4>2 DEF Uncommitted
    <3>4. QED
      BY <2>2, <3>1, <3>2, <3>3 DEF LogsInv, CountedInv
  <2>3. CASE q = r /\ t = s
    <3>1. {m \in 1..next[r] : ServiceAt(r, m) = s}
             = {m \in 1..(next[r] - 1) : ServiceAt(r, m) = s} \cup {next[r]}
      <4>1. /\ next[r] \in 1..next[r]
            /\ \A m : m \in 1..next[r] <=> m \in 1..(next[r] - 1) \/ m = next[r]
        BY <1>1, <1>2
      <4>2. QED
        BY <4>1, Zenon
    <3>2. Uncommitted(r, t)' =
             {<<r, at[r], n>> : n \in {m \in 1..next[r] : ServiceAt(r, m) = s}}
      BY <1>1, <1>2, <1>3, <1>5, <2>3 DEF Uncommitted
    <3> DEFINE l0 == <<r, at[r], next[r]>>
               old == Uncommitted(r, s)
    <3>3. Uncommitted(r, t)' = old \cup {l0} /\ l0 \notin old
      <4>1. next[r] \notin 1..(next[r] - 1)
        BY <1>2
      <4>2. QED
        BY <3>1, <3>2, <4>1 DEF Uncommitted
    <3>4. IsFiniteSet(old) /\ Cardinality(old) \in Nat
      BY FewUncommitted
    <3> HIDE DEF old, l0
    <3>5. Cardinality(Uncommitted(r, t)') = Cardinality(old) + 1
      BY <3>3, <3>4, FS_AddElement
    <3>6. written'[r][s] = IF holder[s] = r THEN written[r][s] + 1 ELSE logCount[s] + 1
      BY <1>1, <1>2 DEF TypeOK
    <3>7. CASE holder[s] = r
      <4>1. written[r][s] = logCount[s] + Cardinality(old)
        BY <1>2, <3>7 DEF LogsInv, CountedInv, old
      <4>2. logCount[s] \in Nat
        BY <1>2 DEF TypeOK
      <4>3. QED
        BY <2>3, <3>4, <3>5, <3>6, <3>7, <4>1, <4>2
    <3>8. CASE holder[s] # r
      <4>1. old = {}
        BY <1>4, <3>8 DEF Uncommitted, old
      <4>2. QED
        BY <2>3, <3>5, <3>6, <3>8, <4>1, FS_EmptySet
    <3>9. QED
      BY <3>7, <3>8
  <2>4. QED
    BY <2>1, <2>2, <2>3
<1>9. \A t \in Services : LogsOf(t)' = LogsOf(t)
  BY <1>1 DEF LogsOf
<1>10. QED
  BY <1>1, <1>7, <1>8, <1>9 DEF LogsInv, CountedInv

LEMMA CommitBatchLogs ==
    ASSUME TypeOK, TypeOK', LogsInv, NEW r \in Requests, CommitBatch(r) PROVE LogsInv'
<1> DEFINE new == {<<r, at[r], n>> : n \in 1..Len(Records(r))}
<1>1. /\ pc[r] = "log"
      /\ next[r] > Len(Records(r))
      /\ logs' = logs \cup new
      /\ logCount' = [s \in Services |-> IF s \in Locked(r) THEN written[r][s]
                                        ELSE logCount[s]]
      /\ holder' = [s \in Services |-> IF holder[s] = r THEN None ELSE holder[s]]
      /\ next' = [next EXCEPT ![r] = 1]
      /\ written' = [written EXCEPT ![r] = [s \in Services |-> 0]]
      /\ at' = [at EXCEPT ![r] = @ + 1]
      /\ pc' = [pc EXCEPT ![r] = IF at[r] = Len(items[r]) THEN "accepted" ELSE "item"]
      /\ items' = items
  BY DEF CommitBatch, EndBatch, Proceed, Goto
<1>2. /\ Len(Records(r)) \in Nat /\ at[r] \in Nat \ {0}
      /\ next[r] = Len(Records(r)) + 1
  <2>1. Len(Records(r)) \in Nat /\ at[r] \in Nat \ {0} /\ next[r] \in Nat
    BY <1>1, BatchRecords DEF TypeOK
  <2>2. next[r] <= Len(Records(r)) + 1
    BY <1>1 DEF LogsInv, BatchInv
  <2>3. QED
    BY <1>1, <2>1, <2>2
<1>3. \A q \in Requests \ {r} :
         /\ at'[q] = at[q] /\ next'[q] = next[q] /\ pc'[q] = pc[q]
         /\ written'[q] = written[q]
         /\ Item(q)' = Item(q) /\ Records(q)' = Records(q)
         /\ \A n : ServiceAt(q, n)' = ServiceAt(q, n)
  BY <1>1 DEF TypeOK, Item, Records, ServiceAt
<1>4. /\ at'[r] = at[r] + 1 /\ next'[r] = 1 /\ pc'[r] \in {"accepted", "item"}
  BY <1>1 DEF TypeOK
<1>5. \A l \in logs : l[1] = r => l[2] < at[r]
  BY DEF LogsInv, BatchInv
<1>6. ASSUME NEW q \in Requests, pc[q] = "log", NEW n \in 1..(next[q] - 1)
      PROVE  n \in 1..Len(Records(q)) /\ ServiceAt(q, n) \in Services
  <2>1. next[q] <= Len(Records(q)) + 1 /\ Len(Records(q)) \in Nat /\ next[q] \in Nat
    BY <1>6, BatchRecords DEF LogsInv, BatchInv, TypeOK
  <2>2. n \in 1..Len(Records(q))
    BY <2>1
  <2>3. QED
    BY <1>6, <2>2, BatchRecords
<1>7. BatchInv'
  <2> SUFFICES ASSUME NEW q \in Requests
               PROVE  /\ pc'[q] \in {"new", "check", "open"} => at'[q] = 1
                      /\ pc'[q] # "log" => next'[q] = 1
                      /\ pc'[q] = "log" =>
                            /\ IsBatch(Item(q)'.payload)
                            /\ next'[q] <= Len(Records(q)') + 1
                            /\ \A n \in 1..(next'[q] - 1) : holder'[ServiceAt(q, n)'] = q
                      /\ \A l \in logs' : l[1] = q => l[2] < at'[q]
    BY DEF BatchInv
  <2>1. CASE q = r
    <3>1. \A l \in logs' : l[1] = r => l[2] < at'[r]
      <4>1. \A l \in logs : l[2] \in Nat
        BY DEF TypeOK
      <4>2. QED
        BY <1>1, <1>2, <1>4, <1>5, <4>1
    <3>2. QED
      BY <1>4, <2>1, <3>1
  <2>2. CASE q # r
    <3>1. \A l \in logs' : l[1] = q => l \in logs
      BY <1>1, <2>2
    <3>2. ASSUME pc[q] = "log", NEW n \in 1..(next[q] - 1)
          PROVE  holder'[ServiceAt(q, n)] = q
      <4>1. holder[ServiceAt(q, n)] = q /\ ServiceAt(q, n) \in Services
        BY <1>6, <3>2 DEF LogsInv, BatchInv
      <4>2. QED
        BY <1>1, <2>2, <4>1
    <3>3. QED
      BY <1>3, <2>2, <3>1, <3>2 DEF LogsInv, BatchInv
  <2>3. QED
    BY <2>1, <2>2
<1>8. ASSUME NEW q \in Requests, NEW s \in Services, holder'[s] = q
      PROVE  written'[q][s] = logCount'[s] + Cardinality(Uncommitted(q, s)')
  <2>1. q # None
    OBVIOUS
  <2>2. holder[s] = q /\ q # r
    BY <1>1, <1>8, <2>1
  <2>3. logCount'[s] = logCount[s]
    BY <1>1, <2>2 DEF Locked
  <2>4. Uncommitted(q, s)' = Uncommitted(q, s)
    BY <1>3, <2>2 DEF Uncommitted
  <2>5. QED
    BY <1>3, <2>2, <2>3, <2>4 DEF LogsInv, CountedInv
<1>9. ASSUME NEW s \in Services PROVE logCount'[s] = Cardinality(LogsOf(s)')
  <2>1. LogsOf(s)' = LogsOf(s) \cup Uncommitted(r, s)
    <3>1. \A n : Json(items[r][at[r]].payload)[n].service = ServiceAt(r, n)
      BY DEF ServiceAt, Records, Item
    <3>2. {l \in new : Json(items[l[1]][l[2]].payload)[l[3]].service = s}
             = Uncommitted(r, s)
      <4>1. 1..(next[r] - 1) = 1..Len(Records(r))
        BY <1>2
      <4>2. Uncommitted(r, s) = {<<r, at[r], n>> :
                                    n \in {m \in 1..Len(Records(r)) : ServiceAt(r, m) = s}}
        BY <4>1 DEF Uncommitted
      <4>3. \A l \in new : \E n \in 1..Len(Records(r)) :
               /\ l = <<r, at[r], n>>
               /\ Json(items[l[1]][l[2]].payload)[l[3]].service = ServiceAt(r, n)
        BY <3>1
      <4>4. QED
        BY <4>2, <4>3
    <3>3. QED
      BY <1>1, <3>2 DEF LogsOf
  <2>2. LogsOf(s) \cap Uncommitted(r, s) = {}
    <3>1. \A l \in LogsOf(s) : l[1] = r => l[2] # at[r]
      <4>1. \A l \in logs : l[2] \in Nat
        BY DEF TypeOK
      <4>2. QED
        BY <1>2, <1>5, <4>1 DEF LogsOf
    <3>2. \A l \in Uncommitted(r, s) : l[1] = r /\ l[2] = at[r]
      BY DEF Uncommitted
    <3>3. QED
      BY <3>1, <3>2
  <2>3. /\ IsFiniteSet(LogsOf(s)) /\ IsFiniteSet(Uncommitted(r, s))
        /\ Cardinality(Uncommitted(r, s)) \in Nat /\ Cardinality(LogsOf(s)) \in Nat
    <3>1. IsFiniteSet(logs) /\ LogsOf(s) \in SUBSET logs
      BY DEF LogsInv, CountedInv, LogsOf
    <3>2. QED
      BY <3>1, FS_Subset, FS_CardinalityType, FewUncommitted
  <2>4. Cardinality(LogsOf(s)') = Cardinality(LogsOf(s)) + Cardinality(Uncommitted(r, s))
    BY <2>1, <2>2, <2>3, FS_Union, FS_EmptySet
  <2>5. logCount[s] = Cardinality(LogsOf(s))
    BY DEF LogsInv, CountedInv
  <2>6. CASE holder[s] = r
    BY <1>1, <2>4, <2>5, <2>6 DEF Locked, LogsInv, CountedInv
  <2>7. CASE holder[s] # r
    <3>1. Uncommitted(r, s) = {}
      BY <1>1, <2>7 DEF Uncommitted, LogsInv, BatchInv
    <3>2. logCount'[s] = logCount[s]
      BY <1>1, <2>7 DEF Locked
    <3>3. QED
      BY <2>3, <2>4, <2>5, <3>1, <3>2, FS_EmptySet
  <2>8. QED
    BY <2>6, <2>7
<1>10. IsFiniteSet(logs')
  <2>1. IsFiniteSet(logs) /\ IsFiniteSet(new)
    <3> DEFINE f == [n \in 1..Len(Records(r)) |-> <<r, at[r], n>>]
    <3>1. f \in Surjection(1..Len(Records(r)), new)
      BY DEF Surjection
    <3>2. IsFiniteSet(1..Len(Records(r)))
      BY <1>2, FS_Interval
    <3>3. QED
      BY <3>1, <3>2, FS_Surjection DEF LogsInv, CountedInv
  <2>2. QED
    BY <1>1, <2>1, FS_Union
<1>11. QED
  BY <1>7, <1>8, <1>9, <1>10 DEF LogsInv, CountedInv

\* A request that ends early takes nothing of its batch with it.
LEMMA AbandonLogs ==
    ASSUME TypeOK, TypeOK', LogsInv, NEW r \in Requests, Abandon(r) PROVE LogsInv'
<1>1. /\ pc' = [pc EXCEPT ![r] = "failed"]
      /\ holder' = [s \in Services |-> IF holder[s] = r THEN None ELSE holder[s]]
      /\ next' = [next EXCEPT ![r] = 1]
      /\ written' = [written EXCEPT ![r] = [s \in Services |-> 0]]
      /\ UNCHANGED <<logs, logCount, items, at>>
  BY DEF Abandon, Goto, Released, EndBatch, rows
<1>2. \A q \in Requests \ {r} :
         /\ at'[q] = at[q] /\ next'[q] = next[q] /\ pc'[q] = pc[q]
         /\ written'[q] = written[q]
         /\ Item(q)' = Item(q) /\ Records(q)' = Records(q)
         /\ \A n : ServiceAt(q, n)' = ServiceAt(q, n)
  BY <1>1 DEF TypeOK, Item, Records, ServiceAt
<1>3. pc'[r] = "failed" /\ next'[r] = 1
  BY <1>1 DEF TypeOK
<1>4. ASSUME NEW q \in Requests \ {r}, pc[q] = "log", NEW n \in 1..(next[q] - 1)
      PROVE  holder'[ServiceAt(q, n)] = q
  <2>1. next[q] <= Len(Records(q)) + 1 /\ Len(Records(q)) \in Nat /\ next[q] \in Nat
    BY <1>4, BatchRecords DEF LogsInv, BatchInv, TypeOK
  <2>2. n \in 1..Len(Records(q))
    BY <2>1
  <2>3. ServiceAt(q, n) \in Services /\ holder[ServiceAt(q, n)] = q
    BY <1>4, <2>2, BatchRecords DEF LogsInv, BatchInv
  <2>4. QED
    BY <1>1, <2>3
<1>5. BatchInv'
  <2> SUFFICES ASSUME NEW q \in Requests
               PROVE  /\ pc'[q] \in {"new", "check", "open"} => at[q] = 1
                      /\ pc'[q] # "log" => next'[q] = 1
                      /\ pc'[q] = "log" =>
                            /\ IsBatch(Item(q)'.payload)
                            /\ next'[q] <= Len(Records(q)') + 1
                            /\ \A n \in 1..(next'[q] - 1) : holder'[ServiceAt(q, n)'] = q
                      /\ \A l \in logs : l[1] = q => l[2] < at[q]
    BY <1>1 DEF BatchInv
  <2>1. CASE q = r
    BY <1>3, <2>1 DEF LogsInv, BatchInv
  <2>2. CASE q # r
    BY <1>2, <1>4, <2>2 DEF LogsInv, BatchInv
  <2>3. QED
    BY <2>1, <2>2
<1>6. ASSUME NEW q \in Requests, NEW s \in Services, holder'[s] = q
      PROVE  written'[q][s] = logCount[s] + Cardinality(Uncommitted(q, s)')
  <2>1. q # None
    OBVIOUS
  <2>2. holder[s] = q /\ q # r
    BY <1>1, <1>6, <2>1
  <2>3. Uncommitted(q, s)' = Uncommitted(q, s)
    BY <1>2, <2>2 DEF Uncommitted
  <2>4. QED
    BY <1>2, <2>2, <2>3 DEF LogsInv, CountedInv
<1>7. \A s \in Services : LogsOf(s)' = LogsOf(s)
  BY <1>1 DEF LogsOf
<1>8. QED
  BY <1>1, <1>5, <1>6, <1>7 DEF LogsInv, CountedInv

LEMMA RestartLogs == ASSUME TypeOK, LogsInv, Restart PROVE LogsInv'
<1>1. /\ pc' = [r \in Requests |-> IF pc[r] \in Closed \cup {"new"} THEN pc[r]
                                  ELSE "failed"]
      /\ holder' = [s \in Services |-> None]
      /\ next' = [r \in Requests |-> 1]
      /\ UNCHANGED <<logs, logCount, items, at>>
  BY DEF Restart, rows
<1>2. \A r \in Requests : /\ pc'[r] # "log" /\ next'[r] = 1
                          /\ pc'[r] \in {"new", "check", "open"} => pc[r] = "new"
  BY <1>1 DEF Closed
<1>3. BatchInv'
  BY <1>1, <1>2 DEF LogsInv, BatchInv
<1>4. \A s \in Services : LogsOf(s)' = LogsOf(s) /\ holder'[s] = None
  BY <1>1 DEF LogsOf
<1>5. QED
  BY <1>1, <1>3, <1>4 DEF LogsInv, CountedInv

LEMMA NextLogs == ASSUME TypeOK, LogsInv, [Next]_vars PROVE LogsInv'
<1> USE DEF rows, limiter, trace, bounds, inHand
<1>1. TypeOK'
  BY NextType
<1>2. ASSUME NEW r \in Requests,
             Arrive(r) \/ Check(r) \/ Open(r) \/ ReadFields(r) \/ StoreEvent(r)
                 \/ StoreRaw(r)
      PROVE  LogsInv'
  <2>1. /\ pc[r] # "log"
        /\ UNCHANGED <<logs, logCount, next, written, holder>>
    BY <1>2 DEF Arrive, Check, Open, ReadFields, StoreEvent, StoreRaw
  <2>2. \E place : Goto(r, place)
    BY <1>2 DEF Arrive, Check, Open, ReadFields, StoreEvent, StoreRaw, Proceed
  <2>3. \/ at' = at
        \/ at' = [at EXCEPT ![r] = @ + 1] /\ pc'[r] \in {"item", "accepted"}
    BY <1>2 DEF Arrive, Check, Open, ReadFields, StoreEvent, StoreRaw, Proceed, Goto, TypeOK
  <2>4. \/ items' = items
        \/ pc[r] = "open" /\ \A q \in Requests \ {r} : items'[q] = items[q]
    <3>1. CASE Open(r)
      <4>1. PICK body \in Bodies[r] \cup CutBodies[r] :
               items' = [items EXCEPT ![r] = Parsed[body].items]
        BY <3>1 DEF Open
      <4>2. QED
        BY <3>1, <4>1 DEF Open, TypeOK
    <3>2. ASSUME Arrive(r) \/ Check(r) PROVE items' = items
      BY <3>2 DEF Arrive, Check
    <3>3. ASSUME ReadFields(r) \/ StoreEvent(r) \/ StoreRaw(r) PROVE items' = items
      BY <3>3 DEF ReadFields, StoreEvent, StoreRaw
    <3>4. Open(r) \/ items' = items
      BY <1>2, <3>2, <3>3
    <3>5. QED
      BY <3>1, <3>4
  <2>5. \A q \in Requests \ {r} :
           pc'[q] = pc[q] /\ at'[q] = at[q] /\ items'[q] = items[q]
    BY <2>2, <2>3, <2>4 DEF Goto, TypeOK
  <2>6. at'[r] >= at[r] /\ (items'[r] = items[r] \/ pc[r] = "open")
    BY <2>3, <2>4 DEF TypeOK
  <2>7. pc'[r] = "log" => IsBatch(Item(r)'.payload)
    <3>1. pc'[r] = "log" => StoreRaw(r) /\ Item(r)' = Item(r) /\ IsBatch(Item(r).payload)
      <4>1. CASE StoreRaw(r)
        BY <4>1 DEF StoreRaw, Proceed, Goto, TypeOK, Item
      <4>2. CASE ~StoreRaw(r)
        BY <1>2, <4>2 DEF Arrive, Check, Open, ReadFields, StoreEvent, Proceed, Goto, TypeOK
      <4>3. QED
        BY <4>1, <4>2
    <3>2. QED
      BY <3>1
  <2>8. pc'[r] \in {"new", "check", "open"} => at'[r] = 1
    <3>1. pc'[r] \in {"new", "check", "open"} => pc[r] \in {"new", "check"} /\ at' = at
      BY <1>2 DEF Arrive, Check, Open, ReadFields, StoreEvent, StoreRaw, Proceed, Goto,
                  TypeOK
    <3>2. QED
      BY <3>1 DEF LogsInv, BatchInv
  <2>9. QED
    BY <1>1, <2>1, <2>5, <2>6, <2>7, <2>8, OutsideLogs
<1>3. CASE UNCHANGED <<logs, logCount, next, written, holder, pc, at, items>>
  <2>1. /\ \A s : LogsOf(s)' = LogsOf(s)
        /\ \A r, s : Uncommitted(r, s)' = Uncommitted(r, s)
        /\ \A r : Item(r)' = Item(r) /\ Records(r)' = Records(r)
        /\ \A r, n : ServiceAt(r, n)' = ServiceAt(r, n)
    BY <1>3 DEF LogsOf, Uncommitted, Item, Records, ServiceAt
  <2>2. QED
    BY <1>3, <2>1 DEF LogsInv, BatchInv, CountedInv
<1>4. ASSUME NEW F \in SUBSET Fields, UpdateProject(F) PROVE LogsInv'
  BY <1>3, <1>4 DEF UpdateProject
<1>5. CASE Tick
  BY <1>3, <1>5 DEF Tick
<1>6. CASE UNCHANGED vars
  BY <1>3, <1>6 DEF vars
<1>7. QED
  BY <1>1, <1>2, <1>4, <1>5, <1>6, StoreRecordLogs, CommitBatchLogs, AbandonLogs,
     RestartLogs DEF Next, Serve, Deadlock, Lose

-----------------------------------------------------------------------------
(* The secrets. *)

\* What is stored of an event is scrubbed of what it owes, and fingerprinted
\* after that.
Clean(x) == \E e, F, G : G \subseteq F /\ x = [row |-> RowOf(e, F), owed |-> G]

EventInv ==
    /\ \A r \in Requests : owed[r] \subseteq read[r]
    /\ \A i \in EventIds : events[i] = None \/ Clean(events[i])

LEMMA InitEvents == ASSUME Init PROVE EventInv
BY DEF Init, EventInv

LEMMA NextEvents == ASSUME TypeOK, EventInv, [Next]_vars PROVE EventInv'
<1> USE DEF rows, inHand
<1>1. \A r \in Requests : owed'[r] \subseteq read'[r]
  <2>1. ASSUME NEW r \in Requests,
               ReadFields(r) \/ StoreEvent(r) \/ Abandon(r)
        PROVE  \A q \in Requests : owed'[q] \subseteq read'[q]
    <3>1. \/ owed' = owed /\ read' = read
          \/ owed' = [owed EXCEPT ![r] = fields] /\ read' = [read EXCEPT ![r] = fields]
          \/ owed' = [owed EXCEPT ![r] = {}] /\ read' = [read EXCEPT ![r] = {}]
      BY <2>1 DEF ReadFields, StoreEvent, Abandon
    <3>2. /\ owed \in [Requests -> SUBSET Fields] /\ read \in [Requests -> SUBSET Fields]
          /\ \A q \in Requests : owed[q] \subseteq read[q]
      BY DEF TypeOK, EventInv
    <3>3. ASSUME NEW q \in Requests PROVE owed'[q] \subseteq read'[q]
      <4>1. CASE q = r
        BY <3>1, <3>2, <4>1
      <4>2. CASE q # r
        BY <3>1, <3>2, <4>2
      <4>3. QED
        BY <4>1, <4>2
    <3>4. QED
      BY <3>3
  <2>2. CASE Restart
    BY <2>2 DEF Restart
  <2>3. ASSUME NEW F \in SUBSET Fields, UpdateProject(F)
        PROVE  \A q \in Requests : owed'[q] \subseteq read'[q]
    BY <2>3 DEF UpdateProject, EventInv
  <2>4. CASE UNCHANGED <<owed, read>>
    BY <2>4 DEF EventInv
  <2>5. QED
    BY <2>1, <2>2, <2>3, <2>4
       DEF Next, Serve, Arrive, Check, Open, StoreRaw, StoreRecord, CommitBatch, Deadlock,
           Lose, Tick, vars
<1>2. ASSUME NEW i \in EventIds PROVE events'[i] = None \/ Clean(events'[i])
  <2>1. CASE events' = events
    BY <2>1 DEF EventInv
  <2>2. ASSUME NEW r \in Requests, StoreEvent(r)
        PROVE  events'[i] = None \/ Clean(events'[i])
    <3> DEFINE e == Json(Item(r).payload)[1]
               x == [row |-> RowOf(e, read[r]), owed |-> owed[r]]
    <3>1. events' = events \/ events' = [events EXCEPT ![e.id] = x]
      BY <2>2 DEF StoreEvent
    <3>2. Clean(x)
      BY DEF EventInv, Clean
    <3> HIDE DEF e, x
    <3>3. events'[i] = events[i] \/ events'[i] = x
      BY <3>1 DEF TypeOK
    <3>4. QED
      BY <3>2, <3>3 DEF EventInv
  <2>3. QED
    BY <2>1, <2>2
       DEF Next, Serve, Arrive, Check, Open, ReadFields, StoreRaw, StoreRecord, CommitBatch,
           Deadlock, Lose, Abandon, Restart, UpdateProject, Tick, vars
<1>3. QED
  BY <1>1, <1>2 DEF EventInv

\* Events that look alike have the same fingerprint, whatever their ids.
LEMMA SamePrint ==
    ASSUME NEW x, NEW y,
           x.data = y.data, x.hidden = y.hidden, x.message = y.message, x.custom = y.custom
    PROVE  Fingerprint(x) = Fingerprint(y)
<1>1. Frames(x) = Frames(y) /\ Field(x, "type", "") = Field(y, "type", "")
  BY DEF Frames, Field
<1>2. QED
  BY <1>1 DEF Fingerprint

\* The id is the only field that an anonymous copy changes.
LEMMA Anonymous ==
    ASSUME NEW e, NEW F
    PROVE  LET x == Scrub(e, F) IN
           /\ [x EXCEPT !.id = None].data = x.data
           /\ [x EXCEPT !.id = None].hidden = x.hidden
           /\ [x EXCEPT !.id = None].message = x.message
           /\ [x EXCEPT !.id = None].custom = x.custom
BY DEF Scrub

LEMMA SecretsFollow == ASSUME EventInv PROVE NoTraceOfSecrets
<1>1. ASSUME NEW i \in EventIds, events[i] # None
      PROVE  events[i].owed \cap DOMAIN events[i].row.event.data = {}
  <2>1. PICK e, F, G : G \subseteq F /\ events[i] = [row |-> RowOf(e, F), owed |-> G]
    <3>1. Clean(events[i])
      BY <1>1 DEF EventInv
    <3>2. QED
      BY <3>1 DEF Clean
  <2>2. DOMAIN events[i].row.event.data = DOMAIN e.data \ F /\ events[i].owed = G
    BY <2>1 DEF RowOf, Scrub
  <2>3. QED
    BY <2>1, <2>2
<1>2. ASSUME NEW i \in EventIds, NEW j \in EventIds, events[i] # None, events[j] # None,
             [events[i].row.event EXCEPT !.id = None]
                = [events[j].row.event EXCEPT !.id = None]
      PROVE  events[i].row.print = events[j].row.print
  <2>1. PICK e, F, G : events[i] = [row |-> RowOf(e, F), owed |-> G]
    <3>1. Clean(events[i])
      BY <1>2 DEF EventInv
    <3>2. QED
      BY <3>1 DEF Clean
  <2>2. PICK f, H, I : events[j] = [row |-> RowOf(f, H), owed |-> I]
    <3>1. Clean(events[j])
      BY <1>2 DEF EventInv
    <3>2. QED
      BY <3>1 DEF Clean
  <2>3. /\ events[i].row.event = Scrub(e, F)
        /\ events[i].row.print = Fingerprint(Scrub(e, F))
        /\ events[j].row.event = Scrub(f, H)
        /\ events[j].row.print = Fingerprint(Scrub(f, H))
    BY <2>1, <2>2 DEF RowOf
  <2> DEFINE x == events[i].row.event
             y == events[j].row.event
  <2>4. /\ [x EXCEPT !.id = None].data = x.data
        /\ [x EXCEPT !.id = None].hidden = x.hidden
        /\ [x EXCEPT !.id = None].message = x.message
        /\ [x EXCEPT !.id = None].custom = x.custom
    BY <2>3, Anonymous
  <2>5. /\ [y EXCEPT !.id = None].data = y.data
        /\ [y EXCEPT !.id = None].hidden = y.hidden
        /\ [y EXCEPT !.id = None].message = y.message
        /\ [y EXCEPT !.id = None].custom = y.custom
    BY <2>3, Anonymous
  <2>6. Fingerprint(x) = Fingerprint(y)
    BY <1>2, <2>4, <2>5, SamePrint
  <2>7. QED
    BY <2>3, <2>6
<1>3. QED
  BY <1>1, <1>2 DEF NoTraceOfSecrets

-----------------------------------------------------------------------------
(* Induction.  The library's theorems about it take a predicate as a        *)
(* parameter; its theorem about a minimal element takes a set.             *)

HIDE EnvelopesAssumption
USE FormatAssumption

Before == {ss \in Nat \X Nat : ss[1] < ss[2]}

\* A set of numbers that is not empty has a least one.
LEMMA Least ==
    ASSUME NEW T \in SUBSET Nat, T # {}
    PROVE  \E x \in T : \A y \in T : x <= y
<1>1. IsWellFoundedOn(Before, Nat)
  BY NatLessThanWellFounded DEF OpToRel, Before
<1>2. PICK x \in T : \A y \in T : ~ (<<y, x>> \in Before)
  BY <1>1, WFMin
<1>3. \A y \in T : y < x => <<y, x>> \in Before
  BY DEF Before
<1>4. ASSUME NEW y \in T PROVE x <= y
  <2>1. ~ (y < x)
    BY <1>2, <1>3
  <2>2. QED
    BY <2>1
<1>5. QED
  BY <1>4

\* A set of numbers up to n has a greatest one.
LEMMA Greatest ==
    ASSUME NEW n \in Nat, NEW T \in SUBSET (0..n), T # {}
    PROVE  \E x \in T : \A y \in T : y <= x
<1> DEFINE U == {n - x : x \in T}
<1>1. U \in SUBSET Nat /\ U # {}
  <2>1. \A x \in T : n - x \in Nat
    OBVIOUS
  <2>2. QED
    BY <2>1
<1>2. PICK u \in U : \A y \in U : u <= y
  <2> HIDE DEF U
  <2>1. QED
    BY <1>1, Least
<1>3. PICK x \in T : u = n - x
  OBVIOUS
<1>4. ASSUME NEW y \in T PROVE y <= x
  <2>1. u <= n - y
    BY <1>2
  <2>2. QED
    BY <2>1, <1>3
<1>5. QED
  BY <1>4

-----------------------------------------------------------------------------
(* The lines. *)

\* A line ends before the first newline, or where the body ends.
LEMMA LineEnds ==
    ASSUME NEW s, IsSequence(s), NEW c \in 1..(Len(s) + 1), NEW e \in c..(Len(s) + 1),
           \A d \in c..(e - 1) : s[d] # Newline,
           e = Len(s) + 1 \/ s[e] = Newline
    PROVE  Line(s, c) = [text |-> SubSeq(s, c, e - 1),
                         next |-> IF e = Len(s) + 1 THEN e ELSE e + 1]
<1> DEFINE ends == {i \in c..Len(s) : s[i] = Newline}
           first == CHOOSE i \in ends : \A j \in ends : i <= j
<1>0. Len(s) \in Nat
  BY DEF IsSequence
<1>1. CASE e = Len(s) + 1
  <2>1. ends = {}
    BY <1>0, <1>1
  <2>2. e - 1 = Len(s)
    BY <1>0, <1>1
  <2> HIDE DEF ends
  <2>3. QED
    BY <1>1, <2>1, <2>2 DEF Line, ends
<1>2. CASE e # Len(s) + 1
  <2>1. e \in ends /\ \A j \in ends : e <= j
    BY <1>0, <1>2
  <2>2. \A i \in ends : (\A j \in ends : i <= j) => i = e
    BY <1>0, <2>1
  <2>3. first = e
    <3> HIDE DEF ends
    <3>1. QED
      BY <2>1, <2>2
  <2>4. ends # {}
    BY <2>1
  <2>5. Line(s, c) = [text |-> SubSeq(s, c, first - 1), next |-> first + 1]
    BY <2>4 DEF Line
  <2> HIDE DEF first
  <2>6. QED
    BY <1>2, <2>3, <2>5
<1>3. QED
  BY <1>1, <1>2

LEMMA SomeLine ==
    ASSUME NEW s, IsSequence(s), NEW c \in 1..(Len(s) + 1)
    PROVE  \E e \in c..(Len(s) + 1) :
              /\ \A d \in c..(e - 1) : s[d] # Newline
              /\ e = Len(s) + 1 \/ s[e] = Newline
<1> DEFINE T == {e \in c..(Len(s) + 1) : e = Len(s) + 1 \/ s[e] = Newline}
<1>0. Len(s) \in Nat
  BY DEF IsSequence
<1>1. T \in SUBSET Nat /\ Len(s) + 1 \in T
  BY <1>0
<1>2. PICK e \in T : \A y \in T : e <= y
  <2> HIDE DEF T
  <2>1. QED
    BY <1>1, Least
<1>3. ASSUME NEW d \in c..(e - 1) PROVE s[d] # Newline
  <2>1. d \in c..(Len(s) + 1) /\ d < e
    BY <1>0
  <2>2. QED
    BY <2>1, <1>2
<1>4. QED
  BY <1>3

\* The next line begins later, if there is one.
LEMMA LineGoesOn ==
    ASSUME NEW s, IsSequence(s), NEW c \in 1..(Len(s) + 1)
    PROVE  /\ Line(s, c).next \in c..(Len(s) + 1)
           /\ c <= Len(s) => Line(s, c).next \in (c + 1)..(Len(s) + 1)
<1>0. Len(s) \in Nat
  BY DEF IsSequence
<1>1. PICK e \in c..(Len(s) + 1) : /\ \A d \in c..(e - 1) : s[d] # Newline
                                   /\ e = Len(s) + 1 \/ s[e] = Newline
  BY SomeLine
<1>2. Line(s, c).next = IF e = Len(s) + 1 THEN e ELSE e + 1
  BY <1>1, LineEnds
<1>3. QED
  BY <1>0, <1>1, <1>2

-----------------------------------------------------------------------------
(* The recursion. *)

\* The payload of an item ends after its header, and within the body.
LEMMA PayloadGoesOn ==
    ASSUME NEW s, IsBody(s), NEW c \in 1..Len(s), s[c].kind = "header",
           ~Truncated(s, Line(s, c).next, s[c])
    PROVE  Payload(s, Line(s, c).next, s[c]).next \in (c + 1)..(Len(s) + 1)
<1> DEFINE p == Line(s, c).next
           length == s[c].length
<1>0. Len(s) \in Nat /\ IsSequence(s)
  BY DEF IsBody, IsSequence
<1>1. p \in (c + 1)..(Len(s) + 1)
  BY <1>0, LineGoesOn
<1>2. length \in Nat \cup {Unsized}
  BY DEF IsBody
<1> HIDE DEF p
<1>3. CASE length = Unsized
  <2>1. Payload(s, p, s[c]) = Line(s, p)
    BY <1>3 DEF Payload
  <2>2. Line(s, p).next \in p..(Len(s) + 1)
    BY <1>0, <1>1, LineGoesOn
  <2>3. QED
    BY <1>0, <1>1, <2>1, <2>2 DEF p
<1>4. CASE length # Unsized
  <2>1. /\ length \in Nat
        /\ p + length <= Len(s) + 1
    BY <1>0, <1>1, <1>2, <1>4 DEF Truncated, p
  <2>2. Payload(s, p, s[c]).next \in {p + length, p + length + 1}
    BY <1>4 DEF Payload, Sized
  <2>3. Payload(s, p, s[c]).next = p + length + 1 => p + length <= Len(s)
    BY <1>0, <1>1, <1>4, <2>1 DEF Payload, Sized
  <2>4. QED
    BY <1>0, <1>1, <2>1, <2>2, <2>3 DEF p
<1>5. QED
  BY <1>3, <1>4

\* A round looks only at what later rounds make of the rest.
LEMMA SameRound ==
    ASSUME NEW s, IsBody(s), NEW c \in 1..(Len(s) + 1), NEW n \in 0..MaxItems,
           NEW f, NEW g, \A d \in (c + 1)..(Len(s) + 1) : f[d] = g[d]
    PROVE  ReadFrom(s, f, c, n) = ReadFrom(s, g, c, n)
<1>0. Len(s) \in Nat
  BY DEF IsBody, IsSequence
<1>1. CASE c > Len(s)
  BY <1>1 DEF ReadFrom
<1>2. CASE c <= Len(s) /\ s[c] = Newline
  <2>1. f[c + 1] = g[c + 1]
    BY <1>0, <1>2
  <2>2. QED
    BY <1>0, <1>2, <2>1 DEF ReadFrom
<1>3. CASE c <= Len(s) /\ s[c] # Newline
  <2> DEFINE header == Line(s, c)
             bad == \/ n = MaxItems
                    \/ Len(header.text) # 1 \/ s[c].kind # "header"
                    \/ Truncated(s, header.next, s[c])
             follow == Payload(s, header.next, s[c]).next
  <2>1. CASE bad
    BY <1>0, <1>3, <2>1 DEF ReadFrom
  <2>2. CASE ~bad
    <3>1. follow \in (c + 1)..(Len(s) + 1)
      BY <1>0, <1>3, <2>2, PayloadGoesOn
    <3>2. f[follow] = g[follow]
      BY <3>1
    <3>3. QED
      BY <1>0, <1>3, <2>2, <3>2 DEF ReadFrom
  <2>3. QED
    BY <2>1, <2>2
<1>4. QED
  BY <1>0, <1>1, <1>2, <1>3

\* ItemsFrom is what its definition says: the recursion ends.
LEMMA ItemsFromDef ==
    ASSUME NEW s, IsBody(s)
    PROVE  \A c \in 1..(Len(s) + 1) : \A n \in 0..MaxItems :
              ItemsFrom(s)[c][n] = ReadFrom(s, ItemsFrom(s), c, n)
<1> DEFINE N == Len(s) + 1
           Round(f, c) == [n \in 0..MaxItems |-> ReadFrom(s, f, c, n)]
           Part(k, f) == f = [c \in k..N |-> Round(f, c)]
           T == {k \in 1..(N + 1) : \E f : Part(k, f)}
<1>0. N \in Nat \ {0}
  BY DEF IsBody, IsSequence
<1>1. \A f, g : \A c \in 1..N :
        (\A d \in (c + 1)..N : f[d] = g[d]) => Round(f, c) = Round(g, c)
  BY SameRound
<1> HIDE DEF N, Round
<1>2. N + 1 \in T
  <2>1. Part(N + 1, [c \in (N + 1)..N |-> 0])
    BY <1>0
  <2>2. QED
    BY <1>0, <2>1
<1>3. PICK k \in T : \A j \in T : k <= j
  <2>1. T \in SUBSET Nat
    BY <1>0
  <2> HIDE DEF T
  <2>2. QED
    BY <1>2, <2>1, Least
<1>4. k = 1
  <2> SUFFICES ASSUME k # 1 PROVE FALSE
    OBVIOUS
  <2>1. k \in 2..(N + 1) /\ k - 1 \in 1..(N + 1)
    BY <1>0
  <2>2. PICK f : Part(k, f)
    OBVIOUS
  <2> DEFINE g == [c \in (k - 1)..N |-> IF c = k - 1 THEN Round(f, c) ELSE f[c]]
  <2>3. \A c \in (k - 1)..N : Round(g, c) = Round(f, c)
    <3>1. \A d \in k..N : g[d] = f[d]
      BY <1>0, <2>1
    <3> HIDE DEF g
    <3>2. SUFFICES ASSUME NEW c \in (k - 1)..N PROVE Round(g, c) = Round(f, c)
      OBVIOUS
    <3>3. c \in 1..N /\ \A d \in (c + 1)..N : d \in k..N
      BY <1>0, <2>1
    <3>4. QED
      BY <1>1, <3>1, <3>3
  <2>4. \A c \in k..N : f[c] = Round(f, c)
    BY <2>2
  <2>5. \A c \in (k - 1)..N : c # k - 1 => c \in k..N
    BY <1>0, <2>1
  <2>6. Part(k - 1, g)
    BY <2>3, <2>4, <2>5
  <2>7. k - 1 \in T
    BY <2>1, <2>6
  <2>8. QED
    BY <1>0, <1>3, <2>1, <2>7
<1>5. \E f : f = [c \in 1..N |-> Round(f, c)]
  BY <1>4
<1>6. ItemsFrom(s) = CHOOSE f : f = [c \in 1..N |-> Round(f, c)]
  BY DEF ItemsFrom, N, Round
<1> DEFINE F == ItemsFrom(s)
<1>7. F = [c \in 1..N |-> Round(F, c)]
  BY <1>5, <1>6
<1> HIDE DEF F
<1>8. \A c \in 1..N : F[c] = Round(F, c)
  BY <1>7
<1>9. \A c \in 1..N : \A n \in 0..MaxItems : F[c][n] = ReadFrom(s, F, c, n)
  BY <1>8 DEF Round
<1>10. QED
  BY <1>9 DEF N, F

-----------------------------------------------------------------------------
(* What is read of what was written. *)

LEMMA HeaderLine ==
    ASSUME NEW s, IsBody(s), NEW h \in 1..Len(s), s[h] # Newline,
           h < Len(s), s[h + 1] = Newline
    PROVE  Line(s, h) = [text |-> <<s[h]>>, next |-> h + 2]
<1>0. Len(s) \in Nat /\ IsSequence(s)
  BY DEF IsBody, IsSequence
<1>1. Line(s, h) = [text |-> SubSeq(s, h, h), next |-> h + 2]
  <2>1. h \in 1..(Len(s) + 1) /\ h + 1 \in h..(Len(s) + 1) /\ h + 1 # Len(s) + 1
    BY <1>0
  <2>2. \A d \in h..((h + 1) - 1) : s[d] # Newline
    BY <1>0
  <2>3. (h + 1) - 1 = h /\ (h + 1) + 1 = h + 2
    BY <1>0
  <2>4. Line(s, h) = [text |-> SubSeq(s, h, (h + 1) - 1), next |-> (h + 1) + 1]
    BY <1>0, <2>1, <2>2, LineEnds
  <2>5. QED
    BY <2>3, <2>4
<1>2. SubSeq(s, h, h) = <<s[h]>>
  <2>1. SubSeq(s, h, h) = <<s[h]>> \o SubSeq(s, h + 1, h)
    BY <1>0, SubSeqRecursiveFirst DEF IsSequence
  <2>2. SubSeq(s, h + 1, h) = <<>>
    BY <1>0, SubSeqEmpty
  <2>3. <<s[h]>> \in Seq({s[h]})
    OBVIOUS
  <2>4. QED
    BY <2>1, <2>2, <2>3, ConcatEmptySeq
<1>3. QED
  BY <1>1, <1>2

\* The place at which the loop goes on after an item.
Onward(s, h, item) ==
    IF After(h, item) <= Len(s) /\ s[After(h, item)] = Newline
    THEN After(h, item) + 1 ELSE After(h, item)

LEMMA FramedPayload ==
    ASSUME NEW s, IsBody(s), NEW item, IsSequence(item.payload),
           NEW h \in 1..Len(s), Framed(s, h, item)
    PROVE  /\ h < Len(s) /\ s[h] # Newline /\ s[h + 1] = Newline
           /\ After(h, item) \in (h + 2)..(Len(s) + 1)
           /\ s[h].kind = "header" /\ s[h].type = item.type
           /\ ~Truncated(s, h + 2, s[h])
           /\ Payload(s, h + 2, s[h]) = [text |-> item.payload, next |-> Onward(s, h, item)]
<1> DEFINE end == After(h, item)
           n == Len(item.payload)
<1>0. Len(s) \in Nat /\ IsSequence(s)
  BY DEF IsBody, IsSequence
<1>1. end = h + 2 + n /\ n \in Nat /\ end <= Len(s) + 1
  <2>1. n \in Nat
    BY DEF IsSequence
  <2>2. QED
    BY <2>1 DEF Framed, After
<1>2. item.payload = SubSeq(s, h + 2, end - 1)
  BY DEF Framed
<1>3. /\ s[h] # Newline /\ s[h + 1] = Newline
      /\ s[h].kind = "header" /\ s[h].type = item.type
      /\ s[h].length \in {n, Unsized}
  BY DEF Framed, Header, Newline
<1>4. CASE s[h] = Header(item.type, n)
  <2>1. s[h].length = n /\ n # Unsized
    BY <1>1, <1>4 DEF Header
  <2>2. Payload(s, h + 2, s[h]) = [text |-> item.payload, next |-> Onward(s, h, item)]
    BY <1>1, <1>2, <2>1 DEF Payload, Sized, Onward
  <2> HIDE DEF n, end
  <2>3. ~Truncated(s, h + 2, s[h])
    BY <1>0, <1>1, <2>1 DEF Truncated
  <2>4. QED
    BY <1>0, <1>1, <1>3, <2>2, <2>3 DEF end
<1>5. CASE s[h] # Header(item.type, n)
  <2>1. /\ s[h] = Header(item.type, Unsized)
        /\ \A c \in (h + 2)..(end - 1) : s[c] # Newline
        /\ end = Len(s) + 1 \/ s[end] = Newline
    BY <1>5 DEF Framed
  <2>2. s[h].length = Unsized
    BY <2>1 DEF Header
  <2>4. Payload(s, h + 2, s[h]) = Line(s, h + 2)
    BY <2>2 DEF Payload
  <2> HIDE DEF n, end
  <2>3. h + 2 \in 1..(Len(s) + 1) /\ end \in (h + 2)..(Len(s) + 1)
    BY <1>0, <1>1
  <2>5. Line(s, h + 2) = [text |-> SubSeq(s, h + 2, end - 1),
                          next |-> IF end = Len(s) + 1 THEN end ELSE end + 1]
    BY <1>0, <2>1, <2>3, LineEnds
  <2>6. Onward(s, h, item) = IF end = Len(s) + 1 THEN end ELSE end + 1
    BY <1>0, <2>1, <2>3 DEF Onward, end
  <2>7. ~Truncated(s, h + 2, s[h])
    BY <2>2 DEF Truncated
  <2>8. QED
    BY <1>0, <1>1, <1>2, <1>3, <2>3, <2>4, <2>5, <2>6, <2>7 DEF end
<1>6. QED
  BY <1>4, <1>5

\* A round at the header of an item.
LEMMA RoundAtItem ==
    ASSUME NEW s, IsBody(s), NEW item, IsSequence(item.payload),
           NEW h \in 1..Len(s), Framed(s, h, item),
           NEW n \in 0..(MaxItems - 1), NEW rest
    PROVE  ReadFrom(s, rest, h, n) =
              LET others == rest[Onward(s, h, item)][n + 1] IN
              IF ~others.ok THEN Broken
              ELSE [ok |-> TRUE, items |-> <<item>> \o others.items]
<1>0. Len(s) \in Nat
  BY DEF IsBody, IsSequence
<1>1. /\ h < Len(s) /\ s[h] # Newline /\ s[h + 1] = Newline
      /\ s[h].kind = "header" /\ s[h].type = item.type
      /\ ~Truncated(s, h + 2, s[h])
      /\ Payload(s, h + 2, s[h]) = [text |-> item.payload, next |-> Onward(s, h, item)]
  BY FramedPayload
<1>2. Line(s, h) = [text |-> <<s[h]>>, next |-> h + 2]
  BY <1>1, HeaderLine
<1>3. item = [type |-> s[h].type, payload |-> item.payload]
  BY <1>1 DEF Framed
<1>4. ~TooLarge(s[h], Payload(s, h + 2, s[h]))
  BY <1>1 DEF TooLarge, Framed
<1>5. ~(h > Len(s)) /\ n # MaxItems /\ Len(<<s[h]>>) = 1
  BY <1>0
<1> DEFINE others == rest[Onward(s, h, item)][n + 1]
           text == Payload(s, h + 2, s[h]).text
<1>6. /\ Line(s, h).next = h + 2 /\ Len(Line(s, h).text) = 1
      /\ Payload(s, h + 2, s[h]).next = Onward(s, h, item)
  BY <1>1, <1>2, <1>5
<1>7. ReadFrom(s, rest, h, n) =
         IF ~others.ok THEN Broken
         ELSE [ok |-> TRUE, items |-> <<[type |-> s[h].type, payload |-> text]>> \o others.items]
  <2> HIDE DEF others, text
  <2>1. QED
    BY <1>1, <1>4, <1>5, <1>6 DEF ReadFrom, others, text
<1>8. item = [type |-> s[h].type, payload |-> text]
  BY <1>1, <1>3
<1>9. QED
  BY <1>7, <1>8

\* Where the items that lie before pos[i + 1] end.
GapFrom(sent, pos, i) == IF i = 0 THEN 3 ELSE After(pos[i], sent[i])

\* What is made of the items sent[i + 1], ..., sent[k], when end is made of what
\* follows.
Rest(sent, k, end, i) ==
    IF end = Broken THEN Broken ELSE [ok |-> TRUE, items |-> SubSeq(sent, i + 1, k)]

LEMMA BodyLength ==
    ASSUME NEW s, IsBody(s)
    PROVE  Len(s) \in Nat /\ IsSequence(s)
BY DEF IsBody, IsSequence

LEMMA SentLength ==
    ASSUME NEW sent, IsSent(sent)
    PROVE  /\ Len(sent) \in Nat /\ Len(sent) <= MaxItems
           /\ \A i \in 1..Len(sent) : IsSequence(sent[i].payload)
<1>1. Len(sent) \in Nat
  BY DEF IsSent, IsSequence
<1>2. QED
  BY <1>1 DEF IsSent

LEMMA AfterHeader ==
    ASSUME NEW h \in Nat, NEW item, IsSequence(item.payload)
    PROVE  After(h, item) \in Nat /\ After(h, item) >= h + 2
<1>1. PICK n \in Nat : Len(item.payload) = n
  BY DEF IsSequence
<1>2. QED
  BY <1>1 DEF After

LEMMA PlacesOfItems ==
    ASSUME NEW s, NEW sent, IsSent(sent), NEW k \in 0..Len(sent),
           NEW pos \in Places(s, k), Laid(s, sent, k, pos)
    PROVE  /\ Len(s) \in Nat /\ IsBody(s)
           /\ \A i \in 1..(k + 1) : pos[i] \in 3..(Len(s) + 1)
           /\ \A i \in 1..k : /\ pos[i] \in 1..Len(s)
                              /\ Framed(s, pos[i], sent[i])
                              /\ s[pos[i]] # Newline
<1>1. IsBody(s) /\ Len(s) \in Nat
  BY BodyLength DEF Laid
<1>2. Len(sent) \in Nat /\ \A i \in 1..Len(sent) : IsSequence(sent[i].payload)
  BY SentLength
<1>3. \A i \in 1..(k + 1) : pos[i] \in 3..(Len(s) + 1)
  BY DEF Places
<1>4. ASSUME NEW i \in 1..k
      PROVE  /\ pos[i] \in 1..Len(s)
             /\ Framed(s, pos[i], sent[i])
             /\ s[pos[i]] # Newline
  <2>1. Framed(s, pos[i], sent[i])
    BY DEF Laid
  <2>2. pos[i] \in 3..(Len(s) + 1)
    BY <1>2, <1>3
  <2>3. IsSequence(sent[i].payload)
    BY <1>2
  <2>4. After(pos[i], sent[i]) <= Len(s) + 1
    BY <2>1 DEF Framed
  <2>5. pos[i] \in Nat
    BY <1>1, <2>2
  <2>6. After(pos[i], sent[i]) \in Nat /\ After(pos[i], sent[i]) >= pos[i] + 2
    BY <2>3, <2>5, AfterHeader
  <2>7. pos[i] \in 1..Len(s)
    BY <1>1, <2>2, <2>4, <2>6
  <2>8. s[pos[i]] # Newline
    BY <1>1, <2>1, <2>3, <2>7, FramedPayload
  <2>9. QED
    BY <2>1, <2>7, <2>8
<1>5. QED
  BY <1>1, <1>3, <1>4

LEMMA Gaps ==
    ASSUME NEW s, NEW sent, IsSent(sent), NEW k \in 0..Len(sent),
           NEW pos \in Places(s, k), Laid(s, sent, k, pos), NEW i \in 0..k
    PROVE  /\ pos[i + 1] \in 3..(Len(s) + 1)
           /\ GapFrom(sent, pos, i) \in 3..pos[i + 1]
           /\ \A c \in GapFrom(sent, pos, i)..(pos[i + 1] - 1) : s[c] = Newline
<1>1. /\ Len(s) \in Nat /\ IsBody(s)
      /\ \A j \in 1..(k + 1) : pos[j] \in 3..(Len(s) + 1)
      /\ \A j \in 1..k : pos[j] \in 1..Len(s)
  BY PlacesOfItems
<1>2. Len(sent) \in Nat /\ \A j \in 1..Len(sent) : IsSequence(sent[j].payload)
  BY SentLength
<1>3. pos[i + 1] \in 3..(Len(s) + 1)
  <2>1. i + 1 \in 1..(k + 1)
    BY <1>2
  <2>2. QED
    BY <1>1, <2>1
<1>4. /\ GapFrom(sent, pos, i) <= pos[i + 1]
      /\ \A c \in GapFrom(sent, pos, i)..(pos[i + 1] - 1) : s[c] = Newline
  BY DEF Laid, GapFrom
<1>5. GapFrom(sent, pos, i) \in Nat /\ GapFrom(sent, pos, i) >= 3
  <2>1. CASE i = 0
    BY <2>1 DEF GapFrom
  <2>2. CASE i # 0
    <3>1. i \in 1..k /\ i \in 1..Len(sent)
      BY <1>2, <2>2
    <3>2. i \in 1..(k + 1)
      BY <1>2, <3>1
    <3>3. pos[i] \in 3..(Len(s) + 1) /\ IsSequence(sent[i].payload)
      BY <1>1, <1>2, <3>1, <3>2
    <3>4. pos[i] \in Nat /\ pos[i] >= 3
      BY <1>1, <3>3
    <3>5. After(pos[i], sent[i]) \in Nat /\ After(pos[i], sent[i]) >= pos[i] + 2
      BY <3>3, <3>4, AfterHeader
    <3>6. QED
      BY <2>2, <3>4, <3>5 DEF GapFrom
  <2>3. QED
    BY <2>1, <2>2
<1>6. QED
  BY <1>1, <1>3, <1>4, <1>5

\* From anywhere between two items, the others are read as they were sent.
LEMMA ReadsOn ==
    ASSUME NEW s, NEW sent, IsSent(sent), NEW k \in 0..Len(sent),
           NEW pos \in Places(s, k), Laid(s, sent, k, pos),
           pos[k + 1] = Len(s) + 1 \/ s[pos[k + 1]] # Newline,
           ItemsFrom(s)[pos[k + 1]][k] \in {Broken, [ok |-> TRUE, items |-> <<>>]}
    PROVE  \A i \in 0..k : \A c \in GapFrom(sent, pos, i)..pos[i + 1] :
              ItemsFrom(s)[c][i] = Rest(sent, k, ItemsFrom(s)[pos[k + 1]][k], i)
<1> DEFINE N == Len(s)
           F == ItemsFrom(s)
           Due(i) == Rest(sent, k, F[pos[k + 1]][k], i)
           Gap(i) == GapFrom(sent, pos, i)..pos[i + 1]
           Bad == {c \in 1..(N + 1) : \E i \in 0..k : c \in Gap(i) /\ F[c][i] # Due(i)}
<1>0. /\ N \in Nat /\ IsBody(s)
      /\ Len(sent) \in Nat /\ Len(sent) <= MaxItems
      /\ \A i \in 1..Len(sent) : IsSequence(sent[i].payload)
  BY PlacesOfItems, SentLength
<1>1. \A i \in 1..k : /\ pos[i] \in 1..N
                      /\ Framed(s, pos[i], sent[i])
                      /\ s[pos[i]] # Newline
  BY PlacesOfItems
<1>2. \A i \in 0..k : /\ pos[i + 1] \in 3..(N + 1)
                      /\ GapFrom(sent, pos, i) \in 3..pos[i + 1]
                      /\ \A c \in GapFrom(sent, pos, i)..(pos[i + 1] - 1) : s[c] = Newline
  BY Gaps
<1>3. \A c \in 1..(N + 1) : \A i \in 0..k : F[c][i] = ReadFrom(s, F, c, i)
  <2>1. \A i \in 0..k : i \in 0..MaxItems
    BY <1>0
  <2>2. \A c \in 1..(N + 1) : \A n \in 0..MaxItems : F[c][n] = ReadFrom(s, F, c, n)
    BY <1>0, ItemsFromDef
  <2> HIDE DEF F, N
  <2>3. QED
    BY <2>1, <2>2
<1>4. \A i \in 0..k : \A c \in Gap(i) : c \in 1..(N + 1)
  BY <1>0, <1>2
<1>5. ASSUME NEW i \in 0..k, NEW c \in Gap(i),
             \A j \in 0..k : \A d \in Gap(j) : d > c => F[d][j] = Due(j)
      PROVE  F[c][i] = Due(i)
  <2> HIDE DEF F, N
  <2>1. c \in 1..(N + 1) /\ F[c][i] = ReadFrom(s, F, c, i)
    BY <1>3, <1>4
  <2>0. /\ pos[i + 1] \in 3..(N + 1)
        /\ GapFrom(sent, pos, i) \in 3..pos[i + 1]
        /\ \A d \in GapFrom(sent, pos, i)..(pos[i + 1] - 1) : s[d] = Newline
    BY <1>2
  <2>2. CASE c < pos[i + 1]
    <3>1. c + 1 \in Gap(i) /\ s[c] = Newline /\ c <= N /\ c + 1 > c
      <4> DEFINE g == GapFrom(sent, pos, i)
      <4>1. c \in g..pos[i + 1]
        OBVIOUS
      <4> HIDE DEF g
      <4>2. g \in 3..pos[i + 1] /\ pos[i + 1] \in Int /\ pos[i + 1] <= N + 1
        BY <1>0, <2>0 DEF g
      <4>3. c \in g..(pos[i + 1] - 1) /\ c + 1 \in g..pos[i + 1] /\ c <= N /\ c + 1 > c
        BY <1>0, <2>2, <4>1, <4>2
      <4>4. QED
        BY <2>0, <4>3 DEF g
    <3>2. F[c + 1][i] = Due(i)
      BY <1>5, <3>1
    <3>3. ~(c > Len(s))
      BY <1>0, <2>1, <3>1 DEF N
    <3>4. QED
      BY <2>1, <3>1, <3>2, <3>3 DEF ReadFrom
  <2>3. CASE c = pos[i + 1] /\ i = k
    <3>1. SubSeq(sent, k + 1, k) = <<>>
      BY <1>0, SubSeqEmpty
    <3>2. QED
      BY <2>3, <3>1 DEF Rest, F
  <2>4. CASE c = pos[i + 1] /\ i < k
    <3> DEFINE item == sent[i + 1]
               on == Onward(s, c, item)
    <3>1. /\ c \in 1..N /\ Framed(s, c, item)
          /\ i + 1 \in 1..k /\ i \in 0..(MaxItems - 1)
          /\ IsSequence(item.payload)
      BY <1>0, <1>1, <2>4
    <3>2. F[c][i] = IF ~F[on][i + 1].ok THEN Broken
                    ELSE [ok |-> TRUE, items |-> <<item>> \o F[on][i + 1].items]
      <4>1. ReadFrom(s, F, c, i) = LET others == F[on][i + 1] IN
                                   IF ~others.ok THEN Broken
                                   ELSE [ok |-> TRUE, items |-> <<item>> \o others.items]
        <5> HIDE DEF item
        <5>1. c \in 1..Len(s)
          BY <3>1 DEF N
        <5>2. QED
          BY <1>0, <3>1, <5>1, RoundAtItem
      <4>2. QED
        BY <2>1, <4>1
    <3>3. on \in Gap(i + 1) /\ on > c
      <4>1. After(c, item) = GapFrom(sent, pos, i + 1)
        <5>1. i + 1 # 0
          BY <3>1
        <5>2. QED
          BY <2>4, <5>1 DEF GapFrom
      <4>2. After(c, item) \in Nat /\ After(c, item) > c
        <5> HIDE DEF item
        <5>1. c \in Nat
          BY <1>0, <3>1
        <5>2. QED
          BY <3>1, <5>1, AfterHeader
      <4>3. /\ GapFrom(sent, pos, i + 1) \in 3..pos[(i + 1) + 1]
            /\ pos[(i + 1) + 1] \in 3..(N + 1)
        <5>1. i + 1 \in 0..k
          BY <3>1
        <5>2. QED
          BY <1>2, <5>1
      <4>4. pos[(i + 1) + 1] = N + 1 \/ s[pos[(i + 1) + 1]] # Newline
        <5>1. CASE i + 1 = k
          BY <5>1 DEF N
        <5>2. CASE i + 1 < k
          <6>1. (i + 1) + 1 \in 1..k
            BY <3>1, <5>2
          <6>2. QED
            BY <1>1, <6>1
        <5>3. QED
          BY <3>1, <5>1, <5>2
      <4>5. After(c, item) <= N /\ s[After(c, item)] = Newline
               => After(c, item) # pos[(i + 1) + 1]
        BY <1>0, <4>2, <4>4
      <4>6. on \in {After(c, item), After(c, item) + 1}
            /\ (on = After(c, item) + 1 => After(c, item) # pos[(i + 1) + 1])
        BY <4>2, <4>5 DEF Onward, N
      <4> HIDE DEF on, item
      <4>7. QED
        BY <1>0, <2>1, <4>1, <4>2, <4>3, <4>6
    <3>4. F[on][i + 1] = Due(i + 1)
      BY <1>5, <3>1, <3>3
    <3>5. SubSeq(sent, i + 1, k) = <<item>> \o SubSeq(sent, (i + 1) + 1, k)
      <4>1. /\ sent \in Seq({sent[j] : j \in DOMAIN sent})
            /\ i + 1 \in 1..Len(sent) /\ k \in (i + 1)..Len(sent)
        BY <1>0, <3>1 DEF IsSent, IsSequence
      <4>2. QED
        BY <4>1, SubSeqRecursiveFirst
    <3>6. Due(i + 1) = Broken <=> Due(i) = Broken
      BY DEF Rest, Broken
    <3> HIDE DEF item, on
    <3>7. CASE Due(i) = Broken
      BY <3>2, <3>4, <3>6, <3>7 DEF Broken
    <3>8. CASE Due(i) # Broken
      <4>1. /\ Due(i) = [ok |-> TRUE, items |-> SubSeq(sent, i + 1, k)]
            /\ Due(i + 1) = [ok |-> TRUE, items |-> SubSeq(sent, (i + 1) + 1, k)]
        BY <3>8 DEF Rest
      <4> HIDE DEF Due
      <4>2. /\ F[on][i + 1].ok = TRUE
            /\ F[on][i + 1].items = SubSeq(sent, (i + 1) + 1, k)
        BY <3>4, <4>1
      <4>3. F[c][i] = [ok |-> TRUE, items |-> <<item>> \o F[on][i + 1].items]
        BY <3>2, <4>2
      <4>4. QED
        BY <3>5, <4>1, <4>2, <4>3
    <3>9. QED
      BY <3>7, <3>8
  <2>5. QED
    BY <1>0, <2>0, <2>1, <2>2, <2>3, <2>4
<1>6. Bad = {}
  <2> SUFFICES ASSUME Bad # {} PROVE FALSE
    OBVIOUS
  <2>1. Bad \in SUBSET (0..(N + 1)) /\ N + 1 \in Nat
    BY <1>0
  <2>2. PICK c \in Bad : \A d \in Bad : d <= c
    <3> HIDE DEF Bad, N
    <3>1. QED
      BY <2>1, Greatest
  <2>3. PICK i \in 0..k : c \in Gap(i) /\ F[c][i] # Due(i)
    OBVIOUS
  <2>4. \A j \in 0..k : \A d \in Gap(j) : d > c => F[d][j] = Due(j)
    <3>1. SUFFICES ASSUME NEW j \in 0..k, NEW d \in Gap(j), d > c, F[d][j] # Due(j)
                   PROVE  FALSE
      OBVIOUS
    <3>2. d \in Bad
      BY <1>4, <3>1
    <3>3. d \in Nat /\ c \in Nat /\ d <= c
      BY <1>0, <2>1, <2>2, <3>2
    <3>4. QED
      BY <3>1, <3>3
  <2>5. QED
    BY <1>5, <2>3, <2>4
<1>7. QED
  BY <1>4, <1>6 DEF F

LEMMA FirstLine ==
    ASSUME NEW s, NEW sent, NEW k, NEW pos, Laid(s, sent, k, pos)
    PROVE  Line(s, 1) = [text |-> <<Start>>, next |-> 3]
<1>1. IsBody(s) /\ Len(s) \in Nat /\ Len(s) >= 2 /\ s[1] = Start /\ s[2] = Newline
  BY DEF Laid, IsBody, IsSequence
<1>2. s[1] # Newline
  BY <1>1 DEF Start, Newline
<1>3. QED
  BY <1>1, <1>2, HeaderLine

\* Whatever a client has written, however it delimits its items, is read as it
\* was sent (parse).
THEOREM WrittenIsRead ==
    ASSUME NEW s, NEW sent, Written(s, sent)
    PROVE  Parse(s) = [ok |-> TRUE, items |-> sent]
<1> DEFINE k == Len(sent)
           F == ItemsFrom(s)
<1>1. PICK pos \in Places(s, k) : Laid(s, sent, k, pos) /\ pos[k + 1] = Len(s) + 1
  BY DEF Written
<1>2. /\ IsSent(sent) /\ k \in Nat /\ k <= MaxItems /\ k \in 0..Len(sent)
      /\ IsBody(s) /\ Len(s) \in Nat
      /\ pos[0 + 1] \in 3..(Len(s) + 1)
  <2>1. IsSent(sent) /\ k \in Nat /\ k <= MaxItems /\ k \in 0..Len(sent)
    BY SentLength DEF Written
  <2>2. QED
    BY <1>1, <2>1, PlacesOfItems, Gaps
<1>3. F[Len(s) + 1][k] = [ok |-> TRUE, items |-> <<>>]
  <2>1. Len(s) + 1 \in 1..(Len(s) + 1) /\ k \in 0..MaxItems /\ Len(s) + 1 > Len(s)
    BY <1>2
  <2>2. F[Len(s) + 1][k] = ReadFrom(s, F, Len(s) + 1, k)
    BY <1>2, <2>1, ItemsFromDef
  <2>3. QED
    BY <2>1, <2>2 DEF ReadFrom
<1>4. F[3][0] = Rest(sent, k, F[pos[k + 1]][k], 0)
  <2>1. \A i \in 0..k : \A c \in GapFrom(sent, pos, i)..pos[i + 1] :
           F[c][i] = Rest(sent, k, F[pos[k + 1]][k], i)
    BY <1>1, <1>2, <1>3, ReadsOn
  <2>2. 3 \in GapFrom(sent, pos, 0)..pos[0 + 1]
    BY <1>2 DEF GapFrom
  <2> HIDE DEF F, k
  <2>3. QED
    BY <1>2, <2>1, <2>2
<1>5. Rest(sent, k, F[pos[k + 1]][k], 0) = [ok |-> TRUE, items |-> sent]
  <2>1. SubSeq(sent, 0 + 1, k) = sent
    BY <1>2, SubSeqFull DEF IsSent, IsSequence
  <2>2. F[pos[k + 1]][k] = [ok |-> TRUE, items |-> <<>>]
    BY <1>1, <1>3
  <2> HIDE DEF F, k
  <2>3. F[pos[k + 1]][k] # Broken
    BY <2>2 DEF Broken
  <2>4. QED
    BY <2>1, <2>3 DEF Rest
<1>6. QED
  BY <1>1, <1>4, <1>5, FirstLine DEF Parse

\* A body that ends within an item is refused (parse).
THEOREM CutIsRefused ==
    ASSUME NEW s, NEW sent, Cut(s, sent)
    PROVE  Parse(s) = Broken
<1> DEFINE F == ItemsFrom(s)
<1>1. PICK k \in 0..(Len(sent) - 1) : \E pos \in Places(s, k) :
          LET h == pos[k + 1] IN
          /\ Laid(s, sent, k, pos)
          /\ h < Len(s) /\ s[h + 1] = Newline
          /\ s[h] = Header(sent[k + 1].type, Len(sent[k + 1].payload))
          /\ After(h, sent[k + 1]) > Len(s) + 1
  BY DEF Cut
<1>2. PICK pos \in Places(s, k) :
          LET h == pos[k + 1] IN
          /\ Laid(s, sent, k, pos)
          /\ h < Len(s) /\ s[h + 1] = Newline
          /\ s[h] = Header(sent[k + 1].type, Len(sent[k + 1].payload))
          /\ After(h, sent[k + 1]) > Len(s) + 1
  BY <1>1
<1> DEFINE h == pos[k + 1]
           n == Len(sent[k + 1].payload)
<1>3. /\ IsSent(sent) /\ Len(sent) \in Nat /\ k \in 0..Len(sent) /\ k <= MaxItems
      /\ IsBody(s) /\ Len(s) \in Nat
      /\ pos[0 + 1] \in 3..(Len(s) + 1) /\ h \in 3..(Len(s) + 1)
      /\ k + 1 \in 1..Len(sent)
      /\ n \in Nat
  <2>1. IsSent(sent) /\ Len(sent) \in Nat /\ Len(sent) <= MaxItems
    BY SentLength DEF Cut
  <2>2. k \in 0..Len(sent) /\ k <= MaxItems /\ k + 1 \in 1..Len(sent) /\ 0 \in 0..k
    BY <2>1
  <2>3. IsBody(s) /\ Len(s) \in Nat
    BY <1>2, <2>1, <2>2, PlacesOfItems
  <2>4. pos[0 + 1] \in 3..(Len(s) + 1) /\ h \in 3..(Len(s) + 1)
    BY <1>2, <2>1, <2>2, Gaps
  <2>5. n \in Nat
    BY <2>1, <2>2, SentLength DEF IsSequence
  <2>6. QED
    BY <2>1, <2>2, <2>3, <2>4, <2>5
<1>4. F[h][k] = Broken
  <2>1. h \in 1..(Len(s) + 1) /\ k \in 0..MaxItems
    BY <1>3
  <2>2. F[h][k] = ReadFrom(s, F, h, k)
    BY <1>3, <2>1, ItemsFromDef
  <2>3. s[h].kind = "header" /\ s[h].length = n /\ s[h] # Newline
    BY <1>2 DEF Header, Newline
  <2>4. h \in 1..Len(s) /\ h < Len(s) /\ s[h + 1] = Newline
    BY <1>2, <1>3
  <2>5. Line(s, h) = [text |-> <<s[h]>>, next |-> h + 2]
    BY <1>3, <2>3, <2>4, HeaderLine
  <2>6. Truncated(s, h + 2, s[h])
    BY <1>2, <1>3, <2>3 DEF Truncated, After
  <2> HIDE DEF h, n
  <2>7. ~(h > Len(s))
    BY <1>3, <2>4
  <2>8. QED
    BY <2>2, <2>3, <2>5, <2>6, <2>7 DEF ReadFrom
<1>5. F[3][0] = Rest(sent, k, F[h][k], 0)
  <2>1. s[h] # Newline
    BY <1>2 DEF Header, Newline
  <2>2. \A i \in 0..k : \A c \in GapFrom(sent, pos, i)..pos[i + 1] :
           F[c][i] = Rest(sent, k, F[pos[k + 1]][k], i)
    <3>1. F[pos[k + 1]][k] \in {Broken, [ok |-> TRUE, items |-> <<>>]}
      BY <1>4
    <3>2. Laid(s, sent, k, pos) /\ k <= MaxItems /\ IsSent(sent) /\ k \in 0..Len(sent)
      BY <1>2, <1>3
    <3>3. QED
      BY <2>1, <3>1, <3>2, ReadsOn
  <2>3. 3 \in GapFrom(sent, pos, 0)..pos[0 + 1]
    BY <1>3 DEF GapFrom
  <2> HIDE DEF F
  <2>4. QED
    BY <1>3, <2>2, <2>3
<1>6. QED
  BY <1>2, <1>4, <1>5, FirstLine DEF Parse, Rest

-----------------------------------------------------------------------------
(* What is stored is what was sent. *)

HIDE FormatAssumption

\* An event is stored under its own id.
IdInv == \A i \in EventIds : events[i] # None => events[i].row.event.id = i

\* What a request has in hand, at each place of its handler.
HandInv ==
    \A r \in Requests :
        /\ items[r] \in {<<>>, Sent[r]}
        /\ pc[r] \in {"new", "check", "open", "limited", "refused"} => at[r] = 1
        /\ pc[r] \in Working \cup {"accepted"} => items[r] = Sent[r]
        /\ pc[r] \in Working => at[r] <= Len(Sent[r])
        /\ pc[r] = "event" => /\ Sent[r][at[r]].type = "event"
                              /\ IsEvent(Sent[r][at[r]].payload)
        /\ pc[r] = "log" => Sent[r][at[r]].type = "log" /\ <<r, at[r]>> \in raw
        /\ pc[r] = "accepted" => at[r] = Len(Sent[r]) + 1
        /\ pc[r] = "refused" => r \in cut

\* An event has one of the ids.
Known(r, i) ==
    Sent[r][i].type = "event" => Json(Sent[r][i].payload)[1].id \in EventIds

\* The items before the one in hand are stored, and nothing of those after it.
StoredInv ==
    \A r \in Requests :
        /\ \A i \in 1..Len(Sent[r]) : i < at[r] => Stored(r, i) /\ Known(r, i)
        /\ \A row \in raw : row[1] = r => row[2] <= at[r]

SentInv == IdInv /\ HandInv /\ StoredInv

LEMMA InitSent == ASSUME Init PROVE SentInv
BY DEF Init, SentInv, IdInv, HandInv, StoredInv, Working

\* What is stored stays.
Kept ==
    /\ raw \subseteq raw' /\ logs \subseteq logs'
    /\ \A i \in EventIds : events[i] # None => events'[i] = events[i]

LEMMA KeepsStored ==
    ASSUME Kept, NEW r, NEW i, Stored(r, i), Known(r, i)
    PROVE  Stored(r, i)'
<1> DEFINE type == Sent[r][i].type
<1>1. CASE type = "event"
  BY <1>1 DEF Kept, Stored, Known
<1>2. CASE type = "log"
  BY <1>2 DEF Kept, Stored
<1>3. CASE type # "event" /\ type # "log"
  BY <1>3 DEF Kept, Stored
<1>4. QED
  BY <1>1, <1>2, <1>3

LEMMA Lengths ==
    ASSUME NEW r \in Requests
    PROVE  Len(Sent[r]) \in Nat /\ (Sent[r] # <<>> => Len(Sent[r]) >= 1)
<1>1. IsSent(Sent[r])
  BY BodiesAssumption
<1>2. IsSequence(Sent[r])
  BY <1>1 DEF IsSent
<1>3. QED
  BY <1>2 DEF IsSequence

\* A step that stores nothing and does not proceed.
LEMMA ElsewhereSent ==
    ASSUME TypeOK, SentInv, UNCHANGED <<events, raw, logs, items, at>>, cut \subseteq cut',
           \A r \in Requests :
              \/ pc'[r] = pc[r]
              \/ pc[r] = "new" /\ pc'[r] = "check"
              \/ pc[r] = "check" /\ pc'[r] \in {"open", "limited"}
              \/ /\ pc[r] = "item" /\ pc'[r] = "event"
                 /\ Item(r).type = "event" /\ IsEvent(Item(r).payload)
              \/ pc'[r] = "failed"
    PROVE  SentInv'
<1>1. IdInv'
  BY DEF SentInv, IdInv
<1>2. HandInv'
  <2> SUFFICES ASSUME NEW r \in Requests
               PROVE  /\ items[r] \in {<<>>, Sent[r]}
                      /\ pc'[r] \in {"new", "check", "open", "limited", "refused"} => at[r] = 1
                      /\ pc'[r] \in Working \cup {"accepted"} => items[r] = Sent[r]
                      /\ pc'[r] \in Working => at[r] <= Len(Sent[r])
                      /\ pc'[r] = "event" => /\ Sent[r][at[r]].type = "event"
                                             /\ IsEvent(Sent[r][at[r]].payload)
                      /\ pc'[r] = "log" => Sent[r][at[r]].type = "log" /\ <<r, at[r]>> \in raw
                      /\ pc'[r] = "accepted" => at[r] = Len(Sent[r]) + 1
                      /\ pc'[r] = "refused" => r \in cut
    BY DEF HandInv
  <2>1. CASE pc'[r] = pc[r]
    BY <2>1 DEF SentInv, HandInv
  <2>2. CASE pc[r] \in {"new", "check"} /\ pc'[r] \in {"check", "open", "limited"}
    BY <2>2 DEF SentInv, HandInv, Working
  <2>3. CASE /\ pc[r] = "item" /\ pc'[r] = "event"
             /\ Item(r).type = "event" /\ IsEvent(Item(r).payload)
    BY <2>3 DEF SentInv, HandInv, Working, Item
  <2>4. CASE pc'[r] = "failed"
    BY <2>4 DEF SentInv, HandInv, Working
  <2>5. QED
    BY <2>1, <2>2, <2>3, <2>4
<1>3. StoredInv'
  <2>1. \A r, i : Stored(r, i)' <=> Stored(r, i)
    BY DEF Stored
  <2>2. QED
    BY <2>1 DEF SentInv, StoredInv, Known
<1>4. QED
  BY <1>1, <1>2, <1>3 DEF SentInv

\* The parser returns what was sent, and refuses what is cut.
LEMMA OpenReads ==
    ASSUME TypeOK, NEW r \in Requests, Open(r)
    PROVE  /\ pc[r] = "open"
           /\ UNCHANGED <<events, raw, logs, at>> /\ cut \subseteq cut'
           /\ \/ /\ items' = [items EXCEPT ![r] = Sent[r]]
                 /\ pc' = [pc EXCEPT ![r] = IF Sent[r] = <<>> THEN "accepted" ELSE "item"]
              \/ /\ items' = [items EXCEPT ![r] = <<>>]
                 /\ pc' = [pc EXCEPT ![r] = "refused"]
                 /\ r \in cut'
<1>1. PICK body \in Bodies[r] \cup CutBodies[r] :
          /\ cut' = IF body \in CutBodies[r] THEN cut \cup {r} ELSE cut
          /\ items' = [items EXCEPT ![r] = Parsed[body].items]
          /\ Goto(r, IF ~Parsed[body].ok THEN "refused"
                     ELSE IF Parsed[body].items = <<>> THEN "accepted" ELSE "item")
  BY DEF Open
<1>2. Parsed[body] = Parse(body)
  BY DEF Parsed, AllBodies
<1>3. pc[r] = "open" /\ UNCHANGED <<events, raw, logs, at>> /\ cut \subseteq cut'
  BY <1>1 DEF Open, rows
<1>4. CASE body \in Bodies[r]
  <2>1. Written(body, Sent[r])
    BY <1>4, BodiesAssumption
  <2>2. Parse(body) = [ok |-> TRUE, items |-> Sent[r]]
    BY <2>1, WrittenIsRead
  <2>3. Parsed[body].ok = TRUE /\ Parsed[body].items = Sent[r]
    BY <1>2, <2>2
  <2>4. QED
    BY <1>1, <1>3, <2>3 DEF Goto
<1>5. CASE body \in CutBodies[r]
  <2>1. Cut(body, Sent[r])
    BY <1>5, BodiesAssumption
  <2>2. Parse(body) = Broken
    BY <2>1, CutIsRefused
  <2>3. Parsed[body].ok = FALSE /\ Parsed[body].items = <<>>
    BY <1>2, <2>2 DEF Broken
  <2>4. r \in cut'
    BY <1>1, <1>5
  <2>5. QED
    BY <1>1, <1>3, <2>3, <2>4 DEF Goto
<1>6. QED
  BY <1>4, <1>5

LEMMA OpenSent == ASSUME TypeOK, SentInv, NEW r \in Requests, Open(r) PROVE SentInv'
<1>1. /\ pc[r] = "open"
      /\ UNCHANGED <<events, raw, logs, at>> /\ cut \subseteq cut'
      /\ \/ /\ items' = [items EXCEPT ![r] = Sent[r]]
            /\ pc' = [pc EXCEPT ![r] = IF Sent[r] = <<>> THEN "accepted" ELSE "item"]
         \/ /\ items' = [items EXCEPT ![r] = <<>>]
            /\ pc' = [pc EXCEPT ![r] = "refused"]
            /\ r \in cut'
  BY OpenReads
<1>2. at[r] = 1
  BY <1>1 DEF SentInv, HandInv
<1>3. IdInv'
  BY <1>1 DEF SentInv, IdInv
<1>4. HandInv'
  <2> SUFFICES ASSUME NEW q \in Requests
               PROVE  /\ items'[q] \in {<<>>, Sent[q]}
                      /\ pc'[q] \in {"new", "check", "open", "limited", "refused"} => at[q] = 1
                      /\ pc'[q] \in Working \cup {"accepted"} => items'[q] = Sent[q]
                      /\ pc'[q] \in Working => at[q] <= Len(Sent[q])
                      /\ pc'[q] = "event" => /\ Sent[q][at[q]].type = "event"
                                             /\ IsEvent(Sent[q][at[q]].payload)
                      /\ pc'[q] = "log" => Sent[q][at[q]].type = "log" /\ <<q, at[q]>> \in raw
                      /\ pc'[q] = "accepted" => at[q] = Len(Sent[q]) + 1
                      /\ pc'[q] = "refused" => q \in cut'
    BY <1>1 DEF HandInv
  <2>1. CASE q = r
    <3>1. items'[r] \in {<<>>, Sent[r]} /\ pc'[r] \in {"accepted", "item", "refused"}
      BY <1>1 DEF TypeOK
    <3>2. CASE pc'[r] = "refused"
      BY <1>1, <1>2, <2>1, <3>1, <3>2 DEF TypeOK, Working
    <3>3. CASE pc'[r] = "item"
      <4>1. items'[r] = Sent[r] /\ Sent[r] # <<>>
        BY <1>1, <3>3 DEF TypeOK
      <4>2. QED
        BY <1>2, <2>1, <3>3, <4>1, Lengths DEF Working
    <3>4. CASE pc'[r] = "accepted"
      <4>1. items'[r] = Sent[r] /\ Sent[r] = <<>>
        BY <1>1, <3>4 DEF TypeOK
      <4>2. QED
        BY <1>2, <2>1, <3>4, <4>1 DEF Working
    <3>5. QED
      BY <3>1, <3>2, <3>3, <3>4
  <2>2. CASE q # r
    <3>1. pc'[q] = pc[q] /\ items'[q] = items[q]
      BY <1>1, <2>2 DEF TypeOK
    <3>2. QED
      BY <1>1, <3>1 DEF SentInv, HandInv
  <2>3. QED
    BY <2>1, <2>2
<1>5. StoredInv'
  <2>1. \A q, i : Stored(q, i)' <=> Stored(q, i)
    BY <1>1 DEF Stored
  <2>2. QED
    BY <1>1, <2>1 DEF SentInv, StoredInv, Known
<1>6. QED
  BY <1>3, <1>4, <1>5 DEF SentInv

\* The item in hand has been stored, and the loop goes on.
LEMMA ProceedSent ==
    ASSUME TypeOK, SentInv, NEW r \in Requests, pc[r] \in Working, Proceed(r),
           UNCHANGED <<items, cut>>, IdInv', Kept,
           NEW i, i = at[r], Stored(r, i)', Known(r, i),
           \A row \in raw' : row \in raw \/ row = <<r, i>>
    PROVE  SentInv'
<1>1. /\ at' = [at EXCEPT ![r] = at[r] + 1]
      /\ pc' = [pc EXCEPT ![r] = IF at[r] = Len(items[r]) THEN "accepted" ELSE "item"]
  BY DEF Proceed, Goto
<1>2. /\ items[r] = Sent[r] /\ at[r] <= Len(Sent[r])
      /\ at[r] \in Nat \ {0} /\ Len(Sent[r]) \in Nat
  BY Lengths DEF SentInv, HandInv, TypeOK
<1>3. at'[r] = at[r] + 1 /\ pc'[r] \in {"accepted", "item"}
  BY <1>1 DEF TypeOK
<1>4. \A q \in Requests \ {r} : at'[q] = at[q] /\ pc'[q] = pc[q]
  BY <1>1 DEF TypeOK
<1>5. HandInv'
  <2> SUFFICES ASSUME NEW q \in Requests
               PROVE  /\ items[q] \in {<<>>, Sent[q]}
                      /\ pc'[q] \in {"new", "check", "open", "limited", "refused"} => at'[q] = 1
                      /\ pc'[q] \in Working \cup {"accepted"} => items[q] = Sent[q]
                      /\ pc'[q] \in Working => at'[q] <= Len(Sent[q])
                      /\ pc'[q] = "event" => /\ Sent[q][at'[q]].type = "event"
                                             /\ IsEvent(Sent[q][at'[q]].payload)
                      /\ pc'[q] = "log" => /\ Sent[q][at'[q]].type = "log"
                                           /\ <<q, at'[q]>> \in raw'
                      /\ pc'[q] = "accepted" => at'[q] = Len(Sent[q]) + 1
                      /\ pc'[q] = "refused" => q \in cut
    BY DEF HandInv
  <2>1. CASE q = r
    <3>1. pc'[r] = IF at[r] = Len(Sent[r]) THEN "accepted" ELSE "item"
      BY <1>1, <1>2 DEF TypeOK
    <3>2. QED
      BY <1>2, <1>3, <2>1, <3>1 DEF Working
  <2>2. CASE q # r
    BY <1>4, <2>2 DEF SentInv, HandInv, Kept
  <2>3. QED
    BY <2>1, <2>2
<1>6. StoredInv'
  <2> SUFFICES ASSUME NEW q \in Requests
               PROVE  /\ \A j \in 1..Len(Sent[q]) : j < at'[q] => Stored(q, j)' /\ Known(q, j)
                      /\ \A row \in raw' : row[1] = q => row[2] <= at'[q]
    BY DEF StoredInv, Known
  <2>1. \A j \in 1..Len(Sent[q]) : j < at[q] => Stored(q, j)' /\ Known(q, j)
    BY KeepsStored DEF SentInv, StoredInv
  <2>2. \A row \in raw : row[1] = q => row[2] <= at[q]
    BY DEF SentInv, StoredInv
  <2>3. CASE q = r
    <3>1. \A j \in 1..Len(Sent[r]) : j < at[r] + 1 => j < at[r] \/ j = i
      BY <1>2
    <3>2. \A row \in raw : row[2] \in Nat
      BY DEF TypeOK
    <3>3. \A row \in raw' : row[1] = r => row[2] <= at[r] + 1
      BY <1>2, <2>2, <2>3, <3>2
    <3>4. QED
      BY <1>3, <2>1, <2>3, <3>1, <3>3
  <2>4. CASE q # r
    BY <1>4, <2>1, <2>2, <2>4
  <2>5. QED
    BY <2>3, <2>4
<1>7. QED
  BY <1>5, <1>6 DEF SentInv

LEMMA StoreEventSent == ASSUME TypeOK, SentInv, NEW r \in Requests, StoreEvent(r) PROVE SentInv'
<1> DEFINE e == Json(Item(r).payload)[1]
           new == [row |-> RowOf(e, read[r]), owed |-> owed[r]]
<1>1. /\ pc[r] = "event" /\ Proceed(r)
      /\ e.id \in EventIds
      /\ events' = IF events[e.id] # None THEN events ELSE [events EXCEPT ![e.id] = new]
      /\ UNCHANGED <<raw, logs, items, cut>>
  BY DEF StoreEvent
<1>2. /\ Item(r) = Sent[r][at[r]] /\ Item(r).type = "event"
      /\ IsEvent(Item(r).payload)
      /\ at[r] \in 1..Len(Sent[r])
  <2>1. /\ items[r] = Sent[r] /\ at[r] <= Len(Sent[r])
        /\ Sent[r][at[r]].type = "event" /\ IsEvent(Sent[r][at[r]].payload)
    BY <1>1 DEF SentInv, HandInv, Working
  <2>2. at[r] \in Nat \ {0} /\ Len(Sent[r]) \in Nat
    BY Lengths DEF TypeOK
  <2>3. QED
    BY <2>1, <2>2 DEF Item
<1>3. new # None
  <2>1. read[r] \in SUBSET Fields /\ owed[r] \in SUBSET Fields
    BY DEF TypeOK
  <2>2. e = Json(Sent[r][at[r]].payload)[1]
    BY <1>2
  <2>3. IsEvent(Sent[r][at[r]].payload)
    BY <1>2
  <2> HIDE DEF e
  <2>4. None # [row |-> RowOf(e, read[r]), owed |-> owed[r]]
    BY <1>2, <2>1, <2>2, <2>3, EventsAssumption
  <2>5. QED
    BY <2>4
<1>4. new.row.event.id = e.id
  BY DEF RowOf, Scrub
<1> HIDE DEF new
<1>5. Kept
  BY <1>1 DEF Kept, TypeOK
<1>6. IdInv'
  BY <1>1, <1>4 DEF SentInv, IdInv, TypeOK
<1>7. events'[e.id] # None
  BY <1>1, <1>3 DEF TypeOK
<1>8. PICK i \in 1..Len(Sent[r]) : i = at[r]
  BY <1>2
<1>9. Json(Sent[r][i].payload)[1] = e /\ Sent[r][i].type = "event"
  BY <1>2, <1>8
<1>10. Stored(r, i)' /\ Known(r, i)
  <2> DEFINE f == Json(Sent[r][i].payload)[1]
  <2>1. f.id \in EventIds /\ events'[f.id] # None
    BY <1>1, <1>7, <1>9
  <2>2. events'[f.id].row.event.id = f.id
    BY <1>6, <2>1 DEF IdInv
  <2>3. QED
    BY <1>9, <2>1, <2>2 DEF Stored, Known
<1>11. QED
  BY <1>1, <1>5, <1>6, <1>8, <1>10, ProceedSent DEF Working

LEMMA StoreRawSent == ASSUME TypeOK, SentInv, NEW r \in Requests, StoreRaw(r) PROVE SentInv'
<1>1. /\ pc[r] = "item" /\ Item(r).type # "event"
      /\ raw' = raw \cup {<<r, at[r]>>}
      /\ UNCHANGED <<events, logs, items, cut>>
  BY DEF StoreRaw
<1>2. /\ Item(r) = Sent[r][at[r]]
      /\ at[r] \in 1..Len(Sent[r])
  <2>1. items[r] = Sent[r] /\ at[r] <= Len(Sent[r])
    BY <1>1 DEF SentInv, HandInv, Working
  <2>2. at[r] \in Nat \ {0} /\ Len(Sent[r]) \in Nat
    BY Lengths DEF TypeOK
  <2>3. QED
    BY <2>1, <2>2 DEF Item
<1>3. PICK i \in 1..Len(Sent[r]) : i = at[r]
  BY <1>2
<1>4. Kept
  BY <1>1 DEF Kept
<1>5. IdInv'
  BY <1>1 DEF SentInv, IdInv
<1>6. CASE Item(r).type # "log"
  <2>1. Proceed(r)
    BY <1>6 DEF StoreRaw
  <2>2. Stored(r, i)' /\ Known(r, i)
    BY <1>1, <1>2, <1>3, <1>6 DEF Stored, Known
  <2>3. \A row \in raw' : row \in raw \/ row = <<r, i>>
    BY <1>1, <1>3
  <2>4. QED
    BY <1>1, <1>3, <1>4, <1>5, <2>1, <2>2, <2>3, ProceedSent DEF Working
<1>7. CASE Item(r).type = "log"
  <2>1. /\ at' = at
        /\ pc' = [pc EXCEPT ![r] = IF IsBatch(Item(r).payload) THEN "log" ELSE "failed"]
    BY <1>7 DEF StoreRaw, Goto
  <2>2. HandInv'
    <3> SUFFICES ASSUME NEW q \in Requests
                 PROVE  /\ items[q] \in {<<>>, Sent[q]}
                        /\ pc'[q] \in {"new", "check", "open", "limited", "refused"} => at[q] = 1
                        /\ pc'[q] \in Working \cup {"accepted"} => items[q] = Sent[q]
                        /\ pc'[q] \in Working => at[q] <= Len(Sent[q])
                        /\ pc'[q] = "event" => /\ Sent[q][at[q]].type = "event"
                                               /\ IsEvent(Sent[q][at[q]].payload)
                        /\ pc'[q] = "log" => /\ Sent[q][at[q]].type = "log"
                                             /\ <<q, at[q]>> \in raw'
                        /\ pc'[q] = "accepted" => at[q] = Len(Sent[q]) + 1
                        /\ pc'[q] = "refused" => q \in cut
      BY <1>1, <2>1 DEF HandInv
    <3>1. CASE q = r
      <4>1. pc'[r] \in {"log", "failed"}
        BY <2>1 DEF TypeOK
      <4>2. items[r] = Sent[r] /\ at[r] <= Len(Sent[r])
        BY <1>1 DEF SentInv, HandInv, Working
      <4>3. QED
        BY <1>1, <1>2, <1>7, <3>1, <4>1, <4>2 DEF Working
    <3>2. CASE q # r
      <4>1. pc'[q] = pc[q]
        BY <2>1, <3>2 DEF TypeOK
      <4>2. QED
        BY <1>1, <4>1 DEF SentInv, HandInv
    <3>3. QED
      BY <3>1, <3>2
  <2>3. StoredInv'
    <3> SUFFICES ASSUME NEW q \in Requests
                 PROVE  /\ \A j \in 1..Len(Sent[q]) : j < at[q] => Stored(q, j)' /\ Known(q, j)
                        /\ \A row \in raw' : row[1] = q => row[2] <= at[q]
      BY <2>1 DEF StoredInv, Known
    <3>1. \A j \in 1..Len(Sent[q]) : j < at[q] => Stored(q, j)' /\ Known(q, j)
      BY <1>4, KeepsStored DEF SentInv, StoredInv
    <3>2. \A row \in raw : row[1] = q => row[2] <= at[q]
      BY DEF SentInv, StoredInv
    <3>3. QED
      BY <1>1, <1>2, <3>1, <3>2
  <2>4. QED
    BY <1>5, <2>2, <2>3 DEF SentInv
<1>8. QED
  BY <1>6, <1>7

LEMMA CommitBatchSent ==
    ASSUME TypeOK, SentInv, NEW r \in Requests, CommitBatch(r) PROVE SentInv'
<1>1. /\ pc[r] = "log" /\ Proceed(r)
      /\ logs' = logs \cup {<<r, at[r], n>> : n \in 1..Len(Records(r))}
      /\ UNCHANGED <<events, raw, items, cut>>
  BY DEF CommitBatch
<1>2. /\ Item(r) = Sent[r][at[r]] /\ Sent[r][at[r]].type = "log"
      /\ <<r, at[r]>> \in raw
      /\ at[r] \in 1..Len(Sent[r])
  <2>1. /\ items[r] = Sent[r] /\ at[r] <= Len(Sent[r])
        /\ Sent[r][at[r]].type = "log" /\ <<r, at[r]>> \in raw
    BY <1>1 DEF SentInv, HandInv, Working
  <2>2. at[r] \in Nat \ {0} /\ Len(Sent[r]) \in Nat
    BY Lengths DEF TypeOK
  <2>3. QED
    BY <2>1, <2>2 DEF Item
<1>3. PICK i \in 1..Len(Sent[r]) : i = at[r]
  BY <1>2
<1>4. Kept /\ IdInv'
  BY <1>1 DEF Kept, SentInv, IdInv
<1>5. Stored(r, i)' /\ Known(r, i)
  <2>1. Records(r) = Json(Sent[r][i].payload)
    BY <1>2, <1>3 DEF Records
  <2>2. \A n \in 1..Len(Json(Sent[r][i].payload)) : <<r, i, n>> \in logs'
    BY <1>1, <1>3, <2>1
  <2>3. <<r, i>> \in raw' /\ Sent[r][i].type = "log"
    BY <1>1, <1>2, <1>3
  <2>4. QED
    BY <2>2, <2>3 DEF Stored, Known
<1>6. QED
  BY <1>1, <1>3, <1>4, <1>5, ProceedSent DEF Working

LEMMA NextSent == ASSUME TypeOK, SentInv, [Next]_vars PROVE SentInv'
<1> USE DEF rows, limiter, trace, bounds, inHand
<1>1. ASSUME NEW r \in Requests, Arrive(r) \/ Check(r) \/ ReadFields(r) \/ StoreRecord(r)
      PROVE  SentInv'
  <2>1. UNCHANGED <<events, raw, logs, items, at, cut>>
    BY <1>1 DEF Arrive, Check, ReadFields, StoreRecord
  <2>2. \A q \in Requests \ {r} : pc'[q] = pc[q]
    BY <1>1 DEF Arrive, Check, ReadFields, StoreRecord, Goto, TypeOK
  <2>3. \/ pc'[r] = pc[r]
        \/ pc[r] = "new" /\ pc'[r] = "check"
        \/ pc[r] = "check" /\ pc'[r] \in {"open", "limited"}
        \/ /\ pc[r] = "item" /\ pc'[r] = "event"
           /\ Item(r).type = "event" /\ IsEvent(Item(r).payload)
        \/ pc'[r] = "failed"
    BY <1>1 DEF Arrive, Check, ReadFields, StoreRecord, Goto, TypeOK
  <2>4. QED
    BY <2>1, <2>2, <2>3, ElsewhereSent
<1>2. ASSUME NEW r \in Requests, Deadlock(r) \/ Lose(r) PROVE SentInv'
  <2>1. Abandon(r)
    BY <1>2 DEF Deadlock, Lose
  <2>2. UNCHANGED <<events, raw, logs, items, at, cut>>
    BY <2>1 DEF Abandon
  <2>3. \A q \in Requests : pc'[q] = pc[q] \/ pc'[q] = "failed"
    BY <2>1 DEF Abandon, Goto, TypeOK
  <2>4. QED
    BY <2>2, <2>3, ElsewhereSent
<1>3. CASE Restart
  <2>1. UNCHANGED <<events, raw, logs, items, at, cut>>
    BY <1>3 DEF Restart
  <2>2. \A q \in Requests : pc'[q] = pc[q] \/ pc'[q] = "failed"
    BY <1>3 DEF Restart
  <2>3. QED
    BY <2>1, <2>2, ElsewhereSent
<1>4. ASSUME NEW F \in SUBSET Fields, UpdateProject(F) PROVE SentInv'
  BY <1>4, ElsewhereSent DEF UpdateProject
<1>5. CASE Tick
  BY <1>5, ElsewhereSent DEF Tick
<1>6. CASE UNCHANGED vars
  BY <1>6, ElsewhereSent DEF vars
<1>7. QED
  BY <1>1, <1>2, <1>3, <1>4, <1>5, <1>6, OpenSent, StoreEventSent, StoreRawSent,
     CommitBatchSent DEF Next, Serve

LEMMA SentFollows == ASSUME TypeOK, LogsInv, SentInv PROVE StoredAsSent
<1> SUFFICES ASSUME NEW r \in Requests
             PROVE  /\ items[r] \in {<<>>, Sent[r]}
                    /\ pc[r] = "accepted" => \A i \in 1..Len(Sent[r]) : Stored(r, i)
                    /\ pc[r] = "refused" => r \in cut
                    /\ \A i \in 1..Len(Sent[r]) :
                          i < at[r] => pc[r] \in Working \cup {"accepted", "failed"} /\ Stored(r, i)
                    /\ \A row \in raw : row[1] = r => row[2] <= at[r]
                    /\ \A row \in logs : row[1] = r => row[2] < at[r]
  BY DEF StoredAsSent
<1>1. items[r] \in {<<>>, Sent[r]} /\ (pc[r] = "refused" => r \in cut)
  BY DEF SentInv, HandInv
<1>2. \A i \in 1..Len(Sent[r]) : i < at[r] => Stored(r, i)
  BY DEF SentInv, StoredInv
<1>3. pc[r] = "accepted" => \A i \in 1..Len(Sent[r]) : Stored(r, i)
  <2>1. pc[r] = "accepted" => at[r] = Len(Sent[r]) + 1
    BY DEF SentInv, HandInv
  <2>2. QED
    BY <1>2, <2>1, Lengths
<1>4. \A i \in 1..Len(Sent[r]) : i < at[r] => pc[r] \in Working \cup {"accepted", "failed"}
  <2>1. pc[r] \in {"new", "check", "open"} \cup Working \cup Closed
    BY DEF TypeOK
  <2>2. pc[r] \in {"new", "check", "open", "limited", "refused"} => at[r] = 1
    BY DEF SentInv, HandInv
  <2>3. \A i \in 1..Len(Sent[r]) : ~(i < 1)
    BY Lengths
  <2>4. QED
    BY <2>1, <2>2, <2>3 DEF Closed
<1>5. \A row \in raw : row[1] = r => row[2] <= at[r]
  BY DEF SentInv, StoredInv
<1>6. \A row \in logs : row[1] = r => row[2] < at[r]
  BY DEF LogsInv, BatchInv
<1>7. QED
  BY <1>1, <1>2, <1>3, <1>4, <1>5, <1>6

-----------------------------------------------------------------------------
(* Nobody waits forever.  CanGoOn says when a step of Serve can be taken.   *)

USE EnvelopesAssumption

EventOf(r) == Json(Item(r).payload)[1]

\* The batches that r's next statement waits for: PostgreSQL makes an upsert of a
\* service wait for whoever has locked it.
Blockers(r) ==
    WaitsFor(r) \cup
        (IF pc[r] = "event" /\ events[EventOf(r).id] = None
         THEN {holder[EventOf(r).service]} \ {None} ELSE {})

\* The guards of the actions of Serve.
CanGoOn(r) ==
    \/ pc[r] \in {"check", "item"}
    \/ pc[r] = "open" /\ Bodies[r] \cup CutBodies[r] # {}
    \/ /\ pc[r] = "event" /\ EventOf(r).id \in EventIds
       /\ events[EventOf(r).id] = None => holder[EventOf(r).service] = None
    \/ pc[r] = "log" /\ next[r] <= Len(Records(r)) /\ CanLock(r, ServiceAt(r, next[r]))
    \/ pc[r] = "log" /\ next[r] > Len(Records(r))
    \/ Deadlocked(r)

\* The requests under way, whose body has arrived.
UnderWay ==
    {r \in Requests : /\ pc[r] \in {"check", "open"} \cup Working
                      /\ pc[r] = "open" => Bodies[r] \cup CutBodies[r] # {}}

\* Requests under way that wait for nobody outside are not all waiting.
NeverStuck ==
    \A S \in SUBSET UnderWay :
        S # {} /\ (\A r \in S : Blockers(r) \subseteq S) => \E r \in S : CanGoOn(r)

\* Of the batches that wait for each other in a set that waits for nobody else,
\* some wait in a circle: the fewest that wait for nobody else.
LEMMA Circle ==
    ASSUME NEW T \in SUBSET Requests, T # {},
           \A q \in T : WaitsFor(q) \subseteq T /\ WaitsFor(q) # {}
    PROVE  \E U \in SUBSET T : U # {} /\ U = UNION {WaitsFor(q) : q \in U}
<1> DEFINE Onto(U) == UNION {WaitsFor(q) : q \in U}
           Closing == {U \in SUBSET T : U # {} /\ Onto(U) \subseteq U}
           Sizes == {Cardinality(U) : U \in Closing}
<1>1. \A U \in SUBSET T : IsFiniteSet(U) /\ Cardinality(U) \in Nat
  BY SomeRequests
<1>2. T \in Closing
  OBVIOUS
<1>3. Sizes \in SUBSET Nat /\ Sizes # {}
  BY <1>1, <1>2
<1>4. PICK n \in Sizes : \A m \in Sizes : n <= m
  <2> HIDE DEF Sizes
  <2>1. QED
    BY <1>3, Least
<1>5. PICK U \in Closing : n = Cardinality(U)
  OBVIOUS
<1> DEFINE V == Onto(U)
<1>6. V \subseteq U /\ U \subseteq T /\ U # {}
  OBVIOUS
<1>7. V # {}
  <2>1. PICK q \in U : TRUE
    BY <1>6
  <2>2. WaitsFor(q) # {} /\ WaitsFor(q) \subseteq V
    BY <1>6, <2>1
  <2>3. QED
    BY <2>2
<1>8. Onto(V) \subseteq V
  BY <1>6
<1>9. V \in Closing
  BY <1>6, <1>7, <1>8
<1> HIDE DEF V
<1>10. Cardinality(U) <= Cardinality(V)
  <2>1. Cardinality(V) \in Sizes
    BY <1>9
  <2> HIDE DEF Sizes
  <2>2. n <= Cardinality(V)
    BY <1>4, <2>1
  <2>3. QED
    BY <2>2, <1>5
<1>11. V = U
  <2>1. IsFiniteSet(U) /\ Cardinality(U) \in Nat /\ Cardinality(V) \in Nat
    BY <1>1, <1>6
  <2>2. Cardinality(V) = Cardinality(U) => V = U
    BY <1>6, <2>1, FS_Subset
  <2>3. Cardinality(V) <= Cardinality(U)
    BY <1>6, <2>1, FS_Subset
  <2>4. QED
    BY <1>10, <2>1, <2>2, <2>3
<1>12. QED
  BY <1>6, <1>11 DEF V

\* A batch with a record left that cannot go on waits for another batch.
LEMMA BatchWaits ==
    ASSUME TypeOK, LogsInv, NEW r \in Requests, pc[r] = "log", ~CanGoOn(r)
    PROVE  /\ WaitsFor(r) # {} /\ WaitsFor(r) \subseteq Requests
           /\ \A q \in WaitsFor(r) : pc[q] = "log"
<1> DEFINE s == ServiceAt(r, next[r])
<1>1. /\ next[r] \in 1..Len(Records(r))
      /\ IsBatch(Item(r).payload)
  <2>1. next[r] <= Len(Records(r)) + 1 /\ IsBatch(Item(r).payload)
    BY DEF LogsInv, BatchInv
  <2>2. Len(Records(r)) \in Nat
    BY <2>1, BatchRecords DEF Records
  <2>3. next[r] \in Nat \ {0} /\ ~(next[r] > Len(Records(r)))
    BY DEF CanGoOn, TypeOK
  <2>4. QED
    BY <2>1, <2>2, <2>3
<1>2. s \in Services
  BY <1>1, BatchRecords DEF ServiceAt, Records
<1>3. holder[s] \notin {None, r}
  BY <1>1 DEF CanGoOn, CanLock
<1>4. holder[s] \in Requests /\ pc[holder[s]] = "log"
  BY <1>2, <1>3 DEF TypeOK
<1>5. WaitsFor(r) = {holder[s]}
  BY <1>1, <1>3 DEF WaitsFor
<1>6. QED
  BY <1>4, <1>5

LEMMA StuckFollows ==
    ASSUME TypeOK, LogsInv, SentInv PROVE NeverStuck
<1> SUFFICES ASSUME NEW S \in SUBSET UnderWay, S # {},
                    \A r \in S : Blockers(r) \subseteq S,
                    \A r \in S : ~CanGoOn(r)
             PROVE  FALSE
  BY DEF NeverStuck
<1>1. S \subseteq Requests /\ \A r \in S : pc[r] \in {"event", "log"}
  BY DEF UnderWay, CanGoOn, Working
<1> DEFINE T == {r \in S : pc[r] = "log"}
<1>2. \A r \in T : /\ WaitsFor(r) # {} /\ WaitsFor(r) \subseteq T
  <2> SUFFICES ASSUME NEW r \in T PROVE WaitsFor(r) # {} /\ WaitsFor(r) \subseteq T
    OBVIOUS
  <2>1. WaitsFor(r) # {} /\ \A q \in WaitsFor(r) : pc[q] = "log"
    BY <1>1, BatchWaits
  <2>2. WaitsFor(r) \subseteq S
    BY DEF Blockers
  <2>3. QED
    BY <2>1, <2>2
<1>3. T # {}
  <2>1. PICK r \in S : TRUE
    OBVIOUS
  <2>2. CASE pc[r] = "log"
    BY <2>2
  <2>3. CASE pc[r] = "event"
    <3> DEFINE e == EventOf(r)
    <3>1. /\ items[r] = Sent[r] /\ at[r] \in 1..Len(Sent[r])
          /\ IsEvent(Sent[r][at[r]].payload)
      <4>1. /\ items[r] = Sent[r] /\ at[r] <= Len(Sent[r])
            /\ IsEvent(Sent[r][at[r]].payload)
        BY <1>1, <2>3 DEF SentInv, HandInv, Working
      <4>2. at[r] \in Nat \ {0} /\ Len(Sent[r]) \in Nat
        BY <1>1, Lengths DEF TypeOK
      <4>3. QED
        BY <4>1, <4>2
    <3>2. e = Json(Sent[r][at[r]].payload)[1]
      BY <3>1 DEF EventOf, Item
    <3>3. e.id \in EventIds /\ e.service \in Services
      BY <1>1, <3>1, <3>2, EventsAssumption
    <3>4. events[e.id] = None /\ holder[e.service] # None
      BY <2>3, <3>3 DEF CanGoOn
    <3>5. holder[e.service] \in Blockers(r)
      BY <2>3, <3>4 DEF Blockers
    <3>6. pc[holder[e.service]] = "log"
      BY <3>3, <3>4 DEF TypeOK
    <3>7. QED
      BY <3>5, <3>6
  <2>4. QED
    BY <1>1, <2>2, <2>3
<1>4. PICK U \in SUBSET T : U # {} /\ U = UNION {WaitsFor(q) : q \in U}
  <2>1. T \in SUBSET Requests /\ T # {}
    BY <1>1, <1>3
  <2> HIDE DEF T
  <2>2. QED
    BY <1>2, <2>1, Circle
<1>5. PICK r \in U : TRUE
  BY <1>4
<1>6. Deadlocked(r) /\ r \in S
  BY <1>1, <1>4, <1>5 DEF Deadlocked
<1>7. QED
  BY <1>6 DEF CanGoOn

-----------------------------------------------------------------------------
(* The theorems. *)

\* The state of Envelopes is always well formed: only a request that is in a log
\* batch holds the lock of a service.
THEOREM EnvelopesTyped == Spec => []TypeOK
<1>1. Init => TypeOK
  BY InitType
<1>2. TypeOK /\ [Next]_vars => TypeOK'
  BY NextType
<1>3. QED
  BY <1>1, <1>2, PTL DEF Spec

\* LimitKept, whatever the limit, the window, the requests and the restarts:
\* fewer than twice the limit in a window's length, and a limit more for each
\* restart in it; and no request turned away for less.
THEOREM LimitIsKept == Spec => []LimitKept
<1>1. Init => TypeOK /\ LimitInv
  BY InitType, InitLimit
<1>2. TypeOK /\ LimitInv /\ [Next]_vars => (TypeOK /\ LimitInv)'
  BY NextType, NextLimit
<1>3. TypeOK /\ LimitInv => LimitKept
  BY LimitFollows
<1>4. QED
  BY <1>1, <1>2, <1>3, PTL DEF Spec

\* LogsCounted, whatever the batches and the services they name: log_count is
\* the number of the records.
THEOREM LogCountIsExact == Spec => []LogsCounted
<1>1. Init => TypeOK /\ LogsInv
  BY InitType, InitLogs
<1>2. TypeOK /\ LogsInv /\ [Next]_vars => (TypeOK /\ LogsInv)'
  BY NextType, NextLogs
<1>3. LogsInv => LogsCounted
  BY DEF LogsInv, CountedInv, LogsCounted, LogsOf
<1>4. QED
  BY <1>1, <1>2, <1>3, PTL DEF Spec

\* NoTraceOfSecrets, whatever the events and the fields that are secret.
THEOREM SecretsAreGone == Spec => []NoTraceOfSecrets
<1>1. Init => TypeOK /\ EventInv
  BY InitType, InitEvents
<1>2. TypeOK /\ EventInv /\ [Next]_vars => (TypeOK /\ EventInv)'
  BY NextType, NextEvents
<1>3. EventInv => NoTraceOfSecrets
  BY SecretsFollow
<1>4. QED
  BY <1>1, <1>2, <1>3, PTL DEF Spec

\* The server reads the items that the client put into the envelope; 202 means
\* that all of them are stored, and no whole envelope is refused
\* (ingest_envelope, parse).
THEOREM SentIsStored == Spec => []StoredAsSent
<1>1. Init => TypeOK /\ LogsInv /\ SentInv
  BY InitType, InitLogs, InitSent
<1>2. TypeOK /\ LogsInv /\ SentInv /\ [Next]_vars => (TypeOK /\ LogsInv /\ SentInv)'
  BY NextType, NextLogs, NextSent
<1>3. TypeOK /\ LogsInv /\ SentInv => StoredAsSent
  BY SentFollows
<1>4. QED
  BY <1>1, <1>2, <1>3, PTL DEF Spec

\* Requests under way that wait for nobody else do not wait for each other
\* forever: one of them can go on, if only as the victim of a deadlock
\* (persist_log_batch, persist_event).
THEOREM SomebodyGoesOn == Spec => []NeverStuck
<1>1. Init => TypeOK /\ LogsInv /\ SentInv
  BY InitType, InitLogs, InitSent
<1>2. TypeOK /\ LogsInv /\ SentInv /\ [Next]_vars => (TypeOK /\ LogsInv /\ SentInv)'
  BY NextType, NextLogs, NextSent
<1>3. TypeOK /\ LogsInv /\ SentInv => NeverStuck
  BY StuckFollows
<1>4. QED
  BY <1>1, <1>2, <1>3, PTL DEF Spec

=============================================================================
