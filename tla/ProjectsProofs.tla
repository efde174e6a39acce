---------------------------- MODULE ProjectsProofs ----------------------------
(***************************************************************************)
(* Proofs about Projects, for any number of projects, keys, administrators *)
(* and requests, and any cooling-off period.                               *)
(***************************************************************************)
EXTENDS Projects, TLAPS

USE ProjectsAssumption

\* A handler has a project that exists or did.
AtInv == \A a \in Admins : step[a] # "idle" =>
             at[a] \in ProjectIds /\ project[at[a]] # "new"

\* A request that is not refused was made with the key of a project that exists
\* or did; while it is in its transaction, the project cannot go.
RequestInv ==
    \A r \in Requests :
        /\ phase[r] \in {"read", "write", "commit", "accepted"} =>
              with[r] \in Keys /\ project[Target(r)] # "new"
        /\ phase[r] = "commit" => Exists(Target(r))

\* A request that was barred finds its project archived or gone.
BarredInv ==
    \A r \in barred : phase[r] = "read" => project[Target(r)] # "active"

Base == TypeOK /\ AtInv /\ RequestInv /\ NothingOrphaned

IInv == Base /\ BarredInv /\ PurgeIsDue /\ ArchivingStops /\ ArchivedIsRevoked

-----------------------------------------------------------------------------
LEMMA InvInit == Init => IInv
<1> SUFFICES ASSUME Init PROVE IInv
  OBVIOUS
<1>1. TypeOK
  BY DEF Init, TypeOK, Steps, Phases
<1>2. AtInv /\ RequestInv /\ NothingOrphaned
  BY DEF Init, AtInv, RequestInv, NothingOrphaned
<1>3. BarredInv /\ PurgeIsDue /\ ArchivingStops /\ ArchivedIsRevoked
  BY DEF Init, BarredInv, PurgeIsDue, ArchivingStops, ArchivedIsRevoked
<1>4. QED
  BY <1>1, <1>2, <1>3 DEF IInv, Base

-----------------------------------------------------------------------------
(* Types. *)

LEMMA GotoType ==
    ASSUME TypeOK, NEW a \in Admins, NEW s \in Steps, Goto(a, s)
    PROVE  step' \in [Admins -> Steps]
BY DEF TypeOK, Goto

LEMMA EndType ==
    ASSUME TypeOK, NEW a \in Admins, End(a)
    PROVE  /\ step' \in [Admins -> Steps]
           /\ at' \in [Admins -> ProjectIds \cup {None}]
           /\ overtaken' \in SUBSET Admins
<1>1. "idle" \in Steps
  BY DEF Steps
<1>2. QED
  BY <1>1, GotoType DEF TypeOK, End

LEMMA TypeOfAdmin ==
    ASSUME TypeOK, AtInv, NEW a \in Admins, AdminStep(a)
    PROVE  TypeOK'
<1> USE DEF TypeOK
<1>1. CASE Begin(a)
  <2>1. PICK s \in {"archive", "create key", "revoke key", "request", "cancel", "check"} :
            Goto(a, s)
    BY <1>1 DEF Begin
  <2>2. s \in Steps
    BY DEF Steps
  <2>3. step' \in [Admins -> Steps]
    BY <2>1, <2>2, GotoType
  <2>4. QED
    BY <1>1, <2>3 DEF Begin, rows, ingests, history
<1>2. CASE Abandon(a)
  BY <1>2, EndType DEF Abandon, rows, ingests, AtInv
<1>3. CASE ArchiveProject(a)
  BY <1>3 DEF ArchiveProject, Goto, Steps, Undecided, Exists, ingests
<1>4. CASE RevokeAll(a) \/ RevokeKey(a)
  BY <1>4, EndType DEF RevokeAll, RevokeKey, KeysOf, ingests
<1>5. CASE CreateKey(a)
  BY <1>5, EndType DEF CreateKey, KeysOf, ingests
<1>6. CASE RequestDeletion(a) \/ CancelDeletion(a)
  <2>1. "idle" \in Steps /\ Goto(a, "idle")
    BY <1>6 DEF RequestDeletion, CancelDeletion, Steps
  <2>2. step' \in [Admins -> Steps]
    BY <2>1, GotoType
  <2>3. wait' \in [ProjectIds -> -1 .. CoolingOff]
    BY <1>6 DEF RequestDeletion, CancelDeletion
  <2>4. overtaken' \in SUBSET Admins
    BY <1>6 DEF RequestDeletion, CancelDeletion, Purging
  <2>5. QED
    BY <1>6, <2>2, <2>3, <2>4 DEF RequestDeletion, CancelDeletion, ingests
<1>7. CASE CheckPurge(a)
  BY <1>7 DEF CheckPurge, Goto, Steps, rows, ingests, history
<1>8. CASE PurgeProject(a)
  <2>1. Purge(a) /\ End(a) /\ UNCHANGED <<phase, with, fresh, halfway, barred>>
    BY <1>8 DEF PurgeProject, ingests
  <2>2. project' \in [ProjectIds -> {"new", "active", "archived", "gone"}]
    BY <2>1 DEF Purge
  <2>3. key' \in [Keys -> {"new", "live", "revoked", "gone"}]
    BY <2>1 DEF Purge
  <2>4. wait' \in [ProjectIds -> -1 .. CoolingOff]
    <3>1. wait' = [wait EXCEPT ![at[a]] = -1] /\ -1 \in -1 .. CoolingOff
      BY <2>1 DEF Purge
    <3>2. QED
      BY <3>1
  <2>5. stored' \in SUBSET Requests
    BY <2>1 DEF Purge
  <2>6. QED
    BY <2>1, <2>2, <2>3, <2>4, <2>5, EndType
<1>9. QED
  BY <1>1, <1>2, <1>3, <1>4, <1>5, <1>6, <1>7, <1>8 DEF AdminStep

LEMMA TypeStep ==
    ASSUME TypeOK, AtInv, [Next]_vars
    PROVE  TypeOK'
<1> USE DEF TypeOK
<1>1. CASE \E p \in ProjectIds : CreateProject(p)
  BY <1>1 DEF CreateProject, admins, ingests, history
<1>2. CASE \E r \in Requests : IngestStep(r)
  BY <1>2 DEF IngestStep, Authorize, ReadProject, Write, Commit, Drop, Advance, Phases,
              rows, admins, history
<1>3. CASE Tick
  BY <1>3 DEF Tick, admins, ingests, history
<1>4. CASE UNCHANGED vars
  BY <1>4 DEF vars, rows, admins, ingests, history
<1>5. QED
  BY <1>1, <1>2, <1>3, <1>4, TypeOfAdmin DEF Next

-----------------------------------------------------------------------------
(* Projects only go forward. *)

Forward ==
    \A p \in ProjectIds :
        /\ project[p] # "new" => project'[p] # "new"
        /\ project'[p] = "active" => project[p] \in {"new", "active"}

LEMMA ProjectsGoForward ==
    ASSUME TypeOK, AtInv, [Next]_vars
    PROVE  Forward
<1> USE DEF TypeOK, Forward
<1>1. CASE \E a \in Admins : AdminStep(a)
  <2>1. PICK a \in Admins : AdminStep(a)
    BY <1>1
  <2>2. CASE ArchiveProject(a)
    BY <2>2 DEF ArchiveProject, Exists, AtInv
  <2>3. CASE PurgeProject(a)
    BY <2>3 DEF PurgeProject, Purge
  <2>4. CASE ~ArchiveProject(a) /\ ~PurgeProject(a)
    BY <2>1, <2>4 DEF AdminStep, Begin, Abandon, RevokeAll, CreateKey, RevokeKey,
                      RequestDeletion, CancelDeletion, CheckPurge, rows
  <2>5. QED
    BY <2>2, <2>3, <2>4
<1>2. CASE \E p \in ProjectIds : CreateProject(p)
  BY <1>2 DEF CreateProject
<1>3. CASE (\E r \in Requests : IngestStep(r)) \/ Tick \/ UNCHANGED vars
  BY <1>3 DEF IngestStep, Authorize, ReadProject, Write, Commit, Drop, Tick, vars, rows
<1>4. QED
  BY <1>1, <1>2, <1>3 DEF Next

LEMMA AtStep ==
    ASSUME TypeOK, AtInv, [Next]_vars
    PROVE  AtInv'
<1> USE DEF TypeOK
<1>1. Forward
  BY ProjectsGoForward
<1>2. CASE \E a \in Admins : AdminStep(a)
  <2>1. PICK a \in Admins : AdminStep(a)
    BY <1>2
  <2>2. \A b \in Admins \ {a} : step'[b] = step[b] /\ at'[b] = at[b]
    BY <2>1 DEF AdminStep, Begin, Abandon, ArchiveProject, RevokeAll, CreateKey, RevokeKey,
                RequestDeletion, CancelDeletion, CheckPurge, PurgeProject, Goto, End
  <2>3. step'[a] # "idle" => at'[a] \in ProjectIds /\ project[at'[a]] # "new"
    <3>1. CASE Begin(a)
      BY <3>1 DEF Begin, Exists
    <3>2. CASE ArchiveProject(a) \/ CheckPurge(a)
      BY <3>2 DEF ArchiveProject, CheckPurge, AtInv
    <3>3. CASE ~Begin(a) /\ ~ArchiveProject(a) /\ ~CheckPurge(a)
      BY <2>1, <3>3 DEF AdminStep, Abandon, RevokeAll, CreateKey, RevokeKey,
                        RequestDeletion, CancelDeletion, PurgeProject, Goto, End
    <3>4. QED
      BY <3>1, <3>2, <3>3
  <2>4. QED
    BY <1>1, <2>2, <2>3 DEF AtInv, Forward
<1>3. CASE (\E p \in ProjectIds : CreateProject(p)) \/ (\E r \in Requests : IngestStep(r))
           \/ Tick \/ UNCHANGED vars
  <2>1. UNCHANGED admins
    BY <1>3 DEF CreateProject, IngestStep, Authorize, ReadProject, Write, Commit, Drop,
                Tick, vars
  <2>2. QED
    BY <1>1, <2>1 DEF admins, AtInv, Forward
<1>4. QED
  BY <1>2, <1>3 DEF Next

LEMMA RequestStep ==
    ASSUME Base, [Next]_vars
    PROVE  RequestInv'
<1> USE DEF Base, TypeOK
<1>1. Forward
  BY ProjectsGoForward
<1>2. CASE \E r \in Requests : IngestStep(r)
  <2>1. PICK r \in Requests : IngestStep(r)
    BY <1>2
  <2>2. UNCHANGED project
    BY <2>1 DEF IngestStep, Authorize, ReadProject, Write, Commit, Drop, rows
  <2>3. CASE Authorize(r)
    BY <2>2, <2>3 DEF Authorize, Advance, RequestInv, Target, Exists
  <2>4. CASE ReadProject(r) \/ Write(r) \/ Commit(r) \/ Drop(r)
    BY <2>2, <2>4 DEF ReadProject, Write, Commit, Drop, Advance, RequestInv, Target, Exists
  <2>5. QED
    BY <2>1, <2>3, <2>4 DEF IngestStep
<1>3. CASE ~\E r \in Requests : IngestStep(r)
  <2>1. UNCHANGED ingests
    BY <1>3 DEF Next, CreateProject, AdminStep, Begin, Abandon, ArchiveProject, RevokeAll,
                CreateKey, RevokeKey, RequestDeletion, CancelDeletion, CheckPurge,
                PurgeProject, Tick, vars
  <2>2. \A r \in Requests : phase[r] = "commit" => Exists(Target(r))'
    <3>1. CASE \E a \in Admins : PurgeProject(a)
      <4>1. PICK a \in Admins : PurgeProject(a)
        BY <3>1
      <4>2. \A r \in Requests : phase[r] = "commit" => Target(r) # at[a]
        BY <4>1 DEF PurgeProject, Writers
      <4>3. \A q \in ProjectIds : q # at[a] => project'[q] = project[q]
        BY <4>1 DEF PurgeProject, Purge
      <4>4. \A r \in Requests : phase[r] = "commit" =>
                Target(r) \in ProjectIds /\ Exists(Target(r))
        BY DEF RequestInv, Target
      <4>5. QED
        BY <2>1, <4>2, <4>3, <4>4 DEF ingests, Target, Exists
    <3>2. CASE \E a \in Admins : ArchiveProject(a)
      <4>1. \A q \in ProjectIds : Exists(q) => Exists(q)'
        BY <3>2 DEF ArchiveProject, Exists
      <4>2. QED
        BY <2>1, <4>1 DEF RequestInv, ingests, Target
    <3>3. CASE \E p \in ProjectIds : CreateProject(p)
      BY <2>1, <3>3 DEF CreateProject, RequestInv, ingests, Target, Exists
    <3>4. CASE UNCHANGED project
      BY <2>1, <3>4 DEF RequestInv, ingests, Target, Exists
    <3>5. QED
      BY <1>3, <3>1, <3>2, <3>3, <3>4
         DEF Next, AdminStep, Begin, Abandon, RevokeAll, CreateKey, RevokeKey,
             RequestDeletion, CancelDeletion, CheckPurge, Tick, vars, rows
  <2>3. QED
    BY <1>1, <2>1, <2>2 DEF ingests, RequestInv, Forward, Target
<1>4. QED
  BY <1>2, <1>3

-----------------------------------------------------------------------------
(* What refers to a project. *)

\* The rows that refer to a project, where none of them comes or goes.
LEMMA OrphansFrame ==
    ASSUME NothingOrphaned, UNCHANGED <<stored, phase, with>>,
           \A p \in ProjectIds : Exists(p)' <=> Exists(p),
           \A p \in ProjectIds : wait'[p] # -1 => wait[p] # -1 \/ Exists(p),
           \A k \in Keys : key'[k] \in {"live", "revoked"} =>
               key[k] \in {"live", "revoked"} \/ Exists(ProjectOf[k]),
           RequestInv
    PROVE  NothingOrphaned'
<1>1. \A r \in Requests : phase[r] = "accepted" => Target(r) \in ProjectIds
  BY DEF RequestInv, Target
<1>2. \A r \in Requests : Target(r)' = Target(r)
  BY DEF Target
<1>3. stored' = {r \in Requests : phase'[r] = "accepted" /\ Exists(Target(r))'}
  BY <1>1, <1>2 DEF NothingOrphaned, Exists
<1>4. \A k \in Keys : key'[k] \in {"live", "revoked"} => Exists(ProjectOf[k])'
  BY DEF NothingOrphaned, Exists
<1>5. \A p \in ProjectIds : wait'[p] # -1 => Exists(p)'
  BY DEF NothingOrphaned
<1>6. QED
  BY <1>3, <1>4, <1>5 DEF NothingOrphaned

LEMMA OrphansOfAdmin ==
    ASSUME Base, NEW a \in Admins, AdminStep(a)
    PROVE  NothingOrphaned'
<1> USE DEF Base, TypeOK
<1>1. CASE PurgeProject(a)
  <2>1. PICK p \in ProjectIds : p = at[a]
    BY <1>1 DEF PurgeProject, AtInv
  <2>2. /\ project' = [project EXCEPT ![p] = "gone"]
        /\ key' = [k \in Keys |-> IF ProjectOf[k] = p /\ key[k] # "new"
                                  THEN "gone" ELSE key[k]]
        /\ wait' = [wait EXCEPT ![p] = -1]
        /\ stored' = {r \in stored : Target(r) # p}
        /\ UNCHANGED <<phase, with>>
    BY <1>1, <2>1 DEF PurgeProject, Purge, ingests
  <2>3. \A q \in ProjectIds : Exists(q)' <=> Exists(q) /\ q # p
    BY <2>2 DEF Exists
  <2>4. \A r \in Requests : phase[r] = "accepted" => Target(r) \in ProjectIds
    BY DEF RequestInv, Target
  <2>5. \A r \in Requests : Target(r)' = Target(r)
    BY <2>2 DEF Target
  <2>6. stored' = {r \in Requests : phase'[r] = "accepted" /\ Exists(Target(r))'}
    BY <2>2, <2>3, <2>4, <2>5 DEF NothingOrphaned, Exists
  <2>7. \A k \in Keys : key'[k] \in {"live", "revoked"} => Exists(ProjectOf[k])'
    BY <2>2, <2>3 DEF NothingOrphaned, Exists
  <2>8. \A q \in ProjectIds : wait'[q] # -1 => Exists(q)'
    BY <2>2, <2>3 DEF NothingOrphaned
  <2>9. QED
    BY <2>6, <2>7, <2>8 DEF NothingOrphaned
<1>2. CASE ~PurgeProject(a)
  <2>1. UNCHANGED <<stored, phase, with>>
    BY <1>2 DEF AdminStep, Begin, Abandon, ArchiveProject, RevokeAll, CreateKey, RevokeKey,
                RequestDeletion, CancelDeletion, CheckPurge, rows, ingests
  <2>2. \A p \in ProjectIds : Exists(p)' <=> Exists(p)
    BY <1>2 DEF AdminStep, Begin, Abandon, ArchiveProject, RevokeAll, CreateKey, RevokeKey,
                RequestDeletion, CancelDeletion, CheckPurge, rows, Exists
  <2>3. \A p \in ProjectIds : wait'[p] # -1 => wait[p] # -1 \/ Exists(p)
    BY <1>2 DEF AdminStep, Begin, Abandon, ArchiveProject, RevokeAll, CreateKey, RevokeKey,
                RequestDeletion, CancelDeletion, CheckPurge, rows
  <2>4. \A k \in Keys : key'[k] \in {"live", "revoked"} =>
            key[k] \in {"live", "revoked"} \/ Exists(ProjectOf[k])
    BY <1>2 DEF AdminStep, Begin, Abandon, ArchiveProject, RevokeAll, CreateKey, RevokeKey,
                RequestDeletion, CancelDeletion, CheckPurge, rows, KeysOf
  <2>5. QED
    BY <2>1, <2>2, <2>3, <2>4, OrphansFrame
<1>3. QED
  BY <1>1, <1>2

LEMMA OrphansStep ==
    ASSUME Base, [Next]_vars
    PROVE  NothingOrphaned'
<1> USE DEF Base, TypeOK
<1>1. CASE \E p \in ProjectIds : CreateProject(p)
  <2>1. PICK p \in ProjectIds : CreateProject(p)
    BY <1>1
  <2>2. UNCHANGED <<key, wait, stored, phase, with>>
    BY <2>1 DEF CreateProject, ingests
  <2>3. project[p] = "new" /\ \A q \in ProjectIds : Exists(q)' <=> Exists(q) \/ q = p
    BY <2>1 DEF CreateProject, Exists
  <2>4. \A r \in Requests : phase[r] = "accepted" =>
            Target(r) \in ProjectIds /\ project[Target(r)] # "new"
    BY DEF RequestInv, Target
  <2>5. \A r \in Requests : Target(r)' = Target(r)
    BY <2>2 DEF Target
  <2>6. stored' = {r \in Requests : phase'[r] = "accepted" /\ Exists(Target(r))'}
    BY <2>2, <2>3, <2>4, <2>5 DEF NothingOrphaned, Exists
  <2>7. /\ \A k \in Keys : key'[k] \in {"live", "revoked"} => Exists(ProjectOf[k])'
        /\ \A q \in ProjectIds : wait'[q] # -1 => Exists(q)'
    BY <2>2, <2>3 DEF NothingOrphaned, Exists
  <2>8. QED
    BY <2>6, <2>7 DEF NothingOrphaned
<1>2. CASE \E r \in Requests : IngestStep(r)
  <2>1. PICK r \in Requests : IngestStep(r)
    BY <1>2
  <2>2. UNCHANGED <<project, key, wait>>
    BY <2>1 DEF IngestStep, Authorize, ReadProject, Write, Commit, Drop, rows
  <2>3. \A q \in Requests \ {r} : phase'[q] = phase[q] /\ with'[q] = with[q]
    BY <2>1 DEF IngestStep, Authorize, ReadProject, Write, Commit, Drop, Advance
  <2>4. CASE Commit(r)
    <3>1. stored' = stored \cup {r} /\ phase'[r] = "accepted" /\ phase[r] = "commit"
          /\ UNCHANGED with
      BY <2>4 DEF Commit, Advance
    <3>2. \A q \in Requests : Target(q)' = Target(q)
      BY <3>1 DEF Target
    <3>3. Exists(Target(r))
      BY <3>1 DEF RequestInv
    <3>4. stored' = {q \in Requests : phase'[q] = "accepted" /\ Exists(Target(q))'}
      BY <2>2, <2>3, <3>1, <3>2, <3>3 DEF NothingOrphaned, Exists
    <3>5. QED
      BY <2>2, <3>4 DEF NothingOrphaned, Exists
  <2>5. CASE ~Commit(r)
    <3>1. UNCHANGED stored /\ phase[r] # "accepted" /\ phase'[r] # "accepted"
      BY <2>1, <2>5 DEF IngestStep, Authorize, ReadProject, Write, Drop, Advance, rows
    <3>2. \A q \in Requests \ {r} : Target(q)' = Target(q)
      BY <2>3 DEF Target
    <3>3. stored' = {q \in Requests : phase'[q] = "accepted" /\ Exists(Target(q))'}
      BY <2>2, <2>3, <3>1, <3>2 DEF NothingOrphaned, Exists
    <3>4. QED
      BY <2>2, <3>3 DEF NothingOrphaned, Exists
  <2>6. QED
    BY <2>4, <2>5
<1>3. CASE Tick
  BY <1>3, OrphansFrame DEF Tick, ingests, Exists
<1>4. CASE UNCHANGED vars
  BY <1>4, OrphansFrame DEF vars, rows, ingests, Exists
<1>5. QED
  BY <1>1, <1>2, <1>3, <1>4, OrphansOfAdmin DEF Next

LEMMA BaseStep == Base /\ [Next]_vars => Base'
BY TypeStep, AtStep, RequestStep, OrphansStep DEF Base

-----------------------------------------------------------------------------
(* Purges. *)

LEMMA PurgeIsDueStep ==
    ASSUME Base, PurgeIsDue, [Next]_vars
    PROVE  PurgeIsDue'
<1> USE DEF Base, TypeOK
<1>1. CASE \E a \in Admins : AdminStep(a)
  <2>1. PICK a \in Admins : AdminStep(a)
    BY <1>1
  <2>2. CASE Begin(a)
    BY <2>2 DEF Begin, Goto, PurgeIsDue, rows, history, Exists
  <2>3. CASE Abandon(a) \/ RevokeAll(a) \/ CreateKey(a) \/ RevokeKey(a)
    <3>1. UNCHANGED <<project, wait>> /\ End(a)
      BY <2>3 DEF Abandon, RevokeAll, CreateKey, RevokeKey, rows
    <3>2. QED
      BY <3>1 DEF End, Goto, PurgeIsDue, Exists
  <2>4. CASE ArchiveProject(a)
    BY <2>4 DEF ArchiveProject, Goto, PurgeIsDue, AtInv, Exists
  <2>5. CASE RequestDeletion(a) \/ CancelDeletion(a)
    <3>1. /\ \A p \in ProjectIds \ {at[a]} : wait'[p] = wait[p]
          /\ overtaken' = overtaken \cup Purging(at[a])
          /\ step' = [step EXCEPT ![a] = "idle"]
          /\ at' = [at EXCEPT ![a] = None]
          /\ UNCHANGED project
      BY <2>5 DEF RequestDeletion, CancelDeletion, Goto
    <3>2. QED
      BY <3>1 DEF Purging, PurgeIsDue, AtInv, Exists
  <2>6. CASE CheckPurge(a)
    BY <2>6 DEF CheckPurge, Goto, PurgeIsDue, rows, history, Exists
  <2>7. CASE PurgeProject(a)
    <3>1. /\ \A p \in ProjectIds \ {at[a]} : wait'[p] = wait[p] /\ project'[p] = project[p]
          /\ at[a] \in ProjectIds => project'[at[a]] = "gone"
          /\ End(a)
      <4>1. Purge(a) /\ End(a)
        BY <2>7 DEF PurgeProject
      <4>2. \A p \in ProjectIds \ {at[a]} : wait'[p] = wait[p] /\ project'[p] = project[p]
        BY <4>1 DEF Purge
      <4>3. at[a] \in ProjectIds => project'[at[a]] = "gone"
        BY <4>1 DEF Purge
      <4>4. QED
        BY <4>1, <4>2, <4>3
    <3>2. QED
      BY <3>1 DEF End, Goto, PurgeIsDue, AtInv, Exists
  <2>8. QED
    BY <2>1, <2>2, <2>3, <2>4, <2>5, <2>6, <2>7 DEF AdminStep
<1>2. CASE \E p \in ProjectIds : CreateProject(p)
  BY <1>2 DEF CreateProject, admins, history, PurgeIsDue, AtInv, Exists
<1>3. CASE Tick
  BY <1>3 DEF Tick, admins, history, PurgeIsDue, AtInv, Exists
<1>4. CASE (\E r \in Requests : IngestStep(r)) \/ UNCHANGED vars
  <2>1. UNCHANGED <<project, wait, step, at, overtaken>>
    BY <1>4 DEF IngestStep, Authorize, ReadProject, Write, Commit, Drop, vars, rows, admins,
                history
  <2>2. QED
    BY <2>1 DEF PurgeIsDue, Exists
<1>5. QED
  BY <1>1, <1>2, <1>3, <1>4 DEF Next

-----------------------------------------------------------------------------
(* Archiving. *)

LEMMA BarredStep ==
    ASSUME Base, BarredInv, ArchivingStops, [Next]_vars
    PROVE  BarredInv' /\ ArchivingStops'
<1> USE DEF Base, TypeOK
<1>1. Forward
  BY ProjectsGoForward
<1>2. CASE \E r \in Requests : IngestStep(r)
  <2>1. PICK r \in Requests : IngestStep(r)
    BY <1>2
  <2>2. UNCHANGED <<project, barred>>
    BY <2>1 DEF IngestStep, Authorize, ReadProject, Write, Commit, Drop, rows, history
  <2>3. CASE Authorize(r)
    BY <2>2, <2>3 DEF Authorize, Advance, BarredInv, ArchivingStops, Target
  <2>4. CASE ReadProject(r) \/ Write(r) \/ Commit(r) \/ Drop(r)
    BY <2>2, <2>4 DEF ReadProject, Write, Commit, Drop, Advance, BarredInv, ArchivingStops,
                      Target
  <2>5. QED
    BY <2>1, <2>3, <2>4 DEF IngestStep
<1>3. CASE \E a \in Admins : ArchiveProject(a)
  <2>1. PICK a \in Admins : ArchiveProject(a)
    BY <1>3
  <2>2. at[a] \in ProjectIds /\ project[at[a]] # "new"
    BY <2>1 DEF ArchiveProject, AtInv
  <2>3. /\ project'[at[a]] # "active"
        /\ barred' = barred \cup Undecided(at[a])
        /\ UNCHANGED <<phase, with>>
    BY <2>1, <2>2 DEF ArchiveProject, ingests, Exists
  <2>4. \A q \in barred : phase[q] = "read" =>
            project[Target(q)] # "active" /\ Target(q) \in ProjectIds
           /\ project[Target(q)] # "new"
    BY DEF BarredInv, RequestInv, Target
  <2>5. QED
    BY <1>1, <2>3, <2>4 DEF Undecided, BarredInv, ArchivingStops, Target, Forward
<1>4. CASE /\ ~\E r \in Requests : IngestStep(r)
           /\ ~\E a \in Admins : ArchiveProject(a)
  <2>1. UNCHANGED <<phase, with, barred>>
    BY <1>4 DEF Next, CreateProject, AdminStep, Begin, Abandon, RevokeAll,
                CreateKey, RevokeKey, RequestDeletion, CancelDeletion, CheckPurge,
                PurgeProject, Tick, vars, ingests, history
  <2>2. \A q \in barred : phase[q] = "read" =>
            project[Target(q)] # "active" /\ Target(q) \in ProjectIds
           /\ project[Target(q)] # "new"
    BY DEF BarredInv, RequestInv, Target
  <2>3. QED
    BY <1>1, <2>1, <2>2 DEF BarredInv, ArchivingStops, Target, Forward
<1>5. QED
  BY <1>2, <1>3, <1>4

LEMMA ArchivedStep ==
    ASSUME Base, ArchivedIsRevoked, [Next]_vars
    PROVE  ArchivedIsRevoked'
<1> USE DEF Base, TypeOK
<1>1. CASE \E a \in Admins : AdminStep(a)
  <2>1. PICK a \in Admins : AdminStep(a)
    BY <1>1
  <2>2. CASE Begin(a) \/ CheckPurge(a) \/ RequestDeletion(a) \/ CancelDeletion(a)
    <3>1. UNCHANGED <<project, key, fresh, halfway>> /\ step[a] # "revoke all"
      BY <2>2 DEF Begin, CheckPurge, RequestDeletion, CancelDeletion, rows, history
    <3>2. \A b \in Admins \ {a} : step'[b] = step[b] /\ at'[b] = at[b]
      BY <2>2 DEF Begin, CheckPurge, RequestDeletion, CancelDeletion, Goto
    <3>3. \A b \in Admins : step[b] = "revoke all" => step'[b] = "revoke all" /\ at'[b] = at[b]
      BY <3>1, <3>2
    <3>4. /\ project' = project /\ key' = key
          /\ fresh' = fresh /\ halfway' = halfway
      BY <3>1
    <3>5. SUFFICES ASSUME NEW k \in Keys, project[ProjectOf[k]] = "archived",
                          key[k] = "live", k \notin fresh, ProjectOf[k] \notin halfway
                   PROVE  \E b \in Admins : step'[b] = "revoke all" /\ at'[b] = ProjectOf[k]
      BY <3>4 DEF ArchivedIsRevoked
    <3>6. PICK b \in Admins : step[b] = "revoke all" /\ at[b] = ProjectOf[k]
      BY <3>5 DEF ArchivedIsRevoked
    <3>7. QED
      BY <3>3, <3>6
  <2>3. CASE Abandon(a)
    BY <2>3 DEF Abandon, End, Goto, ArchivedIsRevoked, rows
  <2>4. CASE ArchiveProject(a)
    BY <2>4 DEF ArchiveProject, Goto, ArchivedIsRevoked, AtInv, Exists
  <2>5. CASE RevokeAll(a)
    BY <2>5 DEF RevokeAll, End, Goto, ArchivedIsRevoked
  <2>6. CASE CreateKey(a)
    BY <2>6 DEF CreateKey, KeysOf, End, Goto, ArchivedIsRevoked
  <2>7. CASE RevokeKey(a)
    BY <2>7 DEF RevokeKey, KeysOf, End, Goto, ArchivedIsRevoked
  <2>8. CASE PurgeProject(a)
    BY <2>8 DEF PurgeProject, Purge, End, Goto, ArchivedIsRevoked
  <2>9. QED
    BY <2>1, <2>2, <2>3, <2>4, <2>5, <2>6, <2>7, <2>8 DEF AdminStep
<1>2. CASE \E p \in ProjectIds : CreateProject(p)
  <2>1. PICK p \in ProjectIds : CreateProject(p)
    BY <1>2
  <2>2. UNCHANGED <<key, step, at, fresh, halfway>>
    BY <2>1 DEF CreateProject, admins, history
  <2>3. \A q \in ProjectIds : project'[q] = "archived" => project[q] = "archived"
    BY <2>1 DEF CreateProject
  <2>4. QED
    BY <2>2, <2>3 DEF ArchivedIsRevoked
<1>3. CASE (\E r \in Requests : IngestStep(r)) \/ Tick \/ UNCHANGED vars
  <2>1. UNCHANGED <<project, key, step, at, fresh, halfway>>
    BY <1>3 DEF IngestStep, Authorize, ReadProject, Write, Commit, Drop, Tick, vars, rows,
                admins, history
  <2>2. QED
    BY <2>1 DEF ArchivedIsRevoked
<1>4. QED
  BY <1>1, <1>2, <1>3 DEF Next

-----------------------------------------------------------------------------
(* The theorems. *)

LEMMA Invariance == Spec => []IInv
<1>1. IInv /\ [Next]_vars => IInv'
  BY BaseStep, PurgeIsDueStep, BarredStep, ArchivedStep DEF IInv
<1>2. QED
  BY InvInit, <1>1, PTL DEF Spec

\* Every variable keeps its type; a deletion never has more than the cooling-off
\* period to wait.
THEOREM ProjectsTyped == Spec => []TypeOK
<1>1. IInv => TypeOK
  BY DEF IInv, Base
<1>2. QED
  BY <1>1, Invariance, PTL

\* Whatever requests are in their transactions, a purge leaves nothing behind, and
\* an accepted event stays with its project.
THEOREM PurgesAreClean == Spec => []NothingOrphaned
<1>1. IInv => NothingOrphaned
  BY DEF IInv, Base
<1>2. QED
  BY <1>1, Invariance, PTL

\* A purge that was not overtaken by a change of the deletion request is due when
\* it deletes.
THEOREM PurgesAreDue == Spec => []PurgeIsDue
<1>1. IInv => PurgeIsDue
  BY DEF IInv
<1>2. QED
  BY <1>1, Invariance, PTL

\* A request that has not read its project when it is archived is refused.
THEOREM ArchivedProjectsRefuse == Spec => []ArchivingStops
<1>1. IInv => ArchivingStops
  BY DEF IInv
<1>2. QED
  BY <1>1, Invariance, PTL

\* The keys of an archived project are revoked, but for those made afterwards and
\* for an archiving that was cut short.
THEOREM ArchivingRevokesKeys == Spec => []ArchivedIsRevoked
<1>1. IInv => ArchivedIsRevoked
  BY DEF IInv
<1>2. QED
  BY <1>1, Invariance, PTL

=============================================================================
