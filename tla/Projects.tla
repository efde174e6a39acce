------------------------------- MODULE Projects -------------------------------
(***************************************************************************)
(* Projects: the life of a project and of its keys in src/api.rs, and what *)
(* ingestion makes of it.                                                  *)
(*                                                                         *)
(* The handlers authorize the caller and act in later statements, so that  *)
(* the project can be archived or purged in between, a deletion be put     *)
(* off, and a handler end early.                                           *)
(* Ingestion looks at the project three times: with the key, for the       *)
(* fields to scrub, and through the foreign keys of what it inserts.       *)
(*                                                                         *)
(* The confirmation of a deletion is left out: both the request and the    *)
(* purge demand the slug, and nothing changes a slug.  So is external_id,  *)
(* which create_project chooses under an advisory lock: ingestion needs it *)
(* beside a key, and the key alone determines the project.  The project    *)
(* and the key that the migrations insert are created here like others.    *)
(***************************************************************************)
EXTENDS Integers

CONSTANTS
    ProjectIds,     \* ids are random, and not used again
    Keys,           \* key_hash: random, so that no key is made twice
    ProjectOf,      \* the project that each key is made for
    Admins,         \* requests to administer a project
    Requests,       \* requests to store an event
    None,
    CoolingOff      \* ticks between a deletion request and its execution

ASSUME ProjectsAssumption ==
    /\ None \notin ProjectIds \cup Keys
    /\ ProjectOf \in [Keys -> ProjectIds]
    /\ CoolingOff \in Nat

VARIABLES
    \* rows
    project,    \* "new", "active", "archived", "gone"
    key,        \* "new", "live", "revoked", "gone"
    wait,       \* execute_after - now() of the deletion request, -1 without one
    stored,     \* the events, by the request that sent them
    \* handlers of administrators: the next statement, and the project
    step, at,
    \* ingestion: the next statement, and the key of the request
    phase, with,
    \* history
    overtaken,  \* purges whose request was changed after they looked at it
    fresh,      \* keys that were created for an archived project
    halfway,    \* projects whose archiving ended after its first statement
    barred      \* requests that had yet to look at a project when it was archived

rows    == <<project, key, wait, stored>>
admins  == <<step, at>>
ingests == <<phase, with>>
history == <<overtaken, fresh, halfway, barred>>
vars == <<rows, admins, ingests, history>>

-----------------------------------------------------------------------------
Steps == {"idle", "archive", "revoke all", "create key", "revoke key",
          "request", "cancel", "check", "purge"}
Phases == {"new", "read", "write", "commit", "accepted", "refused"}

TypeOK ==
    /\ project \in [ProjectIds -> {"new", "active", "archived", "gone"}]
    /\ key \in [Keys -> {"new", "live", "revoked", "gone"}]
    /\ wait \in [ProjectIds -> -1 .. CoolingOff]
    /\ stored \in SUBSET Requests
    /\ step \in [Admins -> Steps]
    /\ at \in [Admins -> ProjectIds \cup {None}]
    /\ phase \in [Requests -> Phases]
    /\ with \in [Requests -> Keys \cup {None}]
    /\ overtaken \in SUBSET Admins
    /\ fresh \in SUBSET Keys
    /\ halfway \in SUBSET ProjectIds
    /\ barred \in SUBSET Requests

Init ==
    /\ project = [p \in ProjectIds |-> "new"]
    /\ key = [k \in Keys |-> "new"]
    /\ wait = [p \in ProjectIds |-> -1]
    /\ stored = {}
    /\ step = [a \in Admins |-> "idle"]
    /\ at = [a \in Admins |-> None]
    /\ phase = [r \in Requests |-> "new"]
    /\ with = [r \in Requests |-> None]
    /\ overtaken = {} /\ fresh = {} /\ halfway = {} /\ barred = {}

Exists(p) == project[p] \in {"active", "archived"}
KeysOf(p) == {k \in Keys : ProjectOf[k] = p}
Target(r) == ProjectOf[with[r]]

-----------------------------------------------------------------------------
(* Administration. *)

Goto(a, s) == step' = [step EXCEPT ![a] = s]

\* A handler ends.
End(a) ==
    /\ Goto(a, "idle")
    /\ at' = [at EXCEPT ![a] = None]
    /\ overtaken' = overtaken \ {a}

\* create_project, whose transaction holds its lock until the row is committed.
CreateProject(p) ==
    /\ project[p] = "new"
    /\ project' = [project EXCEPT ![p] = "active"]
    /\ UNCHANGED <<key, wait, stored, admins, ingests, history>>

\* authorize_project: the project exists and belongs to the caller.
Begin(a) ==
    /\ step[a] = "idle"
    /\ \E p \in ProjectIds : Exists(p) /\ at' = [at EXCEPT ![a] = p]
    /\ \E s \in {"archive", "create key", "revoke key", "request", "cancel", "check"} :
          Goto(a, s)
    /\ UNCHANGED <<rows, ingests, history>>

\* A refusal, an error, a crash or a client that hangs up.
Abandon(a) ==
    /\ step[a] # "idle"
    /\ halfway' = IF step[a] = "revoke all" THEN halfway \cup {at[a]} ELSE halfway
    /\ End(a)
    /\ UNCHANGED <<rows, ingests, fresh, barred>>

\* The requests that still have to look at p.
Undecided(p) ==
    {r \in Requests : phase[r] = "read" /\ Target(r) = p}

ArchiveProject(a) ==
    /\ step[a] = "archive"
    /\ project' = [project EXCEPT ![at[a]] = IF Exists(at[a]) THEN "archived" ELSE @]
    /\ barred' = barred \cup Undecided(at[a])
    /\ Goto(a, "revoke all")
    /\ UNCHANGED <<key, wait, stored, at, ingests, overtaken, fresh, halfway>>

\* Mutant of RevokeAll: one key is enough.
RevokeOne(a) ==
    /\ step[a] = "revoke all"
    /\ IF \E k \in KeysOf(at[a]) : key[k] = "live"
       THEN \E k \in KeysOf(at[a]) : key[k] = "live" /\ key' = [key EXCEPT ![k] = "revoked"]
       ELSE UNCHANGED key
    /\ halfway' = halfway \ {at[a]}
    /\ End(a)
    /\ UNCHANGED <<project, wait, stored, ingests, fresh, barred>>

RevokeAll(a) ==
    /\ step[a] = "revoke all"
    /\ key' = [k \in Keys |-> IF ProjectOf[k] = at[a] /\ key[k] = "live"
                              THEN "revoked" ELSE key[k]]
    /\ halfway' = halfway \ {at[a]}
    /\ End(a)
    /\ UNCHANGED <<project, wait, stored, ingests, fresh, barred>>

\* The foreign key wants a project; that it is archived does not matter.
CreateKey(a) ==
    /\ step[a] = "create key"
    /\ Exists(at[a])
    /\ \E k \in KeysOf(at[a]) :
          /\ key[k] = "new"
          /\ key' = [key EXCEPT ![k] = "live"]
          /\ fresh' = IF project[at[a]] = "archived" THEN fresh \cup {k} ELSE fresh
    /\ End(a)
    /\ UNCHANGED <<project, wait, stored, ingests, halfway, barred>>

RevokeKey(a) ==
    /\ step[a] = "revoke key"
    /\ \E k \in KeysOf(at[a]) :
          key[k] = "live" /\ key' = [key EXCEPT ![k] = "revoked"]
    /\ End(a)
    /\ UNCHANGED <<project, wait, stored, ingests, fresh, halfway, barred>>

-----------------------------------------------------------------------------
(* Deletion. *)

\* The purges that have looked at the deletion request of p.
Purging(p) == {a \in Admins : step[a] = "purge" /\ at[a] = p}

\* Mutant of RequestDeletion: the hours are added to those that are left.
RequestMore(a) ==
    /\ step[a] = "request"
    /\ Exists(at[a])
    /\ wait' = [wait EXCEPT ![at[a]] = IF @ = -1 THEN CoolingOff ELSE @ + CoolingOff]
    /\ overtaken' = overtaken \cup Purging(at[a])
    /\ Goto(a, "idle")
    /\ at' = [at EXCEPT ![a] = None]
    /\ UNCHANGED <<project, key, stored, ingests, fresh, halfway, barred>>

\* ON CONFLICT puts an open request off.
RequestDeletion(a) ==
    /\ step[a] = "request"
    /\ Exists(at[a])
    /\ wait' = [wait EXCEPT ![at[a]] = CoolingOff]
    /\ Goto(a, "idle")
    /\ at' = [at EXCEPT ![a] = None]
    /\ overtaken' = overtaken \cup Purging(at[a])
    /\ UNCHANGED <<project, key, stored, ingests, fresh, halfway, barred>>

CancelDeletion(a) ==
    /\ step[a] = "cancel"
    /\ wait' = [wait EXCEPT ![at[a]] = -1]
    /\ Goto(a, "idle")
    /\ at' = [at EXCEPT ![a] = None]
    /\ overtaken' = overtaken \cup Purging(at[a])
    /\ UNCHANGED <<project, key, stored, ingests, fresh, halfway, barred>>

Tick ==
    /\ \E p \in ProjectIds : wait[p] > 0
    /\ wait' = [p \in ProjectIds |-> IF wait[p] > 0 THEN wait[p] - 1 ELSE wait[p]]
    /\ UNCHANGED <<project, key, stored, admins, ingests, history>>

\* Mutant of CheckPurge: a request is there, due or not.
CheckRequest(a) ==
    /\ step[a] = "check"
    /\ wait[at[a]] # -1
    /\ Goto(a, "purge")
    /\ UNCHANGED <<rows, at, ingests, history>>

\* The SELECT of purge_project.
CheckPurge(a) ==
    /\ step[a] = "check"
    /\ wait[at[a]] = 0
    /\ Goto(a, "purge")
    /\ UNCHANGED <<rows, at, ingests, history>>

\* The transactions that hold a lock on the row of p, through the foreign keys.
Writers(p) == {r \in Requests : phase[r] = "commit" /\ Target(r) = p}

\* The row and, by ON DELETE CASCADE, all that refers to it.
Purge(a) ==
    /\ project' = [project EXCEPT ![at[a]] = "gone"]
    /\ key' = [k \in Keys |-> IF ProjectOf[k] = at[a] /\ key[k] # "new"
                              THEN "gone" ELSE key[k]]
    /\ wait' = [wait EXCEPT ![at[a]] = -1]
    /\ stored' = {r \in stored : Target(r) # at[a]}

PurgeProject(a) ==
    /\ step[a] = "purge"
    /\ Writers(at[a]) = {}
    /\ Purge(a)
    /\ End(a)
    /\ UNCHANGED <<ingests, fresh, halfway, barred>>

-----------------------------------------------------------------------------
(* Ingestion. *)

Advance(r, s) == phase' = [phase EXCEPT ![r] = s]

\* authorize_project_key, with any key that a client may know.
Authorize(r) ==
    /\ phase[r] = "new"
    /\ \E k \in Keys :
          /\ key[k] # "new"
          /\ with' = [with EXCEPT ![r] = k]
          /\ Advance(r, IF key[k] = "live" /\ project[ProjectOf[k]] = "active"
                        THEN "read" ELSE "refused")
    /\ UNCHANGED <<rows, admins, history>>

\* Mutant of ReadProject: an archived project will do.
ReadAnyProject(r) ==
    /\ phase[r] = "read"
    /\ Advance(r, IF Exists(Target(r)) THEN "write" ELSE "refused")
    /\ UNCHANGED <<rows, admins, with, history>>

\* persist_event: the fields to scrub, of a project that is not archived.
ReadProject(r) ==
    /\ phase[r] = "read"
    /\ Advance(r, IF project[Target(r)] = "active" THEN "write" ELSE "refused")
    /\ UNCHANGED <<rows, admins, with, history>>

\* The transaction inserts rows that refer to the project.
Write(r) ==
    /\ phase[r] = "write"
    /\ Advance(r, IF Exists(Target(r)) THEN "commit" ELSE "refused")
    /\ UNCHANGED <<rows, admins, with, history>>

Commit(r) ==
    /\ phase[r] = "commit"
    /\ stored' = stored \cup {r}
    /\ Advance(r, "accepted")
    /\ UNCHANGED <<project, key, wait, admins, with, history>>

\* An error, a crash, or a deadlock with a purge.
Drop(r) ==
    /\ phase[r] \in {"read", "write", "commit"}
    /\ Advance(r, "refused")
    /\ UNCHANGED <<rows, admins, with, history>>

-----------------------------------------------------------------------------
AdminStep(a) ==
    \/ Begin(a)
    \/ Abandon(a)
    \/ ArchiveProject(a)
    \/ RevokeAll(a)
    \/ CreateKey(a)
    \/ RevokeKey(a)
    \/ RequestDeletion(a)
    \/ CancelDeletion(a)
    \/ CheckPurge(a)
    \/ PurgeProject(a)

IngestStep(r) ==
    \/ Authorize(r)
    \/ ReadProject(r)
    \/ Write(r)
    \/ Commit(r)
    \/ Drop(r)

Next ==
    \/ \E p \in ProjectIds : CreateProject(p)
    \/ \E a \in Admins : AdminStep(a)
    \/ \E r \in Requests : IngestStep(r)
    \/ Tick

Spec == Init /\ [][Next]_vars

-----------------------------------------------------------------------------
(* Properties. *)

\* What refers to a project goes with it: no key, deletion request or event is
\* left of a project that was purged, and an event that was accepted is there
\* as long as its project is.
NothingOrphaned ==
    /\ \A k \in Keys : key[k] \in {"live", "revoked"} => Exists(ProjectOf[k])
    /\ \A p \in ProjectIds : wait[p] # -1 => Exists(p)
    /\ stored = {r \in Requests : phase[r] = "accepted" /\ Exists(Target(r))}

\* A project is purged only while a request for it is due, unless the request was
\* cancelled or put off after the purge had looked at it.
PurgeIsDue ==
    \A a \in Admins :
        step[a] = "purge" /\ Exists(at[a]) /\ a \notin overtaken => wait[at[a]] = 0

\* A request that was authorized before its project was archived, and had not
\* read the project by then, is refused.  (The requests are events: of a log
\* record or another raw item the project is not read again.)
ArchivingStops ==
    \A r \in barred : phase[r] \in {"read", "refused"}

\* A key of an archived project is live only if it was made afterwards, or if
\* the archiving is not, or never was, completed.
ArchivedIsRevoked ==
    \A k \in Keys :
        project[ProjectOf[k]] = "archived" /\ key[k] = "live" =>
            \/ k \in fresh
            \/ ProjectOf[k] \in halfway
            \/ \E a \in Admins : step[a] = "revoke all" /\ at[a] = ProjectOf[k]

=============================================================================
