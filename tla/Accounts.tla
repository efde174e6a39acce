------------------------------- MODULE Accounts -------------------------------
(***************************************************************************)
(* Accounts: the users of the organization, their sessions and invitations *)
(* in src/auth.rs and src/api.rs.                                          *)
(*                                                                         *)
(* A handler checks in one statement, a password or a session, and acts in *)
(* later ones, when what it found out may be true no more.  Only the       *)
(* acceptance of an invitation is a transaction.                           *)
(*                                                                         *)
(* A user is known by his e-mail address, which is unique in an            *)
(* organization, is never changed and never deleted.  There is one         *)
(* organization, as nothing makes another.  Passwords are left out: whoever *)
(* logs in knows his.  A session that has expired is as good as deleted.   *)
(***************************************************************************)
EXTENDS Integers

CONSTANTS
    Users,          \* e-mail addresses
    Bootstrap,      \* the user that ensure_bootstrap_admin makes
    Sessions,       \* logins, and the sessions they open
    Handlers,       \* requests of administrators
    Invitations,
    InviteeOf,      \* the user that each invitation is for
    Guests,         \* requests to accept an invitation
    None

ASSUME AccountsAssumption ==
    /\ Bootstrap \in Users
    /\ None \notin Users \cup Invitations
    /\ InviteeOf \in [Invitations -> Users]

VARIABLES
    \* rows
    role,       \* of each user, "none" without a row
    active,     \* the users that are active
    session,    \* "new", "checked" (the password was right), "open", "gone"
    owner,      \* the user of each session
    invite,     \* "new", "pending", "expired", "accepted"
    offer,      \* the role that an invitation is for
    \* administrators' handlers: the next statement, the caller, the user it is about
    step, by, on,
    \* accept_invitation: the next statement, the invitation
    phase, using,
    \* history
    doomed,     \* sessions that were open when their user was deactivated
    late,       \* sessions that were opened for a user who was not active
    halfway,    \* users whose deactivation ended after its first statement
    crossed,    \* an administrator lost that to one who had lost it before
    maker       \* the invitation that made each user

users    == <<role, active>>
logins   == <<session, owner>>
invites  == <<invite, offer>>
handlers == <<step, by, on>>
guests   == <<phase, using>>
history  == <<doomed, late, halfway, crossed, maker>>
vars == <<users, logins, invites, handlers, guests, history>>

-----------------------------------------------------------------------------
Roles == {"owner", "admin", "member"}
InvitationRoles == {"admin", "member"}
AdminRoles == {"owner", "admin"}

TypeOK ==
    /\ role \in [Users -> Roles \cup {"none"}]
    /\ active \in SUBSET Users
    /\ session \in [Sessions -> {"new", "checked", "open", "gone"}]
    /\ owner \in [Sessions -> Users \cup {None}]
    /\ invite \in [Invitations -> {"new", "pending", "expired", "accepted"}]
    /\ offer \in [Invitations -> InvitationRoles]
    /\ step \in [Handlers -> {"idle", "act", "delete sessions"}]
    /\ by \in [Handlers -> Users \cup {None}]
    /\ on \in [Handlers -> Users \cup {None}]
    /\ phase \in [Guests -> {"idle", "found", "locked", "inserted"}]
    /\ using \in [Guests -> Invitations \cup {None}]
    /\ doomed \in SUBSET Sessions
    /\ late \in SUBSET Sessions
    /\ halfway \in SUBSET Users
    /\ crossed \in BOOLEAN
    /\ maker \in [Users -> Invitations \cup {None}]

\* ensure_bootstrap_admin has run.  It changes nothing when it runs again.
Init ==
    /\ role = [u \in Users |-> IF u = Bootstrap THEN "owner" ELSE "none"]
    /\ active = {Bootstrap}
    /\ session = [s \in Sessions |-> "new"]
    /\ owner = [s \in Sessions |-> None]
    /\ invite = [i \in Invitations |-> "new"]
    /\ offer = [i \in Invitations |-> "member"]
    /\ step = [a \in Handlers |-> "idle"]
    /\ by = [a \in Handlers |-> None]
    /\ on = [a \in Handlers |-> None]
    /\ phase = [g \in Guests |-> "idle"]
    /\ using = [g \in Guests |-> None]
    /\ doomed = {} /\ late = {} /\ halfway = {} /\ crossed = FALSE
    /\ maker = [u \in Users |-> None]

\* require_admin
IsAdmin(u) == u \in active /\ role[u] \in AdminRoles

OpenOf(u) == {s \in Sessions : session[s] = "open" /\ owner[s] = u}

-----------------------------------------------------------------------------
(* Sessions. *)

\* login: the user is active, and the password is his.
CheckPassword(s) ==
    /\ session[s] = "new"
    /\ session' = [session EXCEPT ![s] = "checked"]
    /\ \E u \in active : owner' = [owner EXCEPT ![s] = u]
    /\ UNCHANGED <<users, invites, handlers, guests, history>>

OpenSession(s) ==
    /\ session[s] = "checked"
    /\ session' = [session EXCEPT ![s] = "open"]
    /\ late' = IF owner[s] \in active THEN late ELSE late \cup {s}
    /\ UNCHANGED <<users, owner, invites, handlers, guests, doomed, halfway, crossed, maker>>

\* The rows of the sessions S are deleted.
Delete(S) ==
    /\ session' = [s \in Sessions |-> IF s \in S THEN "gone" ELSE session[s]]
    /\ owner' = [s \in Sessions |-> IF s \in S THEN None ELSE owner[s]]
    /\ doomed' = doomed \ S
    /\ late' = late \ S

\* logout, the time of a session, or a login that ends early.
CloseSession(s) ==
    /\ session[s] \in {"checked", "open"}
    /\ Delete({s})
    /\ UNCHANGED <<users, invites, handlers, guests, halfway, crossed, maker>>

-----------------------------------------------------------------------------
(* Administration. *)

Finish(a) ==
    /\ step' = [step EXCEPT ![a] = "idle"]
    /\ by' = [by EXCEPT ![a] = None]
    /\ on' = [on EXCEPT ![a] = None]

\* current_admin
Begin(a) ==
    /\ step[a] = "idle"
    /\ \E s \in Sessions :
          /\ session[s] = "open" /\ IsAdmin(owner[s])
          /\ by' = [by EXCEPT ![a] = owner[s]]
    /\ step' = [step EXCEPT ![a] = "act"]
    /\ UNCHANGED <<users, logins, invites, on, guests, history>>

\* A refusal, an error or a crash.
Abandon(a) ==
    /\ step[a] # "idle"
    /\ halfway' = IF step[a] = "delete sessions" THEN halfway \cup {on[a]} ELSE halfway
    /\ Finish(a)
    /\ UNCHANGED <<users, logins, invites, guests, doomed, late, crossed, maker>>

\* The rows of the unique index on e-mail addresses that are not committed.
Inserting(u) == \E g \in Guests : phase[g] = "inserted" /\ InviteeOf[using[g]] = u

CreateUser(a) ==
    /\ step[a] = "act"
    /\ \E u \in Users, r \in Roles :
          /\ role[u] = "none" /\ ~Inserting(u)
          /\ role' = [role EXCEPT ![u] = r]
          /\ active' = active \cup {u}
    /\ Finish(a)
    /\ UNCHANGED <<logins, invites, guests, history>>

\* u gets role r, and is active afterwards or not.
ChangeUser(a, u, r, stays) ==
    /\ role' = [role EXCEPT ![u] = r]
    /\ active' = IF stays THEN active \cup {u} ELSE active \ {u}
    /\ crossed' = (crossed \/ (~IsAdmin(by[a]) /\ IsAdmin(u) /\ ~(stays /\ r \in AdminRoles)))
    /\ doomed' = IF stays THEN doomed ELSE doomed \cup OpenOf(u)
    /\ IF stays
       THEN Finish(a)
       ELSE /\ step' = [step EXCEPT ![a] = "delete sessions"]
            /\ on' = [on EXCEPT ![a] = u]
            /\ UNCHANGED by

\* Mutant of UpdateUser: the caller's own role is not looked at.
UpdateAnyone(a) ==
    /\ step[a] = "act"
    /\ \E u \in Users, r \in Roles, stays \in BOOLEAN :
          /\ role[u] # "none"
          /\ u = by[a] => stays \/ u \notin active
          /\ ChangeUser(a, u, r, stays)
    /\ UNCHANGED <<logins, invites, guests, late, halfway, maker>>

\* The caller may not deactivate himself or make himself a member, but a request
\* that leaves a column alone is not refused for what the column contains.
UpdateUser(a) ==
    /\ step[a] = "act"
    /\ \E u \in Users, r \in Roles, stays \in BOOLEAN :
          /\ role[u] # "none"
          /\ u = by[a] => /\ stays \/ u \notin active
                          /\ r = "member" => role[u] = "member"
          /\ ChangeUser(a, u, r, stays)
    /\ UNCHANGED <<logins, invites, guests, late, halfway, maker>>

\* Mutant of DeleteSessions: the sessions of the caller, not of the user.
DeleteOwnSessions(a) ==
    /\ step[a] = "delete sessions"
    /\ Delete(OpenOf(by[a]))
    /\ halfway' = halfway \ {on[a]}
    /\ Finish(a)
    /\ UNCHANGED <<users, invites, guests, crossed, maker>>

DeleteSessions(a) ==
    /\ step[a] = "delete sessions"
    /\ Delete(OpenOf(on[a]))
    /\ halfway' = halfway \ {on[a]}
    /\ Finish(a)
    /\ UNCHANGED <<users, invites, guests, crossed, maker>>

RevokeSession(a) ==
    /\ step[a] = "act"
    /\ \E s \in Sessions : session[s] = "open" /\ Delete({s})
    /\ Finish(a)
    /\ UNCHANGED <<users, invites, guests, halfway, crossed, maker>>

-----------------------------------------------------------------------------
(* Invitations. *)

\* The unique index has one invitation per user that was not accepted, expired or not.
Vacant(i) ==
    \A j \in Invitations : InviteeOf[j] = InviteeOf[i] => invite[j] \notin {"pending", "expired"}

\* Mutant of CreateInvitation: for any role that a user can have.
InviteOwner(a) ==
    /\ step[a] = "act"
    /\ \E i \in Invitations, r \in Roles :
          /\ invite[i] = "new" /\ Vacant(i)
          /\ invite' = [invite EXCEPT ![i] = "pending"]
          /\ offer' = [offer EXCEPT ![i] = r]
    /\ Finish(a)
    /\ UNCHANGED <<users, logins, guests, history>>

CreateInvitation(a) ==
    /\ step[a] = "act"
    /\ \E i \in Invitations, r \in InvitationRoles :
          /\ invite[i] = "new" /\ Vacant(i)
          /\ invite' = [invite EXCEPT ![i] = "pending"]
          /\ offer' = [offer EXCEPT ![i] = r]
    /\ Finish(a)
    /\ UNCHANGED <<users, logins, guests, history>>

Expire(i) ==
    /\ invite[i] = "pending"
    /\ invite' = [invite EXCEPT ![i] = "expired"]
    /\ UNCHANGED <<users, logins, offer, handlers, guests, history>>

\* The SELECT of accept_invitation finds a row; now() is the time of its transaction.
FindInvitation(g) ==
    /\ phase[g] = "idle"
    /\ phase' = [phase EXCEPT ![g] = "found"]
    /\ \E i \in Invitations :
          invite[i] = "pending" /\ using' = [using EXCEPT ![g] = i]
    /\ UNCHANGED <<users, logins, invites, handlers, history>>

\* The transaction ends without a change.
Rollback(g) ==
    /\ phase' = [phase EXCEPT ![g] = "idle"]
    /\ using' = [using EXCEPT ![g] = None]

Held(i) == \E g \in Guests : phase[g] \in {"locked", "inserted"} /\ using[g] = i

\* FOR UPDATE waits for the row, and looks at it again.
LockInvitation(g) ==
    /\ phase[g] = "found"
    /\ ~Held(using[g])
    /\ IF invite[using[g]] = "accepted"
       THEN Rollback(g)
       ELSE phase' = [phase EXCEPT ![g] = "locked"] /\ UNCHANGED using
    /\ UNCHANGED <<users, logins, invites, handlers, history>>

InsertUser(g) ==
    /\ phase[g] = "locked"
    /\ ~Inserting(InviteeOf[using[g]])
    /\ IF role[InviteeOf[using[g]]] = "none"
       THEN phase' = [phase EXCEPT ![g] = "inserted"] /\ UNCHANGED using
       ELSE Rollback(g)
    /\ UNCHANGED <<users, logins, invites, handlers, history>>

\* The new user.
Admit(i) ==
    /\ role' = [role EXCEPT ![InviteeOf[i]] = offer[i]]
    /\ active' = active \cup {InviteeOf[i]}
    /\ maker' = [maker EXCEPT ![InviteeOf[i]] = i]

\* Mutant of CommitInvitation: the invitation is not marked.
CommitUnmarked(g) ==
    /\ phase[g] = "inserted"
    /\ Admit(using[g])
    /\ Rollback(g)
    /\ UNCHANGED <<logins, invites, handlers, doomed, late, halfway, crossed>>

\* The UPDATE of its own, locked row, and the commit.
CommitInvitation(g) ==
    /\ phase[g] = "inserted"
    /\ Admit(using[g])
    /\ invite' = [invite EXCEPT ![using[g]] = "accepted"]
    /\ Rollback(g)
    /\ UNCHANGED <<logins, offer, handlers, doomed, late, halfway, crossed>>

Drop(g) ==
    /\ phase[g] # "idle"
    /\ Rollback(g)
    /\ UNCHANGED <<users, logins, invites, handlers, history>>

-----------------------------------------------------------------------------
LoginStep(s) ==
    \/ CheckPassword(s)
    \/ OpenSession(s)
    \/ CloseSession(s)

AdminStep(a) ==
    \/ Begin(a)
    \/ Abandon(a)
    \/ CreateUser(a)
    \/ UpdateUser(a)
    \/ DeleteSessions(a)
    \/ RevokeSession(a)
    \/ CreateInvitation(a)

GuestStep(g) ==
    \/ FindInvitation(g)
    \/ LockInvitation(g)
    \/ InsertUser(g)
    \/ CommitInvitation(g)
    \/ Drop(g)

Next ==
    \/ \E s \in Sessions : LoginStep(s)
    \/ \E a \in Handlers : AdminStep(a)
    \/ \E g \in Guests : GuestStep(g)
    \/ \E i \in Invitations : Expire(i)

Spec == Init /\ [][Next]_vars

-----------------------------------------------------------------------------
(* Properties. *)

\* The organization has an active administrator, unless one took that from
\* another after he had lost it himself: two who demote each other at once.
AdminRemains == crossed \/ \E u \in Users : IsAdmin(u)

\* The deactivation of u has yet to delete his sessions, or ended before it did.
Pending(u) ==
    u \in halfway \/ \E a \in Handlers : step[a] = "delete sessions" /\ on[a] = u

\* A deactivation ends the sessions that were open: none is there when the user is
\* activated again.  A user who is not active has a session only if the login had
\* checked his password before.
SessionsEnd ==
    \A s \in Sessions : session[s] = "open" =>
        /\ s \in doomed => Pending(owner[s])
        /\ owner[s] \in active \/ s \in late \/ Pending(owner[s])

\* An invitation is spent in the step that makes its user, and makes no other:
\* whoever accepts it at the same time, or accepts another one for that user, fails.
InvitationSpent ==
    \A i \in Invitations :
        /\ invite[i] = "accepted" <=> maker[InviteeOf[i]] = i
        /\ invite[i] = "accepted" => role[InviteeOf[i]] # "none"

=============================================================================
