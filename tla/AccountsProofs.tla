---------------------------- MODULE AccountsProofs ----------------------------
(***************************************************************************)
(* Proofs about Accounts, for any number of users, sessions, handlers and  *)
(* invitations.                                                            *)
(***************************************************************************)
EXTENDS Accounts, TLAPS

USE AccountsAssumption

\* What each variable says about the others, row by row.
RowInv ==
    /\ \A u \in active : role[u] # "none"
    /\ \A s \in Sessions : session[s] \in {"checked", "open"} => owner[s] \in Users
    /\ \A s \in doomed : session[s] = "open"

\* A handler has a caller, and one that is about to delete sessions has a user.
HandlerInv ==
    \A a \in Handlers :
        /\ step[a] = "act" => by[a] \in Users
        /\ step[a] = "delete sessions" => on[a] \in Users

\* A guest has an invitation.  While his user is inserted, there is no other with
\* that address, committed or not.
GuestInv ==
    /\ \A g \in Guests : phase[g] # "idle" => using[g] \in Invitations
    /\ \A g \in Guests : phase[g] = "inserted" => role[InviteeOf[using[g]]] = "none"
    /\ \A g, h \in Guests :
          /\ phase[g] = "inserted" /\ phase[h] = "inserted"
          /\ InviteeOf[using[g]] = InviteeOf[using[h]]
          => g = h

Base == TypeOK /\ RowInv /\ HandlerInv /\ GuestInv

IInv == Base /\ AdminRemains /\ SessionsEnd /\ InvitationSpent

-----------------------------------------------------------------------------
LEMMA InvInit == Init => IInv
<1> SUFFICES ASSUME Init PROVE IInv
  OBVIOUS
<1>1. TypeOK
  BY DEF Init, TypeOK, Roles, InvitationRoles
<1>2. RowInv /\ HandlerInv /\ GuestInv
  BY DEF Init, RowInv, HandlerInv, GuestInv
<1>3. AdminRemains
  BY DEF Init, AdminRemains, IsAdmin, AdminRoles
<1>4. SessionsEnd /\ InvitationSpent
  BY DEF Init, SessionsEnd, InvitationSpent
<1>5. QED
  BY <1>1, <1>2, <1>3, <1>4 DEF IInv, Base

-----------------------------------------------------------------------------
(* Types. *)

LEMMA FinishType ==
    ASSUME TypeOK, NEW a \in Handlers, Finish(a)
    PROVE  /\ step' \in [Handlers -> {"idle", "act", "delete sessions"}]
           /\ by' \in [Handlers -> Users \cup {None}]
           /\ on' \in [Handlers -> Users \cup {None}]
BY DEF TypeOK, Finish

LEMMA DeleteType ==
    ASSUME TypeOK, NEW S, Delete(S)
    PROVE  /\ session' \in [Sessions -> {"new", "checked", "open", "gone"}]
           /\ owner' \in [Sessions -> Users \cup {None}]
           /\ doomed' \in SUBSET Sessions
           /\ late' \in SUBSET Sessions
BY DEF TypeOK, Delete

LEMMA RollbackType ==
    ASSUME TypeOK, NEW g \in Guests, Rollback(g)
    PROVE  /\ phase' \in [Guests -> {"idle", "found", "locked", "inserted"}]
           /\ using' \in [Guests -> Invitations \cup {None}]
BY DEF TypeOK, Rollback

LEMMA TypeOfLogin ==
    ASSUME TypeOK, NEW s \in Sessions, LoginStep(s)
    PROVE  TypeOK'
<1> USE DEF TypeOK
<1>1. CASE CheckPassword(s)
  <2>1. PICK u \in active : owner' = [owner EXCEPT ![s] = u]
    BY <1>1 DEF CheckPassword
  <2>2. owner' \in [Sessions -> Users \cup {None}]
    BY <2>1
  <2>3. session' \in [Sessions -> {"new", "checked", "open", "gone"}]
    BY <1>1 DEF CheckPassword
  <2>4. QED
    BY <1>1, <2>2, <2>3 DEF CheckPassword, users, invites, handlers, guests, history
<1>2. CASE OpenSession(s)
  BY <1>2 DEF OpenSession, users, invites, handlers, guests
<1>3. CASE CloseSession(s)
  <2>1. Delete({s})
    BY <1>3 DEF CloseSession
  <2>2. QED
    BY <1>3, <2>1, DeleteType DEF CloseSession, users, invites, handlers, guests
<1>4. QED
  BY <1>1, <1>2, <1>3 DEF LoginStep

LEMMA TypeOfUpdate ==
    ASSUME TypeOK, HandlerInv, NEW a \in Handlers, UpdateUser(a)
    PROVE  TypeOK'
<1>1. PICK u \in Users, r \in Roles, stays \in BOOLEAN : ChangeUser(a, u, r, stays)
  BY DEF UpdateUser
<1> USE DEF TypeOK
<1>2. role' \in [Users -> Roles \cup {"none"}] /\ active' \in SUBSET Users
  BY <1>1 DEF ChangeUser
<1>3. crossed' \in BOOLEAN
  BY <1>1 DEF ChangeUser, IsAdmin
<1>4. doomed' \in SUBSET Sessions
  BY <1>1 DEF ChangeUser, OpenOf
<1>5. /\ step' \in [Handlers -> {"idle", "act", "delete sessions"}]
      /\ by' \in [Handlers -> Users \cup {None}]
      /\ on' \in [Handlers -> Users \cup {None}]
  <2>1. CASE stays
    BY <1>1, <2>1, FinishType DEF ChangeUser
  <2>2. CASE ~stays
    <3>1. /\ step' = [step EXCEPT ![a] = "delete sessions"]
          /\ on' = [on EXCEPT ![a] = u]
          /\ by' = by
      BY <1>1, <2>2 DEF ChangeUser
    <3>2. QED
      BY <3>1
  <2>3. QED
    BY <2>1, <2>2
<1>6. QED
  BY <1>2, <1>3, <1>4, <1>5 DEF UpdateUser, logins, invites, guests

LEMMA TypeOfAdmin ==
    ASSUME TypeOK, HandlerInv, NEW a \in Handlers, AdminStep(a)
    PROVE  TypeOK'
<1> USE DEF TypeOK
<1>1. CASE Begin(a)
  <2>1. PICK s \in Sessions : IsAdmin(owner[s]) /\ by' = [by EXCEPT ![a] = owner[s]]
    BY <1>1 DEF Begin
  <2>2. by' \in [Handlers -> Users \cup {None}]
    BY <2>1 DEF IsAdmin
  <2>3. QED
    BY <1>1, <2>2 DEF Begin, users, logins, invites, guests, history
<1>2. CASE Abandon(a)
  BY <1>2, FinishType DEF Abandon, HandlerInv, users, logins, invites, guests
<1>3. CASE CreateUser(a)
  <2>1. PICK u \in Users, r \in Roles :
            role' = [role EXCEPT ![u] = r] /\ active' = active \cup {u}
    BY <1>3 DEF CreateUser
  <2>2. role' \in [Users -> Roles \cup {"none"}] /\ active' \in SUBSET Users
    BY <2>1
  <2>3. QED
    BY <1>3, <2>2, FinishType DEF CreateUser, logins, invites, guests, history
<1>4. CASE DeleteSessions(a)
  BY <1>4, FinishType, DeleteType DEF DeleteSessions, users, invites, guests
<1>5. CASE RevokeSession(a)
  BY <1>5, FinishType, DeleteType DEF RevokeSession, users, invites, guests
<1>6. CASE CreateInvitation(a)
  <2>1. PICK i \in Invitations, r \in InvitationRoles :
            /\ invite' = [invite EXCEPT ![i] = "pending"]
            /\ offer' = [offer EXCEPT ![i] = r]
    BY <1>6 DEF CreateInvitation
  <2>2. /\ invite' \in [Invitations -> {"new", "pending", "expired", "accepted"}]
        /\ offer' \in [Invitations -> InvitationRoles]
    BY <2>1
  <2>3. QED
    BY <1>6, <2>2, FinishType DEF CreateInvitation, users, logins, guests, history
<1>7. QED
  BY <1>1, <1>2, <1>3, <1>4, <1>5, <1>6, TypeOfUpdate DEF AdminStep

LEMMA TypeOfGuest ==
    ASSUME TypeOK, GuestInv, NEW g \in Guests, GuestStep(g)
    PROVE  TypeOK'
<1> USE DEF TypeOK
<1>1. CASE FindInvitation(g)
  <2>1. PICK i \in Invitations : using' = [using EXCEPT ![g] = i]
    BY <1>1 DEF FindInvitation
  <2>2. using' \in [Guests -> Invitations \cup {None}]
    BY <2>1
  <2>3. phase' \in [Guests -> {"idle", "found", "locked", "inserted"}]
    BY <1>1 DEF FindInvitation
  <2>4. QED
    BY <1>1, <2>2, <2>3 DEF FindInvitation, users, logins, invites, handlers, history
<1>2. CASE LockInvitation(g)
  BY <1>2, RollbackType DEF LockInvitation, users, logins, invites, handlers, history
<1>3. CASE InsertUser(g)
  BY <1>3, RollbackType DEF InsertUser, users, logins, invites, handlers, history
<1>4. CASE CommitInvitation(g)
  <2>1. using[g] \in Invitations /\ Admit(using[g]) /\ Rollback(g)
    BY <1>4 DEF CommitInvitation, GuestInv
  <2>2. /\ role' \in [Users -> Roles \cup {"none"}]
        /\ active' \in SUBSET Users
        /\ maker' \in [Users -> Invitations \cup {None}]
    <3>1. offer[using[g]] \in Roles \cup {"none"} /\ InviteeOf[using[g]] \in Users
      BY <2>1 DEF InvitationRoles, Roles
    <3>2. QED
      BY <2>1, <3>1 DEF Admit
  <2>3. invite' \in [Invitations -> {"new", "pending", "expired", "accepted"}]
    BY <1>4 DEF CommitInvitation
  <2>4. QED
    BY <1>4, <2>1, <2>2, <2>3, RollbackType DEF CommitInvitation, logins, handlers
<1>5. CASE Drop(g)
  BY <1>5, RollbackType DEF Drop, users, logins, invites, handlers, history
<1>6. QED
  BY <1>1, <1>2, <1>3, <1>4, <1>5 DEF GuestStep

LEMMA TypeStep == Base /\ [Next]_vars => TypeOK'
<1> SUFFICES ASSUME Base, [Next]_vars PROVE TypeOK'
  OBVIOUS
<1> USE DEF Base
<1>1. CASE \E i \in Invitations : Expire(i)
  BY <1>1 DEF TypeOK, Expire, users, logins, handlers, guests, history
<1>2. CASE UNCHANGED vars
  BY <1>2 DEF TypeOK, vars, users, logins, invites, handlers, guests, history
<1>3. QED
  BY <1>1, <1>2, TypeOfLogin, TypeOfAdmin, TypeOfGuest DEF Next

-----------------------------------------------------------------------------
(* What the steps do to users. *)

\* The steps that change a user.
ChangesUsers ==
    \/ \E a \in Handlers : CreateUser(a) \/ UpdateUser(a)
    \/ \E g \in Guests : CommitInvitation(g)

LEMMA UsersFrame ==
    ASSUME [Next]_vars, ~ChangesUsers
    PROVE  UNCHANGED users /\ crossed' = crossed
BY DEF ChangesUsers, Next, LoginStep, CheckPassword, OpenSession, CloseSession,
       AdminStep, Begin, Abandon, DeleteSessions, RevokeSession, CreateInvitation,
       GuestStep, FindInvitation, LockInvitation, InsertUser, Drop, Expire, vars, history

\* A user is made who was not there, and is active.
Makes(u) ==
    /\ role[u] = "none"
    /\ \E r \in Roles : role' = [role EXCEPT ![u] = r]
    /\ active' = active \cup {u}
    /\ crossed' = crossed

LEMMA CreateMakes ==
    ASSUME NEW a \in Handlers, CreateUser(a)
    PROVE  \E u \in Users : Makes(u) /\ ~Inserting(u)
BY DEF CreateUser, Makes, history

LEMMA UpdateChanges ==
    ASSUME NEW a \in Handlers, UpdateUser(a)
    PROVE  /\ step[a] = "act"
           /\ late' = late
           /\ \E u \in Users, r \in Roles, stays \in BOOLEAN :
                 /\ role[u] # "none"
                 /\ u = by[a] => /\ stays \/ u \notin active
                                 /\ r = "member" => role[u] = "member"
                 /\ ChangeUser(a, u, r, stays)
BY DEF UpdateUser

LEMMA CommitMakes ==
    ASSUME Base, NEW g \in Guests, CommitInvitation(g)
    PROVE  using[g] \in Invitations /\ Makes(InviteeOf[using[g]])
<1>1. using[g] \in Invitations
  BY DEF CommitInvitation, Base, GuestInv
<1>2. offer[using[g]] \in Roles
  BY <1>1 DEF Base, TypeOK, Roles, InvitationRoles
<1>3. Admit(using[g]) /\ phase[g] = "inserted" /\ crossed' = crossed
  BY DEF CommitInvitation
<1>4. QED
  BY <1>1, <1>2, <1>3 DEF Makes, Admit, Base, GuestInv

-----------------------------------------------------------------------------
(* Rows. *)

LEMMA ActiveStep ==
    ASSUME Base, [Next]_vars
    PROVE  \A u \in active' : role'[u] # "none"
<1> USE DEF Base, TypeOK
<1>1. CASE \E u \in Users : Makes(u)
  <2>1. PICK u \in Users : Makes(u)
    BY <1>1
  <2>2. PICK r \in Roles : role' = [role EXCEPT ![u] = r]
    BY <2>1 DEF Makes
  <2>3. role'[u] # "none" /\ \A v \in Users \ {u} : role'[v] = role[v]
    BY <2>2 DEF Roles
  <2>4. active' = active \cup {u}
    BY <2>1 DEF Makes
  <2>5. QED
    BY <2>3, <2>4 DEF RowInv
<1>2. CASE \E a \in Handlers : UpdateUser(a)
  <2>1. PICK a \in Handlers : UpdateUser(a)
    BY <1>2
  <2>2. PICK u \in Users, r \in Roles, stays \in BOOLEAN : ChangeUser(a, u, r, stays)
    BY ONLY <2>1, UpdateChanges
  <2>3. role' = [role EXCEPT ![u] = r]
    BY <2>2 DEF ChangeUser
  <2>4. role'[u] # "none" /\ \A v \in Users \ {u} : role'[v] = role[v]
    BY <2>3 DEF Roles
  <2>5. \A v \in active' : v \in active \/ v = u
    BY <2>2 DEF ChangeUser
  <2>6. QED
    BY <2>4, <2>5 DEF RowInv
<1>3. CASE ~ChangesUsers
  BY <1>3, UsersFrame DEF users, RowInv
<1>4. QED
  BY <1>1, <1>2, <1>3, CreateMakes, CommitMakes DEF ChangesUsers

\* Sessions are opened by logins only, and deleted by many; only the deactivation of
\* their user dooms them.
LEMMA SessionsFrame ==
    ASSUME TypeOK, [Next]_vars,
           ~\E s \in Sessions : CheckPassword(s) \/ OpenSession(s),
           ~\E a \in Handlers : UpdateUser(a)
    PROVE  /\ \A s \in Sessions : session'[s] \in {"checked", "open"} =>
                  /\ session'[s] = session[s] /\ owner'[s] = owner[s]
                  /\ s \in late => s \in late'
           /\ \A s \in doomed' : s \in doomed /\ session'[s] = session[s]
<1> USE DEF TypeOK
<1>1. ASSUME NEW S \in SUBSET Sessions, Delete(S)
      PROVE  /\ \A s \in Sessions : session'[s] \in {"checked", "open"} =>
                    /\ session'[s] = session[s] /\ owner'[s] = owner[s]
                    /\ s \in late => s \in late'
             /\ \A s \in doomed' : s \in doomed /\ session'[s] = session[s]
  <2>1. \A s \in Sessions : /\ session'[s] = IF s \in S THEN "gone" ELSE session[s]
                            /\ owner'[s] = IF s \in S THEN None ELSE owner[s]
    BY <1>1 DEF Delete
  <2>2. late' = late \ S /\ doomed' = doomed \ S
    BY <1>1 DEF Delete
  <2>3. QED
    BY <2>1, <2>2
<1>2. CASE UNCHANGED <<session, owner, late, doomed>>
  BY <1>2
<1>3. CASE \E s \in Sessions : LoginStep(s)
  <2>1. PICK s \in Sessions : CloseSession(s)
    BY <1>3 DEF LoginStep
  <2>2. {s} \in SUBSET Sessions /\ Delete({s})
    BY <2>1 DEF CloseSession
  <2>3. QED
    BY <1>1, <2>2
<1>4. CASE \E a \in Handlers : AdminStep(a)
  <2>1. PICK a \in Handlers : AdminStep(a)
    BY <1>4
  <2>2. CASE DeleteSessions(a)
    <3>1. OpenOf(on[a]) \in SUBSET Sessions /\ Delete(OpenOf(on[a]))
      BY <2>2 DEF DeleteSessions, OpenOf
    <3>2. QED
      BY <1>1, <3>1
  <2>3. CASE RevokeSession(a)
    <3>1. PICK s \in Sessions : Delete({s})
      BY <2>3 DEF RevokeSession
    <3>2. {s} \in SUBSET Sessions
      OBVIOUS
    <3>3. QED
      BY <1>1, <3>1, <3>2
  <2>4. CASE ~DeleteSessions(a) /\ ~RevokeSession(a)
    <3>1. UNCHANGED <<session, owner, late, doomed>>
      BY <2>1, <2>4 DEF AdminStep, Begin, Abandon, CreateUser, CreateInvitation, logins, history
    <3>2. QED
      BY <1>2, <3>1
  <2>5. QED
    BY <2>2, <2>3, <2>4
<1>5. CASE (\E g \in Guests : GuestStep(g)) \/ (\E i \in Invitations : Expire(i))
           \/ UNCHANGED vars
  <2>1. UNCHANGED <<session, owner, late, doomed>>
    BY <1>5 DEF GuestStep, FindInvitation, LockInvitation, InsertUser, CommitInvitation, Drop,
                Expire, vars, logins, history
  <2>2. QED
    BY <1>2, <2>1
<1>6. QED
  BY <1>3, <1>4, <1>5 DEF Next

\* A deactivation, as far as sessions are concerned.
LEMMA UpdateFrame ==
    ASSUME NEW a \in Handlers, UpdateUser(a)
    PROVE  UNCHANGED <<session, owner, late, halfway>>
BY DEF UpdateUser, logins

LEMMA SessionRowStep ==
    ASSUME Base, [Next]_vars
    PROVE  /\ \A s \in Sessions : session'[s] \in {"checked", "open"} => owner'[s] \in Users
           /\ \A s \in doomed' : session'[s] = "open"
<1> USE DEF Base, TypeOK
<1>1. CASE \E s \in Sessions : CheckPassword(s)
  <2>1. PICK s \in Sessions : CheckPassword(s)
    BY <1>1
  <2>2. PICK u \in active : owner' = [owner EXCEPT ![s] = u]
    BY <2>1 DEF CheckPassword
  <2>3. session' = [session EXCEPT ![s] = "checked"] /\ session[s] = "new" /\ doomed' = doomed
    BY <2>1 DEF CheckPassword, history
  <2>4. QED
    BY <2>2, <2>3 DEF RowInv
<1>2. CASE \E s \in Sessions : OpenSession(s)
  BY <1>2 DEF OpenSession, RowInv
<1>3. CASE \E a \in Handlers : UpdateUser(a)
  <2>1. PICK a \in Handlers : UpdateUser(a)
    BY <1>3
  <2>2. PICK u \in Users, r \in Roles, stays \in BOOLEAN : ChangeUser(a, u, r, stays)
    BY ONLY <2>1, UpdateChanges
  <2>3. \A s \in doomed' : session[s] = "open"
    BY <2>2 DEF ChangeUser, OpenOf, RowInv
  <2>4. QED
    BY <2>1, <2>3, UpdateFrame DEF RowInv
<1>4. CASE /\ ~\E s \in Sessions : CheckPassword(s) \/ OpenSession(s)
           /\ ~\E a \in Handlers : UpdateUser(a)
  BY <1>4, SessionsFrame DEF RowInv
<1>5. QED
  BY <1>1, <1>2, <1>3, <1>4

LEMMA RowStep == Base /\ [Next]_vars => RowInv'
BY ActiveStep, SessionRowStep DEF RowInv

-----------------------------------------------------------------------------
(* Handlers and guests. *)

LEMMA HandlerStep ==
    ASSUME Base, [Next]_vars
    PROVE  HandlerInv'
<1> USE DEF Base, TypeOK
<1>1. CASE \E a \in Handlers : AdminStep(a)
  <2>1. PICK a \in Handlers : AdminStep(a)
    BY <1>1
  <2>2. CASE Begin(a)
    <3>1. PICK s \in Sessions : IsAdmin(owner[s]) /\ by' = [by EXCEPT ![a] = owner[s]]
      BY <2>2 DEF Begin
    <3>2. owner[s] \in Users
      BY <3>1 DEF IsAdmin
    <3>3. step' = [step EXCEPT ![a] = "act"] /\ on' = on
      BY <2>2 DEF Begin
    <3>4. QED
      BY <3>1, <3>2, <3>3 DEF HandlerInv
  <2>3. CASE UpdateUser(a)
    <3>1. PICK u \in Users, r \in Roles, stays \in BOOLEAN : ChangeUser(a, u, r, stays)
      BY ONLY <2>3, UpdateChanges
    <3>2. CASE stays
      <4>1. Finish(a)
        BY <3>1, <3>2 DEF ChangeUser
      <4>2. QED
        BY <4>1 DEF Finish, HandlerInv
    <3>3. CASE ~stays
      BY <3>1, <3>3 DEF ChangeUser, HandlerInv
    <3>4. QED
      BY <3>2, <3>3
  <2>4. CASE ~Begin(a) /\ ~UpdateUser(a)
    <3>1. Finish(a)
      BY <2>1, <2>4 DEF AdminStep, Abandon, CreateUser, DeleteSessions, RevokeSession,
                        CreateInvitation
    <3>2. QED
      BY <3>1 DEF Finish, HandlerInv
  <2>5. QED
    BY <2>2, <2>3, <2>4
<1>2. CASE ~\E a \in Handlers : AdminStep(a)
  <2>1. UNCHANGED handlers
    BY <1>2 DEF Next, LoginStep, CheckPassword, OpenSession, CloseSession, GuestStep,
                FindInvitation, LockInvitation, InsertUser, CommitInvitation, Drop, Expire, vars
  <2>2. QED
    BY <2>1 DEF handlers, HandlerInv
<1>3. QED
  BY <1>1, <1>2

\* A user who is inserted stays without a row for everybody else.
LEMMA NobodyElse ==
    ASSUME Base, [Next]_vars, NEW g \in Guests, phase[g] = "inserted",
           ~CommitInvitation(g)
    PROVE  role'[InviteeOf[using[g]]] = "none"
<1> USE DEF Base, TypeOK
<1> DEFINE v == InviteeOf[using[g]]
<1>1. v \in Users /\ role[v] = "none"
  BY DEF GuestInv
<1>2. CASE \E a \in Handlers : CreateUser(a)
  <2>1. PICK u \in Users : Makes(u) /\ ~Inserting(u)
    BY <1>2, CreateMakes
  <2>2. u # v
    BY <2>1 DEF Inserting
  <2>3. QED
    BY <1>1, <2>1, <2>2 DEF Makes
<1>3. CASE \E h \in Guests : CommitInvitation(h)
  <2>1. PICK h \in Guests : CommitInvitation(h)
    BY <1>3
  <2>2. Makes(InviteeOf[using[h]])
    BY <2>1, CommitMakes
  <2>3. InviteeOf[using[h]] # v
    BY <2>1 DEF CommitInvitation, GuestInv
  <2>4. QED
    BY <1>1, <2>2, <2>3 DEF Makes
<1>4. CASE \E a \in Handlers : UpdateUser(a)
  <2>1. PICK a \in Handlers : UpdateUser(a)
    BY <1>4
  <2>2. PICK u \in Users, r \in Roles, stays \in BOOLEAN :
            role[u] # "none" /\ ChangeUser(a, u, r, stays)
    BY ONLY <2>1, UpdateChanges
  <2>3. role' = [role EXCEPT ![u] = r] /\ u # v
    BY <1>1, <2>2 DEF ChangeUser
  <2>4. QED
    BY <1>1, <2>3
<1>5. CASE ~ChangesUsers
  BY <1>1, <1>5, UsersFrame DEF users
<1>6. QED
  BY <1>2, <1>3, <1>4, <1>5 DEF ChangesUsers

\* A step of a guest that does not insert his user.
LEMMA GuestFrame ==
    ASSUME TypeOK, GuestInv, NEW g \in Guests,
           \A h \in Guests \ {g} : phase'[h] = phase[h] /\ using'[h] = using[h],
           phase'[g] # "inserted",
           phase'[g] # "idle" => using'[g] \in Invitations,
           \A h \in Guests \ {g} : phase[h] = "inserted" => role'[InviteeOf[using[h]]] = "none"
    PROVE  GuestInv'
<1>1. \A h \in Guests : phase'[h] = "inserted" =>
          h # g /\ phase[h] = "inserted" /\ using'[h] = using[h]
  OBVIOUS
<1>2. \A h \in Guests : phase'[h] # "idle" => using'[h] \in Invitations
  BY DEF GuestInv
<1>3. \A h \in Guests : phase'[h] = "inserted" => role'[InviteeOf[using'[h]]] = "none"
  BY <1>1
<1>4. \A h, k \in Guests :
          /\ phase'[h] = "inserted" /\ phase'[k] = "inserted"
          /\ InviteeOf[using'[h]] = InviteeOf[using'[k]]
          => h = k
  BY <1>1 DEF GuestInv
<1>5. QED
  BY <1>2, <1>3, <1>4 DEF GuestInv

LEMMA GuestStepInv ==
    ASSUME Base, [Next]_vars
    PROVE  GuestInv'
<1> USE DEF Base, TypeOK
<1>1. CASE \E g \in Guests : GuestStep(g)
  <2>1. PICK g \in Guests : GuestStep(g)
    BY <1>1
  <2>2. CASE FindInvitation(g)
    <3>1. PICK i \in Invitations : using' = [using EXCEPT ![g] = i]
      BY <2>2 DEF FindInvitation
    <3>2. phase' = [phase EXCEPT ![g] = "found"] /\ role' = role
      BY <2>2 DEF FindInvitation, users
    <3>3. /\ \A h \in Guests \ {g} : phase'[h] = phase[h] /\ using'[h] = using[h]
          /\ phase'[g] = "found" /\ using'[g] \in Invitations
      BY <3>1, <3>2
    <3>4. QED
      BY <3>2, <3>3, GuestFrame DEF GuestInv
  <2>3. CASE Rollback(g) /\ role' = role
    <3>1. /\ \A h \in Guests \ {g} : phase'[h] = phase[h] /\ using'[h] = using[h]
          /\ phase'[g] = "idle"
      BY <2>3 DEF Rollback
    <3>2. QED
      BY <2>3, <3>1, GuestFrame DEF GuestInv
  <2>4. CASE phase[g] # "idle" /\ phase' = [phase EXCEPT ![g] = "locked"]
             /\ using' = using /\ role' = role
    <3>1. /\ \A h \in Guests \ {g} : phase'[h] = phase[h] /\ using'[h] = using[h]
          /\ phase'[g] = "locked" /\ using'[g] \in Invitations
      BY <2>4 DEF GuestInv
    <3>2. QED
      BY <2>4, <3>1, GuestFrame DEF GuestInv
  <2>5. CASE InsertUser(g) /\ ~Rollback(g)
    <3>1. /\ phase[g] = "locked" /\ phase' = [phase EXCEPT ![g] = "inserted"]
          /\ using' = using /\ role' = role
          /\ role[InviteeOf[using[g]]] = "none" /\ ~Inserting(InviteeOf[using[g]])
      BY <2>5 DEF InsertUser, users
    <3>2. \A h \in Guests : phase[h] = "inserted" =>
              InviteeOf[using[h]] # InviteeOf[using[g]]
      BY <3>1 DEF Inserting
    <3>3. /\ phase'[g] = "inserted"
          /\ \A h \in Guests \ {g} : phase'[h] = phase[h]
      BY <3>1
    <3>4. \A h \in Guests : phase'[h] # "idle" => using[h] \in Invitations
      BY <3>1, <3>3 DEF GuestInv
    <3>5. \A h \in Guests : phase'[h] = "inserted" => role[InviteeOf[using[h]]] = "none"
      BY <3>1, <3>3 DEF GuestInv
    <3>6. \A h, k \in Guests :
              /\ phase'[h] = "inserted" /\ phase'[k] = "inserted"
              /\ InviteeOf[using[h]] = InviteeOf[using[k]]
              => h = k
      BY <3>2, <3>3 DEF GuestInv
    <3>7. QED
      BY <3>1, <3>4, <3>5, <3>6 DEF GuestInv
  <2>6. CASE CommitInvitation(g)
    <3>1. \A h \in Guests \ {g} : phase[h] = "inserted" => role'[InviteeOf[using[h]]] = "none"
      <4>1. SUFFICES ASSUME NEW h \in Guests \ {g}, phase[h] = "inserted"
                     PROVE  role'[InviteeOf[using[h]]] = "none"
        OBVIOUS
      <4>2. InviteeOf[using[h]] # InviteeOf[using[g]]
        BY <2>6, <4>1 DEF CommitInvitation, GuestInv
      <4>3. InviteeOf[using[h]] \in Users /\ role[InviteeOf[using[h]]] = "none"
        BY <4>1 DEF GuestInv
      <4>4. QED
        <5>1. PICK r \in Roles : role' = [role EXCEPT ![InviteeOf[using[g]]] = r]
          BY <2>6, CommitMakes DEF Makes
        <5>2. QED
          BY <4>2, <4>3, <5>1
    <3>2. /\ \A h \in Guests \ {g} : phase'[h] = phase[h] /\ using'[h] = using[h]
          /\ phase'[g] = "idle"
      BY <2>6 DEF CommitInvitation, Rollback
    <3>3. QED
      BY <3>1, <3>2, GuestFrame
  <2>7. QED
    BY <2>1, <2>2, <2>3, <2>4, <2>5, <2>6
       DEF GuestStep, LockInvitation, InsertUser, Drop, users
<1>2. CASE ~\E g \in Guests : GuestStep(g)
  <2>1. UNCHANGED guests
    BY <1>2 DEF Next, LoginStep, CheckPassword, OpenSession, CloseSession, AdminStep, Begin,
                Abandon, CreateUser, UpdateUser, DeleteSessions, RevokeSession,
                CreateInvitation, Expire, vars
  <2>2. \A g \in Guests : phase[g] = "inserted" => role'[InviteeOf[using[g]]] = "none"
    BY <1>2, NobodyElse DEF GuestStep
  <2>3. QED
    BY <2>1, <2>2 DEF guests, GuestInv
<1>3. QED
  BY <1>1, <1>2

LEMMA BaseStep == Base /\ [Next]_vars => Base'
BY TypeStep, RowStep, HandlerStep, GuestStepInv DEF Base

-----------------------------------------------------------------------------
(* The organization keeps an administrator. *)

LEMMA AdminKept ==
    ASSUME TypeOK, NEW x \in Users, x \in active', role'[x] \in AdminRoles
    PROVE  AdminRemains'
BY DEF AdminRemains, IsAdmin

\* Of an update by an administrator he remains himself, of another one any
\* administrator, unless the update is blamed.
LEMMA AdminUpdate ==
    ASSUME Base, AdminRemains, NEW a \in Handlers, UpdateUser(a)
    PROVE  AdminRemains'
<1> USE DEF Base
<1>1. step[a] = "act" /\ by[a] \in Users
  BY UpdateChanges DEF HandlerInv
<1>2. PICK u \in Users, r \in Roles, stays \in BOOLEAN :
          /\ u = by[a] => (stays \/ u \notin active) /\ (r = "member" => role[u] = "member")
          /\ ChangeUser(a, u, r, stays)
  BY UpdateChanges
<1>3. /\ \A x \in Users \ {u} : role'[x] = role[x] /\ (x \in active' <=> x \in active)
      /\ role'[u] = r
      /\ stays => u \in active'
  BY <1>2 DEF ChangeUser, TypeOK
<1>4. CASE IsAdmin(by[a])
  <2>1. by[a] \in active' /\ role'[by[a]] \in AdminRoles
    BY <1>1, <1>2, <1>3, <1>4 DEF IsAdmin, AdminRoles, Roles
  <2>2. QED
    BY <1>1, <2>1, AdminKept
<1>5. CASE ~IsAdmin(by[a]) /\ ~crossed /\ ~crossed'
  <2>1. PICK x \in Users : IsAdmin(x)
    BY <1>5 DEF AdminRemains
  <2>2. x = u => stays /\ r \in AdminRoles
    BY <1>2, <1>5, <2>1 DEF ChangeUser
  <2>3. x \in active' /\ role'[x] \in AdminRoles
    BY <1>3, <2>1, <2>2 DEF IsAdmin
  <2>4. QED
    BY <2>3, AdminKept
<1>6. CASE crossed \/ crossed'
  BY <1>2, <1>6 DEF ChangeUser, AdminRemains
<1>7. QED
  BY <1>4, <1>5, <1>6

LEMMA AdminRemainsStep ==
    ASSUME Base, AdminRemains, [Next]_vars
    PROVE  AdminRemains'
<1> USE DEF Base
<1>1. CASE \E u \in Users : Makes(u)
  <2>1. PICK u \in Users : Makes(u)
    BY <1>1
  <2>2. PICK r \in Roles : role' = [role EXCEPT ![u] = r]
    BY <2>1 DEF Makes
  <2>3. active' = active \cup {u} /\ crossed' = crossed /\ role[u] = "none"
    BY <2>1 DEF Makes
  <2>4. CASE crossed
    BY <2>3, <2>4 DEF AdminRemains
  <2>5. CASE ~crossed
    <3>1. PICK x \in Users : x \in active /\ role[x] \in AdminRoles
      BY <2>5 DEF AdminRemains, IsAdmin
    <3>2. x # u
      BY <2>3, <3>1 DEF AdminRoles
    <3>3. x \in active' /\ role'[x] \in AdminRoles
      BY <2>2, <2>3, <3>1, <3>2 DEF TypeOK
    <3>4. QED
      BY <3>3, AdminKept
  <2>6. QED
    BY <2>4, <2>5
<1>2. CASE ~ChangesUsers
  <2>1. role' = role /\ active' = active /\ crossed' = crossed
    BY <1>2, UsersFrame DEF users
  <2>2. QED
    BY <2>1 DEF AdminRemains, IsAdmin
<1>3. QED
  BY <1>1, <1>2, CreateMakes, CommitMakes, AdminUpdate DEF ChangesUsers, TypeOK

-----------------------------------------------------------------------------
(* Sessions end with a deactivation. *)

\* A deletion of sessions that is pending is carried out or ends as halfway.
LEMMA PendingFrame ==
    ASSUME Base, [Next]_vars, NEW u \in Users, Pending(u),
           ~\E a \in Handlers : DeleteSessions(a) /\ on[a] = u
    PROVE  Pending(u)'
<1> USE DEF Base, TypeOK
<1>1. CASE \E a \in Handlers : AdminStep(a)
  <2>1. PICK a \in Handlers : AdminStep(a)
    BY <1>1
  <2>2. CASE Abandon(a) \/ DeleteSessions(a)
    <3>1. /\ \A b \in Handlers \ {a} : step'[b] = step[b] /\ on'[b] = on[b]
          /\ u \in halfway => u \in halfway'
          /\ step[a] = "delete sessions" /\ on[a] = u => u \in halfway'
      BY <2>2 DEF Abandon, DeleteSessions, Finish
    <3>2. QED
      BY <3>1 DEF Pending
  <2>3. CASE ~Abandon(a) /\ ~DeleteSessions(a)
    <3>1. \A b \in Handlers \ {a} : step'[b] = step[b] /\ on'[b] = on[b]
      <4>1. CASE Begin(a)
        BY <4>1 DEF Begin
      <4>2. CASE Finish(a)
        BY <4>2 DEF Finish
      <4>3. CASE UpdateUser(a) /\ ~Finish(a)
        <5>1. PICK v \in Users : /\ step' = [step EXCEPT ![a] = "delete sessions"]
                                 /\ on' = [on EXCEPT ![a] = v]
          BY <4>3, UpdateChanges DEF ChangeUser
        <5>2. QED
          BY <5>1
      <4>4. QED
        BY <2>1, <2>3, <4>1, <4>2, <4>3
           DEF AdminStep, CreateUser, RevokeSession, CreateInvitation
    <3>2. step[a] # "delete sessions" /\ halfway' = halfway
      BY <2>1, <2>3 DEF AdminStep, Begin, CreateUser, UpdateUser, RevokeSession,
                        CreateInvitation, history
    <3>3. QED
      BY <3>1, <3>2 DEF Pending
  <2>4. QED
    BY <2>2, <2>3
<1>2. CASE ~\E a \in Handlers : AdminStep(a)
  <2>1. UNCHANGED <<step, on, halfway>>
    BY <1>2 DEF Next, LoginStep, CheckPassword, OpenSession, CloseSession, GuestStep,
                FindInvitation, LockInvitation, InsertUser, CommitInvitation, Drop, Expire,
                vars, handlers, history
  <2>2. QED
    BY <2>1 DEF Pending
<1>3. QED
  BY <1>1, <1>2

LEMMA ActiveGrows ==
    ASSUME Base, [Next]_vars, ~\E a \in Handlers : UpdateUser(a)
    PROVE  active \in SUBSET active'
<1>1. CASE \E u \in Users : Makes(u)
  BY <1>1 DEF Makes
<1>2. CASE ~ChangesUsers
  BY <1>2, UsersFrame DEF users
<1>3. QED
  BY <1>1, <1>2, CreateMakes, CommitMakes DEF ChangesUsers, Base, TypeOK

\* A session that stays open.
LEMMA StaysOpen ==
    ASSUME Base, [Next]_vars, NEW t \in Sessions, session[t] = "open", session'[t] = "open",
           ~\E a \in Handlers : UpdateUser(a)
    PROVE  /\ owner'[t] = owner[t]
           /\ t \in doomed' => t \in doomed
           /\ t \in late => t \in late'
<1> USE DEF Base, TypeOK
<1>1. CASE \E s \in Sessions : CheckPassword(s)
  <2>1. PICK s \in Sessions : CheckPassword(s)
    BY <1>1
  <2>2. t # s /\ UNCHANGED <<doomed, late>>
    BY <2>1 DEF CheckPassword, history
  <2>3. PICK u \in active : owner' = [owner EXCEPT ![s] = u]
    BY <2>1 DEF CheckPassword
  <2>4. QED
    BY <2>2, <2>3
<1>2. CASE \E s \in Sessions : OpenSession(s)
  BY <1>2 DEF OpenSession
<1>3. CASE ~\E s \in Sessions : CheckPassword(s) \/ OpenSession(s)
  BY <1>3, SessionsFrame
<1>4. QED
  BY <1>1, <1>2, <1>3

\* The deletion of sessions does what is pending.
LEMMA OpenUndeleted ==
    ASSUME NEW t \in Sessions, session[t] = "open", session'[t] = "open",
           NEW a \in Handlers, DeleteSessions(a)
    PROVE  on[a] # owner[t]
BY DEF DeleteSessions, Delete, OpenOf

LEMMA SessionsEndUpdate ==
    ASSUME Base, SessionsEnd, [Next]_vars, NEW a \in Handlers, UpdateUser(a)
    PROVE  SessionsEnd'
<1>1. UNCHANGED <<session, owner, late, halfway>>
  BY UpdateFrame
<1>2. PICK u \in Users, r \in Roles, stays \in BOOLEAN : ChangeUser(a, u, r, stays)
  BY UpdateChanges
<1> USE DEF Base, TypeOK
<1>3. SUFFICES ASSUME NEW t \in Sessions, session[t] = "open", NEW v \in Users, owner[t] = v
               PROVE  /\ t \in doomed' => Pending(v)'
                      /\ v \in active' \/ t \in late \/ Pending(v)'
  BY <1>1 DEF SessionsEnd, Pending, RowInv
<1>4. Pending(v) => Pending(v)'
  BY <1>1, <1>3, OpenUndeleted, PendingFrame
<1>5. CASE ~stays /\ v = u
  <2>1. step'[a] = "delete sessions" /\ on'[a] = u
    BY <1>2, <1>5 DEF ChangeUser
  <2>2. QED
    BY <1>5, <2>1 DEF Pending
<1>6. CASE stays \/ v # u
  <2>1. t \in doomed' => t \in doomed
    BY <1>2, <1>3, <1>6 DEF ChangeUser, OpenOf
  <2>2. v \in active => v \in active'
    BY <1>2, <1>6 DEF ChangeUser
  <2>3. QED
    BY <1>3, <1>4, <2>1, <2>2 DEF SessionsEnd
<1>7. QED
  BY <1>5, <1>6

LEMMA SessionsEndStep ==
    ASSUME Base, SessionsEnd, [Next]_vars
    PROVE  SessionsEnd'
<1> USE DEF Base, TypeOK
<1>1. CASE ~\E a \in Handlers : UpdateUser(a)
  <2>1. SUFFICES ASSUME NEW t \in Sessions, session'[t] = "open", NEW v \in Users, owner'[t] = v
                 PROVE  /\ t \in doomed' => Pending(v)'
                        /\ v \in active' \/ t \in late' \/ Pending(v)'
    BY SessionRowStep DEF SessionsEnd, Pending
  <2>2. CASE session[t] = "open"
    <3>1. /\ owner[t] = v
          /\ t \in doomed' => t \in doomed
          /\ t \in late => t \in late'
      BY <1>1, <2>1, <2>2, StaysOpen
    <3>2. Pending(v) => Pending(v)'
      BY <2>1, <2>2, <3>1, OpenUndeleted, PendingFrame
    <3>3. v \in active => v \in active'
      BY <1>1, ActiveGrows
    <3>4. QED
      BY <2>2, <3>1, <3>2, <3>3 DEF SessionsEnd
  <2>3. CASE session[t] # "open"
    <3>1. OpenSession(t)
      <4>1. CASE \E s \in Sessions : CheckPassword(s)
        BY <2>1, <2>3, <4>1 DEF CheckPassword
      <4>2. CASE \E s \in Sessions : OpenSession(s)
        BY <2>1, <2>3, <4>2 DEF OpenSession
      <4>3. CASE ~\E s \in Sessions : CheckPassword(s) \/ OpenSession(s)
        BY <1>1, <2>1, <2>3, <4>3, SessionsFrame
      <4>4. QED
        BY <4>1, <4>2, <4>3
    <3>2. t \notin doomed /\ doomed' = doomed
      BY <2>3, <3>1 DEF OpenSession, RowInv
    <3>3. v \in active' \/ t \in late'
      BY <2>1, <3>1 DEF OpenSession, users
    <3>4. QED
      BY <3>2, <3>3
  <2>4. QED
    BY <2>2, <2>3
<1>2. QED
  BY <1>1, SessionsEndUpdate

-----------------------------------------------------------------------------
(* Invitations. *)

LEMMA SpentCommit ==
    ASSUME Base, InvitationSpent, NEW g \in Guests, CommitInvitation(g)
    PROVE  InvitationSpent'
<1> USE DEF Base, TypeOK
<1>1. PICK i \in Invitations : i = using[g]
  BY DEF CommitInvitation, GuestInv
<1>2. /\ invite' = [invite EXCEPT ![i] = "accepted"]
      /\ maker' = [maker EXCEPT ![InviteeOf[i]] = i]
      /\ role[InviteeOf[i]] = "none"
  BY <1>1 DEF CommitInvitation, Admit, GuestInv
<1>3. PICK r \in Roles : role' = [role EXCEPT ![InviteeOf[i]] = r]
  BY <1>1, CommitMakes DEF Makes
<1>4. InviteeOf[i] \in Users /\ r # "none"
  BY DEF Roles
<1>5. SUFFICES ASSUME NEW j \in Invitations
               PROVE  /\ invite'[j] = "accepted" <=> maker'[InviteeOf[j]] = j
                      /\ invite'[j] = "accepted" => role'[InviteeOf[j]] # "none"
  BY DEF InvitationSpent
<1>6. CASE j = i
  BY <1>2, <1>3, <1>4, <1>6
<1>7. CASE j # i
  <2>1. InviteeOf[j] = InviteeOf[i] => invite[j] # "accepted"
    <3>1. invite[j] = "accepted" => role[InviteeOf[j]] # "none"
      BY DEF InvitationSpent
    <3>2. QED
      BY ONLY <1>2, <3>1
  <2>2. invite'[j] = invite[j]
    BY <1>2, <1>7
  <2>3. CASE InviteeOf[j] = InviteeOf[i]
    <3>1. maker'[InviteeOf[j]] = i
      BY <1>2, <1>4, <2>3
    <3>2. QED
      BY <1>7, <2>1, <2>2, <2>3, <3>1
  <2>4. CASE InviteeOf[j] # InviteeOf[i]
    <3>1. InviteeOf[j] \in Users
      OBVIOUS
    <3>2. maker'[InviteeOf[j]] = maker[InviteeOf[j]] /\ role'[InviteeOf[j]] = role[InviteeOf[j]]
      BY <1>2, <1>3, <2>4, <3>1
    <3>3. QED
      BY <2>2, <3>2 DEF InvitationSpent
  <2>5. QED
    BY <2>3, <2>4
<1>8. QED
  BY <1>6, <1>7

LEMMA InvitationSpentStep ==
    ASSUME Base, InvitationSpent, [Next]_vars
    PROVE  InvitationSpent'
<1> USE DEF Base, TypeOK
<1>1. CASE ~\E g \in Guests : CommitInvitation(g)
  <2>1. maker' = maker
    BY <1>1 DEF Next, LoginStep, CheckPassword, OpenSession, CloseSession, AdminStep, Begin,
                Abandon, CreateUser, UpdateUser, DeleteSessions, RevokeSession,
                CreateInvitation, GuestStep, FindInvitation, LockInvitation, InsertUser, Drop,
                Expire, vars, history
  <2>2. \A i \in Invitations : invite'[i] = "accepted" <=> invite[i] = "accepted"
    <3>1. CASE \E a \in Handlers : CreateInvitation(a)
      BY <3>1 DEF CreateInvitation
    <3>2. CASE \E i \in Invitations : Expire(i)
      BY <3>2 DEF Expire
    <3>3. CASE UNCHANGED invite
      BY <3>3
    <3>4. QED
      BY <1>1, <3>1, <3>2, <3>3
         DEF Next, LoginStep, CheckPassword, OpenSession, CloseSession, AdminStep, Begin,
             Abandon, CreateUser, UpdateUser, DeleteSessions, RevokeSession,
             GuestStep, FindInvitation, LockInvitation, InsertUser, Drop, vars, invites
  <2>3. \A u \in Users : role[u] # "none" => role'[u] # "none"
    <3>1. CASE \E u \in Users : Makes(u)
      <4>1. PICK u \in Users, r \in Roles : role[u] = "none" /\ role' = [role EXCEPT ![u] = r]
        BY <3>1 DEF Makes
      <4>2. QED
        BY <4>1
    <3>2. CASE \E a \in Handlers : UpdateUser(a)
      <4>1. PICK a \in Handlers : UpdateUser(a)
        BY <3>2
      <4>2. PICK u \in Users, r \in Roles, stays \in BOOLEAN : ChangeUser(a, u, r, stays)
        BY ONLY <4>1, UpdateChanges
      <4>3. role' = [role EXCEPT ![u] = r] /\ r # "none"
        BY <4>2 DEF ChangeUser, Roles
      <4>4. QED
        BY <4>3
    <3>3. CASE ~ChangesUsers
      BY <3>3, UsersFrame DEF users
    <3>4. QED
      BY <1>1, <3>1, <3>2, <3>3, CreateMakes DEF ChangesUsers
  <2>4. QED
    BY <2>1, <2>2, <2>3 DEF InvitationSpent
<1>2. QED
  BY <1>1, SpentCommit

-----------------------------------------------------------------------------
(* The theorems. *)

LEMMA Invariance == Spec => []IInv
<1>1. IInv /\ [Next]_vars => IInv'
  BY BaseStep, AdminRemainsStep, SessionsEndStep, InvitationSpentStep DEF IInv
<1>2. QED
  BY InvInit, <1>1, PTL DEF Spec

\* Every variable keeps its type; invitations are for administrators and members.
THEOREM AccountsTyped == Spec => []TypeOK
<1>1. IInv => TypeOK
  BY DEF IInv, Base
<1>2. QED
  BY <1>1, Invariance, PTL

\* However many administrators change each other, one remains, unless one was
\* deprived by another who had been deprived since his session was checked.
THEOREM AnAdminRemains == Spec => []AdminRemains
<1>1. IInv => AdminRemains
  BY DEF IInv
<1>2. QED
  BY <1>1, Invariance, PTL

\* A deactivation that is carried out leaves none of the sessions it found.
THEOREM DeactivationEndsSessions == Spec => []SessionsEnd
<1>1. IInv => SessionsEnd
  BY DEF IInv
<1>2. QED
  BY <1>1, Invariance, PTL

\* Of all that accept an invitation, or several for the same user, one makes the
\* user, and his invitation is spent by that.
THEOREM InvitationsMakeOneUser == Spec => []InvitationSpent
<1>1. IInv => InvitationSpent
  BY DEF IInv
<1>2. QED
  BY <1>1, Invariance, PTL

=============================================================================
