------------------------------- MODULE Users --------------------------------
(***************************************************************************)
(* User accounts: the middleware that turns the session of a request into  *)
(* a row of table users, creating the row at the first login and keeping   *)
(* its profile up to date, and the pages with which administrators change  *)
(* roles and activate accounts.  Each statement is one step; requests, of  *)
(* the same user too, interleave.                                          *)
(***************************************************************************)
EXTENDS Naturals

CONSTANTS
  Subject,           \* provider and subject of the people who log in
  Profile,           \* email and display name, as a provider gives them
  AdminProfile,      \* those whose email is DefaultAdminEmail
  ProfilesOf,        \* the profiles the provider may give for each subject
  Request,           \* requests that are served at the same time
  InactiveByDefault, \* of the configuration
  MaxUsers           \* bound on the rows

ASSUME UsersAssumption ==
  /\ Subject # {} /\ Profile # {} /\ AdminProfile \subseteq Profile
  /\ ProfilesOf \in [Subject -> SUBSET Profile]
  /\ InactiveByDefault \in BOOLEAN /\ MaxUsers \in Nat

VARIABLES
  n,        \* rows inserted so far
  users,    \* table users
  session,  \* the profile in each person's session
  req,      \* the requests
  decided,  \* the last decision of an administrator on the activation of a row
  granted   \* the rows that an administrator has made administrators

vars == <<n, users, session, req, decided, granted>>

Id == 1..MaxUsers

User == [subject: Subject, role: {"user", "admin"}, active: BOOLEAN,
         profile: Profile]

NewUser(s, p) ==
  [subject |-> s, role |-> IF p \in AdminProfile THEN "admin" ELSE "user",
   active |-> ~InactiveByDefault, profile |-> p]

\* The content of an id that is not in use
NoUser == CHOOSE u \in User : TRUE

\* A request: stored is its copy of row id
NoRequest == [stage |-> "none", subject |-> NoUser.subject, id |-> 0,
              profile |-> NoUser.profile, stored |-> NoUser]

Rows(s) == {i \in 1..n : users[i].subject = s}

\* GetBySubject: the first row by primary key
IsFirst(i, s) == i \in Rows(s) /\ \A j \in Rows(s) : i <= j

Init ==
  /\ n = 0
  /\ users = [i \in Id |-> NoUser]
  /\ session \in {f \in [Subject -> Profile] : \A s \in Subject : f[s] \in ProfilesOf[s]}
  /\ req = [q \in Request |-> NoRequest]
  /\ decided = [i \in Id |-> "none"] /\ granted = {}

-----------------------------------------------------------------------------
\* handleProviderCallback: the provider may have a new profile
Login(s, p) ==
  /\ p \in ProfilesOf[s]
  /\ session' = [session EXCEPT ![s] = p]
  /\ UNCHANGED <<n, users, req, decided, granted>>

Become(q, x) == req' = [req EXCEPT ![q] = x]

GetBySubject(q, s) ==
  /\ req[q].stage = "none"
  /\ \/ /\ Rows(s) = {}
        /\ Become(q, [req[q] EXCEPT !.stage = "missing", !.subject = s,
                                    !.profile = session[s]])
     \/ \E i \in Rows(s) :
          /\ IsFirst(i, s)
          /\ Become(q, [stage |-> "found", subject |-> s, id |-> i,
                        profile |-> session[s], stored |-> users[i]])
  /\ UNCHANGED <<n, users, session, decided, granted>>

\* Mutant of Create: whoever comes first is an administrator
CreateFirstAdmin(q) ==
  /\ req[q].stage = "missing" /\ n < MaxUsers
  /\ LET u == [NewUser(req[q].subject, req[q].profile) EXCEPT
                 !.role = IF n = 0 THEN "admin" ELSE @]
     IN  /\ n' = n + 1
         /\ users' = [users EXCEPT ![n + 1] = u]
         /\ Become(q, [req[q] EXCEPT !.stage = "found", !.id = n + 1, !.stored = u])
  /\ UNCHANGED <<session, decided, granted>>

Create(q) ==
  /\ req[q].stage = "missing" /\ n < MaxUsers
  /\ LET u == NewUser(req[q].subject, req[q].profile)
     IN  /\ n' = n + 1
         /\ users' = [users EXCEPT ![n + 1] = u]
         /\ Become(q, [req[q] EXCEPT !.stage = "found", !.id = n + 1, !.stored = u])
  /\ UNCHANGED <<session, decided, granted>>

\* Whoever has the email of the default administrator is made active and
\* administrator in any case
Promoted(q) ==
  IF req[q].profile \in AdminProfile
  THEN [req[q].stored EXCEPT !.role = "admin", !.active = TRUE]
  ELSE req[q].stored

\* Mutant of NeedsUpdate: the row is saved at every request
UpdateAlways(q) == TRUE

NeedsUpdate(q) ==
  req[q].profile \in AdminProfile \/ req[q].stored.profile # req[q].profile

Refuse(q) ==
  /\ req[q].stage = "found" /\ ~Promoted(q).active
  /\ Become(q, [req[q] EXCEPT !.stage = "refused"])
  /\ UNCHANGED <<n, users, session, decided, granted>>

\* Update saves the whole row, as it was when the request loaded it
Update(q) ==
  /\ req[q].stage = "found" /\ Promoted(q).active /\ NeedsUpdate(q)
  /\ LET u == [Promoted(q) EXCEPT !.profile = req[q].profile]
     IN  /\ users' = [users EXCEPT ![req[q].id] = u]
         /\ Become(q, [req[q] EXCEPT !.stage = "serving", !.stored = u])
  /\ UNCHANGED <<n, session, decided, granted>>

Pass(q) ==
  /\ req[q].stage = "found" /\ Promoted(q).active /\ ~NeedsUpdate(q)
  /\ Become(q, [req[q] EXCEPT !.stage = "serving"])
  /\ UNCHANGED <<n, users, session, decided, granted>>

\* The handler behind the middleware; the pages of administrators are served if
\* the role in the request's copy allows it
Respond(q) ==
  /\ req[q].stage \in {"serving", "refused"}
  /\ Become(q, NoRequest)
  /\ UNCHANGED <<n, users, session, decided, granted>>

IsAdmin(q) == req[q].stage = "serving" /\ req[q].stored.role = "admin"

\* handleUserRoleUpdate, one column
UpdateRole(q, i, role) ==
  /\ IsAdmin(q) /\ i \in 1..n
  /\ users' = [users EXCEPT ![i] = [users[i] EXCEPT !.role = role]]
  /\ granted' = IF role = "admin" THEN granted \cup {i} ELSE granted
  /\ Become(q, NoRequest)
  /\ UNCHANGED <<n, session, decided>>

\* handleUserStatusUpdate, one column
UpdateActiveStatus(q, i, active) ==
  /\ IsAdmin(q) /\ i \in 1..n
  /\ users' = [users EXCEPT ![i] = [users[i] EXCEPT !.active = active]]
  /\ decided' = [decided EXCEPT ![i] = IF active THEN "on" ELSE "off"]
  /\ Become(q, NoRequest)
  /\ UNCHANGED <<n, session, granted>>

Next ==
  \/ \E s \in Subject, p \in Profile : Login(s, p)
  \/ \E q \in Request, s \in Subject : GetBySubject(q, s)
  \/ \E q \in Request : Create(q) \/ Refuse(q) \/ Update(q) \/ Pass(q) \/ Respond(q)
  \/ \E q \in Request, i \in Id, role \in {"user", "admin"} : UpdateRole(q, i, role)
  \/ \E q \in Request, i \in Id, b \in BOOLEAN : UpdateActiveStatus(q, i, b)

Spec == Init /\ [][Next]_vars

-----------------------------------------------------------------------------
(* Properties.                                                             *)

\* Those to whom a provider may give the email of the default administrator
DefaultAdmins == {s \in Subject : ProfilesOf[s] \cap AdminProfile # {}}

\* Nobody but the default administrator is an administrator, in the table or
\* in the copy that a request holds, unless an administrator decided so.
AdminsAreAppointed ==
  /\ \A i \in 1..n : users[i].role = "admin" =>
       users[i].subject \in DefaultAdmins \/ i \in granted
  /\ \A q \in Request : IsAdmin(q) =>
       req[q].subject \in DefaultAdmins \/ req[q].id \in granted

\* An account that an administrator has deactivated stays so until an
\* administrator activates it, whatever requests of its owner were under way,
\* if the owner's profile never changes.
DeactivationSticks ==
  \A i \in 1..n :
    /\ decided[i] = "off" /\ users[i].subject \notin DefaultAdmins
    /\ \A p, r \in ProfilesOf[users[i].subject] : p = r
    => ~users[i].active
=============================================================================
