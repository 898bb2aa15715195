----------------------------- MODULE WebProofs ------------------------------
(***************************************************************************)
(* Proofs about those who use the pages, and about what they enter there:  *)
(* Users, for any number of people, profiles, rows and requests that are   *)
(* served at the same time, and Forms, for any definitions and any number  *)
(* of pages.  The two share no state.                                      *)
(***************************************************************************)
EXTENDS Users, Forms, TLAPS

(***************************************************************************)
(* The inductive invariant.  A request works on a copy of a row, and saves *)
(* the whole copy: what is true of the rows has to be true of every copy   *)
(* that a later step can write back, and a copy has to stay a copy of a    *)
(* row of the same person.                                                 *)
(***************************************************************************)
Stage == {"none", "missing", "found", "serving", "refused"}

Requests == [stage: Stage, subject: Subject, id: 0..MaxUsers, profile: Profile,
             stored: User]

WellTyped ==
  /\ n \in 0..MaxUsers /\ users \in [Id -> User]
  /\ session \in [Subject -> Profile] /\ req \in [Request -> Requests]
  /\ decided \in [Id -> {"none", "on", "off"}]

\* What the provider of a person gives is what that person's session has
SessionGiven == \A s \in Subject : session[s] \in ProfilesOf[s]

\* A row has a profile of its person, and who is an administrator was appointed
RowGood(i) ==
  /\ users[i].profile \in ProfilesOf[users[i].subject]
  /\ users[i].role = "admin" => users[i].subject \in DefaultAdmins \/ i \in granted

\* A request that holds a copy of a row
Holds(x) == x.stage \in {"found", "serving", "refused"}

\* The copy of a request is of a row that exists, of the person who makes the
\* request, and is good like a row
RequestGood(x) ==
  /\ x.stage # "none" => x.profile \in ProfilesOf[x.subject]
  /\ Holds(x) =>
       /\ x.id \in 1..n /\ users[x.id].subject = x.subject
       /\ x.stored.subject = x.subject
       /\ x.stored.profile \in ProfilesOf[x.subject]
       /\ x.stored.role = "admin" =>
            x.subject \in DefaultAdmins \/ x.id \in granted

\* Nobody decides on a row that does not exist
DecidedRows == \A i \in Id : ~(i <= n) => decided[i] = "none"

UsersInv ==
  /\ WellTyped /\ SessionGiven
  /\ \A i \in 1..n : RowGood(i)
  /\ \A q \in Request : RequestGood(req[q])
  /\ DecidedRows /\ DeactivationSticks

-----------------------------------------------------------------------------
\* The content of an unused id, of an unused request and of a new account are
\* well formed
LEMMA RecordTypes ==
  /\ NoUser \in User /\ NoRequest \in Requests
  /\ \A s \in Subject, p \in Profile : NewUser(s, p) \in User
<1>1. \A s \in Subject, p \in Profile : NewUser(s, p) \in User
  BY UsersAssumption DEF NewUser, User
<1>2. \E u : u \in User
  BY <1>1, UsersAssumption
<1>3. NoUser \in User
  BY <1>2 DEF NoUser
<1>4. NoRequest \in Requests
  BY <1>3, UsersAssumption DEF NoRequest, Requests, User, Stage
<1> QED
  BY <1>1, <1>3, <1>4

\* The invariant holds of the empty table
LEMMA UsersInit == Init => UsersInv
<1> SUFFICES ASSUME Init PROVE UsersInv
  OBVIOUS
<1>1. n \in 0..MaxUsers /\ 1..n = {}
  BY UsersAssumption DEF Init
<1>2. WellTyped
  BY <1>1, RecordTypes DEF Init, WellTyped
<1>3. \A q \in Request : RequestGood(req[q])
  BY DEF Init, NoRequest, RequestGood, Holds
<1>4. SessionGiven /\ DeactivationSticks /\ DecidedRows
  BY <1>1 DEF Init, SessionGiven, DeactivationSticks, DecidedRows
<1> QED
  BY <1>1, <1>2, <1>3, <1>4 DEF UsersInv

\* What the invariant says of the bounds
LEMMA Bounds ==
  ASSUME WellTyped
  PROVE  n \in Nat /\ \A i \in 1..n : i \in Id /\ users[i] \in User
  BY UsersAssumption DEF WellTyped, Id

\* The good requests stay good when rows are added or change, but not their
\* persons, and when rights are granted
LEMMA RequestStaysGood ==
  ASSUME WellTyped, NEW x, RequestGood(x), n' \in Nat, n <= n',
         \A i \in 1..n : users'[i].subject = users[i].subject,
         granted \subseteq granted'
  PROVE  RequestGood(x)'
<1>1. Holds(x) => x.id \in 1..n'
  BY Bounds DEF RequestGood
<1> QED
  BY <1>1 DEF RequestGood, Holds

\* A step of a request that writes no row preserves the invariant if what the
\* request becomes is good
LEMMA RequestStep ==
  ASSUME UsersInv, NEW q \in Request, NEW x \in Requests, Become(q, x),
         RequestGood(x), UNCHANGED <<n, users, session, decided, granted>>
  PROVE  UsersInv'
<1>1. req' = [req EXCEPT ![q] = x] /\ req \in [Request -> Requests]
  BY DEF Become, UsersInv, WellTyped
<1>2. WellTyped'
  BY <1>1 DEF UsersInv, WellTyped
<1>3. \A p \in Request : RequestGood(req'[p])
  BY <1>1 DEF UsersInv
<1>4. \A p \in Request : RequestGood(req[p])'
  BY <1>3 DEF RequestGood, Holds
<1>5. (\A i \in 1..n : RowGood(i))'
  BY DEF UsersInv, RowGood
<1>6. (SessionGiven /\ DecidedRows /\ DeactivationSticks)'
  BY DEF UsersInv, SessionGiven, DecidedRows, DeactivationSticks
<1> QED
  BY <1>2, <1>4, <1>5, <1>6 DEF UsersInv

\* A step that changes the row of an account, and makes the request end or go
\* on with a copy of that row, preserves the invariant if the new row is good,
\* of the same person, and as active as the administrators decided
LEMMA RowStep ==
  ASSUME UsersInv, NEW q \in Request, NEW x \in Requests, Become(q, x),
         NEW i \in 1..n, NEW u \in User, users' = [users EXCEPT ![i] = u],
         UNCHANGED <<n, session>>, granted \subseteq granted',
         u.subject = users[i].subject, RowGood(i)', RequestGood(x)',
         decided' \in [Id -> {"none", "on", "off"}],
         \A j \in Id : j # i => decided'[j] = decided[j],
         /\ decided'[i] = "off" /\ u.subject \notin DefaultAdmins
         /\ \A p, r \in ProfilesOf[u.subject] : p = r
         => ~u.active
  PROVE  UsersInv'
<1>1. /\ req' = [req EXCEPT ![q] = x] /\ req \in [Request -> Requests]
      /\ users \in [Id -> User] /\ n \in Nat /\ i \in Id
      /\ \A j \in 1..n : j \in Id
  BY Bounds DEF Become, UsersInv, WellTyped
<1>2. users'[i] = u /\ \A j \in Id : j # i => users'[j] = users[j]
  BY <1>1
<1>3. WellTyped'
  BY <1>1 DEF UsersInv, WellTyped
<1>4. \A p \in Request : RequestGood(req[p])'
  <2> SUFFICES ASSUME NEW p \in Request PROVE RequestGood(req[p])'
    OBVIOUS
  <2>1. CASE p = q
    BY <2>1, <1>1
  <2>2. CASE p # q
    <3>1. req'[p] = req[p]
      BY <2>2, <1>1
    <3>2. /\ WellTyped /\ RequestGood(req[p]) /\ n' \in Nat /\ n <= n'
          /\ \A j \in 1..n : users'[j].subject = users[j].subject
      BY <1>1, <1>2 DEF UsersInv
    <3> DEFINE y == req[p]
    <3>3. RequestGood(y)'
      BY <3>1, <3>2, RequestStaysGood DEF RequestGood, Holds
    <3> QED
      BY <3>3
  <2> QED
    BY <2>1, <2>2
<1>5. (\A j \in 1..n : RowGood(j))'
  BY <1>1, <1>2 DEF UsersInv, RowGood
<1>6. (SessionGiven /\ DecidedRows)'
  BY <1>1 DEF UsersInv, SessionGiven, DecidedRows
<1>7. DeactivationSticks'
  BY <1>1, <1>2 DEF UsersInv, DeactivationSticks
<1> QED
  BY <1>3, <1>4, <1>5, <1>6, <1>7 DEF UsersInv

\* handleProviderCallback writes a profile of the person into the session
LEMMA InvLogin ==
  ASSUME UsersInv, NEW s \in Subject, NEW p \in Profile, Login(s, p)
  PROVE  UsersInv'
<1>1. WellTyped' /\ SessionGiven'
  BY DEF UsersInv, WellTyped, SessionGiven, Login
<1>2. (\A i \in 1..n : RowGood(i))' /\ (\A q \in Request : RequestGood(req[q]))'
  BY DEF UsersInv, RowGood, RequestGood, Holds, Login
<1>3. DecidedRows' /\ DeactivationSticks'
  BY DEF UsersInv, DecidedRows, DeactivationSticks, Login
<1> QED
  BY <1>1, <1>2, <1>3 DEF UsersInv

\* GetBySubject loads a row of the person
LEMMA InvGetBySubject ==
  ASSUME UsersInv, NEW q \in Request, NEW s \in Subject, GetBySubject(q, s)
  PROVE  UsersInv'
<1>1. req[q] \in Requests /\ session[s] \in Profile /\ session[s] \in ProfilesOf[s]
  BY DEF UsersInv, WellTyped, SessionGiven
<1>2. CASE Become(q, [req[q] EXCEPT !.stage = "missing", !.subject = s,
                                    !.profile = session[s]])
  <2> DEFINE x == [req[q] EXCEPT !.stage = "missing", !.subject = s,
                                 !.profile = session[s]]
  <2>1. x \in Requests /\ RequestGood(x)
    BY <1>1 DEF Requests, Stage, RequestGood, Holds
  <2> QED
    BY <1>2, <2>1, RequestStep DEF GetBySubject
<1>3. ASSUME NEW i \in Rows(s),
             Become(q, [stage |-> "found", subject |-> s, id |-> i,
                        profile |-> session[s], stored |-> users[i]])
      PROVE  UsersInv'
  <2> DEFINE x == [stage |-> "found", subject |-> s, id |-> i,
                   profile |-> session[s], stored |-> users[i]]
  <2>1. i \in 1..n /\ i \in 0..MaxUsers /\ users[i].subject = s
        /\ users[i] \in User /\ RowGood(i)
    BY Bounds, UsersAssumption DEF Rows, UsersInv, WellTyped, Id
  <2>2. x \in Requests /\ RequestGood(x)
    BY <1>1, <2>1 DEF Requests, Stage, RequestGood, Holds, RowGood
  <2> QED
    BY <1>3, <2>2, RequestStep DEF GetBySubject
<1> QED
  BY <1>2, <1>3 DEF GetBySubject

\* A new account is an administrator's only with the email of the default one
LEMMA InvCreate ==
  ASSUME UsersInv, NEW q \in Request, Create(q)
  PROVE  UsersInv'
<1> DEFINE u == NewUser(req[q].subject, req[q].profile)
           x == [req[q] EXCEPT !.stage = "found", !.id = n + 1, !.stored = u]
<1>1. /\ req[q] \in Requests /\ req \in [Request -> Requests]
      /\ users \in [Id -> User] /\ n \in Nat /\ n + 1 \in Id
      /\ \A j \in 1..n : j \in Id
      /\ req[q].profile \in ProfilesOf[req[q].subject]
      /\ req[q].stage = "missing"
  BY Bounds, UsersAssumption DEF UsersInv, WellTyped, Id, Create, RequestGood
<1>2. /\ n' = n + 1 /\ users' = [users EXCEPT ![n + 1] = u]
      /\ req' = [req EXCEPT ![q] = x]
      /\ UNCHANGED <<session, decided, granted>>
  BY DEF Create, Become
<1>3. u \in User /\ u.subject = req[q].subject /\ u.profile = req[q].profile
      /\ (u.role = "admin" => req[q].subject \in DefaultAdmins)
  <2>1. req[q].subject \in Subject /\ req[q].profile \in Profile
    BY <1>1 DEF Requests
  <2> QED
    BY <1>1, <2>1, RecordTypes DEF NewUser, DefaultAdmins
<1>4. x \in Requests /\ x.stage = "found" /\ x.id = n + 1 /\ x.stored = u
      /\ x.subject = req[q].subject /\ x.profile = req[q].profile
  <2>1. n + 1 \in 0..MaxUsers
    BY <1>1, UsersAssumption DEF Id
  <2> QED
    BY <1>1, <1>3, <2>1 DEF Requests, Stage
<1> HIDE DEF u, x
<1>5. users'[n + 1] = u /\ \A j \in 1..n : users'[j] = users[j]
  BY <1>1, <1>2
<1>6. WellTyped'
  <2>1. n' \in 0..MaxUsers
    BY <1>1, <1>2, UsersAssumption DEF Id
  <2> QED
    BY <1>1, <1>2, <1>3, <1>4, <2>1 DEF UsersInv, WellTyped
<1>7. \A j \in 1..n' : j \in 1..n \/ j = n + 1
  BY <1>1, <1>2
<1>8. (\A j \in 1..n : RowGood(j))'
  BY <1>1, <1>2, <1>3, <1>5, <1>7 DEF UsersInv, RowGood
<1>9. ASSUME NEW p \in Request PROVE RequestGood(req[p])'
  <2>1. CASE p = q
    <3>1. req'[p] = x /\ n + 1 \in 1..n'
      BY <2>1, <1>1, <1>2
    <3> QED
      BY <3>1, <1>1, <1>2, <1>3, <1>4, <1>5 DEF RequestGood, Holds
  <2>2. CASE p # q
    <3>1. req'[p] = req[p] /\ n' \in Nat /\ n <= n' /\ granted \subseteq granted'
      BY <2>2, <1>1, <1>2
    <3>2. \A j \in 1..n : users'[j].subject = users[j].subject
      BY <1>5
    <3> QED
      BY <3>1, <3>2, RequestStaysGood DEF UsersInv, RequestGood, Holds
  <2> QED
    BY <2>1, <2>2
<1>10. SessionGiven' /\ DecidedRows'
  BY <1>1, <1>2, UsersAssumption DEF UsersInv, SessionGiven, DecidedRows, Id
<1>11. DeactivationSticks'
  <2>1. decided[n + 1] = "none"
    BY <1>1 DEF UsersInv, DecidedRows
  <2> QED
    BY <1>2, <1>5, <1>7, <2>1 DEF UsersInv, DeactivationSticks
<1> QED
  BY <1>6, <1>8, <1>9, <1>10, <1>11 DEF UsersInv

\* The steps of the middleware and of the handler behind it that write nothing
LEMMA InvQuiet ==
  ASSUME UsersInv, NEW q \in Request, Refuse(q) \/ Pass(q) \/ Respond(q)
  PROVE  UsersInv'
<1>1. req[q] \in Requests /\ RequestGood(req[q])
  BY DEF UsersInv, WellTyped
<1>2. CASE Respond(q)
  <2>1. NoRequest \in Requests /\ RequestGood(NoRequest)
    BY RecordTypes DEF NoRequest, RequestGood, Holds
  <2> QED
    BY <1>2, <2>1, RequestStep DEF Respond
<1>3. ASSUME NEW g \in {"refused", "serving"}, req[q].stage = "found",
             Become(q, [req[q] EXCEPT !.stage = g]),
             UNCHANGED <<n, users, session, decided, granted>>
      PROVE  UsersInv'
  <2> DEFINE x == [req[q] EXCEPT !.stage = g]
  <2>1. x \in Requests /\ RequestGood(x)
    BY <1>1, <1>3 DEF Requests, Stage, RequestGood, Holds
  <2> QED
    BY <1>3, <2>1, RequestStep
<1> QED
  BY <1>2, <1>3 DEF Refuse, Pass

\* Update writes the copy back.  It does so for the default administrator, or
\* because the profile has changed; so it cannot activate again an account
\* whose owner is neither
LEMMA InvUpdate ==
  ASSUME UsersInv, NEW q \in Request, Update(q)
  PROVE  UsersInv'
<1>0. PICK u, x, i :
        /\ u = [Promoted(q) EXCEPT !.profile = req[q].profile]
        /\ x = [req[q] EXCEPT !.stage = "serving", !.stored = u]
        /\ i = req[q].id
  OBVIOUS
<1>1. /\ req[q] \in Requests /\ req[q].stored \in User /\ req[q].profile \in Profile
      /\ RequestGood(req[q]) /\ req[q].stage = "found" /\ Holds(req[q])
      /\ users \in [Id -> User] /\ i \in 1..n /\ i \in Id
      /\ decided \in [Id -> {"none", "on", "off"}]
  BY <1>0, Bounds DEF UsersInv, WellTyped, Requests, Update, RequestGood, Holds
<1>2. /\ users' = [users EXCEPT ![i] = u] /\ Become(q, x)
      /\ UNCHANGED <<n, session, decided, granted>>
      /\ NeedsUpdate(q)
  BY <1>0 DEF Update
<1>3. /\ Promoted(q) \in User
      /\ Promoted(q).subject = req[q].subject
      /\ Promoted(q).role = "admin" =>
           req[q].subject \in DefaultAdmins \/ i \in granted
  <2>1. CASE req[q].profile \in AdminProfile
    <3>1. req[q].subject \in DefaultAdmins
      BY <1>1, <2>1 DEF RequestGood, DefaultAdmins, Requests
    <3> QED
      BY <1>0, <1>1, <2>1, <3>1 DEF Promoted, User, RequestGood
  <2>2. CASE req[q].profile \notin AdminProfile
    BY <1>0, <1>1, <2>2 DEF Promoted, RequestGood
  <2> QED
    BY <2>1, <2>2
<1>4. /\ u \in User /\ u.subject = req[q].subject /\ u.profile = req[q].profile
      /\ u.role = Promoted(q).role
  BY <1>0, <1>1, <1>3 DEF User
<1>5. /\ x \in Requests /\ x.stage = "serving" /\ x.stored = u /\ x.id = i
      /\ x.subject = req[q].subject /\ x.profile = req[q].profile
  BY <1>0, <1>1, <1>4 DEF Requests, Stage
<1>6. u.subject \in DefaultAdmins \/ \E p, r \in ProfilesOf[u.subject] : p # r
  <2>1. CASE req[q].profile \in AdminProfile
    BY <1>1, <1>4, <2>1 DEF RequestGood, DefaultAdmins, Requests
  <2>2. CASE req[q].stored.profile # req[q].profile
    BY <1>1, <1>4, <2>2 DEF RequestGood
  <2> QED
    BY <1>2, <2>1, <2>2 DEF NeedsUpdate
<1>7. u.subject = users[i].subject
  BY <1>0, <1>1, <1>4 DEF RequestGood, Holds
<1>8. users'[i] = u
  BY <1>1, <1>2
<1>9. RowGood(i)' /\ RequestGood(x)'
  <2>1. RowGood(i)'
    BY <1>1, <1>2, <1>3, <1>4, <1>8 DEF RowGood, RequestGood
  <2> QED
    BY <1>1, <1>2, <1>3, <1>4, <1>5, <1>8 DEF RowGood, RequestGood, Holds
<1> QED
  BY <1>1, <1>2, <1>4, <1>5, <1>6, <1>7, <1>9, RowStep

\* An administrator changes a role, and so appoints, or activates an account
LEMMA InvAdmin ==
  ASSUME UsersInv, NEW q \in Request, NEW i \in Id,
         \/ \E role \in {"user", "admin"} : UpdateRole(q, i, role)
         \/ \E b \in BOOLEAN : UpdateActiveStatus(q, i, b)
  PROVE  UsersInv'
<1>1. /\ i \in 1..n /\ users \in [Id -> User] /\ users[i] \in User /\ RowGood(i)
      /\ decided \in [Id -> {"none", "on", "off"}]
  BY DEF UsersInv, WellTyped, UpdateRole, UpdateActiveStatus
<1>2. NoRequest \in Requests /\ RequestGood(NoRequest)'
  BY RecordTypes DEF NoRequest, RequestGood, Holds
<1>3. ASSUME NEW role \in {"user", "admin"}, UpdateRole(q, i, role) PROVE UsersInv'
  <2> DEFINE u == [users[i] EXCEPT !.role = role]
  <2>1. /\ u \in User /\ u.subject = users[i].subject /\ u.role = role
        /\ u.profile = users[i].profile /\ u.active = users[i].active
    BY <1>1 DEF User
  <2>2. /\ users' = [users EXCEPT ![i] = u] /\ Become(q, NoRequest)
        /\ granted' = IF role = "admin" THEN granted \cup {i} ELSE granted
        /\ UNCHANGED <<n, session, decided>>
    BY <1>3 DEF UpdateRole
  <2> HIDE DEF u
  <2>3. users'[i] = u /\ granted \subseteq granted'
    BY <1>1, <2>2
  <2>4. RowGood(i)'
    BY <1>1, <2>1, <2>2, <2>3 DEF RowGood
  <2>5. /\ decided'[i] = "off" /\ u.subject \notin DefaultAdmins
        /\ \A p, r \in ProfilesOf[u.subject] : p = r
        => ~u.active
    BY <1>1, <2>1, <2>2 DEF UsersInv, DeactivationSticks
  <2> QED
    BY <1>1, <1>2, <2>1, <2>2, <2>3, <2>4, <2>5, RowStep
<1>4. ASSUME NEW b \in BOOLEAN, UpdateActiveStatus(q, i, b) PROVE UsersInv'
  <2> DEFINE u == [users[i] EXCEPT !.active = b]
  <2>1. /\ u \in User /\ u.subject = users[i].subject /\ u.active = b
        /\ u.profile = users[i].profile /\ u.role = users[i].role
    BY <1>1 DEF User
  <2>2. /\ users' = [users EXCEPT ![i] = u] /\ Become(q, NoRequest)
        /\ decided' = [decided EXCEPT ![i] = IF b THEN "on" ELSE "off"]
        /\ UNCHANGED <<n, session, granted>>
    BY <1>4 DEF UpdateActiveStatus
  <2> HIDE DEF u
  <2>3. users'[i] = u /\ granted \subseteq granted'
    BY <1>1, <2>2
  <2>4. RowGood(i)'
    BY <1>1, <2>1, <2>2, <2>3 DEF RowGood
  <2>5. /\ decided' \in [Id -> {"none", "on", "off"}]
        /\ \A j \in Id : j # i => decided'[j] = decided[j]
        /\ decided'[i] = "off" => ~u.active
    BY <1>1, <2>1, <2>2
  <2> QED
    BY <1>1, <1>2, <2>1, <2>2, <2>3, <2>4, <2>5, RowStep
<1> QED
  BY <1>3, <1>4

\* The invariant is inductive
LEMMA UsersNext == UsersInv /\ [Next]_vars => UsersInv'
<1> SUFFICES ASSUME UsersInv, [Next]_vars PROVE UsersInv'
  OBVIOUS
<1>1. CASE UNCHANGED vars
  BY <1>1 DEF vars, UsersInv, WellTyped, SessionGiven, RowGood, RequestGood, Holds,
              DecidedRows, DeactivationSticks
<1>2. CASE Next
  BY <1>2, InvLogin, InvGetBySubject, InvCreate, InvQuiet, InvUpdate, InvAdmin
  DEF Next
<1> QED
  BY <1>1, <1>2

\* UsersInv is an invariant of the middleware and of the administrators' pages,
\* for any number of people and requests.
THEOREM UsersInvariance == Spec => []UsersInv
  BY UsersInit, UsersNext, PTL DEF Spec

\* However requests and saves interleave, nobody but the default administrator
\* is an administrator, in the table or in the copy a request acts on, whom no
\* administrator has made one.
THEOREM AdminsAreAppointedAlways == Spec => []AdminsAreAppointed
<1>1. UsersInv => AdminsAreAppointed
  BY DEF UsersInv, AdminsAreAppointed, RowGood, RequestGood, Holds, IsAdmin
<1> QED
  BY <1>1, UsersInvariance, PTL

\* No request that was under way brings a deactivated account back, if the
\* profile of its owner does not change and is not the default administrator's.
THEOREM DeactivationSticksAlways == Spec => []DeactivationSticks
<1>1. UsersInv => DeactivationSticks
  BY DEF UsersInv
<1> QED
  BY <1>1, UsersInvariance, PTL

-----------------------------------------------------------------------------
(***************************************************************************)
(* Forms.                                                                  *)
(*                                                                         *)
(* The inductive invariant.  A page that is read belongs to the past: the  *)
(* definition and the rows may be others by then.  What was stored is      *)
(* therefore compared with the page it came from, field by field, and only *)
(* where the page had the field that it was read with (SameField).         *)
(***************************************************************************)
FormFields == {d[g] : d \in Definitions, g \in Group} \union {<<>>}

Controls == UNION {[S -> Value \union {"file"}] : S \in SUBSET Name}

Values == UNION {[S -> Value] : S \in SUBSET Name}

Marshalled == [json: {"bool", "string"}, value: Value \union {"true", "false"}]

FormParams == UNION {[S -> Marshalled] : S \in SUBSET Name}

FormPages == [at: {"none", "form", "sent", "error"}, group: Group, fields: FormFields,
              controls: Controls, multipart: BOOLEAN]

FormsTyped ==
  /\ def \in Definitions /\ published \in 0..MaxPublished
  /\ tab \in [Tab -> FormPages] /\ stored \in Values /\ params \in FormParams

\* A control holds what a browser lets it hold
PageSound(p) ==
  /\ DOMAIN p.controls = DOMAIN p.fields
  /\ \A k \in DOMAIN p.fields : p.controls[k] \in Entries(p.fields[k].type)
  /\ p.multipart = HasFileFields(p.fields)

\* The field was the same on the page and when the page was read
SameField(entered, k) ==
  k \in DOMAIN entered.page.fields /\ entered.page.fields[k] = entered.fields[k]

\* The rows have every value of the form that was saved last, as the page had it
SavedKept ==
  \A k \in ValueFields(saved.fields) :
    /\ k \in DOMAIN stored
    /\ SameField(saved, k) => stored[k] = saved.page.controls[k]

\* The parameters have every value of the form of the latest execution, as the
\* page had it
OrderedKept ==
  \A k \in ValueFields(ordered.fields) :
    /\ k \in DOMAIN params
    /\ ordered.fields[k].type = "boolean" => params[k].json = "bool"
    /\ SameField(ordered, k) =>
         params[k].value = Meaning(ordered.fields[k], ordered.page.controls[k])

FormsInv ==
  /\ FormsTyped /\ \A t \in Tab : PageSound(tab[t])
  /\ SavedKept /\ OrderedKept

-----------------------------------------------------------------------------
FieldsSound(f) ==
  /\ DOMAIN f \subseteq Name
  /\ \A k \in DOMAIN f : f[k].type \in Type /\ f[k].required \in BOOLEAN

\* No fields and no values
LEMMA NoEntries ==
  /\ DOMAIN (<<>>) = {} /\ ValueFields(<<>>) = {} /\ ~HasFileFields(<<>>)
  /\ <<>> \in FormFields /\ <<>> \in Controls /\ <<>> \in Values /\ <<>> \in FormParams
<1>1. <<>> = [k \in {} |-> ""]
  OBVIOUS
<1>2. /\ <<>> \in [{} -> Value \union {"file"}] /\ <<>> \in [{} -> Value]
      /\ <<>> \in [{} -> Marshalled]
  BY <1>1
<1>3. DOMAIN (<<>>) = {}
  OBVIOUS
<1>4. ValueFields(<<>>) = {} /\ ~HasFileFields(<<>>)
  BY <1>3 DEF ValueFields, HasFileFields
<1>5. <<>> \in FormFields
  BY DEF FormFields
<1>6. <<>> \in Controls /\ <<>> \in Values /\ <<>> \in FormParams
  BY <1>2 DEF Controls, Values, FormParams
<1> QED
  BY <1>3, <1>4, <1>5, <1>6

\* The fields of a form are well formed
LEMMA FormFieldsSound == \A f \in FormFields : FieldsSound(f)
<1>1. FieldsSound(<<>>)
  BY NoEntries DEF FieldsSound
<1>2. \A d \in Definitions, g \in Group : FieldsSound(d[g])
  BY FormsAssumption DEF FieldsSound
<1> QED
  BY <1>1, <1>2 DEF FormFields

\* A page without a form
LEMMA NoFormSound ==
  \A at \in {"none", "error"} : NoForm(at) \in FormPages /\ PageSound(NoForm(at))
<1> SUFFICES ASSUME NEW at \in {"none", "error"}
             PROVE  NoForm(at) \in FormPages /\ PageSound(NoForm(at))
  OBVIOUS
<1> DEFINE p == NoForm(at)
<1>1. p = [at |-> at, group |-> "inputs", fields |-> <<>>, controls |-> <<>>,
           multipart |-> FALSE]
  BY DEF NoForm
<1> HIDE DEF p
<1>2. p \in FormPages /\ p.fields = <<>> /\ p.controls = <<>> /\ p.multipart = FALSE
  BY <1>1, NoEntries DEF FormPages, Group
<1>3. DOMAIN p.controls = {} /\ DOMAIN p.fields = {} /\ ~HasFileFields(p.fields)
  BY <1>2, NoEntries
<1>4. HasFileFields(p.fields) \in BOOLEAN
  BY DEF HasFileFields
<1>5. PageSound(p)
  BY <1>2, <1>3, <1>4 DEF PageSound
<1> QED
  BY <1>2, <1>5 DEF p

\* A rendered control shows what its type can hold
LEMMA Rendered ==
  ASSUME NEW type \in Type, NEW v \in Value
  PROVE  /\ RenderField(type, v) \in Entries(type)
         /\ RenderField(type, v) \in Value
         /\ type # "file" /\ v \in Entries(type) => RenderField(type, v) = v
BY DEF RenderField, Entries, DefaultInput, DefaultCheckbox, DefaultFileInput,
       Type, Value

\* A form that is rendered from values is a sound page
LEMMA RenderedForm ==
  ASSUME NEW g \in Group, NEW f \in FormFields, NEW values \in Values
  PROVE  Form(g, f, values) \in FormPages /\ PageSound(Form(g, f, values))
<1>1. DOMAIN f \subseteq Name /\ \A k \in DOMAIN f : f[k].type \in Type
  BY FormFieldsSound DEF FieldsSound
<1>2. \A k : ValueOf(values, k) \in Value
  <2>1. PICK S \in SUBSET Name : values \in [S -> Value]
    BY DEF Values
  <2> QED
    BY <2>1 DEF ValueOf, Value
<1> DEFINE c == [k \in DOMAIN f |-> RenderField(f[k].type, ValueOf(values, k))]
<1>3. \A k \in DOMAIN f : c[k] \in Entries(f[k].type) /\ c[k] \in Value
  BY <1>1, <1>2, Rendered
<1>4. c \in [DOMAIN f -> Value \union {"file"}]
  BY <1>3
<1>5. c \in Controls
  BY <1>1, <1>4 DEF Controls
<1>6. HasFileFields(f) \in BOOLEAN
  BY DEF HasFileFields
<1>7. Form(g, f, values) = [at |-> "form", group |-> g, fields |-> f, controls |-> c,
                            multipart |-> HasFileFields(f)]
  BY DEF Form
<1>8. DOMAIN c = DOMAIN f
  OBVIOUS
<1> HIDE DEF c
<1> QED
  BY <1>3, <1>5, <1>6, <1>7, <1>8 DEF FormPages, PageSound

\* What is read from the body of a page: the controls of the fields that are
\* the same, and nothing but values
LEMMA ReadBody ==
  ASSUME NEW p \in FormPages, PageSound(p), NEW f \in FormFields
  PROVE  \A k \in ValueFields(f) :
           /\ Body(p, f)[k] \in Value
           /\ k \in DOMAIN p.fields /\ p.fields[k] = f[k] =>
                Body(p, f)[k] = p.controls[k]
<1> SUFFICES ASSUME NEW k \in ValueFields(f)
             PROVE  /\ Body(p, f)[k] \in Value
                    /\ k \in DOMAIN p.fields /\ p.fields[k] = f[k] =>
                         Body(p, f)[k] = p.controls[k]
  OBVIOUS
<1>1. k \in Name /\ k \in DOMAIN f /\ f[k].type # "file"
  BY FormFieldsSound DEF FieldsSound, ValueFields
<1>2. p.fields \in FormFields
  BY DEF FormPages
<1>3. k \in DOMAIN p.fields => p.fields[k].type \in Type
  BY <1>2, FormFieldsSound DEF FieldsSound
<1>4. k \in DOMAIN p.fields /\ p.fields[k].type # "file" => p.controls[k] \in Value
  BY <1>3 DEF PageSound, Entries, Type, Value
<1>5. Body(p, f)[k] =
        IF k \in DOMAIN p.fields /\ p.fields[k].type # "file" THEN p.controls[k] ELSE ""
  BY <1>1 DEF Body
<1> QED
  BY <1>1, <1>4, <1>5 DEF Value

\* The values of a form after Handle
LEMMA FilledValues ==
  ASSUME FormsInv, NEW t \in Tab
  PROVE  LET f == def[tab[t].group]
             v == Filled(tab[t])
         IN  /\ f \in FormFields /\ v \in Values
             /\ DOMAIN v = DOMAIN Defaults(tab[t].group) \union ValueFields(f)
             /\ \A k \in ValueFields(f) :
                  k \in DOMAIN tab[t].fields /\ tab[t].fields[k] = f[k] =>
                    v[k] = tab[t].controls[k]
<1> DEFINE p == tab[t]
           f == def[p.group]
           b == Body(p, f)
           s == Defaults(p.group)
           D == DOMAIN s \union ValueFields(f)
<1>1. p \in FormPages /\ p.group \in Group /\ PageSound(p) /\ f \in FormFields
  BY DEF FormsInv, FormsTyped, FormPages, FormFields
<1>2. s \in Values
  BY NoEntries DEF Defaults, FormsInv, FormsTyped
<1>3. PICK S \in SUBSET Name : s \in [S -> Value]
  BY <1>2 DEF Values
<1>4. Filled(p) = [k \in D |-> IF k \in ValueFields(f) THEN b[k] ELSE s[k]]
  BY DEF Filled, Handle
<1>5. ValueFields(f) \subseteq Name
  BY <1>1, FormFieldsSound DEF FieldsSound, ValueFields
<1>6. \A k \in ValueFields(f) :
        /\ b[k] \in Value
        /\ k \in DOMAIN p.fields /\ p.fields[k] = f[k] => b[k] = p.controls[k]
  BY <1>1, ReadBody
<1> HIDE DEF p, f, b, s
<1>7. Filled(p) \in [D -> Value] /\ D \in SUBSET Name
  BY <1>3, <1>4, <1>5, <1>6
<1>8. Filled(p) \in Values
  BY <1>7 DEF Values
<1>9. DOMAIN Filled(p) = D /\ \A k \in ValueFields(f) : Filled(p)[k] = b[k]
  BY <1>4
<1> QED
  BY <1>1, <1>6, <1>8, <1>9 DEF p, f, s

\* The input parameters that are made of the values of a form
LEMMA MarshalledValues ==
  ASSUME NEW f, NEW v \in Values, DOMAIN v \subseteq ValueFields(f)
  PROVE  LET p == marshalInputParameters(f, v)
         IN  /\ p \in FormParams /\ DOMAIN p = DOMAIN v
             /\ \A k \in DOMAIN v :
                  /\ f[k].type = "boolean" => p[k].json = "bool"
                  /\ p[k].value = Meaning(f[k], v[k])
<1> DEFINE p == marshalInputParameters(f, v)
<1>1. PICK S \in SUBSET Name : v \in [S -> Value]
  BY DEF Values
<1>2. p = [k \in S |-> IF f[k].type = "boolean"
                       THEN [json |-> "bool", value |-> Boolean(v[k])]
                       ELSE [json |-> "string", value |-> v[k]]]
  BY <1>1 DEF marshalInputParameters
<1> HIDE DEF p
<1>3. ASSUME NEW k \in S
      PROVE  /\ p[k] \in Marshalled /\ p[k].value = Meaning(f[k], v[k])
             /\ f[k].type = "boolean" => p[k].json = "bool"
  <2>1. v[k] \in Value /\ Boolean(v[k]) \in {"true", "false"}
    BY <1>1 DEF Boolean
  <2>2. CASE f[k].type = "boolean"
    <3>1. p[k] = [json |-> "bool", value |-> Boolean(v[k])]
      BY <1>2, <2>2
    <3>2. Boolean(v[k]) = Meaning(f[k], v[k])
      BY <2>2 DEF Meaning, Boolean
    <3>3. p[k].json = "bool" /\ p[k].value = Boolean(v[k])
      BY <3>1
    <3>4. p[k] \in Marshalled
      BY <3>1, <2>1 DEF Marshalled
    <3> QED
      BY <3>2, <3>3, <3>4
  <2>3. CASE f[k].type # "boolean"
    <3>1. p[k] = [json |-> "string", value |-> v[k]]
      BY <1>2, <2>3
    <3>2. v[k] = Meaning(f[k], v[k])
      BY <2>3 DEF Meaning
    <3>3. p[k].value = v[k]
      BY <3>1
    <3>4. p[k] \in Marshalled
      BY <3>1, <2>1 DEF Marshalled
    <3> QED
      BY <3>2, <3>3, <3>4, <2>3
  <2> QED
    BY <2>2, <2>3
<1>4. p \in [S -> Marshalled]
  BY <1>2, <1>3
<1>5. p \in FormParams /\ DOMAIN p = S /\ DOMAIN v = S
  BY <1>1, <1>4 DEF FormParams
<1> QED
  BY <1>3, <1>5 DEF p

-----------------------------------------------------------------------------
\* The initial state
LEMMA StartForms == InitForms => FormsInv
<1> SUFFICES ASSUME InitForms PROVE FormsInv
  OBVIOUS
<1>1. NoForm("none") \in FormPages /\ PageSound(NoForm("none"))
  BY NoFormSound
<1>2. MaxPublished \in Nat
  BY FormsAssumption
<1>3. FormsTyped
  BY <1>1, <1>2, NoEntries DEF InitForms, FormsTyped
<1>4. ValueFields(saved.fields) = {} /\ ValueFields(ordered.fields) = {}
  BY NoEntries DEF InitForms, Nothing
<1> QED
  BY <1>1, <1>3, <1>4 DEF InitForms, FormsInv, SavedKept, OrderedKept

\* Steps that store nothing: the registry gets another image, or one page changes
LEMMA PageStep ==
  ASSUME FormsInv, FormsTyped', UNCHANGED <<stored, params, saved, ordered>>,
         \/ UNCHANGED tab
         \/ \E t \in Tab, p \in FormPages :
              PageSound(p) /\ tab' = [tab EXCEPT ![t] = p]
  PROVE  FormsInv'
<1>1. SavedKept' /\ OrderedKept'
  BY DEF FormsInv, SavedKept, OrderedKept, SameField
<1>2. (\A t \in Tab : PageSound(tab[t]))'
  BY DEF FormsInv, FormsTyped
<1> QED
  BY <1>1, <1>2 DEF FormsInv

\* The registry gets another image
LEMMA FormsPublish == FormsInv /\ Publish => FormsInv'
<1> SUFFICES ASSUME FormsInv, Publish PROVE FormsInv'
  OBVIOUS
<1>1. MaxPublished \in Nat
  BY FormsAssumption
<1>2. FormsTyped'
  BY <1>1 DEF FormsInv, FormsTyped, Publish
<1> QED
  BY <1>2, PageStep DEF Publish

\* One page becomes another sound page
LEMMA PageBecomes ==
  ASSUME FormsInv, NEW t \in Tab, NEW p \in FormPages, PageSound(p),
         tab' = [tab EXCEPT ![t] = p],
         UNCHANGED <<def, published, stored, params, saved, ordered>>
  PROVE  FormsInv'
<1>1. FormsTyped'
  BY DEF FormsInv, FormsTyped
<1> QED
  BY <1>1, PageStep

\* A page is opened
LEMMA FormsOpen ==
  \A t \in Tab : FormsInv /\ (NewTaskPage(t) \/ TaskFormPage(t)) => FormsInv'
<1> SUFFICES ASSUME NEW t \in Tab, NEW g \in Group, FormsInv, Open(t, g)
             PROVE  FormsInv'
  BY DEF NewTaskPage, TaskFormPage, Group
<1> DEFINE p == Form(g, def[g], Defaults(g))
<1>1. def[g] \in FormFields /\ Defaults(g) \in Values
  BY NoEntries DEF FormsInv, FormsTyped, FormFields, Defaults
<1>2. p \in FormPages /\ PageSound(p)
  BY <1>1, RenderedForm
<1> HIDE DEF p
<1>3. tab' = [tab EXCEPT ![t] = p]
      /\ UNCHANGED <<def, published, stored, params, saved, ordered>>
  BY DEF Open, p
<1> QED
  BY <1>2, <1>3, PageBecomes

\* A control is changed
LEMMA FormsEdit ==
  \A t \in Tab, k \in Name : FormsInv /\ Edit(t, k) => FormsInv'
<1> SUFFICES ASSUME NEW t \in Tab, NEW k \in Name, FormsInv, Edit(t, k)
             PROVE  FormsInv'
  OBVIOUS
<1>1. k \in DOMAIN tab[t].fields /\ tab[t] \in FormPages /\ PageSound(tab[t])
  BY DEF Edit, FormsInv, FormsTyped
<1>2. PICK v \in Entries(tab[t].fields[k].type) : tab' = [tab EXCEPT ![t].controls[k] = v]
  BY DEF Edit
<1> DEFINE c == [tab[t].controls EXCEPT ![k] = v]
           p == [tab[t] EXCEPT !.controls = c]
<1>3. PICK S \in SUBSET Name : tab[t].controls \in [S -> Value \union {"file"}]
  BY <1>1 DEF FormPages, Controls
<1>4. tab[t].fields[k].type \in Type
  BY <1>1, FormFieldsSound DEF FormPages, FieldsSound
<1>5. v \in Value \union {"file"}
  BY <1>2, <1>4 DEF Entries, Type, Value
<1>6. c \in [S -> Value \union {"file"}]
  BY <1>3, <1>5
<1>7. c \in Controls
  BY <1>6 DEF Controls
<1>8. DOMAIN c = DOMAIN tab[t].fields
      /\ \A m \in DOMAIN tab[t].fields : c[m] \in Entries(tab[t].fields[m].type)
  BY <1>1, <1>2, <1>3 DEF PageSound
<1>9. tab' = [tab EXCEPT ![t] = p]
  BY <1>2
<1> HIDE DEF c
<1>10. p \in FormPages /\ p.fields = tab[t].fields /\ p.controls = c
       /\ p.multipart = tab[t].multipart
  BY <1>1, <1>7 DEF FormPages
<1> HIDE DEF p
<1>11. PageSound(p)
  BY <1>1, <1>8, <1>10 DEF PageSound
<1> QED
  BY <1>9, <1>10, <1>11, PageBecomes DEF Edit

\* A form is sent
LEMMA FormsSend == \A t \in Tab : FormsInv /\ Send(t) => FormsInv'
<1> SUFFICES ASSUME NEW t \in Tab, FormsInv, Send(t) PROVE FormsInv'
  OBVIOUS
<1> DEFINE p == [tab[t] EXCEPT !.at = "sent"]
<1>1. tab[t] \in FormPages /\ PageSound(tab[t])
  BY DEF FormsInv, FormsTyped
<1>2. p \in FormPages /\ p.fields = tab[t].fields /\ p.controls = tab[t].controls
      /\ p.multipart = tab[t].multipart
  BY <1>1 DEF FormPages
<1>3. tab' = [tab EXCEPT ![t] = p]
  BY DEF Send
<1> HIDE DEF p
<1>4. PageSound(p)
  BY <1>1, <1>2 DEF PageSound
<1> QED
  BY <1>2, <1>3, <1>4, PageBecomes DEF Send

\* A body cannot be parsed, or a form has errors
LEMMA FormsRefuse ==
  \A t \in Tab : FormsInv /\ (ParseError(t) \/ Redisplay(t)) => FormsInv'
<1> SUFFICES ASSUME NEW t \in Tab, FormsInv, ParseError(t) \/ Redisplay(t)
             PROVE  FormsInv'
  OBVIOUS
<1>1. CASE ParseError(t)
  BY <1>1, NoFormSound, PageBecomes DEF ParseError
<1>2. CASE Redisplay(t)
  <2> DEFINE g == tab[t].group
             p == Form(g, def[g], Filled(tab[t]))
  <2>1. g \in Group
    BY DEF FormsInv, FormsTyped, FormPages
  <2>2. p \in FormPages /\ PageSound(p)
    BY <2>1, FilledValues, RenderedForm
  <2>3. tab' = [tab EXCEPT ![t] = p]
        /\ UNCHANGED <<def, published, stored, params, saved, ordered>>
    BY <1>2 DEF Redisplay
  <2> HIDE DEF p
  <2> QED
    BY <2>2, <2>3, PageBecomes
<1> QED
  BY <1>1, <1>2

\* What was entered becomes the rows of the configuration
LEMMA FormsSave == \A t \in Tab : FormsInv /\ UpdateConfiguration(t) => FormsInv'
<1> SUFFICES ASSUME NEW t \in Tab, FormsInv, UpdateConfiguration(t) PROVE FormsInv'
  OBVIOUS
<1> DEFINE f == def.configuration
<1>1. tab[t].group = "configuration" /\ f = def[tab[t].group]
      /\ tab' = [tab EXCEPT ![t] = NoForm("none")]
      /\ stored' = Filled(tab[t]) /\ saved' = [page |-> tab[t], fields |-> f]
      /\ UNCHANGED <<def, published, params, ordered>>
  BY DEF UpdateConfiguration, Accepted
<1> HIDE DEF f
<1>2. /\ f \in FormFields /\ stored' \in Values
      /\ ValueFields(f) \subseteq DOMAIN stored'
      /\ \A k \in ValueFields(f) :
           k \in DOMAIN tab[t].fields /\ tab[t].fields[k] = f[k] =>
             stored'[k] = tab[t].controls[k]
  BY <1>1, FilledValues
<1>3. NoForm("none") \in FormPages /\ PageSound(NoForm("none"))
  BY NoFormSound
<1>4. FormsTyped' /\ (\A u \in Tab : PageSound(tab[u]))'
  BY <1>1, <1>2, <1>3 DEF FormsInv, FormsTyped
<1>5. saved'.page = tab[t] /\ saved'.fields = f
  BY <1>1
<1>6. SavedKept'
  BY <1>2, <1>5 DEF SavedKept, SameField
<1>7. OrderedKept'
  BY <1>1 DEF FormsInv, OrderedKept, SameField
<1> QED
  BY <1>4, <1>6, <1>7 DEF FormsInv

\* What was entered becomes the parameters of an execution
LEMMA FormsSubmit == \A t \in Tab : FormsInv /\ Submit(t) => FormsInv'
<1> SUFFICES ASSUME NEW t \in Tab, FormsInv, Submit(t) PROVE FormsInv'
  OBVIOUS
<1> DEFINE f == def.inputs
           v == Filled(tab[t])
<1>1. tab[t].group = "inputs" /\ f = def[tab[t].group]
      /\ tab' = [tab EXCEPT ![t] = NoForm("none")]
      /\ params' = marshalInputParameters(f, v)
      /\ ordered' = [page |-> tab[t], fields |-> f]
      /\ UNCHANGED <<def, published, stored, saved>>
  BY DEF Submit, Accepted
<1>2. DOMAIN Defaults(tab[t].group) = {}
  BY <1>1, NoEntries DEF Defaults
<1> HIDE DEF f, v
<1>3. /\ f \in FormFields /\ v \in Values /\ DOMAIN v = ValueFields(f)
      /\ \A k \in ValueFields(f) :
           k \in DOMAIN tab[t].fields /\ tab[t].fields[k] = f[k] =>
             v[k] = tab[t].controls[k]
  BY <1>1, <1>2, FilledValues DEF v
<1>4. /\ params' \in FormParams /\ DOMAIN params' = ValueFields(f)
      /\ \A k \in ValueFields(f) :
           /\ f[k].type = "boolean" => params'[k].json = "bool"
           /\ params'[k].value = Meaning(f[k], v[k])
  BY <1>1, <1>3, MarshalledValues
<1>5. NoForm("none") \in FormPages /\ PageSound(NoForm("none"))
  BY NoFormSound
<1>6. FormsTyped' /\ (\A u \in Tab : PageSound(tab[u]))'
  BY <1>1, <1>4, <1>5 DEF FormsInv, FormsTyped
<1>7. ordered'.page = tab[t] /\ ordered'.fields = f
  BY <1>1
<1>8. OrderedKept'
  BY <1>3, <1>4, <1>7 DEF OrderedKept, SameField
<1>9. SavedKept'
  BY <1>1 DEF FormsInv, SavedKept, SameField
<1> QED
  BY <1>6, <1>8, <1>9 DEF FormsInv

\* Every step keeps the invariant
LEMMA FormsStep == FormsInv /\ [NextForms]_varsForms => FormsInv'
<1> SUFFICES ASSUME FormsInv, [NextForms]_varsForms PROVE FormsInv'
  OBVIOUS
<1>1. CASE UNCHANGED varsForms
  <2>1. FormsTyped'
    BY <1>1 DEF FormsInv, FormsTyped, varsForms
  <2> QED
    BY <1>1, <2>1, PageStep DEF varsForms
<1>2. CASE NextForms
  BY <1>2, FormsPublish, FormsOpen, FormsEdit, FormsSend, FormsRefuse, FormsSave,
     FormsSubmit DEF NextForms
<1> QED
  BY <1>1, <1>2

-----------------------------------------------------------------------------
\* The invariant holds in every reachable state
THEOREM FormsInvariance == SpecForms => []FormsInv
BY StartForms, FormsStep, PTL DEF SpecForms

\* Every control holds what a browser lets it hold, and the name of an uploaded
\* file never becomes a value, for any definitions and pages.
THEOREM FormsTypeCorrect == SpecForms => []TypeOK
<1>1. FormsInv => TypeOK
  <2> SUFFICES ASSUME FormsInv PROVE TypeOK
    OBVIOUS
  <2>1. \A t \in Tab :
          /\ tab[t].at \in {"none", "form", "sent", "error"} /\ tab[t].group \in Group
          /\ DOMAIN tab[t].controls = DOMAIN tab[t].fields
          /\ \A k \in DOMAIN tab[t].fields :
               tab[t].controls[k] \in Entries(tab[t].fields[k].type)
          /\ tab[t].multipart = HasFileFields(tab[t].fields)
    BY DEF FormsInv, FormsTyped, FormPages, PageSound
  <2>2. \A k \in DOMAIN stored : k \in Name /\ stored[k] \in Value
    <3>1. PICK S \in SUBSET Name : stored \in [S -> Value]
      BY DEF FormsInv, FormsTyped, Values
    <3> QED
      BY <3>1
  <2>3. \A k \in DOMAIN params :
          /\ k \in Name /\ params[k].json \in {"bool", "string"}
          /\ params[k].value \in Value \union {"true", "false"}
    <3>1. PICK S \in SUBSET Name : params \in [S -> Marshalled]
      BY DEF FormsInv, FormsTyped, FormParams
    <3> QED
      BY <3>1 DEF Marshalled
  <2> QED
    BY <2>1, <2>2, <2>3 DEF TypeOK, FormsInv, FormsTyped
<1> QED
  BY <1>1, FormsInvariance, PTL

\* What a person saw on a form is what a container started now gets, for the
\* parameters that are declared as they were.
THEOREM EnteredAsSeenAlways == SpecForms => []EnteredAsSeen
<1>1. FormsInv => EnteredAsSeen
  <2> SUFFICES ASSUME FormsInv PROVE EnteredAsSeen
    OBVIOUS
  <2> DEFINE c == def.configuration
             i == def.inputs
             C == ConfigurationNames(def, DOMAIN stored)
             env == Environment(def, params, stored)
  <2>1. env = [k \in InputNames(def, params) \union C |->
                 IF k \in C THEN ConfigurationValue(c[k], stored[k])
                 ELSE params[k].value]
    BY DEF Environment
  <2> HIDE DEF env
  <2>2. ASSUME NEW k \in Alike(saved, c)
        PROVE  k \in DOMAIN env /\ env[k] = Meaning(c[k], saved.page.controls[k])
    <3>1. k \in DOMAIN c /\ k \in ValueFields(saved.fields) /\ SameField(saved, k)
      BY <2>2 DEF Alike, ValueFields, SameField
    <3>2. k \in C /\ stored[k] = saved.page.controls[k]
      BY <3>1 DEF FormsInv, SavedKept, ConfigurationNames
    <3>3. k \in DOMAIN env /\ env[k] = ConfigurationValue(c[k], stored[k])
      BY <3>2, <2>1
    <3>4. ConfigurationValue(c[k], stored[k]) = Meaning(c[k], stored[k])
      BY DEF ConfigurationValue, Meaning, Boolean
    <3> QED
      BY <3>2, <3>3, <3>4
  <2>3. ASSUME NEW k \in Alike(ordered, i) \ C
        PROVE  k \in DOMAIN env /\ env[k] = Meaning(i[k], ordered.page.controls[k])
    <3>1. k \in ValueFields(i) /\ k \in ValueFields(ordered.fields)
          /\ SameField(ordered, k) /\ ordered.fields[k] = i[k]
      BY <2>3 DEF Alike, ValueFields, SameField
    <3>2. /\ k \in DOMAIN params /\ (i[k].type = "boolean" => params[k].json = "bool")
          /\ params[k].value = Meaning(i[k], ordered.page.controls[k])
      BY <3>1 DEF FormsInv, OrderedKept
    <3>3. k \in InputNames(def, params)
      BY <3>1, <3>2 DEF InputNames
    <3> QED
      BY <3>2, <3>3, <2>1, <2>3
  <2> QED
    BY <2>2, <2>3 DEF EnteredAsSeen, env
<1> QED
  BY <1>1, FormsInvariance, PTL

\* A form that is refused comes back with everything its user had entered,
\* except the files, in whatever state the definition and the rows are by then.
THEOREM RefusedKeepsEntriesAlways == SpecForms => RefusedKeepsEntries
<1> DEFINE Keeps(t) ==
             tab[t].at = "sent" /\ tab'[t].at = "form" =>
               \A k \in ValueFields(tab'[t].fields) \intersect DOMAIN tab[t].fields :
                 tab[t].fields[k] = tab'[t].fields[k] =>
                   tab'[t].controls[k] = tab[t].controls[k]
<1>1. ASSUME FormsInv, NextForms, NEW t \in Tab, tab[t].at = "sent", tab'[t].at = "form"
      PROVE  Redisplay(t)
  <2>1. tab' # tab /\ tab \in [Tab -> FormPages]
    BY <1>1 DEF FormsInv, FormsTyped
  <2>2. \A at : NoForm(at).at = at
    BY DEF NoForm
  <2>3. PICK u \in Tab : \/ NewTaskPage(u) \/ TaskFormPage(u)
                         \/ \E k \in Name : Edit(u, k)
                         \/ Send(u) \/ ParseError(u) \/ Redisplay(u)
                         \/ UpdateConfiguration(u) \/ Submit(u)
    BY <1>1, <2>1 DEF NextForms, Publish
  <2>4. u = t
    BY <1>1, <2>1, <2>3 DEF NewTaskPage, TaskFormPage, Open, Edit, Send, ParseError,
       Redisplay, UpdateConfiguration, Submit, Accepted
  <2>5. ~(NewTaskPage(t) \/ TaskFormPage(t) \/ (\E k \in Name : Edit(t, k)) \/ Send(t))
    BY <1>1 DEF NewTaskPage, TaskFormPage, Open, Edit, Send
  <2>6. ~ParseError(t) /\ ~UpdateConfiguration(t) /\ ~Submit(t)
    BY <1>1, <2>1, <2>2 DEF ParseError, UpdateConfiguration, Submit, Accepted
  <2> QED
    BY <2>3, <2>4, <2>5, <2>6
<1>2. ASSUME FormsInv, NEW t \in Tab, Redisplay(t) PROVE Keeps(t)
  <2> DEFINE g == tab[t].group
             f == def[g]
             v == Filled(tab[t])
  <2>1. tab[t] \in FormPages /\ PageSound(tab[t]) /\ g \in Group
    BY <1>2 DEF FormsInv, FormsTyped, FormPages
  <2>2. tab'[t] = Form(g, f, v)
    BY <1>2 DEF Redisplay, FormsInv, FormsTyped
  <2>3. /\ f \in FormFields /\ v \in Values
        /\ ValueFields(f) \subseteq DOMAIN v
        /\ \A k \in ValueFields(f) :
             k \in DOMAIN tab[t].fields /\ tab[t].fields[k] = f[k] =>
               v[k] = tab[t].controls[k]
    BY <1>2, FilledValues
  <2> HIDE DEF g, f, v
  <2>4. /\ tab'[t].fields = f
        /\ tab'[t].controls =
             [k \in DOMAIN f |-> RenderField(f[k].type, ValueOf(v, k))]
    BY <2>2 DEF Form
  <2>5. ASSUME NEW k \in ValueFields(f), k \in DOMAIN tab[t].fields,
               tab[t].fields[k] = f[k]
        PROVE  tab'[t].controls[k] = tab[t].controls[k]
    <3>1. k \in DOMAIN f /\ f[k].type \in Type /\ f[k].type # "file"
      BY <2>3, FormFieldsSound DEF FieldsSound, ValueFields
    <3>2. ValueOf(v, k) = tab[t].controls[k]
      BY <2>3, <2>5 DEF ValueOf
    <3>3. tab[t].controls[k] \in Entries(f[k].type)
      BY <2>1, <2>5 DEF PageSound
    <3>4. tab[t].controls[k] \in Value
      BY <3>1, <3>3 DEF Entries, Type, Value
    <3>5. RenderField(f[k].type, tab[t].controls[k]) = tab[t].controls[k]
      BY <3>1, <3>3, <3>4, Rendered
    <3> QED
      BY <2>4, <3>1, <3>2, <3>5
  <2> QED
    BY <2>4, <2>5
<1>3. FormsInv /\ [NextForms]_varsForms =>
        [\A t \in Tab : tab[t].at = "sent" /\ tab'[t].at = "form" =>
           \A k \in ValueFields(tab'[t].fields) \intersect DOMAIN tab[t].fields :
             tab[t].fields[k] = tab'[t].fields[k] =>
               tab'[t].controls[k] = tab[t].controls[k]]_varsForms
  BY <1>1, <1>2
<1> QED
  BY <1>3, FormsInvariance, PTL DEF SpecForms, RefusedKeepsEntries

=============================================================================
