---------------------------- MODULE ServerProofs ----------------------------
(***************************************************************************)
(* Proofs about Server, for any number of starts and default tasks.        *)
(***************************************************************************)
EXTENDS Server, TLAPS

\* The transaction of the seed is open only before the row default-tasks is
\* there, so that EndSeed inserts a task for the first time
Seeding == tx # NoTx => proc = "seed" /\ conf.seed /\ ~seeds

\* What a page relies on: a cookie with a user was made by a login since the
\* last logout, and the middleware has seen such a cookie
Cookies ==
  /\ session.user => granted /\ account = "complete"
  /\ at = "checked" => session.user

IInv == TypeOK /\ SeededOnce /\ Seeding /\ Cookies /\ LogoutHolds

\* Before the first start
LEMMA InvInit == Init => IInv
<1> SUFFICES ASSUME Init PROVE IInv
  OBVIOUS
<1>0. NoKey \in 0..NoKey /\ MaxStarts \in Nat
  BY ServerAssumption DEF NoKey
<1>a. NoSession \in [key: 0..NoKey, user: BOOLEAN]
  BY <1>0 DEF NoSession
<1>b. starts \in 0..MaxStarts /\ inserted \in [Default -> Nat]
  BY <1>0 DEF Init
<1>c. /\ account \in Account /\ granted \in BOOLEAN /\ seeds \in BOOLEAN
      /\ tasks \subseteq Default
  BY DEF Init
<1>1. TypeOK
  BY <1>0, <1>a, <1>b, <1>c DEF Init, TypeOK
<1>2. SeededOnce /\ Seeding /\ Cookies /\ LogoutHolds
  BY DEF Init, SeededOnce, Seeding, Cookies, LogoutHolds, NoSession
<1> QED
  BY <1>1, <1>2 DEF IInv

\* A step of main, or of an administrator, that leaves the browser alone
LEMMA InvServer ==
  ASSUME IInv,
         \/ Boot \/ Exit \/ Migrate \/ SkipSeed \/ BeginSeed \/ EndSeed
         \/ StartRunner \/ ServeHTTP
         \/ \E t \in Default : SeedTask(t) \/ CreateTask(t) \/ DeleteTask(t)
  PROVE  IInv'
<1> USE DEF IInv, browserVars
<1>k. MaxStarts \in Nat /\ NoKey = MaxStarts + 1
  BY ServerAssumption DEF NoKey
<1>b. Cookies' /\ LogoutHolds'
  BY DEF Boot, Exit, Migrate, SkipSeed, BeginSeed, EndSeed, StartRunner, Goto, ServeHTTP,
         SeedTask, CreateTask, DeleteTask, Cookies, LogoutHolds
<1>1. CASE Boot
  BY <1>1, <1>b, <1>k DEF Boot, TypeOK, SeededOnce, Seeding
<1>2. CASE Exit
  BY <1>2, <1>b DEF Exit, TypeOK, SeededOnce, Seeding
<1>3. CASE Migrate
  BY <1>3, <1>b DEF Migrate, TypeOK, SeededOnce, Seeding
<1>4. CASE SkipSeed
  <2>1. tx = NoTx
    BY <1>4 DEF SkipSeed, Seeding
  <2> QED
    BY <1>4, <1>b, <2>1 DEF SkipSeed, Goto, TypeOK, SeededOnce, Seeding
<1>5. CASE BeginSeed
  BY <1>5, <1>b DEF BeginSeed, TypeOK, SeededOnce, Seeding
<1>6. CASE EndSeed
  <2>1. tx # NoTx
    BY <1>6, ServerAssumption DEF EndSeed, NoTx
  <2>2. \A t \in Default : inserted[t] = 0
    BY <2>1 DEF Seeding, SeededOnce
  <2>3. TypeOK'
    BY <1>6, <2>2 DEF EndSeed, TypeOK
  <2> QED
    BY <1>6, <1>b, <2>2, <2>3 DEF EndSeed, SeededOnce, Seeding
<1>7. CASE StartRunner
  BY <1>7, <1>b DEF StartRunner, Goto, TypeOK, SeededOnce, Seeding
<1>8. CASE ServeHTTP
  <2>1. conf.keys \in {"none", "usable", "broken"}
    BY DEF TypeOK, Conf
  <2>2. key' = starts \/ key' = 0 \/ key' = NoKey
    BY <1>8, <2>1 DEF ServeHTTP
  <2>3. key' \in 0..NoKey
    BY <1>k, <2>2 DEF TypeOK
  <2>4. UNCHANGED <<conf, starts, migrated, seeds, tasks, tx, inserted, browserVars>>
        /\ proc = "http" /\ proc' = "up"
    BY <1>8 DEF ServeHTTP
  <2> QED
    BY <1>b, <2>3, <2>4 DEF TypeOK, SeededOnce, Seeding
<1>9. ASSUME NEW t \in Default, SeedTask(t) PROVE IInv'
  <2>1. tx \subseteq Default /\ proc = "seed" /\ tx' \subseteq Default
    BY <1>9 DEF SeedTask, TypeOK
  <2> QED
    BY <1>9, <1>b, <2>1 DEF SeedTask, TypeOK, SeededOnce, Seeding
<1>10. ASSUME NEW t \in Default, CreateTask(t) \/ DeleteTask(t) PROVE IInv'
  BY <1>10, <1>b DEF CreateTask, DeleteTask, TypeOK, SeededOnce, Seeding
<1> QED
  BY <1>1, <1>2, <1>3, <1>4, <1>5, <1>6, <1>7, <1>8, <1>9, <1>10

\* A step of the browser, of the provider, or of a handler that answers it
LEMMA InvBrowser ==
  ASSUME IInv, Visit \/ Leave \/ Answer \/ Grant \/ Deny \/ AskLogout
  PROVE  IInv'
<1> USE DEF IInv
<1>k. NoKey \in 0..NoKey
  BY ServerAssumption DEF NoKey
<1>n. NoSession \in [key: 0..NoKey, user: BOOLEAN] /\ ~NoSession.user
  BY <1>k DEF NoSession
<1>s. SeededOnce' /\ Seeding'
  BY DEF Visit, Leave, Answer, Grant, Deny, AskLogout, Middleware, Page, handleProvider,
         handleProviderCallback, handleLogout, handleProviderLogout, serverVars,
         SeededOnce, Seeding
<1>1. CASE Visit \/ Grant \/ Deny \/ AskLogout
  BY <1>1, <1>s
     DEF Visit, Grant, Deny, AskLogout, serverVars, TypeOK, Cookies, LogoutHolds
<1>2. CASE Leave
  <2>1. TypeOK'
    BY <1>2, <1>k, <1>n DEF Leave, serverVars, TypeOK
  <2>2. Cookies' /\ LogoutHolds'
    BY <1>2, <1>n DEF Leave, serverVars, Cookies, LogoutHolds
  <2> QED
    BY <1>s, <2>1, <2>2
<1>3. CASE Middleware
  BY <1>3, <1>s DEF Middleware, HasUser, serverVars, TypeOK, Cookies, LogoutHolds
<1>4. CASE Page
  BY <1>4, <1>s DEF Page, serverVars, TypeOK, Cookies, LogoutHolds
<1>5. CASE handleProvider \/ handleProviderLogout
  BY <1>5, <1>s, <1>k
     DEF handleProvider, handleProviderLogout, serverVars, TypeOK, Cookies, LogoutHolds
<1>6. CASE handleProviderCallback
  <2>1. [key |-> key, user |-> TRUE] \in [key: 0..NoKey, user: BOOLEAN]
    BY DEF TypeOK
  <2>2. TypeOK'
    BY <1>6, <1>k, <2>1 DEF handleProviderCallback, serverVars, TypeOK
  <2>3. Cookies' /\ LogoutHolds'
    <3>1. CASE at' = "request"
      <4>1. account = "complete" /\ granted'
        BY <1>6, <3>1 DEF handleProviderCallback, CanStoreSession, TypeOK, Account
      <4> QED
        BY <1>6, <3>1, <4>1 DEF handleProviderCallback, serverVars, Cookies, LogoutHolds
    <3>2. CASE at' = "logout"
      <4>1. UNCHANGED <<session, account, granted>>
        BY <1>6, <3>2 DEF handleProviderCallback
      <4> QED
        BY <3>2, <4>1 DEF Cookies, LogoutHolds
    <3> QED
      BY <1>6, <3>1, <3>2 DEF handleProviderCallback
  <2> QED
    BY <1>s, <2>2, <2>3
<1>7. CASE handleLogout
  BY <1>7, <1>s, <1>n DEF handleLogout, serverVars, TypeOK, Cookies, LogoutHolds
<1> QED
  BY <1>1, <1>2, <1>3, <1>4, <1>5, <1>6, <1>7 DEF Answer

\* The invariant is inductive
LEMMA InvNext == IInv /\ [Next]_vars => IInv'
<1> SUFFICES ASSUME IInv, [Next]_vars PROVE IInv'
  OBVIOUS
<1>1. CASE UNCHANGED vars
  BY <1>1 DEF vars, serverVars, browserVars, IInv, TypeOK, SeededOnce, Seeding, Cookies,
              LogoutHolds
<1>2. CASE Next
  BY <1>2, InvServer, InvBrowser DEF Next
<1> QED
  BY <1>1, <1>2

\* IInv is an invariant of a server that is started any number of times, with
\* any configuration, and of the browser of a person who logs in and out.
THEOREM ServerInvariance == Spec => []IInv
  BY InvInit, InvNext, PTL DEF Spec

\* Server and browser stay well formed, and a transaction is open only while
\* the store is being seeded, for any number of starts.
THEOREM ServerTypeCorrect == Spec => []TypeOK
<1>1. IInv => TypeOK
  BY DEF IInv
<1> QED
  BY <1>1, ServerInvariance, PTL

\* The seed inserts the default tasks all together and once, for any number of
\* starts that fail or are cut off anywhere.
THEOREM SeededOnceAlways == Spec => []SeededOnce
<1>1. IInv => SeededOnce
  BY DEF IInv
<1> QED
  BY <1>1, ServerInvariance, PTL

\* After a logout no page is served before the next consent, whatever keys the
\* cookies in the browser were made with.
THEOREM LogoutHoldsAlways == Spec => []LogoutHolds
<1>1. IInv => LogoutHolds
  BY DEF IInv
<1> QED
  BY <1>1, ServerInvariance, PTL

=============================================================================
