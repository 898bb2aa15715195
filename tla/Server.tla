------------------------------- MODULE Server -------------------------------
(***************************************************************************)
(* The start of the server, again and again and with any configuration:    *)
(* migration, the seed of default tasks, the embedded runner, the key that *)
(* signs session cookies; and the browser of a person who logs in and out  *)
(* at a server that restarts meanwhile.                                    *)
(* Who may do what once logged in is in Users, the row of the embedded     *)
(* runner in Runners.                                                      *)
(***************************************************************************)
EXTENDS Naturals

CONSTANTS
  Default,   \* conf.Seed.DefaultTasks
  MaxStarts  \* bound on the starts of the server

ASSUME ServerAssumption ==
  Default # {} /\ "none" \notin Default /\ MaxStarts \in Nat

VARIABLES
  conf,      \* what the operator configured for this start
  proc,      \* how far main is: "down", "seed", "runner", "http" or "up"
  starts,
  migrated,  \* of this process: "no", "ok" or, for good, "failed"
  seeds,     \* table seeds has the row default-tasks
  tasks,     \* the images of table tasks that are default ones
  tx,        \* what the transaction of the seed has inserted, or NoTx
  inserted,  \* how often the seed has inserted a default task
  key        \* of this process: 0 is configured, n made at start n, or NoKey

serverVars == <<conf, proc, starts, migrated, seeds, tasks, tx, inserted, key>>

VARIABLES
  at,        \* where the browser is
  session,   \* cookie oplet_auth
  oauth,     \* the key of the cookie of an exchange with a provider
  account,   \* what the provider tells of this person
  granted    \* the person consented since the last logout

browserVars == <<at, session, oauth, account, granted>>

vars == <<serverVars, browserVars>>

NoTx == {"none"}

NoKey == MaxStarts + 1

NoSession == [key |-> NoKey, user |-> FALSE]

Conf == [seed: BOOLEAN, runner: BOOLEAN, keys: {"none", "usable", "broken"}]

\* incomplete: without a subject or an email; large: with an access token that
\* makes the session too long for a cookie
Account == {"complete", "incomplete", "large"}

Init ==
  /\ conf \in Conf
  /\ proc = "down" /\ starts = 0 /\ migrated = "no"
  /\ seeds = FALSE /\ tasks = {} /\ tx = NoTx
  /\ inserted = [t \in Default |-> 0] /\ key = NoKey
  /\ at = "away" /\ session = NoSession /\ oauth = NoKey
  /\ account \in Account /\ granted = FALSE

-----------------------------------------------------------------------------
(* main.                                                                   *)

Boot ==
  /\ proc = "down" /\ starts < MaxStarts
  /\ proc' = "seed" /\ starts' = starts + 1
  /\ conf' \in Conf
  /\ UNCHANGED <<migrated, seeds, tasks, tx, inserted, key, browserVars>>

\* os.Exit after an error of any step, an interrupt or a crash: an open
\* transaction is rolled back
Exit ==
  /\ proc # "down" /\ proc' = "down" /\ migrated' = "no" /\ tx' = NoTx
  /\ UNCHANGED <<conf, starts, seeds, tasks, inserted, key, browserVars>>

\* getDatabase, before the first statement of the process: the error stays
NeedsDatabase ==
  \/ proc = "seed" /\ conf.seed
  \/ proc = "runner" /\ conf.runner
  \/ proc = "up" /\ at = "checked"

Migrate ==
  /\ NeedsDatabase /\ migrated = "no" /\ migrated' \in {"ok", "failed"}
  /\ UNCHANGED <<conf, proc, starts, seeds, tasks, tx, inserted, key, browserVars>>

Goto(next) ==
  proc' = next /\ UNCHANGED <<conf, starts, migrated, seeds, tasks, tx, inserted, key, browserVars>>

\* SeedFromConfig: nothing to do, or done by an earlier start
SkipSeed == proc = "seed" /\ (~conf.seed \/ (migrated = "ok" /\ seeds)) /\ Goto("runner")

\* Mutant of BeginSeed: main does not wait for the seed
SeedInBackground ==
  /\ proc = "seed" /\ conf.seed /\ migrated = "ok" /\ ~seeds
  /\ tx = NoTx /\ tx' = {} /\ proc' = "runner"
  /\ UNCHANGED <<conf, starts, migrated, seeds, tasks, inserted, key, browserVars>>

BeginSeed ==
  /\ proc = "seed" /\ conf.seed /\ migrated = "ok" /\ ~seeds
  /\ tx = NoTx /\ tx' = {}
  /\ UNCHANGED <<conf, proc, starts, migrated, seeds, tasks, inserted, key, browserVars>>

\* Mutant of SeedTask: each task is a transaction of its own
SeedTaskAtOnce(t) ==
  /\ tx # NoTx /\ t \notin tx /\ t \notin tasks
  /\ tx' = tx \cup {t} /\ tasks' = tasks \cup {t}
  /\ inserted' = [inserted EXCEPT ![t] = inserted[t] + 1]
  /\ UNCHANGED <<conf, proc, starts, migrated, seeds, key, browserVars>>

\* The definition is fetched, and the task inserted; if the registry fails, or
\* an administrator created a task of that image before, the server exits
SeedTask(t) ==
  /\ tx # NoTx /\ t \notin tx /\ t \notin tasks
  /\ tx' = tx \cup {t}
  /\ UNCHANGED <<conf, proc, starts, migrated, seeds, tasks, inserted, key, browserVars>>

EndSeed ==
  /\ tx = Default
  /\ tasks' = tasks \cup tx /\ seeds' = TRUE /\ tx' = NoTx /\ proc' = "runner"
  /\ inserted' = [t \in Default |-> inserted[t] + 1]
  /\ UNCHANGED <<conf, starts, migrated, key, browserVars>>

StartRunner == proc = "runner" /\ (~conf.runner \/ migrated = "ok") /\ Goto("http")

\* getAuthnHandlerFromConfig; a provider that cannot be discovered is an exit.
\* The length of a configured block key is not checked: with a wrong one no
\* cookie can be made or read.
ServeHTTP ==
  /\ proc = "http" /\ proc' = "up"
  /\ key' = CASE conf.keys = "none"   -> starts
              [] conf.keys = "usable" -> 0
              [] conf.keys = "broken" -> NoKey
  /\ UNCHANGED <<conf, starts, migrated, seeds, tasks, tx, inserted, browserVars>>

\* Administrators, on the pages that Parameters models
CreateTask(t) ==
  /\ proc = "up" /\ migrated = "ok" /\ t \notin tasks /\ tasks' = tasks \cup {t}
  /\ UNCHANGED <<conf, proc, starts, migrated, seeds, tx, inserted, key, browserVars>>

DeleteTask(t) ==
  /\ proc = "up" /\ migrated = "ok" /\ t \in tasks /\ tasks' = tasks \ {t}
  /\ UNCHANGED <<conf, proc, starts, migrated, seeds, tx, inserted, key, browserVars>>

-----------------------------------------------------------------------------
(* The browser.                                                            *)

\* A cookie can be decoded with the key it was made with
Valid(k) == k = key /\ k # NoKey

\* Store.Get of a session, and Save of another one in its place
CanReplace(k) == key # NoKey /\ (k = NoKey \/ Valid(k))

\* retrieveSessionUser
HasUser == Valid(session.key) /\ session.user

Visit ==
  /\ at \in {"away", "home", "error"} /\ at' = "request"
  /\ UNCHANGED <<serverVars, session, oauth, account, granted>>

\* The person gives up, or the browser forgets its session cookies
Leave ==
  /\ at # "away" /\ at' = "away"
  /\ \/ UNCHANGED <<session, oauth, granted>>
     \/ session' = NoSession /\ oauth' = NoKey /\ granted' = FALSE
  /\ UNCHANGED <<serverVars, account>>

Middleware ==
  /\ proc = "up" /\ at = "request"
  /\ at' = IF HasUser THEN "checked" ELSE "login"
  /\ UNCHANGED <<serverVars, session, oauth, account, granted>>

\* The page, for which the database is needed
Page ==
  /\ proc = "up" /\ at = "checked" /\ migrated # "no"
  /\ at' = IF migrated = "ok" THEN "home" ELSE "error"
  /\ UNCHANGED <<serverVars, session, oauth, account, granted>>

\* A link of the login page; the exchange begins with a cookie of its own
handleProvider ==
  /\ proc = "up" /\ at = "login"
  /\ oauth' = IF key # NoKey THEN key ELSE oauth
  /\ at' = IF key # NoKey THEN "provider" ELSE "error"
  /\ UNCHANGED <<serverVars, session, account, granted>>

Grant ==
  /\ at = "provider" /\ at' = "granted"
  /\ UNCHANGED <<serverVars, session, oauth, account, granted>>

Deny ==
  /\ at = "provider" /\ at' = "denied"
  /\ UNCHANGED <<serverVars, session, oauth, account, granted>>

\* storeSessionUser: getSession fails for a cookie of another key, and Save for
\* a session that is too long
CanStoreSession == CanReplace(session.key) /\ account # "large"

\* CompleteUserAuth consumes the cookie of the exchange, if it can read it
handleProviderCallback ==
  /\ proc = "up" /\ at \in {"granted", "denied"}
  /\ oauth' = IF Valid(oauth) THEN NoKey ELSE oauth
  /\ IF at = "granted" /\ Valid(oauth) /\ account # "incomplete" /\ CanStoreSession
     THEN at' = "request" /\ session' = [key |-> key, user |-> TRUE] /\ granted' = TRUE
     ELSE at' = "logout" /\ UNCHANGED <<session, granted>>
  /\ UNCHANGED <<serverVars, account>>

\* A link of every page
AskLogout ==
  /\ at = "home" /\ at' = "logout"
  /\ UNCHANGED <<serverVars, session, oauth, account, granted>>

\* Mutant of handleLogout: a session that cannot be read is not cleared
LogoutKnown ==
  /\ proc = "up" /\ at = "logout"
  /\ session' = IF HasUser THEN NoSession ELSE session
  /\ granted' = FALSE
  /\ at' = IF HasUser THEN "leaving" ELSE "request"
  /\ UNCHANGED <<serverVars, oauth, account>>

\* Mutant of handleLogout: the cleared session is not saved
LogoutUnsaved ==
  /\ proc = "up" /\ at = "logout"
  /\ granted' = FALSE
  /\ at' = IF HasUser THEN "leaving" ELSE "request"
  /\ UNCHANGED <<serverVars, session, oauth, account>>

\* clearSession, also of a cookie that cannot be decoded
handleLogout ==
  /\ proc = "up" /\ at = "logout"
  /\ IF key # NoKey
     THEN session' = NoSession /\ granted' = FALSE
     ELSE UNCHANGED <<session, granted>>
  /\ at' = CASE key = NoKey -> "error"
             [] HasUser     -> "leaving"
             [] OTHER       -> "request"
  /\ UNCHANGED <<serverVars, oauth, account>>

\* gothic.Logout fails for a cookie of another key
handleProviderLogout ==
  /\ proc = "up" /\ at = "leaving"
  /\ oauth' = IF CanReplace(oauth) THEN NoKey ELSE oauth
  /\ at' = IF CanReplace(oauth) THEN "request" ELSE "error"
  /\ UNCHANGED <<serverVars, session, account, granted>>

-----------------------------------------------------------------------------
Answer ==
  \/ Middleware \/ Page \/ handleProvider \/ handleProviderCallback
  \/ handleLogout \/ handleProviderLogout

Next ==
  \/ Boot \/ Exit \/ Migrate \/ SkipSeed \/ BeginSeed \/ EndSeed \/ StartRunner \/ ServeHTTP
  \/ \E t \in Default : SeedTask(t) \/ CreateTask(t) \/ DeleteTask(t)
  \/ Visit \/ Leave \/ Answer \/ Grant \/ Deny \/ AskLogout

\* A server that is up answers and migrates; the person follows the links, and
\* does not refuse the provider for ever.  Nothing starts or stops the server.
Fairness ==
  WF_vars(Answer) /\ WF_vars(Migrate /\ proc = "up") /\ WF_vars(Grant \/ Deny) /\ SF_vars(Grant)

Spec == Init /\ [][Next]_vars /\ Fairness

-----------------------------------------------------------------------------
(* Properties.                                                             *)

\* Server and browser are well formed; a transaction is open only while the
\* store is being seeded.
TypeOK ==
  /\ conf \in Conf
  /\ proc \in {"down", "seed", "runner", "http", "up"} /\ starts \in 0..MaxStarts
  /\ migrated \in {"no", "ok", "failed"} /\ seeds \in BOOLEAN
  /\ tasks \subseteq Default /\ key \in 0..NoKey
  /\ tx = NoTx \/ (tx \subseteq Default /\ proc = "seed")
  /\ inserted \in [Default -> Nat]
  /\ at \in {"away", "request", "checked", "home", "error", "login", "provider",
             "granted", "denied", "logout", "leaving"}
  /\ session \in [key: 0..NoKey, user: BOOLEAN] /\ oauth \in 0..NoKey
  /\ account \in Account /\ granted \in BOOLEAN

\* The default tasks are inserted all together and once, whatever fetches fail
\* and wherever a start is cut off; none comes back after an administrator
\* deleted it; and a server that seeds is not up before they are there.
SeededOnce ==
  /\ \A t \in Default : inserted[t] = IF seeds THEN 1 ELSE 0
  /\ proc \in {"runner", "http", "up"} /\ conf.seed => seeds

\* After a logout no page is served until the person consents again, whatever
\* keys the cookies in the browser were made with.
LogoutHolds == at = "home" => granted /\ account = "complete"

\* A person who wants in, whom the provider knows, gets a page, although a
\* cookie made before a restart makes the first login fail: the logout that
\* follows removes it.  Otherwise the person leaves, or the server goes down.
\* Excepted are a server whose migration has failed or whose session key is
\* broken, and an account whose session is too long for a cookie: where every
\* Save fails, every login ends in a logout.
LoginRecovers ==
  at = "request" /\ proc = "up" /\ key # NoKey /\ account = "complete"
    ~> at \in {"home", "away"} \/ proc # "up" \/ migrated = "failed"
=============================================================================
