--------------------------- MODULE RunnersProofs ----------------------------
(***************************************************************************)
(* Proofs about RunnerPages, and so about Runners, for any number of       *)
(* runners, names, requests, tokens and renewals in flight.                *)
(***************************************************************************)
EXTENDS RunnerPages, TLAPS

(***************************************************************************)
(* The inductive invariant.  Tokens are unique and never reused, so that a *)
(* revoked one is in no other row; and a form on which nothing overlapped  *)
(* waits for one renewal at most, whose answer, once there is one, is the  *)
(* token of the row.                                                       *)
(***************************************************************************)
Tokens ==
  /\ \A i \in 1..n : runners[i].token \in 1..ntokens
  /\ \A i, j \in 1..n : runners[i].token = runners[j].token => i = j
  /\ revoked \subseteq 1..ntokens

Waiting ==
  /\ tab.view = "edit" => tab.id \in 1..n
  /\ tab.view # "edit" => sent = 0 /\ answers = {}

Answered ==
  tab.view = "edit" /\ ~behind =>
    /\ sent = 0 \/ (sent = 1 /\ answers = {})
    /\ Live(tab.id) =>
         IF answers = {} THEN tab.token = runners[tab.id].token
         ELSE answers = {runners[tab.id].token}

Registry == TypeOK /\ Tokens /\ RevokedStaysRevoked /\ EmbeddedIsKnown

-----------------------------------------------------------------------------
(* The registry.                                                           *)

\* A row is inserted with a token of its own
LEMMA InsertRegistry ==
  ASSUME TypeOK, Tokens, RevokedStaysRevoked, NEW name \in Name, Insert(name),
         UNCHANGED <<req, revoked>>,
         embedded' \in 0..MaxTokens, server' \in {"down", "up", "failed"}
  PROVE  TypeOK' /\ Tokens' /\ RevokedStaysRevoked'
<1> DEFINE new == [name |-> name, token |-> ntokens + 1, deleted |-> FALSE]
<1>1. new \in Runner /\ n + 1 \in Id /\ n' = n + 1 /\ ntokens' = ntokens + 1
  BY RunnersAssumption DEF Insert, TypeOK, Runner, Id
<1>2. runners' = [runners EXCEPT ![n + 1] = new]
  BY DEF Insert
<1> HIDE DEF new
<1>3. TypeOK'
  BY <1>1, <1>2, RunnersAssumption DEF TypeOK, Insert
<1>4. \A i \in 1..n : i \in Id /\ i # n + 1 /\ runners'[i] = runners[i]
  BY <1>1, <1>2, RunnersAssumption DEF TypeOK, Id
<1>5. runners'[n + 1] = new /\ new.token = ntokens + 1
  BY <1>1, <1>2 DEF TypeOK, new
<1>6. \A i \in 1..n' : i \in 1..n \/ i = n + 1
  BY <1>1 DEF TypeOK
<1>7. ntokens \in Nat
  BY RunnersAssumption DEF TypeOK
<1>8. Tokens'
  BY <1>1, <1>4, <1>5, <1>6, <1>7 DEF Tokens
<1>9. RevokedStaysRevoked'
  BY <1>1, <1>4, <1>5, <1>6, <1>7 DEF Tokens, RevokedStaysRevoked, Live
<1> QED
  BY <1>3, <1>8, <1>9

\* Every action of Runners preserves its part of the invariant
LEMMA RegistryNext == ASSUME Registry, Next PROVE Registry'
<1> USE DEF Registry
<1>0. /\ n \in Nat /\ ntokens \in Nat /\ 1..n \subseteq Id
      /\ \A i \in Id : Live(i) => i \in 1..n
  BY RunnersAssumption DEF TypeOK, Id, Live
<1>1. CASE Start
  <2>1. ASSUME NEW i \in 1..n, Live(i), embedded' = runners[i].token, server' = "up",
               UNCHANGED <<n, runners, ntokens, req, revoked>>
        PROVE  Registry'
    <3>1. i \in Id /\ runners[i].token \in 0..MaxTokens
      BY <1>0, <2>1 DEF TypeOK, Runner
    <3> QED
      BY <2>1, <3>1 DEF TypeOK, Tokens, RevokedStaysRevoked, EmbeddedIsKnown, Live
  <2>2. ASSUME Insert(Embedded), embedded' = ntokens + 1, server' = "up",
               UNCHANGED <<req, revoked>>
        PROVE  Registry'
    <3>1. ntokens + 1 \in 0..MaxTokens /\ n + 1 \in Id /\ n' = n + 1
      BY <1>0, <2>2, RunnersAssumption DEF Insert, TypeOK, Id
    <3>2. TypeOK' /\ Tokens' /\ RevokedStaysRevoked'
      BY <2>2, <3>1, InsertRegistry, RunnersAssumption
    <3>3. runners'[n + 1].token = ntokens + 1 /\ ~runners'[n + 1].deleted
      BY <2>2, <3>1 DEF Insert, TypeOK
    <3>4. n + 1 \in 1..n'
      BY <1>0, <3>1
    <3>5. EmbeddedIsKnown'
      BY <2>2, <3>1, <3>3, <3>4 DEF EmbeddedIsKnown, Live
    <3> QED
      BY <3>2, <3>5
  <2>3. ASSUME server' = "failed", UNCHANGED <<n, runners, ntokens, embedded, req, revoked>>
        PROVE  Registry'
    BY <2>3 DEF TypeOK, Tokens, RevokedStaysRevoked, EmbeddedIsKnown, Live
  <2> QED
    BY <1>1, <2>1, <2>2, <2>3 DEF Start
<1>2. CASE Stop
  <2>1. NoRequest \in [id: 0..MaxRunners, stored: Runner]
    BY RunnersAssumption DEF NoRequest, NoRunner, Runner
  <2> QED
    BY <1>2, <2>1 DEF Stop, TypeOK, Tokens, RevokedStaysRevoked, EmbeddedIsKnown, Live
<1>3. ASSUME NEW name \in Name, CreateRunner(name) PROVE Registry'
  <2>1. TypeOK' /\ Tokens' /\ RevokedStaysRevoked'
    BY <1>3, InsertRegistry DEF CreateRunner, TypeOK
  <2>2. \A i \in 1..n : i \in 1..n' /\ runners'[i] = runners[i]
    BY <1>0, <1>3 DEF CreateRunner, Insert, TypeOK
  <2>3. EmbeddedIsKnown'
    BY <1>0, <1>3, <2>2 DEF CreateRunner, EmbeddedIsKnown, Live
  <2> QED
    BY <2>1, <2>3
<1>4. ASSUME NEW i \in Id, DeleteRunner(i) PROVE Registry'
  <2>1. /\ i \in 1..n /\ runners[i] \in Runner
        /\ [runners[i] EXCEPT !.deleted = TRUE] \in Runner
        /\ [runners[i] EXCEPT !.deleted = TRUE].token = runners[i].token
        /\ [runners[i] EXCEPT !.deleted = TRUE].deleted
    BY <1>4, <1>0 DEF DeleteRunner, TypeOK, Runner
  <2>2. /\ runners'[i] = [runners[i] EXCEPT !.deleted = TRUE]
        /\ \A j \in Id : j # i => runners'[j] = runners[j]
    BY <1>4 DEF DeleteRunner, TypeOK
  <2>3. runners[i].token \in 1..ntokens /\ ntokens <= MaxTokens
    BY <2>1, RunnersAssumption DEF Tokens, TypeOK
  <2>4. TypeOK'
    BY <1>4, <1>0, <2>1, <2>3, RunnersAssumption DEF DeleteRunner, TypeOK
  <2>5. \A j \in Id : runners'[j].token = runners[j].token
    BY <2>1, <2>2
  <2>6. Tokens'
    BY <1>4, <1>0, <2>3, <2>5 DEF DeleteRunner, Tokens
  <2>7. \A j \in Id : Live(j)' => Live(j) /\ j # i
    BY <1>4, <2>1, <2>2 DEF DeleteRunner, Live
  <2>8. RevokedStaysRevoked'
    BY <1>4, <1>0, <2>1, <2>5, <2>7 DEF DeleteRunner, Tokens, RevokedStaysRevoked
  <2>9. EmbeddedIsKnown'
    BY <1>4, <2>2 DEF DeleteRunner, EmbeddedIsKnown, Live
  <2> QED
    BY <2>4, <2>6, <2>8, <2>9
<1>5. ASSUME NEW i \in Id, RegenerateToken(i) PROVE Registry'
  <2> DEFINE new == [runners[i] EXCEPT !.token = ntokens + 1]
  <2>1. /\ i \in 1..n /\ runners[i] \in Runner /\ ntokens + 1 \in 0..MaxTokens
        /\ ntokens' = ntokens + 1
    BY <1>5, <1>0, RunnersAssumption DEF RegenerateToken, TypeOK
  <2>2. new \in Runner /\ new.token = ntokens + 1 /\ new.deleted = runners[i].deleted
    BY <2>1 DEF Runner
  <2>3. runners' = [runners EXCEPT ![i] = new]
    BY <1>5 DEF RegenerateToken
  <2> HIDE DEF new
  <2>4. runners'[i] = new /\ \A j \in Id : j # i => runners'[j] = runners[j]
    BY <2>3 DEF TypeOK
  <2>5. runners[i].token \in 1..ntokens /\ ntokens <= MaxTokens
    BY <2>1, RunnersAssumption DEF Tokens, TypeOK
  <2>6. TypeOK'
    BY <1>5, <1>0, <2>1, <2>2, <2>3, <2>5, RunnersAssumption DEF RegenerateToken, TypeOK
  <2>7. Tokens'
    BY <1>5, <1>0, <2>1, <2>2, <2>4, <2>5 DEF RegenerateToken, Tokens
  <2>8. \A j \in Id : Live(j)' <=> Live(j)
    BY <1>5, <2>2, <2>4 DEF RegenerateToken, Live
  <2>9. RevokedStaysRevoked'
    BY <1>5, <1>0, <2>1, <2>2, <2>4, <2>8 DEF RegenerateToken, Tokens, RevokedStaysRevoked
  <2>10. EmbeddedIsKnown'
    BY <1>5, <2>4, <2>8 DEF RegenerateToken, EmbeddedIsKnown
  <2> QED
    BY <2>6, <2>7, <2>9, <2>10
<1>6. ASSUME NEW i \in Id, NEW name \in Name, UpdateName(i, name) PROVE Registry'
  <2> DEFINE new == [runners[i] EXCEPT !.name = name]
  <2>1. runners[i] \in Runner /\ runners' = [runners EXCEPT ![i] = new]
    BY <1>6 DEF UpdateName, TypeOK
  <2>2. /\ new \in Runner /\ new.token = runners[i].token
        /\ new.deleted = runners[i].deleted
    BY <2>1 DEF Runner
  <2> HIDE DEF new
  <2>3. /\ \A j \in Id : runners'[j].token = runners[j].token
        /\ \A j \in Id : runners'[j].deleted = runners[j].deleted
    BY <2>1, <2>2 DEF TypeOK
  <2>4. TypeOK'
    BY <1>6, <2>1, <2>2 DEF UpdateName, TypeOK
  <2>5. Tokens' /\ \A j \in Id : Live(j)' <=> Live(j)
    BY <1>6, <1>0, <2>3 DEF UpdateName, Tokens, Live
  <2>6. RevokedStaysRevoked' /\ EmbeddedIsKnown'
    BY <1>6, <2>3, <2>5 DEF UpdateName, RevokedStaysRevoked, EmbeddedIsKnown
  <2> QED
    BY <2>4, <2>5, <2>6
<1>7. ASSUME NEW q \in Request, NEW i \in Id, GetRunnerByToken(q, i) PROVE Registry'
  <2>1. [id |-> i, stored |-> runners[i]] \in [id: 0..MaxRunners, stored: Runner]
    BY RunnersAssumption DEF TypeOK, Id
  <2> QED
    BY <1>7, <2>1 DEF GetRunnerByToken, TypeOK, Tokens, RevokedStaysRevoked,
                      EmbeddedIsKnown, Live
<1>8. ASSUME NEW q \in Request, UpdateContactAt(q) PROVE Registry'
  <2>1. NoRequest \in [id: 0..MaxRunners, stored: Runner]
    BY RunnersAssumption DEF NoRequest, NoRunner, Runner
  <2> QED
    BY <1>8, <2>1 DEF UpdateContactAt, TypeOK, Tokens, RevokedStaysRevoked,
                      EmbeddedIsKnown, Live
<1> QED
  BY <1>1, <1>2, <1>3, <1>4, <1>5, <1>6, <1>7, <1>8 DEF Next

-----------------------------------------------------------------------------
(* The browser.                                                            *)

Tab == [view: {"elsewhere", "toList", "list", "toEdit", "edit", "new", "error"},
        id: 0..MaxRunners, name: Name, token: 0..MaxTokens, rows: SUBSET Id]

PageTypes ==
  /\ tab \in Tab /\ sent \in 0..MaxFlight /\ answers \in SUBSET (1..MaxTokens)
  /\ behind \in BOOLEAN

Browser == PageTypes /\ Waiting /\ Answered

\* A page other than the form of a runner is loaded, or is shown
LEMMA LeaveBrowser ==
  ASSUME NEW next \in Tab, next.view # "edit", Leave(next)
  PROVE  Browser'
<1>1. tab' = next /\ sent' = 0 /\ answers' = {} /\ behind' = FALSE
  BY DEF Leave
<1>2. 0 \in 0..MaxFlight /\ FALSE \in BOOLEAN
  BY RunnerPagesAssumption
<1> QED
  BY <1>1, <1>2 DEF Browser, PageTypes, Waiting, Answered

\* A tab with nothing on it
LEMMA BlankType == Blank \in Tab /\ Blank.view = "elsewhere"
BY RunnersAssumption DEF Blank, Tab

\* What the browser loads next
LEMMA LoadingType ==
  ASSUME NEW view \in {"toList", "toEdit", "new", "error"}, NEW i \in 0..MaxRunners
  PROVE  Loading(view, i) \in Tab /\ Loading(view, i).view # "edit"
BY BlankType DEF Loading, Tab

\* The page stays as it is, and no row in the table gets another token
LEMMA QuietBrowser ==
  ASSUME Browser, UNCHANGED pageVars,
         \A i \in 1..n : /\ i \in 1..n' /\ runners'[i].token = runners[i].token
                         /\ Live(i)' => Live(i)
  PROVE  Browser'
<1>1. PageTypes' /\ Waiting'
  BY DEF Browser, PageTypes, Waiting, pageVars
<1>2. CASE tab.view = "edit" /\ ~behind
  <2>1. tab.id \in 1..n
    BY <1>2 DEF Browser, Waiting
  <2>2. /\ runners'[tab.id].token = runners[tab.id].token
        /\ Live(tab.id)' => Live(tab.id)
    BY <2>1 DEF pageVars
  <2> QED
    BY <1>1, <1>2, <2>2 DEF Browser, Answered, pageVars
<1>3. CASE ~(tab.view = "edit" /\ ~behind)
  BY <1>1, <1>3 DEF Browser, Answered, pageVars
<1> QED
  BY <1>2, <1>3

\* The actions of Runners that renew no token and stop no server
LEMMA QuietRows ==
  ASSUME Registry,
         \/ Start
         \/ \E name \in Name : CreateRunner(name)
         \/ \E i \in Id : DeleteRunner(i)
         \/ \E i \in Id, name \in Name : UpdateName(i, name)
         \/ \E q \in Request, i \in Id : GetRunnerByToken(q, i)
         \/ \E q \in Request : UpdateContactAt(q)
  PROVE  \A i \in 1..n : /\ i \in 1..n' /\ runners'[i].token = runners[i].token
                         /\ Live(i)' => Live(i)
<1>0. n \in Nat /\ 1..n \subseteq Id /\ runners \in [Id -> Runner]
  BY RunnersAssumption DEF Registry, TypeOK, Id
<1>1. ASSUME NEW name \in Name, Insert(name)
      PROVE  \A i \in 1..n : i \in 1..n' /\ runners'[i] = runners[i]
  BY <1>0, <1>1 DEF Insert
<1>2. CASE Start
  BY <1>0, <1>1, <1>2, RunnersAssumption DEF Start, Live
<1>3. CASE \E name \in Name : CreateRunner(name)
  BY <1>0, <1>1, <1>3 DEF CreateRunner, Live
<1>4. CASE \E i \in Id : DeleteRunner(i)
  BY <1>0, <1>4 DEF DeleteRunner, Live, Runner
<1>5. CASE \E i \in Id, name \in Name : UpdateName(i, name)
  BY <1>0, <1>5 DEF UpdateName, Live, Runner
<1>6. CASE \/ \E q \in Request, i \in Id : GetRunnerByToken(q, i)
           \/ \E q \in Request : UpdateContactAt(q)
  BY <1>0, <1>6 DEF GetRunnerByToken, UpdateContactAt, Live
<1> QED
  BY <1>2, <1>3, <1>4, <1>5, <1>6

\* What others do
LEMMA ElsewhereBrowser == ASSUME Registry, Browser, Elsewhere PROVE Browser'
<1>0. n \in Nat /\ 1..n \subseteq Id /\ runners \in [Id -> Runner] /\ sent \in Nat
  BY RunnersAssumption, RunnerPagesAssumption
     DEF Registry, TypeOK, Id, Browser, PageTypes
<1>1. ASSUME NEW i \in Id, RegenerateToken(i),
             behind' = (behind \/ (tab.view = "edit" /\ tab.id = i)),
             UNCHANGED <<tab, sent, answers>>
      PROVE  Browser'
  <2>1. PageTypes' /\ Waiting'
    BY <1>1 DEF Browser, PageTypes, Waiting, RegenerateToken
  <2>2. Answered'
    <3> SUFFICES ASSUME tab.view = "edit", ~behind, tab.id # i PROVE Answered'
      BY <1>1 DEF Answered
    <3>1. tab.id \in 1..n /\ tab.id \in Id
      BY <1>0 DEF Browser, Waiting
    <3>2. runners'[tab.id] = runners[tab.id] /\ (Live(tab.id)' <=> Live(tab.id))
      BY <1>0, <1>1, <3>1 DEF RegenerateToken, Live
    <3> QED
      BY <1>1, <3>2 DEF Browser, Answered
  <2> QED
    BY <2>1, <2>2 DEF Browser
<1>2. ASSUME Stop, sent' = 0, answers' = {},
             behind' = (behind \/ sent > 0 \/ answers # {}), UNCHANGED tab
      PROVE  Browser'
  <2>1. 0 \in 0..MaxFlight /\ (behind \/ sent > 0 \/ answers # {}) \in BOOLEAN
    BY RunnerPagesAssumption DEF Browser, PageTypes
  <2>2. UNCHANGED <<n, runners>>
    BY <1>2 DEF Stop
  <2>3. PageTypes' /\ Waiting'
    BY <1>2, <2>1, <2>2 DEF Browser, PageTypes, Waiting
  <2>4. Answered'
    BY <1>2, <2>2 DEF Browser, Answered, Live
  <2> QED
    BY <2>3, <2>4 DEF Browser
<1> QED
  BY <1>1, <1>2, QuietRows, QuietBrowser DEF Elsewhere

\* Every step of the browser and of the server leaves both well formed
LEMMA PagesNext == ASSUME Registry, Browser, NextPages PROVE Registry' /\ Browser'
<1>0. /\ n \in Nat /\ ntokens \in Nat /\ Id \subseteq 0..MaxRunners /\ 0 \in 0..MaxRunners
      /\ runners \in [Id -> Runner] /\ 1..n \subseteq Id /\ sent \in Nat
  BY RunnersAssumption, RunnerPagesAssumption
     DEF Registry, TypeOK, Id, Browser, PageTypes
<1>u. ASSUME UNCHANGED vars PROVE Registry'
  BY <1>u DEF vars, Registry, TypeOK, Tokens, RevokedStaysRevoked, EmbeddedIsKnown, Live
<1>t. tab \in Tab /\ tab.id \in 0..MaxRunners /\ tab.rows \subseteq Id
  BY DEF Browser, PageTypes, Tab
<1>1. CASE Elsewhere
  <2>1. Next
    BY <1>1 DEF Elsewhere, Next
  <2> QED
    BY <1>1, <2>1, RegistryNext, ElsewhereBrowser
<1>2. CASE Go
  <2>1. \E view \in {"toList", "toEdit", "new", "error"}, i \in 0..MaxRunners :
          Leave(Loading(view, i))
    BY <1>0, <1>2, <1>t DEF Go
  <2> QED
    BY <1>2, <1>u, <2>1, LeaveBrowser, LoadingType DEF Go
<1>3. CASE getRunnerListPage
  <2>1. {i \in Id : Live(i)} \in SUBSET Id
    OBVIOUS
  <2>2. /\ [Blank EXCEPT !.view = "list", !.rows = {i \in Id : Live(i)}] \in Tab
        /\ [Blank EXCEPT !.view = "list", !.rows = {i \in Id : Live(i)}].view # "edit"
    BY <2>1, BlankType DEF Tab
  <2> QED
    BY <1>3, <1>u, <2>2, LeaveBrowser DEF getRunnerListPage
<1>4. ASSUME NEW i \in Id, deleteRunner(i) PROVE Registry' /\ Browser'
  <2>1. Next \/ UNCHANGED vars
    BY <1>4 DEF deleteRunner, Next
  <2>2. Leave(Loading("toList", 0))
    BY <1>4 DEF deleteRunner
  <2> QED
    BY <1>0, <1>u, <2>1, <2>2, RegistryNext, LeaveBrowser, LoadingType
<1>5. CASE getRunnerFormPage
  <2>1. CASE ~Live(tab.id)
    BY <1>0, <1>5, <1>u, <2>1, LeaveBrowser, LoadingType DEF getRunnerFormPage
  <2>2. CASE Live(tab.id)
    <3> DEFINE next == [tab EXCEPT !.view = "edit", !.name = runners[tab.id].name,
                                   !.token = runners[tab.id].token]
    <3>1. tab.id \in 1..n /\ runners[tab.id] \in Runner
      BY <1>0, <2>2 DEF Live
    <3>2. /\ next \in Tab /\ next.view = "edit" /\ next.id = tab.id
          /\ next.token = runners[tab.id].token
      BY <1>t, <3>1 DEF Tab, Runner
    <3>3. Leave(next)
      BY <1>5, <2>2 DEF getRunnerFormPage
    <3> HIDE DEF next
    <3>4. tab' = next /\ sent' = 0 /\ answers' = {} /\ behind' = FALSE
      BY <3>3 DEF Leave
    <3>5. UNCHANGED vars /\ 0 \in 0..MaxFlight
      BY <1>5, RunnerPagesAssumption DEF getRunnerFormPage
    <3>6. UNCHANGED <<n, runners>>
      BY <3>5 DEF vars
    <3> QED
      BY <1>u, <3>1, <3>2, <3>4, <3>5, <3>6 DEF Browser, PageTypes, Waiting, Answered, Live
  <2> QED
    BY <2>1, <2>2
<1>6. ASSUME NEW name \in Name, Create(name) PROVE Registry' /\ Browser'
  <2>1. Next \/ UNCHANGED vars
    BY <1>6 DEF Create, Next
  <2>2. CASE CreateRunner(name) /\ Leave(Loading("toEdit", n + 1))
    <3>1. n + 1 \in 0..MaxRunners
      BY <1>0, <2>2, RunnersAssumption DEF CreateRunner, Insert
    <3> QED
      BY <1>u, <2>1, <2>2, <3>1, RegistryNext, LeaveBrowser, LoadingType
  <2>3. CASE Leave(Loading("error", 0))
    BY <1>0, <1>u, <2>1, <2>3, RegistryNext, LeaveBrowser, LoadingType
  <2> QED
    BY <1>6, <2>2, <2>3 DEF Create
<1>7. ASSUME NEW name \in Name, Save(name) PROVE Registry' /\ Browser'
  <2>0. tab.id \in Id
    BY <1>0, <1>7 DEF Save, Browser, Waiting
  <2>1. Next \/ UNCHANGED vars
    BY <1>7, <2>0 DEF Save, Next
  <2>2. Leave(Loading("toEdit", tab.id)) \/ Leave(Loading("error", 0))
    BY <1>7 DEF Save
  <2> QED
    BY <1>0, <1>t, <1>u, <2>1, <2>2, RegistryNext, LeaveBrowser, LoadingType
<1>8. CASE deleteRunnerConfirm
  <2>0. tab.id \in Id
    BY <1>0, <1>8 DEF deleteRunnerConfirm, Browser, Waiting
  <2>1. Next \/ UNCHANGED vars
    BY <1>8, <2>0 DEF deleteRunnerConfirm, Next
  <2>2. Leave(Loading("toList", 0))
    BY <1>8 DEF deleteRunnerConfirm
  <2> QED
    BY <1>0, <1>u, <2>1, <2>2, RegistryNext, LeaveBrowser, LoadingType
<1>9. CASE regenerateToken
  <2>1. /\ tab.view = "edit" /\ sent' = sent + 1 /\ sent < MaxFlight
        /\ behind' = (behind \/ sent > 0 \/ answers # {})
        /\ UNCHANGED <<vars, tab, answers>>
    BY <1>9 DEF regenerateToken
  <2>2. sent + 1 \in 0..MaxFlight
    BY <1>0, <2>1, RunnerPagesAssumption
  <2>3. PageTypes'
    BY <2>1, <2>2 DEF Browser, PageTypes
  <2>4. UNCHANGED <<n, runners>>
    BY <2>1 DEF vars
  <2>5. ~behind' => ~behind /\ sent = 0 /\ answers = {} /\ sent' = 1
    <3>1. ~(sent > 0) => sent = 0 /\ sent' = 1
      BY <1>0, <2>1
    <3> QED
      BY <2>1, <3>1
  <2>6. Waiting'
    BY <2>1, <2>4 DEF Browser, Waiting
  <2>7. Answered'
    BY <2>1, <2>4, <2>5 DEF Browser, Answered, Live
  <2> QED
    BY <1>u, <2>1, <2>3, <2>6, <2>7 DEF Browser
<1>10. CASE handleRunnerTokenRegeneration
  <2>1. /\ sent > 0 /\ sent' = sent - 1 /\ answers' = answers \cup {ntokens + 1}
        /\ UNCHANGED <<tab, behind>> /\ ntokens < MaxTokens
    BY <1>10 DEF handleRunnerTokenRegeneration
  <2>2. tab.view = "edit" /\ tab.id \in 1..n /\ tab.id \in Id
    BY <1>0, <2>1 DEF Browser, Waiting
  <2>3. sent - 1 \in 0..MaxFlight /\ ntokens + 1 \in 1..MaxTokens
    BY <1>0, <2>1, RunnersAssumption, RunnerPagesAssumption DEF Browser, PageTypes
  <2>4. PageTypes'
    BY <2>1, <2>3 DEF Browser, PageTypes
  <2>5. ~behind => sent - 1 = 0 /\ answers = {}
    BY <1>0, <2>1, <2>2 DEF Browser, Answered
  <2>6. CASE RegenerateToken(tab.id)
    <3>1. Registry' /\ n' = n
      BY <2>2, <2>6, RegistryNext DEF Next, RegenerateToken
    <3>2. runners'[tab.id].token = ntokens + 1
      BY <1>0, <2>2, <2>6 DEF RegenerateToken, Runner
    <3> QED
      BY <2>1, <2>2, <2>4, <2>5, <3>1, <3>2 DEF Browser, Waiting, Answered
  <2>7. CASE /\ ~Live(tab.id) /\ ntokens' = ntokens + 1
             /\ UNCHANGED <<n, runners, server, embedded, req, revoked>>
    <3>1. TypeOK'
      BY <1>0, <2>3, <2>7, RunnersAssumption DEF Registry, TypeOK
    <3>2. Tokens'
      BY <1>0, <2>7 DEF Registry, Tokens
    <3>3. RevokedStaysRevoked' /\ EmbeddedIsKnown'
      BY <2>7 DEF Registry, RevokedStaysRevoked, EmbeddedIsKnown, Live
    <3>4. Waiting' /\ Answered'
      BY <2>1, <2>2, <2>5, <2>7 DEF Waiting, Answered, Live
    <3> QED
      BY <2>4, <3>1, <3>2, <3>3, <3>4 DEF Registry, Browser
  <2> QED
    BY <1>10, <2>6, <2>7 DEF handleRunnerTokenRegeneration
<1>11. ASSUME NEW token \in 1..MaxTokens, ShowToken(token) PROVE Registry' /\ Browser'
  <2>1. /\ token \in answers /\ answers' = answers \ {token}
        /\ tab' = [tab EXCEPT !.token = token] /\ UNCHANGED <<vars, sent, behind>>
    BY <1>11 DEF ShowToken
  <2>2. /\ tab' \in Tab /\ tab'.view = tab.view /\ tab'.id = tab.id
        /\ tab'.token = token
    BY <1>t, <2>1 DEF Tab
  <2>3. UNCHANGED <<n, runners>>
    BY <2>1 DEF vars
  <2>4. PageTypes' /\ Waiting'
    BY <2>1, <2>2, <2>3 DEF Browser, PageTypes, Waiting
  <2>5. Answered'
    BY <2>1, <2>2, <2>3 DEF Browser, Answered, Live
  <2> QED
    BY <1>u, <2>1, <2>4, <2>5 DEF Browser
<1>12. CASE Alert
  <2>1. behind' /\ behind' \in BOOLEAN /\ UNCHANGED <<vars, tab>>
    BY <1>12 DEF Alert
  <2>2. sent' \in 0..MaxFlight /\ answers' \in SUBSET (1..MaxTokens)
    <3>1. CASE sent > 0 /\ sent' = sent - 1 /\ UNCHANGED answers
      BY <1>0, <3>1, RunnerPagesAssumption DEF Browser, PageTypes
    <3>2. CASE UNCHANGED sent /\ answers' \subseteq answers
      BY <3>2 DEF Browser, PageTypes
    <3> QED
      BY <1>12, <3>1, <3>2 DEF Alert
  <2>3. UNCHANGED <<n, runners>>
    BY <2>1 DEF vars
  <2>4. tab.view = "edit"
    BY <1>12 DEF Alert, Browser, Waiting
  <2>5. PageTypes' /\ Waiting' /\ Answered'
    BY <2>1, <2>2, <2>3, <2>4 DEF Browser, PageTypes, Waiting, Answered
  <2> QED
    BY <1>u, <2>1, <2>5 DEF Browser
<1> QED
  BY <1>1, <1>2, <1>3, <1>4, <1>5, <1>6, <1>7, <1>8, <1>9, <1>10, <1>11, <1>12
     DEF NextPages

-----------------------------------------------------------------------------
(* The theorems.                                                           *)

\* Before the first start, nothing is on the page
LEMMA PagesInit == InitPages => Registry /\ Browser
<1> SUFFICES ASSUME InitPages PROVE Registry /\ Browser
  OBVIOUS
<1>1. NoRunner \in Runner /\ NoRequest \in [id: 0..MaxRunners, stored: Runner]
  BY RunnersAssumption DEF NoRunner, NoRequest, Runner
<1>2. /\ n = 0 /\ ntokens = 0 /\ revoked = {} /\ server = "down" /\ embedded = 0
      /\ runners = [i \in Id |-> NoRunner] /\ req = [q \in Request |-> NoRequest]
  BY DEF InitPages, Init
<1>3. TypeOK
  BY <1>1, <1>2, RunnersAssumption DEF TypeOK
<1>4. Tokens /\ RevokedStaysRevoked /\ EmbeddedIsKnown
  BY <1>2 DEF Tokens, RevokedStaysRevoked, EmbeddedIsKnown
<1>6. tab = Blank /\ sent = 0 /\ answers = {} /\ behind = FALSE
  BY DEF InitPages
<1>7. PageTypes
  <2>1. 0 \in 0..MaxFlight
    BY RunnerPagesAssumption
  <2> QED
    BY <1>6, <2>1, BlankType DEF PageTypes
<1>8. Browser
  BY <1>6, <1>7, BlankType DEF Browser, Waiting, Answered
<1> QED
  BY <1>3, <1>4, <1>8 DEF Registry

\* Registry and Browser together are an inductive invariant of the registry of
\* runners, its requests and the browser of an administrator.
THEOREM PagesInvariance == SpecPages => [](Registry /\ Browser)
<1>1. Registry /\ Browser /\ [NextPages]_<<vars, pageVars>> => Registry' /\ Browser'
  <2> SUFFICES ASSUME Registry, Browser, [NextPages]_<<vars, pageVars>>
               PROVE  Registry' /\ Browser'
    OBVIOUS
  <2>1. CASE UNCHANGED <<vars, pageVars>>
    BY <2>1 DEF vars, pageVars, Registry, TypeOK, Tokens, RevokedStaysRevoked,
                EmbeddedIsKnown, Live, Browser, PageTypes, Waiting, Answered
  <2> QED
    BY <2>1, PagesNext
<1> QED
  BY <1>1, PagesInit, PTL DEF SpecPages

\* Rows, requests and the page are well formed, for any number of each.
THEOREM PagesTypeCorrect == SpecPages => []PagesTypeOK
<1>1. Registry /\ Browser => PagesTypeOK
  BY DEF Registry, Browser, PageTypes, PagesTypeOK, Tab
<1> QED
  BY <1>1, PagesInvariance, PTL

\* A token that was replaced, or whose runner was deleted, is in no row that
\* GetRunnerByToken finds, for any number of runners and requests in flight.
THEOREM RevokedStaysRevokedAlways == SpecPages => []RevokedStaysRevoked
<1>1. Registry => RevokedStaysRevoked
  BY DEF Registry
<1> QED
  BY <1>1, PagesInvariance, PTL

\* The embedded runner is known by the token it was started with until an
\* administrator revokes it, whatever is renamed between starts.
THEOREM EmbeddedIsKnownAlways == SpecPages => []EmbeddedIsKnown
<1>1. Registry => EmbeddedIsKnown
  BY DEF Registry
<1> QED
  BY <1>1, PagesInvariance, PTL

\* The form of a runner shows the token the runner has, unless renewals
\* overlapped, failed, or were made elsewhere.
THEOREM ShownIsCurrentAlways == SpecPages => []ShownIsCurrent
<1>1. Browser => ShownIsCurrent
  BY DEF Browser, Answered, ShownIsCurrent
<1> QED
  BY <1>1, PagesInvariance, PTL

=============================================================================
