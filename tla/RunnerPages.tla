---------------------------- MODULE RunnerPages -----------------------------
(***************************************************************************)
(* The list of runners and the form of one runner in the browser of an     *)
(* administrator, together with Runners: its actions are what the server   *)
(* starts, what runners ask for and what other administrators do.  The     *)
(* scripts of the form call the server and go on when the answer arrives;  *)
(* the page stays as it was loaded in the meantime.                        *)
(* The number of runners above the list, and the badges that compare       *)
(* contacted_at with the clock, are left out.                              *)
(***************************************************************************)
EXTENDS Runners

CONSTANT MaxFlight  \* bound on the renewals that one page waits for

ASSUME RunnerPagesAssumption == MaxFlight \in Nat

VARIABLES
  tab,      \* what the browser shows, or is loading
  sent,     \* renewals the page asked for that the server has not done yet
  answers,  \* tokens on their way back to the page
  behind    \* since the page was loaded somebody else renewed the token, two
            \* renewals overlapped, or one was reported as an error

pageVars == <<tab, sent, answers, behind>>

Blank == [view |-> "elsewhere", id |-> 0, name |-> Embedded, token |-> 0, rows |-> {}]

InitPages == Init /\ tab = Blank /\ sent = 0 /\ answers = {} /\ behind = FALSE

\* The browser leaves the page.  What the page was waiting for may still be
\* done by the server, as if another administrator had asked for it.
Leave(next) == tab' = next /\ sent' = 0 /\ answers' = {} /\ behind' = FALSE

Loading(view, id) == [Blank EXCEPT !.view = view, !.id = id]

Go ==
  /\ \/ Leave(Loading("toList", 0)) \/ Leave(Loading("new", 0))
     \/ \E i \in tab.rows : Leave(Loading("toEdit", i))
  /\ UNCHANGED vars

-----------------------------------------------------------------------------
(* The list.                                                               *)

getRunnerListPage ==
  /\ tab.view = "toList" /\ server = "up"
  /\ Leave([Blank EXCEPT !.view = "list", !.rows = {i \in Id : Live(i)}])
  /\ UNCHANGED vars

\* The script asks for the deletion and loads the list again; the row may be
\* gone already, which is no error
deleteRunner(i) ==
  /\ tab.view = "list" /\ i \in tab.rows /\ server = "up"
  /\ \/ DeleteRunner(i)
     \/ ~Live(i) /\ UNCHANGED vars
  /\ Leave(Loading("toList", 0))

-----------------------------------------------------------------------------
(* The form.                                                               *)

\* GetByID finds rows that are not deleted
getRunnerFormPage ==
  /\ tab.view = "toEdit" /\ server = "up"
  /\ Leave(IF Live(tab.id)
           THEN [tab EXCEPT !.view = "edit", !.name = runners[tab.id].name,
                            !.token = runners[tab.id].token]
           ELSE Loading("error", 0))
  /\ UNCHANGED vars

\* handleRunnerFormSubmission of a new runner
Create(name) ==
  /\ tab.view = "new" /\ server = "up"
  /\ \/ CreateRunner(name) /\ Leave(Loading("toEdit", n + 1))
     \/ Taken(name) /\ UNCHANGED vars /\ Leave(Loading("error", 0))

\* handleRunnerFormSubmission of an existing one: a name may be left as it is,
\* and the update of a deleted row changes nothing, without an error
Save(name) ==
  /\ tab.view = "edit" /\ server = "up"
  /\ \/ UpdateName(tab.id, name) /\ Leave(Loading("toEdit", tab.id))
     \/ /\ ~Live(tab.id) \/ runners[tab.id].name = name
        /\ UNCHANGED vars /\ Leave(Loading("toEdit", tab.id))
     \/ /\ Live(tab.id) /\ runners[tab.id].name # name /\ Taken(name)
        /\ UNCHANGED vars /\ Leave(Loading("error", 0))

\* The form of the embedded runner has no danger zone
OffersDeletion == tab.name # Embedded

deleteRunnerConfirm ==
  /\ tab.view = "edit" /\ server = "up" /\ OffersDeletion
  /\ \/ DeleteRunner(tab.id)
     \/ ~Live(tab.id) /\ UNCHANGED vars
  /\ Leave(Loading("toList", 0))

-----------------------------------------------------------------------------
(* regenerateToken: the script, the handler, and the answer.               *)

regenerateToken ==
  /\ tab.view = "edit" /\ server = "up" /\ sent < MaxFlight
  /\ sent' = sent + 1 /\ behind' = (behind \/ sent > 0 \/ answers # {})
  /\ UNCHANGED <<vars, tab, answers>>

\* Mutant of handleRunnerTokenRegeneration: the answer has a token of its own
AnswerAnotherToken ==
  /\ sent > 0 /\ ntokens + 1 < MaxTokens /\ Live(tab.id)
  /\ ntokens' = ntokens + 2
  /\ runners' = [runners EXCEPT ![tab.id] =
                   [runners[tab.id] EXCEPT !.token = ntokens + 1]]
  /\ revoked' = revoked \cup {runners[tab.id].token}
  /\ sent' = sent - 1 /\ answers' = answers \cup {ntokens + 2}
  /\ UNCHANGED <<n, server, embedded, req, tab, behind>>

\* The token of a deleted row is not changed, and the answer has a new one all
\* the same
handleRunnerTokenRegeneration ==
  /\ sent > 0 /\ ntokens < MaxTokens
  /\ \/ RegenerateToken(tab.id)
     \/ /\ ~Live(tab.id) /\ ntokens' = ntokens + 1
        /\ UNCHANGED <<n, runners, server, embedded, req, revoked>>
  /\ sent' = sent - 1 /\ answers' = answers \cup {ntokens + 1}
  /\ UNCHANGED <<tab, behind>>

\* Answers arrive in any order
ShowToken(token) ==
  /\ token \in answers /\ answers' = answers \ {token}
  /\ tab' = [tab EXCEPT !.token = token]
  /\ UNCHANGED <<vars, sent, behind>>

\* A lost call or answer is an alert; the token on the page stays
Alert ==
  /\ \/ sent > 0 /\ sent' = sent - 1 /\ UNCHANGED answers
     \/ \E token \in answers : answers' = answers \ {token} /\ UNCHANGED sent
  /\ behind' = TRUE
  /\ UNCHANGED <<vars, tab>>

-----------------------------------------------------------------------------
(* Everything else, see Runners.                                           *)

Elsewhere ==
  \/ /\ \E i \in Id :
          /\ RegenerateToken(i)
          /\ behind' = (behind \/ (tab.view = "edit" /\ tab.id = i))
     /\ UNCHANGED <<tab, sent, answers>>
  \/ /\ Stop
     /\ sent' = 0 /\ answers' = {} /\ behind' = (behind \/ sent > 0 \/ answers # {})
     /\ UNCHANGED tab
  \/ /\ \/ Start
        \/ \E name \in Name : CreateRunner(name)
        \/ \E i \in Id : DeleteRunner(i)
        \/ \E i \in Id, name \in Name : UpdateName(i, name)
        \/ \E q \in Request, i \in Id : GetRunnerByToken(q, i)
        \/ \E q \in Request : UpdateContactAt(q)
     /\ UNCHANGED pageVars

NextPages ==
  \/ Elsewhere
  \/ Go \/ getRunnerListPage \/ getRunnerFormPage
  \/ \E i \in Id : deleteRunner(i)
  \/ \E name \in Name : Create(name) \/ Save(name)
  \/ deleteRunnerConfirm \/ regenerateToken \/ handleRunnerTokenRegeneration
  \/ \E token \in 1..MaxTokens : ShowToken(token)
  \/ Alert

SpecPages == InitPages /\ [][NextPages]_<<vars, pageVars>>

-----------------------------------------------------------------------------
(* Properties.                                                             *)

\* Rows, requests and the browser are well formed; a deleted row keeps a name
\* and a token.
PagesTypeOK ==
  /\ TypeOK
  /\ tab \in [view: {"elsewhere", "toList", "list", "toEdit", "edit", "new", "error"},
              id: 0..MaxRunners, name: Name, token: 0..MaxTokens, rows: SUBSET Id]
  /\ sent \in 0..MaxFlight /\ answers \in SUBSET (1..MaxTokens) /\ behind \in BOOLEAN

\* A form that waits for nothing, and on which no renewals overlapped or
\* failed, shows the token that the runner has, unless somebody else renewed
\* it since: what the administrator copies from it is accepted.
ShownIsCurrent ==
  tab.view = "edit" /\ sent = 0 /\ answers = {} /\ ~behind /\ Live(tab.id)
    => tab.token = runners[tab.id].token
=============================================================================
