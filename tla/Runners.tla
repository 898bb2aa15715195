------------------------------ MODULE Runners -------------------------------
(***************************************************************************)
(* The registry of runners: the pages with which administrators create,    *)
(* rename and delete runners and renew their tokens, the check of the      *)
(* token in front of every endpoint of the runner API, and the embedded    *)
(* runner the server looks up, or creates, when it starts.                 *)
(* Deletion is soft: the row stays, and keeps its name and token reserved  *)
(* by the unique indexes.                                                  *)
(***************************************************************************)
EXTENDS Naturals

CONSTANTS
  Name,        \* the names of runners
  Embedded,    \* embeddedRunnerName
  Request,     \* requests of runners that are served at the same time
  MaxRunners,  \* bound on the rows
  MaxTokens    \* bound on the tokens generated, which are 1, 2, ...

ASSUME RunnersAssumption ==
  Embedded \in Name /\ MaxRunners \in Nat /\ MaxTokens \in Nat

VARIABLES
  n, runners,  \* the rows inserted so far, and table runners
  ntokens,     \* the tokens generated so far
  server,      \* "up", or "failed" when it could not start
  embedded,    \* the token the embedded runner was started with
  req,         \* requests between the look-up of their runner and their end
  revoked      \* tokens that were replaced, or whose runner was deleted

vars == <<n, runners, ntokens, server, embedded, req, revoked>>

Id == 1..MaxRunners

Runner == [name: Name, token: 0..MaxTokens, deleted: BOOLEAN]

NoRunner == [name |-> Embedded, token |-> 0, deleted |-> TRUE]

\* stored is the copy of row id that the request holds; id 0: no request
NoRequest == [id |-> 0, stored |-> NoRunner]

Taken(name) == \E i \in 1..n : runners[i].name = name

Live(i) == i \in 1..n /\ ~runners[i].deleted

\* GetByName finds no row, so the form says that the name is available
Available(name) == \A i \in 1..n : Live(i) => runners[i].name # name

Insert(name) ==
  /\ n < MaxRunners /\ ntokens < MaxTokens /\ ~Taken(name)
  /\ n' = n + 1 /\ ntokens' = ntokens + 1
  /\ runners' = [runners EXCEPT ![n + 1] =
                   [name |-> name, token |-> ntokens + 1, deleted |-> FALSE]]

\* Before the first start
Init ==
  /\ n = 0 /\ runners = [i \in Id |-> NoRunner] /\ ntokens = 0
  /\ server = "down" /\ embedded = 0
  /\ req = [q \in Request |-> NoRequest] /\ revoked = {}

-----------------------------------------------------------------------------
(* StartEmbeddedRunner, in the start of the server.                        *)

\* Mutant of Start: a row that exists gets a new token too, which is not saved
StartWithNewToken ==
  /\ server = "down" /\ server' = "up"
  /\ \/ /\ ~Available(Embedded) /\ ntokens < MaxTokens
        /\ ntokens' = ntokens + 1
        /\ UNCHANGED <<n, runners>>
     \/ Available(Embedded) /\ Insert(Embedded)
  /\ embedded' = ntokens + 1
  /\ UNCHANGED <<req, revoked>>

\* GetEmbeddedRunner, one transaction
Start ==
  /\ server = "down"
  /\ \/ \E i \in 1..n :
          /\ Live(i) /\ runners[i].name = Embedded
          /\ embedded' = runners[i].token /\ server' = "up"
          /\ UNCHANGED <<n, runners, ntokens>>
     \/ /\ Available(Embedded) /\ Insert(Embedded)
        /\ embedded' = ntokens + 1 /\ server' = "up"
     \/ /\ Available(Embedded) /\ Taken(Embedded)
        /\ server' = "failed"
        /\ UNCHANGED <<n, runners, ntokens, embedded>>
  /\ UNCHANGED <<req, revoked>>

Stop ==
  /\ server = "up" /\ server' = "down"
  /\ req' = [q \in Request |-> NoRequest]
  /\ UNCHANGED <<n, runners, ntokens, embedded, revoked>>

-----------------------------------------------------------------------------
(* The pages of administrators.  A name that is taken is refused by the    *)
(* unique index.                                                           *)

CreateRunner(name) ==
  /\ server = "up" /\ Insert(name)
  /\ UNCHANGED <<server, embedded, req, revoked>>

UpdateName(i, name) ==
  /\ server = "up" /\ Live(i) /\ ~Taken(name)
  /\ runners' = [runners EXCEPT ![i] = [runners[i] EXCEPT !.name = name]]
  /\ UNCHANGED <<n, ntokens, server, embedded, req, revoked>>

\* Mutant of DeleteRunner: the name is released, by making it empty
DeleteAndRelease(i) ==
  /\ server = "up" /\ Live(i)
  /\ runners' = [runners EXCEPT ![i] = [runners[i] EXCEPT !.deleted = TRUE,
                                                         !.name = ""]]
  /\ revoked' = revoked \cup {runners[i].token}
  /\ UNCHANGED <<n, ntokens, server, embedded, req>>

DeleteRunner(i) ==
  /\ server = "up" /\ Live(i)
  /\ runners' = [runners EXCEPT ![i] = [runners[i] EXCEPT !.deleted = TRUE]]
  /\ revoked' = revoked \cup {runners[i].token}
  /\ UNCHANGED <<n, ntokens, server, embedded, req>>

RegenerateToken(i) ==
  /\ server = "up" /\ Live(i) /\ ntokens < MaxTokens
  /\ ntokens' = ntokens + 1
  /\ runners' = [runners EXCEPT ![i] = [runners[i] EXCEPT !.token = ntokens + 1]]
  /\ revoked' = revoked \cup {runners[i].token}
  /\ UNCHANGED <<n, server, embedded, req>>

-----------------------------------------------------------------------------
(* assertRunner.                                                           *)

\* A request with the token of row i; one with any other token is refused
GetRunnerByToken(q, i) ==
  /\ server = "up" /\ req[q].id = 0 /\ Live(i)
  /\ req' = [req EXCEPT ![q] = [id |-> i, stored |-> runners[i]]]
  /\ UNCHANGED <<n, runners, ntokens, server, embedded, revoked>>

\* Mutant of UpdateContactAt: the row is saved, as Update does
SaveContactAt(q) ==
  /\ req[q].id # 0
  /\ runners' = [runners EXCEPT ![req[q].id] = req[q].stored]
  /\ req' = [req EXCEPT ![q] = NoRequest]
  /\ UNCHANGED <<n, ntokens, server, embedded, revoked>>

\* contacted_at is the only column that is written, and the handler follows;
\* its effects are in Dispatch and LogStream
UpdateContactAt(q) ==
  /\ req[q].id # 0
  /\ req' = [req EXCEPT ![q] = NoRequest]
  /\ UNCHANGED <<n, runners, ntokens, server, embedded, revoked>>

Next ==
  \/ Start \/ Stop
  \/ \E name \in Name : CreateRunner(name)
  \/ \E i \in Id : DeleteRunner(i) \/ RegenerateToken(i)
  \/ \E i \in Id, name \in Name : UpdateName(i, name)
  \/ \E q \in Request, i \in Id : GetRunnerByToken(q, i)
  \/ \E q \in Request : UpdateContactAt(q)

Spec == Init /\ [][Next]_vars

-----------------------------------------------------------------------------
(* Properties.                                                             *)

\* Rows and requests are well formed; a deleted row keeps a name and a token.
TypeOK ==
  /\ n \in 0..MaxRunners /\ runners \in [Id -> Runner]
  /\ ntokens \in 0..MaxTokens
  /\ server \in {"down", "up", "failed"} /\ embedded \in 0..MaxTokens
  /\ req \in [Request -> [id: 0..MaxRunners, stored: Runner]]
  /\ revoked \in SUBSET (1..MaxTokens)

\* A token that was replaced, or whose runner was deleted, is never accepted
\* again, whatever requests were in flight at that moment.
RevokedStaysRevoked == \A i \in Id : Live(i) => runners[i].token \notin revoked

\* The token that the embedded runner was started with is accepted, unless an
\* administrator renewed it or deleted the runner since.
EmbeddedIsKnown ==
  server = "up" /\ embedded \notin revoked
    => \E i \in Id : Live(i) /\ runners[i].token = embedded
=============================================================================
