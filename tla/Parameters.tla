----------------------------- MODULE Parameters -----------------------------
(***************************************************************************)
(* The parameters of one task: from the labels of its image, through the   *)
(* configuration form of the administrators and the input form of a user,  *)
(* to the environment that is handed to a runner.  The labels are fetched  *)
(* from the registry anew for every form, every submission and every       *)
(* hand-out, and the image may be published again at any time.             *)
(* A row of task_configurations is named by the save that inserted it and  *)
(* by its name, which stand for its primary key.                           *)
(***************************************************************************)
EXTENDS Naturals, FormValues

CONSTANTS
  Name,     \* the names of parameters
  Image,    \* what can be published under the task's image reference
  Request,  \* requests of administrators that are served at the same time
  MaxSaves, \* bound on the saves of the configuration
  MaxPublished \* bound on the publications after the first

Value == {"", "on", "x"}  \* of a form field; "": missing, empty or only spaces
Type == {"text", "number", "file", "boolean"}  \* "text" also for secret
Group == {"inputs", "config"}

\* A label of group.name.property; property "": the key has no third part.
\* meta is the value of the meta labels, "" when the name is missing.
ASSUME ParametersAssumption ==
  /\ MaxSaves \in Nat /\ MaxPublished \in Nat
  /\ \A i \in Image : \A l \in i.labels : l.group \in Group /\ l.name \in Name

-----------------------------------------------------------------------------
Names(labels, g) == {l.name : l \in {k \in labels : k.group = g}}

\* props[property], "" when the label is missing
Property(labels, g, n, p) ==
  LET found == {l \in labels : l.group = g /\ l.name = n /\ l.property = p}
  IN  IF found = {} THEN "" ELSE (CHOOSE l \in found : TRUE).value

\* ParseLabels and BuildTaskDefinition return no error
Parses(i) ==
  /\ i.meta # ""
  /\ \A l \in i.labels : l.property # ""
  /\ \A g \in Group : \A n \in Names(i.labels, g) :
       /\ Property(i.labels, g, n, "type") \in Type
       /\ Property(i.labels, g, n, "required") \in {"", "true", "false"}

Inputs(labels, g) ==
  [n \in Names(labels, g) |->
     [type     |-> Property(labels, g, n, "type"),
      required |-> Property(labels, g, n, "required") = "true"]]

Definition(i) ==
  [meta |-> i.meta, inputs |-> Inputs(i.labels, "inputs"),
   configuration |-> Inputs(i.labels, "config")]

NoDefinition == [meta |-> "", inputs |-> <<>>, configuration |-> <<>>]

-----------------------------------------------------------------------------
\* One value for every name in rows; where rows has several, the order in
\* which the database returns them decides
Choices(rows) ==
  {f \in [{r.name : r \in rows} -> Value] :
     \A n \in DOMAIN f : \E r \in rows : r.name = n /\ r.value = f[n]}

-----------------------------------------------------------------------------
VARIABLES
  image,     \* what the registry has under the reference
  published, \* how often it was published again
  task,      \* the row of tasks: "none", "stored" or "deleted"
  meta,      \* its name, author and description
  config,    \* the rows of task_configurations
  saves,     \* how often the configuration was saved
  admin,     \* requests of administrators between load and save
  exec,      \* the execution of the user
  assign,    \* its hand-out
  savedWith, \* history: the definition the configuration was last saved with
  restored   \* history: a stale page put rows back that had been replaced

vars == <<image, published, task, meta, config, saves, admin, exec, assign,
          savedWith, restored>>

Row == [save: 1..MaxSaves, name: Name, value: Value]

Definitions == {Definition(i) : i \in {j \in Image : Parses(j)}} \union {NoDefinition}

NoRequest == [kind |-> "none", rows |-> {}, execs |-> FALSE, meta |-> "",
              def |-> NoDefinition]

NoExec == [status |-> "none", params |-> <<>>, def |-> NoDefinition]

NoAssign == [step |-> "none", params |-> <<>>, rows |-> {}, env |-> <<>>,
             form |-> NoDefinition, saved |-> NoDefinition, def |-> NoDefinition]

Init ==
  /\ image \in Image /\ published = 0
  /\ task = "none" /\ meta = "" /\ config = {} /\ saves = 0
  /\ admin = [q \in Request |-> NoRequest]
  /\ exec = NoExec /\ assign = NoAssign
  /\ savedWith = NoDefinition /\ restored = FALSE

history == <<savedWith, restored>>

Publish ==
  /\ published < MaxPublished /\ published' = published + 1
  /\ image' \in Image \ {image}
  /\ UNCHANGED <<task, meta, config, saves, admin, exec, assign, history>>

\* handleTaskFormSubmission without a task id
Create ==
  /\ task = "none" /\ Parses(image)
  /\ task' = "stored" /\ meta' = Definition(image).meta
  /\ UNCHANGED <<image, published, config, saves, admin, exec, assign, history>>

\* Mutant of Delete: no cascade
DeleteAlone ==
  /\ task = "stored" /\ task' = "deleted"
  /\ UNCHANGED <<image, published, meta, config, saves, admin, exec, assign, history>>

\* The rows go with their task
Delete ==
  /\ task = "stored"
  /\ task' = "deleted" /\ config' = {}
  /\ exec' = IF exec.status = "none" THEN exec ELSE [exec EXCEPT !.status = "deleted"]
  /\ savedWith' = NoDefinition /\ restored' = FALSE
  /\ UNCHANGED <<image, published, meta, saves, admin, assign>>

-----------------------------------------------------------------------------
\* A page ("get") or a submitted form ("post") loads the task with everything
\* that belongs to it
Load(q, kind) ==
  /\ admin[q] = NoRequest /\ task = "stored"
  /\ admin' = [admin EXCEPT ![q] =
                 [kind |-> kind, rows |-> config, meta |-> meta,
                  execs |-> exec.status \in {"queued", "started"},
                  def |-> NoDefinition]]
  /\ UNCHANGED <<image, published, task, meta, config, saves, exec, assign, history>>

FetchTaskDefinition(q) ==
  /\ admin[q] # NoRequest /\ admin[q].def = NoDefinition /\ Parses(image)
  /\ admin' = [admin EXCEPT ![q].def = Definition(image)]
  /\ UNCHANGED <<image, published, task, meta, config, saves, exec, assign, history>>

End(q) == admin' = [admin EXCEPT ![q] = NoRequest]

\* The registry, the parser or the database returns an error
Fail(q) ==
  /\ admin[q] # NoRequest
  /\ End(q)
  /\ UNCHANGED <<image, published, task, meta, config, saves, exec, assign, history>>

\* Saving the task inserts the rows of the copy that are no longer there.
\* For a deleted task the update finds no row and becomes an insert, after the
\* rows of the copy were inserted first, against their foreign key.
Storable(copy) ==
  IF task = "stored"
  THEN \A r \in copy.rows, s \in config :
         r.name = s.name /\ r.value = s.value => r = s
  ELSE copy.rows = {} /\ ~copy.execs

\* updateTaskFromDefinition: whether it saves, and does so without an error,
\* which would only be logged
Updates(copy) == copy.meta # copy.def.meta /\ Storable(copy)

\* The end of getTaskFormPage
ShowForm(q) ==
  LET copy == admin[q]
      store == Updates(copy)
  IN  /\ copy.kind = "get" /\ copy.def # NoDefinition
      /\ End(q)
      /\ task' = IF store THEN "stored" ELSE task
      /\ meta' = IF store THEN copy.def.meta ELSE meta
      /\ config' = IF store THEN config \union copy.rows ELSE config
      /\ restored' = (restored \/ config' # config)
      /\ UNCHANGED <<image, published, saves, exec, assign, savedWith>>

\* Mutant of UpdateConfiguration: the old rows are not cleared
AddConfiguration(values) ==
  config' = config \union
    {[save |-> saves + 1, name |-> n, value |-> values[n]] : n \in DOMAIN values}

\* In one transaction, all the rows are deleted and the new ones are inserted
UpdateConfiguration(values) ==
  config' = {[save |-> saves + 1, name |-> n, value |-> values[n]] : n \in DOMAIN values}

\* handleTaskFormSubmission with a task id
PostForm(q, body) ==
  /\ admin[q].kind = "post" /\ admin[q].def # NoDefinition
  /\ saves < MaxSaves
  /\ End(q)
  /\ \E stored \in Choices(admin[q].rows) :
       LET fields == admin[q].def.configuration
           values == Handle(fields, stored, body)
       IN  IF task = "stored" /\ IsValid(fields, values, body)
           THEN /\ UpdateConfiguration(values)
                /\ saves' = saves + 1
                /\ savedWith' = admin[q].def /\ restored' = FALSE
           ELSE UNCHANGED <<config, saves, savedWith, restored>>
  /\ UNCHANGED <<image, published, task, meta, exec, assign>>

-----------------------------------------------------------------------------
\* getNewTaskPage and handleNewTaskSubmission
Submit(body) ==
  /\ task = "stored" /\ exec.status = "none" /\ Parses(image)
  /\ LET fields == Definition(image).inputs
         values == Handle(fields, <<>>, body)
     IN  /\ IsValid(fields, values, body)
         /\ exec' = [status |-> "queued", def |-> Definition(image),
                     params |-> marshalInputParameters(fields, values)]
  /\ UNCHANGED <<image, published, task, meta, config, saves, admin, assign, history>>

\* The row is taken from the queue, and loaded with its task and configuration
NextTask ==
  /\ exec.status = "queued"
  /\ exec' = [exec EXCEPT !.status = "started"]
  /\ assign' = [NoAssign EXCEPT !.step = "loaded", !.params = exec.params,
                                !.rows = config, !.form = exec.def,
                                !.saved = IF restored THEN NoDefinition ELSE savedWith]
  /\ UNCHANGED <<image, published, task, meta, config, saves, admin, history>>

\* handleTaskRequest answers the runner, with an empty environment when the
\* definition cannot be fetched
HandOut ==
  /\ assign.step = "loaded"
  /\ \/ assign' = [assign EXCEPT !.step = "sent"]
     \/ /\ Parses(image)
        /\ \E stored \in Choices(assign.rows) :
             assign' = [assign EXCEPT
               !.step = "sent", !.def = Definition(image),
               !.env = Environment(Definition(image), assign.params, stored)]
  /\ UNCHANGED <<image, published, task, meta, config, saves, admin, exec, history>>

Next ==
  \/ Publish \/ Create \/ Delete \/ NextTask \/ HandOut
  \/ \E body \in [Name -> Value] : Submit(body) \/ \E q \in Request : PostForm(q, body)
  \/ \E q \in Request :
       \/ \E kind \in {"get", "post"} : Load(q, kind)
       \/ FetchTaskDefinition(q) \/ Fail(q) \/ ShowForm(q)

Spec == Init /\ [][Next]_vars

-----------------------------------------------------------------------------
\* Requests, rows and hand-outs are well formed, and the foreign keys hold:
\* only a stored task has configuration rows and live executions.
TypeOK ==
  /\ image \in Image /\ published \in 0..MaxPublished
  /\ task \in {"none", "stored", "deleted"}
  /\ config \subseteq Row /\ saves \in 0..MaxSaves
  /\ restored \in BOOLEAN /\ savedWith \in Definitions
  /\ \A q \in Request :
       /\ admin[q].kind \in {"none", "get", "post"} /\ admin[q].rows \subseteq Row
       /\ admin[q].execs \in BOOLEAN /\ admin[q].def \in Definitions
  /\ exec.status \in {"none", "queued", "started", "deleted"}
  /\ assign.step \in {"none", "loaded", "sent"} /\ assign.rows \subseteq Row
  /\ assign.def \in Definitions
  /\ DOMAIN assign.env \subseteq Name
  /\ \A n \in DOMAIN assign.env : assign.env[n] \in Value \union {"true", "false"}
  /\ config # {} \/ exec.status \in {"queued", "started"} => task = "stored"

Sent == assign.step = "sent" /\ assign.def # NoDefinition

Filled(n) == n \in DOMAIN assign.env /\ assign.env[n] # ""

\* What the input form required of the user is in the environment of the
\* container, if the image was not published again in between and no
\* configured value has the same name; and so is what the configuration form
\* required of the administrator, if the configuration was saved with the
\* definition that is used and no stale page put older rows back.
RequiredArrives ==
  Sent =>
    /\ assign.def = assign.form =>
         \A n \in ValueFields(assign.def.inputs) \
                   ConfigurationNames(assign.def, {r.name : r \in assign.rows}) :
           assign.def.inputs[n].required => Filled(n)
    /\ assign.def = assign.saved =>
         \A n \in ValueFields(assign.def.configuration) :
           assign.def.configuration[n].required => Filled(n)

\* A configuration has one value for each name, whatever forms are submitted
\* at the same time, unless a page that was loaded before a save and changed
\* the description of the task put the replaced rows back.
OneRowPerName ==
  ~restored => \A r, s \in config : r.name = s.name => r = s

=============================================================================
