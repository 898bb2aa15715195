------------------------------- MODULE Forms --------------------------------
(***************************************************************************)
(* The way of a value through the pages: a form is rendered from the       *)
(* definition of the image and from stored values, shown and edited in a   *)
(* browser, encoded, read back by Handle with the definition the image has *)
(* by then, and either stored, turned into an execution, or shown again    *)
(* with errors.  The steps between the statements of one request, and the  *)
(* meta data of the task, are those of Parameters.                         *)
(***************************************************************************)
EXTENDS Naturals, FormValues

CONSTANTS
  Name,        \* the names of parameters
  Definitions, \* what FetchTaskDefinition can return for the image
  Tab,         \* open pages of users and administrators
  MaxPublished \* bound on the publications after the first

\* What a form value can be: "1" stands for the numbers and for "true", "x" for
\* all other text
Value == {"", "on", "1", "x"}
Type == {"text", "number", "boolean", "file"} \* "text" also for secret
Group == {"inputs", "configuration"}

ASSUME FormsAssumption ==
  /\ MaxPublished \in Nat
  /\ \A d \in Definitions : \A g \in Group :
       /\ DOMAIN d[g] \subseteq Name
       /\ \A n \in DOMAIN d[g] : d[g][n].type \in Type /\ d[g][n].required \in BOOLEAN

-----------------------------------------------------------------------------
\* What a control of this type can hold; a file is "file"
Entries(type) ==
  CASE type = "text"    -> Value
    [] type = "number"  -> {"", "1"}
    [] type = "boolean" -> {"", "on"}
    [] type = "file"    -> {"", "file"}

\* What the control of a field shows when the page is rendered with this value:
\* a browser shows no value in a number field that is not a number, a check box
\* is checked or not, and a file field has no value
DefaultInput(type, value) == IF type = "number" /\ value # "1" THEN "" ELSE value

DefaultCheckbox(value) == IF value \in {"on", "1"} THEN "on" ELSE ""

DefaultFileInput == ""

RenderField(type, value) ==
  CASE type = "boolean" -> DefaultCheckbox(value)
    [] type = "file"    -> DefaultFileInput
    [] OTHER            -> DefaultInput(type, value)

ValueOf(values, n) == IF n \in DOMAIN values THEN values[n] ELSE ""

HasFileFields(fields) == \E n \in DOMAIN fields : fields[n].type = "file"

\* FormWrapper chooses the encoding with the form
Form(g, fields, values) ==
  [at |-> "form", group |-> g, fields |-> fields,
   controls |-> [n \in DOMAIN fields |-> RenderField(fields[n].type, ValueOf(values, n))],
   multipart |-> HasFileFields(fields)]

NoForm(at) ==
  [at |-> at, group |-> "inputs", fields |-> <<>>, controls |-> <<>>, multipart |-> FALSE]

\* What Handle finds in the body for the fields it looks for.  A box that is not
\* checked sends nothing; a file is no value and a value no file.
Body(page, fields) ==
  [n \in Name |->
     IF /\ n \in DOMAIN page.fields \intersect DOMAIN fields
        /\ (page.fields[n].type = "file") = (fields[n].type = "file")
     THEN page.controls[n] ELSE ""]

\* The browser sends no form whose control with the attribute "required" is
\* empty; a check box does not have it, and text may be spaces
Complete(page) ==
  \A n \in DOMAIN page.fields :
    page.fields[n].required /\ page.fields[n].type \in {"number", "file"} =>
      page.controls[n] # ""

-----------------------------------------------------------------------------
VARIABLES
  def,       \* the definition of the published image
  published, \* how often it was published again
  tab,       \* the pages
  stored,    \* the configuration rows, by name
  params,    \* the input parameters of the latest execution
  saved,     \* history: the page and the fields of the latest save
  ordered    \* history: the page and the fields of the latest execution

varsForms == <<def, published, tab, stored, params, saved, ordered>>

Nothing == [page |-> NoForm("none"), fields |-> <<>>]

InitForms ==
  /\ def \in Definitions /\ published = 0
  /\ tab = [t \in Tab |-> NoForm("none")]
  /\ stored = <<>> /\ params = <<>>
  /\ saved = Nothing /\ ordered = Nothing

Publish ==
  /\ published < MaxPublished /\ published' = published + 1
  /\ def' \in Definitions \ {def}
  /\ UNCHANGED <<tab, stored, params, saved, ordered>>

Defaults(g) == IF g = "configuration" THEN stored ELSE <<>>

\* A page with the form of a group
Open(t, g) ==
  /\ tab[t].at \in {"none", "error"}
  /\ tab' = [tab EXCEPT ![t] = Form(g, def[g], Defaults(g))]
  /\ UNCHANGED <<def, published, stored, params, saved, ordered>>

\* The page of a user who wants a new execution
NewTaskPage(t) == Open(t, "inputs")

\* The page of an administrator, also after a save
TaskFormPage(t) == Open(t, "configuration")

\* The user changes a control
Edit(t, n) ==
  /\ tab[t].at = "form" /\ n \in DOMAIN tab[t].fields
  /\ \E v \in Entries(tab[t].fields[n].type) \ {tab[t].controls[n]} :
       tab' = [tab EXCEPT ![t].controls[n] = v]
  /\ UNCHANGED <<def, published, stored, params, saved, ordered>>

Send(t) ==
  /\ tab[t].at = "form" /\ Complete(tab[t])
  /\ tab' = [tab EXCEPT ![t].at = "sent"]
  /\ UNCHANGED <<def, published, stored, params, saved, ordered>>

\* ParseMultipartForm fails on a body that is not multipart; ParseForm reads
\* neither kind wrongly, since FormValue parses a multipart body
Parsed(page, fields) == HasFileFields(fields) => page.multipart

\* The form that the handler fills: the values after Handle
Filled(page) ==
  Handle(def[page.group], Defaults(page.group), Body(page, def[page.group]))

Valid(page) ==
  IsValid(def[page.group], Filled(page), Body(page, def[page.group]))

ParseError(t) ==
  /\ tab[t].at = "sent" /\ ~Parsed(tab[t], def[tab[t].group])
  /\ tab' = [tab EXCEPT ![t] = NoForm("error")]
  /\ UNCHANGED <<def, published, stored, params, saved, ordered>>

\* Mutant of Redisplay: the page is made from a new form
RedisplayNew(t) ==
  /\ tab[t].at = "sent" /\ Parsed(tab[t], def[tab[t].group]) /\ ~Valid(tab[t])
  /\ tab' = [tab EXCEPT ![t] =
               Form(tab[t].group, def[tab[t].group], Defaults(tab[t].group))]
  /\ UNCHANGED <<def, published, stored, params, saved, ordered>>

\* A form with errors is rendered again with its values
Redisplay(t) ==
  /\ tab[t].at = "sent" /\ Parsed(tab[t], def[tab[t].group]) /\ ~Valid(tab[t])
  /\ tab' = [tab EXCEPT ![t] = Form(tab[t].group, def[tab[t].group], Filled(tab[t]))]
  /\ UNCHANGED <<def, published, stored, params, saved, ordered>>

Accepted(t, g) ==
  /\ tab[t].at = "sent" /\ tab[t].group = g
  /\ Parsed(tab[t], def[g]) /\ Valid(tab[t])
  /\ tab' = [tab EXCEPT ![t] = NoForm("none")]

\* handleTaskFormSubmission; the redirection is another TaskFormPage
UpdateConfiguration(t) ==
  /\ Accepted(t, "configuration")
  /\ stored' = Filled(tab[t])
  /\ saved' = [page |-> tab[t], fields |-> def.configuration]
  /\ UNCHANGED <<def, published, params, ordered>>

\* handleNewTaskSubmission
Submit(t) ==
  /\ Accepted(t, "inputs")
  /\ params' = marshalInputParameters(def.inputs, Filled(tab[t]))
  /\ ordered' = [page |-> tab[t], fields |-> def.inputs]
  /\ UNCHANGED <<def, published, stored, saved>>

NextForms ==
  \/ Publish
  \/ \E t \in Tab :
       \/ NewTaskPage(t) \/ TaskFormPage(t)
       \/ \E n \in Name : Edit(t, n)
       \/ Send(t) \/ ParseError(t) \/ Redisplay(t)
       \/ UpdateConfiguration(t) \/ Submit(t)

SpecForms == InitForms /\ [][NextForms]_varsForms

-----------------------------------------------------------------------------
\* Every control holds what a browser lets it hold, and what is stored is text:
\* the name of an uploaded file never becomes a value.
TypeOK ==
  /\ def \in Definitions /\ published \in 0..MaxPublished
  /\ \A t \in Tab :
       /\ tab[t].at \in {"none", "form", "sent", "error"} /\ tab[t].group \in Group
       /\ DOMAIN tab[t].controls = DOMAIN tab[t].fields
       /\ \A n \in DOMAIN tab[t].fields :
            tab[t].controls[n] \in Entries(tab[t].fields[n].type)
       /\ tab[t].multipart = HasFileFields(tab[t].fields)
  /\ \A n \in DOMAIN stored : n \in Name /\ stored[n] \in Value
  /\ \A n \in DOMAIN params :
       /\ n \in Name /\ params[n].json \in {"bool", "string"}
       /\ params[n].value \in Value \union {"true", "false"}

\* The names that are declared alike in the page a user saw, in the form its
\* submission was read with, and in the definition a container is started with
Alike(entered, fields) ==
  {n \in ValueFields(fields) :
     \A f \in {entered.page.fields, entered.fields} :
       n \in DOMAIN f /\ f[n] = fields[n]}

\* What the person in front of the page takes a control to say
Meaning(field, control) ==
  IF field.type # "boolean" THEN control
  ELSE IF control = "on" THEN "true" ELSE "false"

\* A container started now gets the configuration that the page showed when it
\* was last saved, boxes that were unchecked included, although an unchecked
\* box sends nothing and the form starts from the stored values; and the inputs
\* that the page of the latest execution showed, where no configured value has
\* the same name.
EnteredAsSeen ==
  LET env == Environment(def, params, stored)
      Arrives(entered, fields, n) ==
        n \in DOMAIN env /\ env[n] = Meaning(fields[n], entered.page.controls[n])
  IN  /\ \A n \in Alike(saved, def.configuration) :
           Arrives(saved, def.configuration, n)
      /\ \A n \in Alike(ordered, def.inputs) \ ConfigurationNames(def, DOMAIN stored) :
           Arrives(ordered, def.inputs, n)

\* A form that is refused comes back with everything its user had entered,
\* except the files, for the fields that are still declared as they were.
RefusedKeepsEntries ==
  [][\A t \in Tab : tab[t].at = "sent" /\ tab'[t].at = "form" =>
       \A k \in ValueFields(tab'[t].fields) \intersect DOMAIN tab[t].fields :
         tab[t].fields[k] = tab'[t].fields[k] =>
           tab'[t].controls[k] = tab[t].controls[k]]_varsForms

=============================================================================
