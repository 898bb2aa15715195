-------------------------- MODULE ParametersProofs --------------------------
(***************************************************************************)
(* Proofs about Parameters, for any names, any images and labels, any      *)
(* number of requests that are served at the same time, of saves and of    *)
(* publications.                                                           *)
(***************************************************************************)
EXTENDS Parameters, TLAPS

(***************************************************************************)
(* The inductive invariant.  A required value is checked when a form is    *)
(* submitted and used when the execution is handed out, with a definition  *)
(* that is fetched again.  What the check established is therefore stated  *)
(* of everything that carries the values on: the parameters of the         *)
(* execution with the definition they were submitted with, the rows with   *)
(* the definition they were saved with, and the copies of both that a      *)
(* hand-out has taken.                                                     *)
(***************************************************************************)
EnvValue == Value \union {"true", "false"}

Params == UNION {[S -> [json: {"bool", "string"}, value: EnvValue]] : S \in SUBSET Name}

Env == UNION {[S -> EnvValue] : S \in SUBSET Name}

Metas == {i.meta : i \in Image} \union {""}

Requests == [kind: {"none", "get", "post"}, rows: SUBSET Row, execs: BOOLEAN,
             meta: Metas, def: Definitions]

Execs == [status: {"none", "queued", "started", "deleted"}, params: Params,
          def: Definitions]

Assigns == [step: {"none", "loaded", "sent"}, params: Params, rows: SUBSET Row,
            env: Env, form: Definitions, saved: Definitions, def: Definitions]

WellTyped ==
  /\ image \in Image /\ published \in 0..MaxPublished
  /\ task \in {"none", "stored", "deleted"} /\ meta \in Metas
  /\ config \in SUBSET Row /\ saves \in 0..MaxSaves
  /\ restored \in BOOLEAN /\ savedWith \in Definitions
  /\ admin \in [Request -> Requests] /\ exec \in Execs /\ assign \in Assigns

\* Only a stored task has configuration rows and live executions
ForeignKeys ==
  config # {} \/ exec.status \in {"queued", "started"} => task = "stored"

\* The parameters have every value the input form of d asked for, a check box
\* as a Boolean, and no required one is empty
Supplied(params, d) ==
  \A n \in ValueFields(d.inputs) :
    /\ n \in DOMAIN params
    /\ d.inputs[n].type = "boolean" => params[n].json = "bool"
    /\ d.inputs[n].required => params[n].value # ""

\* The rows have what the configuration form of d required
Configured(rows, d) ==
  \A n \in ValueFields(d.configuration) :
    d.configuration[n].required =>
      /\ \E r \in rows : r.name = n
      /\ \A r \in rows : r.name = n => r.value # ""

\* The definition is fetched and the environment made by the last step
HandOutGood ==
  /\ Supplied(assign.params, assign.form) /\ Configured(assign.rows, assign.saved)
  /\ assign.step # "sent" => assign.def = NoDefinition

ParametersInv ==
  /\ WellTyped /\ ForeignKeys
  /\ Supplied(exec.params, exec.def)
  /\ ~restored => Configured(config, savedWith)
  /\ HandOutGood /\ RequiredArrives /\ OneRowPerName

-----------------------------------------------------------------------------
\* Fields with a name, a type and a flag
Fields(f) ==
  /\ DOMAIN f \subseteq Name
  /\ \A n \in DOMAIN f : f[n].type \in Type /\ f[n].required \in BOOLEAN

\* A definition that is missing has no fields
LEMMA NoFields ==
  /\ NoDefinition \in Definitions
  /\ NoDefinition.inputs = <<>> /\ NoDefinition.configuration = <<>>
  /\ DOMAIN (<<>>) = {}
BY DEF NoDefinition, Definitions

\* An image that parses has well-formed fields in each group
LEMMA InputFields ==
  ASSUME NEW i \in Image, Parses(i), NEW g \in Group
  PROVE  Fields(Inputs(i.labels, g))
<1>1. Names(i.labels, g) \subseteq Name
  BY ParametersAssumption DEF Names
<1>2. \A n \in Names(i.labels, g) : Property(i.labels, g, n, "type") \in Type
  BY DEF Parses
<1> QED
  BY <1>1, <1>2 DEF Fields, Inputs

\* FetchTaskDefinition returns a definition, which is not the missing one
LEMMA FetchedDefinition ==
  ASSUME NEW i \in Image, Parses(i)
  PROVE  /\ Definition(i) \in Definitions /\ Definition(i) # NoDefinition
         /\ Definition(i).meta \in Metas
BY DEF Definitions, Definition, NoDefinition, Parses, Metas

\* The meta data of a definition come from an image
LEMMA DefinitionMeta == \A d \in Definitions : d.meta \in Metas
<1>1. NoDefinition.meta \in Metas
  BY DEF NoDefinition, Metas
<1> QED
  BY <1>1, FetchedDefinition DEF Definitions

\* The fields of every definition are well formed
LEMMA DefinitionFields ==
  ASSUME NEW d \in Definitions
  PROVE  Fields(d.inputs) /\ Fields(d.configuration)
<1>1. CASE d = NoDefinition
  BY <1>1, NoFields DEF Fields
<1>2. ASSUME NEW i \in Image, Parses(i), d = Definition(i)
      PROVE  Fields(d.inputs) /\ Fields(d.configuration)
  <2>1. d.inputs = Inputs(i.labels, "inputs")
        /\ d.configuration = Inputs(i.labels, "config")
    BY <1>2 DEF Definition
  <2> QED
    BY <2>1, <1>2, InputFields DEF Group
<1> QED
  BY <1>1, <1>2 DEF Definitions

\* Without a definition nothing is asked for, and no values are well formed
LEMMA EmptyGood ==
  /\ <<>> \in Params /\ <<>> \in Env
  /\ \A p : Supplied(p, NoDefinition)
  /\ \A rows : Configured(rows, NoDefinition)
<1>1. <<>> = [n \in {} |-> ""]
  OBVIOUS
<1>2. <<>> \in [{} -> [json: {"bool", "string"}, value: EnvValue]]
      /\ <<>> \in [{} -> EnvValue]
  BY <1>1
<1>3. /\ ValueFields(NoDefinition.inputs) = {}
      /\ ValueFields(NoDefinition.configuration) = {}
  BY NoFields DEF ValueFields
<1> QED
  BY <1>2, <1>3 DEF Params, Env, Supplied, Configured

\* The contents of unused requests, executions and hand-outs are well formed
LEMMA EmptyRecords ==
  NoRequest \in Requests /\ NoExec \in Execs /\ NoAssign \in Assigns
BY EmptyGood, NoFields DEF NoRequest, Requests, NoExec, Execs, NoAssign, Assigns, Metas

-----------------------------------------------------------------------------
\* One parameter, as it is stored
LEMMA Parameter ==
  ASSUME NEW v \in EnvValue, NEW j \in {"bool", "string"}
  PROVE  /\ [json |-> j, value |-> v] \in [json: {"bool", "string"}, value: EnvValue]
         /\ [json |-> j, value |-> v].json = j /\ [json |-> j, value |-> v].value = v
OBVIOUS

\* A valid form brings every value that was asked for
LEMMA SubmittedParams ==
  ASSUME NEW d \in Definitions, NEW body \in [Name -> Value],
         IsValid(d.inputs, Handle(d.inputs, <<>>, body), body)
  PROVE  LET p == marshalInputParameters(d.inputs, Handle(d.inputs, <<>>, body))
         IN  p \in Params /\ Supplied(p, d)
<1> DEFINE h == Handle(d.inputs, <<>>, body)
           p == marshalInputParameters(d.inputs, h)
           S == ValueFields(d.inputs)
<1>1. Fields(d.inputs)
  BY DefinitionFields
<1>2. S \subseteq Name /\ S \subseteq DOMAIN d.inputs
  BY <1>1 DEF Fields, ValueFields
<1>3. h = [n \in S |-> body[n]]
  BY NoFields DEF Handle
<1>4. \A n \in S : h[n] = body[n] /\ h[n] \in Value
  BY <1>2, <1>3
<1>5. p = [n \in S |-> IF d.inputs[n].type = "boolean"
                       THEN [json |-> "bool", value |-> Boolean(h[n])]
                       ELSE [json |-> "string", value |-> h[n]]]
  BY <1>3 DEF marshalInputParameters
<1> HIDE DEF p
<1>6. ASSUME NEW n \in S
      PROVE  /\ p[n] \in [json: {"bool", "string"}, value: EnvValue]
             /\ d.inputs[n].type = "boolean" => p[n].json = "bool"
             /\ h[n] # "" => p[n].value # ""
  <2>1. h[n] \in EnvValue /\ Boolean(h[n]) \in EnvValue /\ Boolean(h[n]) # ""
    BY <1>4 DEF Boolean, EnvValue
  <2>2. CASE d.inputs[n].type = "boolean"
    <3>1. p[n] = [json |-> "bool", value |-> Boolean(h[n])]
      BY <1>5, <2>2
    <3>2. p[n].json = "bool" /\ p[n].value = Boolean(h[n])
      BY <3>1
    <3>3. p[n] \in [json: {"bool", "string"}, value: EnvValue]
      BY <3>1, <2>1, Parameter
    <3> QED
      BY <3>2, <3>3, <2>1, Zenon
  <2>3. CASE d.inputs[n].type # "boolean"
    <3>1. p[n] = [json |-> "string", value |-> h[n]]
      BY <1>5, <2>3
    <3>2. p[n].value = h[n]
      BY <3>1
    <3>3. p[n] \in [json: {"bool", "string"}, value: EnvValue]
      BY <3>1, <2>1, Parameter
    <3> QED
      BY <3>2, <3>3, <2>3, Zenon
  <2> QED
    BY <2>2, <2>3
<1>7. p \in [S -> [json: {"bool", "string"}, value: EnvValue]]
  BY <1>5, <1>6
<1>8. p \in Params
  BY <1>7, <1>2 DEF Params
<1>9. \A n \in S : d.inputs[n].required => h[n] # ""
  BY <1>2 DEF IsValid, Present, ValueFields
<1>10. Supplied(p, d)
  BY <1>6, <1>7, <1>9 DEF Supplied
<1> QED
  BY <1>8, <1>10 DEF p

\* The values that are read from rows
LEMMA ReadRows ==
  ASSUME NEW rows \in SUBSET Row, NEW stored \in Choices(rows)
  PROVE  /\ DOMAIN stored = {r.name : r \in rows} /\ DOMAIN stored \subseteq Name
         /\ \A n \in DOMAIN stored :
              stored[n] \in Value /\ \E r \in rows : r.name = n /\ r.value = stored[n]
BY DEF Choices, Row

\* The environment of a hand-out is made of text, and has what was supplied and
\* what was configured
LEMMA HandedEnvironment ==
  ASSUME NEW d \in Definitions, NEW params \in Params, NEW rows \in SUBSET Row,
         NEW stored \in Choices(rows)
  PROVE  LET env == Environment(d, params, stored)
         IN  /\ env \in Env
             /\ Supplied(params, d) =>
                  \A n \in ValueFields(d.inputs) \
                             ConfigurationNames(d, {r.name : r \in rows}) :
                    d.inputs[n].required => n \in DOMAIN env /\ env[n] # ""
             /\ Configured(rows, d) =>
                  \A n \in ValueFields(d.configuration) :
                    d.configuration[n].required => n \in DOMAIN env /\ env[n] # ""
<1> DEFINE env == Environment(d, params, stored)
           C == ConfigurationNames(d, DOMAIN stored)
           I == InputNames(d, params)
<1>1. DOMAIN stored = {r.name : r \in rows} /\ DOMAIN stored \subseteq Name
      /\ \A n \in DOMAIN stored :
           stored[n] \in Value /\ \E r \in rows : r.name = n /\ r.value = stored[n]
  BY ReadRows
<1>2. PICK S \in SUBSET Name :
        params \in [S -> [json: {"bool", "string"}, value: EnvValue]]
  BY DEF Params
<1>3. I \subseteq S /\ C \subseteq DOMAIN stored /\ C \subseteq Name
  BY <1>1, <1>2 DEF InputNames, ConfigurationNames
<1>4. env = [n \in I \union C |->
               IF n \in C THEN ConfigurationValue(d.configuration[n], stored[n])
               ELSE params[n].value]
  BY DEF Environment
<1>5. \A n \in C : env[n] \in EnvValue
  BY <1>1, <1>3, <1>4 DEF ConfigurationValue, Boolean, EnvValue
<1>6. \A n \in I \ C : env[n] \in EnvValue /\ env[n] = params[n].value
  BY <1>2, <1>3, <1>4
<1>7. env \in [I \union C -> EnvValue] /\ I \union C \in SUBSET Name
  BY <1>2, <1>3, <1>4, <1>5, <1>6
<1>8. env \in Env
  BY <1>7 DEF Env
<1>9. ASSUME Supplied(params, d),
             NEW n \in ValueFields(d.inputs) \
                         ConfigurationNames(d, {r.name : r \in rows}),
             d.inputs[n].required
      PROVE  n \in DOMAIN env /\ env[n] # ""
  <2>1. n \in I /\ n \notin C /\ params[n].value # ""
    BY <1>9, <1>1 DEF Supplied, InputNames
  <2> QED
    BY <2>1, <1>4, <1>6
<1>10. ASSUME Configured(rows, d), NEW n \in ValueFields(d.configuration),
              d.configuration[n].required
       PROVE  n \in DOMAIN env /\ env[n] # ""
  <2>1. n \in DOMAIN stored /\ stored[n] # ""
    <3>1. PICK r \in rows : r.name = n
      BY <1>10 DEF Configured
    <3>2. n \in DOMAIN stored
      BY <3>1, <1>1
    <3>3. PICK s \in rows : s.name = n /\ s.value = stored[n]
      BY <3>2, <1>1
    <3> QED
      BY <3>2, <3>3, <1>10 DEF Configured
  <2>2. n \in C
    BY <2>1 DEF ConfigurationNames, ValueFields
  <2>3. env[n] = ConfigurationValue(d.configuration[n], stored[n])
    BY <2>2, <1>4
  <2> QED
    BY <2>1, <2>2, <2>3, <1>4 DEF ConfigurationValue, Boolean
<1> QED
  BY <1>8, <1>9, <1>10

-----------------------------------------------------------------------------
\* The initial state
LEMMA ParametersInit == Init => ParametersInv
<1> SUFFICES ASSUME Init PROVE ParametersInv
  OBVIOUS
<1>1. WellTyped
  <2>1. admin \in [Request -> Requests] /\ exec \in Execs /\ assign \in Assigns
    BY EmptyRecords DEF Init
  <2>2. MaxPublished \in Nat /\ MaxSaves \in Nat
    BY ParametersAssumption, Zenon
  <2>3. published \in 0..MaxPublished /\ saves \in 0..MaxSaves
    <3>1. published = 0 /\ saves = 0
      BY DEF Init
    <3> QED
      BY <3>1, <2>2
  <2> QED
    BY <2>1, <2>3, NoFields DEF Init, WellTyped, Metas
<1>2. ForeignKeys /\ OneRowPerName
  BY DEF Init, ForeignKeys, NoExec, OneRowPerName
<1>3. Supplied(exec.params, exec.def) /\ Configured(config, savedWith)
  BY EmptyGood DEF Init, NoExec
<1>4. HandOutGood /\ RequiredArrives
  BY EmptyGood DEF Init, NoAssign, HandOutGood, RequiredArrives, Sent
<1> QED
  BY <1>1, <1>2, <1>3, <1>4 DEF ParametersInv

\* Steps of the registry and of requests that only read
LEMMA QuietStep ==
  ASSUME ParametersInv, WellTyped', UNCHANGED <<config, exec, assign, history>>,
         task = "stored" => task' = "stored"
  PROVE  ParametersInv'
<1>1. ForeignKeys' /\ OneRowPerName'
  BY DEF ParametersInv, ForeignKeys, OneRowPerName, history
<1>2. Supplied(exec.params, exec.def)' /\ (~restored => Configured(config, savedWith))'
  BY DEF ParametersInv, history
<1>3. HandOutGood' /\ RequiredArrives'
  BY DEF ParametersInv, HandOutGood, RequiredArrives, Sent, Filled
<1> QED
  BY <1>1, <1>2, <1>3 DEF ParametersInv

\* Steps that leave the hand-out alone
LEMMA HandOutStays ==
  ASSUME HandOutGood, RequiredArrives, UNCHANGED assign
  PROVE  HandOutGood' /\ RequiredArrives'
BY DEF HandOutGood, RequiredArrives, Sent, Filled

\* The registry gets another image
LEMMA PublishStep == ParametersInv /\ Publish => ParametersInv'
<1> SUFFICES ASSUME ParametersInv, Publish PROVE ParametersInv'
  OBVIOUS
<1>1. WellTyped'
  BY ParametersAssumption DEF ParametersInv, WellTyped, Publish, history
<1> QED
  BY <1>1, QuietStep DEF Publish

\* A task is created
LEMMA CreateStep == ParametersInv /\ Create => ParametersInv'
<1> SUFFICES ASSUME ParametersInv, Create PROVE ParametersInv'
  OBVIOUS
<1>1. WellTyped'
  BY FetchedDefinition DEF ParametersInv, WellTyped, Create, history
<1> QED
  BY <1>1, QuietStep DEF Create

\* The rows and executions of a task go with it
LEMMA DeleteStep == ParametersInv /\ Delete => ParametersInv'
<1> SUFFICES ASSUME ParametersInv, Delete PROVE ParametersInv'
  OBVIOUS
<1>1. exec' \in Execs /\ exec'.params = exec.params /\ exec'.def = exec.def
      /\ exec'.status \notin {"queued", "started"}
  BY DEF ParametersInv, WellTyped, Delete, Execs
<1>2. WellTyped'
  BY <1>1, NoFields DEF ParametersInv, WellTyped, Delete
<1>3. ForeignKeys' /\ OneRowPerName'
  BY <1>1 DEF Delete, ForeignKeys, OneRowPerName
<1>4. Supplied(exec.params, exec.def)' /\ Configured(config, savedWith)'
  BY <1>1, EmptyGood DEF ParametersInv, Delete
<1>5. HandOutGood' /\ RequiredArrives'
  BY HandOutStays DEF ParametersInv, Delete
<1> QED
  BY <1>2, <1>3, <1>4, <1>5 DEF ParametersInv

\* The copies of the rows that a request holds
LEMMA LoadStep ==
  \A q \in Request, kind \in {"get", "post"} :
    ParametersInv /\ Load(q, kind) => ParametersInv'
<1> SUFFICES ASSUME NEW q \in Request, NEW kind \in {"get", "post"}, ParametersInv,
                    Load(q, kind)
             PROVE  ParametersInv'
  OBVIOUS
<1>1. WellTyped'
  BY NoFields DEF ParametersInv, WellTyped, Load, Requests, history
<1> QED
  BY <1>1, QuietStep DEF Load

\* A request fetches the definition
LEMMA FetchStep ==
  \A q \in Request : ParametersInv /\ FetchTaskDefinition(q) => ParametersInv'
<1> SUFFICES ASSUME NEW q \in Request, ParametersInv, FetchTaskDefinition(q)
             PROVE  ParametersInv'
  OBVIOUS
<1>1. Definition(image) \in Definitions
  BY FetchedDefinition DEF ParametersInv, WellTyped, FetchTaskDefinition
<1>2. WellTyped'
  BY <1>1 DEF ParametersInv, WellTyped, FetchTaskDefinition, Requests, history
<1> QED
  BY <1>2, QuietStep DEF FetchTaskDefinition

\* A request ends without an effect
LEMMA FailStep ==
  \A q \in Request : ParametersInv /\ Fail(q) => ParametersInv'
<1> SUFFICES ASSUME NEW q \in Request, ParametersInv, Fail(q)
             PROVE  ParametersInv'
  OBVIOUS
<1>1. WellTyped'
  BY EmptyRecords DEF ParametersInv, WellTyped, Fail, End, history
<1> QED
  BY <1>1, QuietStep DEF Fail

\* A page that changes the meta data brings back the rows of its copy, but none
\* for a task that was deleted
LEMMA ShowStep ==
  \A q \in Request : ParametersInv /\ ShowForm(q) => ParametersInv'
<1> SUFFICES ASSUME NEW q \in Request, ParametersInv, ShowForm(q)
             PROVE  ParametersInv'
  OBVIOUS
<1>1. admin[q] \in Requests /\ admin[q].rows \in SUBSET Row
  BY DEF ParametersInv, WellTyped, Requests
<1>2. config' \in SUBSET Row /\ restored' \in BOOLEAN /\ meta' \in Metas
      /\ restored' = (restored \/ config' # config)
  BY <1>1, DefinitionMeta DEF ParametersInv, WellTyped, ShowForm, Requests
<1>3. WellTyped'
  BY <1>2, EmptyRecords DEF ParametersInv, WellTyped, ShowForm, End
<1>4. /\ task' \in {task, "stored"}
      /\ task # "stored" /\ config' # config => task' = "stored"
  BY DEF ShowForm
<1>5. ForeignKeys'
  BY <1>4 DEF ParametersInv, ForeignKeys, ShowForm
<1>6. ~restored' => ~restored /\ config' = config
  BY <1>2
<1>7. OneRowPerName' /\ (~restored => Configured(config, savedWith))'
  BY <1>6 DEF ParametersInv, OneRowPerName, ShowForm
<1>8. Supplied(exec.params, exec.def)' /\ HandOutGood' /\ RequiredArrives'
  BY HandOutStays DEF ParametersInv, ShowForm
<1> QED
  BY <1>3, <1>5, <1>7, <1>8 DEF ParametersInv

\* A valid configuration form becomes the rows, one for each name
LEMMA PostStep ==
  \A q \in Request, body \in [Name -> Value] :
    ParametersInv /\ PostForm(q, body) => ParametersInv'
<1> SUFFICES ASSUME NEW q \in Request, NEW body \in [Name -> Value], ParametersInv,
                    PostForm(q, body)
             PROVE  ParametersInv'
  OBVIOUS
<1> DEFINE d == admin[q].def
           fields == d.configuration
<1>1. /\ admin[q].rows \in SUBSET Row /\ d \in Definitions
      /\ admin' \in [Request -> Requests]
  BY EmptyRecords DEF ParametersInv, WellTyped, Requests, PostForm, End
<1>2. UNCHANGED <<image, published, task, meta, exec, assign>>
  BY DEF PostForm
<1>3. CASE UNCHANGED <<config, saves, savedWith, restored>>
  <2>1. WellTyped'
    BY <1>1, <1>2, <1>3 DEF ParametersInv, WellTyped
  <2> QED
    BY <2>1, <1>2, <1>3, QuietStep DEF history
<1>4. ASSUME NEW stored \in Choices(admin[q].rows),
             task = "stored", IsValid(fields, Handle(fields, stored, body), body),
             UpdateConfiguration(Handle(fields, stored, body)),
             saves' = saves + 1, savedWith' = d, restored' = FALSE
      PROVE  ParametersInv'
  <2> DEFINE v == Handle(fields, stored, body)
             D == DOMAIN stored \union ValueFields(fields)
  <2>1. saves \in Nat /\ saves + 1 \in 1..MaxSaves /\ saves + 1 \in 0..MaxSaves
    BY ParametersAssumption DEF ParametersInv, WellTyped, PostForm
  <2>2. v = [n \in D |-> IF n \in ValueFields(fields) THEN body[n] ELSE stored[n]]
    BY DEF Handle
  <2>3. D \subseteq Name /\ ValueFields(fields) \subseteq DOMAIN fields
    BY <1>1, ReadRows, DefinitionFields DEF ValueFields, Fields
  <2>4. \A n \in D : v[n] \in Value
    BY <1>1, <2>2, <2>3, ReadRows
  <2>5. \A n \in ValueFields(fields) : fields[n].required => v[n] # ""
    BY <1>4, <2>3 DEF IsValid, Present, ValueFields
  <2>6. config' = {[save |-> saves + 1, name |-> n, value |-> v[n]] : n \in D}
    BY <1>4, <2>2 DEF UpdateConfiguration
  <2> HIDE DEF v, D
  <2>7. config' \in SUBSET Row
    BY <2>1, <2>3, <2>4, <2>6 DEF Row
  <2>8. WellTyped'
    BY <1>1, <1>2, <1>4, <2>1, <2>7 DEF ParametersInv, WellTyped
  <2>9. ForeignKeys'
    BY <1>2, <1>4 DEF ForeignKeys
  <2>10. OneRowPerName'
    BY <2>6 DEF OneRowPerName
  <2>11. Configured(config', d)
    <3> SUFFICES ASSUME NEW n \in ValueFields(fields), fields[n].required
                 PROVE  /\ \E r \in config' : r.name = n
                        /\ \A r \in config' : r.name = n => r.value # ""
      BY DEF Configured
    <3>1. n \in D
      BY DEF D
    <3>2. \A r \in config' : r.name = n => r.value = v[n]
      BY <2>6
    <3>3. [save |-> saves + 1, name |-> n, value |-> v[n]] \in config'
      BY <3>1, <2>6
    <3> QED
      BY <3>2, <3>3, <2>5
  <2>12. Supplied(exec.params, exec.def)' /\ HandOutGood' /\ RequiredArrives'
    BY <1>2, HandOutStays DEF ParametersInv
  <2> QED
    BY <1>4, <2>8, <2>9, <2>10, <2>11, <2>12 DEF ParametersInv
<1> QED
  BY <1>3, <1>4 DEF PostForm

-----------------------------------------------------------------------------
\* A submission
LEMMA SubmitStep ==
  \A body \in [Name -> Value] : ParametersInv /\ Submit(body) => ParametersInv'
<1> SUFFICES ASSUME NEW body \in [Name -> Value], ParametersInv, Submit(body)
             PROVE  ParametersInv'
  OBVIOUS
<1> DEFINE d == Definition(image)
           p == marshalInputParameters(d.inputs, Handle(d.inputs, <<>>, body))
<1>1. d \in Definitions
  BY FetchedDefinition DEF ParametersInv, WellTyped, Submit
<1>2. exec' = [status |-> "queued", def |-> d, params |-> p]
      /\ IsValid(d.inputs, Handle(d.inputs, <<>>, body), body)
  BY DEF Submit
<1>3. p \in Params /\ Supplied(p, d)
  BY <1>1, <1>2, SubmittedParams
<1> HIDE DEF p, d
<1>4. exec' \in Execs /\ exec'.params = p /\ exec'.def = d
  BY <1>1, <1>2, <1>3 DEF Execs
<1>5. WellTyped'
  BY <1>4 DEF ParametersInv, WellTyped, Submit, history
<1>6. ForeignKeys' /\ OneRowPerName' /\ (~restored => Configured(config, savedWith))'
  BY DEF ParametersInv, ForeignKeys, OneRowPerName, Submit, history
<1>7. HandOutGood' /\ RequiredArrives'
  BY HandOutStays DEF ParametersInv, Submit
<1> QED
  BY <1>3, <1>4, <1>5, <1>6, <1>7 DEF ParametersInv

\* The hand-out copies parameters and rows
LEMMA NextTaskStep == ParametersInv /\ NextTask => ParametersInv'
<1> SUFFICES ASSUME ParametersInv, NextTask PROVE ParametersInv'
  OBVIOUS
<1>1. exec' \in Execs /\ exec'.params = exec.params /\ exec'.def = exec.def
      /\ exec'.status = "started"
  BY DEF ParametersInv, WellTyped, NextTask, Execs
<1> DEFINE s == IF restored THEN NoDefinition ELSE savedWith
<1>2. assign' = [step |-> "loaded", params |-> exec.params, rows |-> config,
                 env |-> <<>>, form |-> exec.def, saved |-> s, def |-> NoDefinition]
  BY DEF NextTask, NoAssign
<1>3. s \in Definitions /\ Configured(config, s)
  BY NoFields, EmptyGood DEF ParametersInv, WellTyped
<1> HIDE DEF s
<1>4. assign' \in Assigns
  BY <1>2, <1>3, NoFields, EmptyGood DEF ParametersInv, WellTyped, Assigns, Execs
<1>5. WellTyped'
  BY <1>1, <1>4 DEF ParametersInv, WellTyped, NextTask, history
<1>6. ForeignKeys'
  BY DEF ParametersInv, ForeignKeys, NextTask
<1>7. OneRowPerName' /\ (~restored => Configured(config, savedWith))'
      /\ Supplied(exec.params, exec.def)'
  BY <1>1 DEF ParametersInv, OneRowPerName, NextTask, history
<1>8. HandOutGood' /\ RequiredArrives'
  BY <1>2, <1>3 DEF ParametersInv, HandOutGood, RequiredArrives, Sent
<1> QED
  BY <1>5, <1>6, <1>7, <1>8 DEF ParametersInv

\* The environment is made
LEMMA HandOutStep == ParametersInv /\ HandOut => ParametersInv'
<1> SUFFICES ASSUME ParametersInv, HandOut PROVE ParametersInv'
  OBVIOUS
<1>1. assign \in Assigns /\ assign.def = NoDefinition
      /\ Supplied(assign.params, assign.form) /\ Configured(assign.rows, assign.saved)
  BY DEF ParametersInv, WellTyped, HandOutGood, HandOut
<1>2. assign' \in Assigns /\ HandOutGood' /\ RequiredArrives'
  <2>1. CASE assign' = [assign EXCEPT !.step = "sent"]
    BY <1>1, <2>1 DEF Assigns, HandOutGood, RequiredArrives, Sent
  <2>2. ASSUME Parses(image), NEW stored \in Choices(assign.rows),
               assign' = [assign EXCEPT !.step = "sent", !.def = Definition(image),
                 !.env = Environment(Definition(image), assign.params, stored)]
        PROVE  assign' \in Assigns /\ HandOutGood' /\ RequiredArrives'
    <3> DEFINE d == Definition(image)
               e == Environment(d, assign.params, stored)
    <3>1. d \in Definitions
      BY <2>2, FetchedDefinition DEF ParametersInv, WellTyped
    <3>2. assign.params \in Params /\ assign.rows \in SUBSET Row
      BY <1>1 DEF Assigns
    <3>3. /\ e \in Env
          /\ Supplied(assign.params, d) =>
               \A n \in ValueFields(d.inputs) \
                          ConfigurationNames(d, {r.name : r \in assign.rows}) :
                 d.inputs[n].required => n \in DOMAIN e /\ e[n] # ""
          /\ Configured(assign.rows, d) =>
               \A n \in ValueFields(d.configuration) :
                 d.configuration[n].required => n \in DOMAIN e /\ e[n] # ""
      BY <3>1, <3>2, HandedEnvironment
    <3> HIDE DEF d, e
    <3>4. assign' = [assign EXCEPT !.step = "sent", !.def = d, !.env = e]
      BY <2>2 DEF d, e
    <3>5. /\ assign' \in Assigns
          /\ assign'.step = "sent" /\ assign'.def = d /\ assign'.env = e
          /\ assign'.params = assign.params /\ assign'.rows = assign.rows
          /\ assign'.form = assign.form /\ assign'.saved = assign.saved
      BY <1>1, <3>1, <3>3, <3>4 DEF Assigns
    <3>6. HandOutGood'
      BY <1>1, <3>5 DEF HandOutGood
    <3>7. RequiredArrives'
      BY <1>1, <3>3, <3>5 DEF RequiredArrives, Filled
    <3> QED
      BY <3>5, <3>6, <3>7
  <2> QED
    BY <2>1, <2>2 DEF HandOut
<1>3. WellTyped'
  BY <1>2 DEF ParametersInv, WellTyped, HandOut, history
<1>4. ForeignKeys' /\ OneRowPerName' /\ (~restored => Configured(config, savedWith))'
      /\ Supplied(exec.params, exec.def)'
  BY DEF ParametersInv, ForeignKeys, OneRowPerName, HandOut, history
<1> QED
  BY <1>2, <1>3, <1>4 DEF ParametersInv

-----------------------------------------------------------------------------
\* Every step keeps the invariant
LEMMA ParametersNext == ParametersInv /\ [Next]_vars => ParametersInv'
<1> SUFFICES ASSUME ParametersInv, [Next]_vars PROVE ParametersInv'
  OBVIOUS
<1>1. CASE Publish \/ Create \/ Delete \/ NextTask \/ HandOut
  BY <1>1, PublishStep, CreateStep, DeleteStep, NextTaskStep, HandOutStep
<1>2. ASSUME NEW body \in [Name -> Value],
             Submit(body) \/ \E q \in Request : PostForm(q, body)
      PROVE  ParametersInv'
  BY <1>2, SubmitStep, PostStep
<1>3. ASSUME NEW q \in Request,
             \/ \E kind \in {"get", "post"} : Load(q, kind)
             \/ FetchTaskDefinition(q) \/ Fail(q) \/ ShowForm(q)
      PROVE  ParametersInv'
  BY <1>3, LoadStep, FetchStep, FailStep, ShowStep
<1>4. CASE UNCHANGED vars
  <2>1. WellTyped'
    BY <1>4 DEF ParametersInv, WellTyped, vars
  <2> QED
    BY <2>1, <1>4, QuietStep DEF vars, history
<1> QED
  BY <1>1, <1>2, <1>3, <1>4 DEF Next

\* The invariant holds in every reachable state
THEOREM ParametersInvariance == Spec => []ParametersInv
BY ParametersInit, ParametersNext, PTL DEF Spec

\* Requests, rows and hand-outs are well formed, and only a stored task has
\* configuration rows and live executions, although a page that was loaded
\* before a deletion may save the task again.
THEOREM ParametersTypeCorrect == Spec => []TypeOK
<1>1. ParametersInv => TypeOK
  <2> SUFFICES ASSUME ParametersInv PROVE TypeOK
    OBVIOUS
  <2>1. WellTyped /\ ForeignKeys
    BY DEF ParametersInv
  <2>2. \A q \in Request :
          /\ admin[q].kind \in {"none", "get", "post"} /\ admin[q].rows \subseteq Row
          /\ admin[q].execs \in BOOLEAN /\ admin[q].def \in Definitions
    BY <2>1 DEF WellTyped, Requests
  <2>3. exec.status \in {"none", "queued", "started", "deleted"}
    BY <2>1 DEF WellTyped, Execs
  <2>4. /\ assign.step \in {"none", "loaded", "sent"} /\ assign.rows \subseteq Row
        /\ assign.def \in Definitions /\ assign.env \in Env
    BY <2>1 DEF WellTyped, Assigns
  <2>5. /\ DOMAIN assign.env \subseteq Name
        /\ \A n \in DOMAIN assign.env : assign.env[n] \in Value \union {"true", "false"}
    <3> DEFINE e == assign.env
    <3>1. PICK S \in SUBSET Name : e \in [S -> EnvValue]
      BY <2>4 DEF Env
    <3> HIDE DEF e
    <3>2. DOMAIN e \subseteq Name /\ \A n \in DOMAIN e : e[n] \in EnvValue
      BY <3>1
    <3> QED
      BY <3>2 DEF e, EnvValue
  <2> QED
    BY <2>1, <2>2, <2>3, <2>4, <2>5 DEF TypeOK, WellTyped, ForeignKeys
<1> QED
  BY <1>1, ParametersInvariance, PTL

\* What the forms required is in the environment of the container, for any
\* images, if the definition that is used is the one the form was checked with.
THEOREM RequiredArrivesAlways == Spec => []RequiredArrives
<1>1. ParametersInv => RequiredArrives
  BY DEF ParametersInv
<1> QED
  BY <1>1, ParametersInvariance, PTL

\* A configuration has one value for each name, whatever forms are submitted at
\* the same time, unless a stale page put replaced rows back.
THEOREM OneRowPerNameAlways == Spec => []OneRowPerName
<1>1. ParametersInv => OneRowPerName
  BY DEF ParametersInv
<1> QED
  BY <1>1, ParametersInvariance, PTL

=============================================================================
