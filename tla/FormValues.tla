----------------------------- MODULE FormValues -----------------------------
(***************************************************************************)
(* The values of the input form and of the configuration form of a task:   *)
(* what a submitted body becomes, when a form is valid, and which values   *)
(* reach the environment of a container.  fields is the form's fields by   *)
(* name, values its values by name, body what a request brings for a name, *)
(* "" when it brings nothing.                                              *)
(***************************************************************************)

ValueFields(fields) == {n \in DOMAIN fields : fields[n].type # "file"}

\* Mutant of Handle: an empty value leaves the value the form was made with
HandleNonEmpty(fields, defaults, body) ==
  [n \in DOMAIN defaults \union ValueFields(fields) |->
     IF n \in ValueFields(fields) /\ (body[n] # "" \/ n \notin DOMAIN defaults)
     THEN body[n] ELSE defaults[n]]

\* Mutant of Handle: the names of files are taken as values too
HandleEvery(fields, defaults, body) ==
  [n \in DOMAIN defaults \union DOMAIN fields |->
     IF n \in DOMAIN fields THEN body[n] ELSE defaults[n]]

\* form.Values after Handle, which writes every field that is not a file over
\* the values the form was made with
Handle(fields, defaults, body) ==
  [n \in DOMAIN defaults \union ValueFields(fields) |->
     IF n \in ValueFields(fields) THEN body[n] ELSE defaults[n]]

\* Mutant of Present: the key of the form is enough
PresentKey(fields, values, body, n) ==
  IF fields[n].type = "file" THEN body[n] # "" ELSE n \in DOMAIN values

\* RequiredRule; body[n] # "" says that a file was uploaded as n
Present(fields, values, body, n) ==
  IF fields[n].type = "file" THEN body[n] # "" ELSE values[n] # ""

IsValid(fields, values, body) ==
  \A n \in DOMAIN fields :
    fields[n].required => Present(fields, values, body, n)

Boolean(value) == IF value = "on" THEN "true" ELSE "false"

\* Mutant of marshalInputParameters: check boxes are left as strings
MarshalStrings(fields, values) ==
  [n \in DOMAIN values |-> [json |-> "string", value |-> values[n]]]

\* The JSON value of a parameter: a Boolean or a string
marshalInputParameters(fields, values) ==
  [n \in DOMAIN values |->
     IF fields[n].type = "boolean"
     THEN [json |-> "bool", value |-> Boolean(values[n])]
     ELSE [json |-> "string", value |-> values[n]]]

InputNames(def, params) ==
  {n \in DOMAIN params \intersect ValueFields(def.inputs) :
     def.inputs[n].type = "boolean" => params[n].json = "bool"}

ConfigurationNames(def, names) == names \intersect DOMAIN def.configuration

ConfigurationValue(field, value) ==
  IF field.type = "boolean" THEN Boolean(value) ELSE value

\* The configuration, stored by name, is written over the inputs
Environment(def, params, stored) ==
  [n \in InputNames(def, params) \union ConfigurationNames(def, DOMAIN stored) |->
     IF n \in ConfigurationNames(def, DOMAIN stored)
     THEN ConfigurationValue(def.configuration[n], stored[n])
     ELSE params[n].value]

=============================================================================
