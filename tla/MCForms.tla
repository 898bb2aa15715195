------------------------------- MODULE MCForms ------------------------------
(* Two versions of an image that differ in the types of their parameters and *)
(* in whether a form has a file field.                                       *)
EXTENDS Forms, TLC

Field(type, required) == [type |-> type, required |-> required]

First ==
  [inputs |-> [a |-> Field("boolean", FALSE), b |-> Field("text", TRUE)],
   configuration |-> [b |-> Field("boolean", FALSE), c |-> Field("number", TRUE)]]

Second ==
  [inputs |-> [a |-> Field("boolean", FALSE), b |-> Field("file", TRUE)],
   configuration |-> [b |-> Field("text", FALSE), c |-> Field("boolean", TRUE)]]

Third ==
  [inputs |-> [a |-> Field("text", TRUE), b |-> Field("number", FALSE)],
   configuration |-> [b |-> Field("boolean", FALSE), c |-> Field("file", FALSE)]]

\* Pages are interchangeable
Symmetry == Permutations(Tab)

MCName == {"a", "b", "c"}
MCDefinitions == {First, Second, Third}
=============================================================================
