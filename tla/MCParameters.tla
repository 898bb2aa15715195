---------------------------- MODULE MCParameters ----------------------------
(* Three versions of an image: two that differ in their meta labels and in   *)
(* the types of their parameters, and one that does not parse.               *)
EXTENDS Parameters, TLC

Label(g, n, p, v) == [group |-> g, name |-> n, property |-> p, value |-> v]

First ==
  [meta |-> "m1",
   labels |-> {Label("inputs", "a", "type", "text"), Label("inputs", "a", "required", "true"),
               Label("config", "b", "type", "text"), Label("config", "b", "required", "true")}]

Second ==
  [meta |-> "m2",
   labels |-> {Label("inputs", "a", "type", "boolean"), Label("inputs", "a", "required", "true"),
               Label("inputs", "b", "type", "file"), Label("inputs", "b", "required", "true"),
               Label("config", "a", "type", "boolean"), Label("config", "a", "required", "false")}]

Broken == [meta |-> "m1", labels |-> {Label("inputs", "a", "required", "true")}]

\* Requests are interchangeable
Symmetry == Permutations(Request)

MCName == {"a", "b"}
MCImage == {First, Second, Broken}
=============================================================================
