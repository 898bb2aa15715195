------------------------------ MODULE MCPages -------------------------------
(* Small instances of Pages for TLC.                                       *)
EXTENDS Pages, TLC

CONSTANTS ann, bob, boss

Ids == {1, 10}
Submitters == {ann, bob}
Users == {ann, bob, boss}
Administrators == {boss}
Filters == {"all", "succeeded"}

Symmetry == Permutations(Submitters)
=============================================================================
