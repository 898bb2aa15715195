------------------------------ MODULE MCUsers -------------------------------
(* Small instances of Users for TLC. *)
EXTENDS Users, TLC

CONSTANTS boss, ann, bob, chief, p1, p2, q1, q2

ThreeSubjects == {boss, ann, bob}
Profiles == {chief, p1, p2}
TheAdminProfile == {chief}
TwoRequests == {q1, q2}

\* The provider gives boss the email of the default administrator, ann always
\* the same profile, and bob one of two
Given == [s \in ThreeSubjects |-> CASE s = boss -> {chief}
                                    [] s = ann  -> {p1}
                                    [] s = bob  -> {p1, p2}]

Symmetry == Permutations(TwoRequests)
=============================================================================
