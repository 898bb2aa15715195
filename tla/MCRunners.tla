----------------------------- MODULE MCRunners ------------------------------
(* Small instances of Runners and RunnerPages for TLC.                     *)
EXTENDS RunnerPages, TLC

CONSTANTS emb, m1, m2, q1

ThreeNames == {emb, m1, m2}
OneRequest == {q1}

Symmetry == Permutations({m1, m2})
=============================================================================
