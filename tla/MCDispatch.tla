----------------------------- MODULE MCDispatch -----------------------------
(* Instances of Dispatch for TLC. *)
EXTENDS Dispatch, TLC

CONSTANTS r1, r2, t1, t2

OneRunner  == {r1}
TwoRunners == {r1, r2}
OneTask    == {t1}
TwoTasks   == {t1, t2}

\* Runners, and tasks, are interchangeable
Symmetry == Permutations(Runner) \cup Permutations(Task)
=============================================================================
