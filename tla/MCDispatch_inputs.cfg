\* Two tasks, two input files, stored while the execution can be handed out already, and one
\* fault of any kind
CONSTANTS
  r1 = r1  r2 = r2  t1 = t1  t2 = t2  None = None
  Runner <- OneRunner
  Task <- TwoTasks
  MaxExec = 2
  MaxRuns = 1
  NInputs = 2
  MaxFaults = 1
SPECIFICATION Spec
SYMMETRY Symmetry
INVARIANTS OwnInputs
