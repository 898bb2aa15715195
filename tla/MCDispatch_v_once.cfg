\* Two executions of one task, no fault
CONSTANTS
  r1 = r1  r2 = r2  t1 = t1  t2 = t2  None = None
  Runner <- OneRunner
  Task <- OneTask
  MaxExec = 2
  MaxRuns = 3
  NInputs = 0
  MaxFaults = 0
SPECIFICATION Spec
SYMMETRY Symmetry
INVARIANTS AssignedOnce
