\* Two tasks, two executions and as many hand-outs, no fault
CONSTANTS
  r1 = r1  r2 = r2  t1 = t1  t2 = t2  None = None
  Runner <- OneRunner
  Task <- TwoTasks
  MaxExec = 2
  MaxRuns = 2
  NInputs = 0
  MaxFaults = 0
SPECIFICATION FairSpec
INVARIANTS NoOvertaking
PROPERTIES EventuallyFinal
