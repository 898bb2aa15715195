\* Two executions of one task, and one fault of any kind
CONSTANTS
  r1 = r1  r2 = r2  t1 = t1  t2 = t2  None = None
  Runner <- OneRunner
  Task <- OneTask
  MaxExec = 2
  MaxRuns = 2
  NInputs = 0
  MaxFaults = 1
SPECIFICATION Spec
SYMMETRY Symmetry
INVARIANTS TypeOK HandedOnce ForwardRouting NoResurrection SuccessIsEarned
PROPERTIES FinalStatusStays
