\* Up to four lines of every kind and two faults
CONSTANTS
  Kind = {"text", "blank", "long"}
  MaxLines = 4
  MaxReports = 3
  MaxFaults = 2
SPECIFICATION FairSpec
INVARIANTS NoDuplicates NothingSkipped EveryStatusLogged
PROPERTIES StreamEnds
\* the streaming may be over
CHECK_DEADLOCK FALSE
