\* Three starts, two default tasks, one browser
CONSTANTS
  Default <- TwoTasks
  MaxStarts = 3
SPECIFICATION Spec
INVARIANTS TypeOK SeededOnce LogoutHolds
PROPERTIES LoginRecovers
\* the bound on starts ends it
CHECK_DEADLOCK FALSE
