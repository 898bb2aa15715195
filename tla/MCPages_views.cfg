\* Executions 1 and 10, whose paths begin alike, one file, three users
CONSTANTS
  ann = ann  bob = bob  boss = boss
  Exec <- Ids
  Submitter <- Submitters
  User <- Users
  Admin <- Administrators
  Filter <- Filters
  PageSize = 1
  MaxFiles = 1
  MaxLogs = 1
SPECIFICATION Spec
SYMMETRY Symmetry
INVARIANTS TypeOK OthersStayHidden FinalPageComplete RowsHaveFiles StatsAddUp
CHECK_DEADLOCK FALSE
