SPECIFICATION Spec
CONSTANTS
  Columns <- ColumnNames
  Unordered <- JsonColumns
  Odd <- OddColumns
  Tables <- ConsistentTables
  MaxChanges = 2
INVARIANTS
  QuietAnswerIsExact
  ProfileIsWhole
  DeadlineIsAnError
