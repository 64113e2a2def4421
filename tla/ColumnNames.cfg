SPECIFICATION Spec
CONSTANTS
  Bases = {"id"}
  MaxColumns = 5
  Inputs <- ColumnLists
INVARIANTS
  NamesAreDistinct
  RenamedOnlyWhenRepeated
  NumbersLeaveNoGap
PROPERTY
  EveryColumnIsNamed
