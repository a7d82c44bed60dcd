\* A worksheet without a dimension and with more rows than are asked for.
SPECIFICATION Spec
CONSTANTS
  Workbooks <- UndeclaredWorkbooks
  MaxSheets = 2
  MaxColumns = 2
  MaxRows = 1
  MaxCells = 4
  MaxCellChars = 2
  MaxChars = 5
  Undeclared = Undeclared
INVARIANT TruncationIsTold
CHECK_DEADLOCK FALSE
