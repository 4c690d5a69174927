\* Window widths that are a multiple of 4 but not of 64 pixels.
CONSTANTS
  ColumnsChoices <- MCColumns
  WidthChoices <- MCWidthsAny

SPECIFICATION Spec

INVARIANT ColumnUnitsPartitionFrame

CHECK_DEADLOCK FALSE
