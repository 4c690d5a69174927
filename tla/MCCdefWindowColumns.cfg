\* Window widths of 64, 128 and 192 pixels, frames up to 80 4x4 columns.
CONSTANTS
  ColumnsChoices <- MCColumns
  WidthChoices <- MCWidths64

SPECIFICATION Spec

INVARIANT ColumnUnitsPartitionFrame

\* One pass over the columns per behaviour.
CHECK_DEADLOCK FALSE
