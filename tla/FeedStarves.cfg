\* A connection of one page of one row, and two rows: a table that is longer
\* than what one connection has the time to send.
CONSTANTS
  PageSize = 1
  MaxPages = 1
  MaxId = 2
  MaxBreaks = 0
SPECIFICATION Spec
CHECK_DEADLOCK FALSE
PROPERTIES
  RowsArrive
