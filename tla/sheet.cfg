CONSTANTS
  NULL = NULL
  digits = digits
  words = words
  Number = {1, 2, 3}
  Whole = {1, 2}
  Text = {digits, words}
  NumberIn <- TextValues
  KeyLabel <- Keys
  MetricLabel <- Ratios
  Label <- AllLabels
  Width = 2
  MaxRows = 4
CHECK_DEADLOCK FALSE
SPECIFICATION SheetSpec
INVARIANT LayoutIsRead
INVARIANT IssuesAreExact
INVARIANT ValuesTraceToCells
