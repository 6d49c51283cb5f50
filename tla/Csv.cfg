CONSTANTS
  Tasks <- MCTasks
  Lookups <- MCLookups
  KeyColumn <- MCKeyColumn
  KeyParts <- MCKeyParts
  QueryColumns <- MCQueryColumns
  Required <- MCRequired
  Trimmed <- MCTrimmed
  Lowered <- MCLowered
  Dotted <- MCDotted
  UserOrGroup <- MCUserOrGroup
  Jobs <- MCJobs
  Types <- MCTypes
  LowerCase <- MCLowerCase
  Numbers <- MCNumbers
  Digits <- MCDigits
  Cells <- MCCells
SPECIFICATION MCSpec
INVARIANTS
  RowsKept
  RowsAreLinked
  ValuesKept
CHECK_DEADLOCK FALSE
