SPECIFICATION Spec
CONSTANTS
  judged = judged
  refused = refused
  alone = alone
  Writers = {judged, refused, alone}
  WithAction = {judged}
  EntriesOf <- MCEntriesOf
  PoolSize = 2
  PageSize = 2
  Nothing = Nothing
INVARIANT
  LostEntryLeavesGap
CHECK_DEADLOCK FALSE
