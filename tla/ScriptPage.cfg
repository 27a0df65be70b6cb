SPECIFICATION Spec
CONSTANTS
  Names <- PageNames
  Values = {"a", "b"}
  None = "none"
  Unset = "unset"
  Defs <- FreshDefs
  Original <- PageOriginal
  IncludeKey = "key"
  Included <- PageIncluded
  ReloadValues <- PageReloads
  Histories <- PageHistories
  MaxPicks = 2
  MaxReloads = 1
  MaxLosses = 1
  MaxOfAll = 2
INVARIANTS PageAgrees IncludedPresent
PROPERTIES AwaitEnds
CHECK_DEADLOCK FALSE
