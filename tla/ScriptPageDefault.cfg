SPECIFICATION Spec
CONSTANTS
  Names <- PageNames
  Values = {"a", "b"}
  None = "none"
  Unset = "unset"
  Defs <- DefaultDefs
  Original <- PageOriginal
  IncludeKey = "key"
  Included <- PageIncluded
  ReloadValues <- PageReloads
  Histories <- PageHistories
  MaxPicks = 2
  MaxReloads = 1
  MaxLosses = 1
  MaxOfAll = 3
INVARIANTS IncludedPresent
CHECK_DEADLOCK FALSE
