SPECIFICATION Spec
CONSTANTS
  Calendar <- SmallCalendar
  Ranges <- SmallRanges
  Window = 40
  Exprs <- SmallExprs
  MaxTime = 25
INVARIANT
  TicksWhenDue
CHECK_DEADLOCK FALSE
