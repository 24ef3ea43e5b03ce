\* Thursday to Tuesday, the weekend within; five ticks a day, three of them open.
SPECIFICATION Spec
CONSTANTS
  TicksPerDay = 5
  StartHour = 1
  EndHour = 4
  Threshold = 4
  FirstWeekday = 3
  Never = Never
  MaxTick = 29
INVARIANTS TypeOK
PROPERTIES SilencePages QuietIsNotPaged RewriteIsNoticed
\* The clock stops at its bound.
CHECK_DEADLOCK FALSE
