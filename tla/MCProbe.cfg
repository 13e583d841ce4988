SPECIFICATION FairSpec
CONSTANTS
  Giga = 4
  Kilo = 2
  Seconds = 2
  Delays = {0, 1, 3, 4}
  Starts = {0, 1}
  MaxNow = 8
  MaxSeq = 4
  MaxNet = 1
INVARIANTS OnSchedule NotAhead WarmupRight TimesRight
PROPERTIES ChildFollows SilenceReported EndsUnread
CHECK_DEADLOCK FALSE
