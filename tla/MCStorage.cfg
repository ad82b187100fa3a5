SPECIFICATION Spec
CONSTANTS
  Jobs = {timer, operator}
  Signals = {producer}
  Alerts = {warning, hard_limit}
  Safe = ok
  Unknown = unknown
  Used = {0, 1}
  MaxTime = 7
  HourTicks = 2
  DayHours = 2
  Near = 1
  HourlyMax = 3
  DailyMax = 1
  NotificationMax = 2
  MaxRuns = 3
  None = None
SYMMETRY Symmetry
INVARIANTS
  TypeOK
  SeriesMatchHistory
  NotificationsMatchHistory
  GrowthMatchesHistory
  OneRun
  NeverRefused
