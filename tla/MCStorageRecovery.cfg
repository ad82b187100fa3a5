SPECIFICATION Spec
CONSTANTS
  Jobs = {timer}
  Signals = {producer}
  Alerts = {warning}
  Safe = ok
  Unknown = unknown
  Used = {1}
  MaxTime = 2
  HourTicks = 1
  DayHours = 2
  Near = 1
  HourlyMax = 3
  DailyMax = 2
  NotificationMax = 4
  MaxRuns = 3
  None = None
INVARIANT RecoveryTold
