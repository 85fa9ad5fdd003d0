SPECIFICATION Spec
CONSTANTS
  DayLength = 4
  Week = 2
  WindowStart = 2
  WindowEnd = 1
  AllowedDays = {0}
  DelayHours = 1
  CheckInterval = 2
  RetryCooldown = 2
  Maximum = 1
  RateWindow = 1
  MaxReleases = 1
  MaxEvents = 1
PROPERTIES DelayRespected
CHECK_DEADLOCK FALSE
