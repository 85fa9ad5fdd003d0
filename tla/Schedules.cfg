SPECIFICATION Spec
CONSTANTS
  Day = 2
  Provisioned <- MCProvisioned
  UserSchedules <- MCUserSchedules
  Browsers = {h1}
  MaxEvents = 3
PROPERTIES
  TicksAreKept
  UsedUpIsPaused
