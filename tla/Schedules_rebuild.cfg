SPECIFICATION Spec
CONSTANTS
  Day = 2
  Provisioned <- MCProvisioned
  UserSchedules <- MCUserSchedules
  Browsers = {h1, h2}
  MaxEvents = 3
INVARIANTS SavedIsActive
