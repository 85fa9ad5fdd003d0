SPECIFICATION Spec
CONSTANTS
  ADay = 4
  IntentTTL = 2
  MaxBackoff = 2
  MaxEvents = 4
PROPERTIES
  RunHasItsProgram
