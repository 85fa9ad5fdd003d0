SPECIFICATION FairSpec
CONSTANTS
  MaxCommands = 1
  Command <- SomeCommands
  Status <- AllStatuses
  Reporter <- OneReporter
  Room <- OneRoom
  NoStatus = NoStatus
CHECK_DEADLOCK FALSE
INVARIANT
  EventsFollowMission
PROPERTIES
  CommandEnds
  InFlightClears
