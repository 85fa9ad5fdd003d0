SPECIFICATION FairSpec
CHECK_DEADLOCK FALSE
CONSTANTS
  beat = beat
  battery = battery
  v1 = v1
  v2 = v2
  api = api
  g1 = g1
  Order <- OneField
  Heartbeat = beat
  Value <- TwoValues
  Seed = v1
  Nothing = Nothing
  MaxRetries = 1
  Resender <- TwoResenders
  OnRequest = api
  BeatsPaced = TRUE
  MaxEvents = 1
  MaxFailures = 1
  MaxNotices = 2
INVARIANTS
  TypeOK
  DoubtIsResolved
  NoLostWake
PROPERTIES
  NoPushAfterClose
  Converges
