SPECIFICATION LiveSpec
CONSTANTS
  TickMod = 3
  Period = 1
  Modes <- TwoModes
  MaxRises = 2
  MaxFailures = 1
  MaxBoots = 1
  MaxMsgs = 1
CHECK_DEADLOCK FALSE
INVARIANTS
  TypeOK
  StartedIffUp
  BootsAsAsked
PROPERTY FollowsPhy
