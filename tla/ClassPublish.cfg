SPECIFICATION Spec
CONSTANTS
  w1 = w1
  Schedules = {1}
  Workers = {w1}
  Shapes <- Zones
  Day = 2  Week = 2
  Horizon = 4  Gap = 1  Grace = 1  BatchSize = 1  CronHour = 1  Launches = 1
  MaxTime = 9  MaxStreams = 5  MaxEdits = 2  MaxFaults = 0
  None = None
PROPERTIES KnownKeysPublish
CHECK_DEADLOCK FALSE
