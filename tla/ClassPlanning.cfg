SPECIFICATION Spec
CONSTANTS
  Schedules = {1, 2}
  w1 = w1
  Workers = {w1}
  Shapes <- Zones
  Day = 2  Week = 2
  Horizon = 4  Gap = 1  Grace = 1  BatchSize = 2  CronHour = 1  Launches = 1
  MaxTime = 8  MaxStreams = 7  MaxEdits = 1  MaxFaults = 1
  None = None
INVARIANTS OneStreamPerClass FaultsAreRepaired
PROPERTIES TimetableSpec
CHECK_DEADLOCK FALSE
