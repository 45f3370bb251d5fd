SPECIFICATION Spec
CONSTANTS
  w1 = w1
  Schedules = {1}
  Workers = {w1}
  Shapes <- East
  Day = 3  Week = 2
  Horizon = 6  Gap = 1  Grace = 1  BatchSize = 1  CronHour = 0  Launches = 1
  MaxTime = 9  MaxStreams = 5  MaxEdits = 0  MaxFaults = 0
  None = None
INVARIANTS ClassesPlanned
CHECK_DEADLOCK FALSE
