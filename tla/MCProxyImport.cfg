CONSTANTS
  Endpoints = {1, 2}
  Outcomes = {"slow", "bad"}
  Schedules <- Timetables
  Cleanups <- Choices
  Minutes = {0, 1}
  MaxTasks = 2
  MaxEvents = 1
  LogLimit = 2
SPECIFICATION ImportSpec
INVARIANTS OncePerMinute
PROPERTIES ScheduledMinuteServed ImportSparesManual EveryTaskLogged
CHECK_DEADLOCK FALSE
