SPECIFICATION Spec
CONSTANTS
  Timers = {"timer"}
  Conns = {"conn"}
  Delays = {0, 1, 2, 3, 5, 7, 12, 36}
  MaxIdle = 2
  kTimingMinute = 3
  kTimingHour = 6
  kTimingDay = 12
  Days = 2
  Period = 2
  LongestTurn = 2
INVARIANTS
  IdleClosedOnTime
  TimersOnTime
