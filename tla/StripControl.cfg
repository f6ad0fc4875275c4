SPECIFICATION Spec
CONSTANTS
    OS_TICKS_PER_SEC = 1
    MinuteSecs = 2
    DayMinutes = 2
    WeekDays = 2
    ClockStart = 1
    TickWrap = 9
    Commands <- MCCommands
    MaxStarts = 2
    MaxHeld = 1
    ClockTimes = {3}
    MaxSyncs = 1
INVARIANTS FiresInMinute ScheduleIsCurrent StatusIsTrue OffStaysOff
