SPECIFICATION Spec
CONSTANTS
    Seconds = 2
    Minutes = 2
    Hours = 2
    LastDay = 14
    SearchDays = 6
    MonthOf <- CalendarMonth
    DayOf <- DayOfMonth
    WeekdayOf <- DayOfWeek
    NextMonth <- FirstOfNextMonth
    Schedules <- SmallSchedules
    Nows <- SmallNows
    Starts <- SmallStarts
    Ends <- SmallEnds
INVARIANTS
    LeastAllowed
CHECK_DEADLOCK FALSE
