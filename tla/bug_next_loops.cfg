SPECIFICATION SchFairSpec
CONSTANTS
    HourMinutes = 2
    DayHours = 4
    WeekDays = 2
    MonthDays = 3
    YearMonths = 2
    LimitDays = 8
    Zones <- FallWest
    Crons <- MCCrons
    Moments <- MCMoments
    DailyTimes <- MCDaily
    MaxFires = 4
    Word = 8
PROPERTIES
    NextReturns
CHECK_DEADLOCK FALSE
