SPECIFICATION ValuesSpec
CONSTANTS
    Documents <- Written
    Strings <- SomeStrings
    Starts <- AwkwardStarts
    HourSteps <- BackAndForth
    MinuteSteps = {60}
    SecondSteps <- BackAndForth
    DaySteps = {1}
    Window = 90000
CHECK_DEADLOCK FALSE
INVARIANTS
    DocumentTypeOK
    
    
    CalendarIsRight
