SPECIFICATION Spec
CONSTANTS
    Starts = {1772946000}
    HourSteps = {1}
    MinuteSteps = {60}
    SecondSteps = {1}
    DaySteps = {1}
    Window = 90000
CHECK_DEADLOCK FALSE
INVARIANTS
    DstFollowsTheRule
