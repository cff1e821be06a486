\* The part set once in 2099 and read past 2100-02-28.
SPECIFICATION Spec
CONSTANTS
    FirstYears = {2099}
    LastYear = 2101
    Instants = {0}
    Years = {}
    Months = {}
    Days = {}
    FirstByte = {}
    LaterByte = {}
    MaxCorrupted = 0
INVARIANTS NeverOneDayOut
CHECK_DEADLOCK FALSE
