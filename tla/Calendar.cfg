\* The whole range of the codec, at the first and the last second of the day.
\* Around both Februaries the calendars disagree about, any one byte becomes
\* anything and a second one a value that straddles its masks.
SPECIFICATION Spec
CONSTANTS
    FirstYears = {2000, 2050, 2100, 2150}
    LastYear = 2199
    Instants = {0, 86399}
    Years = {2000, 2100}
    Months = {2, 12}
    Days = {28, 29}
    FirstByte <- Byte
    LaterByte = {0, 49, 131}
    MaxCorrupted = 2
INVARIANTS TypeOK DaysAreNumbered SetPartReadsTrue BelievedIsCanonical BelievedIsADate
