\* One unit is 25 ms: the loop polls every unit, locks out for two and can be
\* away for two more; the contact bounces for as long as the lockout. The run is
\* long enough for a finger that holds every level until it must have been seen.
SPECIFICATION Spec
CONSTANTS
    DebounceMs = 2
    PollMs = 1
    HandlerMs = 2
    BounceMs = 2
    MaxNow = 27
    MaxMoves = 4
INVARIANTS TypeOK NoInventedPress HeldIsSeen EveryPressReported
CHECK_DEADLOCK FALSE
