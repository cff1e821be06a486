\* Three milliseconds of interval on a clock of ten, set back at will: up to
\* four grants between two steps back.
SPECIFICATION Spec
CONSTANTS
    IntervalMs = 3
    Never = Never
    MaxNow = 9
INVARIANTS TypeOK GrantsSpaced WaitIsExact NeverLatched
PROPERTIES ImplementsRateLimiter
