\* One power cycle and two presses: the cooldown as cooldown.rs describes it.
SPECIFICATION FairSpec
CONSTANTS
    DebounceMs = 1
    IntervalMs = 4
    Never = Never
    TimeoutMs = 1
    PollMs = 1
    SignMs = 1
    SecondMs = 2
    MaxNow = 10
    MaxBoots = 1
INVARIANTS IntervalBetweenAttestations
CHECK_DEADLOCK FALSE
