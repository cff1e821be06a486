\* A second of two units; a press takes up to three to handle, and the cooldown
\* is twice that, so that the spacing left between two signatures is more than
\* two passes of the loop. Nine units hold two attestations of one power cycle.
SPECIFICATION FairSpec
CONSTANTS
    DebounceMs = 1
    IntervalMs = 6
    Never = Never
    TimeoutMs = 1
    PollMs = 1
    SignMs = 1
    SecondMs = 2
    MaxNow = 9
    MaxBoots = 2
INVARIANTS TypeOK CooldownIsOwed HeldAtBootIsSilent StampsOrdered MadeSpaced RestartSpaced
PROPERTIES ImplementsLedger LoopReturns
CHECK_DEADLOCK FALSE
