\* Two power cycles: the capture begins in the first and ends in the second.
SPECIFICATION Spec
CONSTANTS
    MaxBoots = 2
    MaxPresses = 1
INVARIANTS GateDemonstrated
CHECK_DEADLOCK FALSE
