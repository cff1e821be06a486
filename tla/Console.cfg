\* Two power cycles: a capture can begin in one and hold the gate lines of the
\* next; three attestations, at least two of them of one boot.
SPECIFICATION Spec
CONSTANTS
    MaxBoots = 2
    MaxPresses = 3
INVARIANTS TypeOK AcceptedWasMade GateOfItsBoot GenuineAccepted
PROPERTIES AcceptanceStands
CHECK_DEADLOCK FALSE
