\* A payload of six bytes: the press with its time of two fits while the counter is
\* one byte and is declined when it is two, the other event fits either way. The
\* counter may come to 16383, the last of two bytes, and then wraps. Four draws,
\* two of each device.
SPECIFICATION Spec
CONSTANTS
    Devices = {a, b}
    PayloadLen = 6
    Inputs <- MCInputs
    CounterMod = 16384
    Counts <- MCCounts
    MaxDraws = 4
SYMMETRY MCSymmetry
INVARIANTS TypeOK SeedForgotten FramesDistinct NoDeviceMark FramesUniform
CHECK_DEADLOCK FALSE
