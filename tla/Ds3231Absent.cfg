\* A part that never answers: no fault is needed to reach the wrong advice.
SPECIFICATION Spec
CONSTANTS
    Timeout = 0
    MaxNow = 1
    MaxFaults = 0
INVARIANTS AbsentIsService
