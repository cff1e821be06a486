\* A battery of nothing or of one milliamp-hour, so that the days until it is
\* empty can be counted: none to more than eight, with currents on the two sides
\* of a whole number of days (20 and 21 at two days, 41 and 42 at one).
SPECIFICATION Spec
CONSTANTS
    Capacities = {0, 1}
    Currents = {0, 2, 20, 21, 41, 42}
    Costs = {0, 4, 250}
    Rates = {0, 1, 3}
    MaxDays = 8
INVARIANTS PredictionHolds WholeCurrentsAgree
CHECK_DEADLOCK FALSE
