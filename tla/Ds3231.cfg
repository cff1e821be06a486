\* Transactions of up to one tick, four ticks, two faults of any kind after those
\* the run starts with: a stopped part, an absent part, or both. Time stops at
\* the last tick, the transactions do not.
SPECIFICATION FairSpec
CONSTANTS
    Timeout = 1
    MaxNow = 4
    MaxFaults = 2
INVARIANTS TypeOK FlagIsHonest ReadIsFresh AbsentNeverBelieved NothingElseStored
PROPERTIES AdviceHeals
