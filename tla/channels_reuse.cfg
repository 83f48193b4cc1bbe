SPECIFICATION Spec
CONSTANTS
    MaxChan = 3
    MaxRestarts = 1
CHECK_DEADLOCK FALSE
INVARIANT LinkedBothWays
