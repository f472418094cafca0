SPECIFICATION Spec
CONSTANTS
    MaxStarts = 1
    MaxLaunches = 1
    Faults = {}
INVARIANT NoEngineWithoutShell
CHECK_DEADLOCK FALSE
