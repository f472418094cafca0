SPECIFICATION Spec
CONSTANTS
    Items = {a, b}
    Lists = {{}, {a}, {b}, {a, b}}
    Default = {a}
    Absent = Absent
    Torn = Torn
    MaxEdits = 3
    MaxLaunches = 3
    Faults = {"write", "copy", "rename", "read", "corrupt"}
INVARIANTS
    AckedSurvives
    Agree
PROPERTIES
    ImplementsDurable
\* The system may stop: nobody launches the shell again.
CHECK_DEADLOCK FALSE
