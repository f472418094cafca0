SPECIFICATION FairSpec
CONSTANTS
    MaxStarts = 2
    MaxLaunches = 2
    Faults = {"job", "binary", "tempfile", "spawn", "assign", "kill", "poll",
              "remove"}
INVARIANTS
    TypeOK
    Stoppable
    ConfigWhileRunning
    StrayExplained
    OnlyCrashesReported
PROPERTIES
    ImplementsSession
    ShellDeathKillsEngine
    CommandsReturn
    CrashNoticed
\* The system may stop: nobody launches the shell again.
CHECK_DEADLOCK FALSE
