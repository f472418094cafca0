SPECIFICATION Spec
CONSTANTS
    caller1 = caller1
    caller2 = caller2
    dial = dial
    NoTask = NoTask
    Tasks <- MCTasks
    Callers <- MCCallers
    Questions <- MCQuestions
    Transports <- MCTransports
    Rules <- MCRules
    Setups <- MCSetups
    Requests <- MCRequests
INVARIANTS
    LocksHeld
    AnswersSound
    WaitsEnd
PROPERTIES
    QueriesReturn
CHECK_DEADLOCK FALSE
