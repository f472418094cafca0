SPECIFICATION FairSpec
CONSTANTS
    Profiles = {p1}
    None = None
    Handlers = {h1, h2}
    Polls = {q1}
    MaxEvents = 3
    InOrder = FALSE
PROPERTIES
    RulesApplied
    ReconnectCompletes
    StatusConverges
