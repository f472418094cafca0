SPECIFICATION Spec
CONSTANTS
    Profiles = {p1, p2}
    None = None
    Handlers = {h1, h2}
    Polls = {q1}
    MaxEvents = 4
    InOrder = FALSE
SYMMETRY Symmetry
INVARIANTS
    TypeOK
    RulesFresh
    ProfileFollows
    DisconnectHolds
