SPECIFICATION Spec
CONSTANTS
    Profiles = {p1}
    None = None
    Handlers = {h1}
    Polls = {q1}
    MaxEvents = 2
    InOrder = TRUE
INVARIANT PanelHonest
