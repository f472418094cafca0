SPECIFICATION Spec
CONSTANTS
    Domains = {d1, d2}
    Geos = {g1}
    RuleMode = rule
    Stored = {{rule, g1}}
    Handlers = {h1, h2}
    Depth = 2
    MaxEvents = 4
SYMMETRY Symmetry
INVARIANTS
    TypeOK
    PageTracks
    SnapshotsReal
PROPERTIES
    HistoryWhenAlone
CHECK_DEADLOCK FALSE
