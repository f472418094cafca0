SPECIFICATION MCSpec
CONSTANTS
    Base = {b}
    Remote = {x, u}
    Ua = {u}
    MaxLaunches = 2
    Remotes = {r}
    Used <- MCUsed
    MaxVersions = 2
    MaxConnects = 2
    MaxUpdates = 2
INVARIANTS
    BaseAlwaysRouted
    RemoteMatchesAnswer
PROPERTIES
    TornHeals
    RulesCatchUp
CHECK_DEADLOCK FALSE
