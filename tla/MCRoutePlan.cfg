SPECIFICATION Spec
CONSTANTS
    Domains <- MCDomains
    GeoInputs <- MCGeoInputs
    ProcessInputs <- MCProcessInputs
INVARIANTS
    BypassFirst
    ProcessFirst
    RefusedOnlyFor
    ModeDecides
PROPERTIES
    AddingKeeps
