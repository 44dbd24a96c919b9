SPECIFICATION Spec
CONSTANTS
    Names <- AllNames
    BareNames <- BasicNames
    MaxOxms = 2
    Concurrent = FALSE
INVARIANTS MatchIntact
PROPERTIES MatchWhole
