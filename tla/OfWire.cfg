SPECIFICATION Spec
CONSTANTS
    Objects <- GoodObjects
    Sequels <- GoodLists
    Foreign <- PassesOn
    MaxElems = 2
INVARIANTS ObjectTrip NoHalfRead
PROPERTIES ListsRead
