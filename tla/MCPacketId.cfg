CONSTANTS
    Window = 4
    Expire = 2
    MaxId = 8
    MaxTime = 5
SPECIFICATION Spec
INVARIANTS WindowIsExact IdsAreUnique
PROPERTIES ImplementsFilter
CHECK_DEADLOCK FALSE
