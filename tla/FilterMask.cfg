SPECIFICATION Spec
CONSTANTS
    NumClasses = 3
    IntWidth = 3
    MaskWidth = 6
    MaxFlags = 5
CHECK_DEADLOCK FALSE
INVARIANTS
    TypeOK
    NeverOverEnabled
    FilterExact
