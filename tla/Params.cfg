SPECIFICATION Spec
CONSTANTS
    Ids <- SomeIds
    Shapes <- AllShapes
    Counts <- ZeroToTwo
    MaxApprovers = 3
INVARIANTS
    ValidatedIsAdmitted
    ListedAsNamed
CHECK_DEADLOCK FALSE
