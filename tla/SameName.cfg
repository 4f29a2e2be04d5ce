SPECIFICATION Spec
CONSTANTS
    Ids <- SomeIds
    Shapes <- PlainOnly
    Counts <- ZeroToTwo
    MaxApprovers = 3
INVARIANTS
    EveryMentionListed
CHECK_DEADLOCK FALSE
