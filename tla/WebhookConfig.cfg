\* At the bounds everything comes to rest: the reconciler only reacts.
SPECIFICATION FairSpec
CHECK_DEADLOCK FALSE
CONSTANTS
    Pods = {p1, p2}
    Services = {"webhook", "other"}
    NoService = "none"
    Manifests <- SomeManifests
    MaxRotations = 2
    MaxEdits = 1
    MaxFaults = 2
INVARIANTS
    RestIsProtected
PROPERTIES
    OthersFieldsStay
    Converges
