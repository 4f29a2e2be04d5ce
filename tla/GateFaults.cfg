SPECIFICATION Spec
CONSTANTS
    Users <- ThreeUsers
    ApproverList <- UserAndGroup
    MemberOf <- GroupOfTwo
    UserObject <- GroupOfTwo
    Required = 2
    ParamForms = {"array", "json", "invalid"}
    Timeout = 1
    MaxFaults = 1
    MaxCommands = 3
    Ctl = Ctl
CONSTRAINT Budget
INVARIANTS
    TypeOK
    SuccessNeedsQuorum
    ApprovedIsCounted
    FailureMeansRejected
    RejectionHasCause
    WakeupArmed
    NothingMissed
    SettledTogether
    TablesAgree
    ListAgrees
PROPERTIES
    RejectedIsPermanent
    FailureNeverSucceeds
    QuorumFreezesInputs
    ImplementsVerdict
