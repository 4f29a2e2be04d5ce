SPECIFICATION Spec
CONSTANTS
    Users <- ThreeUsers
    ApproverList <- UserAndGroup
    MemberOf <- GroupOfTwo
    UserObject <- GroupOfTwo
    Required = 1
    ParamForms = {"array"}
    Timeout = 1
    MaxFaults = 0
    MaxCommands = 2
    Ctl = Ctl
INVARIANTS
    ApprovedExcludesRejection
