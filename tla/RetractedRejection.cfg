SPECIFICATION Spec
CONSTANTS
    Users <- TwoUsers
    ApproverList <- UsersOnly
    MemberOf <- NoGroups
    UserObject <- NoGroups
    Required = 2
    ParamForms = {"array"}
    Timeout = 1
    MaxFaults = 0
    MaxCommands = 2
    Ctl = Ctl
PROPERTIES
    RejectionStands
