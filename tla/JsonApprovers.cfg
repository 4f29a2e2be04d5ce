SPECIFICATION FairSpec
CONSTANTS
    Users <- TwoUsers
    ApproverList <- UsersOnly
    MemberOf <- NoGroups
    UserObject <- NoGroups
    Required = 1
    ParamForms = {"json"}
    Timeout = 1
    MaxFaults = 0
    MaxCommands = 1
    Ctl = Ctl
PROPERTIES
    RunEnds
