SPECIFICATION FairSpecDeletion
CONSTANTS
    Users <- TwoUsers
    ApproverList <- UsersOnly
    MemberOf <- NoGroups
    UserObject <- NoGroups
    Required = 2
    ParamForms = {"array", "invalid"}
    Timeout = 2
    MaxFaults = 1
    MaxCommands = 2
    Ctl = Ctl
INVARIANTS
    SuccessWasVoted
    OpenRunHasTask
PROPERTIES
    RunEnds
