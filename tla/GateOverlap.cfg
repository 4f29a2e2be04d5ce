SPECIFICATION PromptSpec
CONSTANTS
    Users <- TwoUsers
    ApproverList <- Overlapping
    MemberOf <- TwoGroups
    UserObject <- TwoGroups
    Required = 2
    ParamForms = {"array"}
    Timeout = 0
    MaxFaults = 0
    MaxCommands = 3
    Ctl = Ctl
INVARIANTS
    SuccessNeedsQuorum
    OpenDecisionsAdmitted
    ListAgrees
    TablesAgree
PROPERTIES
    DecisionSettles
