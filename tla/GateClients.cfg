SPECIFICATION SpecClients
CONSTANTS
    Users <- Pair
    ApproverList <- GroupsOnly
    MemberOf <- Memberships
    UserObject <- UserObjects
    Required = 2
    ParamForms = {"array"}
    Timeout = 0
    MaxFaults = 0
    MaxCommands = 3
    Ctl = Ctl
    Patchers = {"bob"}
INVARIANTS
    BallotsAreCurrent
    LostVoteCanBeRecast
PROPERTIES
    AcceptedVoteCounts
    ImplementsVerdict
