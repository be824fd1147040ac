SPECIFICATION Spec
CONSTANTS
    NumClients = 3
    NumSkills = 2
    SkillOf <- LastApart
    Runtimes = {}
    Servers = {}
    Package = Package
    None = None
    UnsyncedCommit = FALSE
    MaxEdits = 1
    MaxFaults = 2
INVARIANTS
    AllOrNothing
    UserEditsSurvive
    SkillsFollowRegistrations
