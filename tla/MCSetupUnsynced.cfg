SPECIFICATION Spec
CONSTANTS
    NumClients = 2
    NumSkills = 1
    SkillOf <- LastApart
    Runtimes = {r1}
    Servers = {}
    Package = Package
    None = None
    UnsyncedCommit = TRUE
    MaxEdits = 0
    MaxFaults = 2
INVARIANTS
    AllOrNothing
