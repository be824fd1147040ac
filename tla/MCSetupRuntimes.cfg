SPECIFICATION FairSpec
CONSTANTS
    NumClients = 1
    NumSkills = 1
    SkillOf <- LastApart
    Runtimes = {r1}
    Servers = {s1}
    Package = Package
    None = None
    UnsyncedCommit = TRUE
    MaxEdits = 1
    MaxFaults = 2
INVARIANTS
    RegistrationsResolve
    ServingIsInstalled
PROPERTIES
    RecoveryCompletes
