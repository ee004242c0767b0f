\* Projects, reads and deletions with a call that fails; every request ends.
CONSTANTS
    Req = {r1, r2, r3}
    Person = {alice}
    Admins = {}
    Ops = {"DeleteResume", "GetPersonalInfo", "Add", "Get"}
    Parts = {"experience", "projects"}
    c0 = c0
    alice = alice
    None = None
    Seed <- SeedResumes
    MaxConns = 2
    MaxTechs = 1
    MaxFaults = 1
SPECIFICATION FairSpec
INVARIANTS
    SafetyInv
    ConnectionsReturned
PROPERTIES
    EveryRequestEnds
