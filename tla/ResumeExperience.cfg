\* An experience whose INSERT fails is answered 201.
CONSTANTS
    Req = {r1, r2}
    Person = {alice}
    Admins = {}
    Ops = {"Add"}
    Parts = {"experience"}
    c0 = c0
    alice = alice
    None = None
    Seed <- SeedResumes
    MaxConns = 2
    MaxTechs = 1
    MaxFaults = 1
SPECIFICATION Spec
INVARIANT
    AddedExperienceStored
