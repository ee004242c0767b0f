\* An entry is deleted through the path of another resume.
CONSTANTS
    Req = {r1, r2, r3}
    Person = {alice, bob}
    Admins = {}
    Ops = {"CreateResume", "Add", "Delete"}
    Parts = {"education"}
    c0 = c0
    alice = alice
    None = None
    Seed <- SeedResumes
    MaxConns = 2
    MaxTechs = 1
    MaxFaults = 0
SPECIFICATION Spec
INVARIANT
    EntryKeptForOwner
