SPECIFICATION Spec
CONSTANTS
    None = None
    Uploads = {u1, u2}
    Cases = {c1, c2}
    Hashes = {h1}
    CaseOf <- OneApart
    HashOf <- SameBytes
    Size = 2
    RetainWays = {"link"}
    MaxFails = 0
    MaxCrashes = 1
    MaxDeletes = 0
CHECK_DEADLOCK FALSE
PROPERTY
    RecoveryRemovesDeadIngests
