SPECIFICATION Spec
CONSTANTS
    None = None
    Uploads = {u1, u2}
    Cases = {c1, c2}
    Hashes = {h1}
    CaseOf <- OneApart
    HashOf <- SameBytes
    Size = 2
    RetainWays = {"link"}
    MaxFails = 1
    MaxCrashes = 0
    MaxDeletes = 0
CHECK_DEADLOCK FALSE
INVARIANT
    OriginalIsKept
