CONSTANTS
    Uids = {u1, u2}
    Hashes = {h1, h2}
    Hubs = {p1}
    Zero = Zero
    Nil = Nil
    MaxDnodeReqs = 5
    MaxHubReqs = 2
SPECIFICATION Spec
INVARIANTS
    TypeOK LookupsSucceed
PROPERTIES
    SourcesKept
SYMMETRY ServersSymmetry
CHECK_DEADLOCK FALSE
