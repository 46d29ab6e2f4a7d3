SPECIFICATION Spec
CONSTANTS
    Owners = {o1, o2}
    Events = {}
    Candidates = {}
    GrantIDs = {}
    Threads = {t1, t2}
    OneProcess = TRUE
    Procs <- MCProcs
    ProcOf <- MCProcOf
    Requests = {"begin", "end", "verify", "retain", "summarize", "sweep"}
    Interruption = 2
    Retention = 2
    Capacity = 2
    GrantLife = 1
    ExecutorLife = 1
    MaxTime = 2
    MaxRevisions = 1
    MaxExpiry = 4
    MaxFaults = 1
    None = None
INVARIANTS SweepBoundsReports
PROPERTIES EvictsOldest
SYMMETRY OwnerSymmetry
