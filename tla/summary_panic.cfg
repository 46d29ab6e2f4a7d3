SPECIFICATION Spec
CONSTANTS
    Owners = {o1}
    Events = {}
    Candidates = {c1}
    GrantIDs = {g1}
    Threads = {t1, t2}
    OneProcess = TRUE
    Procs <- MCProcs
    ProcOf <- MCProcOf
    Requests = {"begin", "end", "verify", "summarize"}
    Interruption = 2
    Retention = 1
    Capacity = 1
    GrantLife = 1
    ExecutorLife = 1
    MaxTime = 1
    MaxRevisions = 1
    MaxExpiry = 2
    MaxFaults = 0
    None = None
INVARIANTS SummaryInRange
