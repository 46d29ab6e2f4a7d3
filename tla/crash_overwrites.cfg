SPECIFICATION Spec
CONSTANTS
    Owners = {o1}
    Events = {e1}
    Candidates = {c1}
    GrantIDs = {g1}
    Threads = {t1, t2}
    OneProcess = TRUE
    Procs <- MCProcs
    ProcOf <- MCProcOf
    Requests = {"begin", "end", "verify"}
    Interruption = 2
    Retention = 1
    Capacity = 1
    GrantLife = 1
    ExecutorLife = 1
    MaxTime = 1
    MaxRevisions = 1
    MaxExpiry = 2
    MaxFaults = 1
    None = None
PROPERTIES HistoryAppendOnly
