SPECIFICATION FairSpec
CONSTANTS
    Owners = {o1}
    Events = {e1}
    Candidates = {c1}
    GrantIDs = {g1}
    Threads = {t1, t2}
    OneProcess = TRUE
    Procs <- MCProcs
    ProcOf <- MCProcOf
    Requests = {"begin", "append", "delegate", "execute", "end", "verify", "sweep"}
    Interruption = 1
    Retention = 1
    Capacity = 1
    GrantLife = 1
    ExecutorLife = 1
    MaxTime = 1
    MaxRevisions = 1
    MaxExpiry = 2
    MaxFaults = 1
    None = None
INVARIANTS AckedOnDisk BatchesGranted ChainLinked SameCandidates
PROPERTIES RequestsReturn
