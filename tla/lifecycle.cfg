SPECIFICATION Spec
CONSTANTS
    Owners = {o1}
    Events = {e1}
    Candidates = {c1}
    GrantIDs = {g1}
    Threads = {t1, t2}
    OneProcess = TRUE
    Procs <- MCProcs
    ProcOf <- MCProcOf
    Requests = {"begin", "append", "delegate", "execute", "end", "verify", "retain", "forget", "grant", "inspect", "sweep"}
    Interruption = 2
    Retention = 1
    Capacity = 1
    GrantLife = 1
    ExecutorLife = 1
    MaxTime = 2
    MaxRevisions = 2
    MaxExpiry = 4
    MaxFaults = 0
    None = None
INVARIANTS TypeOK EndIsFinal GrantSingleUse
PROPERTIES HistoryAppendOnly EndSeesAcked SweepSparesActive ImplementsReportChain
SYMMETRY ThreadSymmetry
