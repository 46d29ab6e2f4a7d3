SPECIFICATION Spec
CONSTANTS
    Scopes <- MCScopes
    Home <- MCHome
    Task = "task"
    OwnerInputs <- MCOwnerInputs
    ExecutorInputs <- MCExecutorInputs
    Grants <- MCGrants
    Links <- MCLinks
    Names <- MCNames
    Tree <- MCTree
    Identities = {0, 1, 2}
    Found = {"PRESENT", "UNKNOWN"}
    MaxOutputs = 1
    MaxBatch = 2
    MaxProvenance = 1
    MaxPage = 2
    MaxStored = 2
    MaxRevisions = 1
    None = None

INVARIANTS TypeOK EndStoppedBy ResolvesToTarget CoveredOnce PagesComplete
PROPERTIES BoundWithinGrant StoredInScope
