SPECIFICATION Spec
CONSTANTS
    PIDs = {p1, p2}
    Ports = {80}
    Kinds <- MCKinds
    MaxStarts = 3
    Failing = {"snapshot", "holds", "ports"}
    None = None
SYMMETRY PIDSymmetry
INVARIANTS TypeOK AbsenceIsReal
PROPERTIES BoundIsDeclared NewProcessesReported ActiveIsSame
