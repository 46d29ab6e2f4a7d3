SPECIFICATION Spec
CONSTANTS
    PIDs = {p1, p2}
    Ports = {80}
    Kinds <- MCKinds
    MaxStarts = 2
    Failing = {"query"}
    None = None
SYMMETRY PIDSymmetry
INVARIANT AbsenceIsReal
