SPECIFICATION Spec
CONSTANTS
    PIDs = {p1, p2, p3}
    Ports = {}
    Kinds <- MCPlain
    MaxStarts = 3
    Failing = {}
    None = None
SYMMETRY PIDSymmetry
INVARIANTS AttributionClosed
