SPECIFICATION Spec
CONSTANTS
    Sessions = {s1, s2}
    Cli = Cli
    Observations = {o1, o2}
    Threads = {t1, t2}
    MaxRestarts = 1
    None = None
SYMMETRY Symmetry
INVARIANTS TypeOK AuthorityConfined 
PROPERTY ForgetsEnded
