CONSTANTS
    c1 = c1
    c2 = c2
    Run = {"r1", "r2"}
    ProjectOf <- MCProjectOf
    Untracked = "untracked"
    Evidence = {"e"}
    Score <- MCScore
    Hundredth = 1000
    Decision = {"new", "candidate"}
    New = "new"
    Caller = {c1, c2}
    MaxSnapshots = 3
    MaxVersion = 3
SPECIFICATION Spec
PROPERTY CloneJoinsItsSource
CHECK_DEADLOCK FALSE
