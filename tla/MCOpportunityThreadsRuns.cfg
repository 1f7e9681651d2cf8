CONSTANTS
    c1 = c1
    c2 = c2
    Run = {"r1", "r2", "r3", "q1"}
    ProjectOf <- MCProjectOf
    Untracked = "untracked"
    Evidence = {"e", "near", "far"}
    Score <- MCScore
    Hundredth = 1000
    Decision = {"new"}
    New = "new"
    Caller = {c1}
    MaxSnapshots = 4
    MaxVersion = 2
SPECIFICATION Spec
INVARIANTS ThreadsStaySeparate
PROPERTY CorrectionHolds
CHECK_DEADLOCK FALSE
