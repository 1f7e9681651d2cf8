CONSTANTS
    Run = {"r1", "r2"}
    ProjectOf <- MCProjectOf
    Untracked = "untracked"
    Evidence = {"e"}
    Score <- MCScore
    Hundredth = 1000
    Decision = {"new", "candidate"}
    New = "new"
    Candidate = "candidate"
    Caller = {"c1"}
    MaxSnapshots = 2
    MaxVersion = 4
    Item = {"i1"}
    ItemsOf <- MCItemsOf
    FixedChecks <- MCFixedChecks
    Packer = {"p1"}
    MaxLabels = 2
    MaxPackets = 1
    NotEligible = NotEligible
SPECIFICATION PacketsSpec
INVARIANTS PacketsWellFormed
PROPERTY ImplementsAtomicPackets
CHECK_DEADLOCK FALSE
