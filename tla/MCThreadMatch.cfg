CONSTANTS
    Evidence <- MCEvidence
    Score <- MCScore
    Similarity <- MCSimilarity
    Hundredth = 1000
    Rounding = 160
    Threads = {1, 2, 3, 4}
    web = web
    forum = forum
    Item = {1, 2}
    ThreadId = {1, 2}
    ObservedSource = {web, forum}
    Research = {pa, pb}
    NoResearch = NoResearch
    Decision = {new, kept}
    Anything = Anything
    MatchScore <- MCMatchScore
    FirstSource <- MCFirstSource
    MaxSequence = 2
    MaxSeen = 2
    Limits = {1, 2}
    Names = {n1, n2}
    Variants = {v1}
    Alien = alien
    Texts = {x, y}
    Huge = huge
    MaxHits = 2
SPECIFICATION ChoicesSpec
INVARIANTS MatchIsWarranted SearchIsExact VerificationIsSound
CHECK_DEADLOCK FALSE
