\* Two processes, retries that overlap, revokes, crashes, leases that run
\* out, and commits that take effect although they raise.
CONSTANTS
  a = a
  b = b
  c = c
  NoCall = NoCall
  Session = {a, b}
  Call <- TwoOfAOneOfB
  MaxVersion = 1
  Overlap = TRUE
  Stalls = FALSE
  LostReports = TRUE
SPECIFICATION FairSpec
INVARIANTS OneFetch CompletedIsTrue
PROPERTIES ClosedElsewhereBringsNothing EvidenceUnderGrant EveryCallReturns EveryRetrySettles
CHECK_DEADLOCK FALSE
