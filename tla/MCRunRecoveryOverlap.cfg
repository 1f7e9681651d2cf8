\* A client retries while its first call still runs.
CONSTANTS
  a = a
  b = b
  c = c
  NoCall = NoCall
  Session = {a, b}
  Call <- TwoOfAOneOfB
  MaxVersion = 1
  Overlap = TRUE
  Stalls = FALSE
  LostReports = FALSE
SPECIFICATION Spec
INVARIANTS FailedBringsNothing
CHECK_DEADLOCK FALSE
