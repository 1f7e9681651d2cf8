\* Overlapping retries, failing transactions, leases that lapse under running code.
CONSTANTS
  a = a
  b = b
  Session = {a, b}
  Call <- TwoOfAOneOfB
  Overlap = TRUE
  Stalls = TRUE
  Faults = TRUE
SPECIFICATION Spec
INVARIANTS PaidOnce PacketIsAudited IndeterminateIsFinal
PROPERTY StoredUnderGrant
CHECK_DEADLOCK FALSE
