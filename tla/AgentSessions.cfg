\* One session with the code's own numbers in seconds, 2 s for each of the two
\* waits of a heartbeat; every interleaving of process, operator and clock.
CONSTANTS
  s1 = s1
  Session = {s1}
  TTL = 60
  Interval = 30
  Retry = 5
  Attempt = 4
  MaxVersion = 4
SPECIFICATION FairSpec
INVARIANTS RevokeIsTerminal LeaseLostOnlyAfterOutage
PROPERTIES ImplementsAuthority GoneProcessIsClosed
