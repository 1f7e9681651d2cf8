\* Two sessions that write the same row, three calls: retries, key reuse, lost
\* commits, revokes.
CONSTANTS
  s1 = s1
  s2 = s2
  k1 = k1
  c1 = c1
  c2 = c2
  c3 = c3
  NoCall = NoCall
  Session = {s1, s2}
  Key = {k1}
  Call = {c1, c2, c3}
  MaxEffects = 1
  Request <- AIRequests
SYMMETRY Symmetry
SPECIFICATION Spec
INVARIANTS AnswersAgree NoSilentAbandon
PROPERTY ImplementsIdempotentWrites NoEffectAfterClose
CHECK_DEADLOCK FALSE
