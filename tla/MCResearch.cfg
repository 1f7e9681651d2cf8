\* One project has no forum, the other reads it.
CONSTANTS
  plain = plain
  watching = watching
  r1 = r1
  r2 = r2
  ev = ev
  Project = {plain, watching}
  OnForum = {watching}
  Request = {r1, r2}
  Item = {ev}
  MaxTime = 1
  MaxRuns = 2
  MaxWait = 1
  MaxFaults = 1
  MaxEdits = 2
  None = None
  Gone = Gone
SPECIFICATION CastSpec
INVARIANTS RunsWellFormed EnabledStaysScheduled OnlyTheWantedIsRun NewOnce
PROPERTY DueIsServed
CHECK_DEADLOCK FALSE
