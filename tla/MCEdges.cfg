SPECIFICATION Spec
CONSTANTS
  cmd1 = cmd1
  cmd2 = cmd2
  cmd3 = cmd3
  init1 = init1
  init2 = init2
  init3 = init3
  Command = {cmd1, cmd2, cmd3}
  HeadOf <- MCHead
  MaxRev = 2
  MaxRows = 1
  MaxFiles = 2
  Nobody = Nobody
  Starter = {init1, init2, init3}
  Keys = 2
  Environ <- MCEnviron
  MaxTouches = 1
  Operator = Operator
  NoFile = NoFile
  Downloader = {d, e}
  Chunks = 3
  Limit = 1
  Someone = Someone
  Empty = Empty
  Topic = {1, 2}
  Bad = 0
  Own = own
  Other = other
  Public = {p1, p2}
  Private = {q}
  MaxResults = 2
  MaxTopics = 1
  MaxRedirects = 1
  Factor = 2
  Cap = 3
  MaxAsked = 3
  MaxListed = 3
  MaxWait = 2
  Person = {p}
  MaxTries = 2
  MaxElsewhere = 1
  Identity = {i, j}
  Text = {w, z}
  Contentless = blank
  Signal = {w}
  Detached = {dt}
  MaxFetch = 2
  MaxRuns = 3
  LostAt = {2}
  Proof = {f1, f2}
  Garbled = garbled
  Stray = stray
  NoProof = NoProof
  MaxEdits = 1
  o1 = o1
  o2 = o2
  o3 = o3
  o4 = o4
  forum = forum
  board = board
  none = none
  SourceId = {s1, s2}
  BoundProject = {bp}
  Caller = {c1, c2}
  Spelling = {o1, o2, o3, o4}
  HostOf <- MCHostOf
  Rejected = none
  Unset = Unset
INVARIANTS
  SavedOrNothing FetchKeepsTerms CommandsAreHonest DeltaIsTrue BundleIsOneRun
PROPERTIES
  MigrationSafety ConfigSafety SourcesSafety
CHECK_DEADLOCK FALSE
