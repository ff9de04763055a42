CONSTANTS
  a1 = a1  a2 = a2  a3 = a3  x = x  y = y  s = s
  NoId = NoId  NoContent = NoContent  NoCard = NoCard
  Ids <- TwoIds
  Contents <- TwoContents
  Subjects <- OneSubject
  SubjectOf <- SameSubject
  Levels = {"propose"}
  Gating = {TRUE}
  Clicks = {}
  Verdicts = {}
  Edits = {FALSE}
  MaxCrashes = 0
  DbFaults = FALSE
  MaxAttempts = 2
SPECIFICATION GateSpec
INVARIANT UnboundMeansFolded
