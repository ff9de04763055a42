CONSTANTS
  a1 = a1  a2 = a2  a3 = a3  x = x  y = y  s = s
  NoId = NoId  NoContent = NoContent  NoCard = NoCard
  Ids <- TwoIds
  Contents <- OneContent
  Subjects <- OneSubject
  SubjectOf <- SameSubject
  Levels = {"execute", "propose", "escalate"}
  Gating = {TRUE, FALSE}
  Clicks = {}
  Verdicts = {}
  Edits = {TRUE, FALSE}
  MaxCrashes = 1
  DbFaults = TRUE
  MaxAttempts = 1
SPECIFICATION GateSpec
SYMMETRY IdSymmetry
INVARIANTS WorkedRowsAreRunning RetriesBounded
