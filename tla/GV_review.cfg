CONSTANTS
  a1 = a1  a2 = a2  a3 = a3  x = x  y = y  s = s
  NoId = NoId  NoContent = NoContent  NoCard = NoCard
  Ids <- TwoIds
  Contents <- OneContent
  Subjects <- OneSubject
  SubjectOf <- SameSubject
  Levels = {"propose"}
  Gating = {TRUE}
  Clicks = {}
  Verdicts = {"dismissed"}
  Edits = {TRUE}
  MaxCrashes = 0
  DbFaults = FALSE
  MaxAttempts = 2
SPECIFICATION GateSpec
INVARIANT FailedApprovalsCanBeRetried
