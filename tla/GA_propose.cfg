CONSTANTS
  a1 = a1  a2 = a2  a3 = a3  x = x  y = y  s = s
  NoId = NoId  NoContent = NoContent  NoCard = NoCard
  Ids <- ThreeIds
  Contents <- TwoContents
  Subjects <- OneSubject
  SubjectOf <- SameSubject
  Levels = {"propose"}
  Gating = {TRUE}
  Clicks = {"read"}
  Verdicts = {"changed"}
  Edits = {FALSE}
  MaxCrashes = 1
  DbFaults = FALSE
  MaxAttempts = 2
SPECIFICATION GateSpec
SYMMETRY IdSymmetry
INVARIANTS NothingUnapprovedGoesOut CarriedOutOnce
PROPERTY SettledStays
