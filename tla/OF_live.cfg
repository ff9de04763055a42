CONSTANTS
  a1 = a1  a2 = a2  a3 = a3  x = x  y = y  s = s  p = p  q = q  k1 = k1  k2 = k2  b1 = b1  b2 = b2
  n1 = n1  n2 = n2  Nobody = Nobody
  NoId = NoId  NoContent = NoContent  NoCard = NoCard
  Ids <- TwoIds
  Contents <- OneContent
  Subjects <- OneSubject
  SubjectOf <- SameSubject
  Levels = {"propose"}
  Gating = {TRUE}
  Clicks = {}
  Verdicts = {}
  Edits = {FALSE}
  MaxCrashes = 1
  DbFaults = FALSE
  MaxAttempts = 2
  MaxId = 1
  People = {p}
  Principals = {p}
  Owner = p
  Briefs = {b1}
  MaxHeld = 1
  MaxMishaps = 1
  HeldFaults = FALSE
  Taps = {b1}
  CardGates = {"propose"}
  InMailbox = {TRUE}
  MaxDrafts = 1
  MaxUpsets = 1
  MaxChanges = 0
  MaxTroubles = 1
  Approvers = {b1, b2}
  Cancellers = {b1, b2}
  MaxEvents = 3
  BookingGates = {"propose", "auto"}
  MaxSlips = 2
  CardIds = {k1, k2}
  CardSize = 2
  Turns = {b1, b2}
  OnItsOwnPerDay = 3
  MaxStops = 1
  MaxRows = 2
  Savers = {b1}
  MaxEdits = 1
  Clients = {n1, n2}
  MaxFaults = 1
  Holdable = {"held", "reply", "cadence"}
  Parts = {"gate", "held", "reply", "cadence"}
SPECIFICATION FairOfficeSpec
CHECK_DEADLOCK FALSE
PROPERTIES DueActionsSettle ApprovalsEnd HeldMessagesEnd UnconfirmedSettles
  OffMeansOff
