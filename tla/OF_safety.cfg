CONSTANTS
  a1 = a1  a2 = a2  a3 = a3  x = x  y = y  s = s  p = p  q = q  k1 = k1  k2 = k2  b1 = b1  b2 = b2
  n1 = n1  n2 = n2  Nobody = Nobody
  NoId = NoId  NoContent = NoContent  NoCard = NoCard
  Ids <- TwoIds
  Contents <- OneContent
  Subjects <- OneSubject
  SubjectOf <- SameSubject
  Levels = {"escalate", "unrouted"}
  Gating = {TRUE}
  Clicks = {}
  Verdicts = {"dismissed"}
  Edits = {FALSE}
  MaxCrashes = 1
  DbFaults = FALSE
  MaxAttempts = 2
  MaxId = 2
  People = {p, q}
  Principals = {p}
  Owner = p
  Briefs = {b1, b2}
  MaxHeld = 1
  MaxMishaps = 1
  HeldFaults = TRUE
  Taps = {b1}
  CardGates = {"auto"}
  InMailbox = {TRUE, FALSE}
  MaxDrafts = 2
  MaxUpsets = 1
  MaxChanges = 1
  MaxTroubles = 1
  Approvers = {b1, b2}
  Cancellers = {b1, b2}
  MaxEvents = 3
  BookingGates = {"propose", "auto"}
  MaxSlips = 2
  CardIds = {k1, k2}
  CardSize = 2
  Turns = {b1, b2}
  OnItsOwnPerDay = 3
  MaxStops = 1
  MaxRows = 2
  Savers = {b1, b2}
  MaxEdits = 2
  Clients = {n1, n2}
  MaxFaults = 1
  Holdable = {}
  Parts = {"gate", "held", "reply", "booking", "cards", "cadence", "slots"}
SPECIFICATION OfficeSpec
CHECK_DEADLOCK FALSE
INVARIANTS OfficeTypeOK
  SentAgainOnlyAfterAMishap HeldRowsAreRight
  ClaimIsExclusive OneMessagePerCard ReplyCardIsRight SentAsChecked NoDraftLeftBehind
  CalendarMatchesTheCard ActionHappensOnce OwnWithinTheDay SuggestionIsRight
  OnTheCalendar ClientsAreKept
PROPERTIES HeldWorkHasACard RotationGivesBack ActionsKeepPromise ReplyKeepsPromise
