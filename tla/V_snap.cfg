SPECIFICATION Spec
CONSTANTS
  p1 = p1
  p2 = p2
  k1 = k1
  k2 = k2
  Runs = {r1, r2}
  Procs = {p1}
  Kicks = {k1}
  Home <- BothKicksAtOne
  Tokens = {t1, t2, t3}
  NoClaim = NoClaim
  NoRun = NoRun
  NoProc = NoProc
  GateCount = 2
  GateKind <- TwoApprovals
  MaxAttempts = 2
  MaxReplies = 1
  MaxCrashes = 0
  Policies = {"fail"}
  DbFaults = FALSE
SYMMETRY Symmetry
PROPERTIES
  RejectionsAreFinal
