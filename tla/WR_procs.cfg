SPECIFICATION Spec
CONSTANTS
  p1 = p1
  p2 = p2
  k1 = k1
  k2 = k2
  Runs = {r1}
  Procs = {p1, p2}
  Kicks = {k1, k2}
  Home <- AKickEach
  Tokens = {t1, t2, t3}
  NoClaim = NoClaim
  NoRun = NoRun
  NoProc = NoProc
  GateCount = 2
  GateKind <- ApprovalThenHeld
  MaxAttempts = 2
  MaxReplies = 1
  MaxCrashes = 1
  Policies = {"escalate"}
  DbFaults = TRUE
SYMMETRY Symmetry
INVARIANTS
  OneOwner
  OneArtifact
