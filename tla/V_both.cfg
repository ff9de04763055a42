CONSTANTS
  Clients = {n1, n2}
  Nobody = Nobody
  MaxFaults = 0
SPECIFICATION SlotsSpec
CHECK_DEADLOCK FALSE
INVARIANT NeverBothActive
