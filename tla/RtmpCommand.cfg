SPECIFICATION Spec
CONSTANTS
  None = None
  Conns = {c1, c2}
  Roles <- MCRoles
  Apps <- MCApps
  ConnectObjects <- MCConnectObjects
  MaxExtra = 1
SYMMETRY MCSymmetry
CHECK_DEADLOCK FALSE
INVARIANTS CommandsDecode SameStreamSameSession ServerKeepsRunning NobodyLeftWaiting
