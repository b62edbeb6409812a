CONSTANTS
  s1 = s1
  s2 = s2
  c1 = c1
  c2 = c2
  Server <- MCServer
  Client <- MCClient
  MaxMsg = 2
  MaxClose = 2
  MaxKill = 0
SPECIFICATION Spec
CHECK_DEADLOCK FALSE
INVARIANT NoPanic
