CONSTANTS
  s1 = s1
  s2 = s2
  c1 = c1
  c2 = c2
  Server <- MCServer
  Client <- MCClient
  MaxMsg = 3
  MaxClose = 1
  MaxKill = 2
SPECIFICATION Spec
CHECK_DEADLOCK FALSE
INVARIANTS
  CallerTracked
  NoMissedRendezvous
  WaitingServersQueued
  ClosedWakesCallers
  
PROPERTIES
  ReceivedInOrder
  ReplyWakesBlockedCaller
