SPECIFICATION FairSpec
CONSTANTS
  proot = proot
  p1 = p1
  p2 = p2
  p3 = p3
  p4 = p4
  hr = hr
  ha = ha
  Proc = {proot, p1, p2, p3, p4}
  Root = proot
  Handler = {hr}
  clientOf <- MCBurstClient
  programs <- MCBurst
  Pid = {1, 2, 3, 4, 5}
  Slot = {11, 12, 13}
  BufSize = 3
  Waits = {}
  Killable = {}
  AnyPid = AnyPid
  None = None
INVARIANTS
  MessagesDelivered
PROPERTIES
  RecycledEventually
CHECK_DEADLOCK FALSE
