SPECIFICATION FairSpec
CONSTANTS
  proot = proot
  p1 = p1
  p2 = p2
  p3 = p3
  p4 = p4
  hr = hr
  ha = ha
  Proc = {proot, p1, p2, p3}
  Root = proot
  Handler = {hr, ha}
  clientOf <- MCClientOf
  programs <- MCPrograms
  Pid = {1, 2, 3, 4}
  Slot = {11, 12}
  BufSize = 2
  Waits = {p1}
  Killable = {p1, p2}
  AnyPid = AnyPid
  None = None
PROPERTIES
  ExitedIsRecycled
CHECK_DEADLOCK FALSE
