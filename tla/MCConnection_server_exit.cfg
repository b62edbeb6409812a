\* The server exits while its handler may be preempted
SPECIFICATION FairSpec
CONSTANTS
  pa = pa
  pb = pb
  pc = pc
  t1 = t1
  t2 = t2
  h1 = h1
  h2 = h2
  r1 = r1
  r2 = r2
  k1 = k1
  k2 = k2
  pm = pm
  None = None
  ProcMgr = pm
  Proc = {pa, pb}
  User = {t1, t2}
  Handler = {h1}
  Register = {r1}
  Conn = {k1}
  Single = {}
  Established = {k1}
  Killable = {pb}
  procOf <- SharedProc
  slotOrder <- SharedSlots
  owner <- SharedOwner
  handlerOf <- SharedHandler
  registerOf <- SharedRegister
PROPERTY ExitedIsRecycled
