\* A chained call pa:pb:pc, from the registration of both connections
SPECIFICATION Spec
CONSTANTS
  pa = pa
  pb = pb
  pc = pc
  t1 = t1
  t2 = t2
  h1 = h1
  h2 = h2
  r1 = r1
  r2 = r2
  k1 = k1
  k2 = k2
  pm = pm
  None = None
  ProcMgr = pm
  Proc = {pa, pb, pc}
  User = {t1, t2}
  Handler = {h1, h2}
  Register = {r1, r2}
  Conn = {k1, k2}
  Single = {}
  Established = {}
  Killable = {}
  procOf <- ChainProc
  slotOrder <- ChainSlots
  owner <- ChainOwner
  handlerOf <- ChainHandler
  registerOf <- ChainRegister
INVARIANT ContextUsedOnce
INVARIANT CallHoldsAll
