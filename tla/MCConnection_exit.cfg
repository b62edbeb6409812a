\* Two threads share a connection; client and server may exit at any time
SPECIFICATION FairSpec
CONSTANTS
  pa = pa
  pb = pb
  pc = pc
  t1 = t1
  t2 = t2
  h1 = h1
  h2 = h2
  r1 = r1
  r2 = r2
  k1 = k1
  k2 = k2
  pm = pm
  None = None
  ProcMgr = pm
  Proc = {pa, pb}
  User = {t1, t2}
  Handler = {h1}
  Register = {r1}
  Conn = {k1}
  Single = {h1}
  Established = {k1}
  Killable = {pa, pb}
  procOf <- SharedProc
  slotOrder <- SharedSlots
  owner <- SharedOwner
  handlerOf <- SharedHandler
  registerOf <- SharedRegister
 
INVARIANT CallHoldsAll
INVARIANT SleeperHasCall
 
PROPERTY ClientRecycled
PROPERTY CallReturns
