CONSTANTS
  c1 = c1
  c2 = c2
  c3 = c3
  CPU <- MCCPU
  Modulus = 5
SPECIFICATION FairSpec
INVARIANTS
  TypeOK
  MutualExclusion
  TicketsConsistent
PROPERTIES
  FirstComeFirstServed
  LockServedEventually
