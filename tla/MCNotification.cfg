CONSTANTS
  p1 = p1
  p2 = p2
  t1 = t1
  t2 = t2
  t3 = t3
  NoThread = NoThread
  NoCPU = NoCPU
  CPU <- MCCPU
  Thread <- MCThread3
  MaxSignal = 2
SPECIFICATION FairSpec
INVARIANTS
  TypeOK
  AwokenOnce
  
  NoMissedSignal
  NoStaleTimer
PROPERTIES
  ImplementsNotification
  KernelPathEnds
