CONSTANTS
  m = m
  g1 = g1
  v0 = v0
  v1 = v1
  t1 = t1
  o1 = o1
  None = None
  Group = {m, g1}
  Manager = m
  Vmspace = {v0, v1}
  vmOf <- MCvmOf
  Thread = {t1}
  Other = {o1}
  Connection = {o1}
  Word = 3
  MaxWords = 2
  MaxRef <- MCMaxRef
  MaxCopy <- MCMaxCopy
SPECIFICATION Spec
INVARIANTS
  TypeOK
  CopiesExact
  RefcountExact
  
PROPERTY LowestIdFirst
