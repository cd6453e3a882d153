CONSTANTS
  d1 = d1
  d2 = d2
  s1 = s1
  s2 = s2
  s3 = s3
  s4 = s4
  c1 = c1
  c2 = c2
  a1 = a1
  NULL = NULL
  Domains <- MCDomains
  MainDomain = d1
  Stacks <- MCStacks
  Conts <- MCConts
  Arenas <- MCArenas
  FiberWsz = 1
  InitMainWsz = 32
  MaxStackWsz = 4
  MaxNeed = 4
  Backend = "malloc"
SPECIFICATION Spec
SYMMETRY Symm
INVARIANT NoLeak
