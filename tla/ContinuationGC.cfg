CONSTANTS
  d1 = d1
  d2 = d2
  s1 = s1
  s2 = s2
  s3 = s3
  s4 = s4
  c1 = c1
  c2 = c2
  Domains <- MCDomains
  Stacks <- MCStacks
  Conts <- MCConts
SPECIFICATION Spec
INVARIANT TypeOK
INVARIANT SnapshotScanned
SYMMETRY Symm
