\* Three local blocks, one in the last arena and two in the arena before
\* it, with up to two fields each, reached from two roots.  No block holds
\* a pointer to itself (local recursive values are not supported).
SPECIFICATION Spec
CONSTANTS
  NBlocks = 3
  TopBlocks = 1
  NRoots = 2
  MaxFields = 2
  AllowSelf = FALSE
INVARIANTS TypeOK ScanExact MarksTemporary
PROPERTIES ScanEnds
