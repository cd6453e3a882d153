\* Three local blocks, one in the last arena and two in the arena before
\* it, with up to two fields each, reached from two roots; a block may
\* hold a pointer to itself.
SPECIFICATION Spec
CONSTANTS
  NBlocks = 3
  TopBlocks = 1
  NRoots = 2
  MaxFields = 2
  AllowSelf = TRUE
INVARIANT MarksTemporary
