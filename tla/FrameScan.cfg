\* One stack slot and one register per descriptor; up to two frames per
\* chunk, two chunks per stack (one callback from C) and two stacks (the
\* current one and a parent).
SPECIFICATION Spec
CONSTANTS
  Slots = {1}
  Regs = {1}
  MaxFrames = 2
  MaxChunks = 2
  MaxStacks = 2
INVARIANT RootsExact
PROPERTY ScanTerminates
