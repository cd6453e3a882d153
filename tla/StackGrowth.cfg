\* Native code, heap backend: a 3-word stack with a 6-word limit, which
\* caml_change_max_stack_size can raise to 12 (or try to lower to 1).
CONSTANTS
  InitWsz = 3
  InitMax = 6
  MaxChoices = {1, 12}
  StackThreshold = 1
  StackNeeded = 2
  MaxReq = 2
  MaxRegions = 3
  MaxLinks = 3
  Span = 64

SPECIFICATION Spec
INVARIANTS TypeOK StackPointersValid
PROPERTIES GrowthPreservesStack
