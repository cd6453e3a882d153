\* The limit set by caml_change_max_stack_size (OCAMLRUNPARAM l, Gc.set) is
\* any number of words, here 5, which is not the 3-word stack doubled.
CONSTANTS
  InitWsz = 3
  InitMax = 6
  MaxChoices = {5}
  StackThreshold = 1
  StackNeeded = 2
  MaxReq = 2
  MaxRegions = 3
  MaxLinks = 2
  Span = 64

SPECIFICATION Spec
PROPERTY GrowthWithinMax
