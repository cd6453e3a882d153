\* The same widths with a limit far above the int range: a stack of 128
\* words or more (2^31 words in the real widths) can be grown.
SPECIFICATION Spec
CONSTANTS
  Width = 12
  IntBits = 8
  WordBytes = 8
  Sizes = {100, 200}
  Requests = {1, 100}
  MaxWsizes = {4000}
INVARIANT ReallocSound
