\* Scaled sizes: 8-byte words, 64-byte pages, huge pages of 4 or 8 pages
\* (or none), 16-bit uintnat.  The -X parameters and the limits cover
\* sizes below one huge page, between one and two, above two, zero, and a
\* request above the limit.
SPECIFICATION Spec
CONSTANTS
  Width = 16
  WordBytes = 8
  PageBytes = 64
  HugePageBytes = {0, 256, 512}
  InfoBytes = 48
  HandlerBytes = 32
  PadWords = 1
  StackInitBytes = 512
  ThresholdBytes = 64
  Params = {0, 8, 33, 40, 70, 100}
  MaxWsizes = {40, 100}
  MallocOffsets = {0, 8}
INVARIANTS InitSizeSound HugePageFit LayoutSound
