SPECIFICATION Spec
CONSTANTS
  Frames = {f1, f2}
  HwDepth = 3
  RxRing = 4
  Wrap = 8
INVARIANT TypeOK
PROPERTY ImplementsQueue
