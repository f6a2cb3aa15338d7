\* Limits that each of the vectors meets in another way; the queue of NVMe
\* refuses gaps.
SPECIFICATION Spec
CONSTANTS
  PageUnits = 2
  Frame <- FourPages
  KernelFrames = {20, 21, 23, 25}
  Vectors <- SomeVectors
  MaxUnits = 8
  MaxSegments = 3
  MaxSegUnits = 4
  SegBoundary = 22
  BIO_MAX_VECS = 2
  VirtBoundary = TRUE
INVARIANTS
  TypeOK
  PagesHeldOnce
  ImageInOrder
  WithinLimits
PROPERTY
  RefinesMappedBuffer
