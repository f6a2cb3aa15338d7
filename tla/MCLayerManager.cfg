\* Two layers, two optimizer files of one hash, one restart.  A layer takes 9 blocks;
\* the device ends behind the second layer's param32.  No block is left free between
\* regions, so what does not fit a layer's last region reaches the next layer.
SPECIFICATION Spec
CONSTANTS
  Files <- SomeFiles
  MapOrder <- LayerOrder
  LayerOf <- TensorLayer
  AlignParam = 4
  BlockBytes = 8
  Gap = 0
  MAX_LAYER_SIZE = 100
  DeviceBlocks = 12
  Versions = {1, 2}
  Contracts = {TRUE, FALSE}
  MaxRestarts = 1
INVARIANTS
  TypeOK
  RegionsDisjoint
  ReadReturnsLastWrite
  ContractSuffices
PROPERTY
  WritesStayInRegion
