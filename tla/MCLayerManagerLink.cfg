\* A client that keeps no contract: two layers are linked to one hash.
SPECIFICATION Spec
CONSTANTS
  Files <- SomeFiles
  MapOrder <- LayerOrder
  LayerOf <- TensorLayer
  AlignParam = 4
  BlockBytes = 8
  Gap = 0
  MAX_LAYER_SIZE = 100
  DeviceBlocks = 12
  Versions = {1, 2}
  Contracts = {FALSE}
  MaxRestarts = 1
INVARIANT
  OneLayerPerHash
