\* Three sprites in two layers, two textures and a font.
SPECIFICATION Spec
CONSTANTS
  a1 = a1  a2 = a2  e1 = e1  e2 = e2  e3 = e3
  AssetIds = {a1, a2}
  MaxHandles = 3
  Entities = {e1, e2, e3}
  AssetOf <- MCAssetOf
  Layers = {1, 2}
INVARIANTS HandlesOwnedOnce OnlyReloadsLeak DrawnInLayerOrder
CHECK_DEADLOCK FALSE
