SPECIFICATION Spec
CONSTANTS
  Frame = {f1, f2, f3}
  NULL = NULL
  Sizes <- FitSizes
  PageSize = 16
  HeaderSize = 4
  BitmapBits = 4
  CountLimit = 8
  Targets = {0, 3, 6, 7}
  Handle = {h1, h2, h3, h4, h5}
SYMMETRY Symmetry
INVARIANTS
  LiveDisjoint
  SlotAccounting
PROPERTY GrowsOnlyWhenFull
