SPECIFICATION Spec
CONSTANTS
  Frame = {f1, f2, f3}
  NULL = NULL
  Sizes <- SmallSizes
  PageSize = 16
  HeaderSize = 4
  BitmapBits = 4
  CountLimit = 8
  Targets = {2}
  Handle = {h1, h2, h3, h4, h5, h6}
INVARIANT LiveDisjoint
