SPECIFICATION Spec

CONSTANTS
  b1 = b1
  b2 = b2
  None = None
  Ids = {b1, b2}
  SysModes <- MCModes
  UserModes <- MCUserModes
  Areas <- MCAreas
  Config <- MCConfig
  Word = 128
  MaxRects = 2
  MaxPictures = 3
  MaxVersion = 2

SYMMETRY MCSymmetry

INVARIANTS
  TypeOK
  WritesLand
  VersionTellsChange
  SoleBufferCurrent
  PpmFaithful

PROPERTIES
  RectsTellChange
