SPECIFICATION Spec
CONSTANTS
  u1 = u1  u2 = u2
  Upload = {u1, u2}
  Library = {}
  Foreign = {}
  Size = {M}
  Color = {}
  Order = {o1}
  MaxStock = 1
  MaxImages = 2
SYMMETRY Symmetry
INVARIANTS TypeOK ImagesAccounted OneMainPhoto
PROPERTIES HistoryKept
CHECK_DEADLOCK FALSE
