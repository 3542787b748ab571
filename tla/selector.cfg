SPECIFICATION Spec
CONSTANTS
  Obj = {o1, o2, o3, x1}
  Foreign = {x1}
  Fd = {f1, f2}
  NoObj = NoObj
  NoFd = NoFd
  NoMask = NoMask
SYMMETRY Symmetry
INVARIANTS TypeOK MapsAgree RegisteredFound SelectsOwner ClosedReported
CHECK_DEADLOCK FALSE
