SPECIFICATION Spec
CONSTANTS
  Poller = {p1}
  Registrar = {r1, r2}
  Fd = {f1, f2}
  Event = {in}
  Mask <- Masks
  NoMask = NoMask
  Array = {a1, a2}
  NoArray = NoArray
  Invalid = Invalid
  During = {"poll"}
SYMMETRY Names
INVARIANTS TypeOK NreadyMatches PollsRegistered CacheCurrent
