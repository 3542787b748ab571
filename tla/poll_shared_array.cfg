SPECIFICATION Spec
CONSTANTS
  Poller = {p1, p2}
  Registrar = {r1}
  Fd = {f1}
  Event = {in}
  Mask <- Masks
  NoMask = NoMask
  Array = {a1, a2, a3}
  NoArray = NoArray
  Invalid = Invalid
  During = {"poll"}

INVARIANT NreadyMatches
