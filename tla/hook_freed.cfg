SPECIFICATION Spec
CONSTANTS
  Setter = {s1, s2}
  Fn = {g1, g2, g3}
  Closure = {c1, c2, c3}
  NoFn = NoFn
  NoClosure = NoClosure
  Serialised = TRUE
INVARIANT NeverCallsFreed
