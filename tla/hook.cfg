SPECIFICATION PathSpec
CONSTANTS
  Setter = {s1, s2}
  g1 = g1
  g2 = g2
  g3 = g3
  n1 = n1
  n2 = n2
  Fn = {g1, g2, g3}
  Closure = {c1, c2, c3}
  NoFn = NoFn
  NoClosure = NoClosure
  Serialised = TRUE
  Nif = {n1, n2}
  NoNif = NoNif
  DefaultNif = n1
  Picks <- Answers
  MaxParts = 4
  MaxBytes = 3
  MaxFragments = 3
INVARIANTS TypeOK RoutedByLast OverrideInForce OutTypeOK GoesToPicked PayloadComplete
