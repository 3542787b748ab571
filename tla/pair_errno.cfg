SPECIFICATION Spec
CONSTANTS
  Rival = {r1, r2}
  Nobody = Nobody
  WarningsAreErrors = FALSE
INVARIANT CleanErrno
CHECK_DEADLOCK FALSE
