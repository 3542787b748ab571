SPECIFICATION Spec
CONSTANTS
  Thread = {t1}
  NetifId = {n1, n2}
  NoNetif = NoNetif
SYMMETRY Names
CHECK_DEADLOCK FALSE
INVARIANTS TypeOK SentWhereAsked ListedAlive FlagsKept
