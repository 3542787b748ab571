SPECIFICATION Spec
CONSTANTS
  Thread = {t1}
  NetifId = {n1, n2}
  NoNetif = NoNetif
CHECK_DEADLOCK FALSE
INVARIANT SettingsInForce
