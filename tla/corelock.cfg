SPECIFICATION FairSpec
CONSTANTS
  i1 = i1
  i2 = i2
  Thread = {t1}
  Instance = {i1, i2}
  Nobody = Nobody
  Reach <- OneWay
INVARIANTS TypeOK CoreHeld NoEmbrace
PROPERTIES CoreReleased InitEnds
