SPECIFICATION FairTraffic
CONSTANTS
  Rival = {r1, r2}
  Nobody = Nobody
  WarningsAreErrors = FALSE
  Sender = {s1, s2}
  Items = 3
  Widths = {1, 2}
  Window = 2
  BufLen = 2
  NBytes = {0, 3}
INVARIANTS TypeOK PairConnected NothingLeft TrafficTypeOK SentOnce SentInFull RaisedIsFailed ErrorIsOwn
PROPERTIES Ends SendallEnds
CHECK_DEADLOCK FALSE
