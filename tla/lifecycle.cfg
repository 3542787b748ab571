SPECIFICATION FairSpec
CONSTANTS
  Thread = {t1, t2}
  Sock = {n1, n2}
  Fd = {f1, f2}
  NoFd = NoFd
  NoSock = NoSock
  WarningsAreErrors = TRUE
  Overlap = {"native"}
  CloseMayFail = FALSE
INVARIANTS TypeOK NoCrossTalk UnclosedKeepsConnection LeakIsRaised
PROPERTIES CloseReleases KeepsContract
