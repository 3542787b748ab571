SPECIFICATION Spec
CONSTANTS
  Thread = {t1, t2}
  Sock = {n1, n2}
  Fd = {f1}
  NoFd = NoFd
  NoSock = NoSock
  WarningsAreErrors = FALSE
  Overlap = {"args", "native"}
  CloseMayFail = FALSE
INVARIANT NoCrossTalk
