CONSTANTS
  Threads = {t1, t2}
  a = a
  b = b
  Uuids <- both
  SingleInstance <- justA
  MultiSession <- justA
  KeepAlive <- none
  MayPanic <- justA
  Calls <- none
  Sessions = {s1, s2}
  Ctxs = {c1}
  MaxDepth = 1
  NoThread = NoThread
  NoUuid = NoUuid
  NoCtx = NoCtx
  NoSess = NoSess
  Nsec = Nsec
SPECIFICATION FairSpec
PROPERTIES CloseCompletes
CHECK_DEADLOCK FALSE
