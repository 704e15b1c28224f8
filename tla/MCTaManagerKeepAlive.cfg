CONSTANTS
  Threads = {t1, t2}
  a = a
  b = b
  Uuids <- both
  SingleInstance <- justA
  MultiSession <- none
  KeepAlive <- justA
  MayPanic <- none
  Calls <- bCallsA
  Sessions = {s1, s2}
  Ctxs = {c1, c2}
  MaxDepth = 2
  NoThread = NoThread
  NoUuid = NoUuid
  NoCtx = NoCtx
  NoSess = NoSess
  Nsec = Nsec
SPECIFICATION FairSpec
INVARIANTS NoCorePanic Instances
PROPERTIES CloseCompletes
