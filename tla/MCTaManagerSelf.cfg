CONSTANTS
  Threads = {t1}
  a = a
  b = b
  Uuids <- both
  SingleInstance <- justA
  MultiSession <- justA
  KeepAlive <- none
  MayPanic <- none
  Calls <- aCallsA
  Sessions = {s1, s2}
  Ctxs = {c1}
  MaxDepth = 2
  NoThread = NoThread
  NoUuid = NoUuid
  NoCtx = NoCtx
  NoSess = NoSess
  Nsec = Nsec
SPECIFICATION Spec
INVARIANTS NoCorePanic
