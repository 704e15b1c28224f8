CONSTANTS
  Threads = {t1, t2}
  a = a
  b = b
  Uuids <- both
  SingleInstance <- both
  MultiSession <- both
  KeepAlive <- none
  MayPanic <- both
  Calls <- aCallsBoth
  Sessions = {s1, s2}
  Ctxs = {c1, c2}
  MaxDepth = 2
  NoThread = NoThread
  NoUuid = NoUuid
  NoCtx = NoCtx
  NoSess = NoSess
  Nsec = Nsec
SPECIFICATION Spec
SYMMETRY Symmetry
INVARIANTS TypeOK OneCallPerInstance SingleInstanceLock SessionRefs ClosesFindTheirSession Assertions
           ContextRefs NoForgottenWaiter
CHECK_DEADLOCK FALSE
