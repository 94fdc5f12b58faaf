CONSTANTS
  NULL = NULL
  NCpu = 2
  Workers = {t1, t2, t3}
  Procs = {p1, p2}
  UiThread = t1
  UiProc = p1
  IdleProc = pidle
SPECIFICATION FairSpec
CHECK_DEADLOCK TRUE
INVARIANTS QueueHoldsReadyThreads ResumesOwnContext LoadedForThread
PROPERTIES ImplementsReadyQueue ReadyThreadsRun
