SPECIFICATION FairSpec
CONSTANTS
  Main = main
  w1 = w1
  w2 = w2
  a1 = a1
  a2 = a2
  Head = head
  Null = null
  Worker <- Workers
  Creators <- OnlyMain
  Stragglers = {}
  Actor <- Actors
  LogOpens = {"file", "stdout"}
  LogEnv = {"unset", "DEBUG", "INFO"}
INVARIANTS
  NoDeadObjectUsed
  AllThreadsStopped
PROPERTIES
  ShutdownCompletes
