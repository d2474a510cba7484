SPECIFICATION Spec
CONSTANTS
  Main = main
  t1 = t1
  t2 = t2
  Head = head
  None = none
  Thread <- Threads3
  ExitNative <- Exiting
  ExitInside = {}
SYMMETRY Symmetry
INVARIANTS
  WalkReadsLiveThreads
