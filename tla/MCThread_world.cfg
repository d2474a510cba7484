SPECIFICATION FairSpec
CONSTANTS
  Main = main
  t1 = t1
  t2 = t2
  Head = head
  None = none
  Thread <- Threads3
  ExitNative <- Exiting
  ExitInside <- OneExits
INVARIANTS
  TypeOK
  CountersExact
  StoppedExceptLate
  ListMatchesRegistration
  AssertionsHold
PROPERTIES
  StacksMarkedBeforeSweep
  CollectionCompletesUnlessInsideExit
  PausedThreadResumes
