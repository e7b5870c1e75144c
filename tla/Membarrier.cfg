SPECIFICATION ForkSpec
CONSTANTS
  root = root  child = child  second = second  main = main  worker = worker
  Process <- OneFork
  Root = root
  Thread <- MainAndWorker
  Main = main
INVARIANTS RootNeverRefused RootRegistersOnce RefusedBesideARetry
PROPERTIES EveryFenceReturns
