SPECIFICATION ForkSpec
CONSTANTS
  root = root  child = child  second = second  main = main  worker = worker
  Process <- TwoForks
  Root = root
  Thread <- MainOnly
  Main = main
INVARIANT ForkedFenceRetried
