SPECIFICATION Spec
CONSTANTS
  t1 = t1  t2 = t2
  Thread <- TwoThreads
  Environments <- ListlessEnvironments
  U32Max = 15
  UsizeMax = 65535
  BufLen = 6
  Base = 4096
  None = None
SYMMETRY Symmetric
CHECK_DEADLOCK FALSE
INVARIANT NoneMeansNoKernel
