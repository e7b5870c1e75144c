SPECIFICATION SmallSpec
CONSTANTS
  t1 = t1  t2 = t2
  Idle = Idle  NoFrame = NoFrame
  Thread <- StressThreads
  Handlers <- NoHandlers
  CPU <- Two
  CidSet <- Two
  Addr <- StressAddr
  Width = 11
  Calls <- StressCalls
  InitMem <- StressMem
  Arch = "aarch64"
  Tests <- AllTests
  Rounds = 2
  Counts = 1
  Sides = 3
  Heads = 5
  Lists <- StressLists
SYMMETRY StressSymmetry
INVARIANTS NothingLost OneOwner
PROPERTIES FenceAborts
