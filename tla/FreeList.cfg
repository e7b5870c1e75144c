SPECIFICATION ListSpec
CONSTANTS
  t1 = t1  t2 = t2
  Idle = Idle  NoFrame = NoFrame
  Thread <- ListThreads
  Handlers <- NoHandlers
  CPU <- ListCPU
  CidSet <- OneCid
  Addr <- ListAddr
  Width = 5
  Calls <- ListCalls
  InitMem <- ListMem
  Arch = "x86_64"
  Nodes <- TwoNodes
  Next0 = 0
  Heads = 3
SYMMETRY ListSymmetry
INVARIANT ThreadOwned
