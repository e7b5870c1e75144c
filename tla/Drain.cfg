SPECIFICATION DrainSpec
CONSTANTS
  t1 = t1  t2 = t2
  Idle = Idle  NoFrame = NoFrame
  Thread <- DrainThreads
  Handlers <- NoHandlers
  CPU <- DrainCPU
  CidSet <- DrainCPU
  Addr <- DrainAddr
  Width = 5
  Calls <- DrainCalls
  InitMem <- DrainMem
  Arch = "x86_64"
  Rounds = 2
  Base = 0
INVARIANT Conserved
