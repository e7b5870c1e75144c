SPECIFICATION SchedSpec
CONSTANTS
  t1 = t1  t2 = t2
  Idle = Idle  NoFrame = NoFrame
  Thread <- SchedThreads
  Handlers <- SchedHandlers
  CPU <- SchedCPU
  CidSet <- SchedCPU
  Addr <- SchedAddr
  Width = 2
  Calls <- SchedCalls
  InitMem <- SchedMem
  Arch = "x86_64"
  Quantum = 9
  Base = 0
  LoopOf <- OneEach
PROPERTIES EveryCallReturns EveryLoopReturns
