SPECIFICATION ChasesSpec
CONSTANTS
  t1 = t1  t2 = t2
  Idle = Idle  NoFrame = NoFrame
  Thread <- TwoThreads
  Handlers <- OneHandler
  CPU <- Two
  CidSet <- Two
  Addr <- ChasesAddr
  Width = 8
  Calls <- ChasesCalls
  InitMem <- ChasesMem
  Home <- ChasesHome
  Holds <- ChasesHolds
  Arch = "aarch64"
INVARIANTS FramesOutside ChaseLegal SlotLegal NothingStale
PROPERTIES ImplementsWordOps
