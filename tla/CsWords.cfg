SPECIFICATION OneIdSpec
CONSTANTS
  t1 = t1  t2 = t2
  Idle = Idle  NoFrame = NoFrame
  Thread <- Threads2
  Handlers <- NoThreads
  CPU <- Two
  CidSet <- Two
  Addr <- WordsAddr
  Width = 3
  Calls <- WordsCalls
  InitMem <- WordsMem
  Home <- WordsHome
  Holds <- WordsHolds
  Arch = "x86_64"
SYMMETRY Symmetric
INVARIANTS TypeOK ArmedInCS ConfirmedInCS OnePerIndex NothingStale
PROPERTIES OnlyHomeWrites ImplementsWordOps
