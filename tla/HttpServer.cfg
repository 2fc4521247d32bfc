SPECIFICATION FairSpec
CONSTANTS
  Clients = {c1, c2}
  NoJob = NoJob
INVARIANTS JobInv TeardownInv
PROPERTIES ServiceSpec EveryoneGetsOut
CHECK_DEADLOCK FALSE
