SPECIFICATION FairSpec
CONSTANTS
  Threads = {t1, t2}
  Calls = {c1, c2, c3, c4}
  NoThread = NoThread
  NoCall = NoCall
INVARIANTS OneCallPerThread ChainInv NobodyWaitsInVain
PROPERTIES ImplementsFifoLock EveryCallWorks
