SPECIFICATION Spec
CONSTANTS
  Threads = {t1, t2}
  Labels = {a}
  Disciplines = {FALSE}
  NoThread = NoThread
  NoLabels = NoLabels
  MaxCalls <- SomeCalls
  MaxUpdates = 0
INVARIANT NoUseAfterFree
