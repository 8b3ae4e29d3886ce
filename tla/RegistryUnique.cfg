SPECIFICATION Spec
CONSTANTS
  Threads = {t1, t2}
  Names = {a}
  Disciplines = {FALSE}
  NoThread = NoThread
  MaxCalls <- SomeCalls
  MaxUpdates <- SomeUpdates
INVARIANT NamesUnique
