SPECIFICATION Spec
CONSTANTS
  Threads = {t1, t2}
  Ids = {a, b}
  Listeners = {l}
  Sizes = {1, 3}
  MaxQueued = 2
  MaxQueuedBytes = 2
  MaxRequests = 3
  Nothing = Nothing
SYMMETRY Alike
INVARIANTS TypeOK NoWaiterForgotten CancelsAreExact AnsweredOnce CountersAgree
CHECK_DEADLOCK FALSE
