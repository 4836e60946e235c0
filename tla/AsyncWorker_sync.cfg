\* _asyncWorkerUI: a client enters and leaves synchronous calls
CONSTANTS
  Posters = {p1, p2}
  Client = client
  Workers = {w1, w2}
  MaxPosts = 3
  MaxBatch = 2
  MaxCalls = 2
SPECIFICATION FairSpec
INVARIANTS
  NoLostWakeup
PROPERTY NoItemStuck
\* everything posted and dispatched: the application is idle
CHECK_DEADLOCK FALSE
