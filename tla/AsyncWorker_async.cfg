\* _asyncWorker: two posting threads, three pool threads, never synchronous
CONSTANTS
  Posters = {p1, p2}
  Client = client
  Workers = {w1, w2, w3}
  MaxPosts = 8
  MaxBatch = 3
  MaxCalls = 0
SPECIFICATION AsyncSpec
SYMMETRY Symmetry
INVARIANTS
  TypeOK
  Serialized
PROPERTY DispatcherSpec
\* everything posted and dispatched: the application is idle
CHECK_DEADLOCK FALSE
