\* one file, opened either way, two queues, two tasks, two workers, a quit
CONSTANTS
  c1 = c1
  c2 = c2
  w1 = w1
  w2 = w2
  f1 = f1
  q1 = q1
  q2 = q2
  t1 = t1
  t2 = t2
  Thread = {c1, c2}
  Worker = {w1, w2}
  File = {f1}
  Queue = {q1, q2}
  Task = {t1, t2}
  None = None
  MaxThreads = 2
  MaxQuits = 1
  Careful = TRUE
SPECIFICATION FairSpec
INVARIANTS
  TypeOK
  NothingFreedInUse
  NoTaskStranded
  WaitersWoken
PROPERTIES
  FilesSpec
  DestroyEnds
\* the application may stop calling
CHECK_DEADLOCK FALSE
