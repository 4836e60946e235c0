\* a queue is destroyed while a close for it waits for a task of another queue
CONSTANTS
  c1 = c1
  w1 = w1
  f1 = f1
  q1 = q1
  q2 = q2
  t1 = t1
  t2 = t2
  Thread = {c1}
  Worker = {w1}
  File = {f1}
  Queue = {q1, q2}
  Task = {t1, t2}
  None = None
  MaxThreads = 1
  MaxQuits = 0
  Careful = FALSE
SPECIFICATION Spec
INVARIANTS
  QueueOutlivesTasks
\* the application may stop calling
CHECK_DEADLOCK FALSE
