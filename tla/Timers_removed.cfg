\* one object: a removal of a timer that ends by itself, on a second thread
CONSTANTS
  c1 = c1
  c2 = c2
  tt = tt
  m1 = m1
  Thread = {c1, c2}
  TimerThread = tt
  Timer = {m1}
  None = None
  MaxId = 2
  Once = {1}
  Callbacks = {}
  Removed = {1}
  MaxQuits = 0
SPECIFICATION Spec
INVARIANT OnlyAskedCanceled
\* the application may stop calling
CHECK_DEADLOCK FALSE
