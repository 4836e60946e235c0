\* timers that end, last or are removed, objects taken again, a quit and a restart
CONSTANTS
  c1 = c1
  c2 = c2
  tt = tt
  m1 = m1
  m2 = m2
  Thread = {c1, c2}
  TimerThread = tt
  Timer = {m1, m2}
  None = None
  MaxId = 3
  Once = {1, 2}
  Callbacks = {"remove"}
  Removed = {1}
  MaxQuits = 1
SPECIFICATION FairSpec
INVARIANTS
  TypeOK
  MapMatches
  OnePlace
  OnlyCaughtCanceled
PROPERTIES
  TimerFires
  QuitEnds
\* the application may stop calling
CHECK_DEADLOCK FALSE
