\* two recognitions, two loads, failures, a cancel and a Dispose
CONSTANTS
  g1 = g1
  g2 = g2
  None = None
  Grammar = {g1, g2}
  MaxSessions = 2
  MaxLoads = 2
  MaxPhrases = 1
  MaxCalls = 1
  LoadsFail = TRUE
  StartFails = TRUE
SPECIFICATION FairSpec
INVARIANTS
  TypeOK
  OnePlace
  ReportIsOwn
  OneTimeout
  LoadedFirst
PROPERTIES
  SingleEnds
\* the application may stop calling
CHECK_DEADLOCK FALSE
