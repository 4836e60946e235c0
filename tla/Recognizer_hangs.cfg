\* Recognize asked for while its only grammar fails to load
CONSTANTS
  g1 = g1
  None = None
  Grammar = {g1}
  MaxSessions = 1
  MaxLoads = 1
  MaxPhrases = 0
  MaxCalls = 0
  LoadsFail = TRUE
  StartFails = FALSE
SPECIFICATION FairSpec
PROPERTIES
  RecognizeReturns
\* the application may stop calling
CHECK_DEADLOCK FALSE
