\* pauses, cancels, voice requests and disposal beside synchronous calls:
\* what waits gets its answer
CONSTANTS
  c1 = c1
  c2 = c2
  p1 = p1
  p2 = p2
  Client = {c1, c2}
  Prompt = {p1, p2}
  Ssml = {}
  Long = {}
  Wave = {}
  None = None
  Calls = {"speak", "abort", "pause", "voice", "output", "dispose", "cancel"}
  MaxCalls = 2
  MayFail = FALSE
SPECIFICATION FairSpec
INVARIANT
  TypeOK
PROPERTIES
  PromptsEnd
  CallsReturn
  RequestsEnd
\* the application may stop calling
CHECK_DEADLOCK FALSE
