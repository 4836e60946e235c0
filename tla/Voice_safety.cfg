\* a prompt of one text segment and a wave file of two segments: queue, events and state
\* under pauses, cancels and failures
CONSTANTS
  c1 = c1
  c2 = c2
  p1 = p1
  p2 = p2
  Client = {c1, c2}
  Prompt = {p1, p2}
  Ssml = {}
  Long = {p2}
  Wave = {p2}
  None = None
  Calls = {"async", "abort", "cancel", "pause", "output"}
  MaxCalls = 3
  MayFail = TRUE
SPECIFICATION Spec
SYMMETRY Symmetry
INVARIANTS
  WorkerAwake
  StartsThenEnds
  StatesChain
  IdleIsNotSpeaking
  StateIsHeard
  PurgedIsSilent
  OnlyAskedCancelled
PROPERTY
  OutputKept
\* the application may stop calling
CHECK_DEADLOCK FALSE
