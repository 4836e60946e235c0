\* does WaitUntilDone wait for all the buffers?
CONSTANTS
  MaxItems = 2
  MaxAborts = 0
  MaxPauses = 0
  OpenMayFail = FALSE
  WriteMayFail = FALSE
  ControlMayFail = FALSE
SPECIFICATION Spec
INVARIANT WaitMeansPlayed
\* the application may stop speaking
CHECK_DEADLOCK FALSE
