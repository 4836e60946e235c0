\* everything but a second Abort
CONSTANTS
  MaxItems = 4
  MaxAborts = 1
  MaxPauses = 1
  OpenMayFail = TRUE
  WriteMayFail = TRUE
  ControlMayFail = TRUE
SPECIFICATION FairSpec
INVARIANTS
  TypeOK
  InStep
  PauseHolds
  AbortSilences
PROPERTIES
  WaitersLeave
\* the application may stop speaking
CHECK_DEADLOCK FALSE
