\* The emergency routine never gets its damping command out.
\* The system stops for good after the destructor and in the emergency routine.
SPECIFICATION FairSpec
CONSTANTS
  Clients = {c1}
  Background = background
  NoThread = NoThread
  Ops = {"set_gain"}
  BackgroundSendRecv = TRUE
  ShutdownToPassive = TRUE
  PosMin = 0
  PosMax = 2
  Readings = {0}
  Healths = {"ok", "over_current"}
  CmdPos = {0}
  SaneMax = 3
  Home = 0
  VelStep = 1
  MotionStep = 1
  KpValues = {0, 2}
  DefaultKp = 2
  KpThreshold = 1
  PosErrorThreshold = 1
  StepNum = 2
  OverCurrentCntMax = 1
PROPERTIES
  EmergencyDamps
CHECK_DEADLOCK FALSE
