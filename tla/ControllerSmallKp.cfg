\* As ControllerMain, with a small kp (1) that the guard of set_gain lets pass.
\* The system stops for good after the destructor and in the emergency routine.
SPECIFICATION Spec
CONSTANTS
  Clients = {c1}
  Background = background
  NoThread = NoThread
  Ops = {"set_gain", "set_to_damping", "set_cmd", "destroy"}
  BackgroundSendRecv = TRUE
  ShutdownToPassive = TRUE
  PosMin = 0
  PosMax = 2
  Readings = {0, 1, 2, 3}
  Healths = {"ok"}
  CmdPos = {0, 2}
  SaneMax = 3
  Home = 0
  VelStep = 1
  MotionStep = 1
  KpValues = {0, 1, 2}
  DefaultKp = 2
  KpThreshold = 1
  PosErrorThreshold = 0
  StepNum = 2
  OverCurrentCntMax = 1
PROPERTIES
  NoJump
CHECK_DEADLOCK FALSE
