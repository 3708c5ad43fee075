\* send_recv_once after reset_to_home, with the loop disabled.
\* The system stops for good after the destructor and in the emergency routine.
SPECIFICATION Spec
CONSTANTS
  Clients = {c1}
  Background = background
  NoThread = NoThread
  Ops = {"reset_to_home", "send_recv_once"}
  BackgroundSendRecv = FALSE
  ShutdownToPassive = TRUE
  PosMin = 0
  PosMax = 2
  Readings = {0}
  Healths = {"ok"}
  CmdPos = {0}
  SaneMax = 3
  Home = 0
  VelStep = 1
  MotionStep = 1
  KpValues = {0, 2}
  DefaultKp = 2
  KpThreshold = 1
  PosErrorThreshold = 1
  StepNum = 1
  OverCurrentCntMax = 1
INVARIANTS
  OneSender
CHECK_DEADLOCK FALSE
