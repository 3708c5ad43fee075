\* Liveness of the calls and of the over-current protection, and the nesting of the
\* mutexes, with every method of both controllers.
\* The system stops for good after the destructor and in the emergency routine.
SPECIFICATION FairSpec
CONSTANTS
  Clients = {c1}
  Background = background
  NoThread = NoThread
  Ops = {"set_gain", "reset_to_home", "set_to_damping", "set_cmd", "recv_once", "send_recv_once", "destroy"}
  BackgroundSendRecv = TRUE
  ShutdownToPassive = TRUE
  PosMin = 0
  PosMax = 2
  Readings = {0, 1}
  Healths = {"ok", "over_current"}
  CmdPos = {1}
  SaneMax = 3
  Home = 0
  VelStep = 1
  MotionStep = 1
  KpValues = {0, 2}
  DefaultKp = 2
  KpThreshold = 1
  PosErrorThreshold = 0
  StepNum = 1
  OverCurrentCntMax = 1
INVARIANTS
  NoWaitCycle
PROPERTIES
  MethodsReturn
  OverCurrentIsCaught
CHECK_DEADLOCK FALSE
