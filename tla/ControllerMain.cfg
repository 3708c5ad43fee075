\* The cartesian controller with one client that calls every method: readings
\* beyond the limit (3), every class of bad reading, a wild command (4).  No gain,
\* also none of the ramp's, is small (0 < kp <= KpThreshold): see ControllerSmallKp.
\* The system stops for good after the destructor and in the emergency routine.
SPECIFICATION Spec
CONSTANTS
  Clients = {c1}
  Background = background
  NoThread = NoThread
  Ops = {"set_gain", "reset_to_home", "set_to_damping", "set_cmd", "destroy"}
  BackgroundSendRecv = TRUE
  ShutdownToPassive = TRUE
  PosMin = 0
  PosMax = 2
  Readings = {0, 1, 2, 3}
  Healths = {"ok", "over_current", "pos_error", "torque_error"}
  CmdPos = {0, 4}
  SaneMax = 3
  Home = 0
  VelStep = 1
  MotionStep = 1
  KpValues = {0, 4}
  DefaultKp = 4
  KpThreshold = 1
  PosErrorThreshold = 0
  StepNum = 2
  OverCurrentCntMax = 1
INVARIANTS
  TypeOK
  SanitizedSend
  DampedAtExit
  DampedBeforeFix
  RampReachesTarget
PROPERTIES
  SafeCommand
  StiffensNearby
CHECK_DEADLOCK FALSE
