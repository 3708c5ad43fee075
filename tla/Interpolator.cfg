\* Two clients of one controller, joint or cartesian.
SPECIFICATION Spec
CONSTANTS
  Clients = {c1, c2}
  NoThread = NoThread
  Kinds = {"joint", "cartesian"}
  MaxPos = 2
  CmdPos = {2}
  Home = 0
  StartTime = 3
  Ahead = 2
  Preview = 1
  Near = 2
  Window = 1
  HomeTime = 1
  MaxWaypoints = 2
  MaxTime = 4
INVARIANTS
  TypeOK
  LoopNeverThrows
  WaypointsReached
  VelWindowsOrdered
SYMMETRY ClientSymmetry
