\* A refused pose becomes the last command.
\* The system stops for good when the server loses a request.
SPECIFICATION Spec
CONSTANTS
  Clients = {c1}
  Impatient = {c1}
  Poses = {0, 1, 2, 3}
  Home = 0
  HomePoses = {0, 1}
  Jump = 1
  NoPose = NoPose
  NoMsg = NoMsg
  MaxSockets = 2
PROPERTIES
  NearLastCommand
CHECK_DEADLOCK FALSE
