\* Two clients, one of them interrupted once.  Pose 2 is near the pose 1 that
\* reset_to_home may end at, and far from home.
\* The system stops for good when the server loses a request.
SPECIFICATION FairSpec
CONSTANTS
  Clients = {c1, c2}
  Impatient = {c1}
  Poses = {1, 2}
  Home = 0
  HomePoses = {0, 1}
  Jump = 1
  NoPose = NoPose
  NoMsg = NoMsg
  MaxSockets = 2
INVARIANTS
  TypeOK
  ReplyMatches
PROPERTIES
  HomedBeforePose
  FirstPoseNearHome
  NearInStep
  Answered
CHECK_DEADLOCK FALSE
