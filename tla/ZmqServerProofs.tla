--------------------------- MODULE ZmqServerProofs ---------------------------
(* Theorems about ZmqServer for any clients, poses and number of interrupts.  *)
EXTENDS ZmqServer, TLAPS

-----------------------------------------------------------------------------
(* Type correctness *)

\* The controllers the server makes.
LEMMA NewControllerType == NewController \in ControllerType /\ NewController.alive
BY DEF NewController, ControllerType

\* A controller that is homed is a controller.
LEMMA HomedType ==
  ASSUME NEW p \in HomePoses
  PROVE  Homed(p) \in ControllerType /\ Homed(p).alive
BY DEF Homed, ControllerType

\* A reset_to_home that raises leaves a controller, with the same past but for the pose.
LEMMA ResetHalfType ==
  ASSUME TypeOK, ResetHalf
  PROVE  /\ controller' \in ControllerType
         /\ controller'.alive = controller.alive /\ controller'.homed = controller.homed
         /\ controller'.fresh = controller.fresh /\ controller'.astray = "raised"
<1>1. PICK p \in HomePoses \cup {controller.commanded} :
        controller' = [controller EXCEPT !.commanded = p, !.astray = "raised"]
  BY DEF ResetHalf
<1>2. controller \in ControllerType
  BY DEF TypeOK
<1>3. p \in Poses \cup HomePoses \cup {NoPose}
  BY <1>2 DEF ControllerType
<1> QED
  BY <1>1, <1>2, <1>3 DEF ControllerType

\* The types hold at the start.
LEMMA TypeInit == Init => TypeOK
<1> SUFFICES ASSUME Init PROVE TypeOK
  OBVIOUS
<1>1. /\ ask \in [Clients -> Cmds \cup {"none"}]
      /\ sock \in [Clients -> Nat] /\ dangling \in [Clients -> BOOLEAN]
  BY DEF Init
<1> QED
  BY <1>1, NewControllerType DEF Init, TypeOK

\* A packet a client sends is a request, one the server sends a reply.
LEMMA SendType ==
  ASSUME TypeOK, NEW c \in Clients, NEW cmd \in Cmds, NEW pose \in Poses \cup {NoPose},
         Send(c, cmd, pose)
  PROVE  requests' \subseteq Requests /\ ask' \in [Clients -> Cmds \cup {"none"}]
BY DEF Send, TypeOK, Requests

\* A reply answers the request at hand and ends its handling.
LEMMA ReplyType ==
  ASSUME TypeOK, NEW ok \in BOOLEAN, pc = "handle", Reply(ok)
  PROVE  /\ replies' \subseteq Replies /\ msg' = NoMsg /\ pc' = "poll"
         /\ UNCHANGED <<ask, sock, dangling, requests>>
BY DEF Reply, Answer, TypeOK, Requests, Replies, clientVars

\* What a handler leaves of the types: its request is replied to.
LEMMA HandlerType ==
  ASSUME TypeOK, NEW ok \in BOOLEAN, pc = "handle", Reply(ok),
         lastEefCmd' \in Poses \cup HomePoses \cup {NoPose},
         isResetToHome' \in BOOLEAN, controller' \in ControllerType
  PROVE  TypeOK'
BY ReplyType DEF TypeOK

\* Every step keeps the types.
LEMMA TypeStep == TypeOK /\ [Next]_vars => TypeOK'
<1> SUFFICES ASSUME TypeOK, [Next]_vars PROVE TypeOK'
  OBVIOUS
<1>1. ASSUME NEW c \in Clients, CallMethod(c) PROVE TypeOK'
  <2>1. PICK cmd \in Cmds, pose \in Poses \cup {NoPose} : Send(c, cmd, pose)
    BY <1>1 DEF CallMethod
  <2> QED
    BY <1>1, <2>1, SendType DEF CallMethod, TypeOK, serverVars
<1>2. ASSUME NEW c \in Clients, Interrupt(c) PROVE TypeOK'
  BY <1>2 DEF Interrupt, TypeOK, serverVars
<1>3. ASSUME NEW c \in Clients, Reconnect(c) PROVE TypeOK'
  BY <1>3 DEF Reconnect, TypeOK, serverVars
<1>4. ASSUME NEW c \in Clients, Receive(c) PROVE TypeOK'
  <2>1. /\ UNCHANGED <<sock, dangling, serverVars>>
        /\ replies' \subseteq replies
        /\ Send(c, "GET_STATE", NoPose)
           \/ (ask' = [ask EXCEPT ![c] = "none"] /\ UNCHANGED requests)
    BY <1>4 DEF Receive
  <2>2. requests' \subseteq Requests /\ ask' \in [Clients -> Cmds \cup {"none"}]
    BY <2>1, SendType DEF TypeOK, Cmds
  <2> QED
    BY <2>1, <2>2 DEF TypeOK, serverVars
<1>5. ASSUME NEW c \in Clients, Poll(c) PROVE TypeOK'
  BY <1>5, NoMsgAssumption DEF Poll, Of, TypeOK, clientVars
<1>6. ASSUME Construct PROVE TypeOK'
  BY <1>6, NewControllerType DEF Construct, TypeOK, clientVars
<1>7. ASSUME ConstructFails PROVE TypeOK'
  BY <1>7 DEF ConstructFails, TypeOK, clientVars
<1>8. ASSUME Timeout PROVE TypeOK'
  BY <1>8 DEF Timeout, TypeOK, clientVars
<1>9. ASSUME TimeoutReset PROVE TypeOK'
  <2>1. CASE pc' = "poll" /\ ResetHalf
    BY <1>9, <2>1, ResetHalfType DEF TimeoutReset, TypeOK, clientVars
  <2>2. CASE pc' = "timeout_damp" /\ \E p \in HomePoses : controller' = Homed(p)
    BY <1>9, <2>2, HomedType DEF TimeoutReset, TypeOK, clientVars
  <2> QED
    BY <1>9, <2>1, <2>2 DEF TimeoutReset
<1>10. ASSUME TimeoutDamp PROVE TypeOK'
  BY <1>10 DEF TimeoutDamp, TypeOK, NoController, NewController, ControllerType, clientVars
<1>11. ASSUME HandleGet PROVE TypeOK'
  BY <1>11, HandlerType DEF HandleGet, Handling, TypeOK
<1>12. ASSUME HandleSetGain PROVE TypeOK'
  BY <1>12, HandlerType DEF HandleSetGain, Handling, TypeOK
<1>13. ASSUME HandleSetToDamping PROVE TypeOK'
  BY <1>13, HandlerType DEF HandleSetToDamping, Handling, TypeOK, ControllerType
<1>14. ASSUME HandleResetToHome PROVE TypeOK'
  <2>1. PICK p \in HomePoses : controller' = Homed(p) /\ lastEefCmd' = p
    BY <1>14 DEF HandleResetToHome
  <2>2. controller' \in ControllerType
    BY <2>1, HomedType
  <2> QED
    BY <1>14, <2>1, <2>2, HandlerType DEF HandleResetToHome, Handling
<1>15. ASSUME HandleResetToHomeFails PROVE TypeOK'
  BY <1>15, HandlerType, ResetHalfType DEF HandleResetToHomeFails, Handling, TypeOK
<1>16. ASSUME SetEePoseRefused PROVE TypeOK'
  BY <1>16, HandlerType DEF SetEePoseRefused, Handling, TypeOK
<1>17. ASSUME SetEePoseFarFromHome PROVE TypeOK'
  BY <1>17, HandlerType DEF SetEePoseFarFromHome, Refused, Handling, TypeOK, Requests,
                            ControllerType
<1>18. ASSUME SetEePose PROVE TypeOK'
  BY <1>18, HandlerType DEF SetEePose, Handling, TypeOK, Requests, ControllerType
<1>19. CASE UNCHANGED vars
  BY <1>19 DEF vars, clientVars, serverVars, TypeOK
<1>20. ASSUME SetEePoseFails PROVE TypeOK'
  BY <1>20, HandlerType DEF SetEePoseFails, Handling, TypeOK, Requests, ControllerType
<1> QED
  BY <1>1, <1>2, <1>3, <1>4, <1>5, <1>6, <1>7, <1>8, <1>9, <1>10, <1>11, <1>12, <1>13,
     <1>14, <1>15, <1>16, <1>17, <1>18, <1>19, <1>20 DEF Next, Handle

\* Every variable keeps its type, and every request is handled with a controller.
THEOREM TypeCorrect == Spec => []TypeOK
<1>1. Init => TypeOK
  BY TypeInit
<1>2. TypeOK /\ [Next]_vars => TypeOK'
  BY TypeStep
<1> QED
  BY <1>1, <1>2, PTL DEF Spec

-----------------------------------------------------------------------------
(* What the server remembers of the controller it has *)

\* Commands are of this controller, a constructor runs only without one, and
\* reset_to_home is on record as long as nothing followed it.
Memory ==
  /\ lastEefCmd # NoPose => controller.alive /\ controller.homed
  /\ pc = "construct" => ~controller.alive
  /\ controller.fresh /\ pc # "timeout_damp" => isResetToHome

\* The server remembers nothing at the start.
LEMMA MemoryInit == Init => Memory
BY DEF Init, Memory, NewController

\* Every step keeps its memory true to its controller.
LEMMA MemoryStep == TypeOK /\ Memory /\ [Next]_vars => Memory'
<1> SUFFICES ASSUME TypeOK, Memory, [Next]_vars PROVE Memory'
  OBVIOUS
<1>1. CASE UNCHANGED serverVars
  BY <1>1 DEF Memory, serverVars
<1>2. ASSUME NEW c \in Clients, Poll(c) PROVE Memory'
  BY <1>2 DEF Poll, Memory
<1>3. CASE Construct
  BY <1>3 DEF Construct, Memory, NewController
<1>4. CASE ConstructFails
  BY <1>4 DEF ConstructFails, Memory
<1>5. CASE Timeout
  BY <1>5 DEF Timeout, Memory
<1>6. CASE TimeoutReset
  BY <1>6, ResetHalfType DEF TimeoutReset, Memory, Homed
<1>7. CASE TimeoutDamp
  BY <1>7 DEF TimeoutDamp, Memory, NoController, NewController
<1>8. CASE HandleGet
  BY <1>8 DEF HandleGet, Handling, Reply, Memory
<1>9. CASE HandleSetGain
  BY <1>9 DEF HandleSetGain, Handling, Reply, Memory
<1>10. CASE HandleSetToDamping
  BY <1>10 DEF HandleSetToDamping, Handling, Reply, Memory, TypeOK, ControllerType
<1>11. CASE HandleResetToHome
  BY <1>11 DEF HandleResetToHome, Handling, Reply, Memory, Homed
<1>12. CASE HandleResetToHomeFails
  BY <1>12, ResetHalfType DEF HandleResetToHomeFails, Handling, Reply, Memory
<1>13. CASE SetEePoseRefused
  BY <1>13 DEF SetEePoseRefused, Handling, Reply, Memory
<1>14. CASE SetEePoseFarFromHome
  BY <1>14 DEF SetEePoseFarFromHome, Refused, Handling, NearLast, Reply, Memory, TypeOK,
               ControllerType
<1>15. CASE SetEePose
  BY <1>15 DEF SetEePose, Handling, NearLast, Reply, Memory, TypeOK, ControllerType
<1>16. ASSUME NEW c \in Clients, CallMethod(c) \/ Interrupt(c) \/ Reconnect(c) \/ Receive(c)
       PROVE  UNCHANGED serverVars
  BY <1>16 DEF CallMethod, Interrupt, Reconnect, Receive
<1>17. UNCHANGED vars => UNCHANGED serverVars
  BY DEF vars
<1>18. CASE SetEePoseFails
  BY <1>18 DEF SetEePoseFails, Handling, NearLast, Reply, Memory, TypeOK, ControllerType
<1> QED
  BY <1>1, <1>2, <1>3, <1>4, <1>5, <1>6, <1>7, <1>8, <1>9, <1>10, <1>11, <1>12, <1>13,
     <1>14, <1>15, <1>16, <1>17, <1>18 DEF Next, Handle

\* The server remembers what was done to the controller it has.
THEOREM MemoryCorrect == Spec => [](TypeOK /\ Memory)
<1>1. Init => TypeOK /\ Memory
  BY TypeInit, MemoryInit
<1>2. TypeOK /\ Memory /\ [Next]_vars => TypeOK' /\ Memory'
  BY TypeStep, MemoryStep
<1> QED
  BY <1>1, <1>2, PTL DEF Spec

\* Only an accepted SET_EE_POSE commands a pose.
LEMMA OnlySetEePoseCommands ==
  ASSUME TypeOK, [Next]_vars, PoseCommanded
  PROVE  SetEePose
<1>1. pc = "handle" /\ msg.cmd = "SET_EE_POSE" /\ controller'.commanded # controller.commanded
  BY DEF PoseCommanded
<1>2. controller' # controller
  BY <1>1
<1>3. ~ UNCHANGED vars
  BY <1>2 DEF vars, serverVars
<1>4. ASSUME NEW c \in Clients
      PROVE  ~(CallMethod(c) \/ Interrupt(c) \/ Reconnect(c) \/ Receive(c) \/ Poll(c))
  BY <1>2 DEF CallMethod, Interrupt, Reconnect, Receive, Poll, serverVars
<1>5. ~(Construct \/ ConstructFails \/ Timeout \/ TimeoutReset \/ TimeoutDamp)
  BY <1>1 DEF Construct, ConstructFails, Timeout, TimeoutReset, TimeoutDamp
<1>6. ~(HandleGet \/ HandleSetGain \/ HandleSetToDamping \/ HandleResetToHome
        \/ HandleResetToHomeFails)
  BY <1>1 DEF HandleGet, HandleSetGain, HandleSetToDamping, HandleResetToHome,
              HandleResetToHomeFails, Handling
<1>7. ~(SetEePoseRefused \/ SetEePoseFarFromHome \/ SetEePoseFails)
  BY <1>1, <1>2 DEF SetEePoseRefused, SetEePoseFarFromHome, SetEePoseFails, Refused, TypeOK,
                    ControllerType
<1> QED
  BY <1>3, <1>4, <1>5, <1>6, <1>7 DEF Next, Handle

\* A controller gets a pose only after a reset_to_home that completed on it, whatever
\* timeouts and failed resets came before.
THEOREM PoseAfterHome == Spec => HomedBeforePose
<1>1. TypeOK /\ Memory /\ [Next]_vars => [PoseCommanded => controller.homed]_vars
  <2> SUFFICES ASSUME TypeOK, Memory, [Next]_vars, PoseCommanded PROVE controller.homed
    OBVIOUS
  <2>1. SetEePose
    BY OnlySetEePoseCommands
  <2> QED
    BY <2>1 DEF SetEePose, NearLast, Memory
<1> QED
  BY <1>1, MemoryCorrect, PTL DEF Spec, HomedBeforePose

\* The first pose commanded after reset_to_home is near home, however many poses were
\* refused in between.
THEOREM FirstPose == Spec => FirstPoseNearHome
<1>1. TypeOK /\ Memory /\ [Next]_vars
      => [PoseCommanded /\ controller.fresh => Dist(controller'.commanded, Home) <= Jump]_vars
  <2> SUFFICES ASSUME TypeOK, Memory, [Next]_vars, PoseCommanded, controller.fresh
               PROVE  Dist(controller'.commanded, Home) <= Jump
    OBVIOUS
  <2>1. SetEePose
    BY OnlySetEePoseCommands
  <2>2. isResetToHome
    BY <2>1 DEF SetEePose, Handling, Memory
  <2>3. controller'.commanded = msg.pose
    BY <2>1 DEF SetEePose, TypeOK, ControllerType
  <2> QED
    BY <2>1, <2>2, <2>3 DEF SetEePose, NearHome
<1> QED
  BY <1>1, MemoryCorrect, PTL DEF Spec, FirstPoseNearHome

-----------------------------------------------------------------------------
(* The last command *)

\* Unless a refused pose or a call that raised parted them, what the first check compares
\* a pose with is what the controller was last commanded.
Reference == lastEefCmd # NoPose /\ pc # "timeout_damp" /\ controller.astray = "no" =>
               controller.commanded = lastEefCmd

\* Every step keeps it.
LEMMA ReferenceStep == TypeOK /\ Memory /\ Reference /\ [Next]_vars => Reference'
<1> SUFFICES ASSUME TypeOK, Memory, Reference, [Next]_vars PROVE Reference'
  OBVIOUS
<1>1. CASE UNCHANGED vars
  BY <1>1 DEF vars, serverVars, Reference
<1>2. ASSUME NEW c \in Clients, CallMethod(c) \/ Interrupt(c) \/ Reconnect(c) \/ Receive(c)
      PROVE  Reference'
  BY <1>2 DEF CallMethod, Interrupt, Reconnect, Receive, serverVars, Reference
<1>3. ASSUME NEW c \in Clients, Poll(c) PROVE Reference'
  BY <1>3 DEF Poll, Reference
<1>4. CASE Construct
  BY <1>4 DEF Construct, Memory, Reference
<1>5. CASE ConstructFails \/ Timeout \/ TimeoutDamp
  BY <1>5 DEF ConstructFails, Timeout, TimeoutDamp, Reference
<1>6. CASE TimeoutReset
  BY <1>6, ResetHalfType DEF TimeoutReset, Reference
<1>7. CASE HandleGet \/ HandleSetGain \/ SetEePoseRefused
  BY <1>7 DEF HandleGet, HandleSetGain, SetEePoseRefused, Handling, Reply, Reference
<1>8. CASE HandleSetToDamping
  BY <1>8 DEF HandleSetToDamping, Handling, Reply, Reference, TypeOK, ControllerType
<1>9. CASE HandleResetToHome
  BY <1>9 DEF HandleResetToHome, Homed, Reference
<1>10. CASE HandleResetToHomeFails
  BY <1>10, ResetHalfType DEF HandleResetToHomeFails, Reference
<1>11. CASE SetEePose
  BY <1>11 DEF SetEePose, Reference, TypeOK, ControllerType
<1>12. CASE SetEePoseFarFromHome \/ SetEePoseFails
  BY <1>12 DEF SetEePoseFarFromHome, SetEePoseFails, Refused, Reference, TypeOK, ControllerType
<1> QED
  BY <1>1, <1>2, <1>3, <1>4, <1>5, <1>6, <1>7, <1>8, <1>9, <1>10, <1>11, <1>12 DEF Next, Handle

\* A pose commanded is near the one commanded before it, whatever timeouts, failed
\* constructions, homing, damping and interrupts come between, unless last_eef_cmd and
\* the arm were parted by a refused pose or a call that raised.
THEOREM PoseNearLast == Spec => NearInStep
<1>1. Init => Reference
  BY DEF Init, Reference
<1>2. TypeOK /\ Memory /\ Reference /\ [Next]_vars
      => [PoseCommanded /\ controller.astray = "no" =>
            Dist(controller'.commanded, controller.commanded) <= Jump]_vars
  <2> SUFFICES ASSUME TypeOK, Memory, Reference, [Next]_vars, PoseCommanded,
                      controller.astray = "no"
               PROVE  Dist(controller'.commanded, controller.commanded) <= Jump
    OBVIOUS
  <2>1. SetEePose
    BY OnlySetEePoseCommands
  <2>2. controller'.commanded = msg.pose
    BY <2>1 DEF SetEePose, TypeOK, ControllerType
  <2>3. controller.commanded = lastEefCmd
    BY <2>1 DEF SetEePose, Handling, NearLast, Reference
  <2> QED
    BY <2>1, <2>2, <2>3 DEF SetEePose, NearLast
<1> QED
  BY <1>1, <1>2, ReferenceStep, MemoryCorrect, PTL DEF Spec, NearInStep

-----------------------------------------------------------------------------
(* Packets under way *)

Packets == requests \cup replies \cup ({msg} \ {NoMsg})

\* The packet belongs to the socket its client has now.
Current(p) == p.sock = sock[p.client]

\* No socket is from the future; a packet of the current socket is about what its
\* client asks, unless the client gave up; and there is one such packet at most.
InFlight ==
  /\ \A p \in Packets :
       /\ p.sock <= sock[p.client]
       /\ Current(p) => p.cmd = ask[p.client] \/ dangling[p.client]
  /\ \A p, q \in requests : Current(p) /\ Current(q) /\ p.client = q.client => p = q
  /\ \A p, q \in replies : Current(p) /\ Current(q) /\ p.client = q.client => p = q
  /\ \A p \in requests, q \in replies : Current(p) /\ Current(q) => p.client # q.client
  /\ msg # NoMsg /\ Current(msg) =>
       \A p \in requests \cup replies : Current(p) => p.client # msg.client

\* No packet is under way at the start.
LEMMA InFlightInit == Init => InFlight
BY DEF Init, InFlight, Packets

\* Packets have a client, a socket and a command.
LEMMA PacketType ==
  ASSUME TypeOK, NEW p \in Packets
  PROVE  p.client \in Clients /\ p.sock \in Nat /\ p.cmd \in Cmds
BY DEF TypeOK, Packets, Requests, Replies

\* A step that touches no packet and no client keeps InFlight.
LEMMA SameInFlight ==
  ASSUME InFlight, UNCHANGED <<clientVars, requests, replies, msg>>
  PROVE  InFlight'
BY DEF InFlight, Packets, Current, clientVars

\* A client with nothing to wait for has no packet of its current socket under way.
LEMMA QuietClient ==
  ASSUME TypeOK, InFlight, NEW c \in Clients, ask[c] = "none", ~dangling[c],
         NEW p \in Packets, p.client = c
  PROVE  ~Current(p)
BY PacketType DEF InFlight, Cmds

\* So it may send.
LEMMA SendInFlight ==
  ASSUME TypeOK, NEW c \in Clients, NEW cmd \in Cmds, NEW pose \in Poses \cup {NoPose},
         Send(c, cmd, pose), UNCHANGED <<sock, dangling, msg>>,
         replies' \subseteq replies, InFlight,
         \A p \in requests \cup replies' \cup ({msg} \ {NoMsg}) : p.client = c => ~Current(p)
  PROVE  InFlight'
<1> DEFINE new == [client |-> c, sock |-> sock[c], cmd |-> cmd, pose |-> pose]
<1>1. requests' = requests \cup {new} /\ ask' = [ask EXCEPT ![c] = cmd]
  BY DEF Send
<1>2. new.client = c /\ new.sock = sock[c] /\ new.cmd = cmd
  OBVIOUS
<1>3. ask'[c] = cmd /\ \A d \in Clients \ {c} : ask'[d] = ask[d]
  BY <1>1 DEF TypeOK
<1>4. sock[c] \in Nat
  BY DEF TypeOK
<1> HIDE DEF new
<1>5. \A p \in Packets' : p = new \/ p \in requests \cup replies' \cup ({msg} \ {NoMsg})
  BY <1>1 DEF Packets
<1>6. \A p : Current(p)' <=> Current(p)
  BY DEF Current
<1>7. ASSUME NEW p \in Packets'
      PROVE  /\ p.sock <= sock'[p.client]
             /\ Current(p)' => p.cmd = ask'[p.client] \/ dangling'[p.client]
  <2>1. CASE p = new
    BY <2>1, <1>2, <1>3, <1>4
  <2>2. CASE p \in requests \cup replies' \cup ({msg} \ {NoMsg})
    <3>1. p \in Packets
      BY <2>2 DEF Packets
    <3>2. p.sock <= sock[p.client] /\ (Current(p) => p.cmd = ask[p.client] \/ dangling[p.client])
      BY <3>1 DEF InFlight
    <3>3. p.client \in Clients
      BY <3>1, PacketType
    <3> QED
      BY <2>2, <3>2, <3>3, <1>3, <1>6
  <2> QED
    BY <1>5, <2>1, <2>2
<1>8. \A p, q \in requests' : Current(p)' /\ Current(q)' /\ p.client = q.client => p = q
  BY <1>1, <1>2, <1>6 DEF InFlight
<1>9. \A p, q \in replies' : Current(p)' /\ Current(q)' /\ p.client = q.client => p = q
  BY <1>6 DEF InFlight
<1>10. \A p \in requests', q \in replies' : Current(p)' /\ Current(q)' => p.client # q.client
  BY <1>1, <1>2, <1>6 DEF InFlight
<1>11. msg' # NoMsg /\ Current(msg)' =>
         \A p \in requests' \cup replies' : Current(p)' => p.client # msg'.client
  BY <1>1, <1>2, <1>6 DEF InFlight
<1> QED
  BY <1>7, <1>8, <1>9, <1>10, <1>11 DEF InFlight

\* A reply takes the place of its request.
LEMMA ReplyInFlight ==
  ASSUME TypeOK, InFlight, NEW ok \in BOOLEAN, pc = "handle", Reply(ok)
  PROVE  InFlight'
<1>1. msg # NoMsg /\ msg \in Packets
  BY DEF TypeOK, Packets
<1>2. /\ UNCHANGED <<ask, sock, dangling, requests>> /\ msg' = NoMsg
      /\ replies' = IF Current(msg) THEN replies \cup {Answer(ok)} ELSE replies
  BY DEF Reply, clientVars, Current
<1>3. \A p : Current(p)' <=> Current(p)
  BY <1>2 DEF Current
<1>4. /\ Answer(ok).client = msg.client /\ Answer(ok).sock = msg.sock
      /\ Answer(ok).cmd = msg.cmd
  BY DEF Answer
<1>5. Current(Answer(ok)) <=> Current(msg)
  BY <1>4 DEF Current
<1>6. \A p \in Packets' : p \in Packets \/ (p = Answer(ok) /\ Current(msg))
  BY <1>2 DEF Packets
<1>7. ASSUME NEW p \in Packets'
      PROVE  /\ p.sock <= sock'[p.client]
             /\ Current(p)' => p.cmd = ask'[p.client] \/ dangling'[p.client]
  BY <1>1, <1>2, <1>3, <1>4, <1>5, <1>6 DEF InFlight
<1>8. \A p, q \in requests' : Current(p)' /\ Current(q)' /\ p.client = q.client => p = q
  BY <1>2, <1>3 DEF InFlight
<1>9. \A p, q \in replies' : Current(p)' /\ Current(q)' /\ p.client = q.client => p = q
  BY <1>1, <1>2, <1>3, <1>4 DEF InFlight
<1>10. \A p \in requests', q \in replies' : Current(p)' /\ Current(q)' => p.client # q.client
  BY <1>1, <1>2, <1>3, <1>4 DEF InFlight
<1> QED
  BY <1>2, <1>7, <1>8, <1>9, <1>10 DEF InFlight

\* Every step keeps InFlight.
LEMMA InFlightStep == TypeOK /\ InFlight /\ [Next]_vars => InFlight'
<1> SUFFICES ASSUME TypeOK, InFlight, [Next]_vars PROVE InFlight'
  OBVIOUS
<1>1. ASSUME NEW c \in Clients, CallMethod(c) PROVE InFlight'
  <2>1. /\ ask[c] = "none" /\ ~dangling[c]
        /\ UNCHANGED <<sock, dangling, replies, msg>>
    BY <1>1 DEF CallMethod, serverVars
  <2>2. PICK cmd \in Cmds, pose \in Poses \cup {NoPose} : Send(c, cmd, pose)
    BY <1>1 DEF CallMethod
  <2>3. \A p \in requests \cup replies' \cup ({msg} \ {NoMsg}) : p.client = c => ~Current(p)
    BY <2>1, QuietClient DEF Packets
  <2> QED
    BY <2>1, <2>2, <2>3, SendInFlight
<1>2. ASSUME NEW c \in Clients, Interrupt(c) PROVE InFlight'
  <2>1. /\ dangling' = [dangling EXCEPT ![c] = TRUE] /\ ask' = [ask EXCEPT ![c] = "none"]
        /\ UNCHANGED <<sock, requests, replies, msg>>
    BY <1>2 DEF Interrupt, serverVars
  <2>2. Packets' = Packets /\ \A p : Current(p)' <=> Current(p)
    BY <2>1 DEF Packets, Current
  <2>3. ASSUME NEW p \in Packets, Current(p)
        PROVE  p.cmd = ask'[p.client] \/ dangling'[p.client]
    BY <2>1, <2>3, PacketType DEF InFlight, TypeOK
  <2> QED
    BY <2>1, <2>2, <2>3 DEF InFlight
<1>3. ASSUME NEW c \in Clients, Reconnect(c) PROVE InFlight'
  <2>1. /\ sock' = [sock EXCEPT ![c] = @ + 1]
        /\ dangling' = [dangling EXCEPT ![c] = FALSE]
        /\ requests' \subseteq requests /\ replies' \subseteq replies
        /\ UNCHANGED <<ask, msg>>
    BY <1>3 DEF Reconnect, serverVars
  <2>2. ASSUME NEW p \in Packets
        PROVE  /\ p.sock <= sock'[p.client]
               /\ Current(p)' => Current(p) /\ p.client # c
    <3>1. p.client \in Clients /\ p.sock \in Nat /\ p.sock <= sock[p.client]
      BY PacketType DEF InFlight
    <3>2. sock[p.client] \in Nat
      BY <3>1 DEF TypeOK
    <3>3. p.client # c => sock'[p.client] = sock[p.client]
      BY <2>1, <3>1 DEF TypeOK
    <3>4. sock'[c] = sock[c] + 1
      BY <2>1 DEF TypeOK
    <3> QED
      BY <3>1, <3>2, <3>3, <3>4 DEF Current
  <2>3. Packets' \subseteq Packets
    BY <2>1 DEF Packets
  <2>4. ASSUME NEW p \in Packets, Current(p)'
        PROVE  p.cmd = ask'[p.client] \/ dangling'[p.client]
    <3>1. p.client \in Clients /\ p.client # c /\ Current(p)
      BY <2>2, <2>4, PacketType
    <3>2. p.cmd = ask[p.client] \/ dangling[p.client]
      BY <3>1 DEF InFlight
    <3> QED
      BY <2>1, <3>1, <3>2 DEF TypeOK
  <2>5. \A p, q \in requests' : Current(p)' /\ Current(q)' /\ p.client = q.client => p = q
    BY <2>1, <2>2 DEF InFlight, Packets
  <2>6. \A p, q \in replies' : Current(p)' /\ Current(q)' /\ p.client = q.client => p = q
    BY <2>1, <2>2 DEF InFlight, Packets
  <2>7. \A p \in requests', q \in replies' : Current(p)' /\ Current(q)' => p.client # q.client
    BY <2>1, <2>2 DEF InFlight, Packets
  <2>8. msg' # NoMsg /\ Current(msg)' =>
          \A p \in requests' \cup replies' : Current(p)' => p.client # msg'.client
    <3>1. msg # NoMsg /\ Current(msg)' => Current(msg)
      <4> SUFFICES ASSUME msg # NoMsg, Current(msg)' PROVE Current(msg)
        OBVIOUS
      <4>1. msg \in Packets /\ msg' = msg
        BY <2>1 DEF Packets
      <4>2. msg.sock = sock'[msg.client]
        BY <4>1 DEF Current
      <4>3. sock'[msg.client] = msg.sock => Current(msg)
        BY <2>2, <4>1 DEF Current
      <4> QED
        BY <4>2, <4>3
    <3>2. \A p \in requests \cup replies : Current(p)' => Current(p)
      BY <2>2 DEF Packets
    <3> QED
      BY <2>1, <3>1, <3>2 DEF InFlight
  <2> QED
    BY <2>2, <2>3, <2>4, <2>5, <2>6, <2>7, <2>8 DEF InFlight
<1>4. ASSUME NEW c \in Clients, Receive(c) PROVE InFlight'
  <2>1. PICK r \in replies :
          /\ r.client = c /\ r.sock = sock[c] /\ replies' = replies \ {r}
          /\ Send(c, "GET_STATE", NoPose)
             \/ (ask' = [ask EXCEPT ![c] = "none"] /\ UNCHANGED requests)
    BY <1>4 DEF Receive
  <2>2. UNCHANGED <<sock, dangling, msg>>
    BY <1>4 DEF Receive, serverVars
  <2>3. Current(r)
    BY <2>1 DEF Current
  <2>4. \A p \in requests \cup replies' \cup ({msg} \ {NoMsg}) : p.client = c => ~Current(p)
    BY <2>1, <2>3 DEF InFlight
  <2>5. CASE Send(c, "GET_STATE", NoPose)
    BY <2>1, <2>2, <2>4, <2>5, SendInFlight DEF Cmds
  <2>6. CASE ask' = [ask EXCEPT ![c] = "none"] /\ UNCHANGED requests
    <3>1. Packets' = requests \cup replies' \cup ({msg} \ {NoMsg}) /\ Packets' \subseteq Packets
      BY <2>1, <2>2, <2>6 DEF Packets
    <3>2. \A p : Current(p)' <=> Current(p)
      BY <2>2 DEF Current
    <3>3. ASSUME NEW p \in Packets', Current(p)
          PROVE  p.cmd = ask'[p.client] \/ dangling'[p.client]
      <4>1. p.client # c /\ p.client \in Clients
        BY <2>4, <3>1, <3>3, PacketType
      <4> QED
        BY <2>2, <2>6, <3>1, <3>3, <4>1 DEF InFlight, TypeOK
    <3> QED
      BY <2>1, <2>2, <2>6, <3>1, <3>2, <3>3 DEF InFlight
  <2> QED
    BY <2>1, <2>5, <2>6
<1>5. ASSUME NEW c \in Clients, Poll(c) PROVE InFlight'
  <2>1. PICK r \in requests : msg' = r /\ requests' = requests \ {r}
    BY <1>5 DEF Poll, Of
  <2>2. msg = NoMsg /\ UNCHANGED <<ask, sock, dangling, replies>>
    BY <1>5 DEF Poll, clientVars
  <2>3. Packets' \subseteq Packets /\ \A p : Current(p)' <=> Current(p)
    BY <2>1, <2>2 DEF Packets, Current
  <2> QED
    BY <2>1, <2>2, <2>3 DEF InFlight
<1>6. CASE Construct \/ ConstructFails \/ Timeout \/ TimeoutReset \/ TimeoutDamp
  BY <1>6, SameInFlight DEF Construct, ConstructFails, Timeout, TimeoutReset, TimeoutDamp
<1>7. CASE Handle
  <2>1. pc = "handle" /\ \E ok \in BOOLEAN : Reply(ok)
    BY <1>7 DEF Handle, Handling, HandleGet, HandleSetGain, HandleSetToDamping,
                HandleResetToHome, HandleResetToHomeFails, SetEePoseRefused,
                SetEePoseFarFromHome, SetEePoseFails, SetEePose
  <2> QED
    BY <2>1, ReplyInFlight
<1>8. CASE UNCHANGED vars
  BY <1>8, SameInFlight DEF vars, serverVars
<1> QED
  BY <1>1, <1>2, <1>3, <1>4, <1>5, <1>6, <1>7, <1>8 DEF Next

\* A reply that reaches the socket its client has answers what the client asks, however
\* many calls it gave up before: the client's assertions on the reply never fail.
THEOREM RepliesMatch == Spec => []ReplyMatches
<1>1. Init => TypeOK /\ InFlight
  BY TypeInit, InFlightInit
<1>2. TypeOK /\ InFlight /\ [Next]_vars => TypeOK' /\ InFlight'
  BY TypeStep, InFlightStep
<1>3. InFlight => ReplyMatches
  BY DEF InFlight, Packets, Current, ReplyMatches
<1> QED
  BY <1>1, <1>2, <1>3, PTL DEF Spec
=============================================================================
