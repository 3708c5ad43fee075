------------------------------ MODULE ZmqServer ------------------------------
(***************************************************************************)
(* Remote control of an arm: Arx5Server, one process with a REP socket and *)
(* one cartesian controller, and Arx5Client processes with a REQ socket    *)
(* each.  The server drops its controller when no request comes for a      *)
(* while and builds a new one for the next request; a client may be        *)
(* interrupted while it waits for a reply.                                 *)
(*                                                                         *)
(* A pose is a point of a line: the server only looks at distances.  The   *)
(* controller is what its methods do to the pose it is commanded, and      *)
(* whether they raise (ControllerBase has the refusals of set_gain).       *)
(***************************************************************************)
EXTENDS Integers

CONSTANTS
  Clients,     \* the client processes
  Poses,       \* poses a client may ask for
  Home,        \* get_home_pose()
  HomePoses,   \* the command in force when reset_to_home returns
  Jump,        \* the farthest a pose may be from the last one
  NoPose,      \* last_eef_cmd is None
  NoMsg,       \* the REP socket has no request to reply to
  Impatient,   \* clients whose user may interrupt them
  MaxSockets   \* bound of the model: sockets such a client opens

ASSUME PoseAssumption == /\ Poses \subseteq Int /\ HomePoses \subseteq Int
                         /\ Home \in Int /\ Jump \in Nat
                         /\ NoPose \notin Poses \cup HomePoses
ASSUME SocketAssumption == Impatient \subseteq Clients /\ MaxSockets \in Nat

Cmds == {"GET_STATE", "GET_GAIN", "SET_GAIN", "SET_EE_POSE", "RESET_TO_HOME", "SET_TO_DAMPING"}

Requests == [client : Clients, sock : Nat, cmd : Cmds, pose : Poses \cup {NoPose}]

Replies == [client : Clients, sock : Nat, cmd : Cmds, ok : BOOLEAN]

ASSUME NoMsgAssumption == NoMsg \notin Requests

VARIABLES
  ask,            \* the command each client waits for a reply to, or "none"
  sock,           \* which of its sockets each client uses
  dangling,       \* that socket waits for a reply its client gave up
  requests,       \* requests on the way to the server
  replies,        \* replies on the way to the clients
  pc,             \* where the server is
  msg,            \* the request it has received and not replied to
  lastEefCmd,     \* last_eef_cmd
  isResetToHome,  \* is_reset_to_home
  controller      \* arx5_cartesian_controller, with its history

clientVars == <<ask, sock, dangling>>
serverVars == <<pc, msg, lastEefCmd, isResetToHome, controller>>
vars == <<clientVars, requests, replies, serverVars>>

Dist(a, b) == IF a >= b THEN a - b ELSE b - a

\* The controller: whether it exists, whether reset_to_home completed on it, whether
\* no pose and no damping was commanded since, the pose last commanded, and whether
\* since then a pose was refused after it had become last_eef_cmd, or a call raised.
NewController == [alive |-> TRUE, homed |-> FALSE, fresh |-> FALSE, commanded |-> NoPose,
                  astray |-> "no"]

NoController == [NewController EXCEPT !.alive = FALSE]

Homed(p) == [alive |-> TRUE, homed |-> TRUE, fresh |-> TRUE, commanded |-> p, astray |-> "no"]

\* reset_to_home raises, before or after it has sent the arm on its way.
ResetHalf == \E p \in HomePoses \cup {controller.commanded} :
               controller' = [controller EXCEPT !.commanded = p, !.astray = "raised"]

Of(c, packets) == {p \in packets : p.client = c}

Init ==
  /\ ask = [c \in Clients |-> "none"] /\ sock = [c \in Clients |-> 1]
  /\ dangling = [c \in Clients |-> FALSE]
  /\ requests = {} /\ replies = {}
  /\ pc = "poll" /\ msg = NoMsg
  /\ lastEefCmd = NoPose /\ isResetToHome = FALSE /\ controller = NewController

-----------------------------------------------------------------------------
(* The client: send_recv and the methods on top of it. *)

Send(c, cmd, pose) ==
  /\ requests' = requests \cup {[client |-> c, sock |-> sock[c], cmd |-> cmd, pose |-> pose]}
  /\ ask' = [ask EXCEPT ![c] = cmd]

CallMethod(c) ==
  /\ ask[c] = "none" /\ ~dangling[c]
  /\ \E cmd \in Cmds, pose \in Poses \cup {NoPose} :
       (cmd = "SET_EE_POSE" <=> pose # NoPose) /\ Send(c, cmd, pose)
  /\ UNCHANGED <<sock, dangling, replies, serverVars>>

\* KeyboardInterrupt in recv_pyobj: the method gives up, the socket does not know.
Interrupt(c) ==
  /\ c \in Impatient /\ ask[c] # "none" /\ sock[c] < MaxSockets
  /\ ask' = [ask EXCEPT ![c] = "none"]
  /\ dangling' = [dangling EXCEPT ![c] = TRUE]
  /\ UNCHANGED <<sock, requests, replies, serverVars>>

\* Mutated form: the client goes on with the socket it has.
ReconnectSame(c) ==
  /\ ask[c] = "none" /\ dangling[c]
  /\ dangling' = [dangling EXCEPT ![c] = FALSE]
  /\ UNCHANGED <<ask, sock, requests, replies, serverVars>>

\* The next send raises a ZMQError, and send_recv opens a new socket.  The old one
\* takes its reply with it; its request may have left already.
Reconnect(c) ==
  /\ ask[c] = "none" /\ dangling[c]
  /\ sock' = [sock EXCEPT ![c] = @ + 1]
  /\ dangling' = [dangling EXCEPT ![c] = FALSE]
  /\ requests' \in {requests, requests \ Of(c, requests)}
  /\ replies' = replies \ Of(c, replies)
  /\ UNCHANGED <<ask, serverVars>>

\* reset_to_home and set_to_damping fetch the state when they are told "OK".
Receive(c) ==
  /\ ask[c] # "none"
  /\ \E r \in replies :
       /\ r.client = c /\ r.sock = sock[c]
       /\ replies' = replies \ {r}
       /\ IF r.ok /\ ask[c] \in {"RESET_TO_HOME", "SET_TO_DAMPING"}
          THEN Send(c, "GET_STATE", NoPose)
          ELSE ask' = [ask EXCEPT ![c] = "none"] /\ UNCHANGED requests
  /\ UNCHANGED <<sock, dangling, serverVars>>

-----------------------------------------------------------------------------
(* The server: polling, the timeout and the reconstruction of the controller. *)

\* A REP socket that owes a reply has nothing to receive.
Poll(c) ==
  /\ pc = "poll" /\ msg = NoMsg
  /\ \E r \in Of(c, requests) : msg' = r /\ requests' = requests \ {r}
  /\ pc' = IF controller.alive THEN "handle" ELSE "construct"
  /\ UNCHANGED <<clientVars, replies, lastEefCmd, isResetToHome, controller>>

Construct ==
  /\ pc = "construct"
  /\ controller' = NewController
  /\ pc' = "handle"
  /\ UNCHANGED <<clientVars, requests, replies, msg, lastEefCmd, isResetToHome>>

\* The constructor throws ("None of the motors are initialized"): no reply is sent.
ConstructFails ==
  /\ pc = "construct"
  /\ pc' = "poll"
  /\ UNCHANGED <<clientVars, requests, replies, msg, lastEefCmd, isResetToHome, controller>>

\* No request within no_cmd_timeout.
Timeout ==
  /\ pc = "poll" /\ msg = NoMsg /\ requests = {} /\ controller.alive
  /\ pc' = "timeout_reset"
  /\ UNCHANGED <<clientVars, requests, replies, msg, lastEefCmd, isResetToHome, controller>>

\* reset_to_home may raise, and the controller is kept until the next timeout.
TimeoutReset ==
  /\ pc = "timeout_reset"
  /\ \/ /\ pc' = "timeout_damp"
        /\ \E p \in HomePoses : controller' = Homed(p)
     \/ pc' = "poll" /\ ResetHalf
  /\ UNCHANGED <<clientVars, requests, replies, msg, lastEefCmd, isResetToHome>>

\* Mutated form: the last command outlives the controller.
TimeoutDampKeep ==
  /\ pc = "timeout_damp"
  /\ controller' = NoController
  /\ pc' = "poll"
  /\ UNCHANGED <<clientVars, requests, replies, msg, lastEefCmd, isResetToHome>>

TimeoutDamp ==
  /\ pc = "timeout_damp"
  /\ lastEefCmd' = NoPose
  /\ controller' = NoController
  /\ pc' = "poll"
  /\ UNCHANGED <<clientVars, requests, replies, msg, isResetToHome>>

-----------------------------------------------------------------------------
(* The server: the requests.  A handler runs with nothing else of the server,  *)
(* and the clients notice its reply only.                                      *)

Handling(cmds) == pc = "handle" /\ msg.cmd \in cmds

Answer(ok) == [client |-> msg.client, sock |-> msg.sock, cmd |-> msg.cmd, ok |-> ok]

\* Mutated forms: the handler goes on after its reply; a refusal is not replied to.
ReplyNoContinue(ok) ==
  /\ replies' = IF msg.sock = sock[msg.client] THEN replies \cup {Answer(ok)} ELSE replies
  /\ msg' = NoMsg
  /\ pc' = IF ok THEN "poll" ELSE "handle"
  /\ UNCHANGED <<clientVars, requests>>

ReplySuccess(ok) ==
  /\ replies' = IF ok THEN replies \cup {Answer(ok)} ELSE replies
  /\ msg' = NoMsg
  /\ pc' = "poll"
  /\ UNCHANGED <<clientVars, requests>>

\* A reply to a socket that is closed by now is dropped.
Reply(ok) ==
  /\ replies' = IF msg.sock = sock[msg.client] THEN replies \cup {Answer(ok)} ELSE replies
  /\ msg' = NoMsg
  /\ pc' = "poll"
  /\ UNCHANGED <<clientVars, requests>>

HandleGet ==
  /\ Handling({"GET_STATE", "GET_GAIN"})
  /\ Reply(TRUE)
  /\ UNCHANGED <<lastEefCmd, isResetToHome, controller>>

\* set_gain may be refused, which the server reports.
HandleSetGain ==
  /\ Handling({"SET_GAIN"})
  /\ \E ok \in BOOLEAN : Reply(ok)
  /\ UNCHANGED <<lastEefCmd, isResetToHome, controller>>

HandleSetToDamping ==
  /\ Handling({"SET_TO_DAMPING"})
  /\ controller' = [controller EXCEPT !.fresh = FALSE]
  /\ isResetToHome' = FALSE
  /\ Reply(TRUE)
  /\ UNCHANGED lastEefCmd

\* Mutated form: only the first reset_to_home sets the last command.
HandleResetToHomeKeeps ==
  /\ Handling({"RESET_TO_HOME"})
  /\ \E p \in HomePoses : /\ controller' = Homed(p)
                          /\ lastEefCmd' = IF lastEefCmd = NoPose THEN p ELSE lastEefCmd
  /\ isResetToHome' = TRUE
  /\ Reply(TRUE)

HandleResetToHome ==
  /\ Handling({"RESET_TO_HOME"})
  /\ \E p \in HomePoses : controller' = Homed(p) /\ lastEefCmd' = p
  /\ isResetToHome' = TRUE
  /\ Reply(TRUE)

HandleResetToHomeFails ==
  /\ Handling({"RESET_TO_HOME"})
  /\ ResetHalf
  /\ Reply(FALSE)
  /\ UNCHANGED <<lastEefCmd, isResetToHome>>

\* The first check of SET_EE_POSE.
NearLast == lastEefCmd # NoPose /\ Dist(msg.pose, lastEefCmd) <= Jump

\* The second check of SET_EE_POSE.
NearHome == isResetToHome => Dist(msg.pose, Home) <= Jump

SetEePoseRefused ==
  /\ Handling({"SET_EE_POSE"}) /\ ~NearLast
  /\ Reply(FALSE)
  /\ UNCHANGED <<lastEefCmd, isResetToHome, controller>>

Refused == [controller EXCEPT !.astray = IF @ = "no" THEN "refused" ELSE @]

\* Mutated form: the refusal ends the state after reset_to_home.
SetEePoseFarFromHomeClears ==
  /\ Handling({"SET_EE_POSE"}) /\ NearLast /\ ~NearHome
  /\ lastEefCmd' = msg.pose
  /\ controller' = Refused
  /\ isResetToHome' = FALSE
  /\ Reply(FALSE)

\* Refused by the second check, the pose is the last command all the same.
SetEePoseFarFromHome ==
  /\ Handling({"SET_EE_POSE"}) /\ NearLast /\ ~NearHome
  /\ lastEefCmd' = msg.pose
  /\ controller' = Refused
  /\ Reply(FALSE)
  /\ UNCHANGED isResetToHome

\* A call raises once the pose is the last command: the gripper position, before the
\* check against home, or set_eef_cmd, whose override_waypoint may throw.
SetEePoseFails ==
  /\ Handling({"SET_EE_POSE"}) /\ NearLast
  /\ lastEefCmd' = msg.pose
  /\ controller' = [controller EXCEPT !.astray = "raised"]
  /\ Reply(FALSE)
  /\ UNCHANGED isResetToHome

SetEePose ==
  /\ Handling({"SET_EE_POSE"}) /\ NearLast /\ NearHome
  /\ lastEefCmd' = msg.pose
  /\ controller' = [controller EXCEPT !.commanded = msg.pose, !.fresh = FALSE, !.astray = "no"]
  /\ isResetToHome' = FALSE
  /\ Reply(TRUE)

-----------------------------------------------------------------------------

Handle ==
  \/ HandleGet \/ HandleSetGain \/ HandleSetToDamping
  \/ HandleResetToHome \/ HandleResetToHomeFails
  \/ SetEePoseRefused \/ SetEePoseFarFromHome \/ SetEePoseFails \/ SetEePose

Next ==
  \/ \E c \in Clients : CallMethod(c) \/ Interrupt(c) \/ Reconnect(c) \/ Receive(c) \/ Poll(c)
  \/ Construct \/ ConstructFails \/ Timeout \/ TimeoutReset \/ TimeoutDamp
  \/ Handle

Spec == Init /\ [][Next]_vars

\* The server and the network run; a REP socket serves its peers in turn.
Fairness ==
  /\ WF_vars(Handle) /\ WF_vars(Construct \/ ConstructFails)
  /\ WF_vars(TimeoutReset) /\ WF_vars(TimeoutDamp)
  /\ \A c \in Clients : SF_vars(Poll(c)) /\ WF_vars(Receive(c))

FairSpec == Spec /\ Fairness

-----------------------------------------------------------------------------
(* Properties *)

ControllerType == [alive : BOOLEAN, homed : BOOLEAN, fresh : BOOLEAN,
                   commanded : Poses \cup HomePoses \cup {NoPose}, astray : {"no", "refused", "raised"}]

\* The type of every variable.  A handler has a request and a controller: the
\* timeout never leaves a handler with None.
TypeOK ==
  /\ ask \in [Clients -> Cmds \cup {"none"}]
  /\ sock \in [Clients -> Nat] /\ dangling \in [Clients -> BOOLEAN]
  /\ requests \subseteq Requests /\ replies \subseteq Replies
  /\ pc \in {"poll", "construct", "handle", "timeout_reset", "timeout_damp"}
  /\ msg \in Requests \cup {NoMsg}
  /\ lastEefCmd \in Poses \cup HomePoses \cup {NoPose}
  /\ isResetToHome \in BOOLEAN
  /\ controller \in ControllerType
  /\ pc \in {"construct", "handle"} => msg # NoMsg
  /\ pc = "handle" => controller.alive

PoseCommanded == /\ pc = "handle" /\ msg.cmd = "SET_EE_POSE"
                 /\ controller'.commanded # controller.commanded

\* A controller gets a pose only after a reset_to_home that completed on that very
\* controller ("Cannot set EE pose before RESET_TO_HOME"), also when a timeout has
\* replaced the controller or reset_to_home has raised.
HomedBeforePose == [][PoseCommanded => controller.homed]_vars

\* However many poses are refused, the first one commanded after reset_to_home is
\* near home ("Cannot set EE pose far away from home").
FirstPoseNearHome ==
  [][PoseCommanded /\ controller.fresh => Dist(controller'.commanded, Home) <= Jump]_vars

\* The first check of SET_EE_POSE keeps a pose near the one commanded before it ("Cannot
\* set EE pose far away from last command"), over timeouts, new controllers, homing,
\* damping and interrupts, unless the reference and the arm have parted: a pose became
\* last_eef_cmd and was refused or not sent, or reset_to_home raised on its way.
NearInStep ==
  [][PoseCommanded /\ controller.astray = "no" =>
       Dist(controller'.commanded, controller.commanded) <= Jump]_vars

\* A reply that reaches the socket of a client answers what the client asks now (its
\* methods assert it), also after interrupts that left replies behind.
ReplyMatches ==
  \A r \in replies :
    r.sock = sock[r.client] => r.cmd = ask[r.client] \/ dangling[r.client]

\* The server owes a reply it will never send: the construction failed.
Wedged == pc = "poll" /\ msg # NoMsg

\* Every request is answered, accepted or refused, unless the server lost one to a
\* failed construction of the controller.
Answered == \A c \in Clients : ask[c] # "none" ~> (ask[c] = "none" \/ Wedged)

\* With no call of the controller raising, a pose commanded is near the one commanded
\* before it, whatever is refused in between ("Cannot set EE pose far away from last
\* command", SET_EE_POSE).
NearLastCommand ==
  [][PoseCommanded /\ controller.astray # "raised" =>
       Dist(controller'.commanded, controller.commanded) <= Jump]_vars
=============================================================================
