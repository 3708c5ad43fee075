--------------------------- MODULE ControllerBase ---------------------------
(***************************************************************************)
(* The arm controller of arx5-sdk: the background thread that talks to the *)
(* motors every controller_dt, and the client threads that call the public *)
(* methods of the same object.  They share the joint state, the output     *)
(* command, the interpolator and the gain, under two non-recursive mutexes *)
(* and, in places, under none.                                             *)
(*                                                                         *)
(* One joint stands for the arm.  Its positions are integers, so a         *)
(* distance or a limit is a number of grid cells; a gain is its kp (a gain *)
(* with kp = 0 is "damping"); the health of a reading is the set of checks *)
(* it fails; the interpolator is the segment it moves along, of which      *)
(* interpolate() may return any point, since time is not modelled.         *)
(*                                                                         *)
(* A critical section without a call into another mutex is one step whose  *)
(* guard says the mutex is free; the owner is recorded only where a thread *)
(* keeps a mutex from one step to the next.                                *)
(***************************************************************************)
EXTENDS Integers

CONSTANTS
  Clients,            \* threads that call the controller's methods
  Background,         \* the thread running background_send_recv_
  NoThread,           \* the owner of a free mutex
  Ops,                \* the public methods the clients call
  BackgroundSendRecv, \* controller_config_.background_send_recv
  ShutdownToPassive,  \* controller_config_.shutdown_to_passive
  PosMin, PosMax,     \* robot_config_.joint_pos_min / joint_pos_max
  Readings,           \* positions the motor can report
  Healths,            \* health classes a reading can have
  CmdPos,             \* positions a client may command
  SaneMax,            \* joint_pos_max + 3.14, the bound of the data checks
  Home,               \* the target of reset_to_home
  VelStep,            \* joint_vel_max * controller_dt
  MotionStep,         \* the farthest the joint moves between two readings
  KpValues,           \* gains a client may set
  DefaultKp,          \* controller_config_.default_kp
  KpThreshold,        \* kp_threshold of set_gain
  PosErrorThreshold,  \* pos_error_threshold of set_gain
  StepNum,            \* steps of the gain ramp of reset_to_home
  OverCurrentCntMax   \* controller_config_.over_current_cnt_max

AllHealths == {"ok", "over_current", "pos_error", "torque_error", "gripper_error"}

AllOps == {"set_gain", "reset_to_home", "set_to_damping", "set_cmd",
           "recv_once", "send_recv_once", "destroy"}

ASSUME ThreadAssumption == /\ Background \notin Clients
                           /\ NoThread \notin Clients \cup {Background}
                           /\ Ops \subseteq AllOps
ASSUME ConfigAssumption == /\ BackgroundSendRecv \in BOOLEAN
                           /\ ShutdownToPassive \in BOOLEAN
                           /\ StepNum \in Nat \ {0}
                           /\ OverCurrentCntMax \in Nat
ASSUME PositionAssumption == /\ PosMin \in Int /\ PosMax \in Int /\ PosMin <= PosMax
                             /\ Readings \subseteq Int /\ CmdPos \subseteq Int
                             /\ Home \in Int /\ SaneMax \in Nat
                             /\ VelStep \in Nat /\ MotionStep \in Nat
                             /\ PosErrorThreshold \in Nat
                             /\ Healths \subseteq AllHealths
ASSUME GainAssumption == /\ KpValues \subseteq Int
                         /\ DefaultKp \in Int /\ KpThreshold \in Int

VARIABLES
  pc,             \* where each thread is
  job,            \* the method each thread runs, which tells a subroutine's caller
  local,          \* the local variables of that method
  stateMutex,     \* state_mutex_: its owner
  cmdMutex,       \* cmd_mutex_: its owner
  running,        \* background_send_recv_running_
  destroy,        \* destroy_background_threads_
  overCurrentCnt, \* over_current_cnt_
  jointState,     \* joint_state_: the last reading
  outputCmd,      \* output_joint_cmd_: the position last computed
  interp,         \* interpolator_: the segment it moves along
  gain,           \* gain_.kp
  sent            \* the last command put on the CAN bus

mutexes == <<stateMutex, cmdMutex>>
flags   == <<running, destroy>>
command == <<outputCmd, interp, gain>>
vars == <<pc, job, local, mutexes, flags, overCurrentCnt, jointState, command, sent>>

Threads == Clients \cup {Background}

-----------------------------------------------------------------------------
(* Positions, segments and gains. *)

Dist(a, b) == IF a >= b THEN a - b ELSE b - a

InLimits(p) == PosMin <= p /\ p <= PosMax

\* The joint position clipping of update_output_cmd_.
Clamp(p) == IF p < PosMin THEN PosMin ELSE IF p > PosMax THEN PosMax ELSE p

\* Mutated form: the velocity clipping is missing.
Unlimited(prev, p) == p

\* The joint velocity clipping of update_output_cmd_.
Limited(prev, p) ==
  IF Dist(p, prev) <= VelStep THEN p
  ELSE Clamp(IF p > prev THEN prev + VelStep ELSE prev - VelStep)

Segment(a, b) == [from |-> a, to |-> b]

Fixed(p) == Segment(p, p)

\* What interpolate() may return now.
Interpolated(s) == IF s.from <= s.to THEN s.from .. s.to ELSE s.to .. s.from

\* Mutated form: the ramp stops a step short of its target.
RampShort(from, to, i) == (from * (StepNum + 1 - i) + to * i) \div (StepNum + 1)

\* The gain of step i of the ramp of reset_to_home.
RampKp(from, to, i) == (from * (StepNum - i) + to * i) \div StepNum

OverCurrent(h) == h \in {"over_current", "torque_error"}

\* Mutated forms: a good reading takes one off the count; the count restarts at 1.
LeakyCount(cnt, h) == IF OverCurrent(h) THEN cnt + 1 ELSE cnt - 1

StuckCount(cnt, h) == IF OverCurrent(h) THEN 1 ELSE 0

\* over_current_cnt_ after a reading: the over-currents in a row.
NextCount(cnt, h) == IF OverCurrent(h) THEN cnt + 1 ELSE 0

-----------------------------------------------------------------------------
(* Threads.  `Fresh` is what a method's locals hold before they are set. *)

Fresh == [js |-> 0, prev |-> 0, kp |-> 0, init |-> 0, target |-> 0, i |-> 0,
          prevRunning |-> FALSE, slept |-> 0]

Goto(t, label) == pc' = [pc EXCEPT ![t] = label]

\* The method returns, or throws: its mutexes and locals are gone.
Finish(t) == /\ Goto(t, "idle")
             /\ job' = [job EXCEPT ![t] = "none"]
             /\ local' = [local EXCEPT ![t] = Fresh]

InEmergency(t) == job[t] = "emergency"

Emergency == \E t \in Threads : InEmergency(t)

EnterEmergency(t) == /\ Goto(t, "em_lock")
                     /\ job' = [job EXCEPT ![t] = "emergency"]

\* Mutated form: the sleep is shorter than a full pass.
OnePass == 1

\* Two passes of the loop, which every sleep of a client that matters outlasts.
LoopPasses == 2

Init ==
  /\ pc  = [t \in Threads |-> IF t = Background THEN "loop" ELSE "idle"]
  /\ job = [t \in Threads |-> IF t = Background THEN "loop" ELSE "none"]
  /\ local = [t \in Threads |-> Fresh]
  /\ stateMutex = NoThread /\ cmdMutex = NoThread
  /\ running = BackgroundSendRecv /\ destroy = FALSE
  /\ overCurrentCnt = 0 /\ gain = 0
  /\ \E p \in Readings : /\ jointState = [pos |-> p, health |-> "ok"]
                         /\ outputCmd = p /\ interp = Fixed(p)
                         /\ sent = [kp |-> 0, pos |-> p]

-----------------------------------------------------------------------------
(* background_send_recv_ *)

\* A pass of the loop begins.  Clients asleep see the pass go by.
LoopHead ==
  /\ pc[Background] = "loop"
  /\ Goto(Background, CASE destroy -> "done"
                        [] ~destroy /\ running -> "over_current"
                        [] OTHER -> "loop")
  /\ local' = [t \in Threads |->
       IF pc[t] = "sleep" /\ local[t].slept < LoopPasses
       THEN [local[t] EXCEPT !.slept = @ + 1] ELSE local[t]]
  /\ UNCHANGED <<job, mutexes, flags, overCurrentCnt, jointState, command, sent>>

\* Mutated form: the loop forgets check_joint_state_sanity_.
AfterOverCurrentUnchecked(t) == "send_prev"

\* The loop checks the over-current first, send_recv_once the sanity.
AfterOverCurrent(t) == IF job[t] = "loop" THEN "sanity" ELSE "send_prev"

\* over_current_protection_ reads the joint state without its mutex.
OverCurrentProtection(t) ==
  /\ pc[t] = "over_current"
  /\ overCurrentCnt' = NextCount(overCurrentCnt, jointState.health)
  /\ IF overCurrentCnt' > OverCurrentCntMax
     THEN EnterEmergency(t)
     ELSE Goto(t, AfterOverCurrent(t)) /\ UNCHANGED job
  /\ UNCHANGED <<local, mutexes, flags, jointState, command, sent>>

\* check_joint_state_sanity_ takes the state mutex and checks the position.
SanityPos(t) ==
  /\ pc[t] = "sanity" /\ stateMutex = NoThread
  /\ stateMutex' = t
  /\ IF jointState.health = "pos_error"
     THEN EnterEmergency(t)
     ELSE Goto(t, "sanity_cmd") /\ UNCHANGED job
  /\ UNCHANGED <<local, cmdMutex, flags, overCurrentCnt, jointState, command, sent>>

\* With the command mutex nested inside, it checks the interpolated command.
SanityCmd(t) ==
  /\ pc[t] = "sanity_cmd" /\ cmdMutex = NoThread
  /\ \E p \in Interpolated(interp) :
       IF Dist(p, 0) > SaneMax
       THEN EnterEmergency(t) /\ cmdMutex' = t
       ELSE Goto(t, "sanity_rest") /\ UNCHANGED <<job, cmdMutex>>
  /\ UNCHANGED <<local, stateMutex, flags, overCurrentCnt, jointState, command, sent>>

\* Torque and gripper checks; the state mutex is released on the way out.
SanityRest(t) ==
  /\ pc[t] = "sanity_rest"
  /\ IF jointState.health \in {"torque_error", "gripper_error"}
     THEN EnterEmergency(t) /\ UNCHANGED stateMutex
     ELSE /\ Goto(t, IF job[t] = "loop" THEN "send_prev" ELSE "over_current")
          /\ stateMutex' = NoThread
          /\ UNCHANGED job
  /\ UNCHANGED <<local, cmdMutex, flags, overCurrentCnt, jointState, command, sent>>

\* A round of enter_emergency_state_: it locks cmd_mutex_ and, holding it, calls
\* set_gain, which locks cmd_mutex_ again.
EmergencyLock(t) ==
  /\ pc[t] = "em_lock" /\ cmdMutex = NoThread
  /\ cmdMutex' = t
  /\ Goto(t, "sg_enter")
  /\ local' = [local EXCEPT ![t].kp = 0]
  /\ UNCHANGED <<job, stateMutex, flags, overCurrentCnt, jointState, command, sent>>

-----------------------------------------------------------------------------
(* send_recv_: update_output_cmd_, the motor commands, update_joint_state_. *)

\* update_output_cmd_ copies the previous command without a mutex.
SendPrev(t) ==
  /\ pc[t] = "send_prev"
  /\ local' = [local EXCEPT ![t].prev = outputCmd]
  /\ Goto(t, "send_interp")
  /\ UNCHANGED <<job, mutexes, flags, overCurrentCnt, jointState, command, sent>>

SendInterp(t) ==
  /\ pc[t] = "send_interp" /\ cmdMutex = NoThread
  /\ outputCmd' \in Interpolated(interp)
  /\ Goto(t, "send_clip_pos")
  /\ UNCHANGED <<job, local, mutexes, flags, overCurrentCnt, jointState, interp, gain, sent>>

\* The clipping holds state_mutex_, while get_joint_cmd reads under cmd_mutex_.
SendClipPos(t) ==
  /\ pc[t] = "send_clip_pos" /\ stateMutex = NoThread
  /\ stateMutex' = t
  /\ outputCmd' = Clamp(outputCmd)
  /\ Goto(t, "send_clip_vel")
  /\ UNCHANGED <<job, local, cmdMutex, flags, overCurrentCnt, jointState, interp, gain, sent>>

\* Mutated form: state_mutex_ is not released.
SendClipVelHeld(t) ==
  /\ pc[t] = "send_clip_vel"
  /\ outputCmd' = IF gain > 0 THEN Limited(local[t].prev, outputCmd) ELSE jointState.pos
  /\ Goto(t, "send_motor")
  /\ UNCHANGED <<job, local, mutexes, flags, overCurrentCnt, jointState, interp, gain, sent>>

SendClipVel(t) ==
  /\ pc[t] = "send_clip_vel"
  /\ outputCmd' = IF gain > 0 THEN Limited(local[t].prev, outputCmd) ELSE jointState.pos
  /\ stateMutex' = NoThread
  /\ Goto(t, "send_motor")
  /\ UNCHANGED <<job, local, cmdMutex, flags, overCurrentCnt, jointState, interp, gain, sent>>

SendMotor(t) ==
  /\ pc[t] = "send_motor" /\ cmdMutex = NoThread
  /\ sent' = [kp |-> gain, pos |-> outputCmd]
  /\ Goto(t, "recv")
  /\ UNCHANGED <<job, local, mutexes, flags, overCurrentCnt, jointState, command>>

\* Where a thread goes on from update_joint_state_, the last call of both
\* send_recv_ and recv_.
UpdateJointState(t) ==
  /\ pc[t] = "recv" /\ stateMutex = NoThread
  /\ \E p \in Readings, h \in Healths :
       Dist(p, jointState.pos) <= MotionStep /\ jointState' = [pos |-> p, health |-> h]
  /\ IF job[t] \in {"loop", "emergency"}
     THEN /\ Goto(t, IF job[t] = "loop" THEN "loop" ELSE "em_lock")
          /\ local' = [local EXCEPT ![t] = Fresh]
          /\ UNCHANGED job
     ELSE Finish(t)
  /\ UNCHANGED <<mutexes, flags, overCurrentCnt, command, sent>>

-----------------------------------------------------------------------------
(* set_gain, called by clients, by reset_to_home, set_to_damping, the        *)
(* destructor and enter_emergency_state_.                                    *)

SetGainEnter(t) ==
  /\ pc[t] = "sg_enter"
  /\ Goto(t, IF gain = 0 /\ local[t].kp # 0 THEN "sg_state" ELSE "sg_store")
  /\ UNCHANGED <<job, local, mutexes, flags, overCurrentCnt, jointState, command, sent>>

SetGainReadState(t) ==
  /\ pc[t] = "sg_state" /\ stateMutex = NoThread
  /\ local' = [local EXCEPT ![t].js = jointState.pos]
  /\ Goto(t, "sg_cmd")
  /\ UNCHANGED <<job, mutexes, flags, overCurrentCnt, jointState, command, sent>>

\* Mutated form: only a kp beyond the default one is refused.
TooFarForMore(t) == Dist(local[t].js, outputCmd) > PosErrorThreshold /\ local[t].kp > DefaultKp

\* The new kp is large and the command is far from the measured position.
TooFar(t) == Dist(local[t].js, outputCmd) > PosErrorThreshold /\ local[t].kp > KpThreshold

SetGainReadCmd(t) ==
  /\ pc[t] = "sg_cmd" /\ cmdMutex = NoThread
  /\ Goto(t, IF TooFar(t) THEN "sg_reject" ELSE "sg_store")
  /\ UNCHANGED <<job, local, mutexes, flags, overCurrentCnt, jointState, command, sent>>

\* The refusal stops the background loop and throws, through reset_to_home too.
SetGainReject(t) ==
  /\ pc[t] = "sg_reject"
  /\ running' = FALSE
  /\ Finish(t)
  /\ UNCHANGED <<mutexes, destroy, overCurrentCnt, jointState, command, sent>>

AfterGain(t) == CASE job[t] = "reset_to_home"  -> "rh_ramp"
                  [] job[t] = "set_to_damping" -> "sleep"
                  [] OTHER                     -> "fix_output"

SetGainStore(t) ==
  /\ pc[t] = "sg_store" /\ cmdMutex = NoThread
  /\ gain' = local[t].kp
  /\ IF job[t] = "set_gain" THEN Finish(t)
     ELSE Goto(t, AfterGain(t)) /\ UNCHANGED <<job, local>>
  /\ UNCHANGED <<mutexes, flags, overCurrentCnt, jointState, outputCmd, interp, sent>>

\* init_fixed(output_joint_cmd_), by the destructor under a lock of its own and
\* by enter_emergency_state_ under the one it holds.
FixOutput(t) ==
  /\ pc[t] = "fix_output"
  /\ IF InEmergency(t) THEN cmdMutex = t ELSE cmdMutex = NoThread
  /\ interp' = Fixed(outputCmd)
  /\ Goto(t, IF InEmergency(t) THEN "send_prev" ELSE "dt_run")
  /\ UNCHANGED <<job, local, mutexes, flags, overCurrentCnt, jointState, outputCmd, gain, sent>>

\* sleep_ms(10) of set_to_damping and sleep_ms(2000) of the destructor end after
\* LoopPasses passes, or when the loop is caught in the emergency routine.
Wake(t) ==
  /\ pc[t] = "sleep"
  /\ local[t].slept = LoopPasses \/ Emergency
  /\ Goto(t, IF job[t] = "destroy" THEN "dt_flag" ELSE "sd_state")
  /\ UNCHANGED <<job, local, mutexes, flags, overCurrentCnt, jointState, command, sent>>

-----------------------------------------------------------------------------
(* set_to_damping, after set_gain and the sleep. *)

SetToDampingReadState(t) ==
  /\ pc[t] = "sd_state" /\ stateMutex = NoThread
  /\ local' = [local EXCEPT ![t].js = jointState.pos]
  /\ Goto(t, "sd_fix")
  /\ UNCHANGED <<job, mutexes, flags, overCurrentCnt, jointState, command, sent>>

SetToDampingFix(t) ==
  /\ pc[t] = "sd_fix" /\ cmdMutex = NoThread
  /\ interp' = Fixed(local[t].js)
  /\ Finish(t)
  /\ UNCHANGED <<mutexes, flags, overCurrentCnt, jointState, outputCmd, gain, sent>>

-----------------------------------------------------------------------------
(* reset_to_home *)

ResetReadState(t) ==
  /\ pc[t] = "rh_state" /\ stateMutex = NoThread
  /\ local' = [local EXCEPT ![t].js = jointState.pos]
  /\ Goto(t, "rh_gain")
  /\ UNCHANGED <<job, mutexes, flags, overCurrentCnt, jointState, command, sent>>

ResetReadGain(t) ==
  /\ pc[t] = "rh_gain" /\ cmdMutex = NoThread
  /\ local' = [local EXCEPT ![t] =
                 [@ EXCEPT !.init = gain, !.target = IF gain = 0 THEN DefaultKp ELSE gain]]
  /\ Goto(t, "rh_run")
  /\ UNCHANGED <<job, mutexes, flags, overCurrentCnt, jointState, command, sent>>

ResetRun(t) ==
  /\ pc[t] = "rh_run"
  /\ local' = [local EXCEPT ![t].prevRunning = running]
  /\ running' = TRUE
  /\ Goto(t, "rh_init")
  /\ UNCHANGED <<job, mutexes, destroy, overCurrentCnt, jointState, command, sent>>

ResetInit(t) ==
  /\ pc[t] = "rh_init" /\ cmdMutex = NoThread
  /\ interp' = Segment(local[t].js, Home)
  /\ Goto(t, "rh_ramp")
  /\ UNCHANGED <<job, local, mutexes, flags, overCurrentCnt, jointState, outputCmd, gain, sent>>

ResetRamp(t) ==
  /\ pc[t] = "rh_ramp"
  /\ IF local[t].i <= StepNum
     THEN /\ local' = [local EXCEPT ![t] =
                 [local[t] EXCEPT !.kp = RampKp(local[t].init, local[t].target, local[t].i),
                                  !.i = local[t].i + 1]]
          /\ Goto(t, "sg_enter")
     ELSE Goto(t, "rh_final") /\ UNCHANGED local
  /\ UNCHANGED <<job, mutexes, flags, overCurrentCnt, jointState, command, sent>>

ResetFinal(t) ==
  /\ pc[t] = "rh_final" /\ cmdMutex = NoThread
  /\ \E p \in Interpolated(interp) : interp' = Segment(p, Home)
  /\ Goto(t, "rh_restore")
  /\ UNCHANGED <<job, local, mutexes, flags, overCurrentCnt, jointState, outputCmd, gain, sent>>

\* The interpolator refuses a target that is not ahead of its time, after a stall: the
\* exception leaves the flag and the gain as the method has set them.
ResetRefused(t) ==
  /\ pc[t] \in {"rh_init", "rh_final"} /\ cmdMutex = NoThread
  /\ Finish(t)
  /\ UNCHANGED <<mutexes, flags, overCurrentCnt, jointState, command, sent>>

ResetRestore(t) ==
  /\ pc[t] = "rh_restore"
  /\ running' = local[t].prevRunning
  /\ Finish(t)
  /\ UNCHANGED <<mutexes, destroy, overCurrentCnt, jointState, command, sent>>

-----------------------------------------------------------------------------
(* set_joint_cmd and set_eef_cmd *)

SetCmdReadState(t) ==
  /\ pc[t] = "sc_state" /\ stateMutex = NoThread
  /\ Goto(t, "sc_store")
  /\ UNCHANGED <<job, local, mutexes, flags, overCurrentCnt, jointState, command, sent>>

\* A command for now replaces the trajectory, one for later is approached from
\* the current point, one for the past is refused with an exception.
SetCmdStore(t) ==
  /\ pc[t] = "sc_store" /\ cmdMutex = NoThread
  /\ \E c \in CmdPos :
       interp' \in {Fixed(c), interp} \cup {Segment(p, c) : p \in Interpolated(interp)}
  /\ Finish(t)
  /\ UNCHANGED <<mutexes, flags, overCurrentCnt, jointState, outputCmd, gain, sent>>

-----------------------------------------------------------------------------
(* The destructor, after set_gain and init_fixed. *)

\* Mutated form: the loop is not started for the damping command.
DestroyRunIdle(t) ==
  /\ pc[t] = "dt_run"
  /\ Goto(t, "sleep")
  /\ UNCHANGED <<job, local, mutexes, flags, overCurrentCnt, jointState, command, sent>>

DestroyRun(t) ==
  /\ pc[t] = "dt_run"
  /\ running' = TRUE
  /\ Goto(t, "sleep")
  /\ UNCHANGED <<job, local, mutexes, destroy, overCurrentCnt, jointState, command, sent>>

\* Mutated form: the loop is not told to end.
DestroyFlagForgotten(t) ==
  /\ pc[t] = "dt_flag"
  /\ Goto(t, "dt_join")
  /\ UNCHANGED <<job, local, mutexes, flags, overCurrentCnt, jointState, command, sent>>

DestroyFlag(t) ==
  /\ pc[t] = "dt_flag"
  /\ destroy' = TRUE
  /\ Goto(t, "dt_join")
  /\ UNCHANGED <<job, local, mutexes, running, overCurrentCnt, jointState, command, sent>>

DestroyJoin(t) ==
  /\ pc[t] = "dt_join" /\ pc[Background] = "done"
  /\ Goto(t, "gone")
  /\ UNCHANGED <<job, local, mutexes, flags, overCurrentCnt, jointState, command, sent>>

-----------------------------------------------------------------------------
(* A client calls a method. *)

Call(t, op) == /\ pc[t] = "idle" /\ op \in Ops
               /\ \A c \in Clients : job[c] # "destroy"
               /\ job' = [job EXCEPT ![t] = op]
               /\ UNCHANGED <<mutexes, flags, overCurrentCnt, jointState, command, sent>>

CallSetGain(t) == /\ Call(t, "set_gain")
                  /\ \E kp \in KpValues : local' = [local EXCEPT ![t].kp = kp]
                  /\ Goto(t, "sg_enter")

CallSetToDamping(t) == /\ Call(t, "set_to_damping")
                       /\ Goto(t, "sg_enter") /\ UNCHANGED local

CallResetToHome(t) == /\ Call(t, "reset_to_home")
                      /\ Goto(t, "rh_state") /\ UNCHANGED local

CallSetCmd(t) == /\ Call(t, "set_cmd")
                 /\ Goto(t, "sc_state") /\ UNCHANGED local

\* Both are ignored while the background loop is running.
CallRecvOnce(t) == /\ Call(t, "recv_once") /\ ~running
                   /\ Goto(t, "recv") /\ UNCHANGED local

CallSendRecvOnce(t) == /\ Call(t, "send_recv_once") /\ ~running
                       /\ Goto(t, "sanity") /\ UNCHANGED local

\* The object may be destroyed only when no other thread is inside it.
CallDestroy(t) == /\ Call(t, "destroy")
                  /\ \A c \in Clients : pc[c] = "idle"
                  /\ Goto(t, IF ShutdownToPassive THEN "sg_enter" ELSE "dt_flag")
                  /\ UNCHANGED local

-----------------------------------------------------------------------------

SendRecv(t) ==
  \/ OverCurrentProtection(t) \/ SanityPos(t) \/ SanityCmd(t) \/ SanityRest(t)
  \/ EmergencyLock(t)
  \/ SendPrev(t) \/ SendInterp(t) \/ SendClipPos(t) \/ SendClipVel(t) \/ SendMotor(t)
  \/ UpdateJointState(t)

Method(t) ==
  \/ SetGainEnter(t) \/ SetGainReadState(t) \/ SetGainReadCmd(t) \/ SetGainReject(t)
  \/ SetGainStore(t) \/ FixOutput(t) \/ Wake(t)
  \/ SetToDampingReadState(t) \/ SetToDampingFix(t)
  \/ ResetReadState(t) \/ ResetReadGain(t) \/ ResetRun(t) \/ ResetInit(t)
  \/ ResetRamp(t) \/ ResetFinal(t) \/ ResetRefused(t) \/ ResetRestore(t)
  \/ SetCmdReadState(t) \/ SetCmdStore(t)
  \/ DestroyRun(t) \/ DestroyFlag(t) \/ DestroyJoin(t)

CallMethod(t) ==
  \/ CallSetGain(t) \/ CallSetToDamping(t) \/ CallResetToHome(t) \/ CallSetCmd(t)
  \/ CallRecvOnce(t) \/ CallSendRecvOnce(t) \/ CallDestroy(t)

Step(t) == SendRecv(t) \/ Method(t)

Next == LoopHead \/ (\E t \in Threads : Step(t)) \/ (\E c \in Clients : CallMethod(c))

Spec == Init /\ [][Next]_vars

\* The scheduler runs every thread.  A thread waiting for a mutex gets it, for the
\* loop sleeps with both mutexes free in every period.
Fairness == WF_vars(LoopHead) /\ \A t \in Threads : SF_vars(Step(t))

FairSpec == Spec /\ Fairness
-----------------------------------------------------------------------------
(* Properties *)

Labels ==
  {"loop", "done", "idle", "gone", "over_current", "sanity", "sanity_cmd", "sanity_rest",
   "em_lock", "send_prev", "send_interp", "send_clip_pos", "send_clip_vel", "send_motor",
   "recv", "sg_enter", "sg_state", "sg_cmd", "sg_reject", "sg_store", "fix_output", "sleep",
   "sd_state", "sd_fix", "rh_state", "rh_gain", "rh_run", "rh_init", "rh_ramp", "rh_final",
   "rh_restore", "sc_state", "sc_store", "dt_run", "dt_flag", "dt_join"}

Locals == [js : Int, prev : Int, kp : Int, init : Int, target : Int, i : Nat,
           prevRunning : BOOLEAN, slept : 0 .. LoopPasses]

\* The type of every variable.  The over-current counter of the code has no bound
\* of its own: it stays below the limit plus the one thread that passes it.
TypeOK ==
  /\ pc \in [Threads -> Labels]
  /\ job \in [Threads -> AllOps \cup {"loop", "none", "emergency"}]
  /\ local \in [Threads -> Locals]
  /\ stateMutex \in Threads \cup {NoThread} /\ cmdMutex \in Threads \cup {NoThread}
  /\ running \in BOOLEAN /\ destroy \in BOOLEAN
  /\ overCurrentCnt \in Nat
  /\ jointState \in [pos : Int, health : AllHealths]
  /\ outputCmd \in Int /\ interp \in [from : Int, to : Int] /\ gain \in Int
  /\ sent \in [kp : Int, pos : Int]

NeedsState == {"sanity", "send_clip_pos", "recv", "sg_state", "sd_state", "rh_state", "sc_state"}

NeedsCmd == {"sanity_cmd", "send_interp", "send_motor", "em_lock", "sg_cmd", "sg_store",
             "fix_output", "rh_gain", "rh_init", "rh_final", "sd_fix", "sc_store"}

\* The thread that owns the mutex t is about to lock.
Blocker(t) == IF pc[t] \in NeedsState THEN stateMutex
              ELSE IF pc[t] \in NeedsCmd THEN cmdMutex ELSE NoThread

\* Outside the emergency routine no thread waits for a mutex whose owner waits in
\* turn: the nesting of cmd_mutex_ in state_mutex_ (check_joint_state_sanity_)
\* never meets the opposite order, so every lock is granted unless some thread is
\* in the emergency routine.
NoWaitCycle ==
  \A t \in Threads :
    LET owner == Blocker(t) IN
      owner = NoThread \/ Blocker(owner) = NoThread \/ Emergency

SendLabels == {"send_prev", "send_interp", "send_clip_pos", "send_clip_vel", "send_motor"}

\* From the checks of a pass of the loop to the motor command they guard, the joint
\* state stays one that passes them: no reading reaches update_output_cmd_
\* unchecked, whatever the clients do in between.
SanitizedSend ==
  pc[Background] \in SendLabels /\ ~InEmergency(Background) =>
    /\ jointState.health \in {"ok", "over_current"}
    /\ OverCurrent(jointState.health) => overCurrentCnt \in 1 .. OverCurrentCntMax

\* A command with a non-zero gain either holds the measured position, or is within
\* the joint limits and no farther from the previous command than the velocity
\* limit allows (the limit is waived on the way back from beyond a joint limit).
\* A gain stored between the clipping and the command must not void the clipping.
SafeCommand ==
  [][sent'.kp > 0 => \/ sent'.pos = jointState.pos
                     \/ /\ InLimits(sent'.pos)
                        /\ Dist(sent'.pos, sent.pos) <= VelStep \/ ~InLimits(sent.pos)]_sent

\* With shutdown_to_passive the loop ends only after a damping command, also when a
\* rejected set_gain or background_send_recv = FALSE had stopped it before.
DampedAtExit == ShutdownToPassive /\ pc[Background] = "done" => sent.kp = 0

\* Before set_to_damping reads the position that it makes the new target, the
\* motors have been commanded zero kp.  For one client; the loop runs.
DampedBeforeFix ==
  \A c \in Clients :
    pc[c] \in {"sd_state", "sd_fix"} /\ running /\ ~Emergency => sent.kp = 0

\* When the ramp of reset_to_home is over, the gain is the one it ramps to, with the
\* loop running.  For one client.
RampReachesTarget ==
  \A c \in Clients :
    pc[c] \in {"rh_final", "rh_restore"} => gain = local[c].target /\ gain # 0 /\ running

\* Stiffening does not make the arm jump ("Make sure the robot doesn't jump when setting
\* kp to non-zero", set_gain): when a large kp replaces a zero one, the command is no
\* farther from the measured position than the threshold of set_gain plus what the
\* joint moves in a pass, also when both have changed since set_gain looked at them.
\* For one client, and unless the loop is between interpolating a command and limiting
\* it: what set_gain compares with then is never sent.
StiffensNearby ==
  [][gain = 0 /\ gain' > KpThreshold /\ pc[Background] \notin {"send_clip_pos", "send_clip_vel"} =>
       Dist(outputCmd, jointState.pos) <= PosErrorThreshold + MotionStep]_gain

\* What that is for: the first command with a large kp after one with a small or zero kp
\* is no farther from the measured position than that and what the command moves in a
\* pass, except that a joint beyond its limits is taken back to them at once.
NoJump ==
  [][sent.kp <= KpThreshold /\ sent'.kp > KpThreshold /\ InLimits(sent.pos) =>
       Dist(sent'.pos, jointState.pos) <= PosErrorThreshold + VelStep + MotionStep]_sent

\* Every method of the controller returns, throws or ends the object, unless the
\* emergency routine is entered.
MethodsReturn ==
  \A c \in Clients : pc[c] # "idle" ~> (pc[c] \in {"idle", "gone"} \/ Emergency)

\* An over-current that stays ends in the emergency routine, and no call of a client
\* can keep resetting the count.
OverCurrentIsCaught ==
  <>[](OverCurrent(jointState.health) /\ running /\ ~destroy) => <>Emergency

\* Damping is commanded once the emergency routine is entered ("Over current
\* detected, robot is set to damping", over_current_protection_).
EmergencyDamps == Emergency ~> sent.kp = 0

\* Only one thread at a time is between reading the previous command and sending the
\* next ("Only works when background_send_recv is disabled", joint_controller.h).
OneSender ==
  \A t, u \in Threads : pc[t] \in SendLabels /\ pc[u] \in SendLabels => t = u
=============================================================================
