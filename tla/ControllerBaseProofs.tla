------------------------ MODULE ControllerBaseProofs ------------------------
(* Theorems about ControllerBase for any number of clients, any positions,  *)
(* limits, gains and thresholds.                                            *)
EXTENDS ControllerBase, TLAPS

-----------------------------------------------------------------------------
(* Type correctness *)

\* A gain of the ramp is a gain,
LEMMA RampKpType ==
  ASSUME NEW a \in Int, NEW b \in Int, NEW i \in Nat
  PROVE  RampKp(a, b, i) \in Int
<1>1. /\ a * (StepNum - i) + b * i \in Int /\ StepNum \in Nat \ {0}
  BY ConfigAssumption, SMT
<1>2. \A x \in Int, n \in Nat \ {0} : x \div n \in Int
  BY SMT
<1> QED
  BY <1>1, <1>2 DEF RampKp

\* and a point of a segment a position.
LEMMA InterpolatedType ==
  ASSUME NEW s \in [from : Int, to : Int], NEW p \in Interpolated(s)
  PROVE  p \in Int
BY DEF Interpolated

\* The types hold when the object is made.
LEMMA TypeInit == Init => TypeOK
<1> SUFFICES ASSUME Init PROVE TypeOK
  OBVIOUS
<1>1. Fresh \in Locals
  BY DEF Fresh, Locals, LoopPasses
<1>2. PICK p \in Readings : /\ jointState = [pos |-> p, health |-> "ok"]
                             /\ outputCmd = p /\ interp = Fixed(p)
                             /\ sent = [kp |-> 0, pos |-> p]
  BY DEF Init
<1>3. p \in Int
  BY PositionAssumption
<1>4. /\ jointState \in [pos : Int, health : AllHealths]
      /\ outputCmd \in Int /\ interp \in [from : Int, to : Int]
      /\ sent \in [kp : Int, pos : Int]
  BY <1>2, <1>3 DEF AllHealths, Fixed, Segment
<1>5. /\ pc \in [Threads -> Labels]
      /\ job \in [Threads -> AllOps \cup {"loop", "none", "emergency"}]
  BY DEF Init, Labels
<1>6. local \in [Threads -> Locals]
  BY <1>1 DEF Init
<1>7. /\ stateMutex \in Threads \cup {NoThread} /\ cmdMutex \in Threads \cup {NoThread}
      /\ overCurrentCnt \in Nat /\ gain \in Int
  BY DEF Init
<1>8. running \in BOOLEAN /\ destroy \in BOOLEAN
  BY ConfigAssumption, Zenon DEF Init
<1> QED
  BY <1>4, <1>5, <1>6, <1>7, <1>8 DEF TypeOK

\* One step per action: what each assigns has its type.
LEMMA TypeStep == TypeOK /\ [Next]_vars => TypeOK'
<1> SUFFICES ASSUME TypeOK, [Next]_vars PROVE TypeOK'
  OBVIOUS
<1> USE DEF mutexes, flags, command, Goto, Finish, EnterEmergency, InEmergency
<1>fresh. Fresh \in Locals
  BY DEF Fresh, Locals, LoopPasses
<1>int. /\ \A s \in [from : Int, to : Int] : Interpolated(s) \subseteq Int
        /\ \A p \in Int : Fixed(p) \in [from : Int, to : Int]
        /\ \A p, q \in Int : Segment(p, q) \in [from : Int, to : Int]
        /\ \A p \in Int : Clamp(p) \in Int
        /\ \A p, q \in Int : Limited(p, q) \in Int
  BY PositionAssumption DEF Interpolated, Fixed, Segment, Clamp, Limited, Dist
<1>1. CASE LoopHead
  BY <1>1 DEF LoopHead, TypeOK, Labels, Locals, LoopPasses, Threads
<1>2. ASSUME NEW t \in Threads, Step(t) PROVE TypeOK'
  <2>1. CASE OverCurrentProtection(t)
    <3>1. pc' \in [Threads -> Labels]
      BY <2>1 DEF OverCurrentProtection, TypeOK, Labels, AfterOverCurrent
    <3>2. job' \in [Threads -> AllOps \cup {"loop", "none", "emergency"}]
      BY <2>1 DEF OverCurrentProtection, TypeOK
    <3> QED
      BY <2>1, <3>1, <3>2 DEF OverCurrentProtection, TypeOK, NextCount
  <2>2. CASE SanityPos(t)
    <3>1. pc' \in [Threads -> Labels]
      BY <2>2 DEF SanityPos, TypeOK, Labels
    <3>2. job' \in [Threads -> AllOps \cup {"loop", "none", "emergency"}]
      BY <2>2 DEF SanityPos, TypeOK
    <3> QED
      BY <2>2, <3>1, <3>2 DEF SanityPos, TypeOK
  <2>3. CASE SanityCmd(t)
    <3>1. PICK p \in Interpolated(interp) :
            IF Dist(p, 0) > SaneMax
            THEN EnterEmergency(t) /\ cmdMutex' = t
            ELSE Goto(t, "sanity_rest") /\ UNCHANGED <<job, cmdMutex>>
      BY <2>3 DEF SanityCmd
    <3>2. pc' \in [Threads -> Labels]
      BY <3>1 DEF TypeOK, Labels
    <3>3. job' \in [Threads -> AllOps \cup {"loop", "none", "emergency"}]
      BY <3>1 DEF TypeOK
    <3> QED
      BY <2>3, <3>1, <3>2, <3>3 DEF SanityCmd, TypeOK
  <2>4. CASE SanityRest(t)
    <3>1. pc' \in [Threads -> Labels]
      BY <2>4 DEF SanityRest, TypeOK, Labels
    <3>2. job' \in [Threads -> AllOps \cup {"loop", "none", "emergency"}]
      BY <2>4 DEF SanityRest, TypeOK
    <3> QED
      BY <2>4, <3>1, <3>2 DEF SanityRest, TypeOK
  <2>5. CASE EmergencyLock(t)
    BY <2>5, <1>fresh, <1>int, PositionAssumption DEF EmergencyLock, TypeOK, Labels, Locals, AllOps
  <2>6. CASE SendPrev(t)
    BY <2>6, <1>fresh, <1>int, PositionAssumption DEF SendPrev, TypeOK, Labels, Locals, AllOps
  <2>7. CASE SendInterp(t)
    BY <2>7, <1>fresh, <1>int, PositionAssumption DEF SendInterp, TypeOK, Labels, Locals, AllOps
  <2>8. CASE SendClipPos(t)
    BY <2>8, <1>fresh, <1>int, PositionAssumption DEF SendClipPos, TypeOK, Labels, Locals, AllOps
  <2>9. CASE SendClipVel(t)
    BY <2>9, <1>fresh, <1>int, PositionAssumption DEF SendClipVel, TypeOK, Labels, Locals, AllOps
  <2>10. CASE SendMotor(t)
    BY <2>10, <1>fresh, <1>int, PositionAssumption DEF SendMotor, TypeOK, Labels, Locals, AllOps
  <2>11. CASE UpdateJointState(t)
    <3>1. jointState' \in [pos : Int, health : AllHealths]
      BY <2>11, PositionAssumption DEF UpdateJointState
    <3>2. pc' \in [Threads -> Labels]
      BY <2>11 DEF UpdateJointState, TypeOK, Labels
    <3>3. job' \in [Threads -> AllOps \cup {"loop", "none", "emergency"}]
      BY <2>11 DEF UpdateJointState, TypeOK
    <3>4. local' \in [Threads -> Locals]
      BY <2>11, <1>fresh DEF UpdateJointState, TypeOK
    <3> QED
      BY <2>11, <3>1, <3>2, <3>3, <3>4 DEF UpdateJointState, TypeOK
  <2>12. CASE SetGainEnter(t)
    BY <2>12, <1>fresh, <1>int, PositionAssumption DEF SetGainEnter, TypeOK, Labels, Locals, AllOps
  <2>13. CASE SetGainReadState(t)
    BY <2>13, <1>fresh, <1>int, PositionAssumption DEF SetGainReadState, TypeOK, Labels, Locals, AllOps
  <2>14. CASE SetGainReadCmd(t)
    BY <2>14, <1>fresh, <1>int, PositionAssumption DEF SetGainReadCmd, TypeOK, Labels, Locals, AllOps
  <2>15. CASE SetGainReject(t)
    BY <2>15, <1>fresh, <1>int, PositionAssumption DEF SetGainReject, TypeOK, Labels, Locals, AllOps
  <2>16. CASE SetGainStore(t)
    <3>1. pc' \in [Threads -> Labels]
      BY <2>16 DEF SetGainStore, AfterGain, TypeOK, Labels
    <3>2. job' \in [Threads -> AllOps \cup {"loop", "none", "emergency"}]
      BY <2>16 DEF SetGainStore, TypeOK
    <3>3. local' \in [Threads -> Locals] /\ gain' \in Int
      BY <2>16, <1>fresh DEF SetGainStore, TypeOK, Locals
    <3> QED
      BY <2>16, <3>1, <3>2, <3>3 DEF SetGainStore, TypeOK
  <2>17. CASE FixOutput(t)
    BY <2>17, <1>fresh, <1>int, PositionAssumption DEF FixOutput, TypeOK, Labels, Locals, AllOps
  <2>18. CASE Wake(t)
    BY <2>18, <1>fresh, <1>int, PositionAssumption DEF Wake, TypeOK, Labels, Locals, AllOps
  <2>19. CASE SetToDampingReadState(t)
    BY <2>19, <1>fresh, <1>int, PositionAssumption DEF SetToDampingReadState, TypeOK, Labels, Locals, AllOps
  <2>20. CASE SetToDampingFix(t)
    BY <2>20, <1>fresh, <1>int, PositionAssumption DEF SetToDampingFix, TypeOK, Labels, Locals, AllOps
  <2>21. CASE ResetReadState(t)
    BY <2>21, <1>fresh, <1>int, PositionAssumption DEF ResetReadState, TypeOK, Labels, Locals, AllOps
  <2>22. CASE ResetReadGain(t)
    <3>1. PICK k \in Int :
            local' = [local EXCEPT ![t] = [@ EXCEPT !.init = gain, !.target = k]]
      BY <2>22, GainAssumption DEF ResetReadGain, TypeOK
    <3>2. local' \in [Threads -> Locals]
      <4>1. local \in [Threads -> Locals] /\ local[t] \in Locals
        BY DEF TypeOK
      <4>2. [local[t] EXCEPT !.init = gain, !.target = k] \in Locals
        BY <4>1 DEF Locals, TypeOK
      <4> QED
        BY <3>1, <4>1, <4>2
    <3> QED
      BY <2>22, <3>2 DEF ResetReadGain, TypeOK, Labels
  <2>23. CASE ResetRun(t)
    BY <2>23, <1>fresh, <1>int, PositionAssumption DEF ResetRun, TypeOK, Labels, Locals, AllOps
  <2>24. CASE ResetInit(t)
    BY <2>24, <1>fresh, <1>int, PositionAssumption DEF ResetInit, TypeOK, Labels, Locals, AllOps
  <2>25. CASE ResetRamp(t)
    <3>1. RampKp(local[t].init, local[t].target, local[t].i) \in Int
      BY RampKpType DEF TypeOK, Locals
    <3>2. local' \in [Threads -> Locals]
      <4>1. local \in [Threads -> Locals] /\ local[t] \in Locals
        BY DEF TypeOK
      <4> DEFINE k == RampKp(local[t].init, local[t].target, local[t].i)
                 n == local[t].i + 1
      <4>2. k \in Int /\ n \in Nat
        BY <3>1, <4>1 DEF Locals
      <4> HIDE DEF k, n
      <4>3. [local[t] EXCEPT !.kp = k, !.i = n] \in Locals
        BY <4>1, <4>2 DEF Locals
      <4>4. \/ UNCHANGED local
            \/ local' = [local EXCEPT ![t] = [local[t] EXCEPT !.kp = k, !.i = n]]
        BY <2>25 DEF ResetRamp, k, n
      <4> QED
        BY <4>1, <4>3, <4>4
    <3>3. pc' \in [Threads -> Labels]
      BY <2>25 DEF ResetRamp, TypeOK, Labels
    <3> QED
      BY <2>25, <3>2, <3>3 DEF ResetRamp, TypeOK
  <2>26. CASE ResetFinal(t)
    <3>1. PICK p \in Interpolated(interp) : interp' = Segment(p, Home)
      BY <2>26 DEF ResetFinal
    <3>2. interp' \in [from : Int, to : Int]
      BY <3>1, <1>int, PositionAssumption DEF TypeOK
    <3> QED
      BY <2>26, <3>2 DEF ResetFinal, ResetRefused, TypeOK, Labels
  <2>27. CASE ResetRestore(t)
    BY <2>27, <1>fresh, <1>int, PositionAssumption DEF ResetRestore, TypeOK, Labels, Locals, AllOps
  <2>28. CASE SetCmdReadState(t)
    BY <2>28, <1>fresh, <1>int, PositionAssumption DEF SetCmdReadState, TypeOK, Labels, Locals, AllOps
  <2>29. CASE SetCmdStore(t)
    <3>1. PICK c \in CmdPos :
            interp' \in {Fixed(c), interp} \cup {Segment(p, c) : p \in Interpolated(interp)}
      BY <2>29 DEF SetCmdStore
    <3>2. interp' \in [from : Int, to : Int]
      <4>1. interp \in [from : Int, to : Int] /\ c \in Int
        BY PositionAssumption DEF TypeOK
      <4>2. CASE interp' = Fixed(c)
        BY <4>1, <4>2, <1>int
      <4>3. CASE interp' = interp
        BY <4>1, <4>3
      <4>4. CASE \E p \in Interpolated(interp) : interp' = Segment(p, c)
        <5>1. PICK p \in Interpolated(interp) : interp' = Segment(p, c)
          BY <4>4
        <5>2. p \in Int
          BY <4>1, <1>int
        <5> QED
          BY <4>1, <5>1, <5>2, <1>int
      <4> QED
        BY <3>1, <4>2, <4>3, <4>4
    <3> QED
      BY <2>29, <1>fresh, <3>2 DEF SetCmdStore, TypeOK, Labels
  <2>30. CASE DestroyRun(t)
    BY <2>30, <1>fresh, <1>int, PositionAssumption DEF DestroyRun, TypeOK, Labels, Locals, AllOps
  <2>31. CASE DestroyFlag(t)
    BY <2>31, <1>fresh, <1>int, PositionAssumption DEF DestroyFlag, TypeOK, Labels, Locals, AllOps
  <2>32. CASE DestroyJoin(t)
    BY <2>32, <1>fresh, <1>int, PositionAssumption DEF DestroyJoin, TypeOK, Labels, Locals, AllOps
  <2>33. CASE ResetRefused(t)
    BY <2>33, <1>fresh, <1>int, PositionAssumption DEF ResetRefused, TypeOK, Labels, Locals, AllOps
  <2> QED
    BY <1>2, <2>1, <2>2, <2>3, <2>4, <2>5, <2>6, <2>7, <2>8, <2>9, <2>10, <2>11, <2>12, <2>13, <2>14, <2>15, <2>16, <2>17, <2>18, <2>19, <2>20, <2>21, <2>22, <2>23, <2>24, <2>25, <2>26, <2>27, <2>28, <2>29, <2>30, <2>31, <2>32, <2>33 DEF Step, SendRecv, Method
<1>3. ASSUME NEW c \in Clients, CallMethod(c) PROVE TypeOK'
  <2>1. CASE CallSetGain(c)
    BY <2>1, GainAssumption, ThreadAssumption DEF CallSetGain, Call, TypeOK, Labels, Locals, AllOps, Threads
  <2>2. CASE CallSetToDamping(c)
    BY <2>2, GainAssumption, ThreadAssumption DEF CallSetToDamping, Call, TypeOK, Labels, Locals, AllOps, Threads
  <2>3. CASE CallResetToHome(c)
    BY <2>3, GainAssumption, ThreadAssumption DEF CallResetToHome, Call, TypeOK, Labels, Locals, AllOps, Threads
  <2>4. CASE CallSetCmd(c)
    BY <2>4, GainAssumption, ThreadAssumption DEF CallSetCmd, Call, TypeOK, Labels, Locals, AllOps, Threads
  <2>5. CASE CallRecvOnce(c)
    BY <2>5, GainAssumption, ThreadAssumption DEF CallRecvOnce, Call, TypeOK, Labels, Locals, AllOps, Threads
  <2>6. CASE CallSendRecvOnce(c)
    BY <2>6, GainAssumption, ThreadAssumption DEF CallSendRecvOnce, Call, TypeOK, Labels, Locals, AllOps, Threads
  <2>7. CASE CallDestroy(c)
    BY <2>7, GainAssumption, ThreadAssumption DEF CallDestroy, Call, TypeOK, Labels, Locals, AllOps, Threads
  <2> QED
    BY <1>3, <2>1, <2>2, <2>3, <2>4, <2>5, <2>6, <2>7 DEF CallMethod
<1>4. CASE UNCHANGED vars
  BY <1>4 DEF vars, TypeOK
<1> QED
  BY <1>1, <1>2, <1>3, <1>4 DEF Next

\* Every variable keeps its type in every behaviour of the controller.
THEOREM TypeCorrect == Spec => []TypeOK
BY TypeInit, TypeStep, PTL DEF Spec

-----------------------------------------------------------------------------
(* The locks *)

EmergencyLabels == SendLabels \cup {"em_lock", "sg_enter", "sg_store", "fix_output", "recv"}

\* Where the emergency routine can be: its set_gain takes the path of kp = 0.
EmergencyPath ==
  \A t \in Threads :
    /\ InEmergency(t) => pc[t] \in EmergencyLabels
    /\ InEmergency(t) /\ pc[t] = "sg_enter" => local[t].kp = 0
    /\ pc[t] = "em_lock" => InEmergency(t)

\* Between two steps of a thread, only the checks, the clipping and the emergency
\* routine own a mutex, and cmd_mutex_ only the emergency routine.
Owners ==
  /\ stateMutex # NoThread =>
       \/ pc[stateMutex] \in {"sanity_cmd", "sanity_rest", "send_clip_vel"}
       \/ InEmergency(stateMutex)
  /\ cmdMutex # NoThread => InEmergency(cmdMutex)

LockInv == EmergencyPath /\ Owners

\* No mutex is owned when the object is made.
LEMMA LockInit == Init => LockInv
BY DEF Init, LockInv, EmergencyPath, Owners, InEmergency

\* Every step leaves the mutexes owned where LockInv says.
LEMMA LockStep == TypeOK /\ LockInv /\ [Next]_vars => LockInv'
<1> SUFFICES ASSUME TypeOK, LockInv, [Next]_vars PROVE LockInv'
  OBVIOUS
<1> USE DEF mutexes, flags, command, Goto, Finish, EnterEmergency, InEmergency,
            LockInv, EmergencyPath, Owners, EmergencyLabels, SendLabels
<1>type. /\ pc \in [Threads -> Labels]
         /\ job \in [Threads -> AllOps \cup {"loop", "none", "emergency"}]
         /\ local \in [Threads -> Locals]
         /\ stateMutex \in Threads \cup {NoThread}
         /\ cmdMutex \in Threads \cup {NoThread}
         /\ NoThread \notin Threads /\ Background \in Threads
  BY ThreadAssumption DEF TypeOK, Threads
<1>1. CASE LoopHead
  BY <1>1, <1>type DEF LoopHead
<1>2. ASSUME NEW t \in Threads, Step(t) PROVE LockInv'
  <2>1. CASE OverCurrentProtection(t)
    BY <2>1, <1>type DEF OverCurrentProtection, AfterOverCurrent
  <2>2. CASE SanityPos(t)
    BY <2>2, <1>type DEF SanityPos
  <2>3. CASE SanityCmd(t)
    BY <2>3, <1>type DEF SanityCmd
  <2>4. CASE SanityRest(t)
    BY <2>4, <1>type DEF SanityRest
  <2>5. CASE EmergencyLock(t)
    BY <2>5, <1>type DEF EmergencyLock, Locals
  <2>6. CASE SendPrev(t)
    BY <2>6, <1>type DEF SendPrev
  <2>7. CASE SendInterp(t)
    BY <2>7, <1>type DEF SendInterp
  <2>8. CASE SendClipPos(t)
    BY <2>8, <1>type DEF SendClipPos
  <2>9. CASE SendClipVel(t)
    BY <2>9, <1>type DEF SendClipVel
  <2>10. CASE SendMotor(t)
    BY <2>10, <1>type DEF SendMotor
  <2>11. CASE UpdateJointState(t)
    BY <2>11, <1>type DEF UpdateJointState
  <2>12. CASE SetGainEnter(t)
    BY <2>12, <1>type DEF SetGainEnter
  <2>13. CASE SetGainReadState(t)
    BY <2>13, <1>type DEF SetGainReadState
  <2>14. CASE SetGainReadCmd(t)
    BY <2>14, <1>type DEF SetGainReadCmd
  <2>15. CASE SetGainReject(t)
    BY <2>15, <1>type DEF SetGainReject
  <2>16. CASE SetGainStore(t)
    BY <2>16, <1>type DEF SetGainStore, AfterGain
  <2>17. CASE FixOutput(t)
    BY <2>17, <1>type DEF FixOutput
  <2>18. CASE Wake(t)
    BY <2>18, <1>type DEF Wake
  <2>19. CASE SetToDampingReadState(t)
    BY <2>19, <1>type DEF SetToDampingReadState
  <2>20. CASE SetToDampingFix(t)
    BY <2>20, <1>type DEF SetToDampingFix
  <2>21. CASE ResetReadState(t)
    BY <2>21, <1>type DEF ResetReadState
  <2>22. CASE ResetReadGain(t)
    BY <2>22, <1>type DEF ResetReadGain
  <2>23. CASE ResetRun(t)
    BY <2>23, <1>type DEF ResetRun
  <2>24. CASE ResetInit(t)
    BY <2>24, <1>type DEF ResetInit
  <2>25. CASE ResetRamp(t)
    BY <2>25, <1>type DEF ResetRamp
  <2>26. CASE ResetFinal(t)
    BY <2>26, <1>type DEF ResetFinal
  <2>27. CASE ResetRestore(t)
    BY <2>27, <1>type DEF ResetRestore
  <2>28. CASE SetCmdReadState(t)
    BY <2>28, <1>type DEF SetCmdReadState
  <2>29. CASE SetCmdStore(t)
    BY <2>29, <1>type DEF SetCmdStore
  <2>30. CASE DestroyRun(t)
    BY <2>30, <1>type DEF DestroyRun
  <2>31. CASE DestroyFlag(t)
    BY <2>31, <1>type DEF DestroyFlag
  <2>32. CASE DestroyJoin(t)
    BY <2>32, <1>type DEF DestroyJoin
  <2>33. CASE ResetRefused(t)
    BY <2>33, <1>type DEF ResetRefused
  <2> QED
    BY <1>2, <2>1, <2>2, <2>3, <2>4, <2>5, <2>6, <2>7, <2>8, <2>9, <2>10, <2>11, <2>12, <2>13, <2>14, <2>15, <2>16, <2>17, <2>18, <2>19, <2>20, <2>21, <2>22, <2>23, <2>24, <2>25, <2>26, <2>27, <2>28, <2>29, <2>30, <2>31, <2>32, <2>33 DEF Step, SendRecv, Method
<1>3. ASSUME NEW c \in Clients, CallMethod(c) PROVE LockInv'
  <2> c \in Threads
    BY DEF Threads
  <2>1. CASE CallSetGain(c)
    BY <2>1, <1>type, ThreadAssumption DEF CallSetGain, Call, AllOps
  <2>2. CASE CallSetToDamping(c)
    BY <2>2, <1>type, ThreadAssumption DEF CallSetToDamping, Call, AllOps
  <2>3. CASE CallResetToHome(c)
    BY <2>3, <1>type, ThreadAssumption DEF CallResetToHome, Call, AllOps
  <2>4. CASE CallSetCmd(c)
    BY <2>4, <1>type, ThreadAssumption DEF CallSetCmd, Call, AllOps
  <2>5. CASE CallRecvOnce(c)
    BY <2>5, <1>type, ThreadAssumption DEF CallRecvOnce, Call, AllOps
  <2>6. CASE CallSendRecvOnce(c)
    BY <2>6, <1>type, ThreadAssumption DEF CallSendRecvOnce, Call, AllOps
  <2>7. CASE CallDestroy(c)
    BY <2>7, <1>type, ThreadAssumption DEF CallDestroy, Call, AllOps
  <2> QED
    BY <1>3, <2>1, <2>2, <2>3, <2>4, <2>5, <2>6, <2>7 DEF CallMethod
<1>4. CASE UNCHANGED vars
  BY <1>4 DEF vars
<1> QED
  BY <1>1, <1>2, <1>3, <1>4 DEF Next

\* An owner of a mutex does not wait for the other one, outside the emergency routine.
LEMMA NoWaitCycleFromLocks == TypeOK /\ LockInv => NoWaitCycle
<1> SUFFICES ASSUME TypeOK, LockInv, ~Emergency,
                    NEW t \in Threads, Blocker(t) # NoThread
             PROVE  Blocker(Blocker(t)) = NoThread
  BY DEF NoWaitCycle
<1>1. cmdMutex = NoThread
  BY DEF TypeOK, LockInv, Owners, Emergency
<1>2. stateMutex # NoThread /\ Blocker(t) = stateMutex
  BY <1>1 DEF Blocker
<1>3. pc[stateMutex] \in {"sanity_cmd", "sanity_rest", "send_clip_vel"}
  BY <1>2 DEF TypeOK, LockInv, Owners, Emergency
<1> QED
  BY <1>1, <1>2, <1>3 DEF Blocker, NeedsState, NeedsCmd

\* However many clients call the controller, and whatever they call, a thread waits
\* for a mutex whose owner waits in turn only when the emergency routine is entered.
THEOREM LocksAreGranted == Spec => []NoWaitCycle
<1>1. Spec => [](TypeOK /\ LockInv)
  BY TypeInit, TypeStep, LockInit, LockStep, PTL DEF Spec
<1> QED
  BY <1>1, NoWaitCycleFromLocks, PTL

-----------------------------------------------------------------------------
(* The commands *)

\* The cartesian controller, and a joint controller whose clients leave the bus to
\* the background loop.
OnlyLoopSends == Ops \cap {"recv_once", "send_recv_once"} = {}

BusLabels == SendLabels \cup
  {"over_current", "sanity", "sanity_cmd", "sanity_rest", "em_lock", "recv"}

\* Only the background thread checks, sends and receives.
Roles ==
  /\ \A c \in Clients :
       /\ pc[c] \notin BusLabels \cup {"loop", "done"}
       /\ job[c] \notin {"loop", "emergency", "recv_once", "send_recv_once"}
  /\ \/ job[Background] = "loop" /\ pc[Background] \in BusLabels \cup {"loop", "done"}
     \/ InEmergency(Background)

\* A position that may be commanded with any gain, given the previous command.
Safe(p) == \/ p = jointState.pos
           \/ InLimits(p) /\ (Dist(p, sent.pos) <= VelStep \/ ~InLimits(sent.pos))

\* The output command is the last one sent, but for the stages of its update.
Stages ==
  /\ pc[Background] \notin {"send_clip_pos", "send_clip_vel", "send_motor"} =>
       outputCmd = sent.pos
  /\ pc[Background] \in {"send_interp", "send_clip_pos", "send_clip_vel"} =>
       local[Background].prev = sent.pos
  /\ pc[Background] = "send_clip_vel" => InLimits(outputCmd)
  /\ pc[Background] = "send_motor" => Safe(outputCmd)

\* What each check of a pass has established for the rest of the pass.
Checked ==
  job[Background] = "loop" =>
    /\ pc[Background] \in SendLabels \cup {"sanity", "sanity_cmd", "sanity_rest"} =>
         (OverCurrent(jointState.health) => overCurrentCnt \in 1 .. OverCurrentCntMax)
    /\ pc[Background] \in SendLabels \cup {"sanity_cmd", "sanity_rest"} =>
         jointState.health # "pos_error"
    /\ pc[Background] \in SendLabels =>
         jointState.health \notin {"torque_error", "gripper_error"}

SendInv == Roles /\ Stages /\ Checked

\* The clipping of positions yields one within the limits.
LEMMA ClampInLimits ==
  ASSUME NEW p \in Int
  PROVE  Clamp(p) \in Int /\ InLimits(Clamp(p))
BY PositionAssumption DEF Clamp, InLimits

\* The velocity clipping keeps a position within the limits, and within a step of
\* the previous command when that one was within the limits too.
LEMMA LimitedIsSafe ==
  ASSUME NEW prev \in Int, NEW p \in Int, InLimits(p)
  PROVE  /\ InLimits(Limited(prev, p))
         /\ Dist(Limited(prev, p), prev) <= VelStep \/ ~InLimits(prev)
BY PositionAssumption DEF Limited, Clamp, InLimits, Dist

\* The first output command is the measured position.
LEMMA SendInit == Init => SendInv
<1> SUFFICES ASSUME Init PROVE SendInv
  OBVIOUS
<1>1. pc[Background] = "loop" /\ job[Background] = "loop" /\ outputCmd = sent.pos
  BY DEF Init, Threads
<1>2. \A c \in Clients : pc[c] = "idle" /\ job[c] = "none"
  BY ThreadAssumption DEF Init, Threads
<1> QED
  BY <1>1, <1>2 DEF SendInv, Roles, Stages, Checked, BusLabels, SendLabels

\* What a step of a client leaves as it is.
ClientFrame ==
  /\ pc'[Background] = pc[Background] /\ job'[Background] = job[Background]
  /\ local'[Background] = local[Background]
  /\ UNCHANGED <<overCurrentCnt, jointState, outputCmd, sent>>

\* What a client leaves as it is is all that the stages and the checks speak of.
LEMMA FramePreserves ==
  ClientFrame /\ Stages /\ Checked => Stages' /\ Checked'
BY DEF ClientFrame, Stages, Checked, Safe

\* A client keeps off the bus and leaves the pass under way as it is.
LEMMA ClientStep ==
  ASSUME OnlyLoopSends, TypeOK, SendInv, NEW c \in Clients, Step(c) \/ CallMethod(c)
  PROVE  ClientFrame /\ Roles'
<1> USE DEF mutexes, flags, command, Goto, Finish, EnterEmergency, InEmergency,
            Roles, ClientFrame, BusLabels, SendLabels
<1>type. /\ pc \in [Threads -> Labels]
         /\ job \in [Threads -> AllOps \cup {"loop", "none", "emergency"}]
         /\ local \in [Threads -> Locals]
         /\ c \in Threads /\ Background \in Threads /\ c # Background
         /\ Clients \subseteq Threads
         /\ Roles
  BY ThreadAssumption DEF TypeOK, Threads, SendInv
<1>1. ~SendRecv(c)
  BY <1>type DEF SendRecv, OverCurrentProtection, SanityPos, SanityCmd, SanityRest, EmergencyLock, SendPrev, SendInterp, SendClipPos, SendClipVel, SendMotor, UpdateJointState
<1>2. CASE SetGainEnter(c)
  BY <1>2, <1>type DEF SetGainEnter
<1>3. CASE SetGainReadState(c)
  BY <1>3, <1>type DEF SetGainReadState
<1>4. CASE SetGainReadCmd(c)
  BY <1>4, <1>type DEF SetGainReadCmd
<1>5. CASE SetGainReject(c)
  BY <1>5, <1>type DEF SetGainReject
<1>6. CASE SetGainStore(c)
  <2>1. ClientFrame
    BY <1>6, <1>type DEF SetGainStore, AfterGain
  <2>2. \A d \in Clients : d # c => pc'[d] = pc[d] /\ job'[d] = job[d]
    BY <1>6, <1>type DEF SetGainStore, AfterGain
  <2>3. pc'[c] \in {"sg_enter", "rh_final", "idle", "rh_ramp", "sleep", "fix_output"}
    BY <1>6, <1>type DEF SetGainStore, AfterGain
  <2>4. job'[c] \in {job[c], "none"}
    BY <1>6, <1>type DEF SetGainStore, AfterGain
  <2> QED
    BY <1>type, <2>1, <2>2, <2>3, <2>4
<1>7. CASE FixOutput(c)
  BY <1>7, <1>type DEF FixOutput
<1>8. CASE Wake(c)
  BY <1>8, <1>type DEF Wake
<1>9. CASE SetToDampingReadState(c)
  BY <1>9, <1>type DEF SetToDampingReadState
<1>10. CASE SetToDampingFix(c)
  BY <1>10, <1>type DEF SetToDampingFix
<1>11. CASE ResetReadState(c)
  BY <1>11, <1>type DEF ResetReadState
<1>12. CASE ResetReadGain(c)
  BY <1>12, <1>type DEF ResetReadGain
<1>13. CASE ResetRun(c)
  BY <1>13, <1>type DEF ResetRun
<1>14. CASE ResetInit(c)
  BY <1>14, <1>type DEF ResetInit
<1>15. CASE ResetRamp(c)
  <2>1. ClientFrame
    BY <1>15, <1>type DEF ResetRamp
  <2>2. \A d \in Clients : d # c => pc'[d] = pc[d] /\ job'[d] = job[d]
    BY <1>15, <1>type DEF ResetRamp
  <2>3. pc'[c] \in {"sg_enter", "rh_final", "idle", "rh_ramp", "sleep", "fix_output"}
    BY <1>15, <1>type DEF ResetRamp
  <2>4. job'[c] \in {job[c], "none"}
    BY <1>15, <1>type DEF ResetRamp
  <2> QED
    BY <1>type, <2>1, <2>2, <2>3, <2>4
<1>16. CASE ResetFinal(c)
  BY <1>16, <1>type DEF ResetFinal
<1>30. CASE ResetRefused(c)
  BY <1>30, <1>type DEF ResetRefused
<1>17. CASE ResetRestore(c)
  BY <1>17, <1>type DEF ResetRestore
<1>18. CASE SetCmdReadState(c)
  BY <1>18, <1>type DEF SetCmdReadState
<1>19. CASE SetCmdStore(c)
  BY <1>19, <1>type DEF SetCmdStore
<1>20. CASE DestroyRun(c)
  BY <1>20, <1>type DEF DestroyRun
<1>21. CASE DestroyFlag(c)
  BY <1>21, <1>type DEF DestroyFlag
<1>22. CASE DestroyJoin(c)
  BY <1>22, <1>type DEF DestroyJoin
<1>23. CASE CallSetGain(c)
  BY <1>23, <1>type DEF CallSetGain, Call, OnlyLoopSends
<1>24. CASE CallSetToDamping(c)
  BY <1>24, <1>type DEF CallSetToDamping, Call, OnlyLoopSends
<1>25. CASE CallResetToHome(c)
  BY <1>25, <1>type DEF CallResetToHome, Call, OnlyLoopSends
<1>26. CASE CallSetCmd(c)
  BY <1>26, <1>type DEF CallSetCmd, Call, OnlyLoopSends
<1>27. CASE CallRecvOnce(c)
  BY <1>27, <1>type DEF CallRecvOnce, Call, OnlyLoopSends
<1>28. CASE CallSendRecvOnce(c)
  BY <1>28, <1>type DEF CallSendRecvOnce, Call, OnlyLoopSends
<1>29. CASE CallDestroy(c)
  BY <1>29, <1>type DEF CallDestroy, Call, OnlyLoopSends
<1> QED
  BY <1>1, <1>2, <1>3, <1>4, <1>5, <1>6, <1>7, <1>8, <1>9, <1>10, <1>11, <1>12, <1>13, <1>14, <1>15, <1>16, <1>17, <1>18, <1>19, <1>20, <1>21, <1>22, <1>23, <1>24, <1>25, <1>26, <1>27, <1>28, <1>29, <1>30 DEF Step, Method, CallMethod

\* The background thread goes from stage to stage.
LEMMA BackgroundStep ==
  ASSUME TypeOK, LockInv, SendInv, Step(Background)
  PROVE  SendInv'
<1> USE DEF mutexes, flags, command, Goto, Finish, EnterEmergency, InEmergency,
            SendInv, Roles, Stages, Checked, BusLabels, SendLabels
<1>type. /\ pc \in [Threads -> Labels]
         /\ job \in [Threads -> AllOps \cup {"loop", "none", "emergency"}]
         /\ local \in [Threads -> Locals]
         /\ jointState \in [pos : Int, health : AllHealths]
         /\ sent \in [kp : Int, pos : Int]
         /\ outputCmd \in Int /\ interp \in [from : Int, to : Int]
         /\ overCurrentCnt \in Nat
         /\ Background \in Threads /\ Background \notin Clients /\ Clients \subseteq Threads
         /\ OverCurrentCntMax \in Nat
  BY ThreadAssumption, ConfigAssumption DEF TypeOK, Threads
<1>em. /\ InEmergency(Background) =>
           /\ pc[Background] \in EmergencyLabels
           /\ pc[Background] = "sg_enter" => local[Background].kp = 0
       /\ pc[Background] = "em_lock" => InEmergency(Background)
  BY <1>type DEF LockInv, EmergencyPath
<1> USE DEF EmergencyLabels
<1>1. CASE OverCurrentProtection(Background)
  BY <1>1, <1>type, <1>em DEF OverCurrentProtection, AfterOverCurrent, NextCount, OverCurrent
<1>2. CASE SanityPos(Background)
  BY <1>2, <1>type, <1>em DEF SanityPos
<1>3. CASE SanityCmd(Background)
  BY <1>3, <1>type, <1>em DEF SanityCmd
<1>4. CASE SanityRest(Background)
  BY <1>4, <1>type, <1>em DEF SanityRest
<1>5. CASE EmergencyLock(Background)
  BY <1>5, <1>type, <1>em DEF EmergencyLock
<1>6. CASE SendPrev(Background)
  BY <1>6, <1>type, <1>em DEF SendPrev
<1>7. CASE SendInterp(Background)
  BY <1>7, <1>type, <1>em DEF SendInterp
<1>8. CASE SendClipPos(Background)
  BY <1>8, <1>type, <1>em, ClampInLimits DEF SendClipPos
<1>9. CASE SendClipVel(Background)
  BY <1>9, <1>type, <1>em, LimitedIsSafe DEF SendClipVel, Safe
<1>10. CASE SendMotor(Background)
  BY <1>10, <1>type, <1>em DEF SendMotor
<1>11. CASE UpdateJointState(Background)
  BY <1>11, <1>type, <1>em DEF UpdateJointState
<1>12. CASE SetGainEnter(Background)
  BY <1>12, <1>type, <1>em DEF SetGainEnter
<1>13. CASE SetGainStore(Background)
  BY <1>13, <1>type, <1>em DEF SetGainStore, AfterGain
<1>14. CASE FixOutput(Background)
  BY <1>14, <1>type, <1>em DEF FixOutput
<1>15. ~(\/ SetGainReadState(Background) \/ SetGainReadCmd(Background) \/ SetGainReject(Background) \/ Wake(Background)
       \/ SetToDampingReadState(Background) \/ SetToDampingFix(Background) \/ ResetReadState(Background) \/ ResetReadGain(Background)
       \/ ResetRun(Background) \/ ResetInit(Background) \/ ResetRamp(Background) \/ ResetFinal(Background)
       \/ ResetRefused(Background) \/ ResetRestore(Background) \/ SetCmdReadState(Background) \/ SetCmdStore(Background) \/ DestroyRun(Background)
       \/ DestroyFlag(Background) \/ DestroyJoin(Background))
  BY <1>type, <1>em DEF SetGainReadState, SetGainReadCmd, SetGainReject, Wake, SetToDampingReadState, SetToDampingFix, ResetReadState, ResetReadGain, ResetRun, ResetInit, ResetRamp, ResetFinal, ResetRefused, ResetRestore, SetCmdReadState, SetCmdStore, DestroyRun, DestroyFlag, DestroyJoin
<1> QED
  BY <1>1, <1>2, <1>3, <1>4, <1>5, <1>6, <1>7, <1>8, <1>9, <1>10, <1>11, <1>12, <1>13, <1>14, <1>15 DEF Step, SendRecv, Method

\* So every step keeps the invariant of the commands.
LEMMA SendStep ==
  ASSUME OnlyLoopSends
  PROVE  TypeOK /\ LockInv /\ SendInv /\ [Next]_vars => SendInv'
<1> SUFFICES ASSUME TypeOK, LockInv, SendInv, [Next]_vars PROVE SendInv'
  OBVIOUS
<1>1. CASE LoopHead
  <2>1. /\ pc \in [Threads -> Labels] /\ Background \in Threads
        /\ Background \notin Clients /\ Clients \subseteq Threads
    BY ThreadAssumption DEF TypeOK, Threads
  <2>2. job[Background] = "loop"
    BY <1>1, <2>1 DEF LoopHead, LockInv, EmergencyPath, EmergencyLabels, SendLabels, SendInv, Roles
  <2>3. /\ pc'[Background] \in {"loop", "done", "over_current"}
        /\ \A c \in Clients : pc'[c] = pc[c]
        /\ UNCHANGED <<job, overCurrentCnt, jointState, outputCmd, sent>>
    BY <1>1, <2>1 DEF LoopHead, Goto, command
  <2>4. outputCmd = sent.pos
    BY <1>1 DEF LoopHead, SendInv, Stages
  <2> QED
    BY <2>2, <2>3, <2>4 DEF SendInv, Roles, Stages, Checked, BusLabels, SendLabels
<1>2. ASSUME NEW c \in Clients, Step(c) \/ CallMethod(c) PROVE SendInv'
  BY <1>2, ClientStep, FramePreserves DEF SendInv
<1>3. CASE Step(Background)
  BY <1>3, BackgroundStep
<1>4. CASE UNCHANGED vars
  BY <1>4 DEF vars, command, SendInv, Roles, Stages, Checked, Safe, InEmergency
<1> QED
  BY <1>1, <1>2, <1>3, <1>4 DEF Next, Threads

\* Only SendMotor sends, and what it sends is safe.
LEMMA SentIsSafe ==
  ASSUME OnlyLoopSends, TypeOK, LockInv, SendInv, [Next]_vars, sent' # sent
  PROVE  Safe(sent'.pos)
<1>1. ~(UNCHANGED vars \/ LoopHead)
  BY DEF vars, LoopHead
<1>2. ASSUME NEW c \in Clients, Step(c) \/ CallMethod(c) PROVE FALSE
  BY <1>2, ClientStep DEF ClientFrame
<1>3. Step(Background)
  BY <1>1, <1>2 DEF Next, Threads
<1>4. CASE SendMotor(Background)
  BY <1>4 DEF SendMotor, SendInv, Stages
<1>5. CASE SendRecv(Background) /\ ~SendMotor(Background)
  BY <1>5 DEF SendRecv, OverCurrentProtection, SanityPos, SanityCmd, SanityRest, EmergencyLock, SendPrev, SendInterp, SendClipPos, SendClipVel, UpdateJointState, command
<1>6. CASE Method(Background)
  BY <1>6 DEF Method, SetGainEnter, SetGainReadState, SetGainReadCmd, SetGainReject, SetGainStore, FixOutput, Wake, SetToDampingReadState, SetToDampingFix, ResetReadState, ResetReadGain, ResetRun, ResetInit, ResetRamp, ResetFinal, ResetRefused, ResetRestore, SetCmdReadState, SetCmdStore, DestroyRun, DestroyFlag, DestroyJoin, command
<1> QED
  BY <1>3, <1>4, <1>5, <1>6 DEF Step

\* OnlyLoopSends is constant: as a conjunct it is there in every state.
LoopSendInv == OnlyLoopSends /\ SendInv

\* It holds always when only the loop sends.
LEMMA CommandInvariant == OnlyLoopSends /\ Spec => [](TypeOK /\ LockInv /\ LoopSendInv)
<1>1. OnlyLoopSends /\ Init => LoopSendInv
  BY SendInit DEF LoopSendInv
<1>2. TypeOK /\ LockInv /\ LoopSendInv /\ [Next]_vars => LoopSendInv'
  <2>1. OnlyLoopSends => OnlyLoopSends'
    BY DEF OnlyLoopSends
  <2> QED
    BY <2>1, SendStep DEF LoopSendInv
<1> QED
  BY <1>1, <1>2, TypeInit, TypeStep, LockInit, LockStep, PTL DEF Spec

\* As long as the clients leave the bus to the loop, every command with a non-zero
\* gain holds the measured position or obeys the joint and velocity limits.
THEOREM CommandsAreSafe == OnlyLoopSends /\ Spec => SafeCommand
<1>1. TypeOK /\ LockInv /\ LoopSendInv /\ [Next]_vars =>
        [sent'.kp > 0 => \/ sent'.pos = jointState.pos
                         \/ /\ InLimits(sent'.pos)
                            /\ Dist(sent'.pos, sent.pos) <= VelStep \/ ~InLimits(sent.pos)]_sent
  BY SentIsSafe DEF Safe, LoopSendInv
<1> QED
  BY <1>1, CommandInvariant, PTL DEF Spec, SafeCommand

\* ... and no reading that fails a check reaches a motor command.
THEOREM ReadingsAreChecked == OnlyLoopSends /\ Spec => []SanitizedSend
<1>1. TypeOK /\ LoopSendInv => SanitizedSend
  BY DEF TypeOK, LoopSendInv, SendInv, Roles, Checked, SanitizedSend, AllHealths
<1> QED
  BY <1>1, CommandInvariant, PTL

-----------------------------------------------------------------------------
(* The methods: shutdown, damping and homing *)

SetGainLabels == {"sg_enter", "sg_state", "sg_cmd", "sg_reject", "sg_store"}

\* The steps of a pass up to its motor command.
BeforeMotor == SendLabels \cup {"over_current", "sanity", "sanity_cmd", "sanity_rest"}

\* The steps before the sleep, which damping goes through with kp = 0.
BeforeSleep == {"sg_enter", "sg_store", "fix_output", "dt_run"}

\* Where a client is in the method it runs.
At(c) ==
  /\ job[c] # "loop"
  /\ job[c] = "none" => pc[c] = "idle" /\ local[c] = Fresh
  /\ job[c] = "set_gain" => pc[c] \in SetGainLabels
  /\ job[c] = "reset_to_home" => pc[c] \in SetGainLabels \cup
       {"rh_state", "rh_gain", "rh_run", "rh_init", "rh_ramp", "rh_final", "rh_restore"}
  /\ job[c] = "set_to_damping" => pc[c] \in {"sg_enter", "sg_store", "sleep", "sd_state", "sd_fix"}
  /\ job[c] = "set_cmd" => pc[c] \in {"sc_state", "sc_store"}
  /\ job[c] \in {"recv_once", "send_recv_once"} => pc[c] \in BeforeMotor \cup {"recv"}
  /\ job[c] = "destroy" => pc[c] \in BeforeSleep \cup {"sleep", "dt_flag", "dt_join", "gone"}
  /\ job[c] \in {"destroy", "set_to_damping"} /\ pc[c] \in BeforeSleep => local[c] = Fresh

\* The background thread runs its loop, or the emergency routine for ever.
LoopAt ==
  \/ job[Background] = "loop" /\ pc[Background] \in BeforeMotor \cup {"recv", "loop", "done"}
  \/ InEmergency(Background)

\* The emergency routine calls set_gain with the mutex it needs.
HoldsCmd ==
  \A t \in Threads : InEmergency(t) /\ pc[t] \in {"sg_enter", "sg_store", "fix_output"} => cmdMutex = t

\* The loop ends for the destructor only, and nothing else runs beside that one.
Ending ==
  /\ destroy \/ pc[Background] = "done" =>
       destroy /\ \E c \in Clients : job[c] = "destroy" /\ pc[c] \in {"dt_join", "gone"}
  /\ \A c \in Clients : job[c] = "destroy" =>
       /\ \A d \in Clients : d # c => pc[d] = "idle"
       /\ pc[c] \notin {"dt_join", "gone"} => ~destroy

OneClient == \A c, d \in Clients : c = d

\* A client whose damping no other client can undo.
Damping(c) == \/ job[c] = "destroy" /\ ShutdownToPassive
              \/ job[c] = "set_to_damping" /\ OneClient

\* A pass that begins after the sleep ends in a command with the zero gain.
Damps(c) ==
  Damping(c) /\ ~InEmergency(Background) =>
    /\ pc[c] \notin {"sg_enter", "sg_store"} => gain = 0
    /\ pc[c] = "sleep" /\ running =>
         /\ local[c].slept >= 1 => sent.kp = 0 \/ pc[Background] \in BeforeMotor
         /\ local[c].slept >= 2 => sent.kp = 0
    /\ pc[c] \in {"sd_state", "sd_fix", "dt_flag", "dt_join", "gone"} /\ running => sent.kp = 0
    /\ pc[c] \in {"sleep", "dt_flag", "dt_join", "gone"} /\ job[c] = "destroy" => running

\* The ramp: the gain is the one of the step before, and the loop runs.
Ramps(c) ==
  OneClient /\ DefaultKp # 0 /\ job[c] = "reset_to_home" =>
    /\ local[c].i <= StepNum + 1
    /\ pc[c] \in {"rh_state", "rh_gain", "rh_run", "rh_init"} => local[c].i = 0
    /\ pc[c] \notin {"rh_state", "rh_gain"} => local[c].target # 0
    /\ pc[c] \notin {"rh_state", "rh_gain", "rh_run"} => running
    /\ pc[c] \in SetGainLabels =>
         /\ local[c].i >= 1
         /\ local[c].kp = RampKp(local[c].init, local[c].target, local[c].i - 1)
    /\ pc[c] = "rh_ramp" /\ local[c].i >= 1 =>
         gain = RampKp(local[c].init, local[c].target, local[c].i - 1)
    /\ pc[c] \in {"rh_final", "rh_restore"} => gain = local[c].target

MethodInv == /\ \A c \in Clients : At(c) /\ Damps(c) /\ Ramps(c)
             /\ LoopAt /\ HoldsCmd /\ Ending

\* The last step of the ramp reaches the target.
LEMMA RampEnds ==
  ASSUME NEW from \in Int, NEW to \in Int
  PROVE  RampKp(from, to, StepNum) = to
<1>1. StepNum \in Nat \ {0}
  BY ConfigAssumption
<1>2. from * (StepNum - StepNum) + to * StepNum = to * StepNum
  BY <1>1
<1>3. \A n \in Nat \ {0} : (to * n) \div n = to
  OBVIOUS
<1> QED
  BY <1>1, <1>2, <1>3 DEF RampKp

\* What a step of a client leaves as it is, and where it takes it.
LEMMA ClientMoves ==
  ASSUME TypeOK, LockInv, NEW c \in Clients, At(c), Step(c) \/ CallMethod(c)
  PROVE  /\ \A t \in Threads : t # c =>
              pc'[t] = pc[t] /\ job'[t] = job[t] /\ local'[t] = local[t]
         /\ At(c)'
<1> USE DEF Goto, Finish, EnterEmergency, InEmergency, At, BeforeMotor, SendLabels,
            BeforeSleep, SetGainLabels
<1>type. /\ pc \in [Threads -> Labels]
         /\ job \in [Threads -> AllOps \cup {"loop", "none", "emergency"}]
         /\ local \in [Threads -> Locals]
         /\ c \in Threads /\ AllOps \cap {"loop", "none", "emergency"} = {}
  BY DEF TypeOK, Threads, AllOps
<1> USE DEF AllOps
<1>1. CASE OverCurrentProtection(c) \/ SanityPos(c) \/ SanityCmd(c)
  BY <1>1, <1>type DEF OverCurrentProtection, AfterOverCurrent, SanityPos, SanityCmd
<1>2. CASE SanityRest(c) \/ EmergencyLock(c)
  BY <1>2, <1>type DEF SanityRest, EmergencyLock, LockInv, EmergencyPath
<1>3. CASE SendPrev(c) \/ SendInterp(c) \/ SendClipPos(c) \/ SendClipVel(c) \/ SendMotor(c)
  BY <1>3, <1>type DEF SendPrev, SendInterp, SendClipPos, SendClipVel, SendMotor
<1>4. CASE UpdateJointState(c)
  BY <1>4, <1>type DEF UpdateJointState
<1>5. CASE SetGainEnter(c)
  BY <1>5, <1>type DEF SetGainEnter, Fresh
<1>6. CASE SetGainReadState(c) \/ SetGainReadCmd(c) \/ SetGainReject(c)
  BY <1>6, <1>type DEF SetGainReadState, SetGainReadCmd, SetGainReject
<1>7. CASE SetGainStore(c)
  BY <1>7, <1>type DEF SetGainStore, AfterGain
<1>8. CASE FixOutput(c) \/ Wake(c)
  BY <1>8, <1>type DEF FixOutput, Wake
<1>9. CASE SetToDampingReadState(c) \/ SetToDampingFix(c)
  BY <1>9, <1>type DEF SetToDampingReadState, SetToDampingFix
<1>10. CASE ResetReadState(c) \/ ResetReadGain(c) \/ ResetRun(c)
  BY <1>10, <1>type DEF ResetReadState, ResetReadGain, ResetRun
<1>11. CASE ResetInit(c) \/ ResetRamp(c)
  BY <1>11, <1>type DEF ResetInit, ResetRamp
<1>12. CASE ResetFinal(c) \/ ResetRefused(c) \/ ResetRestore(c)
  BY <1>12, <1>type DEF ResetFinal, ResetRefused, ResetRestore
<1>13. CASE SetCmdReadState(c) \/ SetCmdStore(c)
  BY <1>13, <1>type DEF SetCmdReadState, SetCmdStore
<1>14. CASE DestroyRun(c) \/ DestroyFlag(c) \/ DestroyJoin(c)
  BY <1>14, <1>type DEF DestroyRun, DestroyFlag, DestroyJoin
<1>15. CASE CallMethod(c)
  <2>1. pc[c] = "idle" /\ local[c] = Fresh
    BY <1>15, <1>type DEF CallMethod, Call, CallSetGain, CallSetToDamping, CallResetToHome,
       CallSetCmd, CallRecvOnce, CallSendRecvOnce, CallDestroy, LockInv, EmergencyPath, EmergencyLabels
  <2>2. \A t \in Threads : t # c => pc'[t] = pc[t] /\ job'[t] = job[t] /\ local'[t] = local[t]
    BY <1>15, <1>type DEF CallMethod, Call, CallSetGain, CallSetToDamping, CallResetToHome,
       CallSetCmd, CallRecvOnce, CallSendRecvOnce, CallDestroy
  <2>3. At(c)'
    BY <1>15, <1>type, <2>1 DEF CallMethod, Call, CallSetGain, CallSetToDamping, CallResetToHome,
       CallSetCmd, CallRecvOnce, CallSendRecvOnce, CallDestroy
  <2> QED
    BY <2>2, <2>3
<1> QED
  BY <1>1, <1>2, <1>3, <1>4, <1>5, <1>6, <1>7, <1>8, <1>9, <1>10, <1>11, <1>12, <1>13, <1>14,
     <1>15 DEF Step, SendRecv, Method

\* What a step of the background thread leaves as it is, and what it sends.
LEMMA LoopMoves ==
  ASSUME TypeOK, LockInv, LoopAt, HoldsCmd, Step(Background)
  PROVE  /\ \A c \in Clients : pc'[c] = pc[c] /\ job'[c] = job[c] /\ local'[c] = local[c]
         /\ UNCHANGED <<running, destroy, gain>> /\ LoopAt'
         /\ InEmergency(Background) => InEmergency(Background)'
         /\ pc'[Background] # "done"
         /\ sent' = sent \/ sent'.kp = gain
         /\ pc[Background] \in BeforeMotor =>
              \/ pc'[Background] \in BeforeMotor \/ sent'.kp = gain
              \/ InEmergency(Background)'
<1> USE DEF Goto, Finish, EnterEmergency, InEmergency, LoopAt, BeforeMotor, SendLabels, flags, command
<1>type. /\ pc \in [Threads -> Labels]
         /\ job \in [Threads -> AllOps \cup {"loop", "none", "emergency"}]
         /\ local \in [Threads -> Locals]
         /\ Background \in Threads /\ Background \notin Clients /\ Clients \subseteq Threads
         /\ NoThread \notin Threads
  BY ThreadAssumption DEF TypeOK, Threads
<1>em. /\ InEmergency(Background) =>
           /\ pc[Background] \in EmergencyLabels
           /\ pc[Background] = "sg_enter" => local[Background].kp = 0
           /\ pc[Background] \in {"sg_enter", "sg_store", "fix_output"} => cmdMutex = Background
       /\ pc[Background] = "em_lock" => InEmergency(Background)
  BY <1>type DEF LockInv, EmergencyPath, HoldsCmd
<1> USE DEF EmergencyLabels
<1>1. CASE OverCurrentProtection(Background) \/ SanityPos(Background) \/ SanityCmd(Background)
  BY <1>1, <1>type, <1>em DEF OverCurrentProtection, AfterOverCurrent, SanityPos, SanityCmd
<1>2. CASE SanityRest(Background) \/ EmergencyLock(Background)
  BY <1>2, <1>type, <1>em DEF SanityRest, EmergencyLock
<1>3. CASE SendPrev(Background) \/ SendInterp(Background) \/ SendClipPos(Background)
           \/ SendClipVel(Background) \/ SendMotor(Background)
  BY <1>3, <1>type, <1>em DEF SendPrev, SendInterp, SendClipPos, SendClipVel, SendMotor
<1>4. CASE UpdateJointState(Background)
  BY <1>4, <1>type, <1>em DEF UpdateJointState
<1>5. CASE SetGainEnter(Background) \/ FixOutput(Background)
  BY <1>5, <1>type, <1>em DEF SetGainEnter, FixOutput
<1>6. ~SetGainStore(Background)
  BY <1>type, <1>em DEF SetGainStore
<1>7. ~(\/ SetGainReadState(Background) \/ SetGainReadCmd(Background) \/ SetGainReject(Background) \/ Wake(Background)
       \/ SetToDampingReadState(Background) \/ SetToDampingFix(Background) \/ ResetReadState(Background) \/ ResetReadGain(Background)
       \/ ResetRun(Background) \/ ResetInit(Background) \/ ResetRamp(Background) \/ ResetFinal(Background)
       \/ ResetRefused(Background) \/ ResetRestore(Background) \/ SetCmdReadState(Background) \/ SetCmdStore(Background) \/ DestroyRun(Background)
       \/ DestroyFlag(Background) \/ DestroyJoin(Background))
  BY <1>type, <1>em DEF SetGainReadState, SetGainReadCmd, SetGainReject, Wake, SetToDampingReadState, SetToDampingFix, ResetReadState, ResetReadGain, ResetRun, ResetInit, ResetRamp, ResetFinal, ResetRefused, ResetRestore, SetCmdReadState, SetCmdStore, DestroyRun, DestroyFlag, DestroyJoin
<1> QED
  BY <1>1, <1>2, <1>3, <1>4, <1>5, <1>6, <1>7 DEF Step, SendRecv, Method

\* Only a thread that finds cmd_mutex_ free takes it, and the emergency routine keeps it.
LEMMA HoldsStep ==
  ASSUME TypeOK, LockInv, HoldsCmd, NEW t \in Threads,
         Step(t) \/ CallMethod(t)
  PROVE  HoldsCmd'
<1> USE DEF Goto, Finish, EnterEmergency, InEmergency, HoldsCmd, mutexes, flags, command
<1>type. /\ pc \in [Threads -> Labels]
         /\ job \in [Threads -> AllOps \cup {"loop", "none", "emergency"}]
         /\ NoThread \notin Threads /\ t \in Threads
  BY ThreadAssumption DEF TypeOK, Threads
<1>em. /\ InEmergency(t) =>
            /\ pc[t] \in EmergencyLabels
            /\ pc[t] \in {"sg_enter", "sg_store", "fix_output"} => cmdMutex = t
  BY <1>type DEF LockInv, EmergencyPath
<1> USE DEF EmergencyLabels, SendLabels
<1>1. CASE OverCurrentProtection(t) \/ SanityPos(t) \/ SanityCmd(t) \/ SanityRest(t)
  BY <1>1, <1>type, <1>em DEF OverCurrentProtection, AfterOverCurrent, SanityPos, SanityCmd, SanityRest
<1>2. CASE EmergencyLock(t)
  BY <1>2, <1>type, <1>em DEF EmergencyLock
<1>3. CASE SendPrev(t) \/ SendInterp(t) \/ SendClipPos(t) \/ SendClipVel(t) \/ SendMotor(t)
  BY <1>3, <1>type, <1>em DEF SendPrev, SendInterp, SendClipPos, SendClipVel, SendMotor
<1>4. CASE UpdateJointState(t)
  BY <1>4, <1>type, <1>em DEF UpdateJointState
<1>5. CASE SetGainEnter(t) \/ SetGainReadState(t) \/ SetGainReadCmd(t) \/ SetGainReject(t)
  BY <1>5, <1>type, <1>em DEF SetGainEnter, SetGainReadState, SetGainReadCmd, SetGainReject
<1>6. CASE SetGainStore(t)
  BY <1>6, <1>type, <1>em DEF SetGainStore, AfterGain
<1>7. CASE FixOutput(t) \/ Wake(t)
  BY <1>7, <1>type, <1>em DEF FixOutput, Wake
<1>8. CASE SetToDampingReadState(t) \/ SetToDampingFix(t)
  BY <1>8, <1>type, <1>em DEF SetToDampingReadState, SetToDampingFix
<1>9. CASE ResetReadState(t) \/ ResetReadGain(t) \/ ResetRun(t) \/ ResetInit(t)
  BY <1>9, <1>type, <1>em DEF ResetReadState, ResetReadGain, ResetRun, ResetInit
<1>10. CASE ResetRamp(t)
  BY <1>10, <1>type, <1>em DEF ResetRamp
<1>11. CASE ResetFinal(t) \/ ResetRefused(t) \/ ResetRestore(t)
  BY <1>11, <1>type, <1>em DEF ResetFinal, ResetRefused, ResetRestore
<1>12. CASE SetCmdReadState(t) \/ SetCmdStore(t)
  BY <1>12, <1>type, <1>em DEF SetCmdReadState, SetCmdStore
<1>13. CASE DestroyRun(t) \/ DestroyFlag(t) \/ DestroyJoin(t)
  BY <1>13, <1>type, <1>em DEF DestroyRun, DestroyFlag, DestroyJoin
<1>14. CASE CallMethod(t)
  <2>1. cmdMutex' = cmdMutex /\ job' = [job EXCEPT ![t] = job'[t]] /\ job'[t] \in AllOps
        /\ \A u \in Threads : u # t => pc'[u] = pc[u]
    BY <1>14, <1>type, ThreadAssumption DEF CallMethod, Call, CallSetGain, CallSetToDamping,
       CallResetToHome, CallSetCmd, CallRecvOnce, CallSendRecvOnce, CallDestroy
  <2>2. job'[t] # "emergency"
    BY <2>1 DEF AllOps
  <2> QED
    BY <1>type, <2>1, <2>2
<1> QED
  BY <1>1, <1>2, <1>3, <1>4, <1>5, <1>6, <1>7, <1>8, <1>9, <1>10, <1>11, <1>12, <1>13, <1>14
  DEF Step, SendRecv, Method

\* A client that runs no method takes no step of one.
LEMMA IdleStays ==
  ASSUME NEW c \in Threads, pc[c] = "idle"
  PROVE  ~Step(c)
BY DEF Step, SendRecv, Method, OverCurrentProtection, SanityPos, SanityCmd, SanityRest, EmergencyLock,
   SendPrev, SendInterp, SendClipPos, SendClipVel, SendMotor, UpdateJointState, SetGainEnter,
   SetGainReadState, SetGainReadCmd, SetGainReject, SetGainStore, FixOutput, Wake,
   SetToDampingReadState, SetToDampingFix, ResetReadState, ResetReadGain, ResetRun, ResetInit,
   ResetRamp, ResetFinal, ResetRefused, ResetRestore, SetCmdReadState, SetCmdStore, DestroyRun, DestroyFlag, DestroyJoin

\* No other client moves once one destroys the object.
LEMMA Alone ==
  ASSUME Ending, NEW c \in Clients, NEW d \in Clients, job[d] = "destroy", Step(c) \/ CallMethod(c)
  PROVE  c = d /\ Step(c)
<1>1. ~CallMethod(c)
  BY DEF CallMethod, Call, CallSetGain, CallSetToDamping, CallResetToHome, CallSetCmd,
     CallRecvOnce, CallSendRecvOnce, CallDestroy
<1>2. c \in Threads
  BY DEF Threads
<1>3. pc[c] # "idle"
  BY <1>1, <1>2, IdleStays
<1> QED
  BY <1>1, <1>3 DEF Ending

\* The flag that ends the loop is set by the destructor only.
LEMMA Flagged ==
  ASSUME TypeOK, LockInv, NEW c \in Clients, At(c), Step(c) \/ CallMethod(c), destroy' # destroy
  PROVE  job[c] = "destroy" /\ job'[c] = "destroy" /\ pc'[c] = "dt_join"
<1>type. /\ pc \in [Threads -> Labels]
         /\ job \in [Threads -> AllOps \cup {"loop", "none", "emergency"}]
         /\ c \in Threads
  BY DEF TypeOK, Threads
<1>1. ~CallMethod(c)
  BY DEF CallMethod, Call, CallSetGain, CallSetToDamping, CallResetToHome, CallSetCmd,
     CallRecvOnce, CallSendRecvOnce, CallDestroy, flags
<1>2. ~SendRecv(c)
  BY DEF SendRecv, OverCurrentProtection, SanityPos, SanityCmd, SanityRest, EmergencyLock,
     SendPrev, SendInterp, SendClipPos, SendClipVel, SendMotor, UpdateJointState, flags
<1>3. DestroyFlag(c)
  BY <1>1, <1>2 DEF Step, Method, SetGainEnter, SetGainReadState, SetGainReadCmd, SetGainReject,
     SetGainStore, FixOutput, Wake, SetToDampingReadState, SetToDampingFix, ResetReadState,
     ResetReadGain, ResetRun, ResetInit, ResetRamp, ResetFinal, ResetRefused, ResetRestore, SetCmdReadState,
     SetCmdStore, DestroyRun, DestroyJoin, flags
<1>4. pc[c] = "dt_flag" /\ pc'[c] = "dt_join" /\ job' = job
  BY <1>3, <1>type DEF DestroyFlag, Goto
<1>5. job[c] # "emergency"
  BY <1>4, <1>type DEF LockInv, EmergencyPath, InEmergency, EmergencyLabels, SendLabels
<1>6. job[c] = "destroy"
  BY <1>4, <1>5, <1>type DEF At, AllOps, SetGainLabels, BeforeMotor, SendLabels
<1> QED
  BY <1>4, <1>6

\* A client sets the flag that ends the loop only as the last one, and as the destructor.
LEMMA EndingStep ==
  ASSUME TypeOK, LockInv, MethodInv, NEW c \in Clients, Step(c) \/ CallMethod(c)
  PROVE  Ending'
<1>type. /\ c \in Threads /\ Background \in Threads /\ c # Background /\ Clients \subseteq Threads
         /\ pc \in [Threads -> Labels]
         /\ job \in [Threads -> AllOps \cup {"loop", "none", "emergency"}]
  BY ThreadAssumption DEF TypeOK, Threads
<1>1. \A t \in Threads : t # c => pc'[t] = pc[t] /\ job'[t] = job[t]
  BY ClientMoves DEF MethodInv
<1>2. CASE \E d \in Clients : job[d] = "destroy"
  <2>1. job[c] = "destroy" /\ Step(c)
    BY <1>2, Alone DEF MethodInv
  <2>2. /\ \A d \in Clients : d # c => pc[d] = "idle" /\ pc'[d] = "idle"
        /\ pc[c] \notin {"dt_join", "gone"} => ~destroy
    BY <2>1, <1>1, <1>type DEF MethodInv, Ending
  <2>3. job[c] = "destroy" => pc[c] \in BeforeSleep \cup {"sleep", "dt_flag", "dt_join", "gone"}
    BY DEF MethodInv, At
  <2>4. pc[c] \in BeforeSleep => local[c] = Fresh
    BY <2>1 DEF MethodInv, At
  <2>5. /\ job'[c] = "destroy"
        /\ pc'[c] \notin {"dt_join", "gone"} => destroy' = destroy
        /\ pc[c] \in {"dt_join", "gone"} => pc'[c] \in {"dt_join", "gone"}
        /\ destroy' => pc'[c] \in {"dt_join", "gone"}
        /\ pc'[c] \in {"dt_join", "gone"} => pc[c] \in {"dt_flag", "dt_join", "gone"}
        /\ destroy => destroy'
    <3>1. \/ SetGainEnter(c) \/ SetGainStore(c) \/ FixOutput(c) \/ Wake(c)
          \/ DestroyRun(c) \/ DestroyFlag(c) \/ DestroyJoin(c)
      BY <2>1, <2>3, <1>type DEF BeforeSleep, Step, SendRecv, Method, OverCurrentProtection,
         SanityPos, SanityCmd, SanityRest, EmergencyLock, SendPrev, SendInterp, SendClipPos,
         SendClipVel, SendMotor, UpdateJointState, SetGainReadState, SetGainReadCmd, SetGainReject,
         SetToDampingReadState, SetToDampingFix, ResetReadState, ResetReadGain, ResetRun, ResetInit,
         ResetRamp, ResetFinal, ResetRefused, ResetRestore, SetCmdReadState, SetCmdStore
    <3>2. CASE SetGainEnter(c) \/ FixOutput(c) \/ Wake(c) \/ DestroyRun(c)
      BY <3>2, <2>1, <2>2, <1>type DEF SetGainEnter, FixOutput, Wake, DestroyRun, Goto, flags, InEmergency
    <3>3. CASE SetGainStore(c)
      BY <3>3, <2>1, <2>2, <1>type DEF SetGainStore, AfterGain, Goto, flags
    <3>4. CASE DestroyFlag(c) \/ DestroyJoin(c)
      BY <3>4, <2>1, <2>2, <1>type DEF DestroyFlag, DestroyJoin, Goto, flags
    <3> QED
      BY <3>1, <3>2, <3>3, <3>4
  <2>6. destroy' \/ pc'[Background] = "done" =>
          destroy' /\ \E d \in Clients : job'[d] = "destroy" /\ pc'[d] \in {"dt_join", "gone"}
    <3>1. pc'[Background] = "done" => destroy /\ \E d \in Clients : pc[d] \in {"dt_join", "gone"}
      BY <1>1, <1>type DEF MethodInv, Ending
    <3>2. pc'[Background] = "done" => destroy /\ pc[c] \in {"dt_join", "gone"}
      BY <3>1, <2>2
    <3> QED
      BY <2>5, <3>2
  <2>7. \A d \in Clients : job'[d] = "destroy" => d = c
    <3>1. \A d \in Clients : job[d] = "destroy" => d = c
      BY <2>1, Alone DEF MethodInv
    <3> QED
      BY <3>1, <1>1, <1>type
  <2> QED
    BY <2>2, <2>5, <2>6, <2>7 DEF Ending
<1>3. CASE \A d \in Clients : job[d] # "destroy"
  <2>1. ~destroy /\ pc[Background] # "done"
    BY <1>3 DEF MethodInv, Ending
  <2>2. ~destroy' /\ pc'[Background] # "done"
    <3>1. destroy' = destroy
      BY <1>3, Flagged DEF MethodInv
    <3> QED
      BY <2>1, <3>1, <1>1, <1>type
  <2>3. ASSUME NEW d \in Clients, job'[d] = "destroy"
        PROVE  d = c /\ \A e \in Clients : e # c => pc[e] = "idle"
    <3>1. d = c
      BY <1>1, <1>3, <1>type, <2>3
    <3>2. job'[c] # job[c] /\ job'[c] = "destroy"
      BY <1>3, <2>3, <3>1
    <3>3. CallDestroy(c)
      <4>1. ~Step(c)
        BY <3>2, <1>type DEF Step, SendRecv, Method, OverCurrentProtection,
         SanityPos, SanityCmd, SanityRest, EmergencyLock, SendPrev, SendInterp, SendClipPos,
         SendClipVel, SendMotor, UpdateJointState, SetGainEnter, SetGainReadState, SetGainReadCmd,
         SetGainReject, SetGainStore, FixOutput, Wake, SetToDampingReadState, SetToDampingFix,
         ResetReadState, ResetReadGain, ResetRun, ResetInit, ResetRamp, ResetFinal, ResetRefused, ResetRestore,
         SetCmdReadState, SetCmdStore, DestroyRun, DestroyFlag, DestroyJoin, Finish, EnterEmergency
      <4> QED
        BY <3>2, <4>1, <1>type DEF CallMethod, Call, CallSetGain, CallSetToDamping,
           CallResetToHome, CallSetCmd, CallRecvOnce, CallSendRecvOnce
    <3> QED
      BY <3>1, <3>3 DEF CallDestroy
  <2> QED
    BY <2>2, <2>3, <1>1, <1>type DEF Ending
<1> QED
  BY <1>2, <1>3

\* The emergency of another thread than c is the one of the background thread.
LEMMA OthersEmergency ==
  ASSUME TypeOK, LockInv, MethodInv, NEW c \in Clients, Damping(c), Emergency
  PROVE  InEmergency(Background)
<1>1. PICK t \in Threads : InEmergency(t)
  BY DEF Emergency
<1>2. pc[t] # "idle"
  BY <1>1 DEF LockInv, EmergencyPath, EmergencyLabels, SendLabels
<1>3. t # c
  BY <1>1 DEF Damping, InEmergency
<1>4. t \notin Clients
  BY <1>2, <1>3 DEF Damping, MethodInv, Ending, OneClient
<1> QED
  BY <1>1, <1>4 DEF Threads

\* A client's own step keeps what it knows of the damping: from the zero gain, through
\* the sleep of two passes, to the zero kp of the last command.
LEMMA DampsStep ==
  ASSUME TypeOK, LockInv, MethodInv, NEW c \in Clients, Step(c) \/ CallMethod(c)
  PROVE  Damps(c)'
<1> SUFFICES ASSUME Damping(c)', ~InEmergency(Background)'
             PROVE  Damps(c)'
  BY DEF Damps
<1>type. /\ c \in Threads /\ Background \in Threads /\ c # Background
         /\ pc \in [Threads -> Labels] /\ local \in [Threads -> Locals]
         /\ job \in [Threads -> AllOps \cup {"loop", "none", "emergency"}]
  BY ThreadAssumption DEF TypeOK, Threads
<1>1. ~InEmergency(Background) /\ pc'[Background] = pc[Background]
  BY ClientMoves, <1>type DEF MethodInv, InEmergency
<1>2. OneClient' <=> OneClient
  BY DEF OneClient
<1>3. CASE CallMethod(c)
  <2>1. (CallDestroy(c) /\ ShutdownToPassive) \/ CallSetToDamping(c)
    BY <1>3, <1>type DEF CallMethod, Call, CallSetGain, CallSetToDamping, CallResetToHome,
       CallSetCmd, CallRecvOnce, CallSendRecvOnce, CallDestroy, Damping
  <2>2. pc'[c] = "sg_enter"
    BY <2>1, <1>type DEF CallDestroy, CallSetToDamping, Goto
  <2> QED
    BY <2>2 DEF Damps
<1>4. CASE Step(c)
  <2>1. Damping(c)
    <3>1. job'[c] = job[c]
      BY <1>4, <1>type DEF Damping, Step, SendRecv, Method, OverCurrentProtection,
         SanityPos, SanityCmd, SanityRest, EmergencyLock, SendPrev, SendInterp, SendClipPos,
         SendClipVel, SendMotor, UpdateJointState, SetGainEnter, SetGainReadState, SetGainReadCmd,
         SetGainReject, SetGainStore, FixOutput, Wake, SetToDampingReadState, SetToDampingFix,
         ResetReadState, ResetReadGain, ResetRun, ResetInit, ResetRamp, ResetFinal, ResetRefused, ResetRestore,
         SetCmdReadState, SetCmdStore, DestroyRun, DestroyFlag, DestroyJoin, Finish, EnterEmergency
    <3> QED
      BY <3>1, <1>2 DEF Damping
  <2>2. /\ pc[c] \in BeforeSleep \cup {"sleep", "sd_state", "sd_fix", "dt_flag", "dt_join", "gone"}
        /\ pc[c] \in BeforeSleep => local[c] = Fresh
    BY <2>1 DEF MethodInv, At, Damping, BeforeSleep
  <2>3. /\ pc[c] \notin {"sg_enter", "sg_store"} => gain = 0
        /\ pc[c] = "sleep" /\ running /\ local[c].slept >= 2 => sent.kp = 0
        /\ pc[c] \in {"sd_state", "sd_fix", "dt_flag", "dt_join", "gone"} /\ running => sent.kp = 0
        /\ pc[c] \in {"sleep", "dt_flag", "dt_join", "gone"} /\ job[c] = "destroy" => running
    BY <1>1, <2>1 DEF MethodInv, Damps
  <2>4. \/ SetGainEnter(c) \/ SetGainStore(c) \/ FixOutput(c) \/ Wake(c)
        \/ SetToDampingReadState(c) \/ SetToDampingFix(c)
        \/ DestroyRun(c) \/ DestroyFlag(c) \/ DestroyJoin(c)
    BY <1>4, <2>2, <1>type DEF BeforeSleep, Step, SendRecv, Method, OverCurrentProtection,
       SanityPos, SanityCmd, SanityRest, EmergencyLock, SendPrev, SendInterp, SendClipPos,
       SendClipVel, SendMotor, UpdateJointState, SetGainReadState, SetGainReadCmd, SetGainReject,
       ResetReadState, ResetReadGain, ResetRun, ResetInit,
       ResetRamp, ResetFinal, ResetRefused, ResetRestore, SetCmdReadState, SetCmdStore
  <2>5. job[c] \in {"destroy", "set_to_damping"} /\ (job[c] = "destroy" => ShutdownToPassive)
    BY <2>1 DEF Damping
  <2> USE DEF Goto, flags, command, BeforeSleep
  <2>6. CASE SetGainEnter(c)
    BY <2>6, <2>2, <1>type DEF SetGainEnter, Damps, Fresh
  <2>7. CASE SetGainStore(c)
    <3>1. pc'[c] \in {"sleep", "fix_output"} /\ gain' = 0 /\ local' = local /\ job' = job
          /\ (job[c] = "destroy" => pc'[c] = "fix_output")
      BY <2>7, <2>2, <2>5, <1>type DEF SetGainStore, AfterGain, Fresh
    <3>2. local[c].slept = 0
      BY <2>7, <2>2 DEF SetGainStore, Fresh
    <3> QED
      BY <3>1, <3>2 DEF Damps
  <2>8. CASE FixOutput(c)
    <3>1. pc'[c] = "dt_run" /\ gain' = gain /\ gain = 0
      BY <2>8, <2>3, <2>5, <1>type DEF FixOutput, InEmergency
    <3> QED
      BY <3>1 DEF Damps
  <2>9. CASE Wake(c)
    <3>1. ~Emergency
      BY <1>1, <2>1, OthersEmergency
    <3>2. local[c].slept = 2 /\ pc'[c] \in {"dt_flag", "sd_state"} /\ pc[c] = "sleep"
          /\ UNCHANGED <<job, local, running, gain, sent>>
      BY <2>9, <3>1, <1>type DEF Wake, LoopPasses
    <3> QED
      BY <3>2, <2>3 DEF Damps
  <2>10. CASE SetToDampingReadState(c)
    <3>1. pc'[c] = "sd_fix" /\ pc[c] = "sd_state" /\ UNCHANGED <<job, running, gain, sent>>
      BY <2>10, <1>type DEF SetToDampingReadState
    <3> QED
      BY <3>1, <2>3 DEF Damps
  <2>11. ~SetToDampingFix(c)
    BY <1>type DEF SetToDampingFix, Finish, Damping
  <2>12. CASE DestroyRun(c)
    <3>1. pc'[c] = "sleep" /\ pc[c] = "dt_run" /\ running' /\ UNCHANGED <<job, local, gain, sent>>
      BY <2>12, <1>type DEF DestroyRun
    <3>2. local'[c].slept = 0
      BY <3>1, <2>2 DEF Fresh
    <3> QED
      BY <3>1, <3>2, <2>3 DEF Damps
  <2>13. CASE DestroyFlag(c) \/ DestroyJoin(c)
    <3>1. /\ pc'[c] \in {"dt_join", "gone"} /\ pc[c] \in {"dt_flag", "dt_join"}
          /\ UNCHANGED <<job, running, gain, sent>>
      BY <2>13, <1>type DEF DestroyFlag, DestroyJoin
    <3> QED
      BY <3>1, <2>3 DEF Damps
  <2> QED
    BY <2>4, <2>6, <2>7, <2>8, <2>9, <2>10, <2>11, <2>12, <2>13
<1> QED
  BY <1>3, <1>4

\* A client's own step keeps what it knows of the ramp.
LEMMA RampsStep ==
  ASSUME TypeOK, LockInv, MethodInv, NEW c \in Clients, Step(c) \/ CallMethod(c)
  PROVE  Ramps(c)'
<1> SUFFICES ASSUME OneClient, DefaultKp # 0, job'[c] = "reset_to_home"
             PROVE  Ramps(c)'
  BY DEF Ramps, OneClient
<1>type. /\ c \in Threads /\ pc \in [Threads -> Labels] /\ local \in [Threads -> Locals]
         /\ job \in [Threads -> AllOps \cup {"loop", "none", "emergency"}] /\ gain \in Int
         /\ StepNum \in Nat \ {0}
  BY ConfigAssumption DEF TypeOK, Threads
<1>1. CASE CallMethod(c)
  <2>1. CallResetToHome(c)
    BY <1>1, <1>type DEF CallMethod, Call, CallSetGain, CallSetToDamping, CallResetToHome,
       CallSetCmd, CallRecvOnce, CallSendRecvOnce, CallDestroy
  <2>2. pc'[c] = "rh_state" /\ local' = local /\ pc[c] = "idle"
    BY <2>1, <1>type DEF CallResetToHome, Call, Goto
  <2>3. job[c] = "none"
    BY <2>2, <1>type DEF MethodInv, At, LockInv, EmergencyPath, InEmergency, EmergencyLabels,
       SendLabels, AllOps, SetGainLabels, BeforeSleep, BeforeMotor
  <2>4. local[c] = Fresh
    BY <2>3 DEF MethodInv, At
  <2> QED
    BY <2>2, <2>4, <1>type DEF Ramps, SetGainLabels, Fresh
<1>2. CASE Step(c)
  <2>1. job[c] = "reset_to_home"
    BY <1>2, <1>type DEF Step, SendRecv, Method, OverCurrentProtection,
       SanityPos, SanityCmd, SanityRest, EmergencyLock, SendPrev, SendInterp, SendClipPos,
       SendClipVel, SendMotor, UpdateJointState, SetGainEnter, SetGainReadState, SetGainReadCmd,
       SetGainReject, SetGainStore, FixOutput, Wake, SetToDampingReadState, SetToDampingFix,
       ResetReadState, ResetReadGain, ResetRun, ResetInit, ResetRamp, ResetFinal, ResetRefused, ResetRestore,
       SetCmdReadState, SetCmdStore, DestroyRun, DestroyFlag, DestroyJoin, Finish, EnterEmergency
  <2>2. pc[c] \in SetGainLabels \cup
          {"rh_state", "rh_gain", "rh_run", "rh_init", "rh_ramp", "rh_final", "rh_restore"}
    BY <2>1 DEF MethodInv, At
  <2>3. /\ local[c].i <= StepNum + 1
        /\ pc[c] \in {"rh_state", "rh_gain", "rh_run", "rh_init"} => local[c].i = 0
        /\ pc[c] \notin {"rh_state", "rh_gain"} => local[c].target # 0
        /\ pc[c] \notin {"rh_state", "rh_gain", "rh_run"} => running
        /\ pc[c] \in SetGainLabels =>
             local[c].i >= 1 /\ local[c].kp = RampKp(local[c].init, local[c].target, local[c].i - 1)
        /\ pc[c] = "rh_ramp" /\ local[c].i >= 1 =>
             gain = RampKp(local[c].init, local[c].target, local[c].i - 1)
        /\ pc[c] \in {"rh_final", "rh_restore"} => gain = local[c].target
    BY <2>1 DEF MethodInv, Ramps
  <2>4. \/ SetGainEnter(c) \/ SetGainReadState(c) \/ SetGainReadCmd(c) \/ SetGainReject(c)
        \/ SetGainStore(c) \/ ResetReadState(c) \/ ResetReadGain(c) \/ ResetRun(c)
        \/ ResetInit(c) \/ ResetRamp(c) \/ ResetFinal(c) \/ ResetRefused(c) \/ ResetRestore(c)
    BY <1>2, <2>2, <1>type DEF SetGainLabels, Step, SendRecv, Method, OverCurrentProtection,
       SanityPos, SanityCmd, SanityRest, EmergencyLock, SendPrev, SendInterp, SendClipPos,
       SendClipVel, SendMotor, UpdateJointState, FixOutput, Wake, SetToDampingReadState,
       SetToDampingFix, SetCmdReadState, SetCmdStore, DestroyRun, DestroyFlag, DestroyJoin
  <2> USE DEF Goto, flags, command, SetGainLabels
  <2>5. CASE SetGainEnter(c) \/ SetGainReadState(c) \/ SetGainReadCmd(c)
    <3>1. /\ pc[c] \in SetGainLabels /\ pc'[c] \in SetGainLabels /\ UNCHANGED <<running, gain>>
          /\ local'[c].i = local[c].i /\ local'[c].init = local[c].init
          /\ local'[c].target = local[c].target /\ local'[c].kp = local[c].kp
      BY <2>5, <1>type DEF SetGainEnter, SetGainReadState, SetGainReadCmd, Locals
    <3> QED
      BY <3>1, <2>3 DEF Ramps
  <2>6. ~SetGainReject(c) /\ ~ResetRefused(c) /\ ~ResetRestore(c)
    BY <1>type DEF SetGainReject, ResetRefused, ResetRestore, Finish
  <2>7. CASE SetGainStore(c)
    <3>1. pc[c] = "sg_store" /\ pc'[c] = "rh_ramp" /\ gain' = local[c].kp
          /\ UNCHANGED <<running, local>>
      BY <2>7, <2>1, <1>type DEF SetGainStore, AfterGain
    <3> QED
      BY <3>1, <2>3 DEF Ramps
  <2>8. CASE ResetReadState(c)
    <3>1. pc[c] = "rh_state" /\ pc'[c] = "rh_gain" /\ local'[c].i = local[c].i
      BY <2>8, <1>type DEF ResetReadState, Locals
    <3> QED
      BY <3>1, <2>3 DEF Ramps
  <2>9. CASE ResetReadGain(c)
    <3>1. pc[c] = "rh_gain" /\ pc'[c] = "rh_run" /\ local'[c].i = local[c].i
          /\ local'[c].target = IF gain = 0 THEN DefaultKp ELSE gain
      BY <2>9, <1>type DEF ResetReadGain, Locals
    <3> QED
      BY <3>1, <2>3 DEF Ramps
  <2>10. CASE ResetRun(c)
    <3>1. pc[c] = "rh_run" /\ pc'[c] = "rh_init" /\ local'[c].i = local[c].i /\ running'
          /\ local'[c].target = local[c].target
      BY <2>10, <1>type DEF ResetRun, Locals
    <3> QED
      BY <3>1, <2>3 DEF Ramps
  <2>11. CASE ResetInit(c)
    <3>1. pc[c] = "rh_init" /\ pc'[c] = "rh_ramp" /\ UNCHANGED <<running, local>>
      BY <2>11, <1>type DEF ResetInit
    <3> QED
      BY <3>1, <2>3 DEF Ramps
  <2>12. CASE ResetRamp(c)
    <3>1. pc[c] = "rh_ramp" /\ UNCHANGED <<running, gain>>
      BY <2>12 DEF ResetRamp
    <3>2. CASE local[c].i <= StepNum
      <4>1. /\ pc'[c] = "sg_enter" /\ local'[c].i = local[c].i + 1
            /\ local'[c].init = local[c].init /\ local'[c].target = local[c].target
            /\ local'[c].kp = RampKp(local[c].init, local[c].target, local[c].i)
        <5>1. local' = [local EXCEPT ![c] =
                 [local[c] EXCEPT !.kp = RampKp(local[c].init, local[c].target, local[c].i),
                                  !.i = local[c].i + 1]]
              /\ pc' = [pc EXCEPT ![c] = "sg_enter"]
          BY <2>12, <3>2 DEF ResetRamp, Goto
        <5>2. local'[c] = [local[c] EXCEPT !.kp = RampKp(local[c].init, local[c].target, local[c].i),
                                           !.i = local[c].i + 1]
              /\ pc'[c] = "sg_enter"
          BY <5>1, <1>type
        <5> HIDE DEF RampKp
        <5> QED
          BY <5>2, <1>type DEF Locals
      <4>2. local[c].i \in Nat /\ (local[c].i + 1) - 1 = local[c].i
        BY <1>type DEF Locals
      <4> QED
        BY <3>1, <3>2, <4>1, <4>2, <2>3, <1>type DEF Ramps
    <3>3. CASE ~(local[c].i <= StepNum)
      <4>1. pc'[c] = "rh_final" /\ local' = local
        BY <2>12, <3>3, <1>type DEF ResetRamp, Goto
      <4>2. local[c].i = StepNum + 1 /\ local[c].i - 1 = StepNum
            /\ local[c].init \in Int /\ local[c].target \in Int
        BY <3>3, <2>3, <1>type DEF Locals
      <4>3. gain = local[c].target
        BY <3>1, <4>2, <2>3, <1>type, RampEnds
      <4> QED
        BY <3>1, <4>1, <4>2, <4>3, <2>3 DEF Ramps
    <3> QED
      BY <3>2, <3>3
  <2>13. CASE ResetFinal(c)
    <3>1. pc[c] = "rh_final" /\ pc'[c] = "rh_restore" /\ UNCHANGED <<running, local, gain>>
      BY <2>13, <1>type DEF ResetFinal
    <3> QED
      BY <3>1, <2>3 DEF Ramps
  <2> QED
    BY <2>4, <2>5, <2>6, <2>7, <2>8, <2>9, <2>10, <2>11, <2>12, <2>13
<1> QED
  BY <1>1, <1>2

\* The invariant of the methods is kept by a step of a client,
LEMMA MethodClient ==
  ASSUME TypeOK, LockInv, MethodInv, NEW c \in Clients, Step(c) \/ CallMethod(c)
  PROVE  MethodInv'
<1>type. /\ c \in Threads /\ Background \in Threads /\ c # Background /\ Clients \subseteq Threads
  BY ThreadAssumption DEF Threads
<1>1. /\ \A t \in Threads : t # c => pc'[t] = pc[t] /\ job'[t] = job[t] /\ local'[t] = local[t]
      /\ At(c)'
  BY ClientMoves DEF MethodInv
<1>2. ASSUME NEW d \in Clients, d # c
      PROVE  At(d)' /\ Damps(d)' /\ Ramps(d)'
  <2>1. At(d)'
    BY <1>1, <1>2, <1>type DEF MethodInv, At
  <2>2. ~OneClient'
    BY <1>2 DEF OneClient
  <2>3. job'[d] # "destroy"
    BY <1>1, <1>2, <1>type, Alone DEF MethodInv
  <2> QED
    BY <2>1, <2>2, <2>3 DEF Damps, Ramps, Damping
<1>3. Damps(c)' /\ Ramps(c)' /\ Ending'
  BY DampsStep, RampsStep, EndingStep
<1>5. HoldsCmd'
  <2>1. HoldsCmd
    BY DEF MethodInv
  <2> QED
    BY <1>type, <2>1, HoldsStep
<1>4. LoopAt'
  BY <1>1, <1>type DEF MethodInv, LoopAt, InEmergency
<1> QED
  BY <1>1, <1>2, <1>3, <1>4, <1>5 DEF MethodInv

\* by a step of the background thread within a pass,
LEMMA MethodBackground ==
  ASSUME TypeOK, LockInv, MethodInv, Step(Background)
  PROVE  MethodInv'
<1>1. /\ \A c \in Clients : pc'[c] = pc[c] /\ job'[c] = job[c] /\ local'[c] = local[c]
      /\ UNCHANGED <<running, destroy, gain>> /\ LoopAt'
      /\ InEmergency(Background) => InEmergency(Background)'
      /\ pc'[Background] # "done"
      /\ sent' = sent \/ sent'.kp = gain
      /\ pc[Background] \in BeforeMotor =>
           \/ pc'[Background] \in BeforeMotor \/ sent'.kp = gain
           \/ InEmergency(Background)'
  BY LoopMoves DEF MethodInv
<1>2. HoldsCmd'
  <2>1. HoldsCmd /\ Background \in Threads
    BY ThreadAssumption DEF MethodInv, Threads
  <2> QED
    BY <2>1, HoldsStep
<1>3. Ending'
  BY <1>1 DEF MethodInv, Ending
<1>4. ASSUME NEW c \in Clients PROVE At(c)' /\ Ramps(c)'
  BY <1>1 DEF MethodInv, At, Ramps, OneClient
<1>5. ASSUME NEW c \in Clients PROVE Damps(c)'
  <2> SUFFICES ASSUME Damping(c), ~InEmergency(Background)' PROVE Damps(c)'
    BY <1>1 DEF Damps, Damping, OneClient
  <2>1. /\ pc[c] \notin {"sg_enter", "sg_store"} => gain = 0
        /\ pc[c] = "sleep" /\ running =>
             /\ local[c].slept >= 1 => sent.kp = 0 \/ pc[Background] \in BeforeMotor
             /\ local[c].slept >= 2 => sent.kp = 0
        /\ pc[c] \in {"sd_state", "sd_fix", "dt_flag", "dt_join", "gone"} /\ running => sent.kp = 0
        /\ pc[c] \in {"sleep", "dt_flag", "dt_join", "gone"} /\ job[c] = "destroy" => running
    BY <1>1 DEF MethodInv, Damps
  <2>2. pc'[c] = pc[c] /\ job'[c] = job[c] /\ local'[c] = local[c] /\ gain' = gain /\ running' = running
    BY <1>1
  <2>3. gain = 0 /\ sent.kp = 0 => sent'.kp = 0
    BY <1>1
  <2>4. gain = 0 /\ pc[Background] \in BeforeMotor => pc'[Background] \in BeforeMotor \/ sent'.kp = 0
    BY <1>1
  <2> QED
    BY <2>1, <2>2, <2>3, <2>4 DEF Damps
<1> QED
  BY <1>1, <1>2, <1>3, <1>4, <1>5 DEF MethodInv

\* and by the head of the loop, which counts the pass for the sleeping clients.
LEMMA MethodLoopHead ==
  ASSUME TypeOK, LockInv, MethodInv, LoopHead
  PROVE  MethodInv'
<1>type. /\ Background \in Threads /\ Background \notin Clients /\ Clients \subseteq Threads
         /\ pc \in [Threads -> Labels] /\ local \in [Threads -> Locals]
  BY ThreadAssumption DEF TypeOK, Threads
<1>1. /\ pc[Background] = "loop" /\ \A c \in Clients : pc'[c] = pc[c]
      /\ UNCHANGED <<job, cmdMutex, running, destroy, gain, sent>>
      /\ pc'[Background] \in {"done", "over_current", "loop"}
      /\ pc'[Background] = "done" => destroy
      /\ running /\ ~destroy => pc'[Background] = "over_current"
  BY <1>type DEF LoopHead, Goto, mutexes, flags, command
<1>2. \A t \in Threads : local'[t] = IF pc[t] = "sleep" /\ local[t].slept < LoopPasses
                                     THEN [local[t] EXCEPT !.slept = @ + 1] ELSE local[t]
  BY DEF LoopHead
<1>3. job[Background] = "loop" /\ LoopAt'
  BY <1>1 DEF MethodInv, LoopAt, LockInv, EmergencyPath, EmergencyLabels, SendLabels,
     InEmergency, BeforeMotor, Threads
<1>4. HoldsCmd'
  <2> SUFFICES ASSUME NEW t \in Threads, InEmergency(t)',
                      pc'[t] \in {"sg_enter", "sg_store", "fix_output"}
               PROVE  cmdMutex' = t
    BY DEF HoldsCmd
  <2>1. t # Background
    BY <1>1
  <2>2. t \in Clients /\ pc'[t] = pc[t] /\ job' = job
    BY <1>1, <2>1 DEF Threads
  <2> QED
    BY <1>1, <2>2 DEF MethodInv, HoldsCmd, InEmergency
<1>5. Ending'
  BY <1>1 DEF MethodInv, Ending
<1>6. ASSUME NEW c \in Clients PROVE At(c)' /\ Ramps(c)'
  <2>1. At(c)'
    BY <1>1, <1>2, <1>type DEF MethodInv, At, BeforeSleep
  <2>2. job[c] = "reset_to_home" => local'[c] = local[c]
    BY <1>1, <1>2, <1>type DEF MethodInv, At, SetGainLabels
  <2>3. Ramps(c)'
    BY <1>1, <2>2 DEF MethodInv, Ramps, OneClient
  <2> QED
    BY <2>1, <2>3
<1>7. ASSUME NEW c \in Clients PROVE Damps(c)'
  <2> SUFFICES ASSUME Damping(c) PROVE Damps(c)'
    BY <1>1 DEF Damps, Damping, OneClient
  <2>1. /\ pc[c] \notin {"sg_enter", "sg_store"} => gain = 0
        /\ pc[c] = "sleep" /\ running => (local[c].slept >= 1 => sent.kp = 0)
        /\ pc[c] \in {"sd_state", "sd_fix", "dt_flag", "dt_join", "gone"} /\ running => sent.kp = 0
        /\ pc[c] \in {"sleep", "dt_flag", "dt_join", "gone"} /\ job[c] = "destroy" => running
    BY <1>1, <1>3 DEF MethodInv, Damps, InEmergency, BeforeMotor, SendLabels
  <2>2. pc[c] = "sleep" => ~destroy
    BY DEF MethodInv, Ending, Damping, OneClient
  <2>3. pc[c] = "sleep" /\ running => pc'[Background] \in BeforeMotor
    BY <1>1, <2>2 DEF BeforeMotor
  <2>4. pc[c] = "sleep" /\ local'[c].slept >= 2 => local[c].slept >= 1
    <3>1. c \in Threads /\ local[c] \in Locals /\ local[c].slept \in 0..LoopPasses
      BY <1>type DEF Locals
    <3>2. CASE pc[c] = "sleep" /\ local[c].slept < LoopPasses
      <4>1. local'[c] = [local[c] EXCEPT !.slept = @ + 1]
        BY <1>2, <3>1, <3>2
      <4>2. local'[c].slept = local[c].slept + 1
        BY <3>1, <4>1 DEF Locals
      <4> QED
        BY <3>1, <4>2 DEF LoopPasses
    <3>3. CASE ~(pc[c] = "sleep" /\ local[c].slept < LoopPasses)
      BY <1>2, <3>1, <3>3 DEF LoopPasses
    <3> QED
      BY <3>2, <3>3
  <2> QED
    BY <1>1, <2>1, <2>3, <2>4 DEF Damps
<1> QED
  BY <1>3, <1>4, <1>5, <1>6, <1>7 DEF MethodInv

\* It holds when the object is made.
LEMMA MethodInit == Init => MethodInv
<1> SUFFICES ASSUME Init PROVE MethodInv
  OBVIOUS
<1>1. /\ Background \in Threads /\ Background \notin Clients /\ Clients \subseteq Threads
  BY ThreadAssumption DEF Threads
<1>2. /\ \A c \in Clients : pc[c] = "idle" /\ job[c] = "none" /\ local[c] = Fresh
      /\ pc[Background] = "loop" /\ job[Background] = "loop" /\ ~destroy
      /\ \A t \in Threads : job[t] # "emergency"
  BY <1>1 DEF Init
<1> QED
  BY <1>2 DEF MethodInv, At, Damps, Damping, Ramps, LoopAt, HoldsCmd, Ending, InEmergency, BeforeSleep

\* Every step keeps it.
LEMMA MethodStep == TypeOK /\ LockInv /\ MethodInv /\ [Next]_vars => MethodInv'
<1> SUFFICES ASSUME TypeOK, LockInv, MethodInv, [Next]_vars PROVE MethodInv'
  OBVIOUS
<1>1. CASE UNCHANGED vars
  <2>1. UNCHANGED <<pc, job, local, cmdMutex, running, destroy, gain, sent>>
    BY <1>1 DEF vars, mutexes, flags, command
  <2>2. ASSUME NEW c \in Clients PROVE At(c)' /\ Damps(c)' /\ Ramps(c)'
    BY <2>1 DEF MethodInv, At, Damps, Damping, Ramps, OneClient, InEmergency
  <2>3. LoopAt' /\ HoldsCmd' /\ Ending'
    BY <2>1 DEF MethodInv, LoopAt, HoldsCmd, Ending, InEmergency
  <2> QED
    BY <2>2, <2>3 DEF MethodInv
<1> QED
  BY <1>1, MethodLoopHead, MethodBackground, MethodClient DEF Next, Threads

\* So it holds always, with the types and the locks.
LEMMA MethodInvariant == Spec => [](TypeOK /\ LockInv /\ MethodInv)
BY TypeInit, TypeStep, LockInit, LockStep, MethodInit, MethodStep, PTL DEF Spec

\* With shutdown_to_passive the loop ends only after a damping command, for any number
\* of clients, whatever had stopped the loop before.
THEOREM EndsDamped == Spec => []DampedAtExit
<1>1. TypeOK /\ LockInv /\ MethodInv => DampedAtExit
  <2> SUFFICES ASSUME TypeOK, LockInv, MethodInv, ShutdownToPassive, pc[Background] = "done"
               PROVE  sent.kp = 0
    BY DEF DampedAtExit
  <2>1. ~InEmergency(Background)
    BY DEF LockInv, EmergencyPath, EmergencyLabels, SendLabels, Threads
  <2>2. PICK c \in Clients : job[c] = "destroy" /\ pc[c] \in {"dt_join", "gone"}
    BY DEF MethodInv, Ending
  <2> QED
    BY <2>1, <2>2 DEF MethodInv, Damps, Damping
<1> QED
  BY <1>1, MethodInvariant, PTL

\* With one client, set_to_damping has commanded zero kp before it reads the position
\* that it makes the new target.
THEOREM FixesDamped == OneClient /\ Spec => []DampedBeforeFix
<1>1. OneClient /\ TypeOK /\ LockInv /\ MethodInv => DampedBeforeFix
  <2> SUFFICES ASSUME OneClient, TypeOK, LockInv, MethodInv, NEW c \in Clients,
                      pc[c] \in {"sd_state", "sd_fix"}, running, ~Emergency
               PROVE  sent.kp = 0
    BY DEF DampedBeforeFix
  <2>1. ~InEmergency(Background) /\ ~InEmergency(c)
    BY DEF Emergency, Threads
  <2>2. job[c] = "set_to_damping"
    BY <2>1 DEF TypeOK, Threads, MethodInv, At, AllOps, InEmergency, SetGainLabels, BeforeSleep,
       BeforeMotor, SendLabels
  <2> QED
    BY <2>1, <2>2 DEF MethodInv, Damps, Damping
<1>2. OneClient => []OneClient
  <2>1. OneClient => OneClient'
    BY DEF OneClient
  <2> QED
    BY <2>1, PTL
<1> QED
  BY <1>1, <1>2, MethodInvariant, PTL

\* With one client and a default kp, reset_to_home ends its ramp with the gain it was
\* to reach and the loop running, for any number of steps.
THEOREM RampsToTarget == OneClient /\ DefaultKp # 0 /\ Spec => []RampReachesTarget
<1>1. OneClient /\ DefaultKp # 0 /\ TypeOK /\ LockInv /\ MethodInv => RampReachesTarget
  <2> SUFFICES ASSUME OneClient, DefaultKp # 0, TypeOK, LockInv, MethodInv, NEW c \in Clients,
                      pc[c] \in {"rh_final", "rh_restore"}
               PROVE  gain = local[c].target /\ gain # 0 /\ running
    BY DEF RampReachesTarget
  <2>1. ~InEmergency(c)
    BY DEF LockInv, EmergencyPath, EmergencyLabels, SendLabels, Threads
  <2>2. job[c] = "reset_to_home"
    BY <2>1 DEF TypeOK, Threads, MethodInv, At, AllOps, InEmergency, SetGainLabels, BeforeSleep,
       BeforeMotor, SendLabels
  <2> QED
    BY <2>2 DEF MethodInv, Ramps
<1> DEFINE Assumed == OneClient /\ DefaultKp # 0
<1>2. Assumed => []Assumed
  <2>1. Assumed => Assumed'
    BY DEF OneClient
  <2> QED
    BY <2>1, PTL
<1>3. Assumed /\ TypeOK /\ LockInv /\ MethodInv => RampReachesTarget
  BY <1>1
<1> QED
  BY <1>2, <1>3, MethodInvariant, PTL

-----------------------------------------------------------------------------
(* Stiffening *)

\* The loop has computed a command that it has yet to limit.
Clipping == {"send_clip_pos", "send_clip_vel"}

\* How far the joint may have moved since a position was compared with it: not at
\* all before the pass that holds it has read the joint again.
Drift == IF pc[Background] \in {"send_motor", "recv"} THEN 0 ELSE MotionStep

Near(p, e) == Dist(p, jointState.pos) <= e + Drift

\* What set_gain knows on its way from a zero gain to a large one.  Once it has the
\* joint state, that one is near, or the loop has meanwhile made the command the
\* measured position.  Once it has compared, the command is near.
Compared(c) ==
  gain = 0 /\ pc[Background] \notin Clipping =>
    /\ pc[c] = "sg_cmd" => Near(outputCmd, 0) \/ Near(local[c].js, 0)
    /\ pc[c] = "sg_store" /\ local[c].kp # 0 /\ local[c].kp > KpThreshold =>
         Near(outputCmd, PosErrorThreshold)

\* OneClient is constant: as a conjunct it is there in every state.
CompareInv == OneClient /\ \A c \in Clients : Compared(c)

\* Distances obey the triangle inequality.
LEMMA DistTriangle ==
  ASSUME NEW p \in Int, NEW q \in Int, NEW r \in Int
  PROVE  /\ Dist(p, p) = 0 /\ Dist(p, q) \in Nat /\ Dist(p, q) = Dist(q, p)
         /\ Dist(p, r) <= Dist(p, q) + Dist(q, r)
BY DEF Dist

\* What a step of the background thread does to the command, the joint and the bus,
\* from label to label of a pass.
LEMMA LoopStages ==
  ASSUME TypeOK, LockInv, LoopAt, HoldsCmd, Step(Background)
  PROVE  LET from == pc[Background]
             to   == pc'[Background]
             Outside == Labels \ (Clipping \cup {"send_motor", "recv"})
         IN \/ from \in Outside /\ to \in Outside /\ UNCHANGED <<jointState, outputCmd, sent>>
            \/ from \in Outside /\ to = "send_clip_pos" /\ UNCHANGED <<jointState, sent>>
            \/ from = "send_clip_pos" /\ to = "send_clip_vel" /\ UNCHANGED <<jointState, sent>>
            \/ /\ from = "send_clip_vel" /\ to = "send_motor" /\ UNCHANGED <<jointState, sent>>
               /\ outputCmd' = IF gain > 0 THEN Limited(local[Background].prev, outputCmd)
                                           ELSE jointState.pos
            \/ /\ from = "send_motor" /\ to = "recv" /\ UNCHANGED <<jointState, outputCmd>>
               /\ sent' = [kp |-> gain, pos |-> outputCmd]
            \/ /\ from = "recv" /\ to \in Outside /\ UNCHANGED <<outputCmd, sent>>
               /\ Dist(jointState'.pos, jointState.pos) <= MotionStep
<1> USE DEF Goto, Finish, EnterEmergency, InEmergency, command
<1>type. /\ pc \in [Threads -> Labels]
         /\ job \in [Threads -> AllOps \cup {"loop", "none", "emergency"}]
         /\ Background \in Threads
  BY DEF TypeOK, Threads
<1>em. InEmergency(Background) =>
         /\ pc[Background] \in EmergencyLabels
         /\ pc[Background] = "sg_enter" => local[Background].kp = 0
  BY <1>type DEF LockInv, EmergencyPath
<1>1. CASE OverCurrentProtection(Background) \/ SanityPos(Background) \/ SanityCmd(Background)
           \/ SanityRest(Background) \/ EmergencyLock(Background) \/ SendPrev(Background)
  BY <1>1, <1>type DEF OverCurrentProtection, AfterOverCurrent, SanityPos, SanityCmd, SanityRest,
     EmergencyLock, SendPrev, Clipping, Labels
<1>2. CASE SendInterp(Background) \/ SendClipPos(Background)
  BY <1>2, <1>type DEF SendInterp, SendClipPos, Clipping, Labels
<1>3. CASE SendClipVel(Background)
  BY <1>3, <1>type DEF SendClipVel, Clipping, Labels
<1>4. CASE SendMotor(Background)
  BY <1>4, <1>type DEF SendMotor, Clipping, Labels
<1>5. CASE UpdateJointState(Background)
  <2>1. Dist(jointState'.pos, jointState.pos) <= MotionStep /\ UNCHANGED <<outputCmd, sent>>
    BY <1>5 DEF UpdateJointState
  <2>2. pc[Background] = "recv" /\ pc'[Background] \in {"loop", "em_lock", "idle"}
    BY <1>5, <1>type DEF UpdateJointState
  <2> QED
    BY <2>1, <2>2 DEF Clipping, Labels
<1>6. CASE Method(Background)
  <2>1. UNCHANGED <<jointState, outputCmd, sent>>
    BY <1>6 DEF Method, SetGainEnter, SetGainReadState, SetGainReadCmd, SetGainReject, SetGainStore, FixOutput, Wake, SetToDampingReadState, SetToDampingFix, ResetReadState, ResetReadGain, ResetRun, ResetInit, ResetRamp, ResetFinal, ResetRefused, ResetRestore, SetCmdReadState, SetCmdStore, DestroyRun, DestroyFlag, DestroyJoin
  <2>2. SetGainEnter(Background) \/ SetGainStore(Background) \/ FixOutput(Background)
    BY <1>6, <1>em DEF LoopAt, BeforeMotor, SendLabels, EmergencyLabels, Method, SetGainReadState, SetGainReadCmd, SetGainReject, Wake, SetToDampingReadState, SetToDampingFix, ResetReadState, ResetReadGain, ResetRun, ResetInit, ResetRamp, ResetFinal, ResetRefused, ResetRestore, SetCmdReadState, SetCmdStore, DestroyRun, DestroyFlag, DestroyJoin
  <2>3. /\ pc[Background] \in {"sg_enter", "sg_store", "fix_output"}
        /\ pc'[Background] \in {"sg_state", "sg_store", "idle", "rh_ramp", "sleep", "fix_output", "send_prev", "dt_run"}
    BY <2>2, <1>type DEF SetGainEnter, SetGainStore, AfterGain, FixOutput
  <2> QED
    BY <2>1, <2>3 DEF Clipping, Labels
<1> QED
  BY <1>1, <1>2, <1>3, <1>4, <1>5, <1>6 DEF Step, SendRecv

\* Only set_gain itself brings a client to the labels of Compared, and only its store
\* changes the gain.
LEMMA SetGainMoves ==
  ASSUME TypeOK, NEW c \in Clients, Step(c) \/ CallMethod(c), ~SendRecv(c)
  PROVE  /\ pc'[c] = "sg_cmd" => SetGainReadState(c)
         /\ pc'[c] = "sg_store" => SetGainEnter(c) \/ SetGainReadCmd(c)
         /\ gain' # gain => SetGainStore(c)
<1>type. pc \in [Threads -> Labels] /\ c \in Threads
  BY DEF TypeOK, Threads
<1> USE DEF Goto, Finish, command
<1>1. CASE CallMethod(c)
  BY <1>1, <1>type DEF CallMethod, Call, CallSetGain, CallSetToDamping, CallResetToHome,
     CallSetCmd, CallRecvOnce, CallSendRecvOnce, CallDestroy
<1>2. CASE SetGainEnter(c) \/ SetGainReadState(c) \/ SetGainReadCmd(c) \/ SetGainReject(c)
  BY <1>2, <1>type DEF SetGainEnter, SetGainReadState, SetGainReadCmd, SetGainReject
<1>3. CASE SetGainStore(c)
  BY <1>3, <1>type DEF SetGainStore, AfterGain
<1>4. CASE FixOutput(c) \/ Wake(c) \/ SetToDampingReadState(c) \/ SetToDampingFix(c)
  BY <1>4, <1>type DEF FixOutput, Wake, SetToDampingReadState, SetToDampingFix
<1>5. CASE ResetReadState(c) \/ ResetReadGain(c) \/ ResetRun(c) \/ ResetInit(c)
  BY <1>5, <1>type DEF ResetReadState, ResetReadGain, ResetRun, ResetInit
<1>6. CASE ResetRamp(c) \/ ResetFinal(c) \/ ResetRefused(c) \/ ResetRestore(c)
  BY <1>6, <1>type DEF ResetRamp, ResetFinal, ResetRefused, ResetRestore
<1>7. CASE SetCmdReadState(c) \/ SetCmdStore(c) \/ DestroyRun(c) \/ DestroyFlag(c) \/ DestroyJoin(c)
  BY <1>7, <1>type DEF SetCmdReadState, SetCmdStore, DestroyRun, DestroyFlag, DestroyJoin
<1> QED
  BY <1>1, <1>2, <1>3, <1>4, <1>5, <1>6, <1>7 DEF Step, Method

\* A step of the loop keeps what set_gain knows: limiting with the zero gain makes the
\* command the measured position, and one reading moves the joint by MotionStep at most.
LEMMA ComparedByLoop ==
  ASSUME TypeOK, LockInv, LoopAt, HoldsCmd, CompareInv, Step(Background)
  PROVE  CompareInv'
<1> SUFFICES ASSUME NEW c \in Clients, Compared(c), gain' = 0, pc'[Background] \notin Clipping
             PROVE  Compared(c)'
  BY DEF CompareInv, Compared, OneClient
<1>type. /\ outputCmd \in Int /\ outputCmd' \in Int /\ local[c].js \in Int /\ local[c].kp \in Int
         /\ jointState.pos \in Int /\ jointState'.pos \in Int
         /\ MotionStep \in Nat /\ PosErrorThreshold \in Nat
  <2>1. TypeOK'
    BY TypeStep, ThreadAssumption DEF Next, Threads
  <2> QED
    BY <2>1, PositionAssumption DEF TypeOK, Locals, Threads
<1>1. pc'[c] = pc[c] /\ local'[c] = local[c] /\ gain = 0
  BY LoopMoves
<1>2. CASE UNCHANGED <<jointState, outputCmd>> /\ Drift' = Drift /\ pc[Background] \notin Clipping
  BY <1>1, <1>2 DEF Compared, Near
<1>3. CASE outputCmd' = jointState'.pos /\ Drift' \in Nat
  <2>1. Near(outputCmd, 0)' /\ Near(outputCmd, PosErrorThreshold)'
    BY <1>3, <1>type DEF Near, Dist
  <2> QED
    BY <1>1, <2>1 DEF Compared
<1>4. CASE /\ outputCmd' = outputCmd /\ Dist(jointState'.pos, jointState.pos) <= MotionStep
           /\ Drift = 0 /\ Drift' = MotionStep /\ pc[Background] \notin Clipping
  <2>1. \A p \in Int, e \in Nat : Near(p, e) => Near(p, e)'
    <3> SUFFICES ASSUME NEW p \in Int, NEW e \in Nat, Dist(p, jointState.pos) <= e
                 PROVE  Dist(p, jointState'.pos) <= e + MotionStep
      BY <1>4 DEF Near
    <3>1. /\ Dist(p, jointState'.pos) <= Dist(p, jointState.pos) + Dist(jointState.pos, jointState'.pos)
          /\ Dist(jointState.pos, jointState'.pos) = Dist(jointState'.pos, jointState.pos)
          /\ Dist(p, jointState.pos) \in Nat /\ Dist(p, jointState'.pos) \in Nat
          /\ Dist(jointState.pos, jointState'.pos) \in Nat
      BY <1>type, DistTriangle
    <3> HIDE DEF Dist
    <3> QED
      BY <1>4, <1>type, <3>1
  <2>2. Near(outputCmd, PosErrorThreshold) => Near(outputCmd, PosErrorThreshold)'
    BY <1>4, <1>type, <2>1 DEF Near
  <2>3. Near(outputCmd, 0) => Near(outputCmd, 0)'
    BY <1>4, <1>type, <2>1 DEF Near
  <2>4. Near(local[c].js, 0) => Near(local[c].js, 0)'
    BY <1>1, <1>type, <2>1 DEF Near
  <2> QED
    BY <1>1, <1>4, <2>2, <2>3, <2>4 DEF Compared
<1> QED
  BY <1>1, <1>2, <1>3, <1>4, <1>type, LoopStages DEF Drift, Clipping

\* A step of the client keeps it: set_gain reads the joint state and compares.
LEMMA ComparedByClient ==
  ASSUME TypeOK, LoopSendInv, CompareInv, NEW c \in Clients, Step(c) \/ CallMethod(c)
  PROVE  CompareInv'
<1> SUFFICES Compared(c)'
  BY DEF CompareInv, OneClient
<1>type. /\ pc \in [Threads -> Labels] /\ local \in [Threads -> Locals] /\ c \in Threads
         /\ outputCmd \in Int /\ local[c].js \in Int /\ local[c].kp \in Int
         /\ jointState.pos \in Int /\ gain \in Int
         /\ MotionStep \in Nat /\ PosErrorThreshold \in Nat /\ KpThreshold \in Int
  BY PositionAssumption, GainAssumption DEF TypeOK, Locals, Threads
<1>1. ClientFrame
  BY ClientStep DEF LoopSendInv
<1>2. Drift' = Drift /\ Drift \in Nat
  BY <1>1, <1>type DEF ClientFrame, Drift
<1>3. ~SendRecv(c)
  BY DEF LoopSendInv, SendInv, Roles, BusLabels, SendLabels, SendRecv, OverCurrentProtection, SanityPos, SanityCmd, SanityRest, EmergencyLock, SendPrev, SendInterp, SendClipPos, SendClipVel, SendMotor, UpdateJointState
<1>4. ASSUME gain' = 0, pc'[Background] \notin Clipping, pc'[c] = "sg_cmd"
      PROVE  Near(local[c].js, 0)'
  <2>1. SetGainReadState(c)
    BY <1>3, <1>4, SetGainMoves
  <2>2. local'[c].js = jointState.pos /\ jointState' = jointState
    BY <2>1, <1>type DEF SetGainReadState, Locals
  <2>3. Dist(jointState.pos, jointState.pos) = 0
    BY <1>type, DistTriangle
  <2>4. Dist(local'[c].js, jointState'.pos) <= 0 + Drift'
    BY <1>2, <2>2, <2>3
  <2> QED
    BY <2>4 DEF Near
<1>5. ASSUME gain' = 0, pc'[Background] \notin Clipping, pc'[c] = "sg_store",
             local'[c].kp # 0, local'[c].kp > KpThreshold
      PROVE  Near(outputCmd, PosErrorThreshold)'
  <2>1. ~SetGainEnter(c)
    BY <1>5, <1>type DEF SetGainEnter, Goto, command
  <2>2. SetGainReadCmd(c)
    BY <1>3, <1>5, <2>1, SetGainMoves
  <2>3. /\ pc[c] = "sg_cmd" /\ local' = local /\ gain' = gain
        /\ ~TooFar(c)
    BY <1>5, <2>2, <1>type DEF SetGainReadCmd, Goto, command
  <2>4. Dist(local[c].js, outputCmd) <= PosErrorThreshold
    <3>1. local[c].kp > KpThreshold
      BY <1>5, <2>3
    <3>2. Dist(local[c].js, outputCmd) \in Nat
      BY <1>type, DistTriangle
    <3> QED
      BY <1>type, <2>3, <3>1, <3>2 DEF TooFar
  <2>5. Near(outputCmd, 0) \/ Near(local[c].js, 0)
    BY <1>1, <1>5, <2>3 DEF CompareInv, Compared, ClientFrame
  <2>6. Dist(outputCmd, jointState.pos) <= PosErrorThreshold + Drift
    <3>1. /\ Dist(outputCmd, jointState.pos) <=
               Dist(outputCmd, local[c].js) + Dist(local[c].js, jointState.pos)
          /\ Dist(outputCmd, local[c].js) = Dist(local[c].js, outputCmd)
          /\ Dist(outputCmd, jointState.pos) \in Nat /\ Dist(outputCmd, local[c].js) \in Nat
          /\ Dist(local[c].js, jointState.pos) \in Nat
      BY <1>type, DistTriangle
    <3> HIDE DEF Dist
    <3> QED
      BY <1>2, <1>type, <2>4, <2>5, <3>1 DEF Near
  <2> QED
    BY <1>1, <1>2, <2>6 DEF Near, ClientFrame
<1> QED
  BY <1>4, <1>5 DEF Compared

\* So every step keeps it.
LEMMA CompareStep ==
  TypeOK /\ LockInv /\ MethodInv /\ LoopSendInv /\ CompareInv /\ [Next]_vars => CompareInv'
<1> SUFFICES ASSUME TypeOK, LockInv, MethodInv, LoopSendInv, CompareInv, [Next]_vars
             PROVE  CompareInv'
  OBVIOUS
<1>1. CASE UNCHANGED vars
  BY <1>1 DEF vars, command, CompareInv, Compared, Near, Drift, OneClient
<1>2. CASE LoopHead
  <2>1. /\ pc[Background] = "loop" /\ pc'[Background] \in {"done", "over_current", "loop"}
        /\ UNCHANGED <<gain, outputCmd, jointState>>
        /\ \A c \in Clients : pc'[c] = pc[c]
    BY <1>2, ThreadAssumption DEF LoopHead, Goto, command, TypeOK, Threads
  <2>2. \A c \in Clients : local'[c].js = local[c].js /\ local'[c].kp = local[c].kp
    BY <1>2 DEF LoopHead, Threads, TypeOK, Locals
  <2>3. Drift' = Drift /\ pc[Background] \notin Clipping
    BY <2>1 DEF Drift, Clipping
  <2> QED
    BY <2>1, <2>2, <2>3 DEF CompareInv, Compared, Near, OneClient
<1>3. ASSUME NEW c \in Clients, Step(c) \/ CallMethod(c) PROVE CompareInv'
  BY <1>3, ComparedByClient
<1>4. CASE Step(Background)
  BY <1>4, ComparedByLoop DEF MethodInv
<1> QED
  BY <1>1, <1>2, <1>3, <1>4 DEF Next, Threads

\* No client has compared anything when the object is made.
LEMMA CompareInit == OneClient /\ Init => CompareInv
BY ThreadAssumption DEF Init, CompareInv, Compared, Threads

\* It holds always with one client that leaves the bus to the loop.
LEMMA CompareInvariant ==
  OneClient /\ OnlyLoopSends /\ Spec =>
    [](TypeOK /\ LockInv /\ MethodInv /\ LoopSendInv /\ CompareInv)
BY CompareInit, CompareStep, CommandInvariant, MethodInvariant, PTL DEF Spec

\* With one client that leaves the bus to the loop, a large gain never replaces the zero
\* gain while the command is far from the joint, for any thresholds and positions, and
\* however the loop moves both between the two reads and the store of set_gain: but for
\* the part of the pass in which the command is computed and not yet limited.
THEOREM StiffensWhenNear == OneClient /\ OnlyLoopSends /\ Spec => StiffensNearby
<1> DEFINE Stiffens ==
      gain = 0 /\ gain' > KpThreshold /\ pc[Background] \notin {"send_clip_pos", "send_clip_vel"} =>
        Dist(outputCmd, jointState.pos) <= PosErrorThreshold + MotionStep
<1>1. TypeOK /\ LockInv /\ MethodInv /\ LoopSendInv /\ CompareInv /\ [Next]_vars => [Stiffens]_gain
  <2> SUFFICES ASSUME TypeOK, LockInv, MethodInv, LoopSendInv, CompareInv, [Next]_vars,
                      gain' # gain, gain = 0, gain' > KpThreshold, pc[Background] \notin Clipping
               PROVE  Dist(outputCmd, jointState.pos) <= PosErrorThreshold + MotionStep
    BY DEF Clipping
  <2>1. PICK c \in Clients : Step(c) \/ CallMethod(c)
    BY LoopMoves DEF vars, command, LoopHead, Next, Threads, MethodInv
  <2>2. ~SendRecv(c)
    BY DEF LoopSendInv, SendInv, Roles, BusLabels, SendLabels, SendRecv, OverCurrentProtection, SanityPos, SanityCmd, SanityRest, EmergencyLock, SendPrev, SendInterp, SendClipPos, SendClipVel, SendMotor, UpdateJointState
  <2>3. pc[c] = "sg_store" /\ local[c].kp = gain'
    BY <2>1, <2>2, SetGainMoves DEF SetGainStore
  <2>4. Near(outputCmd, PosErrorThreshold)
    BY <2>3 DEF CompareInv, Compared
  <2>5. Dist(outputCmd, jointState.pos) \in Nat
    BY DistTriangle DEF TypeOK
  <2>6. Drift \in Nat /\ Drift <= MotionStep
    BY PositionAssumption DEF Drift
  <2> QED
    BY <2>4, <2>5, <2>6, PositionAssumption DEF Near
<1> QED
  BY <1>1, CompareInvariant, PTL DEF Spec, StiffensNearby

-----------------------------------------------------------------------------
(* The bus *)

\* As long as the clients leave the bus to the loop, nobody else computes or sends a
\* command: OneSender fails only by send_recv_once.
THEOREM LoopIsOneSender == OnlyLoopSends /\ Spec => []OneSender
<1>1. LoopSendInv => OneSender
  <2> SUFFICES ASSUME Roles, NEW t \in Threads, NEW u \in Threads,
                      pc[t] \in SendLabels, pc[u] \in SendLabels
               PROVE  t = u
    BY DEF LoopSendInv, SendInv, OneSender
  <2> QED
    BY DEF Roles, BusLabels, Threads
<1> QED
  BY <1>1, CommandInvariant, PTL

\* Where the emergency routine of the loop ends for good: it has locked cmd_mutex_,
\* and its own set_gain waits for it.
EmergencyStuck ==
  InEmergency(Background) => pc[Background] \in {"em_lock", "sg_enter", "sg_store"}

\* Only the motor command of the loop changes what was sent last.
LEMMA SentByMotor ==
  ASSUME TypeOK, LockInv, MethodInv, LoopSendInv, [Next]_vars, sent' # sent
  PROVE  pc[Background] = "send_motor" /\ sent' = [kp |-> gain, pos |-> outputCmd]
<1>1. ~(UNCHANGED vars \/ LoopHead)
  BY DEF vars, LoopHead
<1>2. ASSUME NEW c \in Clients, Step(c) \/ CallMethod(c) PROVE FALSE
  BY <1>2, ClientStep DEF ClientFrame, LoopSendInv
<1>3. Step(Background)
  BY <1>1, <1>2 DEF Next, Threads
<1> QED
  BY <1>3, LoopStages DEF MethodInv

\* The background thread never gets farther in the emergency routine.
LEMMA StuckStep ==
  TypeOK /\ LockInv /\ MethodInv /\ LoopSendInv /\ EmergencyStuck /\ [Next]_vars => EmergencyStuck'
<1> SUFFICES ASSUME TypeOK, LockInv, MethodInv, LoopSendInv, EmergencyStuck, [Next]_vars
             PROVE  EmergencyStuck'
  OBVIOUS
<1> USE DEF InEmergency, EmergencyStuck, Goto, Finish, EnterEmergency
<1>type. /\ pc \in [Threads -> Labels] /\ Background \in Threads /\ NoThread \notin Threads
         /\ job \in [Threads -> AllOps \cup {"loop", "none", "emergency"}]
  BY ThreadAssumption DEF TypeOK, Threads
<1>1. CASE UNCHANGED vars \/ LoopHead
  BY <1>1, <1>type DEF vars, LoopHead, LockInv, EmergencyPath, EmergencyLabels, SendLabels
<1>2. ASSUME NEW c \in Clients, Step(c) \/ CallMethod(c) PROVE EmergencyStuck'
  BY <1>2, ClientStep DEF ClientFrame, LoopSendInv
<1>3. CASE Step(Background)
  <2>1. CASE job[Background] = "emergency"
    <3>1. EmergencyLock(Background) \/ SetGainEnter(Background) \/ SetGainStore(Background)
      BY <1>3, <2>1 DEF Step, SendRecv, Method, OverCurrentProtection, SanityPos, SanityCmd,
         SanityRest, SendPrev, SendInterp, SendClipPos, SendClipVel, SendMotor, UpdateJointState,
         SetGainReadState, SetGainReadCmd, SetGainReject, FixOutput, Wake, SetToDampingReadState,
         SetToDampingFix, ResetReadState, ResetReadGain, ResetRun, ResetInit, ResetRamp, ResetFinal, ResetRefused,
         ResetRestore, SetCmdReadState, SetCmdStore, DestroyRun, DestroyFlag, DestroyJoin
    <3>2. ~SetGainStore(Background)
      BY <2>1, <1>type DEF MethodInv, HoldsCmd, SetGainStore
    <3>3. pc[Background] = "sg_enter" => local[Background].kp = 0
      BY <2>1, <1>type DEF LockInv, EmergencyPath
    <3> QED
      BY <3>1, <3>2, <3>3, <1>type DEF EmergencyLock, SetGainEnter
  <2>2. CASE job[Background] # "emergency"
    <3>1. CASE EnterEmergency(Background)
      BY <3>1, <1>type
    <3>2. CASE job' = job \/ job'[Background] = "none"
      BY <2>2, <3>2
    <3>3. EnterEmergency(Background) \/ job' = job \/ job'[Background] = "none"
      BY <1>3, <1>type DEF Step, SendRecv, Method, OverCurrentProtection, SanityPos, SanityCmd,
         SanityRest, EmergencyLock, SendPrev, SendInterp, SendClipPos, SendClipVel, SendMotor,
         UpdateJointState, SetGainEnter, SetGainReadState, SetGainReadCmd, SetGainReject,
         SetGainStore, FixOutput, Wake, SetToDampingReadState, SetToDampingFix, ResetReadState,
         ResetReadGain, ResetRun, ResetInit, ResetRamp, ResetFinal, ResetRefused, ResetRestore, SetCmdReadState,
         SetCmdStore, DestroyRun, DestroyFlag, DestroyJoin
    <3> QED
      BY <3>1, <3>2, <3>3
  <2> QED
    BY <2>1, <2>2
<1> QED
  BY <1>1, <1>2, <1>3 DEF Next, Threads

\* The other side of the emergency finding: once the loop is in the emergency routine it
\* stays there and no command is sent any more, whatever the clients call, so the arm keeps
\* the gain of the last command.
THEOREM EmergencyIsSilent ==
  OnlyLoopSends /\ Spec =>
    [][InEmergency(Background) => InEmergency(Background)' /\ sent' = sent]_vars
<1> DEFINE Silent == InEmergency(Background) => InEmergency(Background)' /\ sent' = sent
    Inv == TypeOK /\ LockInv /\ MethodInv /\ LoopSendInv
<1>1. Init => EmergencyStuck
  BY DEF Init, EmergencyStuck, InEmergency, Threads
<1>2. Inv /\ EmergencyStuck /\ [Next]_vars => EmergencyStuck'
  BY StuckStep
<1>3. Inv /\ EmergencyStuck /\ [Next]_vars => [Silent]_vars
  <2> SUFFICES ASSUME Inv, EmergencyStuck, [Next]_vars, vars' # vars, InEmergency(Background)
               PROVE  InEmergency(Background)' /\ sent' = sent
    OBVIOUS
  <2>1. Next /\ sent' = sent
    BY SentByMotor DEF EmergencyStuck
  <2>2. CASE LoopHead
    BY <2>1, <2>2 DEF LoopHead, InEmergency
  <2>3. ASSUME NEW c \in Clients, Step(c) \/ CallMethod(c) PROVE InEmergency(Background)'
    BY <2>3, ClientStep DEF ClientFrame, LoopSendInv, InEmergency
  <2>4. CASE Step(Background)
    BY <2>1, <2>4, LoopMoves DEF MethodInv
  <2> QED
    BY <2>1, <2>2, <2>3, <2>4 DEF Next, Threads
<1>4. OnlyLoopSends /\ Spec => []Inv
  BY CommandInvariant, MethodInvariant, PTL
<1> HIDE DEF Inv, Silent
<1>5. OnlyLoopSends /\ Spec => [][Silent]_vars
  BY <1>1, <1>2, <1>3, <1>4, PTL DEF Spec
<1> QED
  BY <1>5 DEF Silent

=============================================================================
