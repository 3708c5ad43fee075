-------------------- MODULE JointStateInterpolatorProofs --------------------
(***************************************************************************)
(* The interpolator never fails the background loop, takes the arm to the  *)
(* waypoints accepted, and its velocity windows are ordered: for any       *)
(* number of clients, any times, positions and trajectories, and all       *)
(* interleavings of the methods.                                           *)
(***************************************************************************)
EXTENDS TrajectoryLemmas

-----------------------------------------------------------------------------
(* The inductive invariant.                                                  *)

Filling == {"fill", "fill_init"}

\* The client that has the mutex is filling the trajectory, and only it; without one
\* the trajectory has a waypoint.
Mutex ==
  /\ \A c \in Clients : pc[c] \in Filling <=> cmdMutex = c
  /\ cmdMutex = NoThread => traj # <<>>

\* Every waypoint is before all that follow it.
InOrder(tr) == \A i, j \in 1 .. Len(tr) : i < j => tr[i].time < tr[j].time

\* What a client at p has: its timestamp, the waypoints it has read and is to store.
Fits(p, time, read, store) ==
  /\ p \in {"cmd", "fixed", "final"} => Len(store) = 1
  /\ p = "init" => Len(store) = 2
  /\ p \in Filling => Len(store) >= 1
  /\ p # "read" => read = <<>>
  /\ p = "read" =>
       /\ time \in StartTime .. now /\ Len(read) <= 3
       /\ \A i \in 1 .. Len(read) : read[i].time = time - (3 - i) * Window
  /\ p \in {"velocities", "traj"} => Len(store) >= 3 /\ InOrder(store)
  /\ p = "traj" /\ kind = "cartesian" => time \in StartTime .. now

Methods == \A c \in Clients : Fits(pc[c], asOf[c], past[c], wps[c])

\* The waypoints to come are in the trajectory, or in the one it is being filled with.
GoalsKept ==
  \A w \in goals : Passes(IF cmdMutex = NoThread THEN traj ELSE wps[cmdMutex], w)

\* The loop's timestamp is not 0, and it has not been stopped by an exception.
LoopRuns == loopPc # "terminated" /\ (loopPc = "interpolate" => loopTime > 0)

InterpolatorInv == TypeOK /\ Mutex /\ Methods /\ GoalsKept /\ LoopRuns

-----------------------------------------------------------------------------
(* The steps.                                                                *)

Labels == {"idle", "cmd", "read", "velocities", "traj", "fixed", "init", "home", "final"}

\* A step of a client that leaves the trajectory and its mutex alone.
LEMMA LocalStep ==
  ASSUME InterpolatorInv, NEW c \in Clients, pc[c] \notin Filling,
         NEW p \in Labels, NEW t \in Nat, NEW r \in Seq(Waypoints), NEW s \in Seq(Waypoints),
         pc' = [pc EXCEPT ![c] = p], asOf' = [asOf EXCEPT ![c] = t],
         past' = [past EXCEPT ![c] = r], wps' = [wps EXCEPT ![c] = s],
         UNCHANGED <<now, kind, traj, cmdMutex, loop, goals>>,
         Fits(p, t, r, s)
  PROVE  InterpolatorInv'
  <1>1. /\ pc'[c] = p /\ asOf'[c] = t /\ past'[c] = r /\ wps'[c] = s
        /\ \A d \in Clients : d # c => /\ pc'[d] = pc[d] /\ asOf'[d] = asOf[d]
                                       /\ past'[d] = past[d] /\ wps'[d] = wps[d]
    BY DEF InterpolatorInv, TypeOK
  <1>2. TypeOK'
    <2>1. pc' \in [Clients -> Labels \cup Filling]
      BY DEF InterpolatorInv, TypeOK, Labels, Filling
    <2>2. asOf' \in [Clients -> Nat]
      BY DEF InterpolatorInv, TypeOK
    <2>3. past' \in [Clients -> Seq(Waypoints)] /\ wps' \in [Clients -> Seq(Waypoints)]
      BY DEF InterpolatorInv, TypeOK
    <2>4. QED
      BY <2>1, <2>2, <2>3 DEF InterpolatorInv, TypeOK, loop, Labels, Filling
  <1>3. Mutex'
    BY <1>1 DEF InterpolatorInv, Mutex, Labels, Filling
  <1>4. Methods'
    <2>1. Fits(p, t, r, s)' /\ \A d \in Clients : Fits(pc[d], asOf[d], past[d], wps[d])
      BY DEF Fits, InterpolatorInv, Methods
    <2>2. ASSUME NEW d \in Clients PROVE Fits(pc[d], asOf[d], past[d], wps[d])'
      <3>1. CASE d = c
        BY <3>1, <1>1 DEF Fits
      <3>2. CASE d # c
        BY <3>2, <2>1, <1>1 DEF Fits
      <3>3. QED
        BY <3>1, <3>2
    <2>3. QED
      BY <2>2 DEF Methods
  <1>5. GoalsKept'
    <2>1. cmdMutex # c /\ cmdMutex \in Clients \cup {NoThread}
      BY DEF InterpolatorInv, Mutex, TypeOK
    <2>2. goals' = goals /\ cmdMutex' = cmdMutex /\ traj' = traj
      OBVIOUS
    <2>3. CASE cmdMutex = NoThread
      <3>1. \A w \in goals : Passes(traj, w)
        BY <2>3 DEF InterpolatorInv, GoalsKept
      <3>2. QED
        BY <2>2, <2>3, <3>1 DEF GoalsKept, Passes
    <2>4. CASE cmdMutex # NoThread
      <3>1. \A w \in goals : Passes(wps[cmdMutex], w)
        BY <2>4 DEF InterpolatorInv, GoalsKept
      <3>2. wps'[cmdMutex] = wps[cmdMutex]
        BY <1>1, <2>1, <2>4
      <3>3. QED
        BY <2>2, <2>4, <3>1, <3>2 DEF GoalsKept, Passes
    <2>5. QED
      BY <2>3, <2>4
  <1>6. LoopRuns'
    BY DEF InterpolatorInv, LoopRuns, loop
  <1>7. QED
    BY <1>2, <1>3, <1>4, <1>5, <1>6 DEF InterpolatorInv

\* A step that clears the trajectory, to fill it with new.
LEMMA ClearStep ==
  ASSUME InterpolatorInv, NEW c \in Clients, pc[c] \notin Filling, pc[c] # "read",
         cmdMutex = NoThread,
         NEW new \in Seq(Waypoints), Len(new) >= 1, NEW accepted \in SUBSET Waypoints,
         \A w \in accepted : w.time > now => Passes(new, w),
         Clear(c, new, accepted)
  PROVE  InterpolatorInv'
  <1> DEFINE p == pc'[c]
             t == asOf'[c]
  <1>1. /\ p \in Filling /\ t \in Nat /\ wps'[c] = new /\ past'[c] = <<>>
        /\ \A d \in Clients : d # c => /\ pc'[d] = pc[d] /\ asOf'[d] = asOf[d]
                                       /\ past'[d] = past[d] /\ wps'[d] = wps[d]
    <2>1. past[c] = <<>>
      BY DEF InterpolatorInv, Methods, Fits
    <2>2. QED
      BY <2>1 DEF InterpolatorInv, TypeOK, Clear, Goto, Filling
  <1>2. TypeOK'
    <2>1. pc' \in [Clients -> Labels \cup Filling]
      BY DEF InterpolatorInv, TypeOK, Clear, Goto, Labels, Filling
    <2>2. asOf' \in [Clients -> Nat]
      <3>1. asOf' = asOf \/ asOf' = [asOf EXCEPT ![c] = 0]
        BY DEF Clear
      <3>2. QED
        BY <3>1 DEF InterpolatorInv, TypeOK
    <2>3. past' \in [Clients -> Seq(Waypoints)] /\ wps' \in [Clients -> Seq(Waypoints)]
      BY DEF InterpolatorInv, TypeOK, Clear
    <2>4. traj' \in Seq(Waypoints) /\ goals' \subseteq Waypoints
      BY EmptySeq DEF Clear
    <2>5. QED
      BY <2>1, <2>2, <2>3, <2>4 DEF InterpolatorInv, TypeOK, loop, Labels, Filling, Clear
  <1>3. Mutex'
    <2>1. \A d \in Clients : d # c => pc[d] \notin Filling
      BY InterpolatorAssumption DEF InterpolatorInv, Mutex
    <2>2. cmdMutex' = c
      BY DEF Clear
    <2>3. QED
      BY <1>1, <2>1, <2>2, InterpolatorAssumption DEF Mutex
  <1>4. Methods'
    <2>1. \A d \in Clients : Fits(pc[d], asOf[d], past[d], wps[d])
      BY DEF InterpolatorInv, Methods
    <2>2. now' = now /\ kind' = kind
      BY DEF Clear
    <2>3. ASSUME NEW d \in Clients PROVE Fits(pc[d], asOf[d], past[d], wps[d])'
      <3>1. CASE d = c
        BY <3>1, <1>1 DEF Fits, Filling
      <3>2. CASE d # c
        BY <3>2, <2>1, <2>2, <1>1 DEF Fits
      <3>3. QED
        BY <3>1, <3>2
    <2>4. QED
      BY <2>3 DEF Methods
  <1>5. GoalsKept'
    <2>1. cmdMutex' = c /\ c # NoThread /\ goals' = {w \in accepted : w.time > now}
      BY InterpolatorAssumption DEF Clear
    <2>2. \A w \in goals' : Passes(new, w)
      BY <2>1
    <2>3. QED
      BY <1>1, <2>1, <2>2 DEF GoalsKept, Passes
  <1>6. LoopRuns'
    BY DEF InterpolatorInv, LoopRuns, loop, Clear
  <1>7. QED
    BY <1>2, <1>3, <1>4, <1>5, <1>6 DEF InterpolatorInv

\* The trajectory is filled and the mutex released.
LEMMA FillStep ==
  ASSUME InterpolatorInv, NEW c \in Clients, Fill(c)
  PROVE  InterpolatorInv'
  <1>1. pc[c] \in Filling /\ cmdMutex = c /\ c # NoThread /\ Len(wps[c]) >= 1
    <2>1. pc[c] \in Filling
      BY DEF Fill, Filling
    <2>2. QED
      BY <2>1, InterpolatorAssumption DEF InterpolatorInv, Mutex, Methods, Fits
  <1> DEFINE t == IF pc[c] = "fill_init" THEN asOf[c] ELSE 0
             r == IF pc[c] = "fill_init" THEN past[c] ELSE <<>>
  <1>0. /\ pc' = [pc EXCEPT ![c] = IF pc[c] = "fill_init" THEN "home" ELSE "idle"]
        /\ asOf' = [asOf EXCEPT ![c] = t] /\ past' = [past EXCEPT ![c] = r]
        /\ wps' = [wps EXCEPT ![c] = <<>>] /\ t \in Nat /\ r \in Seq(Waypoints)
    <2>1. asOf = [asOf EXCEPT ![c] = asOf[c]] /\ past = [past EXCEPT ![c] = past[c]]
      BY DEF InterpolatorInv, TypeOK
    <2>2. asOf[c] \in Nat /\ past[c] \in Seq(Waypoints)
      BY DEF InterpolatorInv, TypeOK
    <2>3. CASE pc[c] = "fill_init"
      BY <2>1, <2>2, <2>3 DEF Fill, Goto
    <2>4. CASE pc[c] # "fill_init"
      BY <2>4, EmptySeq DEF Fill, Finish, Goto
    <2>5. QED
      BY <2>3, <2>4
  <1>2. /\ pc'[c] \in {"idle", "home"} /\ asOf'[c] \in Nat /\ wps'[c] = <<>> /\ past'[c] = <<>>
        /\ \A d \in Clients : d # c => /\ pc'[d] = pc[d] /\ asOf'[d] = asOf[d]
                                       /\ past'[d] = past[d] /\ wps'[d] = wps[d]
    <2>1. r = <<>>
      BY DEF InterpolatorInv, Methods, Fits
    <2> HIDE DEF t, r
    <2>2. QED
      BY <1>0, <2>1 DEF InterpolatorInv, TypeOK
  <1>3. traj' = wps[c] /\ traj' \in Seq(Waypoints) /\ traj' # <<>> /\ cmdMutex' = NoThread
    BY <1>1, EmptySeq DEF Fill, InterpolatorInv, TypeOK
  <1>4. TypeOK'
    <2>1. pc' \in [Clients -> Labels \cup Filling]
      BY DEF InterpolatorInv, TypeOK, Fill, Finish, Goto, Labels, Filling
    <2>2. asOf' \in [Clients -> Nat]
      <3> HIDE DEF t
      <3>1. QED
        BY <1>0 DEF InterpolatorInv, TypeOK
    <2>3. past' \in [Clients -> Seq(Waypoints)] /\ wps' \in [Clients -> Seq(Waypoints)]
      <3> HIDE DEF r
      <3>1. QED
        BY <1>0, EmptySeq DEF InterpolatorInv, TypeOK
    <2>4. QED
      BY <1>3, <2>1, <2>2, <2>3 DEF InterpolatorInv, TypeOK, loop, Labels, Filling, Fill
  <1>5. Mutex'
    <2>1. \A d \in Clients : d # c => pc[d] \notin Filling
      BY <1>1 DEF InterpolatorInv, Mutex
    <2>2. pc'[c] \notin Filling
      BY <1>2 DEF Filling
    <2>3. QED
      BY <1>2, <1>3, <2>1, <2>2, InterpolatorAssumption DEF Mutex
  <1>6. Methods'
    <2>1. \A d \in Clients : Fits(pc[d], asOf[d], past[d], wps[d])
      BY DEF InterpolatorInv, Methods
    <2>2. now' = now /\ kind' = kind
      BY DEF Fill
    <2>3. ASSUME NEW d \in Clients PROVE Fits(pc[d], asOf[d], past[d], wps[d])'
      <3>1. CASE d = c
        BY <3>1, <1>2 DEF Fits, Filling
      <3>2. CASE d # c
        BY <3>2, <2>1, <2>2, <1>2 DEF Fits
      <3>3. QED
        BY <3>1, <3>2
    <2>4. QED
      BY <2>3 DEF Methods
  <1>7. GoalsKept'
    <2>1. goals' = goals
      BY DEF Fill
    <2>2. \A w \in goals : Passes(wps[c], w)
      BY <1>1 DEF InterpolatorInv, GoalsKept
    <2>3. QED
      BY <1>3, <2>1, <2>2 DEF GoalsKept, Passes
  <1>8. LoopRuns'
    BY DEF InterpolatorInv, LoopRuns, loop, Fill
  <1>9. QED
    BY <1>4, <1>5, <1>6, <1>7, <1>8 DEF InterpolatorInv

\* The timestamps taken and given are not before the start, nor the ones of the past 0.
LEMMA Numbers ==
  ASSUME InterpolatorInv
  PROVE  /\ now \in Nat /\ now >= StartTime /\ now > 1 /\ MaxTime \in Nat
         /\ Window \in Nat \ {0} /\ StartTime \in Nat /\ StartTime > 2 * Window
         /\ Preview \in Nat /\ Ahead \in Nat /\ HomeTime \in Nat
  BY InterpolatorAssumption DEF InterpolatorInv, TypeOK

\* A call enters its method.
LEMMA BeginStep ==
  ASSUME InterpolatorInv, NEW c \in Clients, NEW p \in Labels, NEW s \in Seq(Waypoints),
         NEW t \in Nat, Fits(p, t, <<>>, s), Begin(c, p, s, t)
  PROVE  InterpolatorInv'
  <1>1. pc[c] = "idle" /\ past[c] = <<>> /\ pc[c] \notin Filling
    BY DEF Begin, InterpolatorInv, Methods, Fits, Filling
  <1>2. past' = [past EXCEPT ![c] = <<>>]
    BY <1>1 DEF Begin, InterpolatorInv, TypeOK
  <1>3. QED
    BY <1>1, <1>2, LocalStep, EmptySeq DEF Begin, Goto

\* The calls: each gives its method waypoints within the range.
LEMMA CallStep ==
  ASSUME InterpolatorInv, NEW c \in Clients,
         CallSetCmd(c) \/ CallSetTraj(c) \/ CallSetToDamping(c) \/ CallResetToHome(c)
  PROVE  InterpolatorInv'
  <1>1. CmdPos \subseteq 0 .. MaxPos /\ Home \in 0 .. MaxPos
    BY InterpolatorAssumption
  <1>2. ASSUME NEW p \in 0 .. MaxPos, NEW t \in Nat
        PROVE  <<Waypoint(p, t)>> \in Seq(Waypoints) /\ Len(<<Waypoint(p, t)>>) = 1
    <2>1. Waypoint(p, t) \in Waypoints
      BY WaypointType
    <2>2. QED
      BY <2>1
  <1>3. CASE CallSetCmd(c)
    <2>1. PICK p \in CmdPos, t \in Timestamps(now) \cup {0} :
            Begin(c, "cmd", <<Waypoint(p, IF t = 0 THEN now + Preview ELSE t)>>,
                  IF kind = "joint" THEN now ELSE 0)
      BY <1>3 DEF CallSetCmd
    <2> DEFINE u == IF t = 0 THEN now + Preview ELSE t
               a == IF kind = "joint" THEN now ELSE 0
    <2>2. u \in Nat /\ a \in Nat /\ "cmd" \in Labels
      BY Numbers DEF Timestamps, Labels
    <2> HIDE DEF u, a
    <2>3. Begin(c, "cmd", <<Waypoint(p, u)>>, a)
      BY <2>1 DEF u, a
    <2>4. Fits("cmd", a, <<>>, <<Waypoint(p, u)>>)
      BY <1>1, <1>2, <2>2 DEF Fits, Filling
    <2>5. QED
      BY <1>1, <1>2, <2>2, <2>3, <2>4, BeginStep
  <1>4. CASE CallSetTraj(c)
    <2>1. Fits("read", now, <<>>, <<>>) /\ now \in Nat /\ "read" \in Labels
      BY Numbers DEF Fits, Filling, Labels
    <2>2. QED
      BY <1>4, <2>1, BeginStep, EmptySeq DEF CallSetTraj
  <1>5. CASE CallSetToDamping(c)
    <2>1. PICK p \in CmdPos, t \in {now - 1, now} : Begin(c, "fixed", <<Waypoint(p, t)>>, now)
      BY <1>5 DEF CallSetToDamping
    <2>2. t \in Nat /\ now \in Nat /\ "fixed" \in Labels
      BY Numbers DEF Labels
    <2>3. Fits("fixed", now, <<>>, <<Waypoint(p, t)>>)
      BY <1>1, <1>2, <2>2 DEF Fits, Filling
    <2>4. QED
      BY <1>1, <1>2, <2>1, <2>2, <2>3, BeginStep
  <1>6. CASE CallResetToHome(c)
    <2>1. PICK p \in CmdPos :
            Begin(c, "init", <<Waypoint(p, 0), Waypoint(Home, now + HomeTime)>>, now + HomeTime)
      BY <1>6 DEF CallResetToHome
    <2>2. now + HomeTime \in Nat /\ "init" \in Labels
      BY Numbers DEF Labels
    <2>3. Waypoint(p, 0) \in Waypoints /\ Waypoint(Home, now + HomeTime) \in Waypoints
      BY <1>1, <2>2, WaypointType
    <2> DEFINE s == <<Waypoint(p, 0), Waypoint(Home, now + HomeTime)>>
    <2>4. s \in Seq(Waypoints) /\ Len(s) = 2
      BY <2>3
    <2> HIDE DEF s
    <2>5. Fits("init", now + HomeTime, <<>>, s)
      BY <2>4 DEF Fits, Filling
    <2>6. QED
      BY <2>1, <2>2, <2>4, <2>5, BeginStep DEF s
  <1>7. QED
    BY <1>3, <1>4, <1>5, <1>6

\* A method that returns or throws.
LEMMA FinishStep ==
  ASSUME InterpolatorInv, NEW c \in Clients, pc[c] \notin Filling, Finish(c),
         UNCHANGED <<now, kind, traj, cmdMutex, loop, goals>>
  PROVE  InterpolatorInv'
  <1>1. Fits("idle", 0, <<>>, <<>>) /\ "idle" \in Labels
    BY DEF Fits, Filling, Labels
  <1>2. QED
    BY <1>1, LocalStep, EmptySeq DEF Finish, Goto

\* What a client may find of a trajectory is one.
LEMMA VisibleType ==
  ASSUME InterpolatorInv, NEW tr \in Visible
  PROVE  tr \in Seq(Waypoints)
  <1>1. CASE cmdMutex = NoThread
    BY <1>1 DEF Visible, InterpolatorInv, TypeOK
  <1>2. CASE cmdMutex # NoThread
    <2>1. cmdMutex \in Clients
      BY <1>2 DEF InterpolatorInv, TypeOK
    <2>2. wps[cmdMutex] \in Seq(Waypoints)
      BY <2>1 DEF InterpolatorInv, TypeOK
    <2>3. PICK n \in 0 .. Len(wps[cmdMutex]) : tr = SubSeq(wps[cmdMutex], 1, n)
      BY <1>2 DEF Visible
    <2>4. \A i \in 1 .. n : wps[cmdMutex][i] \in Waypoints
      BY <2>2, <2>3, ElementOfSeq
    <2>5. n \in Int
      BY <2>2, <2>3
    <2>6. QED
      BY <2>3, <2>4, <2>5, SubSeqProperties
  <1>3. QED
    BY <1>1, <1>2

\* set_*_traj reads where the arm was, or fails as it finds the trajectory empty.
LEMMA ReadPastStep ==
  ASSUME InterpolatorInv, NEW c \in Clients, ReadPast(c)
  PROVE  InterpolatorInv'
  <1> DEFINE n == Len(past[c])
             t == asOf[c] - (2 - n) * Window
  <1>1. /\ pc[c] = "read" /\ pc[c] \notin Filling /\ n \in 0 .. 2 /\ past[c] \in Seq(Waypoints)
        /\ asOf[c] \in StartTime .. now /\ \A i \in 1 .. n : past[c][i].time = asOf[c] - (3 - i) * Window
    <2>1. pc[c] = "read" /\ n < 3
      BY DEF ReadPast
    <2>2. past[c] \in Seq(Waypoints) /\ n \in Nat
      BY LenProperties DEF InterpolatorInv, TypeOK
    <2>3. Fits("read", asOf[c], past[c], wps[c])
      BY <2>1 DEF InterpolatorInv, Methods
    <2>4. asOf[c] \in StartTime .. now /\ \A i \in 1 .. n : past[c][i].time = asOf[c] - (3 - i) * Window
      BY <2>3 DEF Fits
    <2>5. pc[c] \notin Filling
      BY <2>1 DEF Filling
    <2> HIDE DEF n
    <2>6. n \in 0 .. 2
      BY <2>1, <2>2
    <2>7. QED
      BY <2>1, <2>2, <2>4, <2>5, <2>6
  <1>2. t \in Nat \ {0} /\ t = asOf[c] - (3 - (n + 1)) * Window
    <2>1. n = 0 \/ n = 1 \/ n = 2
      BY <1>1
    <2>2. asOf[c] \in Nat /\ asOf[c] >= StartTime
      BY <1>1, Numbers
    <2> HIDE DEF n
    <2>3. QED
      BY <2>1, <2>2, Numbers
  <1> HIDE DEF n, t
  <1>3. PICK tr \in Visible :
          IF CanInterpolate(tr, t)
          THEN /\ past' = [past EXCEPT ![c] = Append(@, Waypoint(Interpolate(tr, t), t))]
               /\ UNCHANGED <<pc, asOf, wps>>
          ELSE Finish(c)
    BY DEF ReadPast, n, t
  <1>4. UNCHANGED <<now, kind, traj, cmdMutex, loop, goals>>
    BY DEF ReadPast
  <1>5. CASE CanInterpolate(tr, t)
    <2> DEFINE w == Waypoint(Interpolate(tr, t), t)
               r == Append(past[c], w)
    <2>1. w \in Waypoints /\ w.time = t
      <3>1. tr \in Seq(Waypoints) /\ tr # <<>>
        BY <1>5, VisibleType DEF CanInterpolate
      <3>2. Interpolate(tr, t) \in 0 .. MaxPos
        BY <3>1, <1>2, InterpolateType
      <3>3. QED
        BY <3>2, <1>2, WaypointType DEF Waypoint
    <2> HIDE DEF w
    <2>2. r \in Seq(Waypoints) /\ Len(r) = n + 1 /\ r[n + 1] = w /\ \A i \in 1 .. n : r[i] = past[c][i]
      BY <1>1, <2>1, AppendProperties DEF n
    <2>3. past' = [past EXCEPT ![c] = r] /\ UNCHANGED <<pc, asOf, wps>>
      BY <1>3, <1>5 DEF w
    <2> HIDE DEF r
    <2>4. Fits("read", asOf[c], r, wps[c])
      <3>1. asOf[c] \in StartTime .. now /\ Len(r) <= 3
        BY <1>1, <2>2
      <3>2. ASSUME NEW i \in 1 .. Len(r) PROVE r[i].time = asOf[c] - (3 - i) * Window
        <4>1. i \in 1 .. n \/ i = n + 1
          BY <1>1, <2>2
        <4>2. QED
          BY <4>1, <1>1, <1>2, <2>1, <2>2
      <3>3. QED
        BY <3>1, <3>2 DEF Fits, Filling
    <2>5. /\ pc' = [pc EXCEPT ![c] = "read"] /\ asOf' = [asOf EXCEPT ![c] = asOf[c]]
          /\ wps' = [wps EXCEPT ![c] = wps[c]] /\ "read" \in Labels
          /\ asOf[c] \in Nat /\ wps[c] \in Seq(Waypoints)
      BY <1>1, <2>3 DEF InterpolatorInv, TypeOK, Labels
    <2>6. QED
      BY <1>1, <1>4, <2>2, <2>3, <2>4, <2>5, LocalStep
  <1>6. CASE ~CanInterpolate(tr, t)
    BY <1>1, <1>3, <1>4, <1>6, FinishStep
  <1>7. QED
    BY <1>5, <1>6

\* The trajectory it builds ascends, from the past waypoints to those to come.
LEMMA BuildTrajStep ==
  ASSUME InterpolatorInv, NEW c \in Clients, BuildTraj(c)
  PROVE  InterpolatorInv'
  <1>1. /\ pc[c] = "read" /\ pc[c] \notin Filling /\ Len(past[c]) = 3 /\ past[c] \in Seq(Waypoints)
        /\ asOf[c] \in Nat /\ \A i \in 1 .. 3 : past[c][i].time = asOf[c] - (3 - i) * Window
    <2>1. pc[c] = "read" /\ Len(past[c]) = 3
      BY DEF BuildTraj
    <2>2. past[c] \in Seq(Waypoints) /\ asOf[c] \in Nat
      BY DEF InterpolatorInv, TypeOK
    <2>3. Fits("read", asOf[c], past[c], wps[c])
      BY <2>1 DEF InterpolatorInv, Methods
    <2>4. QED
      BY <2>1, <2>2, <2>3 DEF Fits, Filling
  <1>2. PICK tr \in Trajs(asOf[c]) :
          LET kept == Kept(tr, asOf[c]) IN
          IF \A i \in 1 .. Len(kept) - 1 : kept[i].time < kept[i + 1].time
          THEN /\ Goto(c, "velocities")
               /\ wps' = [wps EXCEPT ![c] = past[c] \o kept]
               /\ past' = [past EXCEPT ![c] = <<>>]
               /\ UNCHANGED asOf
          ELSE Finish(c)
    BY DEF BuildTraj
  <1>3. UNCHANGED <<now, kind, traj, cmdMutex, loop, goals>>
    BY DEF BuildTraj
  <1>4. tr \in Seq(Waypoints)
    <2>1. PICK n \in 0 .. MaxWaypoints : tr \in [1 .. n -> [pos : CmdPos, time : Timestamps(asOf[c])]]
      BY DEF Trajs
    <2>2. [pos : CmdPos, time : Timestamps(asOf[c])] \subseteq Waypoints
      <3>1. CmdPos \subseteq 0 .. MaxPos /\ Timestamps(asOf[c]) \subseteq Nat
        BY <1>1, InterpolatorAssumption DEF Timestamps
      <3>2. QED
        BY <3>1 DEF Waypoints
    <2>3. n \in Nat /\ tr \in [1 .. n -> Waypoints]
      BY <2>1, <2>2, InterpolatorAssumption
    <2>4. QED
      BY <2>3, SeqDef
  <1> DEFINE kept == Kept(tr, asOf[c])
             s == past[c] \o kept
  <1>5. CASE \A i \in 1 .. Len(kept) - 1 : kept[i].time < kept[i + 1].time
    <2>1. kept \in Seq(Waypoints) /\ \A i \in 1 .. Len(kept) : kept[i].time > asOf[c]
      BY <1>1, <1>4, KeptType
    <2>0. /\ Goto(c, "velocities") /\ wps' = [wps EXCEPT ![c] = s]
          /\ past' = [past EXCEPT ![c] = <<>>] /\ UNCHANGED asOf
      BY <1>2, <1>5
    <2> HIDE DEF kept
    <2>2. \A i, j \in 1 .. Len(kept) : i < j => kept[i].time < kept[j].time
      BY <1>5, <2>1, Ascends
    <2>3. /\ s \in Seq(Waypoints) /\ Len(s) = 3 + Len(kept) /\ Len(kept) \in Nat
          /\ \A i \in 1 .. Len(s) : s[i] = IF i <= 3 THEN past[c][i] ELSE kept[i - 3]
      <3>1. /\ s \in Seq(Waypoints) /\ Len(s) = Len(past[c]) + Len(kept)
            /\ \A i \in 1 .. Len(past[c]) + Len(kept) :
                 s[i] = IF i <= Len(past[c]) THEN past[c][i] ELSE kept[i - Len(past[c])]
        BY <1>1, <2>1, ConcatProperties
      <3>2. Len(kept) \in Nat
        BY <2>1, LenProperties
      <3> HIDE DEF s
      <3>3. QED
        BY <1>1, <3>1, <3>2
    <2> HIDE DEF s
    <2>4. InOrder(s)
      <3> SUFFICES ASSUME NEW i \in 1 .. Len(s), NEW j \in 1 .. Len(s), i < j
                   PROVE  s[i].time < s[j].time
        BY DEF InOrder
      <3>1. \A k \in 1 .. 3 : s[k].time = asOf[c] - (3 - k) * Window /\ s[k].time <= asOf[c]
        <4>1. \A k \in 1 .. 3 : s[k].time = asOf[c] - (3 - k) * Window
          BY <1>1, <2>3
        <4>2. \A k \in 1 .. 3 : asOf[c] - (3 - k) * Window <= asOf[c]
          <5> SUFFICES ASSUME NEW k \in 1 .. 3 PROVE asOf[c] - (3 - k) * Window <= asOf[c]
            OBVIOUS
          <5>1. k = 1 \/ k = 2 \/ k = 3
            OBVIOUS
          <5>2. Window \in Nat /\ asOf[c] \in Nat
            BY <1>1, Numbers
          <5>3. QED
            BY ONLY <5>1, <5>2
        <4>3. QED
          BY <4>1, <4>2
      <3>2. CASE j <= 3
        <4>1. i \in 1 .. 3 /\ j \in 1 .. 3
          BY <3>2, <2>3
        <4>2. asOf[c] - (3 - i) * Window < asOf[c] - (3 - j) * Window
          <5>1. i = 1 \/ i = 2 \/ i = 3
            BY <4>1
          <5>2. j = 1 \/ j = 2 \/ j = 3
            BY <4>1
          <5>3. Window \in Nat \ {0} /\ asOf[c] \in Nat
            BY <1>1, Numbers
          <5>4. CASE i = 1
            <6>1. j = 2 \/ j = 3
              BY <5>2, <5>4
            <6>2. QED
              BY ONLY <5>3, <5>4, <6>1
          <5>5. CASE i = 2
            <6>1. j = 3
              BY <5>2, <5>5
            <6>2. QED
              BY ONLY <5>3, <5>5, <6>1
          <5>6. QED
            BY <5>1, <5>2, <5>4, <5>5
        <4>3. QED
          BY <3>1, <4>1, <4>2
      <3>3. CASE i <= 3 /\ j > 3
        <4>1. j - 3 \in 1 .. Len(kept) /\ s[j] = kept[j - 3]
          BY <2>3, <3>3
        <4>2. kept[j - 3].time > asOf[c] /\ kept[j - 3].time \in Nat
          BY <2>1, <4>1, ElementOfSeq, WaypointType
        <4>3. i \in 1 .. 3 /\ s[i] = past[c][i] /\ past[c][i].time \in Nat /\ s[i].time <= asOf[c]
          <5>1. i \in 1 .. 3
            BY <3>3
          <5>2. i \in 1 .. Len(past[c])
            BY <1>1, <5>1
          <5>3. past[c][i] \in Waypoints
            BY <1>1, <5>2, ElementOfSeq
          <5>4. past[c][i].time \in Nat
            BY <5>3, WaypointType
          <5>5. s[i] = past[c][i]
            BY <2>3, <3>3
          <5>6. s[i].time <= asOf[c]
            BY <3>1, <5>1
          <5>7. QED
            BY <5>1, <5>4, <5>5, <5>6
        <4>4. past[c][i].time <= asOf[c] /\ asOf[c] < kept[j - 3].time
          BY <1>1, <4>2, <4>3
        <4>5. past[c][i].time < kept[j - 3].time
          <5>1. \A x, y, z \in Nat : x <= y /\ y < z => x < z
            OBVIOUS
          <5>2. QED
            BY ONLY <5>1, <1>1, <4>2, <4>3, <4>4
        <4>6. QED
          BY <4>1, <4>3, <4>5
      <3>4. CASE i > 3
        <4>1. i - 3 \in 1 .. Len(kept) /\ j - 3 \in 1 .. Len(kept) /\ i - 3 < j - 3
          BY <2>3, <3>4
        <4>2. kept[i - 3].time < kept[j - 3].time
          BY <2>2, <4>1
        <4>3. s[i] = kept[i - 3] /\ s[j] = kept[j - 3]
          BY <2>3, <3>4
        <4>4. QED
          BY <4>2, <4>3
      <3>5. QED
        BY <2>3, <3>2, <3>3, <3>4
    <2>5. Fits("velocities", asOf[c], <<>>, s)
      BY <2>3, <2>4 DEF Fits, Filling
    <2>6. asOf' = [asOf EXCEPT ![c] = asOf[c]] /\ "velocities" \in Labels
      BY <2>0 DEF InterpolatorInv, TypeOK, Labels
    <2>7. QED
      BY <1>1, <1>3, <2>0, <2>3, <2>5, <2>6, EmptySeq, LocalStep DEF Goto
  <1>6. CASE ~\A i \in 1 .. Len(kept) - 1 : kept[i].time < kept[i + 1].time
    <2>1. Finish(c)
      BY <1>2, <1>6
    <2>2. QED
      BY <1>1, <1>3, <2>1, FinishStep
  <1>7. QED
    BY <1>5, <1>6

\* The timestamp set_eef_traj takes before the mutex will not be after now.
LEMMA CalcJointVelStep ==
  ASSUME InterpolatorInv, NEW c \in Clients, CalcJointVel(c)
  PROVE  InterpolatorInv'
  <1> DEFINE t == IF kind = "cartesian" THEN now ELSE 0
  <1>1. pc[c] = "velocities" /\ pc[c] \notin Filling /\ wps[c] \in Seq(Waypoints) /\ past[c] = <<>>
        /\ Len(wps[c]) >= 3 /\ InOrder(wps[c])
    BY DEF CalcJointVel, InterpolatorInv, TypeOK, Methods, Fits, Filling
  <1>2. t \in Nat /\ (kind = "cartesian" => t \in StartTime .. now) /\ "traj" \in Labels
    BY Numbers DEF Labels
  <1> HIDE DEF t
  <1>3. /\ pc' = [pc EXCEPT ![c] = "traj"] /\ asOf' = [asOf EXCEPT ![c] = t]
        /\ past' = [past EXCEPT ![c] = <<>>] /\ wps' = [wps EXCEPT ![c] = wps[c]]
        /\ UNCHANGED <<now, kind, traj, cmdMutex, loop, goals>>
    BY <1>1 DEF CalcJointVel, Goto, t, InterpolatorInv, TypeOK
  <1>4. Fits("traj", t, <<>>, wps[c])
    BY <1>1, <1>2 DEF Fits, Filling
  <1>5. QED
    BY <1>1, <1>2, <1>3, <1>4, EmptySeq, LocalStep

\* reset_to_home goes on to its last command.
LEMMA ResetFinalStep ==
  ASSUME InterpolatorInv, NEW c \in Clients, ResetFinal(c)
  PROVE  InterpolatorInv'
  <1> DEFINE s == <<Waypoint(Home, now + HomeTime)>>
  <1>1. pc[c] = "home" /\ pc[c] \notin Filling /\ past[c] = <<>> /\ asOf[c] \in Nat
    BY DEF ResetFinal, InterpolatorInv, TypeOK, Methods, Fits, Filling
  <1>2. s \in Seq(Waypoints) /\ Len(s) = 1 /\ "final" \in Labels
    <2>1. Waypoint(Home, now + HomeTime) \in Waypoints
      BY Numbers, InterpolatorAssumption, WaypointType
    <2>2. QED
      BY <2>1 DEF Labels
  <1> HIDE DEF s
  <1>3. /\ pc' = [pc EXCEPT ![c] = "final"] /\ asOf' = [asOf EXCEPT ![c] = asOf[c]]
        /\ past' = [past EXCEPT ![c] = <<>>] /\ wps' = [wps EXCEPT ![c] = s]
        /\ UNCHANGED <<now, kind, traj, cmdMutex, loop, goals>>
    BY <1>1 DEF ResetFinal, Goto, s, InterpolatorInv, TypeOK
  <1>4. Fits("final", asOf[c], <<>>, s)
    BY <1>2 DEF Fits, Filling
  <1>5. QED
    BY <1>1, <1>2, <1>3, <1>4, EmptySeq, LocalStep

-----------------------------------------------------------------------------
(* The steps under the mutex.                                                *)

\* The waypoints left are those that are not before t, in their order.
LEMMA Remain ==
  ASSUME NEW tr \in Seq(Waypoints), NEW t \in Nat, InOrder(tr), Remaining(tr, t) # <<>>
  PROVE  /\ Remaining(tr, t) \in Seq(Waypoints) /\ InOrder(Remaining(tr, t))
         /\ \A i \in 1 .. Len(tr) : tr[i].time > t =>
              \E j \in 1 .. Len(Remaining(tr, t)) : Remaining(tr, t)[j] = tr[i]
  <1> DEFINE n == Len(tr)
             before == {i \in 1 .. n : tr[i].time < t}
             k == Advance(1, n + 1, before)
             rest == Remaining(tr, t)
  <1>1. n \in Nat /\ \A i \in 1 .. n : tr[i] \in Waypoints /\ tr[i].time \in Nat
    BY LenProperties, ElementOfSeq, WaypointType
  <1>2. k \in 1 .. n + 1 /\ \A i \in 1 .. k - 1 : i \in before
    <2>1. n + 1 \in Nat /\ 1 \in Nat /\ 1 <= n + 1
      BY <1>1
    <2> HIDE DEF before
    <2>2. QED
      BY <2>1, Advances
  <1>3. rest = SubSeq(tr, k, n)
    BY DEF Remaining
  <1> HIDE DEF k, rest
  <1>4. /\ rest \in Seq(Waypoints) /\ Len(rest) = IF k <= n THEN n - k + 1 ELSE 0
        /\ \A i \in 1 .. n - k + 1 : rest[i] = tr[k + i - 1]
    <2>1. k \in Int /\ n \in Int /\ \A i \in k .. n : tr[i] \in Waypoints
      BY <1>1, <1>2
    <2>2. QED
      BY <1>3, <2>1, SubSeqProperties
  <1>5. k <= n
    BY <1>1, <1>2, <1>4, EmptySeq DEF rest
  <1>6. InOrder(rest)
    <2> SUFFICES ASSUME NEW i \in 1 .. Len(rest), NEW j \in 1 .. Len(rest), i < j
                 PROVE  rest[i].time < rest[j].time
      BY DEF InOrder
    <2>1. k + i - 1 \in 1 .. n /\ k + j - 1 \in 1 .. n /\ k + i - 1 < k + j - 1
      BY <1>1, <1>2, <1>4, <1>5
    <2>2. tr[k + i - 1].time < tr[k + j - 1].time
      BY <2>1 DEF InOrder
    <2>3. QED
      BY <1>4, <1>5, <2>2
  <1>7. ASSUME NEW i \in 1 .. n, tr[i].time > t
        PROVE  \E j \in 1 .. Len(rest) : rest[j] = tr[i]
    <2>1. i \notin before
      BY <1>1, <1>7
    <2>2. i >= k
      BY <1>1, <1>2, <2>1
    <2>3. i - k + 1 \in 1 .. Len(rest) /\ i - k + 1 \in 1 .. n - k + 1 /\ k + (i - k + 1) - 1 = i
      BY <1>1, <1>2, <1>4, <1>5, <2>2
    <2>4. rest[i - k + 1] = tr[i]
      BY <1>4, <2>3
    <2>5. QED
      BY <2>3, <2>4
  <1>8. QED
    BY <1>4, <1>6, <1>7 DEF rest

\* A trajectory that starts before the waypoints it is given passes through them.
LEMMA Overrides ==
  ASSUME NEW a \in Waypoints, NEW rest \in Seq(Waypoints), InOrder(rest)
  PROVE  /\ <<a>> \o rest \in Seq(Waypoints) /\ Len(<<a>> \o rest) >= 1
         /\ \A i \in 1 .. Len(rest) : rest[i].time > a.time => Passes(<<a>> \o rest, rest[i])
  <1> DEFINE new == <<a>> \o rest
             n == Len(rest)
  <1>1. <<a>> \in Seq(Waypoints) /\ Len(<<a>>) = 1 /\ <<a>>[1] = a
    OBVIOUS
  <1>2. /\ new \in Seq(Waypoints) /\ Len(new) = Len(<<a>>) + n
        /\ \A i \in 1 .. Len(<<a>>) + n : new[i] = IF i <= Len(<<a>>) THEN <<a>>[i] ELSE rest[i - Len(<<a>>)]
    BY <1>1, ConcatProperties
  <1>3. n \in Nat
    BY LenProperties
  <1> HIDE DEF new, n
  <1>4. Len(new) = n + 1 /\ new[1] = a /\ \A i \in 2 .. n + 1 : new[i] = rest[i - 1]
    BY <1>1, <1>2, <1>3
  <1>5. ASSUME NEW i \in 1 .. n, rest[i].time > a.time
        PROVE  Passes(new, rest[i])
    <2>0. a.time \in Nat /\ \A j \in 1 .. n : rest[j].time \in Nat
      BY ElementOfSeq, WaypointType DEF n
    <2>1. i + 1 \in 1 .. Len(new) /\ new[i + 1] = rest[i]
      BY <1>3, <1>4
    <2>2. ASSUME NEW j \in 1 .. (i + 1) - 1 PROVE new[j].time < rest[i].time
      <3>1. CASE j = 1
        BY <1>4, <1>5, <2>0, <3>1
      <3>2. CASE j # 1
        <4>1. j - 1 \in 1 .. n /\ j - 1 < i /\ new[j] = rest[j - 1]
          BY <1>3, <1>4, <3>2
        <4>2. QED
          BY <4>1 DEF InOrder, n
      <3>3. QED
        BY <3>1, <3>2
    <2>3. ASSUME NEW j \in (i + 1) + 1 .. Len(new) PROVE rest[i].time < new[j].time
      <3>1. j - 1 \in 1 .. n /\ i < j - 1 /\ new[j] = rest[j - 1]
        BY <1>3, <1>4
      <3>2. QED
        BY <3>1 DEF InOrder, n
    <2>4. QED
      BY <2>1, <2>2, <2>3 DEF Passes
  <1>6. QED
    BY <1>2, <1>3, <1>4, <1>5 DEF new, n

\* init_fixed: the trajectory is the waypoint.
LEMMA StoreFixedStep ==
  ASSUME InterpolatorInv, NEW c \in Clients, StoreFixed(c)
  PROVE  InterpolatorInv'
  <1>1. pc[c] \in {"fixed", "cmd"} /\ cmdMutex = NoThread
        /\ Clear(c, wps[c], {First(wps[c])})
    BY DEF StoreFixed, ForNow
  <1>2. pc[c] \notin Filling /\ pc[c] # "read" /\ wps[c] \in Seq(Waypoints) /\ Len(wps[c]) = 1
    BY <1>1 DEF InterpolatorInv, TypeOK, Methods, Fits, Filling
  <1>3. First(wps[c]) \in Waypoints /\ Passes(wps[c], First(wps[c]))
    <2>1. wps[c][1] \in Waypoints
      BY <1>2, ElementOfSeq
    <2>2. QED
      BY <1>2, <2>1 DEF Passes, First
  <1>4. {First(wps[c])} \in SUBSET Waypoints
    BY <1>3
  <1>5. QED
    BY <1>1, <1>2, <1>3, <1>4, ClearStep

\* override_waypoint: the waypoint is after the one it starts with.
LEMMA StoreWaypointStep ==
  ASSUME InterpolatorInv, NEW c \in Clients, StoreWaypoint(c)
  PROVE  InterpolatorInv'
  <1>1. pc[c] \in {"cmd", "final"} /\ cmdMutex = NoThread
    BY DEF StoreWaypoint
  <1>2. pc[c] \notin Filling /\ pc[c] # "read" /\ wps[c] \in Seq(Waypoints) /\ Len(wps[c]) = 1
    BY <1>1 DEF InterpolatorInv, TypeOK, Methods, Fits, Filling
  <1>3. CASE First(wps[c]).time > now /\ CanOverride(traj, now, wps[c])
    <2> DEFINE w == First(wps[c])
               new == Override(traj, now, wps[c])
    <2>1. Clear(c, new, {w})
      BY <1>3 DEF StoreWaypoint
    <2>2. traj \in Seq(Waypoints) /\ traj # <<>> /\ now \in Nat
      BY <1>1, Numbers DEF InterpolatorInv, TypeOK, Mutex
    <2> DEFINE a == Waypoint(Interpolate(traj, now), now)
    <2>3. a \in Waypoints /\ a.time = now
      BY <2>2, InterpolateType, WaypointType DEF Waypoint
    <2>4. new = <<a>> \o wps[c]
      BY DEF Override
    <2> HIDE DEF a, new
    <2>5. w \in Waypoints /\ InOrder(wps[c]) /\ w = wps[c][1] /\ w.time > a.time
      <3>1. wps[c][1] \in Waypoints
        BY <1>2, ElementOfSeq
      <3>2. QED
        BY <1>2, <1>3, <2>3, <3>1 DEF First, InOrder
    <2>6. new \in Seq(Waypoints) /\ Len(new) >= 1 /\ Passes(new, w)
      BY <1>2, <2>3, <2>4, <2>5, Overrides
    <2>7. {w} \in SUBSET Waypoints
      BY <2>5
    <2>8. QED
      BY <1>1, <1>2, <2>1, <2>6, <2>7, ClearStep
  <1>4. CASE ~(First(wps[c]).time > now /\ CanOverride(traj, now, wps[c]))
    BY <1>2, <1>4, FinishStep DEF StoreWaypoint, Unchanged
  <1>5. QED
    BY <1>3, <1>4

\* init: the end is after the start.
LEMMA StoreInitStep ==
  ASSUME InterpolatorInv, NEW c \in Clients, StoreInit(c)
  PROVE  InterpolatorInv'
  <1>1. pc[c] = "init" /\ cmdMutex = NoThread
    BY DEF StoreInit
  <1>2. pc[c] \notin Filling /\ pc[c] # "read" /\ wps[c] \in Seq(Waypoints) /\ Len(wps[c]) = 2
    BY <1>1 DEF InterpolatorInv, TypeOK, Methods, Fits, Filling
  <1>3. CASE Last(wps[c]).time > now
    <2> DEFINE w == Last(wps[c])
               a == Waypoint(First(wps[c]).pos, now)
               new == <<a, w>>
    <2>1. Clear(c, new, {w})
      BY <1>3 DEF StoreInit
    <2>2. w \in Waypoints /\ a \in Waypoints /\ a.time = now /\ w.time > now
      <3>1. wps[c][1] \in Waypoints /\ wps[c][2] \in Waypoints /\ now \in Nat
        BY <1>2, ElementOfSeq, Numbers
      <3>2. QED
        BY <1>2, <1>3, <3>1, WaypointType DEF First, Last, Waypoint
    <2> HIDE DEF a, w
    <2>3. new \in Seq(Waypoints) /\ Len(new) = 2 /\ new[1] = a /\ new[2] = w
      BY <2>2
    <2> HIDE DEF new
    <2>4. Passes(new, w)
      <3>1. a.time < w.time
        BY <2>2, Numbers, WaypointType
      <3>2. 2 \in 1 .. Len(new) /\ \A j \in 1 .. 2 - 1 : j = 1
        BY <2>3
      <3>3. 2 + 1 .. Len(new) = {}
        BY <2>3
      <3>4. QED
        BY <2>3, <3>1, <3>2, <3>3 DEF Passes
    <2>5. {w} \in SUBSET Waypoints /\ Len(new) >= 1
      BY <2>2, <2>3
    <2>6. QED
      BY <1>1, <1>2, <2>1, <2>3, <2>4, <2>5, ClearStep
  <1>4. CASE ~(Last(wps[c]).time > now)
    BY <1>1, <1>2, <1>4, FinishStep DEF StoreInit, Unchanged
  <1>5. QED
    BY <1>3, <1>4

\* override_traj: what is erased is not to come, what is left is in its order.
LEMMA StoreTrajStep ==
  ASSUME InterpolatorInv, NEW c \in Clients, StoreTraj(c)
  PROVE  InterpolatorInv'
  <1> DEFINE t == IF kind = "cartesian" THEN asOf[c] ELSE now
             rest == Remaining(wps[c], t)
  <1>1. pc[c] = "traj" /\ cmdMutex = NoThread
        /\ IF rest # <<>> /\ CanOverride(traj, t, rest)
           THEN Clear(c, Override(traj, t, rest), {wps[c][i] : i \in 1 .. Len(wps[c])})
           ELSE Unchanged(c)
    BY DEF StoreTraj
  <1>2. pc[c] \notin Filling /\ pc[c] # "read" /\ wps[c] \in Seq(Waypoints) /\ InOrder(wps[c])
    BY <1>1 DEF InterpolatorInv, TypeOK, Methods, Fits, Filling
  <1>3. t \in Nat /\ t <= now /\ now \in Nat
    <2>1. kind = "cartesian" => asOf[c] \in StartTime .. now
      BY <1>1 DEF InterpolatorInv, Methods, Fits
    <2>2. QED
      BY <2>1, Numbers
  <1> HIDE DEF t
  <1>4. CASE rest # <<>> /\ CanOverride(traj, t, rest)
    <2> DEFINE a == Waypoint(Interpolate(traj, t), t)
               new == Override(traj, t, rest)
               accepted == {wps[c][i] : i \in 1 .. Len(wps[c])}
    <2>1. Clear(c, new, accepted)
      BY <1>1, <1>4
    <2>2. traj \in Seq(Waypoints) /\ traj # <<>>
      BY <1>1 DEF InterpolatorInv, TypeOK, Mutex
    <2>3. a \in Waypoints /\ a.time = t
      BY <1>3, <2>2, InterpolateType, WaypointType DEF Waypoint
    <2>4. new = <<a>> \o rest
      BY DEF Override
    <2>5. /\ rest \in Seq(Waypoints) /\ InOrder(rest)
          /\ \A i \in 1 .. Len(wps[c]) : wps[c][i].time > t =>
               \E j \in 1 .. Len(rest) : rest[j] = wps[c][i]
      BY <1>2, <1>3, <1>4, Remain
    <2> HIDE DEF a, new, rest
    <2>6. /\ new \in Seq(Waypoints) /\ Len(new) >= 1
          /\ \A i \in 1 .. Len(rest) : rest[i].time > t => Passes(new, rest[i])
      BY <2>3, <2>4, <2>5, Overrides
    <2>7. accepted \in SUBSET Waypoints
      BY <1>2, ElementOfSeq
    <2>8. ASSUME NEW w \in accepted, w.time > now PROVE Passes(new, w)
      <3>1. PICK i \in 1 .. Len(wps[c]) : w = wps[c][i]
        OBVIOUS
      <3>2. w.time \in Nat
        BY <2>7, WaypointType
      <3>3. w.time > t
        BY <1>3, <2>8, <3>2
      <3>4. QED
        BY <2>5, <2>6, <3>1, <3>3
    <2> HIDE DEF accepted
    <2>9. QED
      BY <1>1, <1>2, <2>1, <2>6, <2>7, <2>8, ClearStep
  <1>5. CASE ~(rest # <<>> /\ CanOverride(traj, t, rest))
    BY <1>1, <1>2, <1>5, FinishStep DEF Unchanged
  <1>6. QED
    BY <1>4, <1>5

-----------------------------------------------------------------------------
(* The invariant is inductive.                                               *)

\* The initial states satisfy the inductive invariant.
LEMMA InitInterpolator == Init => InterpolatorInv
  <1> SUFFICES ASSUME Init PROVE InterpolatorInv
    OBVIOUS
  <1>1. traj \in Seq(Waypoints) /\ traj # <<>>
    <2>1. PICK p \in CmdPos \cup {Home} : traj = <<Waypoint(p, StartTime)>>
      BY DEF Init
    <2>2. p \in 0 .. MaxPos /\ StartTime \in Nat
      BY InterpolatorAssumption
    <2>3. Waypoint(p, StartTime) \in Waypoints
      BY <2>2, WaypointType
    <2>4. QED
      BY <2>1, <2>3
  <1>2. TypeOK
    BY <1>1, EmptySeq, InterpolatorAssumption DEF Init, TypeOK
  <1>3. Mutex
    BY <1>1, InterpolatorAssumption DEF Init, Mutex, Filling
  <1>4. Methods
    BY DEF Init, Methods, Fits, Filling
  <1>5. GoalsKept /\ LoopRuns
    BY DEF Init, GoalsKept, LoopRuns
  <1>6. QED
    BY <1>2, <1>3, <1>4, <1>5 DEF InterpolatorInv

\* Time goes on: no waypoint becomes one to come.
LEMMA TickStep ==
  ASSUME InterpolatorInv, Tick
  PROVE  InterpolatorInv'
  <1>1. /\ now' = now + 1 /\ now < MaxTime /\ goals' = {w \in goals : w.time > now'}
        /\ UNCHANGED <<kind, traj, cmdMutex, loopPc, loopTime, pc, asOf, past, wps>>
    BY DEF Tick, loop, client
  <1>2. TypeOK'
    <2>1. now' \in StartTime .. MaxTime /\ goals' \subseteq Waypoints
      BY <1>1, Numbers DEF InterpolatorInv, TypeOK
    <2>2. QED
      BY <1>1, <2>1 DEF InterpolatorInv, TypeOK
  <1>3. Mutex' /\ LoopRuns'
    BY <1>1 DEF InterpolatorInv, Mutex, LoopRuns
  <1>4. Methods'
    <2> SUFFICES ASSUME NEW c \in Clients PROVE Fits(pc[c], asOf[c], past[c], wps[c])'
      BY DEF Methods
    <2>1. Fits(pc[c], asOf[c], past[c], wps[c])
      BY DEF InterpolatorInv, Methods
    <2>2. \A t \in StartTime .. now : t \in StartTime .. now'
      BY <1>1, Numbers
    <2>3. QED
      BY <1>1, <2>1, <2>2 DEF Fits
  <1>5. GoalsKept'
    <2>1. goals' \subseteq goals /\ cmdMutex' = cmdMutex /\ traj' = traj /\ wps' = wps
      BY <1>1
    <2>2. QED
      BY <2>1 DEF InterpolatorInv, GoalsKept, Passes
  <1>6. QED
    BY <1>2, <1>3, <1>4, <1>5 DEF InterpolatorInv

\* The loop finds a trajectory that is not empty, and interpolates.
LEMMA LoopStep ==
  ASSUME InterpolatorInv, LoopTimestamp \/ LoopInterpolate
  PROVE  InterpolatorInv'
  <1>1. UNCHANGED <<now, kind, traj, cmdMutex, pc, asOf, past, wps, goals>>
    BY DEF LoopTimestamp, LoopInterpolate, client
  <1>2. loopTime' \in 0 .. MaxTime /\ loopPc' \in {"idle", "interpolate"}
        /\ (loopPc' = "interpolate" => loopTime' > 0)
    <2>1. CASE LoopTimestamp
      <3>1. now \in 0 .. MaxTime /\ now > 0
        BY Numbers DEF InterpolatorInv, TypeOK
      <3>2. QED
        BY <2>1, <3>1 DEF LoopTimestamp
    <2>2. CASE LoopInterpolate
      <3>1. traj \in Seq(Waypoints) /\ traj # <<>> /\ loopTime \in Nat \ {0} /\ 0 \in 0 .. MaxTime
        BY <2>2, Numbers DEF LoopInterpolate, InterpolatorInv, TypeOK, Mutex, LoopRuns
      <3>2. CanInterpolate(traj, loopTime)
        BY <3>1, Interpolates
      <3>3. QED
        BY <2>2, <3>1, <3>2 DEF LoopInterpolate, AfterInterpolate
    <2>3. QED
      BY <2>1, <2>2
  <1>3. TypeOK'
    BY <1>1, <1>2 DEF InterpolatorInv, TypeOK
  <1>4. Mutex' /\ LoopRuns'
    BY <1>1, <1>2 DEF InterpolatorInv, Mutex, LoopRuns
  <1>5. Methods'
    BY <1>1 DEF InterpolatorInv, Methods, Fits
  <1>6. GoalsKept'
    BY <1>1 DEF InterpolatorInv, GoalsKept, Passes
  <1>7. QED
    BY <1>3, <1>4, <1>5, <1>6 DEF InterpolatorInv

\* Every step preserves the inductive invariant.
LEMMA InterpolatorStep == InterpolatorInv /\ [Next]_vars => InterpolatorInv'
  <1> SUFFICES ASSUME InterpolatorInv, [Next]_vars PROVE InterpolatorInv'
    OBVIOUS
  <1>1. CASE UNCHANGED vars
    <2>1. UNCHANGED <<now, kind, traj, cmdMutex, loopPc, loopTime, pc, asOf, past, wps, goals>>
      BY <1>1 DEF vars, loop, client
    <2>2. TypeOK' /\ Mutex' /\ LoopRuns'
      BY <2>1 DEF InterpolatorInv, TypeOK, Mutex, LoopRuns
    <2>3. Methods' /\ GoalsKept'
      BY <2>1 DEF InterpolatorInv, Methods, Fits, GoalsKept, Passes
    <2>4. QED
      BY <2>2, <2>3 DEF InterpolatorInv
  <1>2. CASE Tick
    BY <1>2, TickStep
  <1>3. CASE LoopTimestamp \/ LoopInterpolate
    BY <1>3, LoopStep
  <1>4. ASSUME NEW c \in Clients, Method(c) PROVE InterpolatorInv'
    BY <1>4, CallStep, ReadPastStep, BuildTrajStep, CalcJointVelStep, StoreFixedStep,
       StoreWaypointStep, StoreInitStep, StoreTrajStep, FillStep, ResetFinalStep DEF Method
  <1>5. QED
    BY <1>1, <1>2, <1>3, <1>4 DEF Next

\* In every reachable state the inductive invariant holds.
THEOREM Invariance == Spec => []InterpolatorInv
  BY InitInterpolator, InterpolatorStep, PTL DEF Spec

-----------------------------------------------------------------------------
(* The theorems. *)

\* Every variable keeps its type: an interpolated position, also one a new trajectory
\* starts from, lies between those commanded.
THEOREM TypeCorrect == Spec => []TypeOK
  <1>1. InterpolatorInv => TypeOK
    BY DEF InterpolatorInv
  <1>2. QED
    BY <1>1, Invariance, PTL

\* interpolate() gives the background loop a command for any timestamp it took, whatever
\* the clients store before it has the mutex: no exception ends the process.
THEOREM LoopSurvives == Spec => []LoopNeverThrows
  <1>1. InterpolatorInv => LoopNeverThrows
    BY DEF InterpolatorInv, LoopRuns, LoopNeverThrows
  <1>2. QED
    BY <1>1, Invariance, PTL

\* A waypoint of the last accepted command is where the command will be at its time,
\* however the methods of the clients interleave.
THEOREM Reached == Spec => []WaypointsReached
  <1>1. InterpolatorInv => WaypointsReached
    <2> SUFFICES ASSUME InterpolatorInv, cmdMutex = NoThread, NEW w \in goals
                 PROVE  Interpolate(traj, w.time) = w.pos
      BY DEF WaypointsReached
    <2>1. traj \in Seq(Waypoints) /\ w \in Waypoints /\ Passes(traj, w)
      BY DEF InterpolatorInv, TypeOK, GoalsKept
    <2>2. QED
      BY <2>1, Passed
  <1>2. QED
    BY <1>1, Invariance, PTL

\* The assertion of calc_joint_vel holds and no window has an empty duration, also for
\* waypoints read while another client replaces the trajectory.
THEOREM WindowsNeverEmpty == Spec => []VelWindowsOrdered
  <1>1. InterpolatorInv => VelWindowsOrdered
    <2> SUFFICES ASSUME InterpolatorInv, NEW c \in Clients, pc[c] = "velocities",
                        NEW i \in 1 .. Len(wps[c])
                 PROVE  LET tr == wps[c]
                            idx0 == LowerEnds(tr, 2 * Window)
                            idx1 == LowerEnds(tr, Window)
                            idx2 == UpperEnds(tr, Window)
                            idx3 == UpperEnds(tr, 2 * Window)
                        IN  /\ idx0[i] <= idx1[i] /\ idx1[i] < idx2[i] /\ idx2[i] <= idx3[i]
                            /\ tr[idx0[i]].time < tr[idx3[i]].time
                            /\ tr[idx1[i]].time < tr[idx2[i]].time
      BY DEF VelWindowsOrdered
    <2>1. wps[c] \in Seq(Waypoints) /\ Len(wps[c]) \in Nat
      BY LenProperties DEF InterpolatorInv, TypeOK
    <2>2. Len(wps[c]) >= 3 /\ InOrder(wps[c])
      BY DEF InterpolatorInv, Methods, Fits
    <2>3. Len(wps[c]) >= 2 /\ \A h, j \in 1 .. Len(wps[c]) : h < j => wps[c][h].time < wps[c][j].time
      BY <2>1, <2>2 DEF InOrder
    <2>4. QED
      BY <2>1, <2>3, WindowsOrdered
  <1>2. QED
    BY <1>1, Invariance, PTL

=============================================================================
