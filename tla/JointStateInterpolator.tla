----------------------- MODULE JointStateInterpolator -----------------------
(***************************************************************************)
(* The interpolator between the clients' commands and the background loop, *)
(* and the methods that put waypoints into it.  The background thread has  *)
(* no handler for exceptions: one thrown by interpolate() ends the process *)
(* with the arm stiff.                                                     *)
(*                                                                         *)
(* Times are ticks, positions cells of a grid; an interpolated position is *)
(* rounded down to a cell.  The method is "linear", as in every            *)
(* configuration.  cmd_mutex_ guards the trajectory, but set_joint_traj    *)
(* and set_eef_traj read it without: while another thread replaces it they *)
(* may find it empty, or with its first waypoints only.                    *)
(***************************************************************************)
EXTENDS Integers, Sequences

CONSTANTS
  Clients,      \* threads that call the controller's methods
  NoThread,     \* the owner of a free mutex
  Kinds,        \* the controllers there are: joint, cartesian
  MaxPos,       \* positions are 0 .. MaxPos
  CmdPos,       \* positions a client may command and the arm may have
  Home,         \* the target of reset_to_home
  StartTime,    \* when init_robot_ was done
  Ahead,        \* how far from now a client schedules a waypoint
  Preview,      \* default_preview_time
  Near,         \* a command closer than this to now is for now (1 ms)
  Window,       \* avg_window_s
  HomeTime,     \* the time reset_to_home gives its movement
  MaxWaypoints, \* bound of the model: waypoints of a trajectory a client sends
  MaxTime       \* bound of the model: the last tick

ASSUME InterpolatorAssumption ==
  /\ NoThread \notin Clients /\ Kinds \subseteq {"joint", "cartesian"}
  /\ MaxPos \in Nat /\ CmdPos \subseteq 0 .. MaxPos /\ Home \in 0 .. MaxPos
  /\ Ahead \in Nat /\ Preview \in Nat /\ Near \in Nat /\ HomeTime \in Nat \ {0}
  /\ Window \in Nat \ {0} /\ StartTime \in Nat /\ StartTime > 2 * Window
  /\ MaxWaypoints \in Nat /\ MaxTime \in Nat /\ StartTime <= MaxTime

VARIABLES
  now,       \* get_timestamp()
  kind,      \* which controller it is
  traj,      \* traj_, as the memory holds it
  cmdMutex,  \* cmd_mutex_: its owner
  loopPc,    \* where the background thread is in update_output_cmd_
  loopTime,  \* the timestamp it has taken
  pc,        \* where each client is
  asOf,      \* the timestamp a client's method has taken
  past,      \* the waypoints it has read
  wps,       \* the waypoints it is to store
  goals      \* history: the waypoints of the last accepted command that are to come

loop == <<loopPc, loopTime>>
client == <<pc, asOf, past, wps>>
vars == <<now, kind, traj, cmdMutex, loop, client, goals>>

-----------------------------------------------------------------------------
(* Trajectories *)

Waypoint(pos, time) == [pos |-> pos, time |-> time]

First(tr) == tr[1]

Last(tr) == tr[Len(tr)]

\* The segments that hold the time.
Segments(tr, t) == {i \in 1 .. Len(tr) - 1 : tr[i].time <= t /\ t <= tr[i + 1].time}

SegmentAt(tr, t) == CHOOSE i \in Segments(tr, t) : \A j \in Segments(tr, t) : i <= j

\* Times at which a waypoint is held.
Outside(tr, t) == Len(tr) = 1 \/ t <= First(tr).time \/ t >= Last(tr).time

\* interpolate() returns, and has not divided by zero.
CanInterpolate(tr, t) ==
  /\ t > 0 /\ tr # <<>>
  /\ \/ Outside(tr, t)
     \/ /\ Segments(tr, t) # {}
        /\ LET i == SegmentAt(tr, t) IN tr[i].time < tr[i + 1].time

\* Mutated form: the two ends are swapped.
OnSegmentSwapped(a, b, t) == b.pos + ((a.pos - b.pos) * (t - a.time)) \div (b.time - a.time)

OnSegment(a, b, t) == a.pos + ((b.pos - a.pos) * (t - a.time)) \div (b.time - a.time)

\* Mutated form: the first segment is followed to times before its start.
InterpolateBefore(tr, t) ==
  IF Len(tr) = 1 THEN First(tr).pos
  ELSE IF t >= Last(tr).time THEN Last(tr).pos
  ELSE IF t < First(tr).time THEN OnSegment(tr[1], tr[2], t)
  ELSE OnSegment(tr[SegmentAt(tr, t)], tr[SegmentAt(tr, t) + 1], t)

Interpolate(tr, t) ==
  IF Len(tr) = 1 \/ t <= First(tr).time THEN First(tr).pos
  ELSE IF t >= Last(tr).time THEN Last(tr).pos
  ELSE OnSegment(tr[SegmentAt(tr, t)], tr[SegmentAt(tr, t) + 1], t)

\* `while (idx < last && condition) idx++`, for the indices at which the condition holds.
Advance(idx, last, holds) ==
  CHOOSE j \in idx .. last : (j = last \/ j \notin holds) /\ idx .. j - 1 \subseteq holds

\* The waypoints left when those before t are erased from the front.
Remaining(tr, t) ==
  SubSeq(tr, Advance(1, Len(tr) + 1, {i \in 1 .. Len(tr) : tr[i].time < t}), Len(tr))

Ascending(tr) == \A i \in 1 .. Len(tr) - 1 : tr[i].time <= tr[i + 1].time

\* override_waypoint and override_traj start with what interpolate(t) gives.
Override(tr, t, rest) == <<Waypoint(Interpolate(tr, t), t)>> \o rest

CanOverride(tr, t, rest) == Ascending(rest) /\ First(tr).time <= t /\ CanInterpolate(tr, t)

-----------------------------------------------------------------------------
(* calc_joint_vel: the windows over which a waypoint's velocity is averaged. *)

\* idx_0 and idx_1; the width of a window is given in half ticks.
LowerEnds(tr, width) ==
  LET idx[i \in 1 .. Len(tr)] ==
        Advance(IF i = 1 THEN 1 ELSE idx[i - 1], Len(tr) - 1,
                {j \in 1 .. Len(tr) - 1 : 2 * tr[j + 1].time < 2 * tr[i].time - width})
  IN  idx

\* Mutated form: the upper ends look at the next waypoint, as the lower ends do.
UpperEndsNext(tr, width) ==
  LET idx[i \in 1 .. Len(tr)] ==
        Advance(IF i = 1 THEN 1 ELSE idx[i - 1], Len(tr),
                {j \in 1 .. Len(tr) - 1 : 2 * tr[j + 1].time < 2 * tr[i].time + width})
  IN  idx

\* idx_2 and idx_3
UpperEnds(tr, width) ==
  LET idx[i \in 1 .. Len(tr)] ==
        Advance(IF i = 1 THEN 1 ELSE idx[i - 1], Len(tr),
                {j \in 1 .. Len(tr) : 2 * tr[j].time < 2 * tr[i].time + width})
  IN  idx

-----------------------------------------------------------------------------
(* Time and the background loop *)

Init ==
  /\ now = StartTime
  /\ \E p \in CmdPos \cup {Home} : traj = <<Waypoint(p, StartTime)>>
  /\ kind \in Kinds
  /\ cmdMutex = NoThread
  /\ loopPc = "idle" /\ loopTime = 0
  /\ pc = [c \in Clients |-> "idle"] /\ asOf = [c \in Clients |-> 0]
  /\ past = [c \in Clients |-> <<>>] /\ wps = [c \in Clients |-> <<>>]
  /\ goals = {}

Tick ==
  /\ now < MaxTime
  /\ now' = now + 1
  /\ goals' = {w \in goals : w.time > now'}
  /\ UNCHANGED <<kind, traj, cmdMutex, loop, client>>

\* update_output_cmd_ takes its timestamp before it locks the mutex.
LoopTimestamp ==
  /\ loopPc = "idle"
  /\ loopPc' = "interpolate" /\ loopTime' = now
  /\ UNCHANGED <<now, kind, traj, cmdMutex, client, goals>>

AfterInterpolate == IF CanInterpolate(traj, loopTime) THEN "idle" ELSE "terminated"

\* Mutated form: the mutex is not taken.
LoopInterpolateUnlocked ==
  /\ loopPc = "interpolate"
  /\ loopPc' = AfterInterpolate /\ loopTime' = 0
  /\ UNCHANGED <<now, kind, traj, cmdMutex, client, goals>>

LoopInterpolate ==
  /\ loopPc = "interpolate" /\ cmdMutex = NoThread
  /\ loopPc' = AfterInterpolate /\ loopTime' = 0
  /\ UNCHANGED <<now, kind, traj, cmdMutex, client, goals>>

-----------------------------------------------------------------------------
(* The methods: what they do before they have the mutex. *)

Goto(c, label) == pc' = [pc EXCEPT ![c] = label]

\* The method returns or throws.
Finish(c) ==
  /\ Goto(c, "idle")
  /\ asOf' = [asOf EXCEPT ![c] = 0]
  /\ past' = [past EXCEPT ![c] = <<>>] /\ wps' = [wps EXCEPT ![c] = <<>>]

Begin(c, label, waypoints, time) ==
  /\ pc[c] = "idle"
  /\ Goto(c, label)
  /\ wps' = [wps EXCEPT ![c] = waypoints]
  /\ asOf' = [asOf EXCEPT ![c] = time]
  /\ UNCHANGED <<now, kind, traj, cmdMutex, loop, past, goals>>

\* Timestamps a client may give when it calls at t: from too late to a while ahead.
Timestamps(t) == t .. t + Ahead

\* set_joint_cmd and set_eef_cmd: a timestamp of 0 means the default one.
CallSetCmd(c) ==
  \E p \in CmdPos, t \in Timestamps(now) \cup {0} :
    Begin(c, "cmd", <<Waypoint(p, IF t = 0 THEN now + Preview ELSE t)>>,
          IF kind = "joint" THEN now ELSE 0)

\* set_joint_traj and set_eef_traj; what they are given matters to BuildTraj only.
CallSetTraj(c) == Begin(c, "read", <<>>, now)

CallSetToDamping(c) ==
  \E p \in CmdPos, t \in {now - 1, now} : Begin(c, "fixed", <<Waypoint(p, t)>>, now)

CallResetToHome(c) ==
  \E p \in CmdPos :
    Begin(c, "init", <<Waypoint(p, 0), Waypoint(Home, now + HomeTime)>>, now + HomeTime)

\* What a thread without the mutex may find in the trajectory.
Visible ==
  IF cmdMutex = NoThread THEN {traj}
  ELSE {SubSeq(wps[cmdMutex], 1, n) : n \in 0 .. Len(wps[cmdMutex])}

\* set_*_traj looks up where the arm was and is, without the mutex.
ReadPast(c) ==
  /\ pc[c] = "read" /\ Len(past[c]) < 3
  /\ \E tr \in Visible :
       LET t == asOf[c] - (2 - Len(past[c])) * Window IN
       IF CanInterpolate(tr, t)
       THEN /\ past' = [past EXCEPT ![c] = Append(@, Waypoint(Interpolate(tr, t), t))]
            /\ UNCHANGED <<pc, asOf, wps>>
       ELSE Finish(c)
  /\ UNCHANGED <<now, kind, traj, cmdMutex, loop, goals>>

Trajs(t) == UNION {[1 .. n -> [pos : CmdPos, time : Timestamps(t)]] : n \in 0 .. MaxWaypoints}

\* The waypoints that are not over.
Kept(tr, t) ==
  LET kept[i \in 0 .. Len(tr)] ==
        IF i = 0 THEN <<>>
        ELSE IF tr[i].time > t THEN Append(kept[i - 1], tr[i]) ELSE kept[i - 1]
  IN  kept[Len(tr)]

\* It appends them; they must have ascending timestamps.
BuildTraj(c) ==
  /\ pc[c] = "read" /\ Len(past[c]) = 3
  /\ \E tr \in Trajs(asOf[c]) :
       LET kept == Kept(tr, asOf[c]) IN
       IF \A i \in 1 .. Len(kept) - 1 : kept[i].time < kept[i + 1].time
       THEN /\ Goto(c, "velocities")
            /\ wps' = [wps EXCEPT ![c] = past[c] \o kept]
            /\ past' = [past EXCEPT ![c] = <<>>]
            /\ UNCHANGED asOf
       ELSE Finish(c)
  /\ UNCHANGED <<now, kind, traj, cmdMutex, loop, goals>>

\* calc_joint_vel; set_eef_traj then takes its timestamp, before the mutex.
CalcJointVel(c) ==
  /\ pc[c] = "velocities"
  /\ Goto(c, "traj")
  /\ asOf' = [asOf EXCEPT ![c] = IF kind = "cartesian" THEN now ELSE 0]
  /\ UNCHANGED <<now, kind, traj, cmdMutex, loop, past, wps, goals>>

-----------------------------------------------------------------------------
(* The methods: the interpolator, under the mutex. *)

\* The trajectory is cleared before it is filled.
Clear(c, new, accepted) ==
  /\ cmdMutex' = c
  /\ traj' = <<>>
  /\ wps' = [wps EXCEPT ![c] = new]
  /\ goals' = {w \in accepted : w.time > now}
  /\ IF pc[c] = "init"
     THEN Goto(c, "fill_init") /\ UNCHANGED asOf
     ELSE Goto(c, "fill") /\ asOf' = [asOf EXCEPT ![c] = 0]
  /\ UNCHANGED <<now, kind, loop, past>>

Unchanged(c) == Finish(c) /\ UNCHANGED <<now, kind, traj, cmdMutex, loop, goals>>

\* A joint command whose time is as good as now.
ForNow(c) ==
  kind = "joint" /\ pc[c] = "cmd" /\ First(wps[c]).time - asOf[c] \in 1 - Near .. Near - 1

\* init_fixed, of set_joint_cmd and set_to_damping.
StoreFixed(c) ==
  /\ pc[c] = "fixed" \/ ForNow(c)
  /\ cmdMutex = NoThread
  /\ Clear(c, wps[c], {First(wps[c])})

\* override_waypoint, of set_joint_cmd, set_eef_cmd and the end of reset_to_home.
StoreWaypoint(c) ==
  /\ pc[c] \in {"cmd", "final"} /\ ~ForNow(c)
  /\ cmdMutex = NoThread
  /\ IF First(wps[c]).time > now /\ CanOverride(traj, now, wps[c])
     THEN Clear(c, Override(traj, now, wps[c]), {First(wps[c])})
     ELSE Unchanged(c)

\* init, of reset_to_home.
StoreInit(c) ==
  /\ pc[c] = "init" /\ cmdMutex = NoThread
  /\ IF Last(wps[c]).time > now
     THEN Clear(c, <<Waypoint(First(wps[c]).pos, now), Last(wps[c])>>, {Last(wps[c])})
     ELSE Unchanged(c)

\* override_traj: with nothing left to do it leaves the trajectory as it is.
StoreTraj(c) ==
  /\ pc[c] = "traj" /\ cmdMutex = NoThread
  /\ LET t == IF kind = "cartesian" THEN asOf[c] ELSE now
         rest == Remaining(wps[c], t)
     IN  IF rest # <<>> /\ CanOverride(traj, t, rest)
         THEN Clear(c, Override(traj, t, rest), {wps[c][i] : i \in 1 .. Len(wps[c])})
         ELSE Unchanged(c)

Fill(c) ==
  /\ pc[c] \in {"fill", "fill_init"}
  /\ traj' = wps[c] /\ cmdMutex' = NoThread
  /\ IF pc[c] = "fill_init"
     THEN Goto(c, "home") /\ wps' = [wps EXCEPT ![c] = <<>>] /\ UNCHANGED <<asOf, past>>
     ELSE Finish(c)
  /\ UNCHANGED <<now, kind, loop, goals>>

\* reset_to_home, once the time for the movement is over.
ResetFinal(c) ==
  /\ pc[c] = "home" /\ now >= asOf[c]
  /\ Goto(c, "final")
  /\ wps' = [wps EXCEPT ![c] = <<Waypoint(Home, now + HomeTime)>>]
  /\ UNCHANGED <<now, kind, traj, cmdMutex, loop, asOf, past, goals>>

-----------------------------------------------------------------------------

Method(c) ==
  \/ CallSetCmd(c) \/ CallSetTraj(c) \/ CallSetToDamping(c) \/ CallResetToHome(c)
  \/ ReadPast(c) \/ BuildTraj(c) \/ CalcJointVel(c)
  \/ StoreFixed(c) \/ StoreWaypoint(c) \/ StoreInit(c) \/ StoreTraj(c)
  \/ Fill(c) \/ ResetFinal(c)

Next == Tick \/ LoopTimestamp \/ LoopInterpolate \/ \E c \in Clients : Method(c)

Spec == Init /\ [][Next]_vars

-----------------------------------------------------------------------------
(* Properties *)

Waypoints == [pos : 0 .. MaxPos, time : Nat]

\* The type of every variable.  Interpolated positions stay among the commanded ones:
\* a new trajectory starts where some trajectory led, never beyond its end.
TypeOK ==
  /\ now \in StartTime .. MaxTime /\ kind \in {"joint", "cartesian"}
  /\ traj \in Seq(Waypoints) /\ cmdMutex \in Clients \cup {NoThread}
  /\ loopPc \in {"idle", "interpolate", "terminated"} /\ loopTime \in 0 .. MaxTime
  /\ pc \in [Clients -> {"idle", "cmd", "read", "velocities", "traj", "fixed", "init", "fill",
                         "fill_init", "home", "final"}]
  /\ asOf \in [Clients -> Nat]
  /\ past \in [Clients -> Seq(Waypoints)] /\ wps \in [Clients -> Seq(Waypoints)]
  /\ goals \subseteq Waypoints

\* The loop always gets a command from the interpolator, with any timestamp it took
\* before it had the mutex: an exception would end the process, and a segment of no
\* length would give it no number.
LoopNeverThrows == loopPc # "terminated"

\* A waypoint of the last accepted command is where the command will be at its time,
\* whatever was in force, was erased or came too late.
WaypointsReached ==
  cmdMutex = NoThread =>
    \A w \in goals : Interpolate(traj, w.time) = w.pos

\* The windows of calc_joint_vel are ordered (its assertion, on in the Debug build)
\* and have a duration to divide by, also with waypoints read while being replaced.
VelWindowsOrdered ==
  \A c \in Clients : pc[c] = "velocities" =>
    LET tr == wps[c]
        idx0 == LowerEnds(tr, 2 * Window)
        idx1 == LowerEnds(tr, Window)
        idx2 == UpperEnds(tr, Window)
        idx3 == UpperEnds(tr, 2 * Window)
    IN  \A i \in 1 .. Len(tr) :
          /\ idx0[i] <= idx1[i] /\ idx1[i] < idx2[i] /\ idx2[i] <= idx3[i]
          /\ tr[idx0[i]].time < tr[idx3[i]].time /\ tr[idx1[i]].time < tr[idx2[i]].time
=============================================================================
