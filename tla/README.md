# arx5-sdk: models, checks and proofs

TLA+ modules of the control core of arx5-sdk, the TLC runs that check them on
small instances, and the theorems TLAPS proves about them for every instance.
Paths are those of `PROJECT.json`: `src/` is the root of the repository, so the
C++ code is under `src/src/app` and `src/include/app`, the Python code under
`src/python`.

## The system

A process controls one arm.  `Arx5ControllerBase` owns the CAN bus and a
**background thread** that, every `controller_dt`, checks the last reading of
the motors, computes the next command from a trajectory, limits it, sends it and
reads the motors again.  Any **client thread** may call the public methods of
the same object.  They share the joint state, the output command, the
interpolator and the gain, under two non-recursive mutexes (`state_mutex_`,
`cmd_mutex_`), a flag that lets the loop run, a flag that ends it, and in some
places no lock at all.  `Arx5JointController` and `Arx5CartesianController` are
the two public faces of it.

On top of it, `Arx5Server` puts one cartesian controller behind a ZeroMQ REP
socket for `Arx5Client` processes; and a peripheral such as the space mouse runs
in a process of its own that hands its readings over through a ring buffer in
shared memory, to a teleoperation program that filters them and commands the arm.
A second structure in shared memory, a queue, is there for processes that must not
lose an item.

| component | state | operations | talks to | what makes it correct |
|---|---|---|---|---|
| controller base (`src/src/app/controller_base.cpp`) | joint state, output command, gain, interpolator, two mutexes, `background_send_recv_running_`, `destroy_background_threads_`, `over_current_cnt_` | the loop; `set_gain`, `reset_to_home`, `set_to_damping`, the destructor, `enter_emergency_state_` | motors (CAN), clients (threads), interpolator | nothing unchecked or unlimited reaches a stiff arm; stiffening does not make it jump; it is damped when promised; methods return |
| joint controller (`joint_controller.cpp`) | none of its own | `set_joint_cmd`, `set_joint_traj`, `recv_once`, `send_recv_once`, calibration | the base; the bus itself when the loop is stopped | one thread at a time uses the bus |
| cartesian controller (`cartesian_controller.cpp`) | none of its own | `set_eef_cmd`, `set_eef_traj` | the base, the solver | as `set_joint_cmd` |
| interpolator (`src/src/utils.cpp`) | waypoints with timestamps | `init`, `init_fixed`, `append_`/`override_` `waypoint`/`traj`, `interpolate` | called by the base under `cmd_mutex_`, and without | the loop always gets a command; accepted waypoints are reached; interpolation stays between them |
| zmq server (`src/python/communication/zmq_server.py`) | the controller or `None`, `last_eef_cmd`, `is_reset_to_home`, the REP socket | the six requests, timeout, reconstruction | clients (sockets), the controller | every request gets one reply; poses only after homing, near home, near the last one |
| zmq client (`zmq_client.py`) | REQ socket, `latest_state` | the methods over `send_recv`, interrupt and reconnection | server | a reply answers the request asked |
| ring buffer (`src/python/shared_memory/shared_memory_ring_buffer.py`) | counter, an array per key, timestamps | `put`, `get`, `get_last_k`, `get_all` | a producer process, reader processes, no lock | a read within its time budget is not torn; a producer at its pace never waits |
| space mouse process (`src/python/peripherals/spacemouse_shared_memory.py`) | the event being integrated, `ready_event`, `stop_event` | `run`, `start`, `stop` | ring buffer, its parent process | keeps the pace the buffer was sized for; its last event gets through; it ends with the program |
| teleoperation (`src/python/examples/keyboard_teleop.py`, `spacemouse_teleop.py`) | target pose, the queue of the filter, `key_pressed` | the loop: read, filter, reset or move, send; Ctrl-C | keyboard listener or space mouse process, the controller | released, the device leaves the arm where it is; the reset is noticed and brings the target home; Ctrl-C ends with the arm damped |
| queue (`shared_memory_queue.py`) | two counters, an array per key | `put`, `put_list`, `get`, `get_k`, `get_all`, `peek_all`, the three views, `clear` | a producer and a consumer, no lock | first in, first out, nothing lost, nothing torn |

The kinematics solver and the CAN driver are binary libraries with headers, and
the rest (Python bindings, configuration tables, examples, packaging, robot
descriptions) holds no state: `PROJECT.json` lists every part and why it is or is
not modelled.

What is hard here, each point at its line in `PROJECT.json` "hazards": nested and
repeated locking in the emergency path; decisions taken on values that other
threads have moved on since (the guard of `set_gain`, the unlocked reads of
`update_output_cmd_`); methods that rely on the loop having passed while they
slept; flags that say who may use the bus; refusals that stop half-way and leave
the loop stopped; a server that replaces its controller under the memory it
keeps of it; requests abandoned by their client; a buffer whose only
synchronisation is time, a queue whose only synchronisation is the order of loads
and additions; and a filter and a second process between a hand and an arm.

## The modules

| module | models |
|---|---|
| `ControllerBase` | the controller object: background thread, client threads, mutexes, flags |
| `MCControllerBase` | its instances for TLC |
| `ControllerBaseProofs` | theorems about it |
| `JointStateInterpolator` | the interpolator with its timestamps, the methods that fill it, the loop that reads it |
| `MCJointStateInterpolator` | its instances |
| `TrajectoryLemmas` | what `interpolate`, `override_traj` and `calc_joint_vel` compute, for trajectories of any length |
| `JointStateInterpolatorProofs` | theorems about the interpolator |
| `ZmqServer` | server, clients and the network between them |
| `MCZmqServer` | its instances |
| `ZmqServerProofs` | theorems about it |
| `SharedMemoryRingBuffer` | producer, reader and the passing of time |
| `MCSharedMemoryRingBuffer` | its instances |
| `SlotArithmetic` | lemmas on the slots of a circular buffer, for the two structures in shared memory |
| `SharedMemoryRingBufferProofs` | theorems about the ring buffer |
| `BoundedFifo` | what the queue promises: a bounded first-in-first-out sequence of items |
| `SharedMemoryQueue` | producer and consumer, step by step, as an implementation of it |
| `MCSharedMemoryQueue` | its instance |
| `SharedMemoryQueueProofs` | theorems about it, the refinement among them |
| `Teleop` | the two teleoperation programs, the space mouse process and their user |
| `MCTeleop` | its instance |
| `TeleopProofs` | theorems about it |

### ControllerBase

Every thread has a program counter `pc`, a `job` (the public method it runs;
subroutines such as `set_gain` and `send_recv_` have several callers, and the job
tells which) and `local` variables.  The other variables are the members of
`Arx5ControllerBase`, named after them.

*One joint stands for the arm.*  Every operation treats joints alike, and a
position is a cell of a grid, so limits and distances are integers.  A gain is its
kp; "damping" is kp = 0, as in the code.  A reading is a position and a *health*,
the class of checks it fails: none, the over-current count, the position check,
the torque check (an over-torque of the size `check_joint_state_sanity_` looks
for counts as over-current too), the gripper check.  The inverse kinematics
yields any position.

*The interpolator is the segment it moves along*, and `interpolate()` any point of
it.  This keeps what the properties of this module need (commands lie between
where the trajectory starts and where it ends); the timestamps are in
`JointStateInterpolator`.

*Steps.*  A critical section that locks nothing else is one step, guarded by the
mutex being free.  Where a thread keeps a mutex over several steps
(`check_joint_state_sanity_` around `cmd_mutex_`, the clipping in
`update_output_cmd_` against readers that take the other mutex,
`enter_emergency_state_`), the owner is recorded.  Reads and writes without a
lock are steps of their own: copying the previous command (`SendPrev`), the test
of the gain before anything is locked (`SetGainEnter`), the flags
(`ResetRun`, `ResetRestore`, `DestroyRun`, `DestroyFlag`).

*Sleeps and time.*  `set_to_damping` sleeps 10 ms and the destructor 2 s for the
loop to get a pass done.  A sleep ends (`Wake`) when `LoopHead` has gone by
`LoopPasses = 2` times, that is, after one full pass: every
`controller_dt` in `config.h` is 2 ms, and a 10 ms sleep spans five of them.  It is the one timing assumption of the module; the mutant `OnePass` shows
that `DampedBeforeFix` depends on it.  The ramp of `reset_to_home` and the wait of
the loop itself need no assumption: other threads may or may not run meanwhile.

*Readings* move by at most `MotionStep` between two passes.

`Init` is the state after `init_robot_`: interpolator and output command at the
measured position, damping sent.

| code | actions |
|---|---|
| `background_send_recv_` | `LoopHead`, then the passes below |
| `over_current_protection_` | `OverCurrentProtection` |
| `check_joint_state_sanity_` | `SanityPos`, `SanityCmd`, `SanityRest` |
| `enter_emergency_state_` | `EmergencyLock`, then `set_gain`, `FixOutput`, `send_recv_` |
| `update_output_cmd_` | `SendPrev`, `SendInterp`, `SendClipPos`, `SendClipVel` |
| `send_recv_`, `recv_`, `update_joint_state_` | `SendMotor`, `UpdateJointState` |
| `set_gain` | `CallSetGain`, `SetGainEnter` … `SetGainStore`, `SetGainReject` |
| `set_to_damping` | `CallSetToDamping`, `set_gain`, `Wake`, `SetToDampingReadState`, `SetToDampingFix` |
| `reset_to_home` | `CallResetToHome`, `ResetReadState` … `ResetRestore`, `set_gain` in each ramp step; `ResetRefused` where the interpolator throws, which leaves the loop running |
| `set_joint_cmd`, `set_eef_cmd` | `CallSetCmd`, `SetCmdReadState`, `SetCmdStore` |
| `recv_once`, `send_recv_once` | `CallRecvOnce`, `CallSendRecvOnce`, then the steps of the pass |
| `~Arx5ControllerBase` | `CallDestroy`, `set_gain`, `FixOutput`, `DestroyRun`, `Wake`, `DestroyFlag`, `DestroyJoin` |

The destructor is called when no other method is running and nothing is called
after it, as the language demands.

### JointStateInterpolator

The counterpart of `ControllerBase`: here the trajectory is kept waypoint by
waypoint, with timestamps, and of the rest of the controller only what the
interpolator sees.  `traj` is `traj_` and `cmdMutex` the owner of `cmd_mutex_`;
`loopTime` is the timestamp `update_output_cmd_` has taken before it locks;
`asOf`, `past` and `wps` are the locals of a client's method: the timestamp it has
taken, the past it has read and the waypoints it is going to store.  `Tick` moves
the clock between any two steps.  `goals` is a history variable, the waypoints of
the last accepted command that are still to come.

A method reads what it needs without the mutex (`CallSetCmd`, `CallSetTraj`,
`CallSetToDamping`, `CallResetToHome`, then `ReadPast`, `BuildTraj` and
`CalcJointVel` for a trajectory, `ResetFinal` for the second half of
`reset_to_home`), and then stores under the mutex in two steps: `StoreFixed`
(`init_fixed`), `StoreWaypoint` (`override_waypoint`), `StoreInit` (`init`) or
`StoreTraj` (`override_traj`) take the mutex, decide and clear the vector, `Fill`
puts the waypoints in and frees the mutex.  The mutex hides the two steps from
everyone but `ReadPast`, which the code runs without it: it finds any prefix of the
new waypoints.  (The data race could also crash the process or show it half a
waypoint; what the module shows is the better case.)  A method that throws leaves
everything as it was.  The joint and the cartesian controller differ in
`ForNow` and in whether the time of an override is taken before the mutex
(`set_eef_traj`) or under it.

Positions are one number, rounded down to a grid.  `interpolate` is the linear
one: every configuration uses it, and `config.h` calls the cubic one "not well
supported yet".  `append_waypoint` and `append_traj` are left out, as nothing calls
them.

### ZmqServer

The clients and the network: `ask` is the request a client waits for, `sock` which
of its sockets it uses (a REQ socket is replaced after an interrupt), `dangling`
that its socket still expects a reply nobody waits for; `requests` and `replies`
are the packets under way.  The server: `pc` (polling, building a controller,
handling, the two steps of the timeout), the request `msg` it owes a reply to,
`last_eef_cmd`, `is_reset_to_home` and the controller.  The controller is what the
server's requests do to it: alive, homed by a completed `reset_to_home`, `fresh`
when nothing was commanded since, and the pose last commanded.  Its field `astray` is
history: whether since that pose another became `last_eef_cmd` and was refused, or a
call raised half way.  Poses are points of a line; the server only compares distances.

Each request is one action, or one per outcome: handlers run alone in the server
and only their reply is seen outside.  Every outcome of `SET_EE_POSE` is an action:
not homed or far from the last command (`SetEePoseRefused`), far from home
(`SetEePoseFarFromHome`), a call that raises once the pose is in `last_eef_cmd`
(`SetEePoseFails`: the position of the gripper, or `set_eef_cmd` through the throws of
`override_waypoint`), accepted.  `set_gain` may raise on a request, and `reset_to_home` on a
request and at the timeout, then with the arm already sent on its way or not
(`ResetHalf`); the construction of a controller may throw
(`init_robot_`: no motor answers), and then the server goes back to polling with a
request it never answers (`Wedged`).  An interrupt may hit a client any time it
waits; the request may or may not have left when the socket is closed; a reply to
a closed socket is dropped.

### SharedMemoryRingBuffer

`put` and `get_last_k` step by step: load the counter, check the timestamp, write
key by key, stamp, add one; load, copy key by key.  `Tick` lets time pass between
any two steps.  A slot's timestamp is kept as an age, up to the budget, and
items are numbered, so that an intact read is a condition on numbers.  A producer
either keeps the pace of `Spacemouse.run` (a sleep of a period after each put but
the first) or does not.  Readers write nothing that others see, so one of them
stands for all.

### SharedMemoryQueue and BoundedFifo

Producer and consumer each load both counters in two steps (`PutLoadRead`,
`PutLoadWrite`; `GetLoadWrite`, `GetLoadRead`), decide (`Fits`, `NData`), copy key
by key and in one or two slices (`PutWrite`, `PutWrap`, `GetCopy`) and add to their
own counter last (`PutAdd`, `GetAdd`).  `put` is a `put_list` of one item, `get` a
`get_k` of one.  `get_next_view` gives the producer the slot to write in place
before `put_next_view` loads and checks again; a `get_view` is read during a `with`,
at whose end the item is taken, also when its body raises (`ViewRaise`).  Calls may
raise between two keys (`PutRaise`, `GetRaise`).  An item is its number in each of
its arrays, so a torn or lost item shows.

`BoundedFifo` knows a sequence, the number of the last item and what the last call
returned.  The refinement takes for its sequence what the slots between the two
counters hold, `Contents`; with it, `PutAdd` is a `Put` of the whole list, `GetAdd`
a `Get`, `PeekReturn` a `Peek`, `ViewRaise` and `ClearStore` a `Drop`, and every
other step must leave it alone.

The consumer calls `clear` between two calls.  In the body of a view, or from the
producer, `clear` moves the read counter past the write counter and the next item
is lost: this use is left out of the model (nothing in the repository makes it) and
stands among the hazards.  Two producers or two consumers are left out too: the
class has no lock for them.

### Teleop

`kind` chooses the program.  `pc` is where the program is, `child` where the
space mouse process is; `dev` is the device in the user's hand, `events` what
spnav has still to deliver, `mouse` what the process has integrated, `ring` the
item last put (a read of the ring buffer is one step here: the space mouse reads one item of a
buffer for `get_max_k = 30`, and `FewItemsIntact` says that such a read, ended before
the budget of 0.2 s, is as good as one at the time it loads the counter, at any pace).  One axis, at rest or displaced, stands for six, and
`window` is the queue of the filter; a target is a distance from home.  Units are
chosen so that every mean is whole.

| code | actions |
|---|---|
| `main`, `start` | `GoHome`, `Start`, `WaitReady` |
| waiting for the first movement | `ReadButton`, `WaitState` |
| the loop | `ReadState`, `ReadButton` (one read per button), then `Reset` or `Move` and `Send` |
| `except KeyboardInterrupt`, `__exit__`, `stop` | `Interrupt`, `Stop`, `Join`, `GoHomeAgain`, `Damp`, `Exit` |
| `Spacemouse.run` | `Open`, `OpenFails`, `PutFirst`, `SetReady`, `Poll`, `PollNothing`, `Put`, `Stopped`, `ChildInterrupted`, `Close` |
| the user | `Displace`, `Press`, `Interrupt` |

Ctrl-C reaches both processes, in any order, or (a signal) only the program.

## The runs

| run | instance | question and result |
|---|---|---|
| `main` | one client, cartesian methods, readings beyond the limit, all bad healths but the gripper's, wild commands | `TypeOK`; what a pass checks stays checked until it is sent (`SanitizedSend`); a stiff command is limited or holds the position (`SafeCommand`); a stiff gain replaces a zero one only while the command is near the position, although both moved since `set_gain` read them (`StiffensNearby`); the arm is damped at exit (`DampedAtExit`) and before `set_to_damping` picks its target (`DampedBeforeFix`); the ramp ends at its target (`RampReachesTarget`). All hold |
| `live` | the joint controller with its loop, one client that may also use `recv_once` and `send_recv_once`, fair scheduling | `NoWaitCycle`, `MethodsReturn` and `OverCurrentIsCaught` hold |
| `emergency` | one client | `EmergencyDamps` is violated |
| `small_kp` | one client, `set_gain` between damping, a small gain and a large one | `NoJump` is violated |
| `one_sender` | loop disabled, `reset_to_home` then `send_recv_once` | `OneSender` is violated |
| `interpolator` | two clients of a joint or a cartesian controller, with the loop | `LoopNeverThrows`: whatever clients store, and however old the timestamp the loop has taken, `interpolate` returns a number, so the loop, which catches nothing, lives on; `WaypointsReached`: an accepted waypoint is where the command will be at its time; `VelWindowsOrdered`: the assertion of `calc_joint_vel` holds and it never divides by zero, even for a past read while it was replaced; `TypeOK`, which includes that positions stay among the commanded ones. All hold |
| `zmq` | two clients, one interrupted once, near and far poses | `TypeOK`, `ReplyMatches`, `HomedBeforePose`, `FirstPoseNearHome` hold; `NearInStep`: a pose commanded is near the one before it, unless in between one was refused or a call raised half way (`astray`); and under fairness `Answered` |
| `zmq_last_command` | one client | `NearLastCommand` is violated |
| `ring` | 6 slots, two rounds, paced and unpaced | with the declared pace, `PacedReadsIntact` and `PaceIsSustained`; at any pace, `NextSlotsRested` and `FewItemsIntact`: a read of two items fewer than `get_max_k` that ends before the budget does is intact; `TypeOK`. All hold |
| `ring_burst` | 4 slots, unpaced | `NoTornRead` is violated |
| `queue` | 3 slots, two keys, six items, lists of up to one more than fits | `WritesAvoidReads`: what the producer writes, the consumer has no business with, although each decides on counters loaded earlier; `ImplementsFifo`: the queue is a `BoundedFifo`; `TypeOK`, which includes the length of every copy. All hold |
| `teleop` | both programs, a window of 3 readings, one event under way | `ReadsFindItem`: the ring buffer is never read empty; `DriftAfterReset`: what the filter remembers of before a reset moves the target by at most (`Window` - 1) / 2 steps; under fairness `Settles` (the device let go, the target comes to rest), `HeldResets` (buttons held are noticed, the arm stays home), `InterruptEnds` (Ctrl-C ends both processes, the arm damped). All hold |

Each property of a passing run has a mutant in `PROJECT.json`: a plausible slip in
the code (kept next to the definition it replaces, as "Mutated form") under which
TLC finds the property violated.

### What the violated runs show

* **`emergency`** — `enter_emergency_state_` locks `cmd_mutex_` and, holding it,
  calls `set_gain`, which locks it again.  The only thread that talks to the motors
  stops there; the motors keep the last command, contrary to the message "robot is
  set to damping".  (Locking a `std::mutex` twice is undefined; blocking is what it
  does on Linux.)
* **`small_kp`** — the guard against a jump in `set_gain` looks only at gains that
  were zero before.  A kp within `kp_threshold` is accepted with the command far
  away, and the next `set_gain`, to any kp, is not checked.  (There is a second way,
  which this instance has too few positions for.  `update_output_cmd_` interpolates
  under `cmd_mutex_` and limits the command later; a `set_gain` between the two compares
  with the interpolated command, near the joint, and stores its gain; the command is
  then limited to the neighbourhood of the previous one, which may be far away.  TLC
  finds it with `PosMax = 4`, readings 0 to 4, commands 0 and 4, `MotionStep = 0` and no
  small gain.)
* **`one_sender`** — `reset_to_home` gives the bus back by clearing a flag that the
  loop reads only at the head of its next pass, so `send_recv_once` may run in
  parallel with the pass under way.
* **`zmq_last_command`** — a pose refused for being far from home has already
  become `last_eef_cmd`, so a chain of refused poses walks the reference away from
  the arm, and once `SET_TO_DAMPING` lifts the second check a pose far from every
  commanded one is accepted.  (`NearLastCommand` sets aside the behaviours in which a call
  raised, so that the run ends with a refusal.)  Without a refusal and without a call
  that raises half way it cannot happen (`NearInStep`, `PoseNearLast`).  A pose commanded
  is one of `SET_EE_POSE` or the end of `reset_to_home`; where `set_to_damping` holds
  the arm does not count.
* **`ring_burst`** — `put` checks when the slot `get_max_k - 1` ahead was *written*, but
  a reader may have started on the items up to it any time until the item after it
  came.  After a
  pause, a burst of puts passes the check and overwrites what a reader copies
  within its budget.  Only reads of all or all but one of the `get_max_k` items are
  exposed (`FewIntact`); the space mouse's, of one item, are not.

### Bounds

* Positions, limits, gains: one grid cell is the distance the properties tell
  apart; the instances have positions inside, at and beyond the limits (3 of
  `Readings`, 4 of `CmdPos`), a command step smaller than the range (so that the
  velocity clipping bites), gains below, at and above the thresholds.
* `StepNum` is 1 or 2: the ramp has first, middle and last step.  The code derives
  it from the distance, and the theorems hold for any.
* One client.  What a second one adds is contention; that no client, of any number,
  waits for a mutex in a cycle, sends an unsafe command, uses an unchecked reading or
  ends with a stiff arm is proved, not run.  `DampedBeforeFix`
  and `RampReachesTarget` are claims about a single caller: a second may set the
  gain in between.
* The interpolator's instance has one tick of time and a grid of three
  positions; clients command one end of it, `reset_to_home` goes to the other, and the
  arm starts at either, so there are rising, falling and level segments; timestamps go from
  too late to two ticks ahead, around a `Near` of two, so that a command is refused,
  replaces everything, or becomes a waypoint; a trajectory has up to two waypoints
  after the past it begins with.
* `MaxSockets = 2`: one interrupt, so a lost request or reply and its successor can
  meet; the proofs lift this bound.
* `MaxPuts` fills the buffer twice, so both sides wrap.  In units of ticks the
  budget is two periods and the buffer is sized by the formula of the code with
  its margin of 1.5.
* The queue's producer puts six items into three slots, so both counters wrap
  around twice, full and empty are met from both sides, and lists and reads of one
  to three items start at every slot.
* The window of `teleop` is the space mouse's (the keyboard's five readings add
  states, no case); a step is 6 units, which every count of readings divides, and the
  target stops at 7, beyond the 6 that `DriftAfterReset` allows.  One event under
  way at a time is enough for the user to press, move and let go between any two
  reads of the program.
* Numbers of the code that cannot overflow here (a 64-bit counter of puts, an int
  counter of over-currents that the emergency stops) are natural numbers.

Deadlock checking is off where the system stops for good: after the destructor, in
the emergency routine, in a wedged server, and when a teleoperation program has ended
or waits for a device that could not be opened.

### Fairness

`ControllerBase`: the operating system schedules every thread (`SF` of each
thread's steps, `WF` of the loop).  Strong fairness is needed where a thread waits
for a mutex that others take again and again.  A `std::mutex` promises no order, but
the loop sleeps most of every period with both mutexes free, and the clients are
single callers of short critical sections.  Clients are never obliged to call.

`ZmqServer`: the server's steps and the clients' receipts are weakly fair;
`Poll(c)` is strongly fair because a REP socket takes its peers in turn.  Calls,
interrupts, reconnections and timeouts are never forced.  `Answered` allows for the
wedged server, which never answers.

`Teleop`: the program and the process are scheduled (`WF` of each) and a signal is
delivered.  The user is never obliged to do anything, so `Settles` and `HeldResets`
say what follows if at some point the user keeps still, and both except a loop that
is over.  A process puts nothing as long as events keep coming without a gap
(`PollNothing`); the user who keeps still ends that too.

## The proofs

`tlapm` proves the following with no bound on clients, positions, gains, sockets,
waypoints, buffers, windows or time, from the named assumptions on the constants:
positions and gains are integers, limits and steps naturals, `PosMin <= PosMax`;
threads are distinct from each other, `NoPose` and `NoMsg` are no pose and no
request; `HomeTime`, the averaging window, the periods, budgets, buffers and numbers of keys
are not zero; the clock starts after two averaging windows; a step of the
device is divisible by every count of readings.

`ControllerBaseProofs`:

* `TypeCorrect`: `Spec => []TypeOK`.
* `LocksAreGranted`: `Spec => []NoWaitCycle`.  `NoWaitCycle` alone is not
  inductive: it says nothing of what an owner does next.  `LockInv` adds that
  between steps `state_mutex_` is owned only inside the sanity check, the clipping
  or the emergency routine, that `cmd_mutex_` is owned only inside the emergency
  routine, and that this routine stays on the path of a zero gain.
* `CommandsAreSafe`: `OnlyLoopSends /\ Spec => SafeCommand`, and
* `ReadingsAreChecked`: `OnlyLoopSends /\ Spec => []SanitizedSend`.  The
  assumption `OnlyLoopSends` says that no client uses `recv_once` or
  `send_recv_once`, as in the cartesian controller; run `one_sender` shows why it is
  needed.  The invariant `SendInv` says that only the background thread is ever on
  the bus (`Roles`), what the output command is at each stage of its update, the
  previous one, within the limits, or safe (`Stages`), and which check has
  vouched for the reading at each stage (`Checked`).  The arithmetic is in two
  lemmas, `ClampInLimits` and `LimitedIsSafe`.
* `EndsDamped`: `Spec => []DampedAtExit`, for any number of clients;
  `FixesDamped`: `OneClient /\ Spec => []DampedBeforeFix`; and
  `RampsToTarget`: `OneClient /\ DefaultKp # 0 /\ Spec => []RampReachesTarget`.
  They rest on `MethodInv`, which follows a method from its first step to the one
  its property is about: where a client in each method is (`At`); that the gain is
  zero once `set_gain` has returned, that after the first pass counted in the sleep
  the loop is either on the way to a command with that gain or has sent it, and
  after the second has sent it (`Damps`); that the gain is the one of the ramp's step before,
  and the loop runs (`Ramps`); that only the destructor ends the loop, and no other
  client moves beside it (`Ending`); that the loop is in its own labels
  or stuck in the emergency routine (`LoopAt`, `HoldsCmd`).  With two clients the
  last two properties are false: one may set the gain while the other sleeps
  or ramps.  `DefaultKp # 0` is what every configuration has.
* `StiffensWhenNear`: `OneClient /\ OnlyLoopSends /\ Spec => StiffensNearby`.  Between
  the two reads of `set_gain` and its store both the command and the joint may change.
  `CompareInv` says what the client still knows at each of these steps: the joint
  may have moved by `MotionStep` since, but not while the loop is about to send the
  command and read the joint again (`Drift`); and a loop at zero gain makes the command the position it read.
* `LoopIsOneSender`: `OnlyLoopSends /\ Spec => []OneSender`, for any number of clients:
  the violation of `one_sender` needs `send_recv_once`.
* `EmergencyIsSilent`: once the loop is in the emergency routine it stays there, and no
  command is sent any more (`OnlyLoopSends` again).  The run `emergency` shows
  one such behaviour; this says that there is no other.

`TrajectoryLemmas` and `JointStateInterpolatorProofs`:

* `interpolate` searches the waypoints, `calc_joint_vel` and the methods that
  build a trajectory step through them.  `SmallestIn` (a set of naturals that is not empty has a least
  member) stands in for induction: the first index at which something fails gives a
  contradiction.  `Interpolates` says that `interpolate` fails for no trajectory but an
  empty one and no time but zero; `InterpolateType` that it returns a position of
  the range; `Passed` that it returns
  a waypoint's own position at its time when all others are on the right side of it;
  `KeptType` that `set_joint_traj` keeps of its waypoints only those to come;
  `WindowsOrdered` that each averaging window of `calc_joint_vel` ends
  after it begins, for timestamps that ascend.
* `TypeCorrect`: `Spec => []TypeOK`; `LoopSurvives`: `Spec => []LoopNeverThrows`;
  `Reached`: `Spec => []WaypointsReached`; `WindowsNeverEmpty`:
  `Spec => []VelWindowsOrdered`.  `InterpolatorInv` has, besides the types, `Mutex` (only the owner of
  `cmd_mutex_` fills the trajectory, and between two fillings it has a waypoint,
  which is why the loop finds one), `Methods` (what a client is going
  to store has the length its step needs, the past it has read is at the times it
  asked for, and its new trajectory ascends, even when it was read
  while another client replaced the old one), `GoalsKept` (the waypoints to come
  are in the trajectory, or in the one it is being filled with, with the others on
  the right side of them) and `LoopRuns` (the loop's timestamp is not the zero
  that `interpolate` refuses).

`SharedMemoryQueueProofs`:

* `TypeCorrect`: `Spec => []TypeOK`, and `Disjoint`: `Spec => []WritesAvoidReads`.
  `IInv` says that the counters are at most a buffer apart (`Counted`), that the
  items between them are whole in their slots (`Held`), and what each side may
  conclude from counters that the other has moved on since: the producer that the
  read counter it loaded is a lower bound, hence that its list still fits, and how
  much of it is written (`PutInv`); the consumer that the write counter it loaded is
  a lower bound, hence that its items are still there, and that what it has copied
  is the oldest of them (`GetInv`).
* `Implements`: `Spec => ImplementsFifo`, the refinement of `BoundedFifo` for every
  size, number of keys and length of list.  `ContentsExact` derives from `IInv` what the
  refinement mapping yields, the numbers from the read counter up to the write
  counter; then `PutAdd`, `GetAdd` and the end of a view append or cut (`ItemsJoin`,
  `ItemsCut`), and every other step leaves the contents alone.

`SharedMemoryRingBufferProofs`:

* `TypeCorrect`: `Spec => []TypeOK`; `Sustained`: `Spec => []PaceIsSustained`;
  `ReadsIntact`: `Spec => []PacedReadsIntact`; `SlotsRested`:
  `Spec => []NextSlotsRested`.  They are about time, so `RingInv` is: timestamps of later items are
  younger (`Ordered`), those of a paced producer are as many periods apart as it
  has slept in between (`Spaced`), a read has lasted at least as long as the items
  put since it began took (`ReadTimed`), and what `put` has checked of a slot stays
  true while it writes (`Rested`).  With `Stored` (which item each slot holds)
  and `Copied` (what a read within the budget has), an overwritten slot needs more
  puts than the budget allows: the size of the buffer gives `SpareSlots` slots beyond
  the items a reader may ask for, and so many periods outlast the budget (`SpareOutlast`), also where two puts follow each other
  without a pause, the first and the second (`Gap`).
* `FewIntact`: `Spec => []FewItemsIntact`, without a pace.  What holds the producer back
  then is the read itself: items put during it have timestamps no older than the read
  is long (`Younger`), so `put` finds the slot it checks too young until the budget is
  over, and until then it begins to write at most `SpareSlots + 2` items
  beyond the count that the read has loaded (`Behind`).  The two are the item that had its
  timestamp before the count was loaded and the one whose slot `put` checks one
  too late; both bounds are tight, TLC finds torn reads with `k + 1 <= GetMaxK` and with
  `elapsed <= TimeBudget`.

`SlotArithmetic` has the facts on `%` both need: two different numbers less than a
buffer apart are in different slots.

`TeleopProofs`:

* `TypeCorrect`: `Spec => []TypeOK`, for windows of every length, and `NeverReadEmpty`: `Spec => []ReadsFindItem`.  `Started` is what
  makes the second inductive: the ready event is set only after the first put, and
  the program reads only after the event.  `Filled`: the filter has a reading when the program
  moves.
* `DriftIsBounded`: `Spec => []DriftAfterReset`, for windows of every length and steps of
  every size.  That the window empties is an induction over passes, and `DriftInv`
  makes it one over steps: of the readings in the window only the `m` oldest can be
  other than zero (`Rested`), the next passes will move the target by at most
  `Owed(m)`, the sum of what they leave, and what it has moved plus what it is owed
  never exceeds what the window held at the reset (`Stale`).  In the middle of a pass
  the reading has left and the target has yet to move; the two halves of `Stale` keep
  account of that.  `Unready` keeps a process that has not put its first item apart.

`ZmqServerProofs`:

* `TypeCorrect`: `Spec => []TypeOK`, which includes that a handler always has a
  request and a controller.
* `PoseAfterHome`: `Spec => HomedBeforePose` and `FirstPose`:
  `Spec => FirstPoseNearHome`.  Both rest on `Memory`: `last_eef_cmd` is set only
  while the controller it was read from is there and homed, a constructor runs
  only with no controller, and `is_reset_to_home` is set as long as nothing followed
  `reset_to_home` (the timeout's own `reset_to_home` does not set the flag, but the
  controller is gone before a request sees it).
* `RepliesMatch`: `Spec => []ReplyMatches`.  The invariant `InFlight` says that no
  packet is from a socket still to be opened, that a packet of a client's present
  socket is about what the client asks unless the client gave up, and that there is
  one such packet at most among the requests, the request being handled and the
  replies.  The last part is what makes it inductive: were there two, the second
  would outlive the question.
* `PoseNearLast`: `Spec => NearInStep`.  The invariant `Reference` says that `last_eef_cmd`,
  when set, is what the controller was last commanded as long as it is not `astray`,
  through timeouts, failed constructions and interrupts.

Only model-checked:

* liveness (`MethodsReturn`, `OverCurrentIsCaught`, `Answered`, `Settles`,
  `HeldResets`, `InterruptEnds`), which is out of the prover's reach.

Every other property of a passing run is stated by a theorem.  Of those that a run finds
violated, `OneSender` has `LoopIsOneSender` for the condition under which it holds, `NoTornRead` has
`FewIntact`, `NearLastCommand` has `PoseNearLast`, and `EmergencyDamps` has
`EmergencyIsSilent`.  `NoJump` has none: it takes small gains to break it, or a gain stored
in the middle of an update, the ramp of `reset_to_home` passes through small gains every
time, and how far the joint moves in the passes of a ramp is a matter of dynamics that
`MotionStep`, a bound for one pass, does not settle.

## What the properties leave open

Some properties except a case because the code does not exclude it and no document
promises that it does.  These cases are in the models, and no property speaks for them:

* `SanitizedSend` is about the loop alone: a reading that another thread takes
  (`recv_once`, `send_recv_once`) between a check and the command is used unchecked.
* `StiffensNearby` excepts the steps in which the loop has computed a command and not yet
  limited it (the second way of `small_kp`).
* `MethodsReturn` excepts the emergency routine, in which the destructor waits for ever.
* A past that mixes two trajectories (`ReadPast`) has ascending timestamps and positions
  in range, but the velocities computed from it mean nothing.
* `Answered` excepts a server that is `Wedged`; `InterruptEnds` a program that a signal
  reached alone inside `__enter__` (`LeftBehind`).

## Not modelled, and why

* `init_robot_`, the two calibration routines and the solver's search for a start
  (`multi_trial_ik`): they run before the object is shared or in one thread, and
  consist of motor I/O and geometry.  Their results are `Init`, any reading, any
  position, and their failures are (`Wedged` in `ZmqServer`).
* The gripper, the torque clipping and the gravity compensation in
  `update_output_cmd_`: further coordinates of the command, which nothing else in a
  pass depends on.
* `append_waypoint`, `append_traj`, the cubic interpolation, `MovingAverageXd`,
  `clear` of the ring buffer, the keystroke counter, the queue with two producers or
  two consumers: nothing in the repository uses them.
* What a client's methods return, with the fallback of `get_state` to
  `latest_state`, and the conversions between end effector and tool poses: one
  thread, no state that others see.
* `ZmqServer` composed with `ControllerBase`.  The server runs one method at a time,
  so it is one of the clients that `ControllerBase` has; its own memory depends
  on what the methods do and on whether they raise, and that is in `ZmqServer`.  What a
  composition would add is that a refused `SET_GAIN` stops the loop while poses
  are still answered with `OK`; no document promises otherwise, and it stands among the
  hazards.
* In `Teleop` the gripper target, the pacing of the loop and exceptions other than the
  interrupt.
* The other examples, the bindings, the configuration tables (whose values are
  `CONSTANTS`), packaging and robot descriptions: no state of their own.  The CAN driver
  and the solver are shipped as binaries.

## Running the checks

    tlc -workers 2 -config ControllerMain.cfg MCControllerBase
    tlapm ControllerBaseProofs.tla

The other runs are listed, with their module and configuration, in `PROJECT.json`.
`main`, `live`, `teleop` and `interpolator` take about two minutes each, the others
less than one; each module of proofs takes about a minute.
