-------------------------------- MODULE Teleop --------------------------------
(***************************************************************************)
(* The two teleoperation programs, keyboard_teleop.py and                  *)
(* spacemouse_teleop.py: a loop that reads the device, filters its motion  *)
(* over a window and commands the arm a target, until Ctrl-C.  The keys    *)
(* are read from a dictionary that a listener thread writes; the space     *)
(* mouse from a ring buffer that a process of its own fills, which the     *)
(* program starts and stops.                                               *)
(*                                                                         *)
(* One axis stands for the six, at rest (0) or displaced (1).  A read of   *)
(* the ring buffer returns the item put last (SharedMemoryRingBuffer), a   *)
(* method of the controller returns (ControllerBase).                      *)
(***************************************************************************)
EXTENDS Integers, Sequences, FiniteSets

CONSTANTS
  Window,     \* window_size of the filter
  Scale,      \* the step of a pass at full displacement, in units of the model
  MaxTarget,  \* bound of the model: targets beyond it are not told apart
  MaxEvents   \* bound of the model: device events not yet polled

\* The mean of up to Window readings is a whole number of units.
ASSUME TeleopAssumption ==
  /\ Window \in Nat \ {0} /\ MaxTarget \in Nat /\ MaxEvents \in Nat \ {0}
  /\ Scale \in Nat /\ \A n \in 1 .. Window : Scale % n = 0

VARIABLES
  kind,         \* which of the two programs
  dev,          \* the device: its axis and the buttons or the space bar held down
  events,       \* its events that spnav_poll_event has still to return
  child,        \* where the Spacemouse process is
  mouse,        \* motion_event and button_state of that process
  ring,         \* the item last put into the ring buffer
  ready, stop,  \* ready_event, stop_event
  pc,           \* where the program is
  window,       \* keyboard_queue or spacemouse_queue: the last readings
  toRead,       \* the button it reads next
  held,         \* the buttons it has read as pressed
  target,       \* how far target_pose_6d is from the home pose
  arm,          \* what it has last called the controller for
  interrupted,  \* Ctrl-C has been pressed
  signal,       \* the child has still to take the interrupt
  quiet         \* no displacement has been readable since the last reset

device == <<dev, events>>
process == <<child, mouse, ring, ready>>
loop == <<window, toRead, held, target>>
vars == <<kind, device, process, stop, pc, loop, arm, interrupted, signal, quiet>>

\* In the order in which they are read; all of them together ask for a reset.
Buttons == IF kind = "keyboard" THEN <<"space">> ELSE <<"left", "right">>

AllButtons == {Buttons[i] : i \in DOMAIN Buttons}

AtRest == [axis |-> 0, pressed |-> {}]

NoItem == [axis |-> 0, pressed |-> {"none"}]

\* What the program reads: the keys themselves, or the item put last.
Readable == IF kind = "keyboard" THEN dev ELSE ring

Init ==
  /\ kind \in {"keyboard", "spacemouse"}
  /\ dev = AtRest /\ events = <<>>
  /\ child = "none" /\ mouse = AtRest /\ ring = NoItem /\ ready = FALSE /\ stop = FALSE
  /\ pc = "home" /\ window = <<>> /\ toRead = 1 /\ held = {} /\ target = 0
  /\ arm = "none" /\ interrupted = FALSE /\ signal = FALSE /\ quiet = FALSE

-----------------------------------------------------------------------------
(* The program starts: the arm goes home, then the listener or the process is  *)
(* started.                                                                    *)

GoHome ==
  /\ pc = "home"
  /\ arm' = "home"
  /\ pc' = IF kind = "keyboard" THEN "read_state" ELSE "start"
  /\ UNCHANGED <<kind, device, process, stop, loop, interrupted, signal, quiet>>

Start ==
  /\ pc = "start"
  /\ child' = "open" /\ pc' = "wait_ready"
  /\ UNCHANGED <<kind, device, mouse, ring, ready, stop, loop, arm, interrupted, signal, quiet>>

\* Mutated form: start(wait=False).
NoWait ==
  /\ pc = "wait_ready"
  /\ pc' = "wait_buttons"
  /\ UNCHANGED <<kind, device, process, stop, loop, arm, interrupted, signal, quiet>>

WaitReady ==
  /\ pc = "wait_ready" /\ ready
  /\ pc' = "wait_buttons"
  /\ UNCHANGED <<kind, device, process, stop, loop, arm, interrupted, signal, quiet>>

-----------------------------------------------------------------------------
(* The loop.  Every read of the space mouse is a ring_buffer.get of its own.    *)

\* Mutated form: the readings pile up.
FilteredAll(reading) == Append(window, reading)

\* The oldest reading leaves a full queue, the new one enters.
Filtered(reading) == Append(IF Len(window) = Window THEN Tail(window) ELSE window, reading)

Mean(w) == (Scale * Cardinality({i \in DOMAIN w : w[i] = 1})) \div Len(w)

\* Mutated form: the last button read counts.
ReadLast(button) == {button} \cap Readable.pressed

Read(button) == held \cup ({button} \cap Readable.pressed)

ReadButton ==
  /\ pc \in {"wait_buttons", "read_buttons"}
  /\ held' = Read(Buttons[toRead])
  /\ IF toRead < Len(Buttons)
     THEN toRead' = toRead + 1 /\ UNCHANGED pc
     ELSE toRead' = 1 /\ pc' = IF pc = "wait_buttons" THEN "wait_state" ELSE "decide"
  /\ UNCHANGED <<kind, device, process, stop, window, target, arm, interrupted, signal, quiet>>

\* Tracking begins when the space mouse is touched; what the wait has read stays in
\* the window.
WaitState ==
  /\ pc = "wait_state"
  /\ window' = Filtered(Readable.axis)
  /\ pc' = IF Mean(window') # 0 \/ held # {} THEN "read_state" ELSE "wait_buttons"
  /\ held' = {}
  /\ UNCHANGED <<kind, device, process, stop, toRead, target, arm, interrupted, signal, quiet>>

ReadState ==
  /\ pc = "read_state"
  /\ window' = Filtered(Readable.axis)
  /\ pc' = "read_buttons"
  /\ UNCHANGED <<kind, device, process, stop, toRead, held, target, arm, interrupted, signal, quiet>>

\* Mutated form: the target stays where it was.
ResetArmOnly ==
  /\ pc = "decide" /\ held = AllButtons
  /\ arm' = "home" /\ quiet' = (Readable.axis = 0)
  /\ pc' = "read_state" /\ held' = {}
  /\ UNCHANGED <<kind, device, process, stop, window, toRead, target, interrupted, signal>>

\* Both buttons, or the space bar: reset_to_home and the target is the home pose
\* again; the window keeps its readings.
Reset ==
  /\ pc = "decide" /\ held = AllButtons
  /\ arm' = "home" /\ target' = 0 /\ quiet' = (Readable.axis = 0)
  /\ pc' = "read_state" /\ held' = {}
  /\ UNCHANGED <<kind, device, process, stop, window, toRead, interrupted, signal>>

Move ==
  /\ pc = "decide" /\ held # AllButtons
  /\ target' = IF target + Mean(window) < MaxTarget THEN target + Mean(window) ELSE MaxTarget
  /\ pc' = "send" /\ held' = {}
  /\ UNCHANGED <<kind, device, process, stop, window, toRead, arm, interrupted, signal, quiet>>

\* Once the period is over: set_eef_cmd or set_eef_traj.
Send ==
  /\ pc = "send"
  /\ arm' = "tracking" /\ pc' = "read_state"
  /\ UNCHANGED <<kind, device, process, stop, loop, interrupted, signal, quiet>>

-----------------------------------------------------------------------------
(* Ctrl-C, once, from within the `try`.                                       *)

InLoop == {"wait_buttons", "wait_state", "read_state", "read_buttons", "decide", "send"}

Running == {"open", "first", "ready", "poll", "put"}

\* The terminal interrupts the child too, a signal sent to the program alone does not.
\* An exception in __enter__ does not run __exit__; the locals of the loop are gone.
Interrupt ==
  /\ ~interrupted /\ pc \in InLoop \cup {"start", "wait_ready"}
  /\ interrupted' = TRUE
  /\ signal' \in {FALSE, (child \in Running)}
  /\ pc' = IF kind = "spacemouse" /\ pc \in InLoop THEN "stop" ELSE "home_again"
  /\ window' = <<>> /\ toRead' = 1 /\ held' = {} /\ target' = 0 /\ quiet' = FALSE
  /\ UNCHANGED <<kind, device, process, stop, arm>>

\* Mutated form: the child is joined but not told to stop.
JoinOnly ==
  /\ pc = "stop"
  /\ pc' = "join"
  /\ UNCHANGED <<kind, device, process, stop, loop, arm, interrupted, signal, quiet>>

\* __exit__
Stop ==
  /\ pc = "stop"
  /\ stop' = TRUE /\ pc' = "join"
  /\ UNCHANGED <<kind, device, process, loop, arm, interrupted, signal, quiet>>

Join ==
  /\ pc = "join" /\ child = "done"
  /\ pc' = "home_again"
  /\ UNCHANGED <<kind, device, process, stop, loop, arm, interrupted, signal, quiet>>

GoHomeAgain ==
  /\ pc = "home_again"
  /\ arm' = "home" /\ pc' = "damp"
  /\ UNCHANGED <<kind, device, process, stop, loop, interrupted, signal, quiet>>

Damp ==
  /\ pc = "damp"
  /\ arm' = "damped" /\ pc' = "exit"
  /\ UNCHANGED <<kind, device, process, stop, loop, interrupted, signal, quiet>>

\* The interpreter joins a child that is still there.
Exit ==
  /\ pc = "exit" /\ child \in {"none", "done"}
  /\ pc' = "ended"
  /\ UNCHANGED <<kind, device, process, stop, loop, arm, interrupted, signal, quiet>>

-----------------------------------------------------------------------------
(* The Spacemouse process: run.                                                *)

Open ==
  /\ child = "open"
  /\ child' = "first"
  /\ UNCHANGED <<kind, device, mouse, ring, ready, stop, pc, loop, arm, interrupted, signal, quiet>>

\* spnav_open raises outside the `try`: ready_event is never set.
OpenFails ==
  /\ child = "open"
  /\ child' = "done"
  /\ UNCHANGED <<kind, device, mouse, ring, ready, stop, pc, loop, arm, interrupted, signal, quiet>>

PutFirst ==
  /\ child = "first"
  /\ ring' = mouse /\ child' = "ready"
  /\ UNCHANGED <<kind, device, mouse, ready, stop, pc, loop, arm, interrupted, signal, quiet>>

SetReady ==
  /\ child = "ready"
  /\ ready' = TRUE /\ child' = "poll"
  /\ UNCHANGED <<kind, device, mouse, ring, stop, pc, loop, arm, interrupted, signal, quiet>>

\* Mutated form: the test of a motion event takes one that reports rest for none.
IntegratedIfMoved(event) ==
  CASE event.type = "motion" -> [mouse EXCEPT !.axis = IF event.axis # 0 THEN event.axis ELSE @]
    [] event.type = "press"   -> [mouse EXCEPT !.pressed = @ \cup {event.button}]
    [] event.type = "release" -> [mouse EXCEPT !.pressed = @ \ {event.button}]

Integrated(event) ==
  CASE event.type = "motion"  -> [mouse EXCEPT !.axis = event.axis]
    [] event.type = "press"   -> [mouse EXCEPT !.pressed = @ \cup {event.button}]
    [] event.type = "release" -> [mouse EXCEPT !.pressed = @ \ {event.button}]

Poll ==
  /\ child = "poll" /\ ~stop /\ events # <<>>
  /\ mouse' = Integrated(Head(events)) /\ events' = Tail(events)
  /\ UNCHANGED <<kind, dev, child, ring, ready, stop, pc, loop, arm, interrupted, signal, quiet>>

\* No event is left: this round is put.
PollNothing ==
  /\ child = "poll" /\ ~stop /\ events = <<>>
  /\ child' = "put"
  /\ UNCHANGED <<kind, device, mouse, ring, ready, stop, pc, loop, arm, interrupted, signal, quiet>>

Put ==
  /\ child = "put"
  /\ ring' = mouse /\ child' = "poll"
  /\ quiet' = (quiet /\ mouse.axis = 0)
  /\ UNCHANGED <<kind, device, mouse, ready, stop, pc, loop, arm, interrupted, signal>>

Stopped ==
  /\ child = "poll" /\ stop
  /\ child' = "close"
  /\ UNCHANGED <<kind, device, mouse, ring, ready, stop, pc, loop, arm, interrupted, signal, quiet>>

\* `finally` is reached from inside the `try` only.
ChildInterrupted ==
  /\ signal /\ child \in Running
  /\ signal' = FALSE
  /\ child' = IF child = "open" THEN "done" ELSE "close"
  /\ UNCHANGED <<kind, device, mouse, ring, ready, stop, pc, loop, arm, interrupted, quiet>>

Close ==
  /\ child = "close"
  /\ child' = "done"
  /\ UNCHANGED <<kind, device, mouse, ring, ready, stop, pc, loop, arm, interrupted, signal, quiet>>

-----------------------------------------------------------------------------
(* The user, through on_press and on_release, or through spnav.  The space mouse *)
(* is at rest until the process has opened it; earlier events would be lost.     *)

Toggled(set, x) == IF x \in set THEN set \ {x} ELSE set \cup {x}

Listening == IF kind = "keyboard" THEN pc # "home"
             ELSE child \in Running \ {"open"} /\ Len(events) < MaxEvents

Displace ==
  /\ Listening /\ ~interrupted
  /\ dev' = [dev EXCEPT !.axis = 1 - @]
  /\ IF kind = "keyboard"
     THEN quiet' = (quiet /\ dev'.axis = 0) /\ UNCHANGED events
     ELSE events' = Append(events, [type |-> "motion", axis |-> dev'.axis]) /\ UNCHANGED quiet
  /\ UNCHANGED <<kind, process, stop, pc, loop, arm, interrupted, signal>>

Press ==
  /\ Listening /\ ~interrupted
  /\ \E b \in AllButtons :
       /\ dev' = [dev EXCEPT !.pressed = Toggled(@, b)]
       /\ events' = IF kind = "keyboard" THEN events
                    ELSE Append(events, [type |-> IF b \in dev.pressed THEN "release" ELSE "press",
                                         button |-> b])
  /\ UNCHANGED <<kind, process, stop, pc, loop, arm, interrupted, signal, quiet>>

-----------------------------------------------------------------------------

Program ==
  \/ GoHome \/ Start \/ WaitReady
  \/ ReadButton \/ WaitState \/ ReadState \/ Reset \/ Move \/ Send
  \/ Stop \/ Join \/ GoHomeAgain \/ Damp \/ Exit

Process ==
  \/ Open \/ OpenFails \/ PutFirst \/ SetReady
  \/ Poll \/ PollNothing \/ Put \/ Stopped \/ Close

User == Displace \/ Press \/ Interrupt

Next == Program \/ Process \/ ChildInterrupted \/ User

Spec == Init /\ [][Next]_vars

\* The operating system runs both processes and delivers the signal.  The user need
\* never do anything.
Fairness == WF_vars(Program) /\ WF_vars(Process) /\ WF_vars(ChildInterrupted)

FairSpec == Spec /\ Fairness

-----------------------------------------------------------------------------
(* Properties *)

States == [axis : {0, 1}, pressed : SUBSET {"left", "right", "space"}]

Events == [type : {"motion"}, axis : {0, 1}]
          \cup [type : {"press", "release"}, button : {"left", "right"}]

\* The type of every variable: the queue of the filter has no more than window_size
\* readings.
TypeOK ==
  /\ kind \in {"keyboard", "spacemouse"}
  /\ dev \in States /\ events \in Seq(Events) /\ Len(events) <= MaxEvents
  /\ child \in Running \cup {"none", "close", "done"}
  /\ mouse \in States /\ ring \in States \cup {NoItem}
  /\ ready \in BOOLEAN /\ stop \in BOOLEAN
  /\ pc \in InLoop \cup {"home", "start", "wait_ready", "stop", "join", "home_again", "damp",
                         "exit", "ended"}
  /\ window \in Seq({0, 1}) /\ Len(window) <= Window
  /\ toRead \in DOMAIN Buttons /\ held \subseteq AllButtons
  /\ target \in 0 .. MaxTarget
  /\ arm \in {"none", "home", "tracking", "damped"}
  /\ interrupted \in BOOLEAN /\ signal \in BOOLEAN /\ quiet \in BOOLEAN

\* The ring buffer is never read empty: the process sets ready_event after its first
\* put and the program waits for it before its first read ("send one message
\* immediately so client can start reading").
ReadsFindItem == kind = "spacemouse" /\ pc \in InLoop => ring # NoItem

\* What the filter still holds when the arm is reset moves the target away from home
\* again, although the device is at rest; never by more than these readings amount to.
DriftAfterReset == quiet => target <= (Scale * (Window - 1)) \div 2

\* The loop is over, or could not begin: the process has failed to open the device.
Over == interrupted \/ (pc = "wait_ready" /\ child = "done")

\* When the device comes to rest and stays so, the target stops moving: the last event
\* gets through the process, the ring buffer and the filter, unless the loop is over.
Settles ==
  <>[](dev.axis = 0) /\ <>[][FALSE]_dev
    => <>[](window = <<>> \/ Mean(window) = 0) \/ <>Over

\* Buttons that are held for a reset are noticed, and while they stay held the arm is
\* at home, unless the loop is over.
HeldResets == <>[](dev.pressed = AllButtons) /\ <>[][FALSE]_dev => <>[](arm = "home") \/ <>Over

\* A signal to the program alone, inside __enter__: nothing tells the child to stop.
LeftBehind == pc = "exit" /\ child \in {"poll", "put"} /\ ~stop /\ ~signal

\* After Ctrl-C the arm is damped and the program ends without a child, wherever the
\* two processes were; only in LeftBehind does it wait for a child that runs on.
InterruptEnds ==
  interrupted ~> /\ arm = "damped"
                 /\ (pc = "ended" /\ child \in {"none", "done"}) \/ LeftBehind
=============================================================================
