----------------------------- MODULE TeleopProofs -----------------------------
(***************************************************************************)
(* The types of Teleop, that its program never reads an empty ring buffer, *)
(* and how far the target drifts from home after a reset, for every        *)
(* window, scale and bound.                                                *)
(***************************************************************************)
EXTENDS Teleop, SlotArithmetic, FiniteSetTheorems, SequenceTheorems, TLAPS

\* The process has something to read when it says so, and the program has waited for
\* it.
Started ==
  /\ child \in {"ready", "poll", "put"} \/ ready => ring # NoItem
  /\ kind = "spacemouse" /\ pc \in InLoop => ready

\* The filter has a reading when the program moves.
Filled == pc \in {"read_buttons", "decide"} => window # <<>>

TeleopInv == TypeOK /\ Started /\ Filled

-----------------------------------------------------------------------------
(* The filter, the buttons and the events. *)

\* The queue of the filter has a reading and no more than its window.
LEMMA FilteredType ==
  ASSUME TypeOK, NEW reading \in {0, 1}
  PROVE  /\ Filtered(reading) \in Seq({0, 1}) /\ Len(Filtered(reading)) <= Window
         /\ Filtered(reading) # <<>>
  <1> DEFINE w == IF Len(window) = Window THEN Tail(window) ELSE window
  <1>1. window \in Seq({0, 1}) /\ Len(window) <= Window /\ Window \in Nat \ {0}
    BY TeleopAssumption DEF TypeOK
  <1>2. w \in Seq({0, 1}) /\ Len(w) < Window
    <2>1. CASE Len(window) = Window
      <3>1. window # <<>>
        BY <1>1, <2>1
      <3>2. Tail(window) \in Seq({0, 1}) /\ Len(Tail(window)) = Len(window) - 1
        BY <1>1, <3>1, HeadTailProperties
      <3>3. QED
        BY <1>1, <2>1, <3>2
    <2>2. CASE Len(window) # Window
      BY <1>1, <2>2
    <2>3. QED
      BY <2>1, <2>2
  <1> HIDE DEF w
  <1>3. Append(w, reading) \in Seq({0, 1}) /\ Len(Append(w, reading)) = Len(w) + 1
    BY <1>2, AppendProperties
  <1>4. Append(w, reading) # <<>>
    BY <1>2, AppendProperties
  <1>5. QED
    BY <1>1, <1>2, <1>3, <1>4 DEF Filtered, w

\* A mean of readings is a natural number.
LEMMA MeanType ==
  ASSUME NEW w \in Seq({0, 1}), w # <<>>
  PROVE  Mean(w) \in Nat
  <1> DEFINE s == {i \in DOMAIN w : w[i] = 1}
             n == Len(w)
             a == Scale * Cardinality(s)
  <1>1. n \in Nat \ {0} /\ DOMAIN w = 1 .. n
    BY EmptySeq
  <1>2. IsFiniteSet(s)
    <2>1. IsFiniteSet(1 .. n)
      BY <1>1, FS_Interval
    <2>2. QED
      BY <1>1, <2>1, FS_Subset
  <1>3. a \in Nat
    <2>1. Cardinality(s) \in Nat
      BY <1>2, FS_CardinalityType
    <2> HIDE DEF s
    <2>2. QED
      BY <2>1, TeleopAssumption
  <1> HIDE DEF a, n
  <1>4. a \div n \in Nat
    BY ONLY <1>1, <1>3, DivMod
  <1>5. QED
    BY <1>4 DEF Mean, a, n, s

\* What the buttons of the two programs are.
LEMMA ButtonFacts ==
  /\ Buttons = IF kind = "keyboard" THEN <<"space">> ELSE <<"left", "right">>
  /\ Len(Buttons) = IF kind = "keyboard" THEN 1 ELSE 2
  /\ DOMAIN Buttons = 1 .. Len(Buttons)
  /\ AllButtons = IF kind = "keyboard" THEN {"space"} ELSE {"left", "right"}
  /\ \A i \in DOMAIN Buttons : Buttons[i] \in AllButtons
  <1>1. CASE kind = "keyboard"
    BY <1>1 DEF Buttons, AllButtons
  <1>2. CASE kind # "keyboard"
    BY <1>2 DEF Buttons, AllButtons
  <1>3. QED
    BY <1>1, <1>2

\* What the readings are.
LEMMA StateFacts ==
  /\ AtRest \in States /\ NoItem \notin States
  /\ \A s \in States : s.axis \in {0, 1} /\ s.pressed \subseteq {"left", "right", "space"}
  /\ NoItem.axis = 0
  BY DEF States, AtRest, NoItem

\* The invariant holds at the start.
LEMMA InitTeleop == Init => TeleopInv
  <1> SUFFICES ASSUME Init PROVE TeleopInv
    OBVIOUS
  <1>1. TypeOK
    <2>1. /\ dev \in States /\ mouse \in States /\ ring \in States \cup {NoItem}
          /\ events \in Seq(Events) /\ Len(events) <= MaxEvents
          /\ window \in Seq({0, 1}) /\ Len(window) <= Window /\ target \in 0 .. MaxTarget
      BY StateFacts, TeleopAssumption DEF Init
    <2>2. toRead \in DOMAIN Buttons /\ held \subseteq AllButtons
      BY ButtonFacts DEF Init
    <2>3. QED
      BY <2>1, <2>2 DEF Init, TypeOK
  <1>2. Started /\ Filled
    BY DEF Init, Started, Filled, InLoop
  <1>3. QED
    BY <1>1, <1>2 DEF TeleopInv
-----------------------------------------------------------------------------
(* The steps. *)

\* It is kept by the program outside its loop,
LEMMA ProgramTyped ==
  ASSUME TeleopInv,
         \/ GoHome \/ Start \/ WaitReady \/ Send
         \/ Stop \/ Join \/ GoHomeAgain \/ Damp \/ Exit
  PROVE  TeleopInv'
  <1>1. /\ UNCHANGED <<kind, dev, events, mouse, ring, ready, window, toRead, held, target,
                      interrupted, signal, quiet>>
        /\ stop' \in BOOLEAN
        /\ (child' = child \/ (pc = "start" /\ child' = "open" /\ pc' = "wait_ready"))
        /\ arm' \in {"none", "home", "tracking", "damped"}
    BY DEF GoHome, Start, WaitReady, Send, Stop, Join, GoHomeAgain, Damp, Exit, device, process,
           loop, TeleopInv, TypeOK
  <1>2. /\ pc' \in InLoop \cup {"home", "start", "wait_ready", "stop", "join", "home_again", "damp",
                               "exit", "ended"}
        /\ (pc' \in InLoop => pc \in InLoop \/ ready \/ kind = "keyboard")
        /\ pc' \notin {"read_buttons", "decide"}
    BY DEF GoHome, Start, WaitReady, Send, Stop, Join, GoHomeAgain, Damp, Exit, InLoop
  <1>3. Buttons' = Buttons /\ AllButtons' = AllButtons
    BY <1>1 DEF Buttons, AllButtons
  <1>4. TypeOK'
    BY <1>1, <1>2, <1>3 DEF TeleopInv, TypeOK, Running
  <1>5. Started' /\ Filled'
    BY <1>1, <1>2 DEF TeleopInv, Started, Filled
  <1>6. QED
    BY <1>4, <1>5 DEF TeleopInv

\* in its loop,
LEMMA LoopTyped ==
  ASSUME TeleopInv, ReadButton \/ WaitState \/ ReadState \/ Reset \/ Move
  PROVE  TeleopInv'
  <1>1. /\ UNCHANGED <<kind, dev, events, child, mouse, ring, ready, stop, interrupted, signal>>
        /\ pc \in InLoop /\ pc' \in InLoop
    BY DEF ReadButton, WaitState, ReadState, Reset, Move, device, process, InLoop
  <1>2. Buttons' = Buttons /\ AllButtons' = AllButtons
    BY <1>1 DEF Buttons, AllButtons
  <1>3. TypeOK /\ Started /\ Filled
    BY DEF TeleopInv
  <1>4. Started'
    BY <1>1, <1>3 DEF Started
  <1>5. Readable.axis \in {0, 1}
    BY <1>3, StateFacts DEF TypeOK, Readable
  <1>6. /\ window' \in Seq({0, 1}) /\ Len(window') <= Window
        /\ (pc' \in {"read_buttons", "decide"} => window' # <<>>)
    <2>1. CASE WaitState \/ ReadState
      BY <2>1, <1>3, <1>5, FilteredType DEF WaitState, ReadState
    <2>2. CASE ReadButton \/ Reset \/ Move
      BY <2>2, <1>3 DEF ReadButton, Reset, Move, TypeOK, Filled
    <2>3. QED
      BY <2>1, <2>2
  <1>7. toRead' \in DOMAIN Buttons /\ held' \subseteq AllButtons
    <2>1. CASE ReadButton
      <3>1. toRead \in DOMAIN Buttons /\ held \subseteq AllButtons
        BY <1>3 DEF TypeOK
      <3>2. held' \subseteq AllButtons
        BY <2>1, <3>1, ButtonFacts DEF ReadButton, Read
      <3>3. toRead' \in DOMAIN Buttons
        BY <2>1, <3>1, ButtonFacts DEF ReadButton
      <3>4. QED
        BY <3>2, <3>3
    <2>2. CASE WaitState \/ ReadState \/ Reset \/ Move
      BY <2>2, <1>3 DEF WaitState, ReadState, Reset, Move, TypeOK
    <2>3. QED
      BY <2>1, <2>2
  <1>8. target' \in 0 .. MaxTarget
    <2>1. CASE Move
      <3>1. Mean(window) \in Nat
        BY <2>1, <1>3, MeanType DEF Move, Filled, TypeOK
      <3>2. target \in Nat /\ MaxTarget \in Nat
        BY <1>3, TeleopAssumption DEF TypeOK
      <3>3. QED
        BY <2>1, <3>1, <3>2 DEF Move
    <2>2. CASE ReadButton \/ WaitState \/ ReadState \/ Reset
      BY <2>2, <1>3, TeleopAssumption DEF ReadButton, WaitState, ReadState, Reset, TypeOK
    <2>3. QED
      BY <2>1, <2>2
  <1>9. arm' \in {"none", "home", "tracking", "damped"} /\ quiet' \in BOOLEAN
    BY <1>3 DEF ReadButton, WaitState, ReadState, Reset, Move, TypeOK
  <1>10. TypeOK'
    BY <1>1, <1>2, <1>3, <1>6, <1>7, <1>8, <1>9 DEF TypeOK
  <1>11. QED
    BY <1>4, <1>6, <1>10 DEF TeleopInv, Filled

\* by the space mouse process
LEMMA ProcessTyped ==
  ASSUME TeleopInv, Process \/ ChildInterrupted
  PROVE  TeleopInv'
  <1>1. /\ UNCHANGED <<kind, dev, stop, pc, window, toRead, held, target, arm, interrupted>>
        /\ signal' \in BOOLEAN
    BY DEF Process, ChildInterrupted, Open, OpenFails, PutFirst, SetReady, Poll, PollNothing, Put,
           Stopped, Close, device, process, loop, TeleopInv, TypeOK
  <1>2. Buttons' = Buttons /\ AllButtons' = AllButtons
    BY <1>1 DEF Buttons, AllButtons
  <1>3. TypeOK /\ Started /\ Filled
    BY DEF TeleopInv
  <1>4. CASE Poll
    <2>1. events \in Seq(Events) /\ events # <<>> /\ Len(events) <= MaxEvents /\ mouse \in States
      BY <1>3, <1>4 DEF Poll, TypeOK
    <2>2. /\ Head(events) \in Events /\ Tail(events) \in Seq(Events)
          /\ Len(Tail(events)) = Len(events) - 1 /\ Len(events) \in Nat
      BY <2>1, HeadTailProperties
    <2>3. ASSUME NEW e \in Events PROVE Integrated(e) \in States
      <3>1. CASE e \in [type : {"motion"}, axis : {0, 1}]
        BY <2>1, <3>1 DEF Integrated, States
      <3>2. CASE e \in [type : {"press", "release"}, button : {"left", "right"}]
        BY <2>1, <3>2 DEF Integrated, States
      <3>3. QED
        BY <3>1, <3>2 DEF Events
    <2>4. mouse' \in States /\ events' \in Seq(Events) /\ Len(events') <= MaxEvents
      BY <1>4, <2>1, <2>2, <2>3, TeleopAssumption DEF Poll
    <2>5. UNCHANGED <<child, ring, ready, quiet, signal>>
      BY <1>4 DEF Poll
    <2>6. TypeOK'
      BY <1>1, <1>2, <1>3, <2>4, <2>5 DEF TypeOK
    <2>7. QED
      BY <1>1, <1>3, <2>5, <2>6 DEF TeleopInv, Started, Filled
  <1>5. CASE Open \/ OpenFails \/ PutFirst \/ SetReady \/ PollNothing \/ Put \/ Stopped \/ Close
             \/ ChildInterrupted
    <2>1. /\ UNCHANGED <<events, mouse>> /\ child' \in Running \cup {"none", "close", "done"}
          /\ ring' \in {ring, mouse} /\ ready' \in BOOLEAN /\ quiet' \in BOOLEAN
      BY <1>3, <1>5 DEF Open, OpenFails, PutFirst, SetReady, PollNothing, Put, Stopped, Close,
           ChildInterrupted, device, process, TypeOK, Running
    <2>2. TypeOK'
      BY <1>1, <1>2, <1>3, <2>1 DEF TypeOK
    <2>3. mouse # NoItem
      BY <1>3, StateFacts DEF TypeOK
    <2>4. /\ child' \in {"ready", "poll", "put"} \/ ready' => ring' # NoItem
          /\ (ready => ready')
      BY <1>3, <1>5, <2>3 DEF Open, OpenFails, PutFirst, SetReady, PollNothing, Put, Stopped, Close,
           ChildInterrupted, Started
    <2>5. QED
      BY <1>1, <1>3, <2>2, <2>4 DEF TeleopInv, Started, Filled
  <1>6. QED
    BY <1>4, <1>5 DEF Process

\* and by the user.
LEMMA UserTyped ==
  ASSUME TeleopInv, User
  PROVE  TeleopInv'
  <1>1. TypeOK /\ Started /\ Filled
    BY DEF TeleopInv
  <1>2. UNCHANGED <<kind, child, mouse, ring, ready, stop, arm>>
    BY DEF User, Displace, Press, Interrupt, process, loop
  <1>3. Buttons' = Buttons /\ AllButtons' = AllButtons
    BY <1>2 DEF Buttons, AllButtons
  <1>4. CASE Interrupt
    <2>0. signal' \in BOOLEAN
      <3>1. signal' \in {FALSE, (child \in Running)}
        BY <1>4 DEF Interrupt
      <3>2. signal' = FALSE \/ signal' = (child \in Running)
        BY <3>1, Zenon
      <3>3. (child \in Running) \in BOOLEAN
        OBVIOUS
      <3>4. QED
        BY <3>2, <3>3
    <2>1. /\ UNCHANGED <<dev, events>> /\ interrupted' = TRUE /\ signal' \in BOOLEAN
          /\ pc' \in {"stop", "home_again"}
          /\ window' = <<>> /\ toRead' = 1 /\ held' = {} /\ target' = 0 /\ quiet' = FALSE
      BY <1>4, <2>0 DEF Interrupt, device
    <2>2. /\ window' \in Seq({0, 1}) /\ Len(window') <= Window /\ target' \in 0 .. MaxTarget
      BY <2>1, TeleopAssumption
    <2>3. toRead' \in DOMAIN Buttons /\ held' \subseteq AllButtons
      BY <2>1, ButtonFacts
    <2>4. TypeOK'
      BY <1>1, <1>2, <1>3, <2>1, <2>2, <2>3 DEF TypeOK
    <2>5. QED
      BY <1>1, <1>2, <2>1, <2>4 DEF TeleopInv, Started, Filled, InLoop
  <1>5. CASE Displace \/ Press
    <2>1. UNCHANGED <<pc, window, toRead, held, target, interrupted, signal>>
      BY <1>5 DEF Displace, Press, loop
    <2>0. dev' \in States
      <3>1. dev \in States /\ dev.axis \in {0, 1} /\ dev.pressed \subseteq {"left", "right", "space"}
        BY <1>1, StateFacts DEF TypeOK
      <3>2. CASE Displace
        BY <3>1, <3>2 DEF Displace, States
      <3>3. CASE Press
        <4>1. PICK b \in AllButtons : dev' = [dev EXCEPT !.pressed = Toggled(@, b)]
          BY <3>3 DEF Press
        <4>2. Toggled(dev.pressed, b) \subseteq {"left", "right", "space"}
          BY <3>1, ButtonFacts DEF Toggled
        <4>3. QED
          BY <3>1, <4>1, <4>2 DEF States
      <3>4. QED
        BY <1>5, <3>2, <3>3
    <2>2. dev' \in States /\ quiet' \in BOOLEAN
      <3>1. quiet \in BOOLEAN
        BY <1>1 DEF TypeOK
      <3>2. quiet' = (quiet /\ dev'.axis = 0) \/ quiet' = quiet
        BY <1>5 DEF Displace, Press
      <3>3. QED
        BY <2>0, <3>1, <3>2
    <2>3. events' \in Seq(Events) /\ Len(events') <= MaxEvents
      <3>1. events \in Seq(Events) /\ Len(events) <= MaxEvents /\ Len(events) \in Nat
        BY <1>1 DEF TypeOK
      <3>2. \/ events' = events
            \/ \E e \in Events : Len(events) < MaxEvents /\ events' = Append(events, e)
        <4>1. CASE kind = "keyboard"
          BY <1>5, <4>1 DEF Displace, Press
        <4>2. CASE kind = "spacemouse" /\ Displace
          <5>1. dev'.axis \in {0, 1}
            BY <2>2, StateFacts
          <5>2. [type |-> "motion", axis |-> dev'.axis] \in Events
            BY <5>1 DEF Events
          <5>3. QED
            BY <4>2, <5>2 DEF Displace, Listening
        <4>3. CASE kind = "spacemouse" /\ Press
          <5>1. PICK b \in AllButtons :
                  events' = Append(events, [type |-> IF b \in dev.pressed THEN "release" ELSE "press",
                                            button |-> b])
            BY <4>3 DEF Press
          <5>2. [type |-> IF b \in dev.pressed THEN "release" ELSE "press", button |-> b] \in Events
            BY <4>3, ButtonFacts DEF Events
          <5>3. QED
            BY <4>3, <5>1, <5>2 DEF Press, Listening
        <4>4. QED
          BY <1>1, <1>5, <4>1, <4>2, <4>3 DEF TypeOK
      <3>3. QED
        BY <3>1, <3>2, AppendProperties, TeleopAssumption
    <2>4. TypeOK'
      BY <1>1, <1>2, <1>3, <2>1, <2>2, <2>3 DEF TypeOK
    <2>5. QED
      BY <1>1, <1>2, <2>1, <2>4 DEF TeleopInv, Started, Filled
  <1>6. QED
    BY <1>4, <1>5 DEF User

\* So every step keeps it.
LEMMA TeleopStep == TeleopInv /\ [Next]_vars => TeleopInv'
  <1> SUFFICES ASSUME TeleopInv, [Next]_vars PROVE TeleopInv'
    OBVIOUS
  <1>1. CASE UNCHANGED vars
    BY <1>1 DEF vars, device, process, loop, TeleopInv, TypeOK, Started, Filled, Buttons, AllButtons
  <1>2. CASE Next
    BY <1>2, ProgramTyped, LoopTyped, ProcessTyped, UserTyped DEF Next, Program
  <1>3. QED
    BY <1>1, <1>2

\* In every reachable state the inductive invariant holds.
THEOREM Invariance == Spec => []TeleopInv
  BY InitTeleop, TeleopStep, PTL DEF Spec

-----------------------------------------------------------------------------
(* The theorems. *)

\* Every variable of the two programs keeps its type, and the filter never holds more
\* than window_size readings.
THEOREM TypeCorrect == Spec => []TypeOK
  <1>1. TeleopInv => TypeOK
    BY DEF TeleopInv
  <1>2. QED
    BY <1>1, Invariance, PTL

\* The program never reads a ring buffer nothing has been put into, wherever the start,
\* a failure or Ctrl-C finds the two processes.
THEOREM NeverReadEmpty == Spec => []ReadsFindItem
  <1>1. TeleopInv => ReadsFindItem
    BY DEF TeleopInv, Started, ReadsFindItem
  <1>2. QED
    BY <1>1, Invariance, PTL

-----------------------------------------------------------------------------
(* The drift after a reset.  Nothing new is readable, so every pass takes one   *)
(* stale reading out of the window and moves the target by what is left.        *)

\* What one reading of a full window moves the target by.
Unit == Scale \div Window

\* Twice what n stale readings still move it by, one leaving the window at every pass.
Owed(n) == Unit * (n * (n - 1))

\* No more than the m oldest readings of a full window are stale: the others, which w
\* has, are of the device at rest.
Rested(w, m) ==
  /\ m + Len(w) >= Window
  /\ \A i \in DOMAIN w : i + Window > Len(w) + m => w[i] = 0

\* One of them leaves with every reading, as long as there is one.
Left(m) == IF m = 0 THEN 0 ELSE m - 1

\* What the target has moved and has still to move is what the window held at the reset.
\* In the middle of a pass the reading has left already, the target has yet to move.
Stale(m) ==
  /\ Rested(window, m)
  /\ pc \in {"read_state", "send"} => 2 * target + Owed(m) <= Scale * (Window - 1)
  /\ pc \in {"read_buttons", "decide"} => 2 * target + Owed(m + 1) <= Scale * (Window - 1)

\* The process is ready only after its first put, and started only once.
Unready == /\ child \in {"none", "open", "first"} => ~ready
           /\ pc \in {"home", "start"} => child = "none"

Drifting == quiet => /\ pc \in {"read_state", "read_buttons", "decide", "send"}
                     /\ Readable.axis = 0
                     /\ \E m \in 0 .. Window : Stale(m)

DriftInv == Unready /\ Drifting

\* The scale is a whole number of units for each reading.
LEMMA UnitFacts == Unit \in Nat /\ Scale = Unit * Window /\ Scale \in Nat /\ Window \in Nat \ {0}
  <1>1. Scale \in Nat /\ Window \in Nat \ {0} /\ Scale % Window = 0
    BY TeleopAssumption
  <1>2. QED
    BY <1>1, DivMod DEF Unit

\* What is owed is a number, and the next reading takes its part of it.
LEMMA OwedFacts ==
  /\ \A n \in Nat : Owed(n) \in Nat /\ Owed(n + 1) = Owed(n) + 2 * (Unit * n)
  /\ Owed(Window) = Scale * (Window - 1) /\ Owed(1) = 0 /\ Owed(0) = 0
  <1>1. Unit \in Nat /\ Scale = Unit * Window /\ Window \in Nat \ {0}
    BY UnitFacts
  <1>2. ASSUME NEW n \in Nat PROVE Owed(n) \in Nat /\ Owed(n + 1) = Owed(n) + 2 * (Unit * n)
    <2>1. n * (n - 1) \in Nat
      <3>1. CASE n = 0
        BY <3>1
      <3>2. CASE n - 1 \in Nat
        BY <3>2
      <3>3. QED
        BY <3>1, <3>2
    <2>2. Unit * (n * (n - 1)) \in Nat
      BY ONLY <1>1, <2>1
    <2>3. (n + 1) * ((n + 1) - 1) = n * (n - 1) + 2 * n
      OBVIOUS
    <2>4. \A u, a, b \in Int : u * (a + 2 * b) = u * a + 2 * (u * b)
      OBVIOUS
    <2>5. QED
      BY <1>1, <2>1, <2>2, <2>3, <2>4 DEF Owed
  <1>3. Owed(Window) = Scale * (Window - 1)
    <2>1. \A u, a, b \in Int : u * (a * b) = (u * a) * b
      OBVIOUS
    <2>2. QED
      BY <1>1, <2>1 DEF Owed
  <1>4. QED
    BY <1>1, <1>2, <1>3 DEF Owed

\* A quotient by n is no more than b when the number is no more than b times n.
LEMMA QuotientBound ==
  ASSUME NEW n \in Nat \ {0}, NEW a \in Nat, NEW b \in Nat, a <= b * n
  PROVE  a \div n <= b
  <1> DEFINE q == a \div n
  <1>1. q \in Nat /\ a = n * q + (a % n) /\ a % n \in Nat
    BY DivMod
  <1> HIDE DEF q
  <1>2. CASE q >= b + 1
    <2>1. q - (b + 1) \in Nat /\ n * (q - (b + 1)) \in Nat
      BY <1>1, <1>2
    <2>2. n * q = n * (q - (b + 1)) + n * b + n
      BY <1>1
    <2>3. a % n \in Nat /\ n * b = b * n
      BY <1>1
    <2>4. QED
      BY <1>1, <2>1, <2>2, <2>3
  <1>3. CASE q <= b
    BY <1>3 DEF q
  <1>4. QED
    BY <1>1, <1>2, <1>3

\* Of a window of n readings with m + n - W stale ones, the mean is m units at most.
LEMMA MeanBound ==
  ASSUME NEW w \in Seq({0, 1}), w # <<>>, Len(w) <= Window, NEW m \in 0 .. Window,
         m + Len(w) >= Window,
         \A i \in DOMAIN w : i + Window > Len(w) + m => w[i] = 0
  PROVE  Mean(w) \in Nat /\ Mean(w) <= Unit * m
  <1> DEFINE s == {i \in DOMAIN w : w[i] = 1}
             n == Len(w)
             k == n + m - Window
             c == Cardinality(s)
  <1>1. n \in Nat \ {0} /\ DOMAIN w = 1 .. n /\ n <= Window /\ k \in Nat /\ m \in Nat
        /\ Unit \in Nat /\ Scale = Unit * Window /\ Window \in Nat \ {0} /\ Scale \in Nat
        /\ m <= Window
    BY UnitFacts, EmptySeq
  <1>2. s \subseteq 1 .. k
    BY <1>1
  <1>3. c \in Nat /\ c <= k
    <2>0. \A j \in Nat : IsFiniteSet(1 .. j) /\ Cardinality(1 .. j) = j
      <3> SUFFICES ASSUME NEW j \in Nat PROVE IsFiniteSet(1 .. j) /\ Cardinality(1 .. j) = j
        OBVIOUS
      <3>0. 1 \in Int /\ j \in Int
        OBVIOUS
      <3>1. IsFiniteSet(1 .. j)
        BY <3>0, FS_Interval
      <3>2. Cardinality(1 .. j) = IF 1 > j THEN 0 ELSE j - 1 + 1
        BY <3>0, FS_Interval
      <3>3. QED
        BY <3>1, <3>2
    <2> HIDE DEF s, k
    <2>1. IsFiniteSet(1 .. k) /\ Cardinality(1 .. k) = k
      BY <1>1, <2>0
    <2>2. QED
      BY <1>2, <2>1, FS_Subset, FS_CardinalityType
  <1>4. Window * k <= n * m
    <2>1. n * m - Window * k = (Window - n) * (Window - m)
      BY ONLY <1>1
    <2>2. (Window - n) * (Window - m) >= 0
      <3>1. \A a, b \in Nat : a * b >= 0
        OBVIOUS
      <3>2. Window - n \in Nat /\ Window - m \in Nat
        BY <1>1
      <3>3. QED
        BY <3>1, <3>2
    <2>3. n * m \in Int /\ Window * k \in Int
      BY <1>1
    <2>4. QED
      BY <2>1, <2>2, <2>3
  <1> HIDE DEF s, k, c
  <1>5. Scale * c <= (Unit * m) * n
    <2>1. Window * c <= Window * k
      BY ONLY <1>1, <1>3
    <2>2. Window * c <= n * m /\ Window * c \in Nat /\ n * m \in Nat
      BY <1>1, <1>3, <1>4, <2>1
    <2>3. \A a, b, u \in Nat : a <= b => u * a <= u * b
      OBVIOUS
    <2>4. Unit * (Window * c) <= Unit * (n * m)
      BY <1>1, <2>2, <2>3
    <2>5. Scale * c = Unit * (Window * c) /\ (Unit * m) * n = Unit * (n * m)
      BY ONLY <1>1, <1>3
    <2>6. QED
      BY <2>4, <2>5
  <1>6. Scale * c \in Nat /\ Unit * m \in Nat
    BY <1>1, <1>3
  <1>7. Mean(w) = (Scale * c) \div n
    BY DEF Mean, s, c
  <1>8. QED
    BY <1>1, <1>5, <1>6, <1>7, MeanType, QuotientBound

\* A reading at rest takes the place of a stale one.
LEMMA ReadingLeaves ==
  ASSUME TypeOK, NEW m \in 0 .. Window, Rested(window, m)
  PROVE  Left(m) \in 0 .. Window /\ Rested(Filtered(0), Left(m))
  <1> DEFINE w == Filtered(0)
             l == Left(m)
             n == Len(window)
  <1>1. window \in Seq({0, 1}) /\ n \in Nat /\ n <= Window /\ Window \in Nat \ {0}
        /\ m \in Nat /\ m <= Window /\ DOMAIN window = 1 .. n /\ m + n >= Window
        /\ \A i \in 1 .. n : i + Window > n + m => window[i] = 0
    BY TeleopAssumption DEF TypeOK, Rested
  <1>0. n \in Nat /\ Window \in Nat /\ n <= Window
    BY <1>1
  <1>2. l \in 0 .. Window /\ l \in Nat /\ l >= m - 1 /\ (m >= 1 => l = m - 1)
    BY <1>1 DEF Left
  <1>3. CASE n < Window
    <2>0. Len(window) # Window
      BY ONLY <1>0, <1>3
    <2>1. w = Append(window, 0)
      BY <2>0 DEF Filtered
    <2>2. Append(window, 0) \in Seq({0, 1}) /\ Len(Append(window, 0)) = n + 1
      BY <1>1, AppendProperties
    <2>3. Append(window, 0)[n + 1] = 0 /\ \A i \in 1 .. n : Append(window, 0)[i] = window[i]
      BY <1>1, AppendProperties
    <2>4. m >= 1 /\ l = m - 1
      BY <1>1, <1>2, <1>3
    <2> HIDE DEF w, l, n
    <2>5. /\ w \in Seq({0, 1}) /\ Len(w) = n + 1 /\ DOMAIN w = 1 .. n + 1
          /\ w[n + 1] = 0 /\ \A i \in 1 .. n : w[i] = window[i]
      <3>1. w \in Seq({0, 1}) /\ Len(w) = n + 1 /\ w[n + 1] = 0
        BY <2>1, <2>2, <2>3
      <3>2. DOMAIN w = 1 .. n + 1
        BY <3>1
      <3>3. \A i \in 1 .. n : w[i] = window[i]
        BY <2>1, <2>3
      <3>4. QED
        BY <3>1, <3>2, <3>3
    <2>6. ASSUME NEW i \in 1 .. n + 1, i + Window > (n + 1) + l PROVE w[i] = 0
      <3>1. CASE i = n + 1
        BY <3>1, <2>5
      <3>2. CASE i # n + 1
        <4>1. i \in 1 .. n /\ i + Window > n + m
          BY <1>1, <2>4, <2>6, <3>2
        <4>2. QED
          BY <1>1, <2>5, <4>1
      <3>3. QED
        BY <3>1, <3>2
    <2>7. l + Len(w) >= Window
      BY <1>1, <2>4, <2>5
    <2>8. Rested(w, l)
      BY <2>5, <2>6, <2>7 DEF Rested
    <2>9. QED
      BY <1>2, <2>8 DEF w, l
  <1>4. CASE n = Window
    <2>1. w = Append(Tail(window), 0) /\ window # <<>>
      BY <1>1, <1>4 DEF Filtered
    <2> DEFINE t == Tail(window)
    <2>2. /\ t \in Seq({0, 1}) /\ Len(t) = n - 1
          /\ \A i \in 1 .. n - 1 : t[i] = window[i + 1]
      BY <1>1, <2>1, HeadTailProperties
    <2> HIDE DEF t
    <2>3. Append(t, 0) \in Seq({0, 1}) /\ Len(Append(t, 0)) = Len(t) + 1
      BY <2>2, AppendProperties
    <2>4. Append(t, 0)[Len(t) + 1] = 0 /\ \A i \in 1 .. Len(t) : Append(t, 0)[i] = t[i]
      BY <2>2, AppendProperties
    <2>5. w = Append(t, 0)
      BY <2>1 DEF t
    <2>6. n - 1 \in Nat /\ (n - 1) + 1 = n
      BY <1>1, <1>4
    <2> HIDE DEF w, l, n
    <2>7. /\ w \in Seq({0, 1}) /\ Len(w) = n /\ DOMAIN w = 1 .. n
          /\ w[n] = 0 /\ \A i \in 1 .. n - 1 : w[i] = window[i + 1]
      <3>1. Len(w) = n /\ w \in Seq({0, 1}) /\ w[n] = 0
        BY <2>2, <2>3, <2>4, <2>5, <2>6
      <3>2. \A i \in 1 .. n - 1 : w[i] = window[i + 1]
        BY <2>2, <2>4, <2>5
      <3>3. QED
        BY <3>1, <3>2
    <2>8. ASSUME NEW i \in 1 .. n, i + Window > n + l PROVE w[i] = 0
      <3>1. CASE i = n
        BY <3>1, <2>7
      <3>2. CASE i # n
        <4>1. i \in 1 .. n - 1 /\ i + 1 \in 1 .. n /\ (i + 1) + Window > n + m
          BY <1>1, <1>2, <2>8, <3>2
        <4>2. QED
          BY <1>1, <2>7, <4>1
      <3>3. QED
        BY <3>1, <3>2
    <2>9. l + Len(w) >= Window
      BY <1>1, <1>2, <1>4, <2>7
    <2>10. Rested(w, l)
      BY <2>7, <2>8, <2>9 DEF Rested
    <2>11. QED
      BY <1>2, <2>10 DEF w, l
  <1>5. n < Window \/ n = Window
    BY <1>0
  <1>6. QED
    BY <1>3, <1>4, <1>5

\* The process and the start keep Unready.
LEMMA UnreadyStep == Unready /\ [Next]_vars => Unready'
  <1> SUFFICES ASSUME Unready, [Next]_vars PROVE Unready'
    OBVIOUS
  <1>1. CASE UNCHANGED vars
    BY <1>1 DEF vars, process, Unready
  <1>2. CASE GoHome \/ Start \/ WaitReady
    BY <1>2 DEF GoHome, Start, WaitReady, process, Unready
  <1>3. CASE ReadButton \/ WaitState \/ ReadState \/ Reset \/ Move \/ Send
    <2>1. UNCHANGED <<child, ready>> /\ pc' \notin {"home", "start"}
      <3>1. CASE ReadButton
        BY <3>1 DEF ReadButton, process
      <3>2. CASE WaitState
        BY <3>2 DEF WaitState, process
      <3>3. CASE ReadState \/ Reset \/ Move \/ Send
        BY <3>3 DEF ReadState, Reset, Move, Send, process
      <3>4. QED
        BY <1>3, <3>1, <3>2, <3>3
    <2>2. QED
      BY <2>1 DEF Unready
  <1>4. CASE Stop \/ Join \/ GoHomeAgain \/ Damp \/ Exit
    BY <1>4 DEF Stop, Join, GoHomeAgain, Damp, Exit, process, Unready
  <1>5. CASE Open \/ OpenFails \/ PutFirst \/ SetReady
    BY <1>5 DEF Open, OpenFails, PutFirst, SetReady, process, Unready
  <1>6. CASE Poll \/ PollNothing \/ Put \/ Stopped \/ Close \/ ChildInterrupted
    BY <1>6 DEF Poll, PollNothing, Put, Stopped, Close, ChildInterrupted, process, Running, Unready
  <1>7. CASE User
    <2>1. UNCHANGED <<child, ready>>
      BY <1>7 DEF User, Displace, Press, Interrupt, process
    <2>2. pc' = pc \/ pc' \notin {"home", "start"}
      BY <1>7 DEF User, Displace, Press, Interrupt
    <2>3. QED
      BY <2>1, <2>2 DEF Unready
  <1>8. QED
    BY <1>1, <1>2, <1>3, <1>4, <1>5, <1>6, <1>7 DEF Next, Program, Process

\* So does every step the rest of Drifting: a pass moves the target by no more than was
\* owed for it, and what would displace the device ends the quiet.
LEMMA DriftStep == TeleopInv /\ TeleopInv' /\ DriftInv /\ [Next]_vars => Drifting'
  <1> SUFFICES ASSUME TeleopInv, TeleopInv', DriftInv, [Next]_vars, quiet'
               PROVE  /\ pc' \in {"read_state", "read_buttons", "decide", "send"}
                      /\ Readable.axis' = 0
                      /\ \E m \in 0 .. Window : Stale(m)'
    BY DEF Drifting, DriftInv
  <1>0. /\ TypeOK /\ TypeOK' /\ Started /\ Filled /\ Unready
        /\ Window \in Nat \ {0} /\ Scale \in Nat /\ MaxTarget \in Nat
        /\ target \in Nat /\ target' \in Nat /\ Unit \in Nat
        /\ \A n \in Nat : Owed(n) \in Nat /\ Owed(n + 1) = Owed(n) + 2 * (Unit * n)
        /\ Owed(Window) = Scale * (Window - 1) /\ Owed(1) = 0 /\ Owed(0) = 0
    <2>1. TypeOK /\ TypeOK' /\ Started /\ Filled /\ Unready
      BY DEF TeleopInv, DriftInv
    <2>2. MaxTarget \in Nat
      BY TeleopAssumption
    <2>3. target \in Nat /\ target' \in Nat
      BY <2>1, <2>2 DEF TypeOK
    <2>4. QED
      BY <2>1, <2>2, <2>3, UnitFacts, OwedFacts
  <1>1. CASE Reset
    <2>1. quiet' = (Readable.axis = 0) /\ target' = 0 /\ pc' = "read_state" /\ window' = window
          /\ UNCHANGED <<kind, dev, ring>> /\ pc = "decide"
      BY <1>1 DEF Reset, device, process
    <2>2. Readable.axis' = 0
      BY <2>1 DEF Readable
    <2>3. window \in Seq({0, 1}) /\ Len(window) \in Nat /\ DOMAIN window = 1 .. Len(window)
      BY <1>0 DEF TypeOK
    <2>4. Rested(window, Window) /\ Window \in 0 .. Window
      <3>1. Window \in Nat
        BY <1>0
      <3>2. QED
        BY ONLY <2>3, <3>1 DEF Rested
    <2>5. 2 * target' + Owed(Window) <= Scale * (Window - 1)
      BY <1>0, <2>1
    <2>6. Stale(Window)'
      BY <2>1, <2>4, <2>5 DEF Stale, Rested, Owed, Unit
    <2>7. QED
      BY <2>1, <2>2, <2>4, <2>6
  <1>2. ASSUME ~Reset PROVE quiet
    BY <1>0, <1>2 DEF Next, Program, Process, User, GoHome, Start, WaitReady, ReadButton, WaitState, ReadState,
       Reset, Move, Send, Stop, Join, GoHomeAgain, Damp, Exit, Open, OpenFails, PutFirst,
       SetReady, Poll, PollNothing, Put, Stopped, Close, ChildInterrupted, Displace, Press,
       Interrupt, vars, TypeOK
  <1>3. CASE quiet /\ ~Reset
    <2>1. /\ pc \in {"read_state", "read_buttons", "decide", "send"} /\ Readable.axis = 0
      BY <1>3 DEF DriftInv, Drifting
    <2>2. PICK m \in 0 .. Window : Stale(m)
      BY <1>3 DEF DriftInv, Drifting
    <2>3. m \in Nat /\ m <= Window /\ Rested(window, m) /\ (m + 1) \in Nat
      BY <1>0, <2>2 DEF Stale, Rested
    <2>4. CASE ReadState
      <3>1. pc = "read_state" /\ pc' = "read_buttons" /\ window' = Filtered(0) /\ target' = target
            /\ UNCHANGED <<kind, dev, ring>>
        BY <2>1, <2>4 DEF ReadState, device, process
      <3>2. Left(m) \in 0 .. Window /\ Rested(Filtered(0), Left(m))
        BY <1>0, <2>3, ReadingLeaves
      <3>3. Owed(Left(m) + 1) = Owed(m)
        <4>1. CASE m = 0
          <5>1. Left(m) + 1 = 1
            BY <4>1 DEF Left
          <5>2. Owed(1) = 0 /\ Owed(0) = 0
            BY <1>0
          <5>3. QED
            BY <4>1, <5>1, <5>2
        <4>2. CASE m # 0
          <5>1. Left(m) + 1 = m
            BY <2>3, <4>2 DEF Left
          <5>2. QED
            BY <5>1
        <4>3. QED
          BY <4>1, <4>2
      <3>4. 2 * target' + Owed(Left(m) + 1) <= Scale * (Window - 1)
        BY <3>1, <3>3, <2>2 DEF Stale
      <3>5. Stale(Left(m))'
        BY <3>1, <3>2, <3>4 DEF Stale, Rested, Owed, Unit, Left
      <3>6. QED
        BY <2>1, <3>1, <3>2, <3>5 DEF Readable
    <2>5. CASE Move
      <3>1. pc = "decide" /\ pc' = "send" /\ UNCHANGED <<kind, dev, ring, window>>
            /\ target' = IF target + Mean(window) < MaxTarget THEN target + Mean(window) ELSE MaxTarget
        BY <2>5 DEF Move, device, process
      <3>2. window \in Seq({0, 1}) /\ window # <<>> /\ Len(window) <= Window
        BY <1>0, <3>1 DEF TypeOK, Filled
      <3>3. Mean(window) \in Nat /\ Mean(window) <= Unit * m
        BY <2>3, <3>2, MeanBound DEF Rested
      <3>4. target' <= target + Unit * m /\ Unit * m \in Nat
        <4>1. Unit * m \in Nat
          BY <1>0, <2>3
        <4> DEFINE e == Mean(window)
                   d == Unit * m
        <4>2. /\ e \in Nat /\ d \in Nat /\ e <= d /\ target \in Nat /\ MaxTarget \in Nat
              /\ target' = IF target + e < MaxTarget THEN target + e ELSE MaxTarget
          BY <1>0, <3>1, <3>3, <4>1
        <4> HIDE DEF e, d
        <4>3. target' <= target + d
          BY ONLY <4>2
        <4>4. QED
          BY <4>1, <4>3 DEF d
      <3>5. 2 * target + Owed(m + 1) <= Scale * (Window - 1)
        BY <2>2, <3>1 DEF Stale
      <3>6. Owed(m + 1) = Owed(m) + 2 * (Unit * m) /\ Owed(m) \in Nat
        BY <1>0, <2>3
      <3>7. 2 * target' + Owed(m) <= Scale * (Window - 1)
        <4>1. \A d, o, b, s, t \in Int : t <= s + d /\ 2 * s + (o + 2 * d) <= b => 2 * t + o <= b
          OBVIOUS
        <4>2. Unit * m \in Int /\ Owed(m) \in Int /\ Scale * (Window - 1) \in Int
          BY <1>0, <3>4, <3>6
        <4>3. target \in Int /\ target' \in Int
          BY <1>0
        <4>4. 2 * target + (Owed(m) + 2 * (Unit * m)) <= Scale * (Window - 1)
          BY <3>5, <3>6
        <4>5. QED
          BY ONLY <3>4, <4>1, <4>2, <4>3, <4>4
      <3>8. Stale(m)'
        BY <2>3, <3>1, <3>7 DEF Stale, Rested, Owed, Unit
      <3>9. QED
        BY <2>1, <3>1, <3>8 DEF Readable
    <2>6. CASE ReadButton \/ Send
      <3>1. /\ UNCHANGED <<kind, dev, ring, window, target>>
            /\ \/ pc = "read_buttons" /\ pc' \in {"read_buttons", "decide"}
               \/ pc = "send" /\ pc' = "read_state"
        <4>1. CASE ReadButton
          BY <2>1, <4>1 DEF ReadButton, device, process
        <4>2. CASE Send
          BY <4>2 DEF Send, device, process, loop
        <4>3. QED
          BY <2>6, <4>1, <4>2
      <3>2. Stale(m)'
        BY <2>2, <3>1 DEF Stale, Owed, Unit
      <3>3. QED
        BY <2>1, <3>1, <3>2 DEF Readable
    <2>7. CASE UNCHANGED <<pc, window, target>> /\ Readable.axis' = 0
      <3>1. Stale(m)'
        BY <2>2, <2>7 DEF Stale, Owed, Unit
      <3>2. QED
        BY <2>1, <2>7, <3>1
    <2>8. CASE GoHome \/ Start \/ WaitReady \/ WaitState \/ Stop \/ Join \/ GoHomeAgain \/ Damp
               \/ Exit \/ Interrupt
      BY <2>1, <2>8 DEF GoHome, Start, WaitReady, WaitState, Stop, Join, GoHomeAgain, Damp, Exit,
         Interrupt
    <2>9. CASE \/ Open \/ OpenFails \/ PutFirst \/ SetReady \/ Poll \/ PollNothing \/ Put \/ Stopped
               \/ Close \/ ChildInterrupted \/ UNCHANGED vars
      <3>1. UNCHANGED <<kind, dev, pc, window, target>>
        BY <2>9 DEF Open, OpenFails, PutFirst, SetReady, Poll, PollNothing, Put, Stopped, Close,
           ChildInterrupted, device, process, loop, vars
      <3>2. kind = "keyboard" \/ ring' = ring \/ ring'.axis = 0
        <4>1. CASE Put
          BY <4>1 DEF Put
        <4>2. CASE PutFirst
          BY <1>0, <2>1, <4>2 DEF PutFirst, Started, Unready, InLoop, TypeOK
        <4>3. CASE \/ Open \/ OpenFails \/ SetReady \/ Poll \/ PollNothing \/ Stopped \/ Close
                   \/ ChildInterrupted \/ UNCHANGED vars
          BY <4>3 DEF Open, OpenFails, SetReady, Poll, PollNothing, Stopped, Close,
             ChildInterrupted, process, vars
        <4>4. QED
          BY <2>9, <4>1, <4>2, <4>3
      <3>3. Readable.axis' = 0
        BY <2>1, <3>1, <3>2 DEF Readable
      <3>4. QED
        BY <2>7, <3>1, <3>3
    <2>10. CASE Displace \/ Press
      <3>1. UNCHANGED <<kind, ring, pc, window, target>>
        BY <2>10 DEF Displace, Press, process, loop
      <3>2. kind = "keyboard" => dev'.axis = 0
        <4>1. CASE Displace
          BY <4>1 DEF Displace
        <4>2. CASE Press
          <5>1. dev'.axis = dev.axis
            BY <1>0, <4>2 DEF Press, TypeOK, States
          <5>2. QED
            BY <2>1, <5>1 DEF Readable
        <4>3. QED
          BY <2>10, <4>1, <4>2
      <3>3. Readable.axis' = 0
        BY <2>1, <3>1, <3>2 DEF Readable
      <3>4. QED
        BY <2>7, <3>1, <3>3
    <2>11. QED
      BY <1>3, <2>4, <2>5, <2>6, <2>8, <2>9, <2>10 DEF Next, Program, Process, User
  <1>4. QED
    BY <1>1, <1>2, <1>3

\* In every reachable state what the target has moved and has still to move is bounded.
LEMMA DriftInvariance == Spec => []DriftInv
  <1>1. Init => DriftInv
    BY DEF Init, DriftInv, Unready, Drifting
  <1>2. TeleopInv /\ TeleopInv' /\ DriftInv /\ [Next]_vars => DriftInv'
    BY UnreadyStep, DriftStep DEF DriftInv
  <1>3. QED
    BY <1>1, <1>2, Invariance, PTL DEF Spec

\* What the window holds at a reset moves the target by half the step of a pass for each
\* reading but one at the most, for every window, scale and interleaving with the
\* process that reads the device.
THEOREM DriftIsBounded == Spec => []DriftAfterReset
  <1>1. TeleopInv /\ DriftInv => DriftAfterReset
    <2> SUFFICES ASSUME TeleopInv, DriftInv, quiet PROVE target <= (Scale * (Window - 1)) \div 2
      BY DEF DriftAfterReset
    <2> DEFINE b == Scale * (Window - 1)
    <2>1. target \in Nat /\ b \in Nat
      <3>1. Scale \in Nat /\ Window - 1 \in Nat /\ MaxTarget \in Nat
        BY TeleopAssumption
      <3>2. QED
        BY <3>1 DEF TeleopInv, TypeOK
    <2>2. PICK m \in 0 .. Window : Stale(m)
      BY DEF DriftInv, Drifting
    <2>3. Owed(m) \in Nat /\ Owed(m + 1) \in Nat
      <3>1. m \in Nat /\ m + 1 \in Nat
        BY TeleopAssumption
      <3>2. QED
        BY <3>1, OwedFacts
    <2>4. 2 * target + Owed(m) <= b \/ 2 * target + Owed(m + 1) <= b
      BY <2>2 DEF DriftInv, Drifting, Stale
    <2> HIDE DEF b
    <2>5. 2 * target <= b
      BY <2>1, <2>3, <2>4
    <2>6. target <= b \div 2
      BY <2>1, <2>5
    <2>7. QED
      BY <2>6 DEF b
  <1>2. QED
    BY <1>1, Invariance, DriftInvariance, PTL

=============================================================================
