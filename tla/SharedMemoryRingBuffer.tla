----------------------- MODULE SharedMemoryRingBuffer -----------------------
(***************************************************************************)
(* The lock-free ring buffer through which a peripheral's process hands    *)
(* its latest readings to the control process.  Nothing keeps the producer *)
(* from overwriting what a reader copies but the size of the buffer, a     *)
(* check of timestamps in put, and the time budget of a read.              *)
(*                                                                         *)
(* Time is a number of ticks.  A timestamp is kept as the age of its slot, *)
(* up to the budget: older slots are alike.  The items are numbered from 1 *)
(* and each is an array per key, written and copied key by key.  Readers   *)
(* change nothing the others see, so one stands for all of them.           *)
(***************************************************************************)
EXTENDS Integers, Sequences

CONSTANTS
  GetMaxK,    \* get_max_k
  TimeBudget, \* get_time_budget, in ticks
  Period,     \* 1 / put_desired_frequency, in ticks
  Paces,      \* whether producers pause for a period after a put, as Spacemouse does
  NumKeys,    \* arrays of an item
  MaxPuts     \* bound of the model: items put

ASSUME BufferAssumption == /\ GetMaxK \in Nat \ {0} /\ TimeBudget \in Nat \ {0}
                           /\ Period \in Nat \ {0} /\ NumKeys \in Nat \ {0}
                           /\ Paces \subseteq BOOLEAN /\ MaxPuts \in Nat

VARIABLES
  counter,  \* counter: the number of items put
  arrays,   \* shared_arrays: for each key the items in the slots
  age,      \* how long ago each slot's timestamp was taken
  paced,    \* whether this producer does
  putPc,    \* where it is
  putKey,   \* the key it writes next
  pause,    \* how long it still sleeps
  getPc,    \* where the reader is
  getKey,   \* the key it copies next
  k,        \* how many items it wants
  count,    \* the count it has loaded
  elapsed,  \* how long it has been reading
  out       \* what it has copied, per key

producer == <<counter, arrays, age, paced, putPc, putKey, pause>>
reader == <<getPc, getKey, k, count, elapsed, out>>
vars == <<producer, reader>>

Keys == 1 .. NumKeys

Lesser(a, b) == IF a < b THEN a ELSE b

\* Mutated form: the safety margin is missing.
SlotsNoMargin == (TimeBudget + Period - 1) \div Period

\* ceil(put_desired_frequency * get_time_budget * safety_margin), the margin being 1.5.
SpareSlots == (3 * TimeBudget + 2 * Period - 1) \div (2 * Period)

BufferSize == SpareSlots + GetMaxK

Indices == 0 .. BufferSize - 1

Init ==
  /\ counter = 0
  /\ arrays = [key \in Keys |-> [i \in 1 .. BufferSize |-> 0]]
  /\ age = [i \in Indices |-> TimeBudget]
  /\ paced \in Paces /\ putPc = "idle" /\ putKey = 1 /\ pause = 0
  /\ getPc = "idle" /\ getKey = 1 /\ k = 0 /\ count = 0 /\ elapsed = 0
  /\ out = [key \in Keys |-> <<>>]

\* Time passes, whatever the processes are doing.
Tick ==
  /\ age' = [i \in Indices |-> Lesser(age[i] + 1, TimeBudget)]
  /\ pause' = IF pause = 0 THEN 0 ELSE pause - 1
  /\ elapsed' = IF getPc = "idle" THEN 0 ELSE Lesser(elapsed + 1, TimeBudget + 1)
  /\ UNCHANGED <<counter, arrays, paced, putPc, putKey, getPc, getKey, k, count, out>>

-----------------------------------------------------------------------------
(* put *)

NextIdx == counter % BufferSize

\* Mutated forms: the slot to be written itself; the slot written last.
PreviewIdxFirst == NextIdx

PreviewIdxLast == (NextIdx + BufferSize - 1) % BufferSize

\* The slot whose timestamp put checks.
PreviewIdx == (NextIdx + GetMaxK - 1) % BufferSize

TooFast == age[PreviewIdx] < TimeBudget

PutBegin ==
  /\ putPc = "idle" /\ pause = 0 /\ counter < MaxPuts
  /\ putPc' = "check"
  /\ UNCHANGED <<counter, arrays, age, paced, putKey, pause, reader>>

\* Mutated form: put does not look at the timestamp.
PutCheckAlways ==
  /\ putPc = "check"
  /\ putPc' = "write" /\ putKey' = 1
  /\ UNCHANGED <<counter, arrays, age, paced, pause, reader>>

\* With wait = TRUE put sleeps until the slot checked is old enough.
PutCheck ==
  /\ putPc = "check" /\ ~TooFast
  /\ putPc' = "write" /\ putKey' = 1
  /\ UNCHANGED <<counter, arrays, age, paced, pause, reader>>

\* With wait = FALSE it raises a TimeoutError.
PutTimeout ==
  /\ putPc = "check" /\ TooFast
  /\ putPc' = "idle"
  /\ UNCHANGED <<counter, arrays, age, paced, putKey, pause, reader>>

PutWrite ==
  /\ putPc = "write"
  /\ arrays' = [arrays EXCEPT ![putKey][NextIdx + 1] = counter + 1]
  /\ putKey' = putKey + 1
  /\ putPc' = IF putKey = NumKeys THEN "stamp" ELSE "write"
  /\ UNCHANGED <<counter, age, paced, pause, reader>>

PutStamp ==
  /\ putPc = "stamp"
  /\ age' = [age EXCEPT ![NextIdx] = 0]
  /\ putPc' = "add"
  /\ UNCHANGED <<counter, arrays, paced, putKey, pause, reader>>

\* The first put of Spacemouse.run is not followed by a sleep.
PutAdd ==
  /\ putPc = "add"
  /\ counter' = counter + 1
  /\ putPc' = "idle" /\ putKey' = 1
  /\ pause' = IF paced /\ counter > 0 THEN Period ELSE 0
  /\ UNCHANGED <<arrays, age, paced, reader>>

-----------------------------------------------------------------------------
(* get, get_last_k and get_all: get is the case k = 1.  There is something to *)
(* read: Spacemouse.start waits for the first put, get_last_k asserts it.     *)

GetBegin ==
  /\ getPc = "idle" /\ counter > 0
  /\ getPc' = "load" /\ elapsed' = 0
  /\ k' \in 1 .. Lesser(counter, GetMaxK)
  /\ UNCHANGED <<getKey, count, out, producer>>

GetLoad ==
  /\ getPc = "load"
  /\ count' = counter
  /\ getPc' = "copy" /\ getKey' = 1
  /\ UNCHANGED <<k, elapsed, out, producer>>

\* Mutated form: the slice from the end of the buffer is forgotten.
LastKNoWrap(arr) ==
  LET end == ((count - 1) % BufferSize) + 1
      start == IF end > k THEN end - k ELSE 0
  IN  SubSeq(arr, start + 1, end)

\* The slices that get_last_k copies: up to the current index, and before that, if
\* the slots at the start of the buffer are not enough, from the end of the buffer.
LastK(arr) ==
  LET end == ((count - 1) % BufferSize) + 1
      start == IF end > k THEN end - k ELSE 0
      remainder == k - (end - start)
  IN  SubSeq(arr, BufferSize - remainder + 1, BufferSize) \o SubSeq(arr, start + 1, end)

GetCopy ==
  /\ getPc = "copy"
  /\ out' = [out EXCEPT ![getKey] = LastK(arrays[getKey])]
  /\ getKey' = getKey + 1
  /\ getPc' = IF getKey = NumKeys THEN "end" ELSE "copy"
  /\ UNCHANGED <<k, count, elapsed, producer>>

\* The items are returned, or a TimeoutError is raised.
GetEnd ==
  /\ getPc = "end"
  /\ getPc' = "idle" /\ getKey' = 1 /\ k' = 0 /\ count' = 0 /\ elapsed' = 0
  /\ out' = [key \in Keys |-> <<>>]
  /\ UNCHANGED producer

-----------------------------------------------------------------------------

Put == PutBegin \/ PutCheck \/ PutTimeout \/ PutWrite \/ PutStamp \/ PutAdd

Get == GetBegin \/ GetLoad \/ GetCopy \/ GetEnd

Next == Tick \/ Put \/ Get

Spec == Init /\ [][Next]_vars

-----------------------------------------------------------------------------
(* Properties *)

\* The type of every variable.  A copy has the length asked for, also around the end
\* of the buffer.
TypeOK ==
  /\ counter \in 0 .. MaxPuts
  /\ arrays \in [Keys -> [1 .. BufferSize -> 0 .. MaxPuts]]
  /\ age \in [Indices -> 0 .. TimeBudget]
  /\ paced \in BOOLEAN /\ putPc \in {"idle", "check", "write", "stamp", "add"}
  /\ putKey \in 1 .. NumKeys + 1 /\ pause \in 0 .. Period
  /\ getPc \in {"idle", "load", "copy", "end"} /\ getKey \in 1 .. NumKeys + 1
  /\ k \in 0 .. GetMaxK /\ count \in 0 .. MaxPuts /\ elapsed \in 0 .. TimeBudget + 1
  /\ \A key \in Keys : Len(out[key]) \in {0, k}

\* A read returns, for every key, the last k items that had been put when it began to
\* copy, in order: none is overwritten or half written.
Intact == \A key \in Keys : out[key] = [i \in 1 .. k |-> count - k + i]

\* Reads within the time budget are intact when the producer keeps the declared pace:
\* the spare slots outlast the budget.
PacedReadsIntact == paced /\ getPc = "end" /\ elapsed <= TimeBudget => Intact

\* Whatever the pace, a read of two items fewer than get_max_k, as are all those of the
\* space mouse, that ends before the budget does is intact.  The slot that put checks is
\* that of item c - B + K when it puts item c + 1 (B slots, K = get_max_k), and the first
\* item put after the count was loaded may have had its timestamp before: the bounds are
\* those two items and the tick.
FewItemsIntact == getPc = "end" /\ elapsed < TimeBudget /\ k + 2 <= GetMaxK => Intact

\* A producer that keeps its pace is never made to wait and never refused ("enough
\* empty slots to make sure put_desired_frequency Hz of put can be sustained").
PaceIsSustained == paced /\ putPc = "check" => ~TooFast

\* Also without a pace: the next get_max_k slots put could overwrite have not been
\* touched for the time budget when it overwrites the first of them ("Make sure the
\* next self.get_max_k elements in the ring buffer have at least self.get_time_budget
\* seconds untouched after written").
NextSlotsRested ==
  putPc = "write" => \A i \in 0 .. GetMaxK - 1 : age[(NextIdx + i) % BufferSize] >= TimeBudget

\* Every read within the time budget is intact, whatever the pace ("so that get_last_k
\* can safely read k elements from any count location", put).
NoTornRead == getPc = "end" /\ elapsed <= TimeBudget => Intact
=============================================================================
