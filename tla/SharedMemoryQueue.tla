-------------------------- MODULE SharedMemoryQueue --------------------------
(***************************************************************************)
(* The lock-free queue in shared memory between a producer process and a   *)
(* consumer process.  Each loads both counters, decides, copies the arrays *)
(* of the items one key after the other and only then adds to the counter  *)
(* that is its own; nothing else keeps the two apart.                      *)
(*                                                                         *)
(* Counters are loaded, stored and added to in one step each               *)
(* (SharedAtomicCounter), the slice of an array is copied in one step.     *)
(* The items are numbered from 1 and an item is its number in every array. *)
(***************************************************************************)
EXTENDS Integers, Sequences

CONSTANTS
  BufferSize,  \* buffer_size
  NumKeys,     \* arrays of an item
  MaxPuts      \* bound of the model: items put

ASSUME QueueAssumption == /\ BufferSize \in Nat \ {0} /\ NumKeys \in Nat \ {0}
                          /\ MaxPuts \in Nat

VARIABLES
  writeCounter,  \* write_counter
  readCounter,   \* read_counter
  arrays,        \* shared_arrays: for each key what the slots hold
  putPc,         \* where the producer is
  putOp,         \* the method it runs
  listLen,       \* how many items it puts
  putRead,       \* the read_count it has loaded
  putWrite,      \* the write_count it has loaded
  putKey,        \* the key it writes next
  getPc,         \* where the consumer is
  getOp,         \* the method it runs
  k,             \* how many items it takes
  getWrite,      \* the write_count it has loaded
  getRead,       \* the read_count it has loaded
  getKey,        \* the key it copies next
  out,           \* what it has copied, per key
  got            \* what its last call has returned

counters == <<writeCounter, readCounter>>
producer == <<putPc, putOp, listLen, putRead, putWrite, putKey>>
consumer == <<getPc, getOp, k, getWrite, getRead, getKey, out, got>>
vars == <<counters, arrays, producer, consumer>>

Keys == 1 .. NumKeys

Slots == 0 .. BufferSize - 1

Lesser(a, b) == IF a < b THEN a ELSE b

\* From slot `start` on, how many of n items come before the end of the buffer.
BeforeEnd(start, n) == Lesser(start + n, BufferSize) - start

Init ==
  /\ writeCounter = 0 /\ readCounter = 0
  /\ arrays = [key \in Keys |-> [s \in Slots |-> 0]]
  /\ putPc = "idle" /\ putOp = "put_list" /\ listLen = 0
  /\ putRead = 0 /\ putWrite = 0 /\ putKey = 1
  /\ getPc = "idle" /\ getOp = "get_k" /\ k = 0
  /\ getWrite = 0 /\ getRead = 0 /\ getKey = 1
  /\ out = [key \in Keys |-> <<>>] /\ got = <<>>

-----------------------------------------------------------------------------
(* The producer: put_list, of which put is the case of one item, and the pair  *)
(* get_next_view and put_next_view, between which it writes in place.          *)

PutBegin ==
  /\ putPc = "idle"
  /\ \E op \in {"put_list", "get_next_view"}, n \in 1 .. BufferSize + 1 :
       /\ op = "get_next_view" => n = 1
       /\ writeCounter + n <= MaxPuts
       /\ putOp' = op /\ listLen' = n
  /\ putPc' = "load_read"
  /\ UNCHANGED <<counters, arrays, putRead, putWrite, putKey, consumer>>

PutLoadRead ==
  /\ putPc = "load_read"
  /\ putRead' = readCounter
  /\ putPc' = "load_write"
  /\ UNCHANGED <<counters, arrays, putOp, listLen, putWrite, putKey, consumer>>

\* Mutated form: off by one.
FitsOneMore == writeCounter - putRead + listLen <= BufferSize + 1

Fits == writeCounter - putRead + listLen <= BufferSize

\* Full is raised.
PutFull ==
  /\ putPc = "load_write" /\ ~Fits
  /\ putPc' = "idle"
  /\ UNCHANGED <<counters, arrays, putOp, listLen, putRead, putWrite, putKey, consumer>>

PutLoadWrite ==
  /\ putPc = "load_write" /\ Fits
  /\ putWrite' = writeCounter /\ putKey' = 1
  /\ putPc' = IF putOp = "put_next_view" THEN "add" ELSE "write"
  /\ UNCHANGED <<counters, arrays, putOp, listLen, putRead, consumer>>

NextIdx == putWrite % BufferSize

FirstSlice == BeforeEnd(NextIdx, listLen)

\* The key is written; after the last one, `next` and the method that goes on there.
NextPutKey(next, op) ==
  IF putKey < NumKeys
  THEN putKey' = putKey + 1 /\ UNCHANGED <<putPc, putOp>>
  ELSE putKey' = 1 /\ putPc' = next /\ putOp' = op

\* A view that has been written is handed in with put_next_view, which loads and
\* checks the counters again.
AllWritten == IF putOp = "get_next_view" THEN NextPutKey("load_read", "put_next_view")
                                         ELSE NextPutKey("add", putOp)

\* The slots up to the end of the buffer.
PutWrite ==
  /\ putPc = "write"
  /\ arrays' = [arrays EXCEPT ![putKey] =
       [s \in Slots |-> IF s \in NextIdx .. NextIdx + FirstSlice - 1
                        THEN putWrite + 1 + s - NextIdx ELSE @[s]]]
  /\ IF FirstSlice < listLen THEN NextPutKey("wrap", putOp) ELSE AllWritten
  /\ UNCHANGED <<counters, listLen, putRead, putWrite, consumer>>

\* The remainder, from the start of the buffer.
PutWrap ==
  /\ putPc = "wrap"
  /\ arrays' = [arrays EXCEPT ![putKey] =
       [s \in Slots |-> IF s < listLen - FirstSlice
                        THEN putWrite + 1 + FirstSlice + s ELSE @[s]]]
  /\ AllWritten
  /\ UNCHANGED <<counters, listLen, putRead, putWrite, consumer>>

\* A value of the wrong shape or type raises between two keys, or the producer gives
\* up its view: what it has written stays in the slots.
PutRaise ==
  /\ putPc \in {"write", "wrap"}
  /\ putPc' = "idle"
  /\ UNCHANGED <<counters, arrays, putOp, listLen, putRead, putWrite, putKey, consumer>>

PutAdd ==
  /\ putPc = "add"
  /\ writeCounter' = writeCounter + listLen
  /\ putPc' = "idle"
  /\ UNCHANGED <<readCounter, arrays, putOp, listLen, putRead, putWrite, putKey, consumer>>

-----------------------------------------------------------------------------
(* The consumer: get_k, of which get is the case k = 1, get_all, peek_all, and *)
(* get_view, whose item is read in the body of a `with`.                       *)

GetBegin ==
  /\ getPc = "idle"
  /\ \E op \in {"get_k", "get_all", "peek_all", "get_view"}, n \in 1 .. BufferSize :
       /\ op # "get_k" => n = 1
       /\ getOp' = op /\ k' = n
  /\ getPc' = "load_write"
  /\ UNCHANGED <<counters, arrays, getWrite, getRead, getKey, out, got, producer>>

GetLoadWrite ==
  /\ getPc = "load_write"
  /\ getWrite' = writeCounter
  /\ getPc' = "load_read"
  /\ UNCHANGED <<counters, arrays, getOp, k, getRead, getKey, out, got, producer>>

NData == getWrite - readCounter

\* Empty is raised, or get_k finds fewer items than it is to take.
GetRefused ==
  /\ getPc = "load_read" /\ k > NData
  /\ getPc' = "idle"
  /\ UNCHANGED <<counters, arrays, getOp, k, getWrite, getRead, getKey, out, got, producer>>

GetLoadRead ==
  /\ getPc = "load_read" /\ k <= NData
  /\ getRead' = readCounter /\ getKey' = 1
  /\ k' = IF getOp \in {"get_all", "peek_all"} THEN NData ELSE k
  /\ getPc' = "copy"
  /\ UNCHANGED <<counters, arrays, getOp, getWrite, out, got, producer>>

\* Mutated form: the part from the start of the buffer is forgotten.
SlicesNoWrap(arr) ==
  LET start == getRead % BufferSize IN
    [i \in 1 .. BeforeEnd(start, k) |-> arr[start + i - 1]]

\* The k slots from the read counter on: up to the end of the buffer, and then from
\* its start.
Slices(arr) ==
  LET start == getRead % BufferSize
      first == BeforeEnd(start, k)
  IN  [i \in 1 .. k |-> IF i <= first THEN arr[start + i - 1] ELSE arr[i - first - 1]]

GetCopy ==
  /\ getPc = "copy"
  /\ out' = [out EXCEPT ![getKey] = Slices(arrays[getKey])]
  /\ IF getKey < NumKeys
     THEN getKey' = getKey + 1 /\ UNCHANGED getPc
     ELSE getKey' = 1 /\ getPc' = IF getOp = "peek_all" THEN "return" ELSE "add"
  /\ UNCHANGED <<counters, arrays, getOp, k, getWrite, getRead, got, producer>>

\* The call is over; its locals are gone.
GetEnd == /\ getPc' = "idle" /\ k' = 0 /\ getWrite' = 0 /\ getRead' = 0 /\ getKey' = 1
          /\ out' = [key \in Keys |-> <<>>]

Copied == [i \in 1 .. k |-> [key \in Keys |-> out[key][i]]]

\* Mutated form: one item whatever was taken.
GetAddOne ==
  /\ getPc = "add"
  /\ readCounter' = readCounter + 1
  /\ got' = Copied /\ GetEnd
  /\ UNCHANGED <<writeCounter, arrays, getOp, producer>>

\* The items are taken: read_counter.add, in get_view by __exit__.
GetAdd ==
  /\ getPc = "add"
  /\ readCounter' = readCounter + k
  /\ got' = Copied /\ GetEnd
  /\ UNCHANGED <<writeCounter, arrays, getOp, producer>>

PeekReturn ==
  /\ getPc = "return"
  /\ got' = Copied /\ GetEnd
  /\ UNCHANGED <<counters, arrays, getOp, producer>>

\* Copying into arrays of the wrong shape raises and takes nothing.
GetRaise ==
  /\ getPc = "copy" /\ getOp # "get_view"
  /\ GetEnd
  /\ UNCHANGED <<counters, arrays, getOp, got, producer>>

\* A `with` whose body raises takes its item all the same.
ViewRaise ==
  /\ getPc = "copy" /\ getOp = "get_view"
  /\ readCounter' = readCounter + k
  /\ GetEnd
  /\ UNCHANGED <<writeCounter, arrays, getOp, got, producer>>

\* clear, called by the consumer between two calls.
ClearLoad ==
  /\ getPc = "idle"
  /\ getWrite' = writeCounter
  /\ getPc' = "clear"
  /\ UNCHANGED <<counters, arrays, getOp, k, getRead, getKey, out, got, producer>>

ClearStore ==
  /\ getPc = "clear"
  /\ readCounter' = getWrite
  /\ GetEnd
  /\ UNCHANGED <<writeCounter, arrays, getOp, got, producer>>

-----------------------------------------------------------------------------

Put == \/ PutBegin \/ PutLoadRead \/ PutFull \/ PutLoadWrite
       \/ PutWrite \/ PutWrap \/ PutRaise \/ PutAdd

Get == \/ GetBegin \/ GetLoadWrite \/ GetRefused \/ GetLoadRead \/ GetCopy
       \/ GetAdd \/ PeekReturn \/ GetRaise \/ ViewRaise \/ ClearLoad \/ ClearStore

Next == Put \/ Get

Spec == Init /\ [][Next]_vars

-----------------------------------------------------------------------------
(* Properties *)

\* The type of every variable.  A copy has the length asked for, also around the end
\* of the buffer.
TypeOK ==
  /\ writeCounter \in Nat /\ readCounter \in Nat
  /\ arrays \in [Keys -> [Slots -> Nat]]
  /\ putPc \in {"idle", "load_read", "load_write", "write", "wrap", "add"}
  /\ putOp \in {"put_list", "get_next_view", "put_next_view"}
  /\ listLen \in Nat /\ putRead \in Nat /\ putWrite \in Nat /\ putKey \in Keys
  /\ getPc \in {"idle", "load_write", "load_read", "copy", "add", "return", "clear"}
  /\ getOp \in {"get_k", "get_all", "peek_all", "get_view"}
  /\ k \in Nat /\ getWrite \in Nat /\ getRead \in Nat /\ getKey \in Keys
  /\ out \in [Keys -> Seq(Nat)] /\ \A key \in Keys : Len(out[key]) \in {0, k}
  /\ got \in Seq([Keys -> Nat])

\* The slots of the items from counter c on.
SlotsOf(c, n) == {(c + i) % BufferSize : i \in 0 .. n - 1}

\* The producer writes no slot that the consumer has still to take or is copying,
\* although it decides on a read counter loaded before: keys of two items never mix.
WritesAvoidReads ==
  putPc \in {"write", "wrap", "add"} =>
    SlotsOf(putWrite, listLen) \cap SlotsOf(readCounter, writeCounter - readCounter) = {}

\* The items between the counters.
Contents ==
  [i \in 1 .. writeCounter - readCounter |->
     [key \in Keys |-> arrays[key][(readCounter + i - 1) % BufferSize]]]

Fifo == INSTANCE BoundedFifo WITH Size <- BufferSize, queue <- Contents, last <- writeCounter

\* The queue is a bounded FIFO: what is between the counters changes only by whole
\* items put at one end and taken from the other, and a call returns the oldest
\* items, whole, in order, none twice and none lost, whatever the interleaving and
\* whichever call raises half-way.
ImplementsFifo == Fifo!Spec
=============================================================================
