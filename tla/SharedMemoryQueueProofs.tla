----------------------- MODULE SharedMemoryQueueProofs -----------------------
(***************************************************************************)
(* SharedMemoryQueue implements BoundedFifo, for buffers of every size,    *)
(* items of any number of arrays and any number of puts.                   *)
(***************************************************************************)
EXTENDS SharedMemoryQueue, SlotArithmetic, SequenceTheorems, TLAPS

-----------------------------------------------------------------------------
(* Arithmetic of the slots. *)

\* The slots of n successive counters: on from the first one up to the end of the
\* buffer, then from its start.
LEMMA SlotsOfSlices ==
  ASSUME NEW w \in Nat, NEW n \in 0 .. BufferSize, NEW j \in 0 .. n - 1
  PROVE  LET first == BeforeEnd(w % BufferSize, n) IN
           /\ first \in 0 .. n
           /\ (w + j) % BufferSize = IF j < first THEN (w % BufferSize) + j ELSE j - first
  <1> DEFINE s == w % BufferSize
             q == w \div BufferSize
             first == BeforeEnd(s, n)
  <1> USE QueueAssumption
  <1>1. w = BufferSize * q + s /\ s \in 0 .. BufferSize - 1 /\ q \in Nat
    BY DivMod
  <1> HIDE DEF s, q
  <1>2. first \in 0 .. n /\ s + first <= BufferSize
    BY <1>1 DEF BeforeEnd, Lesser
  <1>3. CASE j < first
    <2>1. w + j = BufferSize * q + (s + j) /\ s + j \in 0 .. BufferSize - 1
      BY <1>1, <1>2, <1>3
    <2>2. (w + j) % BufferSize = s + j
      <3> DEFINE c == w + j
                 r == s + j
      <3>1. c \in Nat /\ r \in 0 .. BufferSize - 1 /\ c = BufferSize * q + r
        BY <2>1
      <3>2. q \in Nat /\ BufferSize \in Nat \ {0}
        BY <1>1
      <3> HIDE DEF c, r
      <3>3. c % BufferSize = r
        BY ONLY <3>1, <3>2, ModUnique
      <3>4. QED
        BY <3>3 DEF c, r
    <2>3. QED
      BY <2>2, <1>2, <1>3 DEF s
  <1>4. CASE j >= first
    <2> DEFINE p == q + 1
    <2>1. s + first = BufferSize /\ j - first \in 0 .. BufferSize - 1
      BY <1>1, <1>2, <1>4 DEF BeforeEnd, Lesser
    <2>2. p \in Nat /\ BufferSize * p = BufferSize * q + BufferSize
      BY <1>1
    <2> HIDE DEF p, first
    <2>3. w + j = BufferSize * p + (j - first) /\ w + j \in Nat
      <3> DEFINE x == BufferSize * q
                 y == BufferSize * p
      <3>1. w = x + s /\ y = x + BufferSize /\ x \in Nat /\ y \in Nat
        BY <1>1, <2>2
      <3>2. s \in Int /\ first \in Int /\ BufferSize \in Int /\ s + first = BufferSize
        BY <1>1, <1>2, <2>1
      <3>3. w \in Nat /\ j \in Nat
        OBVIOUS
      <3> HIDE DEF x, y
      <3>4. w + j = y + (j - first) /\ w + j \in Nat
        BY ONLY <3>1, <3>2, <3>3
      <3>5. QED
        BY <3>4 DEF y
    <2>4. (w + j) % BufferSize = j - first
      <3> DEFINE c == w + j
                 r == j - first
      <3>1. c \in Nat /\ r \in 0 .. BufferSize - 1 /\ c = BufferSize * p + r
        BY <2>1, <2>3
      <3>2. p \in Nat /\ BufferSize \in Nat \ {0}
        BY <2>2
      <3> HIDE DEF c, r
      <3>3. c % BufferSize = r
        BY ONLY <3>1, <3>2, ModUnique
      <3>4. QED
        BY <3>3 DEF c, r
    <2>5. QED
      BY <2>4, <1>2, <1>4 DEF s, first
  <1>5. QED
    BY <1>3, <1>4, <1>2

-----------------------------------------------------------------------------
(* The inductive invariant. *)

\* The items between the counters fit into the buffer.
Counted == readCounter <= writeCounter /\ writeCounter <= readCounter + BufferSize

\* Each of them is whole in its slot.
Held ==
  \A key \in Keys, i \in readCounter .. writeCounter - 1 :
    arrays[key][i % BufferSize] = i + 1

\* The first n arrays entries of the items that the producer is putting.
Written(key, n) ==
  \A i \in 0 .. n - 1 : arrays[key][(writeCounter + i) % BufferSize] = writeCounter + 1 + i

\* What the producer has found out and written so far.
PutInv ==
  /\ putPc # "idle" => listLen >= 1
  /\ putPc = "load_write" => putRead <= readCounter
  /\ putPc \in {"write", "wrap", "add"} =>
       putWrite = writeCounter /\ writeCounter + listLen <= readCounter + BufferSize
  /\ putPc = "write" => \A key \in 1 .. putKey - 1 : Written(key, FirstSlice)
  /\ putPc = "wrap" => /\ \A key \in Keys : Written(key, FirstSlice)
                       /\ \A key \in 1 .. putKey - 1 : Written(key, listLen)
  /\ putPc = "add" => \A key \in Keys : Written(key, listLen)
  /\ putOp = "put_next_view" => putPc \notin {"write", "wrap"}
  /\ putOp = "put_next_view" /\ putPc \in {"load_read", "load_write"} =>
       \A key \in Keys : Written(key, listLen)

\* What the consumer has found out and copied so far.
GetInv ==
  /\ getPc = "load_read" => k >= 1 /\ getWrite <= writeCounter
  /\ getPc = "load_write" => k >= 1
  /\ getPc = "clear" => readCounter <= getWrite /\ getWrite <= writeCounter
  /\ getPc \in {"copy", "add", "return"} =>
       k >= 1 /\ getRead = readCounter /\ readCounter + k <= writeCounter
  /\ getPc = "copy" => \A key \in 1 .. getKey - 1 : out[key] = [i \in 1 .. k |-> readCounter + i]
  /\ getPc \in {"add", "return"} =>
       \A key \in Keys : out[key] = [i \in 1 .. k |-> readCounter + i]
  /\ getPc \notin {"copy", "add", "return"} => \A key \in Keys : out[key] = <<>>
  /\ getPc = "copy" => \A key \in getKey .. NumKeys : out[key] = <<>>

IInv == TypeOK /\ Counted /\ Held /\ PutInv /\ GetInv

\* The empty queue satisfies the invariant.
LEMMA InitIInv == Init => IInv
  <1> SUFFICES ASSUME Init PROVE IInv
    OBVIOUS
  <1> USE QueueAssumption DEF Init
  <1>1. TypeOK
    BY DEF TypeOK, Keys, Slots
  <1>2. Counted /\ Held /\ PutInv
    BY DEF Counted, Held, PutInv, Written
  <1>3. GetInv
    BY DEF GetInv, Keys
  <1>4. QED
    BY <1>1, <1>2, <1>3 DEF IInv

\* The producer's steps before it writes change nothing the others see.
LEMMA PutDecides ==
  ASSUME IInv, PutBegin \/ PutLoadRead \/ PutFull \/ PutLoadWrite
  PROVE  IInv'
  <1> USE QueueAssumption DEF IInv
  <1>1. UNCHANGED <<counters, arrays, consumer>>
    BY DEF PutBegin, PutLoadRead, PutFull, PutLoadWrite, counters
  <1>2. /\ putPc' \in {"idle", "load_read", "load_write", "write", "add"}
        /\ putOp' \in {"put_list", "get_next_view", "put_next_view"}
        /\ listLen' \in Nat /\ putRead' \in Nat /\ putWrite' \in Nat /\ putKey' \in Keys
    <2>1. CASE PutBegin
      BY <2>1 DEF PutBegin, TypeOK
    <2>2. CASE PutLoadRead
      BY <2>2 DEF PutLoadRead, TypeOK
    <2>3. CASE PutFull
      BY <2>3 DEF PutFull, TypeOK
    <2>4. CASE PutLoadWrite
      BY <2>4 DEF PutLoadWrite, TypeOK, Keys
    <2>5. QED
      BY <2>1, <2>2, <2>3, <2>4
  <1>3. TypeOK'
    BY <1>1, <1>2 DEF TypeOK, counters, consumer
  <1>4. Counted' /\ Held'
    BY <1>1 DEF Counted, Held, counters
  <1>5. GetInv'
    BY <1>1 DEF GetInv, counters, consumer
  <1>6. PutInv'
    <2>1. CASE PutBegin
      BY <2>1 DEF PutBegin, PutInv, counters, TypeOK
    <2>2. CASE PutLoadRead
      BY <2>2 DEF PutLoadRead, PutInv, Written, counters, TypeOK
    <2>3. CASE PutFull
      BY <2>3 DEF PutFull, PutInv, counters
    <2>4. CASE PutLoadWrite
      <3>1. writeCounter + listLen <= readCounter + BufferSize
        BY <2>4 DEF PutLoadWrite, PutInv, Fits, TypeOK
      <3>2. QED
        BY <3>1, <2>4 DEF PutLoadWrite, PutInv, Written, counters, TypeOK, Keys
    <2>5. QED
      BY <2>1, <2>2, <2>3, <2>4
  <1>7. QED
    BY <1>3, <1>4, <1>5, <1>6

\* What the producer is putting fits, and its slots are none of the items between the
\* counters.
LEMMA PutFits ==
  ASSUME IInv, putPc \in {"write", "wrap", "add"}
  PROVE  /\ putWrite = writeCounter /\ listLen \in 1 .. BufferSize
         /\ writeCounter \in Nat /\ readCounter \in Nat
         /\ NextIdx \in Slots
         /\ FirstSlice \in 0 .. listLen
         /\ \A j \in 0 .. listLen - 1 :
              /\ (writeCounter + j) % BufferSize =
                   IF j < FirstSlice THEN NextIdx + j ELSE j - FirstSlice
              /\ \A i \in readCounter .. writeCounter + j - 1 :
                   i % BufferSize # (writeCounter + j) % BufferSize
  <1> USE QueueAssumption
  <1>1. /\ putWrite = writeCounter /\ listLen \in Nat /\ listLen >= 1
        /\ writeCounter + listLen <= readCounter + BufferSize
        /\ writeCounter \in Nat /\ readCounter \in Nat /\ readCounter <= writeCounter
    BY DEF IInv, TypeOK, Counted, PutInv
  <1>2. listLen \in 1 .. BufferSize
    BY <1>1
  <1>3. NextIdx \in Slots
    BY <1>1, DivMod DEF NextIdx, Slots
  <1>4. FirstSlice \in 0 .. listLen
    BY <1>1, <1>2, <1>3 DEF FirstSlice, BeforeEnd, Lesser, Slots
  <1>5. ASSUME NEW j \in 0 .. listLen - 1
        PROVE  /\ (writeCounter + j) % BufferSize =
                    IF j < FirstSlice THEN NextIdx + j ELSE j - FirstSlice
               /\ \A i \in readCounter .. writeCounter + j - 1 :
                    i % BufferSize # (writeCounter + j) % BufferSize
    <2>1. (writeCounter + j) % BufferSize =
            IF j < FirstSlice THEN NextIdx + j ELSE j - FirstSlice
      <3>1. listLen \in 0 .. BufferSize
        BY <1>2
      <3>2. QED
        BY <1>1, <3>1, SlotsOfSlices DEF FirstSlice, NextIdx
    <2>2. ASSUME NEW i \in readCounter .. writeCounter + j - 1
          PROVE  i % BufferSize # (writeCounter + j) % BufferSize
      <3> DEFINE u == writeCounter + j
      <3>1. i \in Nat /\ u \in Nat /\ i < u /\ u - i < BufferSize
        BY <1>1
      <3> HIDE DEF u
      <3>2. i % BufferSize # u % BufferSize
        BY <3>1, SlotsDiffer
      <3>3. QED
        BY <3>2 DEF u
    <2>3. QED
      BY <2>1, <2>2
  <1>6. QED
    BY <1>1, <1>2, <1>3, <1>4, <1>5

\* Where the producer is after a key has been written.
LEMMA PutMoves ==
  ASSUME IInv, putPc \in {"write", "wrap"}, PutWrite \/ PutWrap
  PROVE  /\ UNCHANGED <<counters, listLen, putRead, putWrite, consumer>>
         /\ \/ putKey' = putKey + 1 /\ putKey < NumKeys /\ UNCHANGED <<putPc, putOp>>
            \/ /\ putKey' = 1 /\ putKey = NumKeys
               /\ \/ putPc = "write" /\ FirstSlice < listLen /\ putPc' = "wrap" /\ UNCHANGED putOp
                  \/ /\ putPc = "write" => FirstSlice = listLen
                     /\ \/ putOp = "put_list" /\ putPc' = "add" /\ UNCHANGED putOp
                        \/ putPc' = "load_read" /\ putOp' = "put_next_view"
         /\ TypeOK'
  <1> USE QueueAssumption
  <1>1. putKey \in 1 .. NumKeys /\ listLen \in 1 .. BufferSize /\ FirstSlice \in 0 .. listLen
        /\ putOp \in {"put_list", "get_next_view"} /\ writeCounter \in Nat
        /\ putWrite = writeCounter /\ NextIdx \in Slots
    BY PutFits DEF IInv, TypeOK, PutInv, Keys
  <1>2. UNCHANGED <<counters, listLen, putRead, putWrite, consumer>>
    BY DEF PutWrite, PutWrap
  <1>3. \/ putKey' = putKey + 1 /\ putKey < NumKeys /\ UNCHANGED <<putPc, putOp>>
        \/ /\ putKey' = 1 /\ putKey = NumKeys
           /\ \/ putPc = "write" /\ FirstSlice < listLen /\ putPc' = "wrap" /\ UNCHANGED putOp
              \/ /\ putPc = "write" => FirstSlice = listLen
                 /\ \/ putOp = "put_list" /\ putPc' = "add" /\ UNCHANGED putOp
                    \/ putPc' = "load_read" /\ putOp' = "put_next_view"
    <2> HIDE DEF FirstSlice
    <2>1. CASE PutWrite
      BY <2>1, <1>1 DEF PutWrite, AllWritten, NextPutKey
    <2>2. CASE PutWrap
      BY <2>2, <1>1 DEF PutWrap, AllWritten, NextPutKey
    <2>3. QED
      BY <2>1, <2>2
  <1>4. arrays' \in [Keys -> [Slots -> Nat]]
    <2> HIDE DEF FirstSlice, NextIdx
    <2>0. arrays \in [Keys -> [Slots -> Nat]]
      BY DEF IInv, TypeOK
    <2>1. CASE PutWrite
      <3>1. ASSUME NEW s \in Slots, s \in NextIdx .. NextIdx + FirstSlice - 1
            PROVE  putWrite + 1 + s - NextIdx \in Nat
        BY <3>1, <1>1 DEF Slots
      <3>2. QED
        BY <2>0, <2>1, <3>1 DEF PutWrite
    <2>2. CASE PutWrap
      <3>1. ASSUME NEW s \in Slots
            PROVE  putWrite + 1 + FirstSlice + s \in Nat
        BY <3>1, <1>1 DEF Slots
      <3>2. QED
        BY <2>0, <2>2, <3>1 DEF PutWrap
    <2>3. QED
      BY <2>1, <2>2
  <1>5. /\ putPc' \in {"load_read", "write", "wrap", "add"}
        /\ putOp' \in {"put_list", "get_next_view", "put_next_view"}
        /\ putKey' \in Keys
    BY <1>1, <1>3 DEF Keys
  <1>6. TypeOK'
    BY <1>2, <1>4, <1>5 DEF IInv, TypeOK, counters, consumer
  <1>7. QED
    BY <1>2, <1>3, <1>6

\* Writing the slots up to the end of the buffer.
LEMMA PutWrites ==
  ASSUME IInv, PutWrite PROVE IInv'
  <1> USE QueueAssumption
  <1>1. putPc = "write" /\ putKey \in 1 .. NumKeys /\ arrays \in [Keys -> [Slots -> Nat]]
    BY DEF PutWrite, IInv, TypeOK, Keys
  <1>2. /\ putWrite = writeCounter /\ listLen \in 1 .. BufferSize
        /\ writeCounter \in Nat /\ readCounter \in Nat
        /\ NextIdx \in Slots
        /\ FirstSlice \in 0 .. listLen
    BY <1>1, PutFits
  <1>3. ASSUME NEW j \in 0 .. listLen - 1
        PROVE  /\ j < FirstSlice => (writeCounter + j) % BufferSize = NextIdx + j
               /\ \A i \in readCounter .. writeCounter + j - 1 :
                    i % BufferSize # (writeCounter + j) % BufferSize
    BY <1>1, PutFits
  <1>4. UNCHANGED <<counters, listLen, putRead, putWrite, consumer>> /\ TypeOK'
    BY <1>1, PutMoves
  <1>5. UNCHANGED <<writeCounter, readCounter, NextIdx, FirstSlice>>
    BY <1>4 DEF counters, NextIdx, FirstSlice
  <1>6. \A key \in Keys : key # putKey => arrays'[key] = arrays[key]
    BY <1>1 DEF PutWrite
  <1>7. \A s \in Slots : arrays'[putKey][s] =
           IF s \in NextIdx .. NextIdx + FirstSlice - 1
           THEN writeCounter + 1 + s - NextIdx ELSE arrays[putKey][s]
    BY <1>1, <1>2 DEF PutWrite, Keys
  <1> HIDE DEF NextIdx, FirstSlice
  <1>8. Held'
    <2> SUFFICES ASSUME NEW key \in Keys, NEW i \in readCounter .. writeCounter - 1
                 PROVE  arrays'[key][i % BufferSize] = i + 1
      BY <1>5 DEF Held
    <2>1. arrays[key][i % BufferSize] = i + 1
      BY DEF IInv, Held
    <2>2. CASE key # putKey
      BY <2>1, <2>2, <1>6
    <2>3. CASE key = putKey
      <3>1. i \in Nat /\ i % BufferSize \in Slots
        BY <1>2, DivMod DEF Slots
      <3>2. ASSUME i % BufferSize \in NextIdx .. NextIdx + FirstSlice - 1 PROVE FALSE
        <4> DEFINE j == (i % BufferSize) - NextIdx
        <4>1. j \in 0 .. FirstSlice - 1 /\ NextIdx + j = i % BufferSize
          BY <3>1, <3>2, <1>2 DEF Slots
        <4> HIDE DEF j
        <4>2. (writeCounter + j) % BufferSize = i % BufferSize
          BY <4>1, <1>2, <1>3
        <4>3. i \in readCounter .. writeCounter + j - 1
          BY <4>1, <1>2
        <4>4. j \in 0 .. listLen - 1
          BY <4>1, <1>2
        <4>5. i % BufferSize # (writeCounter + j) % BufferSize
          BY <4>3, <4>4, <1>3
        <4>6. QED
          BY <4>2, <4>5
      <3>3. QED
        BY <3>1, <3>2, <1>7, <2>1, <2>3
    <2>4. QED
      BY <2>2, <2>3
  <1>9. ASSUME NEW j \in 0 .. FirstSlice - 1
        PROVE  arrays'[putKey][(writeCounter + j) % BufferSize] = writeCounter + 1 + j
    <2>1. (writeCounter + j) % BufferSize = NextIdx + j /\ j \in Nat /\ j < FirstSlice
      BY <1>2, <1>3
    <2>2. (writeCounter + j) % BufferSize \in Slots
      BY <2>1, <1>2, DivMod DEF Slots
    <2>3. QED
      BY <2>1, <2>2, <1>2, <1>7 DEF Slots
  <1>10. PutInv'
    <2>1. \A key \in 1 .. putKey : \A j \in 0 .. FirstSlice - 1 :
            arrays'[key][(writeCounter + j) % BufferSize] = writeCounter + 1 + j
      BY <1>1, <1>6, <1>9 DEF IInv, PutInv, Written, Keys
    <2>2. \/ putKey' = putKey + 1 /\ putKey < NumKeys /\ UNCHANGED <<putPc, putOp>>
          \/ /\ putKey' = 1 /\ putKey = NumKeys
             /\ \/ FirstSlice < listLen /\ putPc' = "wrap" /\ UNCHANGED putOp
                \/ /\ FirstSlice = listLen
                   /\ \/ putOp = "put_list" /\ putPc' = "add" /\ UNCHANGED putOp
                      \/ putPc' = "load_read" /\ putOp' = "put_next_view"
      BY <1>1, PutMoves
    <2>3. /\ listLen' = listLen /\ putWrite' = writeCounter' /\ listLen >= 1
          /\ writeCounter' + listLen' <= readCounter' + BufferSize
          /\ putOp # "put_next_view"
      BY <1>1, <1>2, <1>4, <1>5 DEF IInv, PutInv
    <2>4. CASE putKey' = putKey + 1 /\ UNCHANGED <<putPc, putOp>>
      BY <2>1, <2>3, <2>4, <1>1, <1>5 DEF PutInv, Written
    <2>5. CASE putKey' = 1 /\ putKey = NumKeys /\ putPc' = "wrap" /\ UNCHANGED putOp
      BY <2>1, <2>3, <2>5, <1>1, <1>5 DEF PutInv, Written, Keys
    <2>6. CASE /\ putKey = NumKeys /\ FirstSlice = listLen
               /\ \/ putOp = "put_list" /\ putPc' = "add" /\ UNCHANGED putOp
                  \/ putPc' = "load_read" /\ putOp' = "put_next_view"
      BY <2>1, <2>3, <2>6, <1>1, <1>5 DEF PutInv, Written, Keys
    <2>7. QED
      BY <2>2, <2>4, <2>5, <2>6
  <1>11. Counted' /\ GetInv'
    BY <1>4 DEF IInv, Counted, GetInv, counters, consumer
  <1>12. QED
    BY <1>4, <1>8, <1>10, <1>11 DEF IInv

\* Writing the remainder from the start of the buffer.
LEMMA PutWraps ==
  ASSUME IInv, PutWrap PROVE IInv'
  <1> USE QueueAssumption
  <1>1. putPc = "wrap" /\ putKey \in 1 .. NumKeys /\ arrays \in [Keys -> [Slots -> Nat]]
    BY DEF PutWrap, IInv, TypeOK, Keys
  <1>2. /\ putWrite = writeCounter /\ listLen \in 1 .. BufferSize
        /\ writeCounter \in Nat /\ readCounter \in Nat
        /\ FirstSlice \in 0 .. listLen
    BY <1>1, PutFits
  <1>3. ASSUME NEW j \in 0 .. listLen - 1
        PROVE  /\ j >= FirstSlice => (writeCounter + j) % BufferSize = j - FirstSlice
               /\ (writeCounter + j) % BufferSize \in Slots
               /\ \A i \in readCounter .. writeCounter + j - 1 :
                    i % BufferSize # (writeCounter + j) % BufferSize
    <2>1. (writeCounter + j) % BufferSize \in Slots
      BY <1>2, DivMod DEF Slots
    <2>2. /\ (writeCounter + j) % BufferSize =
               IF j < FirstSlice THEN NextIdx + j ELSE j - FirstSlice
          /\ \A i \in readCounter .. writeCounter + j - 1 :
               i % BufferSize # (writeCounter + j) % BufferSize
      BY <1>1, PutFits
    <2> HIDE DEF FirstSlice, NextIdx
    <2>3. QED
      BY <2>1, <2>2, <1>2
  <1>4. UNCHANGED <<counters, listLen, putRead, putWrite, consumer>> /\ TypeOK'
    BY <1>1, PutMoves
  <1>5. UNCHANGED <<writeCounter, readCounter, FirstSlice>>
    BY <1>4 DEF counters, NextIdx, FirstSlice
  <1>6. \A key \in Keys : key # putKey => arrays'[key] = arrays[key]
    BY <1>1 DEF PutWrap
  <1>7. \A s \in Slots : arrays'[putKey][s] =
           IF s < listLen - FirstSlice
           THEN writeCounter + 1 + FirstSlice + s ELSE arrays[putKey][s]
    BY <1>1, <1>2 DEF PutWrap, Keys
  <1> HIDE DEF FirstSlice
  \* A slot that is written is none of an item before the first one that is wrapped.
  <1>8. ASSUME NEW i \in readCounter .. writeCounter + FirstSlice - 1
        PROVE  arrays'[putKey][i % BufferSize] = arrays[putKey][i % BufferSize]
    <2>1. i \in Nat /\ i % BufferSize \in Slots
      BY <1>2, DivMod DEF Slots
    <2>2. ASSUME i % BufferSize < listLen - FirstSlice PROVE FALSE
      <3> DEFINE j == (i % BufferSize) + FirstSlice
      <3>1. j \in FirstSlice .. listLen - 1 /\ j - FirstSlice = i % BufferSize
        BY <2>1, <2>2, <1>2 DEF Slots
      <3> HIDE DEF j
      <3>2. j \in 0 .. listLen - 1 /\ i \in readCounter .. writeCounter + j - 1
        BY <3>1, <1>2
      <3>3. (writeCounter + j) % BufferSize = i % BufferSize
        BY <3>1, <3>2, <1>2, <1>3
      <3>4. i % BufferSize # (writeCounter + j) % BufferSize
        BY <3>2, <1>3
      <3>5. QED
        BY <3>3, <3>4
    <2>3. QED
      BY <2>1, <2>2, <1>7
  <1>9. Held'
    <2> SUFFICES ASSUME NEW key \in Keys, NEW i \in readCounter .. writeCounter - 1
                 PROVE  arrays'[key][i % BufferSize] = i + 1
      BY <1>5 DEF Held
    <2>1. arrays[key][i % BufferSize] = i + 1
      BY DEF IInv, Held
    <2>2. i \in readCounter .. writeCounter + FirstSlice - 1
      BY <1>2
    <2>3. QED
      BY <2>1, <2>2, <1>6, <1>8
  <1>10. ASSUME NEW j \in 0 .. listLen - 1
         PROVE  arrays'[putKey][(writeCounter + j) % BufferSize] = writeCounter + 1 + j
    <2>1. CASE j < FirstSlice
      <3>1. writeCounter + j \in readCounter .. writeCounter + FirstSlice - 1
            /\ j \in 0 .. FirstSlice - 1
        BY <2>1, <1>2 DEF IInv, Counted
      <3>2. arrays[putKey][(writeCounter + j) % BufferSize] = writeCounter + 1 + j
        BY <3>1, <1>1 DEF IInv, PutInv, Written, Keys
      <3>3. QED
        BY <3>1, <3>2, <1>8
    <2>2. CASE j >= FirstSlice
      <3>1. (writeCounter + j) % BufferSize = j - FirstSlice /\ j - FirstSlice \in Slots
        BY <2>2, <1>3
      <3>2. QED
        BY <3>1, <1>2, <1>7 DEF Slots
    <2>3. QED
      BY <2>1, <2>2, <1>2
  <1>11. PutInv'
    <2>1. \A key \in 1 .. putKey : \A j \in 0 .. listLen - 1 :
            arrays'[key][(writeCounter + j) % BufferSize] = writeCounter + 1 + j
      BY <1>1, <1>6, <1>10 DEF IInv, PutInv, Written, Keys
    <2>2. \A key \in Keys : \A j \in 0 .. FirstSlice - 1 :
            arrays'[key][(writeCounter + j) % BufferSize] = writeCounter + 1 + j
      <3>1. \A j \in 0 .. FirstSlice - 1 : j \in 0 .. listLen - 1
        BY <1>2
      <3>2. QED
        BY <3>1, <1>1, <1>6, <1>10 DEF IInv, PutInv, Written
    <2>3. \/ putKey' = putKey + 1 /\ putKey < NumKeys /\ UNCHANGED <<putPc, putOp>>
          \/ /\ putKey' = 1 /\ putKey = NumKeys
             /\ \/ putOp = "put_list" /\ putPc' = "add" /\ UNCHANGED putOp
                \/ putPc' = "load_read" /\ putOp' = "put_next_view"
      BY <1>1, PutMoves
    <2>4. /\ listLen' = listLen /\ putWrite' = writeCounter' /\ listLen >= 1
          /\ writeCounter' + listLen' <= readCounter' + BufferSize
          /\ putOp # "put_next_view"
      BY <1>1, <1>2, <1>4, <1>5 DEF IInv, PutInv
    <2>5. CASE putKey' = putKey + 1 /\ UNCHANGED <<putPc, putOp>>
      BY <2>1, <2>2, <2>4, <2>5, <1>1, <1>5 DEF PutInv, Written
    <2>6. CASE /\ putKey = NumKeys
               /\ \/ putOp = "put_list" /\ putPc' = "add" /\ UNCHANGED putOp
                  \/ putPc' = "load_read" /\ putOp' = "put_next_view"
      BY <2>1, <2>4, <2>6, <1>1, <1>5 DEF PutInv, Written, Keys
    <2>7. QED
      BY <2>3, <2>5, <2>6
  <1>12. Counted' /\ GetInv'
    BY <1>4 DEF IInv, Counted, GetInv, counters, consumer
  <1>13. QED
    BY <1>4, <1>9, <1>11, <1>12 DEF IInv

\* A put that raises has not moved the counter, and its items do not count.
LEMMA PutRaises ==
  ASSUME IInv, PutRaise PROVE IInv'
  BY DEF IInv, TypeOK, Counted, Held, PutInv, GetInv, Written, PutRaise,
         counters, consumer

\* The items become visible, all of them written.
LEMMA PutAdds ==
  ASSUME IInv, PutAdd PROVE IInv'
  <1> USE QueueAssumption
  <1>1. /\ writeCounter' = writeCounter + listLen /\ listLen >= 1 /\ listLen \in Nat
        /\ writeCounter \in Nat /\ readCounter \in Nat
        /\ writeCounter + listLen <= readCounter + BufferSize
        /\ \A key \in Keys : Written(key, listLen)
    BY DEF IInv, TypeOK, PutInv, PutAdd
  <1>2. /\ UNCHANGED <<readCounter, arrays, putOp, listLen, putRead, putWrite, putKey, consumer>>
        /\ putPc' = "idle"
    BY DEF PutAdd
  <1>3. TypeOK' /\ Counted'
    BY <1>1, <1>2 DEF IInv, TypeOK, Counted, consumer
  <1>4. Held'
    <2>0. UNCHANGED <<readCounter, arrays>>
      BY <1>2
    <2> SUFFICES ASSUME NEW key \in Keys, NEW i \in readCounter .. writeCounter + listLen - 1
                 PROVE  arrays[key][i % BufferSize] = i + 1
      BY <1>1, <2>0 DEF Held
    <2>1. CASE i < writeCounter
      <3>1. i \in readCounter .. writeCounter - 1
        BY <1>1, <2>1
      <3>2. QED
        BY <3>1 DEF IInv, Held
    <2>2. CASE i >= writeCounter
      <3> DEFINE j == i - writeCounter
      <3>1. j \in 0 .. listLen - 1 /\ writeCounter + j = i /\ writeCounter + 1 + j = i + 1
        BY <1>1, <2>2
      <3> HIDE DEF j
      <3>2. arrays[key][(writeCounter + j) % BufferSize] = writeCounter + 1 + j
        BY <1>1, <3>1 DEF Written
      <3>3. QED
        BY <3>1, <3>2
    <2>3. QED
      BY <1>1, <2>1, <2>2
  <1>5. PutInv'
    BY <1>2 DEF PutInv
  <1>6. GetInv'
    <2>1. getWrite \in Nat /\ k \in Nat
      BY DEF IInv, TypeOK
    <2>2. QED
      BY <1>1, <1>2, <2>1 DEF IInv, GetInv, consumer
  <1>7. QED
    BY <1>3, <1>4, <1>5, <1>6 DEF IInv

-----------------------------------------------------------------------------
(* The steps of the consumer. *)

\* What the consumer leaves alone.
LEMMA GetSpares ==
  ASSUME IInv, UNCHANGED <<writeCounter, arrays, producer>>,
         readCounter' \in readCounter .. writeCounter
  PROVE  Counted' /\ Held' /\ PutInv'
  <1> USE QueueAssumption
  <1>1. /\ writeCounter \in Nat /\ readCounter \in Nat /\ putRead \in Nat
        /\ writeCounter' = writeCounter /\ readCounter' \in Nat
        /\ readCounter <= readCounter' /\ readCounter' <= writeCounter
        /\ BufferSize \in Int /\ readCounter <= writeCounter
        /\ writeCounter - BufferSize <= readCounter
    BY DEF IInv, TypeOK, Counted
  <1>2. Counted'
    <2>1. PICK r \in Int : r = readCounter'
      BY <1>1
    <2>2. writeCounter - BufferSize <= r /\ r <= writeCounter
      BY ONLY <1>1, <2>1
    <2>3. writeCounter <= r + BufferSize
      BY ONLY <2>2, <1>1, r \in Int
    <2>4. QED
      BY <1>1, <2>1, <2>2, <2>3 DEF Counted
  <1>3. Held'
    <2>1. ASSUME NEW i \in readCounter' .. writeCounter - 1
          PROVE  i \in readCounter .. writeCounter - 1
      BY <1>1
    <2>2. QED
      BY <2>1, <1>1 DEF IInv, Held
  <1>4. PutInv'
    <2> DEFINE first == FirstSlice
    <2>1. UNCHANGED <<putPc, putOp, listLen, putRead, putWrite, putKey, first>>
      BY DEF FirstSlice, NextIdx, producer
    <2> HIDE DEF first
    <2>2. /\ putPc # "idle" => listLen >= 1
          /\ putPc = "load_write" => putRead <= readCounter
          /\ putPc \in {"write", "wrap", "add"} =>
               putWrite = writeCounter /\ writeCounter + listLen <= readCounter + BufferSize
          /\ putPc = "write" => \A key \in 1 .. putKey - 1 : Written(key, first)
          /\ putPc = "wrap" => /\ \A key \in Keys : Written(key, first)
                               /\ \A key \in 1 .. putKey - 1 : Written(key, listLen)
          /\ putPc = "add" => \A key \in Keys : Written(key, listLen)
          /\ putOp = "put_next_view" => putPc \notin {"write", "wrap"}
          /\ putOp = "put_next_view" /\ putPc \in {"load_read", "load_write"} =>
               \A key \in Keys : Written(key, listLen)
      BY DEF IInv, PutInv, first
    <2>3. ASSUME NEW key, NEW n PROVE Written(key, n)' = Written(key, n)
      BY <1>1 DEF Written
    <2>4. /\ putPc = "load_write" => putRead <= readCounter'
          /\ putPc \in {"write", "wrap", "add"} =>
               putWrite = writeCounter /\ writeCounter + listLen <= readCounter' + BufferSize
      <3>1. listLen \in Nat
        BY DEF IInv, TypeOK
      <3>2. ASSUME writeCounter + listLen <= readCounter + BufferSize
            PROVE  writeCounter + listLen <= readCounter' + BufferSize
        <4>1. writeCounter + listLen - BufferSize <= readCounter
          BY ONLY <1>1, <3>1, <3>2
        <4>2. PICK r \in Int : r = readCounter'
          BY <1>1
        <4>3. writeCounter + listLen - BufferSize <= r
          BY ONLY <1>1, <3>1, <4>1, <4>2
        <4>4. writeCounter + listLen <= r + BufferSize
          BY ONLY <4>3, <1>1, <3>1, r \in Int
        <4>5. QED
          BY <4>2, <4>4
      <3>3. putRead <= readCounter => putRead <= readCounter'
        BY <1>1
      <3>4. QED
        BY <2>2, <3>2, <3>3
    <2>5. PutInv' = ( /\ putPc # "idle" => listLen >= 1
                      /\ putPc = "load_write" => putRead <= readCounter'
                      /\ putPc \in {"write", "wrap", "add"} =>
                           putWrite = writeCounter /\ writeCounter + listLen <= readCounter' + BufferSize
                      /\ putPc = "write" => \A key \in 1 .. putKey - 1 : Written(key, first)
                      /\ putPc = "wrap" => /\ \A key \in Keys : Written(key, first)
                                           /\ \A key \in 1 .. putKey - 1 : Written(key, listLen)
                      /\ putPc = "add" => \A key \in Keys : Written(key, listLen)
                      /\ putOp = "put_next_view" => putPc \notin {"write", "wrap"}
                      /\ putOp = "put_next_view" /\ putPc \in {"load_read", "load_write"} =>
                           \A key \in Keys : Written(key, listLen) )
      BY <2>1, <2>3, <1>1 DEF PutInv, first
    <2>6. QED
      BY <2>2, <2>4, <2>5
  <1>5. QED
    BY <1>2, <1>3, <1>4

\* The consumer's steps before it copies.
LEMMA GetDecides ==
  ASSUME IInv, GetBegin \/ GetLoadWrite \/ GetRefused \/ GetLoadRead \/ ClearLoad
  PROVE  IInv'
  <1> USE QueueAssumption
  <1>1. /\ UNCHANGED <<counters, arrays, producer>> /\ UNCHANGED <<out, got>>
    BY DEF GetBegin, GetLoadWrite, GetRefused, GetLoadRead, ClearLoad
  <1>2. /\ writeCounter \in Nat /\ readCounter \in Nat /\ k \in Nat /\ getWrite \in Nat
        /\ getRead \in Nat /\ readCounter <= writeCounter
    BY DEF IInv, TypeOK, Counted
  <1>3. Counted' /\ Held' /\ PutInv'
    BY <1>1, <1>2, GetSpares DEF counters
  <1>4. /\ getPc' \in {"idle", "load_write", "load_read", "copy", "clear"}
        /\ getOp' \in {"get_k", "get_all", "peek_all", "get_view"}
        /\ k' \in Nat /\ getWrite' \in Nat /\ getRead' \in Nat /\ getKey' \in Keys
        /\ \A key \in Keys : out[key] = <<>>
        /\ getPc' = "load_write" => k' >= 1
        /\ getPc' = "load_read" => k' >= 1 /\ getWrite' <= writeCounter
        /\ getPc' = "clear" => readCounter <= getWrite' /\ getWrite' <= writeCounter
        /\ getPc' = "copy" => k' >= 1 /\ getRead' = readCounter /\ getKey' = 1
                              /\ readCounter + k' <= writeCounter
    <2>1. CASE GetBegin
      BY <2>1, <1>2 DEF GetBegin, IInv, TypeOK, GetInv
    <2>2. CASE GetLoadWrite
      BY <2>2, <1>2 DEF GetLoadWrite, IInv, TypeOK, GetInv
    <2>3. CASE GetRefused
      BY <2>3, <1>2 DEF GetRefused, IInv, TypeOK, GetInv
    <2>4. CASE GetLoadRead
      BY <2>4, <1>2 DEF GetLoadRead, NData, IInv, TypeOK, GetInv, Keys
    <2>5. CASE ClearLoad
      BY <2>5, <1>2 DEF ClearLoad, IInv, TypeOK, GetInv
    <2>6. QED
      BY <2>1, <2>2, <2>3, <2>4, <2>5
  <1>5. TypeOK'
    BY <1>1, <1>4 DEF IInv, TypeOK, counters, producer
  <1>6. GetInv'
    <2>1. UNCHANGED <<writeCounter, readCounter, out>>
      BY <1>1 DEF counters
    <2>2. CASE getPc' = "copy"
      BY <2>1, <2>2, <1>4 DEF GetInv, Keys
    <2>3. CASE getPc' # "copy"
      BY <2>1, <2>3, <1>4 DEF GetInv
    <2>4. QED
      BY <2>2, <2>3
  <1>7. QED
    BY <1>3, <1>5, <1>6 DEF IInv

\* The copy of a key is the oldest items, in order, around the end of the buffer too.
LEMMA CopyIsOldest ==
  ASSUME IInv, getPc = "copy"
  PROVE  Slices(arrays[getKey]) = [i \in 1 .. k |-> readCounter + i]
  <1> USE QueueAssumption
  <1> DEFINE start == readCounter % BufferSize
             first == BeforeEnd(start, k)
  <1>1. /\ getRead = readCounter /\ k \in 1 .. BufferSize /\ readCounter \in Nat
        /\ readCounter + k <= writeCounter /\ writeCounter \in Nat /\ getKey \in Keys
    BY DEF IInv, TypeOK, Counted, GetInv
  <1>2. Slices(arrays[getKey]) =
          [i \in 1 .. k |-> IF i <= first THEN arrays[getKey][start + i - 1]
                                          ELSE arrays[getKey][i - first - 1]]
    BY <1>1 DEF Slices
  <1>3. ASSUME NEW i \in 1 .. k
        PROVE  (IF i <= first THEN arrays[getKey][start + i - 1]
                              ELSE arrays[getKey][i - first - 1]) = readCounter + i
    <2> DEFINE j == i - 1
               c == readCounter + j
    <2>1. k \in 0 .. BufferSize /\ j \in 0 .. k - 1 /\ c \in readCounter .. writeCounter - 1
      BY <1>1
    <2>2. /\ first \in 0 .. k
          /\ (readCounter + j) % BufferSize = IF j < first THEN start + j ELSE j - first
      <3> HIDE DEF j
      <3>1. QED
        BY <1>1, <2>1, SlotsOfSlices
    <2>3. arrays[getKey][c % BufferSize] = c + 1
      <3> HIDE DEF c
      <3>1. QED
        BY <1>1, <2>1 DEF IInv, Held
    <2>4. start \in Int
      BY <1>1, DivMod
    <2> HIDE DEF first, start
    <2>5. CASE i <= first
      <3>1. c % BufferSize = start + i - 1
        BY <2>1, <2>2, <2>4, <2>5
      <3>2. QED
        BY <3>1, <2>3, <2>5, <1>1
    <2>6. CASE ~(i <= first)
      <3>1. c % BufferSize = i - first - 1
        BY <2>1, <2>2, <2>4, <2>6
      <3>2. QED
        BY <3>1, <2>3, <2>6, <1>1
    <2>7. QED
      BY <2>5, <2>6
  <1> HIDE DEF first, start
  <1>4. QED
    BY <1>2, <1>3

\* The consumer copies the oldest items, which the producer leaves alone.
LEMMA GetCopies ==
  ASSUME IInv, GetCopy PROVE IInv'
  <1> USE QueueAssumption
  <1> DEFINE copy == [i \in 1 .. k |-> readCounter + i]
  <1>1. /\ getPc = "copy" /\ UNCHANGED <<counters, arrays, getOp, k, getWrite, getRead, got, producer>>
        /\ out' = [out EXCEPT ![getKey] = copy]
    BY CopyIsOldest DEF GetCopy
  <1>2. /\ readCounter \in Nat /\ writeCounter \in Nat /\ k \in Nat /\ getKey \in 1 .. NumKeys
        /\ out \in [Keys -> Seq(Nat)] /\ readCounter <= writeCounter
        /\ \A key \in 1 .. getKey - 1 : out[key] = copy
        /\ \A key \in getKey .. NumKeys : out[key] = <<>>
        /\ k >= 1 /\ getRead = readCounter /\ readCounter + k <= writeCounter
    BY <1>1 DEF IInv, TypeOK, Counted, GetInv, Keys
  <1>3. Counted' /\ Held' /\ PutInv'
    BY <1>1, <1>2, GetSpares DEF counters
  <1>4. copy \in Seq(Nat) /\ Len(copy) = k
    BY <1>2
  <1> HIDE DEF copy
  <1>5. \/ getKey < NumKeys /\ getKey' = getKey + 1 /\ getPc' = getPc
        \/ getKey = NumKeys /\ getKey' = 1 /\ getPc' \in {"return", "add"}
    BY <1>2 DEF GetCopy
  <1>6. TypeOK'
    <2>1. out' \in [Keys -> Seq(Nat)] /\ \A key \in Keys : Len(out'[key]) \in {0, k}
      BY <1>1, <1>2, <1>4 DEF IInv, TypeOK, Keys
    <2>2. getKey' \in Keys /\ getPc' \in {"copy", "return", "add"}
      BY <1>1, <1>2, <1>5, QueueAssumption DEF Keys
    <2>3. UNCHANGED <<writeCounter, readCounter, arrays, getOp, k, getWrite, getRead, got,
                      putPc, putOp, listLen, putRead, putWrite, putKey>>
      BY <1>1 DEF counters, producer
    <2>4. QED
      BY <2>1, <2>2, <2>3 DEF IInv, TypeOK
  <1>7. GetInv'
    <2>1. \A key \in 1 .. getKey : out'[key] = copy
      BY <1>1, <1>2 DEF Keys
    <2>2. \A key \in getKey + 1 .. NumKeys : out'[key] = <<>>
      BY <1>1, <1>2 DEF Keys
    <2>3. copy = [i \in 1 .. k' |-> readCounter' + i]
      BY <1>1 DEF copy, counters
    <2>4. UNCHANGED <<readCounter, writeCounter>>
      BY <1>1 DEF counters
    <2>5. CASE getKey < NumKeys /\ getKey' = getKey + 1 /\ getPc' = getPc
      BY <2>1, <2>2, <2>3, <2>4, <2>5, <1>1, <1>2 DEF GetInv
    <2>6. CASE getKey = NumKeys /\ getKey' = 1 /\ getPc' \in {"return", "add"}
      BY <2>1, <2>3, <2>4, <2>6, <1>1, <1>2 DEF GetInv, Keys
    <2>7. QED
      BY <2>5, <2>6, <1>5
  <1>8. QED
    BY <1>3, <1>6, <1>7 DEF IInv

\* What a call returns are the oldest items, whole.
LEMMA CopiedIsOldest ==
  ASSUME IInv, getPc \in {"add", "return"}
  PROVE  /\ Copied = [i \in 1 .. k |-> [key \in Keys |-> readCounter + i]]
         /\ k \in 1 .. BufferSize /\ readCounter + k <= writeCounter
  <1>1. /\ \A key \in Keys : out[key] = [i \in 1 .. k |-> readCounter + i]
        /\ k \in 1 .. BufferSize /\ readCounter + k <= writeCounter
    BY QueueAssumption DEF IInv, TypeOK, Counted, GetInv
  <1>2. QED
    BY <1>1 DEF Copied

\* The end of a call.
LEMMA GetEnds ==
  ASSUME IInv, GetAdd \/ PeekReturn \/ GetRaise \/ ViewRaise \/ ClearStore
  PROVE  IInv'
  <1> USE QueueAssumption
  <1>1. /\ UNCHANGED <<writeCounter, arrays, getOp, producer>> /\ GetEnd
    BY DEF GetAdd, PeekReturn, GetRaise, ViewRaise, ClearStore, counters
  <1>2. /\ writeCounter \in Nat /\ readCounter \in Nat /\ k \in Nat /\ getWrite \in Nat
        /\ readCounter <= writeCounter /\ got \in Seq([Keys -> Nat])
    BY DEF IInv, TypeOK, Counted
  <1>3. readCounter' \in readCounter .. writeCounter
    <2>1. CASE GetAdd \/ ViewRaise
      BY <2>1, <1>2 DEF GetAdd, ViewRaise, IInv, GetInv
    <2>2. CASE PeekReturn \/ GetRaise
      BY <2>2, <1>2 DEF PeekReturn, GetRaise, counters
    <2>3. CASE ClearStore
      BY <2>3, <1>2 DEF ClearStore, IInv, GetInv
    <2>4. QED
      BY <2>1, <2>2, <2>3
  <1>4. Counted' /\ Held' /\ PutInv'
    BY <1>1, <1>3, GetSpares
  <1>5. got' \in Seq([Keys -> Nat])
    <2>1. CASE GetAdd \/ PeekReturn
      <3>1. getPc \in {"add", "return"} /\ got' = Copied
        BY <2>1 DEF GetAdd, PeekReturn
      <3>2. got' = [i \in 1 .. k |-> [key \in Keys |-> readCounter + i]]
        BY <3>1, CopiedIsOldest
      <3>3. QED
        BY <3>2, <1>2
    <2>2. CASE GetRaise \/ ViewRaise \/ ClearStore
      BY <2>2, <1>2 DEF GetRaise, ViewRaise, ClearStore
    <2>3. QED
      BY <2>1, <2>2
  <1>6. TypeOK'
    BY <1>1, <1>2, <1>3, <1>5 DEF IInv, TypeOK, GetEnd, producer, Keys
  <1>7. GetInv'
    BY <1>1 DEF GetEnd, GetInv
  <1>8. QED
    BY <1>4, <1>6, <1>7 DEF IInv

\* Nothing changes.
LEMMA Stutter == IInv /\ UNCHANGED vars => IInv'
  <1> SUFFICES ASSUME IInv, UNCHANGED vars PROVE IInv'
    OBVIOUS
  <1>1. UNCHANGED <<writeCounter, readCounter, arrays, producer, consumer>>
    BY DEF vars, counters
  <1>2. Counted' /\ Held' /\ PutInv'
    BY <1>1, GetSpares DEF IInv, TypeOK, Counted
  <1>3. TypeOK' /\ GetInv'
    BY <1>1 DEF IInv, TypeOK, GetInv, producer, consumer
  <1>4. QED
    BY <1>2, <1>3 DEF IInv

\* Every step keeps the invariant.
LEMMA StepIInv == IInv /\ [Next]_vars => IInv'
  BY PutDecides, PutWrites, PutWraps, PutRaises, PutAdds,
     GetDecides, GetCopies, GetEnds, Stutter DEF Next, Put, Get

\* So it holds always.
THEOREM Invariance == Spec => []IInv
  BY InitIInv, StepIInv, PTL DEF Spec

-----------------------------------------------------------------------------
(* The properties of the runs. *)

\* Every variable has its type, for every size of the buffer, any number of arrays per
\* item and any number of puts: a copy has the length asked for.
THEOREM TypeCorrect == Spec => []TypeOK
  <1>1. IInv => TypeOK
    BY DEF IInv
  <1>2. QED
    BY <1>1, Invariance, PTL

\* The producer never writes a slot whose item is still to be taken, although the read
\* counter it decides on is out of date.
THEOREM Disjoint == Spec => []WritesAvoidReads
  <1>1. IInv => WritesAvoidReads
    <2> SUFFICES ASSUME IInv, putPc \in {"write", "wrap", "add"},
                        NEW j \in 0 .. listLen - 1,
                        NEW l \in 0 .. (writeCounter - readCounter) - 1
                 PROVE  (putWrite + j) % BufferSize # (readCounter + l) % BufferSize
      BY DEF WritesAvoidReads, SlotsOf
    <2> DEFINE i == readCounter + l
    <2>1. i \in readCounter .. writeCounter + j - 1 /\ putWrite = writeCounter
      BY PutFits
    <2> HIDE DEF i
    <2>2. i % BufferSize # (writeCounter + j) % BufferSize
      BY <2>1, PutFits
    <2>3. QED
      BY <2>1, <2>2 DEF i
  <1>2. QED
    BY <1>1, Invariance, PTL

-----------------------------------------------------------------------------
(* The refinement of BoundedFifo. *)

\* Sequences of successive items, put together and cut.
LEMMA ItemsJoin ==
  ASSUME NEW m \in Nat, NEW a \in Nat, NEW b \in Nat
  PROVE  Fifo!Items(m, a) \o Fifo!Items(m + a, b) = Fifo!Items(m, a + b)
  <1> DEFINE item(n) == [key \in Keys |-> n]
             left == [i \in 1 .. a |-> item(m + i)]
             right == [i \in 1 .. b |-> item(m + a + i)]
             both == [i \in 1 .. a + b |-> item(m + i)]
  <1>1. left \in Seq({item(n) : n \in Nat}) /\ right \in Seq({item(n) : n \in Nat})
        /\ both \in Seq({item(n) : n \in Nat})
    <2> HIDE DEF item
    <2>1. QED
      OBVIOUS
  <1>2. Len(left) = a /\ Len(right) = b /\ Len(both) = a + b
    OBVIOUS
  <1>3. ASSUME NEW i \in 1 .. a + b PROVE (left \o right)[i] = both[i]
    <2> HIDE DEF item
    <2>1. CASE i <= a
      BY <2>1
    <2>2. CASE i > a
      BY <2>2
    <2>3. QED
      BY <2>1, <2>2
  <1> HIDE DEF left, right, both
  <1>4. left \o right = both
    <2> DEFINE S == {item(n) : n \in Nat}
    <2>1. left \in Seq(S) /\ right \in Seq(S) /\ both \in Seq(S)
      BY <1>1
    <2> HIDE DEF S
    <2>2. left \o right \in Seq(S) /\ Len(left \o right) = Len(both)
      BY <2>1, <1>2, ConcatProperties
    <2>3. QED
      BY <1>2, <1>3, <2>1, <2>2, SeqEqual
  <1>5. QED
    BY <1>4 DEF left, right, both, Fifo!Items

\* A run of items can be cut anywhere.
LEMMA ItemsCut ==
  ASSUME NEW m \in Nat, NEW n \in Nat, NEW a \in 0 .. n
  PROVE  /\ Len(Fifo!Items(m, n)) = n
         /\ SubSeq(Fifo!Items(m, n), 1, a) = Fifo!Items(m, a)
         /\ SubSeq(Fifo!Items(m, n), a + 1, n) = Fifo!Items(m + a, n - a)
  <1> DEFINE item(x) == [key \in Keys |-> x]
             all == [i \in 1 .. n |-> item(m + i)]
  <1> HIDE DEF item
  <1>1. Len(all) = n
    OBVIOUS
  <1>2. SubSeq(all, 1, a) = [i \in 1 .. a |-> item(m + i)]
    OBVIOUS
  <1>3. SubSeq(all, a + 1, n) = [i \in 1 .. n - a |-> item(m + a + i)]
    OBVIOUS
  <1>4. QED
    BY <1>1, <1>2, <1>3 DEF item, Fifo!Items

\* What is between the counters are the items put and not yet taken.
Exact ==
  /\ Contents = Fifo!Items(readCounter, writeCounter - readCounter)
  /\ writeCounter - readCounter \in 0 .. BufferSize
  /\ readCounter \in Nat /\ writeCounter \in Nat

\* The mapping yields the items between the counters, before a step
LEMMA ContentsExact == IInv => Exact
  <1> SUFFICES ASSUME IInv PROVE Exact
    OBVIOUS
  <1>1. /\ writeCounter - readCounter \in 0 .. BufferSize
        /\ readCounter \in Nat /\ writeCounter \in Nat
    BY QueueAssumption DEF IInv, TypeOK, Counted
  <1>2. ASSUME NEW i \in 1 .. writeCounter - readCounter, NEW key \in Keys
        PROVE  arrays[key][(readCounter + i - 1) % BufferSize] = readCounter + i
    <2> DEFINE c == readCounter + i - 1
    <2>1. c \in readCounter .. writeCounter - 1 /\ c + 1 = readCounter + i
      BY <1>1
    <2> HIDE DEF c
    <2>2. arrays[key][c % BufferSize] = c + 1
      BY <2>1 DEF IInv, Held
    <2>3. QED
      BY <2>1, <2>2 DEF c
  <1>3. QED
    BY <1>1, <1>2 DEF Exact, Contents, Fifo!Items

\* and after it.
LEMMA ContentsExactNext == IInv' => Exact'
  BY ContentsExact, PTL

\* A step that moves neither counter and returns nothing is none of the abstract queue.
LEMMA MapsToStutter ==
  ASSUME Exact, Exact', UNCHANGED <<writeCounter, readCounter, got>>
  PROVE  UNCHANGED Fifo!vars
  BY DEF Exact, Fifo!vars

\* A step that moves the read counter by n drops the n oldest items.
LEMMA MapsToDiscard ==
  ASSUME Exact, Exact', NEW n \in Nat, readCounter' = readCounter + n,
         readCounter + n <= writeCounter, UNCHANGED writeCounter
  PROVE  Fifo!Discard(n)
  <1> DEFINE l == writeCounter - readCounter
  <1>1. /\ readCounter \in Nat /\ l \in Nat /\ n \in 0 .. l
        /\ Contents = Fifo!Items(readCounter, l)
        /\ Contents' = Fifo!Items(readCounter + n, l - n)
    BY DEF Exact
  <1> HIDE DEF l
  <1>2. /\ Len(Fifo!Items(readCounter, l)) = l
        /\ SubSeq(Fifo!Items(readCounter, l), n + 1, l) = Fifo!Items(readCounter + n, l - n)
    BY ONLY <1>1, ItemsCut
  <1>3. n <= Len(Contents) /\ Contents' = SubSeq(Contents, n + 1, Len(Contents))
    BY <1>1, <1>2
  <1>4. QED
    BY <1>3 DEF Fifo!Discard

\* What a call has copied are the k oldest items of the abstract queue.
LEMMA CopiedIsPrefix ==
  ASSUME IInv, Exact, getPc \in {"add", "return"}
  PROVE  /\ k \in 1 .. BufferSize /\ k <= Len(Contents)
         /\ Copied = SubSeq(Contents, 1, k)
  <1> DEFINE l == writeCounter - readCounter
  <1>1. /\ readCounter \in Nat /\ l \in Nat /\ k \in 0 .. l /\ k \in 1 .. BufferSize
        /\ Contents = Fifo!Items(readCounter, l)
        /\ Copied = Fifo!Items(readCounter, k)
    <2>1. /\ Copied = [i \in 1 .. k |-> [key \in Keys |-> readCounter + i]]
          /\ k \in 1 .. BufferSize /\ readCounter + k <= writeCounter
      BY CopiedIsOldest
    <2>2. Copied = Fifo!Items(readCounter, k)
      BY <2>1 DEF Fifo!Items
    <2>3. QED
      BY <2>1, <2>2 DEF Exact
  <1> HIDE DEF l
  <1>2. /\ Len(Fifo!Items(readCounter, l)) = l
        /\ SubSeq(Fifo!Items(readCounter, l), 1, k) = Fifo!Items(readCounter, k)
    BY ONLY <1>1, ItemsCut
  <1>3. QED
    BY <1>1, <1>2

\* The addition of the producer is a Put of the whole list.
LEMMA PutAddMaps ==
  ASSUME IInv, Exact, Exact', PutAdd
  PROVE  Fifo!Next
  <1> DEFINE l == writeCounter - readCounter
  <1>1. /\ listLen \in 1 .. BufferSize /\ readCounter \in Nat /\ l \in Nat
        /\ l + listLen <= BufferSize /\ writeCounter = readCounter + l
        /\ writeCounter' = writeCounter + listLen /\ readCounter' = readCounter
        /\ UNCHANGED got
    BY PutFits DEF IInv, PutInv, TypeOK, Exact, PutAdd, consumer
  <1>2. /\ Contents = Fifo!Items(readCounter, l)
        /\ Contents' = Fifo!Items(readCounter, l + listLen)
    <2>1. writeCounter' - readCounter' = l + listLen
      BY <1>1
    <2>2. QED
      BY <1>1, <2>1 DEF Exact
  <1> HIDE DEF l
  <1>3. Contents' = Contents \o Fifo!Items(writeCounter, listLen)
    <2>1. Fifo!Items(readCounter, l) \o Fifo!Items(readCounter + l, listLen)
            = Fifo!Items(readCounter, l + listLen)
      <3>1. listLen \in Nat /\ readCounter \in Nat /\ l \in Nat
        BY <1>1
      <3>2. QED
        BY ONLY <3>1, ItemsJoin
    <2>2. QED
      BY <1>1, <1>2, <2>1
  <1>4. Len(Contents) = l
    BY <1>1, <1>2, ItemsCut
  <1>5. Fifo!Put(listLen)
    BY <1>1, <1>3, <1>4 DEF Fifo!Put
  <1>6. QED
    BY <1>1, <1>5 DEF Fifo!Next

\* The end of each of the consumer's methods is an operation of the abstract queue.
LEMMA GetEndsMap ==
  ASSUME IInv, Exact, Exact', GetAdd \/ PeekReturn \/ GetRaise \/ ViewRaise \/ ClearStore
  PROVE  [Fifo!Next]_Fifo!vars
  <1>1. CASE GetAdd
    <2>1. /\ k \in 1 .. BufferSize /\ got' = SubSeq(Contents, 1, k)
          /\ readCounter' = readCounter + k /\ readCounter + k <= writeCounter
          /\ UNCHANGED writeCounter
      BY <1>1, CopiedIsPrefix, CopiedIsOldest DEF GetAdd
    <2>2. Fifo!Get(k)
      BY <2>1, MapsToDiscard DEF Fifo!Get
    <2>3. QED
      BY <2>1, <2>2 DEF Fifo!Next
  <1>2. CASE PeekReturn
    <2>1. /\ k \in 1 .. BufferSize /\ k <= Len(Contents) /\ got' = SubSeq(Contents, 1, k)
          /\ UNCHANGED <<writeCounter, readCounter>>
      BY <1>2, CopiedIsPrefix DEF PeekReturn, counters
    <2>2. Contents' = Contents
      BY <2>1 DEF Exact
    <2>3. Fifo!Peek(k)
      BY <2>1, <2>2 DEF Fifo!Peek
    <2>4. QED
      BY <2>1, <2>3 DEF Fifo!Next
  <1>3. CASE GetRaise
    BY <1>3, MapsToStutter DEF GetRaise, counters
  <1>4. CASE ViewRaise
    <2>1. /\ k \in 1 .. BufferSize /\ readCounter + k <= writeCounter
          /\ readCounter' = readCounter + k /\ UNCHANGED <<writeCounter, got>>
      <3>1. k \in Nat /\ k >= 1 /\ readCounter + k <= writeCounter
        BY <1>4 DEF ViewRaise, IInv, TypeOK, GetInv
      <3>2. k \in 1 .. BufferSize
        BY <3>1, QueueAssumption DEF Exact
      <3>3. QED
        BY <1>4, <3>1, <3>2 DEF ViewRaise
    <2>2. Fifo!Drop(k)
      BY <2>1, MapsToDiscard DEF Fifo!Drop
    <2>3. QED
      BY <2>1, <2>2 DEF Fifo!Next
  <1>5. CASE ClearStore
    <2> DEFINE n == getWrite - readCounter
    <2>1. /\ n \in 0 .. BufferSize /\ readCounter' = readCounter + n
          /\ readCounter + n <= writeCounter /\ UNCHANGED <<writeCounter, got>>
      <3>1. getWrite \in Nat /\ readCounter <= getWrite /\ getWrite <= writeCounter
        BY <1>5 DEF ClearStore, IInv, TypeOK, GetInv
      <3>2. n \in 0 .. BufferSize /\ readCounter + n = getWrite
        BY <3>1, QueueAssumption DEF Exact
      <3> HIDE DEF n
      <3>3. QED
        BY <1>5, <3>1, <3>2 DEF ClearStore
    <2> HIDE DEF n
    <2>2. CASE n = 0
      BY <2>1, <2>2, MapsToStutter DEF Exact
    <2>3. CASE n # 0
      <3>1. Fifo!Drop(n)
        BY <2>1, MapsToDiscard DEF Fifo!Drop
      <3>2. n \in 1 .. BufferSize
        BY <2>1, <2>3
      <3>3. QED
        BY <3>1, <3>2 DEF Fifo!Next
    <2>4. QED
      BY <2>2, <2>3
  <1>6. QED
    BY <1>1, <1>2, <1>3, <1>4, <1>5

\* The other steps happen inside a call and the abstract queue does not see them.
LEMMA StepMaps ==
  ASSUME IInv, Exact, Exact', [Next]_vars
  PROVE  [Fifo!Next]_Fifo!vars
  <1>1. CASE PutAdd
    BY <1>1, PutAddMaps
  <1>2. CASE GetAdd \/ PeekReturn \/ GetRaise \/ ViewRaise \/ ClearStore
    BY <1>2, GetEndsMap
  <1>3. CASE \/ PutBegin \/ PutLoadRead \/ PutFull \/ PutLoadWrite \/ PutRaise
             \/ GetBegin \/ GetLoadWrite \/ GetRefused \/ GetLoadRead \/ GetCopy \/ ClearLoad
             \/ PutWrite \/ PutWrap
    <2>1. UNCHANGED <<writeCounter, readCounter, got>>
      BY <1>3 DEF PutBegin, PutLoadRead, PutFull, PutLoadWrite, PutWrite, PutWrap, PutRaise,
                  GetBegin, GetLoadWrite, GetRefused, GetLoadRead, GetCopy, ClearLoad,
                  counters, consumer
    <2>2. QED
      BY <2>1, MapsToStutter
  <1>4. CASE UNCHANGED vars
    BY <1>4, MapsToStutter DEF vars, counters, consumer
  <1>5. QED
    BY <1>1, <1>2, <1>3, <1>4 DEF Next, Put, Get

\* The queue implements the bounded FIFO whatever the sizes: every call takes effect at
\* one step, as a whole, or not at all.
THEOREM Implements == Spec => ImplementsFifo
  <1>1. Init => Fifo!Init
    <2> SUFFICES ASSUME Init PROVE Fifo!Init
      OBVIOUS
    <2>1. Contents = <<>>
      BY DEF Init, Contents
    <2>2. QED
      BY <2>1 DEF Init, Fifo!Init
  <1>2. IInv /\ IInv' /\ [Next]_vars => [Fifo!Next]_Fifo!vars
    BY StepMaps, ContentsExact, ContentsExactNext
  <1>3. QED
    BY <1>1, <1>2, Invariance, PTL DEF Spec, ImplementsFifo, Fifo!Spec
=============================================================================
