--------------------- MODULE SharedMemoryRingBufferProofs ---------------------
(***************************************************************************)
(* The time budget of SharedMemoryRingBuffer: what put rests and what      *)
(* reads find, for buffers of every size, every budget and every period.   *)
(***************************************************************************)
EXTENDS SharedMemoryRingBuffer, SlotArithmetic, SequenceTheorems, TLAPS

-----------------------------------------------------------------------------
(* The size of the buffer. *)

\* The spare slots last for one and a half budgets at the desired frequency.
LEMMA SpareLast == SpareSlots \in Nat \ {0} /\ 2 * (SpareSlots * Period) >= 3 * TimeBudget
  <1> DEFINE n == 2 * Period
             a == 3 * TimeBudget + 2 * Period - 1
             q == a \div n
  <1>1. n \in Nat \ {0} /\ a \in Nat
    BY BufferAssumption
  <1> HIDE DEF n, a
  <1>2. a % n \in 0 .. n - 1 /\ q \in Nat /\ a = n * q + (a % n)
    BY <1>1, DivMod
  <1> HIDE DEF q
  <1>3. n * q >= 3 * TimeBudget
    BY <1>1, <1>2, BufferAssumption DEF n, a
  <1>4. n * q = 2 * (q * Period)
    BY <1>2, BufferAssumption DEF n
  <1>5. q # 0
    BY <1>3, <1>1, BufferAssumption
  <1>6. SpareSlots = q
    BY DEF SpareSlots, q, a, n
  <1>7. QED
    BY <1>2, <1>3, <1>4, <1>5, <1>6

\* The sizes of buffer and budget.
LEMMA Sizes ==
  /\ SpareSlots \in Nat \ {0}
  /\ BufferSize \in Nat \ {0} /\ BufferSize = SpareSlots + GetMaxK
  /\ GetMaxK \in Nat \ {0} /\ TimeBudget \in Nat \ {0} /\ Period \in Nat \ {0}
  /\ NumKeys \in Nat \ {0} /\ MaxPuts \in Nat /\ Paces \subseteq BOOLEAN
  BY SpareLast, BufferAssumption DEF BufferSize

\* As long as the spare slots last, the budget is over.
LEMMA SpareOutlast ==
  ASSUME NEW d \in Int, d >= SpareSlots
  PROVE  d * Period >= SpareSlots * Period /\ d * Period > TimeBudget
  <1>1. (d - SpareSlots) * Period >= 0
    BY Sizes
  <1>2. d * Period = (d - SpareSlots) * Period + SpareSlots * Period
    BY Sizes
  <1>3. d * Period \in Int /\ SpareSlots * Period \in Int /\ (d - SpareSlots) * Period \in Int
    BY Sizes
  <1>4. QED
    BY <1>1, <1>2, <1>3, SpareLast, Sizes

\* One period more.
LEMMA OneMore ==
  ASSUME NEW d \in Int
  PROVE  (d + 1) * Period = d * Period + Period /\ d * Period \in Int
  BY Sizes

\* The two slices of get_last_k are the k slots up to the one of the last item.
LEMMA LastKItems ==
  ASSUME count \in Nat, k \in Nat \ {0}, k <= count, k <= GetMaxK,
         NEW arr \in [1 .. BufferSize -> Nat]
  PROVE  /\ LastK(arr) \in Seq(Nat) /\ Len(LastK(arr)) = k
         /\ \A i \in 1 .. k : LastK(arr)[i] = arr[((count - k + i - 1) % BufferSize) + 1]
  <1> DEFINE r == (count - 1) % BufferSize
             q == (count - 1) \div BufferSize
             end == r + 1
             start == IF end > k THEN end - k ELSE 0
             remainder == k - (end - start)
             left == SubSeq(arr, BufferSize - remainder + 1, BufferSize)
             right == SubSeq(arr, start + 1, end)
  <1>1. r \in 0 .. BufferSize - 1 /\ q \in Nat /\ count - 1 = BufferSize * q + r
    <2> DEFINE c == count - 1
    <2>1. c \in Nat /\ BufferSize \in Nat \ {0}
      BY Sizes
    <2> HIDE DEF c
    <2>2. c % BufferSize \in 0 .. BufferSize - 1 /\ c \div BufferSize \in Nat
          /\ c = BufferSize * (c \div BufferSize) + (c % BufferSize)
      BY ONLY <2>1, DivMod
    <2>3. QED
      BY <2>2 DEF c
  <1> HIDE DEF r, q
  <1>2. /\ start \in 0 .. end - 1 /\ end \in 1 .. BufferSize /\ remainder \in 0 .. k - 1
        /\ remainder <= BufferSize - 1 /\ k <= BufferSize
        /\ (remainder # 0 => start = 0 /\ remainder = k - end)
        /\ (remainder = 0 => start = end - k)
        /\ end - start = k - remainder /\ end = r + 1
    BY <1>1, Sizes
  <1>10. BufferSize * q \in Int
    BY <1>1, Sizes
  <1>3. LastK(arr) = left \o right
    BY DEF LastK, r
  <1> HIDE DEF end, start, remainder
  <1>4. /\ left \in Seq(Nat) /\ Len(left) = remainder
        /\ \A i \in 1 .. remainder : left[i] = arr[BufferSize - remainder + i]
    <2> DEFINE m == BufferSize - remainder + 1
    <2>4. m \in Int /\ m >= 1 /\ BufferSize \in Int
      BY <1>2, Sizes
    <2>1. m \in Int /\ BufferSize \in Int /\ \A i \in m .. BufferSize : arr[i] \in Nat
      <3> HIDE DEF m
      <3>1. \A i \in m .. BufferSize : i \in 1 .. BufferSize
        BY ONLY <2>4
      <3>2. QED
        BY <2>4, <3>1
    <2> HIDE DEF m
    <2>2. /\ SubSeq(arr, m, BufferSize) \in Seq(Nat)
          /\ Len(SubSeq(arr, m, BufferSize)) = IF m <= BufferSize THEN BufferSize - m + 1 ELSE 0
          /\ \A i \in 1 .. BufferSize - m + 1 : SubSeq(arr, m, BufferSize)[i] = arr[m + i - 1]
      BY ONLY <2>1, SubSeqProperties
    <2>5. left = SubSeq(arr, m, BufferSize)
      BY DEF m
    <2> HIDE DEF left
    <2>6. /\ remainder \in Nat /\ BufferSize - m + 1 = remainder
          /\ m <= BufferSize \/ remainder = 0
          /\ \A i \in 1 .. remainder : m + i - 1 = BufferSize - remainder + i
      BY <1>2, Sizes DEF m
    <2>7. /\ Len(left) = remainder
          /\ \A i \in 1 .. remainder : left[i] = arr[m + i - 1]
      BY ONLY <2>2, <2>5, <2>6
    <2>3. QED
      BY ONLY <2>2, <2>5, <2>6, <2>7
  <1>5. /\ right \in Seq(Nat) /\ Len(right) = end - start
        /\ \A i \in 1 .. end - start : right[i] = arr[start + i]
    <2> DEFINE m == start + 1
    <2>4. m \in Int /\ m >= 1 /\ end \in Int /\ end <= BufferSize /\ BufferSize \in Int
      BY <1>2, Sizes
    <2>1. m \in Int /\ end \in Int /\ \A i \in m .. end : arr[i] \in Nat
      <3> HIDE DEF m
      <3>1. \A i \in m .. end : i \in 1 .. BufferSize
        BY ONLY <2>4
      <3>2. QED
        BY <2>4, <3>1
    <2> HIDE DEF m
    <2>2. /\ SubSeq(arr, m, end) \in Seq(Nat)
          /\ Len(SubSeq(arr, m, end)) = IF m <= end THEN end - m + 1 ELSE 0
          /\ \A i \in 1 .. end - m + 1 : SubSeq(arr, m, end)[i] = arr[m + i - 1]
      BY ONLY <2>1, SubSeqProperties
    <2>5. right = SubSeq(arr, m, end)
      BY DEF m
    <2> HIDE DEF right
    <2>6. /\ end - start \in Nat /\ end - m + 1 = end - start /\ m <= end
          /\ \A i \in 1 .. end - start : m + i - 1 = start + i
      BY <1>2 DEF m
    <2>7. /\ Len(right) = end - start
          /\ \A i \in 1 .. end - start : right[i] = arr[m + i - 1]
      BY ONLY <2>2, <2>5, <2>6
    <2>3. QED
      BY ONLY <2>2, <2>5, <2>6, <2>7
  <1> HIDE DEF left, right
  <1>6. /\ left \o right \in Seq(Nat)
        /\ Len(left \o right) = Len(left) + Len(right)
        /\ \A i \in 1 .. Len(left) + Len(right) :
             (left \o right)[i] = IF i <= Len(left) THEN left[i] ELSE right[i - Len(left)]
    BY ONLY <1>4, <1>5, ConcatProperties
  <1>7. Len(left) + Len(right) = k
    BY <1>2, <1>4, <1>5 DEF remainder
  <1>8. ASSUME NEW i \in 1 .. k
        PROVE  (left \o right)[i] = arr[((count - k + i - 1) % BufferSize) + 1]
    <2>1. CASE i > remainder
      <3> DEFINE s == start + i - remainder - 1
      <3> DEFINE j == i - remainder
      <3>6. j \in 1 .. end - start /\ i \in 1 .. Len(left) + Len(right) /\ s + 1 = start + j
        BY <2>1, <1>2, <1>7
      <3>7. (left \o right)[i] = right[j]
        <4>1. ~(i <= Len(left)) /\ i - Len(left) = j
          BY <2>1, <1>2, <1>4
        <4>2. QED
          BY ONLY <4>1, <3>6, <1>6
      <3>1. (left \o right)[i] = arr[s + 1]
        BY ONLY <3>6, <3>7, <1>5
      <3>2. s \in 0 .. BufferSize - 1 /\ count - k + i - 1 \in Nat
        BY <2>1, <1>2, Sizes
      <3>3. count - k + i - 1 = BufferSize * q + s
        BY <2>1, <1>1, <1>2, <1>10
      <3> HIDE DEF s
      <3>4. (count - k + i - 1) % BufferSize = s
        BY <3>2, <3>3, <1>1, Sizes, ModUnique
      <3>5. QED
        BY <3>1, <3>4
    <2>2. CASE i <= remainder
      <3> DEFINE s == BufferSize - remainder + i - 1
                 p == q - 1
      <3>1. (left \o right)[i] = arr[s + 1]
        BY <2>2, <1>2, <1>4, <1>5, <1>6, <1>7, Sizes
      <3>2. s \in 0 .. BufferSize - 1 /\ count - k + i - 1 \in Nat
        BY <2>2, <1>2, Sizes
      <3>3. q # 0
        <4> SUFFICES ASSUME q = 0 PROVE FALSE
          OBVIOUS
        <4>1. BufferSize * q = 0
          BY Sizes
        <4>2. QED
          BY <4>1, <2>2, <1>1, <1>2
      <3>4. p \in Nat /\ BufferSize * p = BufferSize * q - BufferSize
        BY <3>3, <1>1, Sizes
      <3>5. count - k + i - 1 = BufferSize * p + s
        BY <2>2, <3>4, <1>1, <1>2, <1>10, Sizes
      <3> HIDE DEF s, p
      <3>6. (count - k + i - 1) % BufferSize = s
        BY <3>2, <3>4, <3>5, Sizes, ModUnique
      <3>7. QED
        BY <3>1, <3>6
    <2>3. i > remainder \/ i <= remainder
      BY <1>2
    <2>4. QED
      BY ONLY <2>1, <2>2, <2>3
  <1>9. QED
    BY <1>3, <1>6, <1>7, <1>8

-----------------------------------------------------------------------------
(* The inductive invariant. *)

\* The number of items with a timestamp: item i + 1 has its own in Slot(i).
Stamped == IF putPc = "add" THEN counter + 1 ELSE counter

Slot(i) == i % BufferSize

\* The items whose timestamp is still there.
Live(i) == i < Stamped /\ i >= Stamped - BufferSize

\* How much of a period a paced producer has let pass since the last timestamp.
Credit == IF putPc = "add" THEN 0 ELSE Period - pause

\* How many pauses lie between item i + 1 and the last one: none after the first put.
Gap(i) == IF i = 0 THEN Stamped - 2 ELSE Stamped - 1 - i

\* The items written so far for a key.
Written(key) ==
  IF putPc \in {"stamp", "add"} \/ (putPc = "write" /\ key < putKey) THEN counter + 1 ELSE counter

\* What producer and reader know where they are.
Stages ==
  /\ putPc # "idle" => counter < MaxPuts /\ pause = 0
  /\ putPc = "write" => putKey \in Keys
  /\ getPc = "copy" => getKey \in Keys
  /\ getPc # "idle" => k >= 1 /\ k <= counter
  /\ getPc \in {"copy", "end"} => k <= count /\ count <= counter
  /\ out \in [Keys -> Seq(Nat)]
  /\ \A key \in Keys :
       getPc \in {"idle", "load"} \/ (getPc = "copy" /\ key >= getKey) => out[key] = <<>>

\* Slots that were never written are old.
Untouched == \A i \in Indices : i >= Stamped => age[i] = TimeBudget

\* Earlier items have earlier timestamps.
Ordered ==
  \A i, j \in Nat : Live(i) /\ Live(j) /\ i < j => age[Slot(j)] <= age[Slot(i)]

\* What put has checked stays so while it writes.
Rested == putPc = "write" => age[PreviewIdx] = TimeBudget

\* The timestamps of a paced producer are periods apart,
Spaced ==
  paced => \A i \in Nat : Live(i) =>
             age[Slot(i)] >= Lesser(TimeBudget, Credit + Gap(i) * Period)

\* and so a read has lasted for the items put since.
ReadTimed ==
  paced /\ getPc \in {"copy", "end"} /\ count < Stamped =>
    elapsed >= Lesser(TimeBudget + 1, Credit + (Stamped - count - 1) * Period)

\* The last items written are whole in their slots.
Stored ==
  \A key \in Keys, i \in Nat :
    i < Written(key) /\ i >= Written(key) - BufferSize => arrays[key][Slot(i) + 1] = i + 1

\* What a read within the budget has copied.
Copied ==
  paced /\ elapsed <= TimeBudget =>
    \A key \in Keys : getPc = "end" \/ (getPc = "copy" /\ key < getKey) =>
      out[key] = [i \in 1 .. k |-> count - k + i]

Typed == TypeOK /\ Stages

Timed == Untouched /\ Ordered /\ Rested /\ Spaced /\ ReadTimed

RingInv == Typed /\ Timed /\ Stored /\ Copied

\* The empty buffer satisfies the invariant.
LEMMA InitRing == Init => RingInv
  <1> SUFFICES ASSUME Init PROVE RingInv
    OBVIOUS
  <1> USE Sizes DEF Init
  <1>1. TypeOK
    BY DEF TypeOK, Keys, Indices
  <1>2. Stages
    BY DEF Stages, Keys
  <1>3. Stamped = 0 /\ \A key \in Keys : Written(key) = 0
    BY DEF Stamped, Written
  <1>4. Timed
    BY <1>3 DEF Timed, Untouched, Ordered, Rested, Spaced, ReadTimed, Live, Indices
  <1>5. Stored /\ Copied
    BY <1>3 DEF Stored, Copied
  <1>6. QED
    BY <1>1, <1>2, <1>4, <1>5 DEF RingInv, Typed

-----------------------------------------------------------------------------
(* Types and stages. *)

\* Slots are indices.
LEMMA SlotInRange ==
  ASSUME NEW i \in Nat
  PROVE  Slot(i) \in Indices /\ Slot(i) + 1 \in 1 .. BufferSize
  <1>1. i % BufferSize \in 0 .. BufferSize - 1
    BY ONLY Sizes, DivMod
  <1>2. QED
    BY <1>1, Sizes DEF Slot, Indices

\* The types are kept as time passes,
LEMMA TickTyped == Typed /\ Tick => Typed'
  <1> SUFFICES ASSUME Typed, Tick PROVE Typed'
    OBVIOUS
  <1> USE Sizes DEF Typed, Tick
  <1>1. age' \in [Indices -> 0 .. TimeBudget]
    BY DEF TypeOK, Lesser
  <1>2. pause' \in 0 .. Period /\ (pause = 0 => pause' = 0)
    BY DEF TypeOK
  <1>3. elapsed' \in 0 .. TimeBudget + 1
    BY DEF TypeOK, Lesser
  <1>4. TypeOK'
    BY <1>1, <1>2, <1>3 DEF TypeOK
  <1>5. Stages'
    BY <1>2 DEF Stages
  <1>6. QED
    BY <1>4, <1>5

\* by the producer
LEMMA PutTyped == Typed /\ Put => Typed'
  <1> SUFFICES ASSUME Typed, Put PROVE Typed'
    OBVIOUS
  <1> USE Sizes DEF Typed
  <1>1. UNCHANGED reader
    BY DEF Put, PutBegin, PutCheck, PutTimeout, PutWrite, PutStamp, PutAdd
  <1>2. /\ counter' \in 0 .. MaxPuts /\ counter' >= counter
        /\ arrays' \in [Keys -> [1 .. BufferSize -> 0 .. MaxPuts]]
        /\ age' \in [Indices -> 0 .. TimeBudget]
        /\ paced' \in BOOLEAN /\ putPc' \in {"idle", "check", "write", "stamp", "add"}
        /\ putKey' \in 1 .. NumKeys + 1 /\ pause' \in 0 .. Period
        /\ (putPc' # "idle" => counter' < MaxPuts /\ pause' = 0)
        /\ (putPc' = "write" => putKey' \in Keys)
    <2>1. CASE PutBegin
      BY <2>1 DEF PutBegin, TypeOK, Stages
    <2>2. CASE PutCheck
      <3>1. 1 \in Keys
        BY DEF Keys
      <3>2. QED
        BY <2>2, <3>1 DEF PutCheck, TypeOK, Stages
    <2>3. CASE PutTimeout
      BY <2>3 DEF PutTimeout, TypeOK, Stages
    <2>4. CASE PutWrite
      <3>1. NextIdx + 1 \in 1 .. BufferSize
        <4>1. counter \in Nat
          BY DEF TypeOK
        <4>2. Slot(counter) + 1 \in 1 .. BufferSize
          BY ONLY <4>1, SlotInRange
        <4>3. QED
          BY <4>2 DEF NextIdx, Slot
      <3>2. arrays' \in [Keys -> [1 .. BufferSize -> 0 .. MaxPuts]]
        <4> DEFINE i == NextIdx + 1
                   item == counter + 1
        <4>4. putPc = "write" /\ arrays' = [arrays EXCEPT ![putKey][i] = item]
          BY <2>4 DEF PutWrite
        <4>5. putKey \in Keys /\ counter < MaxPuts
          BY <4>4 DEF Stages
        <4>6. arrays \in [Keys -> [1 .. BufferSize -> 0 .. MaxPuts]] /\ counter \in Nat
          BY DEF TypeOK
        <4>1. /\ arrays \in [Keys -> [1 .. BufferSize -> 0 .. MaxPuts]]
              /\ putKey \in Keys /\ item \in 0 .. MaxPuts
          BY <4>5, <4>6
        <4>2. i \in 1 .. BufferSize /\ arrays' = [arrays EXCEPT ![putKey][i] = item]
          BY <3>1, <4>4
        <4> HIDE DEF i, item
        <4>3. QED
          BY ONLY <4>1, <4>2
      <3>3. putKey' \in 1 .. NumKeys + 1 /\ (putPc' = "write" => putKey' \in Keys)
        BY <2>4 DEF PutWrite, Stages, Keys
      <3>4. UNCHANGED <<counter, age, paced, pause>> /\ putPc' \in {"stamp", "write"}
        BY <2>4 DEF PutWrite
      <3>5. counter < MaxPuts /\ pause = 0
        BY <2>4 DEF PutWrite, Stages
      <3>6. QED
        BY <3>2, <3>3, <3>4, <3>5 DEF TypeOK
    <2>5. CASE PutStamp
      <3>1. NextIdx \in Indices
        <4>1. counter \in Nat
          BY DEF TypeOK
        <4>2. Slot(counter) \in Indices
          BY ONLY <4>1, SlotInRange
        <4>3. QED
          BY <4>2 DEF NextIdx, Slot
      <3>2. age' \in [Indices -> 0 .. TimeBudget]
        BY <2>5, <3>1 DEF PutStamp, TypeOK
      <3>3. QED
        BY <2>5, <3>2 DEF PutStamp, TypeOK, Stages
    <2>6. CASE PutAdd
      BY <2>6 DEF PutAdd, TypeOK, Stages
    <2>7. QED
      BY <2>1, <2>2, <2>3, <2>4, <2>5, <2>6 DEF Put
  <1>3. TypeOK'
    BY <1>1, <1>2 DEF TypeOK, reader
  <1>4. Stages'
    BY <1>1, <1>2 DEF TypeOK, Stages, reader
  <1>5. QED
    BY <1>3, <1>4

\* and by the reader.
LEMMA GetTyped == Typed /\ Get => Typed'
  <1> SUFFICES ASSUME Typed, Get PROVE Typed'
    OBVIOUS
  <1> USE Sizes DEF Typed
  <1>1. UNCHANGED producer
    BY DEF Get, GetBegin, GetLoad, GetCopy, GetEnd
  <1>2. CASE GetBegin
    <2>1. k' \in 1 .. GetMaxK /\ k' <= counter
      BY <1>2 DEF GetBegin, TypeOK, Lesser
    <2>2. \A key \in Keys : out[key] = <<>>
      BY <1>2 DEF GetBegin, Stages
    <2>3. TypeOK'
      BY <1>1, <1>2, <2>1, <2>2 DEF GetBegin, TypeOK, producer
    <2>4. Stages'
      BY <1>1, <1>2, <2>1, <2>2 DEF GetBegin, TypeOK, Stages, producer
    <2>5. QED
      BY <2>3, <2>4
  <1>3. CASE GetLoad
    <2>1. 1 \in Keys
      BY DEF Keys
    <2>2. TypeOK'
      BY <1>1, <1>3 DEF GetLoad, TypeOK, producer
    <2>3. Stages'
      BY <1>1, <1>3, <2>1 DEF GetLoad, Stages, TypeOK, producer
    <2>4. QED
      BY <2>2, <2>3
  <1>4. CASE GetCopy
    <2>1. getKey \in Keys /\ k >= 1 /\ k <= count /\ getPc = "copy"
      BY <1>4 DEF GetCopy, Stages
    <2>2. arrays[getKey] \in [1 .. BufferSize -> Nat]
      BY <2>1 DEF TypeOK
    <2>3. count \in Nat /\ k \in Nat \ {0} /\ k <= GetMaxK
      BY <2>1 DEF TypeOK
    <2>4. LastK(arrays[getKey]) \in Seq(Nat) /\ Len(LastK(arrays[getKey])) = k
      BY ONLY <2>1, <2>2, <2>3, LastKItems
    <2> DEFINE copy == LastK(arrays[getKey])
    <2> HIDE DEF copy
    <2>5. out' = [out EXCEPT ![getKey] = copy] /\ copy \in Seq(Nat) /\ Len(copy) = k
      BY <1>4, <2>4 DEF GetCopy, copy
    <2>6. out' \in [Keys -> Seq(Nat)] /\ \A key \in Keys : Len(out'[key]) \in {0, k}
      BY <2>5, <2>1 DEF Stages, TypeOK
    <2>7. TypeOK'
      BY <1>1, <1>4, <2>1, <2>6 DEF GetCopy, TypeOK, producer, Keys
    <2>8. ASSUME NEW key \in Keys, getPc' \in {"idle", "load"} \/ (getPc' = "copy" /\ key >= getKey')
          PROVE  out'[key] = <<>>
      <3>1. key # getKey /\ key >= getKey
        BY <1>4, <2>1, <2>8 DEF GetCopy, Keys
      <3>2. QED
        BY <3>1, <2>1, <2>5 DEF Stages
    <2>10. getPc' = "copy" => getKey' \in Keys
      BY <1>4, <2>1 DEF GetCopy, Keys
    <2>11. Stages'
      BY <1>1, <1>4, <2>1, <2>6, <2>8, <2>10 DEF GetCopy, Stages, producer
    <2>9. QED
      BY <2>7, <2>11
  <1>5. CASE GetEnd
    BY <1>1, <1>5 DEF GetEnd, TypeOK, Stages, producer, Keys
  <1>6. QED
    BY <1>2, <1>3, <1>4, <1>5 DEF Get

-----------------------------------------------------------------------------
(* Time. *)

\* Items less than a buffer apart are in different slots.
LEMMA SlotsApart ==
  ASSUME NEW i \in Nat, NEW j \in Nat, i < j, j - i < BufferSize
  PROVE  Slot(i) # Slot(j)
  <1>1. BufferSize \in Nat \ {0}
    BY Sizes
  <1>2. i % BufferSize # j % BufferSize
    BY <1>1, SlotsDiffer
  <1>3. QED
    BY <1>2 DEF Slot

\* All that RingInv computes with are integers.
LEMMA TimeTypes ==
  ASSUME Typed
  PROVE  /\ counter \in Nat /\ Stamped \in Nat /\ Credit \in 0 .. Period
         /\ Stamped \in counter .. counter + 1
         /\ \A i \in Nat : Gap(i) \in Int /\ Gap(i) * Period \in Int
         /\ (Stamped - count - 1) \in Int /\ (Stamped - count - 1) * Period \in Int
         /\ \A i \in Nat : age[Slot(i)] \in 0 .. TimeBudget
         /\ elapsed \in 0 .. TimeBudget + 1
         /\ PreviewIdx \in Indices
  <1> USE Sizes
  <1>1. counter \in Nat /\ count \in Nat /\ pause \in 0 .. Period /\ elapsed \in 0 .. TimeBudget + 1
        /\ age \in [Indices -> 0 .. TimeBudget]
    BY DEF Typed, TypeOK
  <1>2. Stamped \in Nat /\ Credit \in 0 .. Period /\ Stamped \in counter .. counter + 1
    BY <1>1 DEF Stamped, Credit
  <1>3. \A i \in Nat : Gap(i) \in Int
    BY <1>2 DEF Gap
  <1>4. \A d \in Int : d * Period \in Int
    BY OneMore
  <1>5. \A i \in Nat : age[Slot(i)] \in 0 .. TimeBudget
    BY <1>1, SlotInRange
  <1>6. PreviewIdx \in Indices
    <2> DEFINE n == counter % BufferSize
               m == n + GetMaxK - 1
    <2>1. n \in 0 .. BufferSize - 1
      BY ONLY <1>1, Sizes, DivMod
    <2>2. m \in Nat
      BY <2>1
    <2> HIDE DEF m
    <2>3. m % BufferSize \in 0 .. BufferSize - 1
      BY ONLY <2>2, Sizes, DivMod
    <2>4. QED
      BY <2>3 DEF PreviewIdx, NextIdx, Indices, m, n
  <1>7. (Stamped - count - 1) \in Int
    BY <1>1, <1>2
  <1>8. QED
    BY <1>1, <1>2, <1>3, <1>4, <1>5, <1>6, <1>7

\* A bound that time may only catch up with.
LEMMA CatchUp ==
  ASSUME NEW t \in Nat, NEW a \in Nat, NEW x \in Int, NEW y \in Int,
         a >= Lesser(t, x), y <= x + 1
  PROVE  Lesser(a + 1, t) >= Lesser(t, y)
  BY DEF Lesser

\* As time passes, ages, pauses and the read grow alike.
LEMMA TickTimed ==
  ASSUME Typed, Timed, Tick
  PROVE  Timed'
  <1> USE Sizes
  <1> USE DEF Timed
  <1>1. /\ UNCHANGED <<counter, paced, putPc, getPc, count>>
        /\ age' = [i \in Indices |-> Lesser(age[i] + 1, TimeBudget)]
        /\ pause' = IF pause = 0 THEN 0 ELSE pause - 1
        /\ elapsed' = IF getPc = "idle" THEN 0 ELSE Lesser(elapsed + 1, TimeBudget + 1)
    BY DEF Tick
  <1>2. Stamped' = Stamped /\ PreviewIdx' = PreviewIdx
    BY <1>1 DEF Stamped, PreviewIdx, NextIdx
  <1>3. \A i : Live(i)' <=> Live(i)
    BY <1>2 DEF Live
  <1>4. \A i \in Nat : Slot(i)' = Slot(i) /\ Slot(i) \in Indices /\ Gap(i)' = Gap(i)
    BY <1>2, SlotInRange DEF Slot, Gap
  <1>5. Credit \in Int /\ Credit' \in Int /\ Credit' <= Credit + 1
    BY <1>1, TimeTypes DEF Credit, Typed, TypeOK
  <1>6. age \in [Indices -> 0 .. TimeBudget]
    BY DEF Typed, TypeOK
  <1>7. Untouched'
    <2> SUFFICES ASSUME NEW i \in Indices, i >= Stamped PROVE age'[i] = TimeBudget
      BY <1>2 DEF Untouched
    <2>1. age[i] = TimeBudget
      BY DEF Untouched
    <2>2. QED
      BY <2>1, <1>1 DEF Lesser
  <1>8. Ordered'
    <2> SUFFICES ASSUME NEW i \in Nat, NEW j \in Nat, Live(i), Live(j), i < j
                 PROVE  age'[Slot(j)] <= age'[Slot(i)]
      BY <1>3, <1>4 DEF Ordered
    <2>1. age[Slot(j)] <= age[Slot(i)]
      BY DEF Ordered
    <2>2. age[Slot(j)] \in Nat /\ age[Slot(i)] \in Nat
      BY <1>4, <1>6
    <2>3. QED
      BY <2>1, <2>2, <1>1, <1>4 DEF Lesser
  <1>9. Rested'
    BY <1>1, <1>2, <1>6, TimeTypes DEF Rested, Lesser
  <1>10. Spaced'
    <2> SUFFICES ASSUME paced, NEW i \in Nat, Live(i)
                 PROVE  age'[Slot(i)] >= Lesser(TimeBudget, Credit' + Gap(i) * Period)
      BY <1>1, <1>3, <1>4 DEF Spaced, Lesser
    <2>0. PICK c \in Int, d \in Int : c = Credit /\ d = Credit' /\ d <= c + 1
      BY <1>5
    <2>7. c \in Int /\ d \in Int /\ d <= c + 1
      BY <2>0
    <2> DEFINE g == Gap(i) * Period
               a == age[Slot(i)]
               x == c + g
               y == d + g
    <2>1. g \in Int /\ a \in Nat
      BY TimeTypes
    <2>2. a >= Lesser(TimeBudget, x)
      BY <2>0 DEF Spaced
    <2>3. age'[Slot(i)] = Lesser(a + 1, TimeBudget)
      BY <1>1, <1>4
    <2> HIDE DEF g, a
    <2>4. x \in Int /\ y \in Int /\ y <= x + 1
      BY ONLY <2>1, <2>7
    <2> HIDE DEF x, y
    <2>5. Lesser(a + 1, TimeBudget) >= Lesser(TimeBudget, y)
      BY ONLY <2>1, <2>2, <2>4, CatchUp, Sizes
    <2>6. QED
      BY <2>3, <2>5, <2>0 DEF y, g
  <1>11. ReadTimed'
    <2> SUFFICES ASSUME paced, getPc \in {"copy", "end"}, count < Stamped
                 PROVE  elapsed' >= Lesser(TimeBudget + 1, Credit' + (Stamped - count - 1) * Period)
      BY <1>1, <1>2 DEF ReadTimed, Lesser
    <2>0. PICK c \in Int, d \in Int : c = Credit /\ d = Credit' /\ d <= c + 1
      BY <1>5
    <2>7. c \in Int /\ d \in Int /\ d <= c + 1
      BY <2>0
    <2> DEFINE g == (Stamped - count - 1) * Period
               x == c + g
               y == d + g
               t == TimeBudget + 1
    <2>1. g \in Int /\ elapsed \in Nat
      BY TimeTypes
    <2>2. elapsed >= Lesser(t, x)
      BY <2>0 DEF ReadTimed
    <2>3. elapsed' = Lesser(elapsed + 1, t)
      BY <1>1
    <2> HIDE DEF g
    <2>4. x \in Int /\ y \in Int /\ y <= x + 1 /\ t \in Nat
      BY ONLY <2>1, <2>7, Sizes
    <2> HIDE DEF x, y, t
    <2>5. Lesser(elapsed + 1, t) >= Lesser(t, y)
      BY ONLY <2>1, <2>2, <2>4, CatchUp
    <2>6. QED
      BY <2>3, <2>5, <2>0 DEF y, g, t
  <1>12. QED
    BY <1>7, <1>8, <1>9, <1>10, <1>11

\* The producer changes no timestamp before it stamps.
LEMMA PutTimed ==
  ASSUME Typed, Timed, PutBegin \/ PutCheck \/ PutTimeout \/ PutWrite
  PROVE  Timed'
  <1> USE DEF Timed
  <1>1. /\ UNCHANGED <<counter, age, paced, pause, reader>>
        /\ putPc # "add" /\ putPc' # "add"
    BY DEF PutBegin, PutCheck, PutTimeout, PutWrite
  <1>2. Stamped' = Stamped /\ Credit' = Credit /\ PreviewIdx' = PreviewIdx
    BY <1>1 DEF Stamped, Credit, PreviewIdx, NextIdx
  <1>3. \A i : (Live(i)' <=> Live(i)) /\ Gap(i)' = Gap(i)
    BY <1>2 DEF Live, Gap
  <1>4. Untouched'
    BY <1>1, <1>2 DEF Untouched
  <1>5. Ordered'
    BY <1>1, <1>3 DEF Ordered, Slot
  <1>6. Spaced'
    BY <1>1, <1>2, <1>3 DEF Spaced, Slot, Lesser
  <1>7. ReadTimed'
    BY <1>1, <1>2 DEF ReadTimed, reader, Lesser
  <1>8. Rested'
    <2> SUFFICES ASSUME putPc' = "write" PROVE age[PreviewIdx] = TimeBudget
      BY <1>1, <1>2 DEF Rested
    <2>1. CASE PutCheck
      <3>1. age[PreviewIdx] \in 0 .. TimeBudget
        BY TimeTypes DEF Typed, TypeOK
      <3>2. ~(age[PreviewIdx] < TimeBudget)
        BY <2>1 DEF PutCheck, TooFast
      <3>3. QED
        BY <3>1, <3>2, Sizes
    <2>2. CASE PutWrite
      BY <2>2 DEF PutWrite, Rested
    <2>3. QED
      BY <2>1, <2>2 DEF PutBegin, PutTimeout
  <1>9. QED
    BY <1>4, <1>5, <1>6, <1>7, <1>8

\* The new timestamp takes the place of the oldest.
LEMMA StampTimed ==
  ASSUME Typed, Timed, PutStamp
  PROVE  Timed'
  <1> USE Sizes
  <1> USE DEF Timed
  <1>1. /\ UNCHANGED <<counter, paced, pause, reader>>
        /\ age' = [age EXCEPT ![NextIdx] = 0]
        /\ putPc = "stamp" /\ putPc' = "add" /\ pause = 0
    BY DEF PutStamp, Typed, Stages
  <1>2. /\ counter \in Nat /\ Stamped = counter /\ Stamped' = counter + 1
        /\ Credit = Period /\ Credit' = 0 /\ NextIdx = Slot(counter) /\ NextIdx \in Indices
    BY <1>1, TimeTypes, SlotInRange DEF Stamped, Credit, NextIdx, Slot
  <1>3. age \in [Indices -> 0 .. TimeBudget]
    BY DEF Typed, TypeOK
  <1>4. age'[Slot(counter)] = 0
    BY <1>1, <1>2, <1>3
  <1>5. ASSUME NEW i \in Nat, Live(i)', i # counter
        PROVE  Live(i) /\ age'[Slot(i)] = age[Slot(i)]
    <2>1. i < counter /\ counter - i < BufferSize /\ Live(i)
      BY <1>2, <1>5 DEF Live
    <2>2. Slot(i) # Slot(counter)
      BY <2>1, <1>2, SlotsApart
    <2>3. QED
      BY <2>1, <2>2, <1>1, <1>2
  <1>6. Untouched'
    <2> SUFFICES ASSUME NEW i \in Indices, i >= counter + 1 PROVE age'[i] = TimeBudget
      BY <1>2 DEF Untouched
    <2>1. age[i] = TimeBudget
      BY <1>2 DEF Untouched, Indices
    <2>2. i # NextIdx
      <3>1. i \in Nat /\ counter < i /\ i - counter < BufferSize /\ Slot(i) = i
        <4>1. i \in 0 .. BufferSize - 1
          BY DEF Indices
        <4>2. i = BufferSize * 0 + i /\ i \in Nat
          BY <4>1
        <4>3. i % BufferSize = i
          BY <4>1, <4>2, ModUnique
        <4>4. QED
          BY <4>1, <4>3, <1>2 DEF Slot
      <3>2. Slot(counter) # Slot(i)
        BY <3>1, <1>2, SlotsApart
      <3>3. QED
        BY <3>1, <3>2, <1>2
    <2>3. QED
      BY <2>1, <2>2, <1>1
  <1>7. Ordered'
    <2> SUFFICES ASSUME NEW i \in Nat, NEW j \in Nat, Live(i)', Live(j)', i < j
                 PROVE  age'[Slot(j)] <= age'[Slot(i)]
      BY DEF Ordered, Slot
    <2>1. i # counter /\ j <= counter
      BY <1>2 DEF Live
    <2>2. age'[Slot(i)] = age[Slot(i)] /\ Live(i) /\ age[Slot(i)] \in Nat
      BY <2>1, <1>5, TimeTypes
    <2>3. CASE j = counter
      BY <2>2, <2>3, <1>4
    <2>4. CASE j # counter
      BY <2>2, <2>4, <1>5 DEF Ordered
    <2>5. QED
      BY <2>3, <2>4
  <1>8. Rested'
    BY <1>1 DEF Rested
  <1>9. Spaced'
    <2> SUFFICES ASSUME paced, NEW i \in Nat, Live(i)'
                 PROVE  age'[Slot(i)] >= Lesser(TimeBudget, Gap(i)' * Period)
      <3>1. \A i \in Nat : Gap(i)' \in Int /\ Gap(i)' * Period \in Int
        BY <1>2, OneMore DEF Gap
      <3>2. \A i \in Nat : Credit' + Gap(i)' * Period = Gap(i)' * Period
        BY <3>1, <1>2
      <3>3. QED
        BY <3>2, <1>1 DEF Spaced, Slot, Lesser
    <2>1. CASE i = counter
      <3>1. Gap(i)' = 0 \/ Gap(i)' = -1
        BY <1>2, <2>1 DEF Gap
      <3>2. Gap(i)' * Period <= 0 /\ Gap(i)' * Period \in Int
        BY <3>1
      <3>3. QED
        BY <3>2, <1>4, <2>1 DEF Lesser
    <2>2. CASE i # counter
      <3> DEFINE g == Gap(i)
      <3>1. age'[Slot(i)] = age[Slot(i)] /\ Live(i)
        BY <2>2, <1>5
      <3>2. age[Slot(i)] >= Lesser(TimeBudget, Period + g * Period)
        BY <3>1, <1>2 DEF Spaced
      <3>3. g \in Int /\ Gap(i)' = g + 1
        BY <1>2, TimeTypes DEF Gap
      <3> HIDE DEF g
      <3>4. (g + 1) * Period = g * Period + Period /\ g * Period \in Int
        BY <3>3, OneMore
      <3>5. Period + g * Period = (g + 1) * Period
        BY <3>4
      <3>6. QED
        BY <3>1, <3>2, <3>3, <3>5
    <2>3. QED
      BY <2>1, <2>2
  <1>10. ReadTimed'
    <2> SUFFICES ASSUME paced, getPc \in {"copy", "end"}
                 PROVE  elapsed >= Lesser(TimeBudget + 1, (counter - count) * Period)
      <3>1. counter + 1 - count - 1 = counter - count /\ counter - count \in Int
        BY <1>2 DEF Typed, TypeOK
      <3>2. 0 + (counter - count) * Period = (counter - count) * Period
        BY <3>1, OneMore
      <3>3. Stamped' = counter + 1 /\ count' = count
        BY <1>1, <1>2 DEF reader
      <3>4. Credit' + (Stamped' - count' - 1) * Period = (counter - count) * Period
        <4>1. PICK s \in Int, c \in Int, d \in Int : s = Stamped' /\ c = count' /\ d = Credit'
          BY <3>1, <3>3, <1>2 DEF Typed, TypeOK
        <4>2. s = counter + 1 /\ c = count /\ d = 0
          BY ONLY <4>1, <3>3, <1>2
        <4>3. d + (s - c - 1) * Period = (counter - count) * Period
          <5>1. s - c - 1 = counter - count
            BY ONLY <4>2, <1>2, <3>1
          <5>2. d + (s - c - 1) * Period = 0 + (counter - count) * Period
            BY ONLY <4>2, <5>1, Zenon
          <5>3. QED
            BY ONLY <5>2, <3>2
        <4>4. QED
          BY ONLY <4>1, <4>3
      <3>5. elapsed' = elapsed /\ paced' = paced /\ getPc' = getPc
        BY <1>1 DEF reader
      <3>6. QED
        BY <3>4, <3>5 DEF ReadTimed, Lesser
    <2> DEFINE d == counter - count - 1
    <2>1. d \in Int /\ d + 1 = counter - count /\ elapsed \in Nat /\ count <= counter
      BY <1>2 DEF Typed, TypeOK, Stages
    <2>2. CASE count = counter
      <3>1. counter - count = 0 /\ 0 * Period = 0
        BY <2>2, <1>2
      <3>2. QED
        BY <3>1, <2>1 DEF Lesser
    <2>3. CASE count < counter
      <3>1. elapsed >= Lesser(TimeBudget + 1, Period + d * Period)
        BY <2>3, <1>2 DEF ReadTimed
      <3> HIDE DEF d
      <3>2. (d + 1) * Period = Period + d * Period
        BY <2>1, OneMore
      <3>3. QED
        BY <2>1, <3>1, <3>2
    <2>4. QED
      BY <2>1, <2>2, <2>3 DEF Typed, TypeOK
  <1>11. QED
    BY <1>6, <1>7, <1>8, <1>9, <1>10

\* After the first put nothing is slept, so that the second may follow at once.
LEMMA AddTimed ==
  ASSUME Typed, Timed, PutAdd
  PROVE  Timed'
  <1> USE Sizes
  <1> USE DEF Timed
  <1>1. /\ UNCHANGED <<arrays, age, paced, reader>> /\ counter' = counter + 1
        /\ putPc = "add" /\ putPc' = "idle"
        /\ pause' = IF paced /\ counter > 0 THEN Period ELSE 0
    BY DEF PutAdd
  <1>2. counter \in Nat /\ Stamped = counter + 1 /\ Stamped' = Stamped /\ Credit = 0
    BY <1>1, TimeTypes DEF Stamped, Credit
  <1>3. \A i : (Live(i)' <=> Live(i)) /\ Gap(i)' = Gap(i)
    BY <1>2 DEF Live, Gap
  <1>4. Credit' = IF paced /\ counter > 0 THEN 0 ELSE Period
    BY <1>1 DEF Credit
  <1>5. Untouched'
    BY <1>1, <1>2 DEF Untouched
  <1>6. Ordered'
    BY <1>1, <1>3 DEF Ordered, Slot
  <1>7. Rested'
    BY <1>1 DEF Rested
  <1>8. CASE counter > 0 \/ ~paced
    <2>1. paced => Credit' = Credit
      BY <1>2, <1>4, <1>8
    <2>2. Spaced'
      BY <1>1, <1>3, <2>1 DEF Spaced, Slot, Lesser
    <2>3. ReadTimed'
      BY <1>1, <1>2, <2>1 DEF ReadTimed, reader, Lesser
    <2>4. QED
      BY <1>5, <1>6, <1>7, <2>2, <2>3
  <1>9. CASE counter = 0
    <2>1. Spaced'
      <3> SUFFICES ASSUME NEW i \in Nat, Live(i)
                   PROVE  age[Slot(i)] >= Lesser(TimeBudget, Period + Gap(i) * Period)
        BY <1>1, <1>3, <1>4, <1>9 DEF Spaced, Slot, Lesser
      <3>1. i = 0 /\ Gap(i) = -1
        BY <1>2, <1>9 DEF Live, Gap
      <3>2. Period + (-1) * Period = 0
        OBVIOUS
      <3>3. Lesser(TimeBudget, Period + Gap(i) * Period) = 0
        BY <3>1, <3>2 DEF Lesser
      <3>4. QED
        BY <3>3, TimeTypes
    <2>2. ReadTimed'
      <3>1. getPc \notin {"copy", "end"}
        BY <1>9 DEF Typed, TypeOK, Stages
      <3>2. QED
        BY <1>1, <3>1 DEF ReadTimed, reader
    <2>3. QED
      BY <1>5, <1>6, <1>7, <2>1, <2>2
  <1>10. QED
    BY <1>2, <1>8, <1>9

\* An item not counted yet has only just got its timestamp.
LEMMA GetTimed ==
  ASSUME Typed, Timed, Get
  PROVE  Timed'
  <1> USE Sizes
  <1> USE DEF Timed
  <1>1. UNCHANGED <<counter, arrays, age, paced, putPc, putKey, pause>>
    BY DEF Get, GetBegin, GetLoad, GetCopy, GetEnd, producer
  <1>2. Stamped' = Stamped /\ Credit' = Credit /\ PreviewIdx' = PreviewIdx
    BY <1>1 DEF Stamped, Credit, PreviewIdx, NextIdx
  <1>3. \A i : (Live(i)' <=> Live(i)) /\ Gap(i)' = Gap(i)
    BY <1>2 DEF Live, Gap
  <1>4. Untouched' /\ Rested'
    BY <1>1, <1>2 DEF Untouched, Rested
  <1>5. Ordered'
    BY <1>1, <1>3 DEF Ordered, Slot
  <1>6. Spaced'
    BY <1>1, <1>2, <1>3 DEF Spaced, Slot, Lesser
  <1>7. ReadTimed'
    <2>1. CASE GetBegin \/ GetEnd
      BY <2>1 DEF GetBegin, GetEnd, ReadTimed
    <2>2. CASE GetCopy
      <3>1. getPc = "copy" /\ count' = count /\ elapsed' = elapsed
        BY <2>2 DEF GetCopy
      <3>2. QED
        BY <3>1, <1>1, <1>2 DEF ReadTimed, Lesser
    <2>3. CASE GetLoad
      <3>1. count' = counter /\ elapsed' = elapsed /\ elapsed \in Nat /\ counter \in Nat
        BY <2>3, TimeTypes DEF GetLoad
      <3>2. CASE Stamped = counter
        BY <1>2, <3>1, <3>2 DEF ReadTimed
      <3>3. CASE Stamped = counter + 1 /\ Credit = 0
        <4>1. PICK s \in Int, c \in Int, d \in Int : s = Stamped' /\ c = count' /\ d = Credit'
          BY <1>2, <3>1, <3>3
        <4>2. s = counter + 1 /\ c = counter /\ d = 0
          BY ONLY <4>1, <1>2, <3>1, <3>3
        <4>3. s - c - 1 = 0
          BY ONLY <4>2, <3>1
        <4>4. d + (s - c - 1) * Period = 0
          <5>1. d + (s - c - 1) * Period = 0 + 0 * Period
            BY ONLY <4>2, <4>3, Zenon
          <5>2. 0 + 0 * Period = 0
            OBVIOUS
          <5>3. QED
            BY ONLY <5>1, <5>2
        <4>5. Credit' + (Stamped' - count' - 1) * Period = 0
          BY ONLY <4>1, <4>4
        <4>6. QED
          BY <4>5, <3>1 DEF ReadTimed, Lesser
      <3>4. QED
        BY <3>2, <3>3 DEF Stamped, Credit
    <2>4. QED
      BY <2>1, <2>2, <2>3 DEF Get
  <1>8. QED
    BY <1>4, <1>5, <1>6, <1>7

\* So every step keeps what is known of the timestamps,
LEMMA StepTimed == Typed /\ Timed /\ Next => Timed'
  BY TickTimed, PutTimed, StampTimed, AddTimed, GetTimed DEF Next, Put

\* the types,
LEMMA StepTyped == Typed /\ Next => Typed'
  BY TickTyped, PutTyped, GetTyped DEF Next

-----------------------------------------------------------------------------
(* What the slots hold and what a read finds there. *)

\* and the items in their slots.
LEMMA StepStored == Typed /\ Stored /\ Next => Stored'
  <1> SUFFICES ASSUME Typed, Stored, Next PROVE Stored'
    OBVIOUS
  <1> USE Sizes
  <1>1. counter \in Nat /\ \A i : Slot(i)' = Slot(i)
    BY TimeTypes DEF Slot
  <1>2. CASE PutWrite
    <2>1. /\ putPc = "write" /\ putKey \in Keys /\ counter' = counter /\ putKey' = putKey + 1
          /\ putPc' = IF putKey = NumKeys THEN "stamp" ELSE "write"
          /\ arrays' = [arrays EXCEPT ![putKey][Slot(counter) + 1] = counter + 1]
          /\ arrays \in [Keys -> [1 .. BufferSize -> 0 .. MaxPuts]]
      BY <1>2 DEF PutWrite, NextIdx, Slot, Typed, TypeOK, Stages
    <2>2. Slot(counter) + 1 \in 1 .. BufferSize
      BY <1>1, SlotInRange
    <2>3. \A key \in Keys : key = putKey => Written(key) = counter /\ Written(key)' = counter + 1
      BY <2>1 DEF Written, Keys
    <2>4. \A key \in Keys : key # putKey => Written(key)' = Written(key) /\ arrays'[key] = arrays[key]
      BY <2>1 DEF Written, Keys
    <2> SUFFICES ASSUME NEW key \in Keys, NEW i \in Nat,
                        i < Written(key)', i >= Written(key)' - BufferSize
                 PROVE  arrays'[key][Slot(i) + 1] = i + 1
      BY <1>1 DEF Stored
    <2>5. CASE key # putKey
      BY <2>4, <2>5 DEF Stored
    <2>6. CASE key = putKey /\ i = counter
      BY <2>1, <2>2, <2>6
    <2>7. CASE key = putKey /\ i # counter
      <3>1. i < counter /\ i >= counter - BufferSize /\ counter - i < BufferSize
        BY <1>1, <2>3, <2>7
      <3>2. Slot(i) # Slot(counter) /\ Slot(i) \in Indices /\ Slot(counter) \in Indices
        BY <1>1, <3>1, SlotsApart, SlotInRange
      <3>3. Slot(i) + 1 # Slot(counter) + 1
        BY <3>2 DEF Indices
      <3>4. arrays'[key][Slot(i) + 1] = arrays[key][Slot(i) + 1]
        BY <2>1, <2>7, <3>3
      <3>5. QED
        BY <3>1, <3>4, <2>3, <2>7 DEF Stored
    <2>8. QED
      BY <2>5, <2>6, <2>7
  <1>3. CASE PutBegin \/ PutCheck \/ PutTimeout \/ PutStamp \/ PutAdd \/ Tick \/ Get
    <2>1. arrays' = arrays /\ \A key \in Keys : Written(key)' = Written(key)
      BY <1>1, <1>3
         DEF PutBegin, PutCheck, PutTimeout, PutStamp, PutAdd, Tick, Written, Keys,
             Get, GetBegin, GetLoad, GetCopy, GetEnd, producer
    <2>2. QED
      BY <1>1, <2>1 DEF Stored
  <1>4. QED
    BY <1>2, <1>3 DEF Next, Put

\* Within the budget the producer does not come to write what a read copies.
LEMMA BudgetHolds ==
  ASSUME Typed, Timed, paced, getPc = "copy", elapsed <= TimeBudget, NEW key \in Keys
  PROVE  Written(key) \in count .. count + SpareSlots
  <1> USE Sizes
  <1> DEFINE d == Stamped - count - 1
             g == d * Period
  <1>1. /\ counter \in Nat /\ Stamped \in Nat /\ Credit \in 0 .. Period /\ d \in Int /\ g \in Int
        /\ elapsed \in Nat /\ count \in Nat /\ count <= counter
    <2>1. elapsed \in Nat /\ count \in Nat /\ count <= counter
      BY DEF Typed, TypeOK, Stages
    <2>2. QED
      BY <2>1, TimeTypes
  <1>2. Written(key) \in counter .. counter + 1
    BY <1>1 DEF Written
  <1>3. d >= 0 => elapsed >= Lesser(TimeBudget + 1, Credit + g)
    BY <1>1 DEF Timed, ReadTimed
  <1> DEFINE late == Credit + g
  <1>4. d >= 0 => late <= TimeBudget
    BY <1>1, <1>3 DEF Lesser
  <1>5. d < SpareSlots
    <2> SUFFICES ASSUME d >= SpareSlots PROVE FALSE
      BY <1>1
    <2>1. g > TimeBudget
      BY <1>1, SpareOutlast
    <2> HIDE DEF g, d
    <2>2. QED
      BY <1>1, <1>4, <2>1
  <1>6. CASE putPc \notin {"write", "stamp"}
    <2>1. Written(key) = Stamped
      BY <1>6 DEF Written, Stamped
    <2>2. QED
      BY <1>1, <1>2, <1>5, <2>1
  <1>7. CASE putPc \in {"write", "stamp"}
    <2>1. Stamped = counter /\ Credit = Period
      BY <1>7 DEF Stamped, Credit, Typed, Stages
    <2>2. d + 1 < SpareSlots
      <3> SUFFICES ASSUME d + 1 >= SpareSlots PROVE FALSE
        BY <1>1
      <3>1. (d + 1) * Period > TimeBudget /\ (d + 1) * Period = g + Period
        BY <1>1, SpareOutlast, OneMore
      <3>2. d >= 0
        BY <1>1
      <3> HIDE DEF g, d
      <3>3. QED
        BY <1>1, <1>4, <2>1, <3>1, <3>2
    <2>3. QED
      BY <1>1, <1>2, <2>1, <2>2
  <1>8. QED
    BY <1>6, <1>7

\* So a read copies whole items.
LEMMA CopyIntact ==
  ASSUME Typed, Timed, Stored, GetCopy, paced, elapsed <= TimeBudget
  PROVE  LastK(arrays[getKey]) = [i \in 1 .. k |-> count - k + i]
  <1> USE Sizes
  <1> DEFINE arr == arrays[getKey]
             copy == LastK(arr)
  <1>1. /\ getPc = "copy" /\ getKey \in Keys /\ k \in Nat \ {0} /\ k <= count /\ k <= GetMaxK
        /\ count \in Nat /\ arr \in [1 .. BufferSize -> Nat]
    BY DEF GetCopy, Typed, TypeOK, Stages
  <1>2. Written(getKey) \in count .. count + SpareSlots
    BY <1>1, BudgetHolds
  <1> HIDE DEF arr
  <1>3. /\ copy \in Seq(Nat) /\ Len(copy) = k
        /\ \A i \in 1 .. k : copy[i] = arr[((count - k + i - 1) % BufferSize) + 1]
    BY ONLY <1>1, LastKItems
  <1>4. ASSUME NEW i \in 1 .. k PROVE copy[i] = count - k + i
    <2> DEFINE j == count - k + i - 1
    <2>1. j \in Nat /\ j < Written(getKey) /\ j >= Written(getKey) - BufferSize
      BY <1>1, <1>2
    <2>2. copy[i] = arr[Slot(j) + 1]
      BY <1>3 DEF Slot
    <2>3. arr[Slot(j) + 1] = j + 1
      <3> HIDE DEF j
      <3>1. QED
        BY <1>1, <2>1 DEF Stored, arr
    <2>4. j + 1 = count - k + i
      BY <1>1
    <2>5. QED
      BY <2>2, <2>3, <2>4
  <1> HIDE DEF copy
  <1>5. copy = [i \in 1 .. k |-> copy[i]]
    BY ONLY <1>1, <1>3
  <1>6. copy = [i \in 1 .. k |-> count - k + i]
    BY ONLY <1>4, <1>5
  <1>7. QED
    BY <1>6 DEF copy, arr

\* What the reader has copied within its budget stays intact.
LEMMA StepCopied == RingInv /\ Next => Copied'
  <1> SUFFICES ASSUME RingInv, Next PROVE Copied'
    OBVIOUS
  <1> USE Sizes DEF RingInv
  <1>1. CASE Tick
    <2> SUFFICES ASSUME paced, elapsed' <= TimeBudget,
                        NEW key \in Keys, getPc = "end" \/ (getPc = "copy" /\ key < getKey)
                 PROVE  out[key] = [i \in 1 .. k |-> count - k + i]
      BY <1>1 DEF Copied, Tick
    <2>1. elapsed' = Lesser(elapsed + 1, TimeBudget + 1) /\ elapsed \in Nat
      BY <1>1 DEF Tick, Typed, TypeOK
    <2>2. elapsed <= TimeBudget
      BY <2>1 DEF Lesser
    <2>3. QED
      BY <2>2 DEF Copied
  <1>2. CASE Put
    BY <1>2 DEF Copied, Put, PutBegin, PutCheck, PutTimeout, PutWrite, PutStamp, PutAdd, reader
  <1>3. CASE GetBegin \/ GetEnd
    BY <1>3 DEF Copied, GetBegin, GetEnd
  <1>4. CASE GetLoad
    BY <1>4 DEF Copied, GetLoad, Keys
  <1>5. CASE GetCopy
    <2> DEFINE copy == LastK(arrays[getKey])
    <2>1. /\ getPc = "copy" /\ getKey \in Keys /\ getKey' = getKey + 1
          /\ getPc' = IF getKey = NumKeys THEN "end" ELSE "copy"
          /\ UNCHANGED <<k, count, elapsed, paced>>
          /\ out' = [out EXCEPT ![getKey] = copy] /\ out \in [Keys -> Seq(Nat)]
      BY <1>5 DEF GetCopy, producer, Typed, Stages
    <2> SUFFICES ASSUME paced, elapsed <= TimeBudget,
                        NEW key \in Keys, getPc' = "end" \/ (getPc' = "copy" /\ key < getKey')
                 PROVE  out'[key] = [i \in 1 .. k |-> count - k + i]
      BY <2>1 DEF Copied
    <2>2. copy = [i \in 1 .. k |-> count - k + i]
      BY <1>5, CopyIntact
    <2> HIDE DEF copy
    <2>3. CASE key = getKey
      BY <2>1, <2>2, <2>3
    <2>4. CASE key # getKey
      <3>1. key < getKey
        BY <2>1, <2>4 DEF Keys
      <3>2. out'[key] = out[key]
        BY <2>1, <2>4
      <3>3. out[key] = [i \in 1 .. k |-> count - k + i]
        BY <2>1, <3>1 DEF Copied
      <3>4. QED
        BY <3>2, <3>3
    <2>5. QED
      BY <2>3, <2>4
  <1>6. QED
    BY <1>1, <1>2, <1>3, <1>4, <1>5 DEF Next, Get

\* So every step keeps the invariant.
LEMMA RingStep == RingInv /\ [Next]_vars => RingInv'
  <1>1. RingInv /\ Next => RingInv'
    BY StepTyped, StepTimed, StepStored, StepCopied DEF RingInv
  <1>2. RingInv /\ UNCHANGED vars => RingInv'
    BY DEF RingInv, Typed, TypeOK, Stages, Timed, Untouched, Ordered, Rested, Spaced, ReadTimed,
           Stored, Copied, Live, Stamped, Slot, Credit, Gap, Written, PreviewIdx, NextIdx, Lesser,
           vars, producer, reader
  <1>3. QED
    BY <1>1, <1>2

\* In every reachable state the inductive invariant holds.
THEOREM Invariance == Spec => []RingInv
  <1>1. Init => RingInv
    BY InitRing
  <1>2. RingInv /\ [Next]_vars => RingInv'
    BY RingStep
  <1>3. QED
    BY <1>1, <1>2, PTL DEF Spec

-----------------------------------------------------------------------------
(* The theorems. *)

\* The slots that follow the next one: those of the oldest items, or never written.
LEMMA SlotsAhead ==
  ASSUME Typed, NEW i \in 0 .. BufferSize - 1
  PROVE  (NextIdx + i) % BufferSize =
           IF counter + i < BufferSize THEN counter + i ELSE Slot(counter + i - BufferSize)
  <1> DEFINE b == BufferSize
             q == counter \div b
             n == counter % b
  <1>1. b \in Nat \ {0} /\ counter \in Nat /\ i \in 0 .. b - 1
    BY Sizes, TimeTypes
  <1> HIDE DEF b
  <1>2. q \in Nat /\ n \in 0 .. b - 1 /\ counter = b * q + n
    BY ONLY <1>1, DivMod
  <1> HIDE DEF q, n
  <1> DEFINE m == n + i
             p == m \div b
             r == m % b
  <1>3. m \in Nat
    BY <1>1, <1>2
  <1> HIDE DEF m
  <1>4. p \in Nat /\ r \in 0 .. b - 1 /\ m = b * p + r
    BY ONLY <1>1, <1>3, DivMod
  <1> HIDE DEF p, r
  <1>5. (NextIdx + i) % BufferSize = r
    BY DEF NextIdx, n, b, m, r
  <1>6. /\ b * q \in Nat /\ b * p \in Nat /\ b * (q + p) = b * q + b * p
        /\ b * (q + p - 1) = b * q + b * p - b
    BY <1>1, <1>2, <1>4
  <1>7. counter + i = b * (q + p) + r
    BY <1>1, <1>2, <1>4, <1>6 DEF m
  <1>8. CASE counter + i < b
    <2>1. q + p = 0
      <3> SUFFICES ASSUME q + p >= 1 PROVE FALSE
        BY <1>2, <1>4
      <3>1. b * (q + p - 1) >= 0
        BY <1>1, <1>2, <1>4
      <3>2. QED
        BY <3>1, <1>1, <1>4, <1>6, <1>7, <1>8
    <2>2. b * (q + p) = 0
      BY <2>1, <1>1
    <2>3. QED
      BY <2>2, <1>1, <1>4, <1>5, <1>7, <1>8 DEF b
  <1>9. CASE counter + i >= b
    <2> DEFINE t == q + p - 1
               j == counter + i - b
    <2>1. q + p # 0
      <3> SUFFICES ASSUME q + p = 0 PROVE FALSE
        OBVIOUS
      <3>1. b * (q + p) = 0
        BY <1>1
      <3>2. QED
        BY <3>1, <1>1, <1>4, <1>7, <1>9
    <2>2. t \in Nat /\ j \in Nat /\ j = b * t + r
      BY <2>1, <1>1, <1>2, <1>4, <1>6, <1>7, <1>9
    <2> HIDE DEF t
    <2> HIDE DEF j
    <2>3. j % b = r
      BY ONLY <2>2, <1>1, <1>4, ModUnique
    <2>4. QED
      BY <2>3, <1>1, <1>5, <1>9 DEF Slot, b, j
  <1>10. QED
    BY <1>1, <1>8, <1>9

\* The slot that put checks is the one of the item before the spare ones.
LEMMA PreviewSlot ==
  ASSUME Typed
  PROVE  /\ counter <= SpareSlots => PreviewIdx = counter + GetMaxK - 1
         /\ counter > SpareSlots => PreviewIdx = Slot(counter - SpareSlots - 1)
  <1> DEFINE i == GetMaxK - 1
  <1>1. i \in 0 .. BufferSize - 1 /\ counter \in Nat
    BY Sizes, TimeTypes
  <1>2. (NextIdx + i) % BufferSize =
          IF counter + i < BufferSize THEN counter + i ELSE Slot(counter + i - BufferSize)
    BY <1>1, SlotsAhead
  <1>3. NextIdx + i = NextIdx + GetMaxK - 1
    <2>1. NextIdx \in Int
      BY <1>1, Sizes, DivMod DEF NextIdx
    <2>2. QED
      BY <2>1, Sizes
  <1>4. PreviewIdx = (NextIdx + i) % BufferSize
    BY <1>3 DEF PreviewIdx
  <1>5. /\ counter <= SpareSlots <=> counter + i < BufferSize
        /\ counter + i - BufferSize = counter - SpareSlots - 1 /\ counter + i = counter + GetMaxK - 1
    BY <1>1, Sizes
  <1>6. QED
    BY <1>1, <1>2, <1>4, <1>5, Sizes

\* Every variable of the ring buffer keeps its type, and a copy the length asked for.
THEOREM TypeCorrect == Spec => []TypeOK
  <1>1. RingInv => TypeOK
    BY DEF RingInv, Typed
  <1>2. QED
    BY <1>1, Invariance, PTL

\* A read within the budget returns the last k items whole, whatever the budget, the
\* period, the number of keys and k, when the producer keeps its pace.
THEOREM ReadsIntact == Spec => []PacedReadsIntact
  <1>1. RingInv => PacedReadsIntact
    BY DEF RingInv, Copied, PacedReadsIntact, Intact
  <1>2. QED
    BY <1>1, Invariance, PTL

\* A producer that pauses for a period after its puts is never made to wait.
THEOREM Sustained == Spec => []PaceIsSustained
  <1>1. RingInv => PaceIsSustained
    <2> SUFFICES ASSUME RingInv, paced, putPc = "check" PROVE age[PreviewIdx] >= TimeBudget
      <3>1. RingInv => age[PreviewIdx] \in Nat
        BY TimeTypes DEF RingInv, Typed, TypeOK
      <3>2. QED
        BY <3>1, Sizes DEF PaceIsSustained, TooFast
    <2> USE Sizes DEF RingInv
    <2>1. counter \in Nat /\ Stamped = counter /\ Credit = Period
      BY TimeTypes DEF Stamped, Credit, Typed, Stages
    <2>2. CASE counter <= SpareSlots
      <3>1. PreviewIdx = counter + GetMaxK - 1
        BY <2>2, PreviewSlot
      <3>2. PreviewIdx \in Indices /\ PreviewIdx >= counter
        BY <2>1, <2>2, <3>1 DEF Indices
      <3>3. QED
        BY <2>1, <3>2 DEF Timed, Untouched
    <2>3. CASE counter > SpareSlots
      <3> DEFINE i == counter - SpareSlots - 1
      <3>1. PreviewIdx = Slot(i)
        BY <2>3, PreviewSlot
      <3>2. i \in Nat /\ Live(i) /\ Gap(i) \in Int /\ Gap(i) + 1 >= SpareSlots
        BY <2>1, <2>3 DEF Live, Gap
      <3> HIDE DEF i
      <3>3. age[Slot(i)] >= Lesser(TimeBudget, Period + Gap(i) * Period)
        BY <2>1, <3>2 DEF Timed, Spaced
      <3> DEFINE d == Gap(i)
      <3> HIDE DEF d
      <3>4. d \in Int /\ d + 1 >= SpareSlots
        BY <3>2 DEF d
      <3>5. (d + 1) * Period > TimeBudget /\ (d + 1) * Period = d * Period + Period /\ d * Period \in Int
        BY <3>4, SpareOutlast, OneMore
      <3>6. Period + d * Period > TimeBudget
        BY <3>5
      <3>7. Lesser(TimeBudget, Period + d * Period) = TimeBudget
        BY <3>5, <3>6 DEF Lesser
      <3>8. QED
        BY <3>1, <3>3, <3>7 DEF d
    <2>4. QED
      BY <2>1, <2>2, <2>3
  <1>2. QED
    BY <1>1, Invariance, PTL

\* The next get_max_k slots are rested when put begins to write, with any pace.
THEOREM SlotsRested == Spec => []NextSlotsRested
  <1>1. RingInv => NextSlotsRested
    <2> SUFFICES ASSUME RingInv, putPc = "write", NEW i \in 0 .. GetMaxK - 1
                 PROVE  age[(NextIdx + i) % BufferSize] >= TimeBudget
      BY DEF NextSlotsRested
    <2> USE Sizes DEF RingInv
    <2>1. counter \in Nat /\ Stamped = counter /\ i \in 0 .. BufferSize - 1
      BY TimeTypes DEF Stamped
    <2>2. (NextIdx + i) % BufferSize =
            IF counter + i < BufferSize THEN counter + i ELSE Slot(counter + i - BufferSize)
      BY <2>1, SlotsAhead
    <2>3. CASE counter + i < BufferSize
      <3>1. counter + i \in Indices /\ counter + i >= Stamped
        BY <2>1, <2>3 DEF Indices
      <3>2. QED
        BY <2>2, <2>3, <3>1 DEF Timed, Untouched
    <2>4. CASE counter + i >= BufferSize
      <3> DEFINE j == counter + i - BufferSize
                 p == counter - SpareSlots - 1
      <3>1. j \in Nat /\ p \in Nat /\ j <= p /\ Live(j) /\ Live(p) /\ counter > SpareSlots
        BY <2>1, <2>4 DEF Live
      <3>2. age[Slot(p)] = TimeBudget
        BY <3>1, PreviewSlot DEF Timed, Rested
      <3> HIDE DEF j, p
      <3>5. age[Slot(j)] \in 0 .. TimeBudget /\ age[Slot(p)] \in 0 .. TimeBudget
        BY <3>1, TimeTypes
      <3>6. j < p => age[Slot(p)] <= age[Slot(j)]
        BY <3>1 DEF Timed, Ordered
      <3>3. age[Slot(p)] <= age[Slot(j)] /\ age[Slot(j)] \in Nat
        BY <3>1, <3>5, <3>6
      <3>4. (NextIdx + i) % BufferSize = Slot(j)
        BY <2>1, <2>2, <2>4 DEF j
      <3>7. QED
        BY <3>2, <3>3, <3>4
    <2>5. QED
      BY <2>1, <2>3, <2>4
  <1>2. QED
    BY <1>1, Invariance, PTL

-----------------------------------------------------------------------------
(* Reads of few items at any pace.  What put checks is too weak for get_max_k items, *)
(* but a read remembers how long it lasts: an item put during it is younger, and so  *)
(* put waits before it comes round to the items the read copies.                     *)

\* Items put after the first one that follows the count have timestamps of the read.
Younger ==
  getPc \in {"copy", "end"} => \A i \in Nat : Live(i) /\ i > count => age[Slot(i)] <= elapsed

\* The items whose writing put has begun.
Begun == IF putPc \in {"write", "stamp", "add"} THEN counter + 1 ELSE counter

\* Within the budget put begins to write only so many items.
Behind == getPc \in {"copy", "end"} /\ elapsed < TimeBudget => Begun <= count + SpareSlots + 2

\* What a read of few items has copied before the budget was over.
CopiedFew ==
  elapsed < TimeBudget /\ k + 2 <= GetMaxK =>
    \A key \in Keys : getPc = "end" \/ (getPc = "copy" /\ key < getKey) =>
      out[key] = [i \in 1 .. k |-> count - k + i]

FewInv == Younger /\ Behind /\ CopiedFew

\* Timestamps grow older with the read, and new ones start from zero.
LEMMA StepYounger == RingInv /\ Younger /\ Next => Younger'
  <1> SUFFICES ASSUME RingInv, Younger, Next PROVE Younger'
    OBVIOUS
  <1> USE Sizes DEF RingInv
  <1>1. /\ counter \in Nat /\ Stamped \in counter .. counter + 1 /\ \A i : Slot(i)' = Slot(i)
        /\ \A i \in Nat : age[Slot(i)] \in 0 .. TimeBudget /\ Slot(i) \in Indices
        /\ elapsed \in 0 .. TimeBudget + 1
    BY TimeTypes, SlotInRange DEF Slot
  <1>2. CASE Tick
    <2>1. /\ UNCHANGED <<counter, putPc, getPc, count>>
          /\ age' = [i \in Indices |-> Lesser(age[i] + 1, TimeBudget)]
          /\ getPc # "idle" => elapsed' = Lesser(elapsed + 1, TimeBudget + 1)
      BY <1>2 DEF Tick
    <2> SUFFICES ASSUME getPc \in {"copy", "end"}, NEW i \in Nat, Live(i), i > count
                 PROVE  age'[Slot(i)] <= elapsed'
      BY <1>1, <2>1 DEF Younger, Live, Stamped
    <2>2. age[Slot(i)] <= elapsed
      BY DEF Younger
    <2>3. age'[Slot(i)] = Lesser(age[Slot(i)] + 1, TimeBudget)
      BY <1>1, <2>1
    <2>4. QED
      BY <1>1, <2>1, <2>2, <2>3 DEF Lesser
  <1>3. CASE PutStamp
    <2>1. /\ UNCHANGED <<counter, reader>> /\ age' = [age EXCEPT ![NextIdx] = 0]
          /\ Stamped = counter /\ Stamped' = counter + 1 /\ NextIdx = Slot(counter)
      BY <1>3 DEF PutStamp, Stamped, NextIdx, Slot
    <2>2. age \in [Indices -> 0 .. TimeBudget]
      BY DEF Typed, TypeOK
    <2> SUFFICES ASSUME getPc \in {"copy", "end"}, NEW i \in Nat, Live(i)', i > count
                 PROVE  age'[Slot(i)] <= elapsed
      BY <1>1, <2>1 DEF Younger, reader
    <2>3. CASE i = counter
      BY <1>1, <2>1, <2>2, <2>3
    <2>4. CASE i # counter
      <3>1. i < counter /\ counter - i < BufferSize /\ Live(i)
        BY <1>1, <2>1, <2>4 DEF Live
      <3>2. Slot(i) # Slot(counter)
        BY <1>1, <3>1, SlotsApart
      <3>3. age'[Slot(i)] = age[Slot(i)]
        BY <1>1, <2>1, <2>2, <3>2
      <3>4. QED
        BY <3>1, <3>3 DEF Younger
    <2>5. QED
      BY <2>3, <2>4
  <1>4. CASE PutBegin \/ PutCheck \/ PutTimeout \/ PutWrite \/ PutAdd
    <2>1. UNCHANGED <<age, reader>> /\ Stamped' = Stamped
      BY <1>4 DEF PutBegin, PutCheck, PutTimeout, PutWrite, PutAdd, Stamped
    <2>2. QED
      BY <1>1, <2>1 DEF Younger, Live, reader
  <1>5. CASE GetLoad
    <2>1. UNCHANGED <<counter, age, putPc, elapsed>> /\ count' = counter
      BY <1>5 DEF GetLoad, producer
    <2>2. Stamped' = Stamped
      BY <2>1 DEF Stamped
    <2>3. ASSUME NEW i \in Nat PROVE ~(Live(i)' /\ i > count')
      BY <1>1, <2>1, <2>2 DEF Live
    <2>4. QED
      BY <2>3 DEF Younger
  <1>6. CASE GetCopy
    <2>1. UNCHANGED <<counter, age, putPc, elapsed, count>> /\ getPc = "copy"
      BY <1>6 DEF GetCopy, producer
    <2>2. Stamped' = Stamped
      BY <2>1 DEF Stamped
    <2>3. QED
      BY <1>1, <2>1, <2>2 DEF Younger, Live
  <1>7. CASE GetBegin \/ GetEnd
    BY <1>7 DEF GetBegin, GetEnd, Younger
  <1>8. QED
    BY <1>2, <1>3, <1>4, <1>5, <1>6, <1>7 DEF Next, Put, Get

\* What put finds in the slot it checks lies before the count, or the budget is over.
LEMMA StepBehind == RingInv /\ Younger /\ Behind /\ Next => Behind'
  <1> SUFFICES ASSUME RingInv, Younger, Behind, Next PROVE Behind'
    OBVIOUS
  <1> USE Sizes DEF RingInv
  <1>1. /\ counter \in Nat /\ count \in Nat /\ elapsed \in 0 .. TimeBudget + 1
        /\ Begun \in counter .. counter + 1
    <2>1. counter \in Nat /\ count \in Nat /\ elapsed \in 0 .. TimeBudget + 1
      BY TimeTypes DEF Typed, TypeOK
    <2>2. QED
      BY <2>1 DEF Begun
  <1>2. CASE Tick
    <2>1. /\ UNCHANGED <<counter, putPc, getPc, count>>
          /\ getPc # "idle" => elapsed' = Lesser(elapsed + 1, TimeBudget + 1)
      BY <1>2 DEF Tick
    <2>2. Begun' = Begun
      BY <2>1 DEF Begun
    <2>3. getPc \in {"copy", "end"} /\ elapsed' < TimeBudget => elapsed < TimeBudget
      BY <1>1, <2>1 DEF Lesser
    <2>4. QED
      BY <1>1, <2>1, <2>2, <2>3 DEF Behind
  <1>3. CASE PutCheck
    <2>1. UNCHANGED <<counter, reader>> /\ putPc = "check" /\ putPc' = "write" /\ ~TooFast
      BY <1>3 DEF PutCheck
    <2>2. Begun' = counter + 1 /\ Stamped = counter
      BY <2>1 DEF Begun, Stamped
    <2> SUFFICES ASSUME getPc \in {"copy", "end"}, elapsed < TimeBudget
                 PROVE  counter <= count + SpareSlots + 1
      BY <1>1, <2>1, <2>2 DEF Behind, reader
    <2> DEFINE i == counter - SpareSlots - 1
    <2>3. SUFFICES ASSUME i > count PROVE FALSE
      BY <1>1
    <2>4. i \in Nat /\ Live(i) /\ counter > SpareSlots
      BY <1>1, <2>2, <2>3 DEF Live
    <2>5. PreviewIdx = Slot(i)
      BY <2>4, PreviewSlot
    <2> HIDE DEF i
    <2>6. age[Slot(i)] <= elapsed /\ age[Slot(i)] \in Nat
      BY <2>3, <2>4, TimeTypes DEF Younger
    <2>7. ~(age[Slot(i)] < TimeBudget)
      BY <2>1, <2>5 DEF TooFast
    <2>8. QED
      BY <1>1, <2>6, <2>7
  <1>4. CASE PutBegin \/ PutTimeout \/ PutWrite \/ PutStamp \/ PutAdd
    <2>1. UNCHANGED reader /\ Begun' = Begun
      BY <1>4 DEF PutBegin, PutTimeout, PutWrite, PutStamp, PutAdd, Begun
    <2>2. QED
      BY <1>1, <2>1 DEF Behind, reader
  <1>5. CASE GetLoad
    <2>1. UNCHANGED <<counter, putPc>> /\ count' = counter
      BY <1>5 DEF GetLoad, producer
    <2>2. Begun' = Begun
      BY <2>1 DEF Begun
    <2>3. QED
      BY <1>1, <2>1, <2>2 DEF Behind
  <1>6. CASE GetCopy
    <2>1. UNCHANGED <<counter, putPc, elapsed, count>> /\ getPc = "copy"
      BY <1>6 DEF GetCopy, producer
    <2>2. Begun' = Begun
      BY <2>1 DEF Begun
    <2>3. QED
      BY <1>1, <2>1, <2>2 DEF Behind
  <1>7. CASE GetBegin \/ GetEnd
    BY <1>7 DEF GetBegin, GetEnd, Behind
  <1>8. QED
    BY <1>2, <1>3, <1>4, <1>5, <1>6, <1>7 DEF Next, Put, Get

\* So a read of few items copies whole items.
LEMMA FewCopyIntact ==
  ASSUME Typed, Stored, Behind, GetCopy, elapsed < TimeBudget, k + 2 <= GetMaxK
  PROVE  LastK(arrays[getKey]) = [i \in 1 .. k |-> count - k + i]
  <1> USE Sizes
  <1> DEFINE arr == arrays[getKey]
             copy == LastK(arr)
  <1>1. /\ getPc = "copy" /\ getKey \in Keys /\ k \in Nat \ {0} /\ k <= count /\ k <= GetMaxK
        /\ count \in Nat /\ counter \in Nat /\ count <= counter
        /\ arr \in [1 .. BufferSize -> Nat]
    BY DEF GetCopy, Typed, TypeOK, Stages
  <1>2. Written(getKey) \in count .. count - k + BufferSize
    <2>1. Written(getKey) \in counter .. Begun
      BY <1>1 DEF Written, Begun
    <2>2. Begun \in Nat /\ Begun <= count + SpareSlots + 2
      BY <1>1 DEF Begun, Behind
    <2>3. QED
      BY <1>1, <2>1, <2>2
  <1> HIDE DEF arr
  <1>3. /\ copy \in Seq(Nat) /\ Len(copy) = k
        /\ \A i \in 1 .. k : copy[i] = arr[((count - k + i - 1) % BufferSize) + 1]
    BY ONLY <1>1, LastKItems
  <1>4. ASSUME NEW i \in 1 .. k PROVE copy[i] = count - k + i
    <2> DEFINE j == count - k + i - 1
    <2>1. j \in Nat /\ j < Written(getKey) /\ j >= Written(getKey) - BufferSize
      BY <1>1, <1>2
    <2>2. copy[i] = arr[Slot(j) + 1]
      BY <1>3 DEF Slot
    <2>3. arr[Slot(j) + 1] = j + 1
      <3> HIDE DEF j
      <3>1. QED
        BY <1>1, <2>1 DEF Stored, arr
    <2>4. j + 1 = count - k + i
      BY <1>1
    <2>5. QED
      BY <2>2, <2>3, <2>4
  <1> HIDE DEF copy
  <1>5. copy = [i \in 1 .. k |-> copy[i]]
    BY ONLY <1>1, <1>3
  <1>6. copy = [i \in 1 .. k |-> count - k + i]
    BY ONLY <1>4, <1>5
  <1>7. QED
    BY <1>6 DEF copy, arr

\* And what it has copied stays so.
LEMMA StepCopiedFew == RingInv /\ Behind /\ CopiedFew /\ Next => CopiedFew'
  <1> SUFFICES ASSUME RingInv, Behind, CopiedFew, Next PROVE CopiedFew'
    OBVIOUS
  <1> USE Sizes DEF RingInv
  <1>1. CASE Tick
    <2> SUFFICES ASSUME elapsed' < TimeBudget, k + 2 <= GetMaxK,
                        NEW key \in Keys, getPc = "end" \/ (getPc = "copy" /\ key < getKey)
                 PROVE  out[key] = [i \in 1 .. k |-> count - k + i]
      BY <1>1 DEF CopiedFew, Tick
    <2>1. elapsed' = Lesser(elapsed + 1, TimeBudget + 1) /\ elapsed \in Nat
      BY <1>1 DEF Tick, Typed, TypeOK
    <2>2. elapsed < TimeBudget
      BY <2>1 DEF Lesser
    <2>3. QED
      BY <2>2 DEF CopiedFew
  <1>2. CASE Put
    BY <1>2
       DEF CopiedFew, Put, PutBegin, PutCheck, PutTimeout, PutWrite, PutStamp, PutAdd, reader
  <1>3. CASE GetBegin \/ GetEnd
    BY <1>3 DEF CopiedFew, GetBegin, GetEnd
  <1>4. CASE GetLoad
    BY <1>4 DEF CopiedFew, GetLoad, Keys
  <1>5. CASE GetCopy
    <2> DEFINE copy == LastK(arrays[getKey])
    <2>1. /\ getPc = "copy" /\ getKey \in Keys /\ getKey' = getKey + 1
          /\ getPc' = IF getKey = NumKeys THEN "end" ELSE "copy"
          /\ UNCHANGED <<k, count, elapsed>>
          /\ out' = [out EXCEPT ![getKey] = copy] /\ out \in [Keys -> Seq(Nat)]
      BY <1>5 DEF GetCopy, producer, Typed, Stages
    <2> SUFFICES ASSUME elapsed < TimeBudget, k + 2 <= GetMaxK,
                        NEW key \in Keys, getPc' = "end" \/ (getPc' = "copy" /\ key < getKey')
                 PROVE  out'[key] = [i \in 1 .. k |-> count - k + i]
      BY <2>1 DEF CopiedFew
    <2>2. copy = [i \in 1 .. k |-> count - k + i]
      BY <1>5, FewCopyIntact
    <2> HIDE DEF copy
    <2>3. CASE key = getKey
      BY <2>1, <2>2, <2>3
    <2>4. CASE key # getKey
      <3>1. key < getKey
        BY <2>1, <2>4 DEF Keys
      <3>2. out'[key] = out[key]
        BY <2>1, <2>4
      <3>3. out[key] = [i \in 1 .. k |-> count - k + i]
        BY <2>1, <3>1 DEF CopiedFew
      <3>4. QED
        BY <3>2, <3>3
    <2>5. QED
      BY <2>3, <2>4
  <1>6. QED
    BY <1>1, <1>2, <1>3, <1>4, <1>5 DEF Next, Get

\* In every reachable state this holds beside the invariant of the buffer.
LEMMA FewInvariance == Spec => []FewInv
  <1>1. Init => FewInv
    BY DEF Init, FewInv, Younger, Behind, CopiedFew
  <1>2. RingInv /\ FewInv /\ [Next]_vars => FewInv'
    <2>1. RingInv /\ FewInv /\ Next => FewInv'
      BY StepYounger, StepBehind, StepCopiedFew DEF FewInv
    <2>2. FewInv /\ UNCHANGED vars => FewInv'
      BY DEF FewInv, Younger, Behind, CopiedFew, Begun, Live, Stamped, Slot, vars, producer, reader
    <2>3. QED
      BY <2>1, <2>2
  <1>3. QED
    BY <1>1, <1>2, Invariance, PTL DEF Spec

\* A read of at least two items fewer than get_max_k that ends before the budget does
\* returns them whole at any pace, whatever the budget, the period and the sizes.
THEOREM FewIntact == Spec => []FewItemsIntact
  <1>1. RingInv /\ FewInv => FewItemsIntact
    BY DEF FewInv, CopiedFew, FewItemsIntact, Intact
  <1>2. QED
    BY <1>1, Invariance, FewInvariance, PTL

=============================================================================
