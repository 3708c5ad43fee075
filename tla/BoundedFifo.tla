----------------------------- MODULE BoundedFifo -----------------------------
(***************************************************************************)
(* What SharedMemoryQueue promises ("A Lock-Free FIFO Shared Memory Data   *)
(* Structure.  Stores a sequence of dict of numpy arrays."): a sequence of *)
(* at most Size items.  Every operation takes effect at once and as a      *)
(* whole, or not at all.  Items are numbered in the order they are put and *)
(* item n holds its number in each of its arrays.                          *)
(***************************************************************************)
EXTENDS Integers, Sequences

CONSTANTS
  Size,  \* buffer_size
  Keys   \* the keys of an item

VARIABLES
  queue,  \* the items put and not yet taken
  last,   \* the number of the item put last
  got     \* what the last get or peek has returned

vars == <<queue, last, got>>

\* The items after number m.
Items(m, n) == [i \in 1 .. n |-> [key \in Keys |-> m + i]]

Init == queue = <<>> /\ last = 0 /\ got = <<>>

Put(n) ==
  /\ Len(queue) + n <= Size
  /\ queue' = queue \o Items(last, n)
  /\ last' = last + n
  /\ UNCHANGED got

\* The oldest k items are dropped.
Discard(k) == k <= Len(queue) /\ queue' = SubSeq(queue, k + 1, Len(queue)) /\ UNCHANGED last

Get(k) == Discard(k) /\ got' = SubSeq(queue, 1, k)

Drop(k) == Discard(k) /\ UNCHANGED got

Peek(k) ==
  /\ k <= Len(queue) /\ got' = SubSeq(queue, 1, k)
  /\ UNCHANGED <<queue, last>>

Next == \E n \in 1 .. Size : Put(n) \/ Get(n) \/ Drop(n) \/ Peek(n)

Spec == Init /\ [][Next]_vars
=============================================================================
