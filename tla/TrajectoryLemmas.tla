------------------------- MODULE TrajectoryLemmas -------------------------
(***************************************************************************)
(* What the operators on trajectories compute, for any trajectory and any  *)
(* time: the interpolation never fails and passes through the waypoints,   *)
(* and the velocity windows of ascending timestamps are ordered.           *)
(***************************************************************************)
EXTENDS JointStateInterpolator, SequenceTheorems, WellFoundedInduction, TLAPS

-----------------------------------------------------------------------------
(* Numbers.  An induction is the choice of a smallest counterexample.        *)


\* A set of natural numbers has a least element.
LEMMA SmallestIn ==
  ASSUME NEW T \in SUBSET Nat, T # {}
  PROVE  \E m \in T : \A n \in T : m <= n
  <1> DEFINE R == OpToRel(<, Nat)
  <1>1. IsWellFoundedOn(R, Nat)
    BY NatLessThanWellFounded
  <1>2. \A m, n \in Nat : m < n => <<m, n>> \in R
    BY DEF OpToRel
  <1> HIDE DEF R
  <1>3. PICK m \in T : \A n \in T : <<n, m>> \notin R
    BY <1>1, WFMin
  <1>4. \A n \in T : ~(n < m)
    BY <1>2, <1>3
  <1>5. QED
    BY <1>3, <1>4

\* A part of a distance, rounded down, lies between its ends.
LEMMA PartOf ==
  ASSUME NEW d \in Int, NEW s \in Int, NEW n \in Nat \ {0}, 0 <= s, s <= n
  PROVE  /\ d >= 0 => (d * s) \div n \in 0 .. d
         /\ d <= 0 => (d * s) \div n \in d .. 0
  <1> DEFINE x == d * s
             q == x \div n
  <1>1. d * s \in Int /\ d * n \in Int
    OBVIOUS
  <1>2. \A y \in Int : y \div n \in Int /\ n * (y \div n) <= y /\ y < n * (y \div n) + n
    OBVIOUS
  <1>3. x \in Int /\ q \in Int /\ n * q <= x /\ x < n * q + n /\ n * q \in Int
    BY <1>1, <1>2
  <1>4. CASE d >= 0
    <2>1. 0 <= x /\ x <= d * n
      BY <1>4
    <2> HIDE DEF x, q
    <2>2. q >= 0
      <3> SUFFICES ASSUME q <= -1 PROVE FALSE
        BY <1>3
      <3>1. n * q <= -n
        BY <1>3
      <3>2. QED
        BY <3>1, <2>1, <1>3, <1>1
    <2>3. q <= d
      <3> SUFFICES ASSUME q - d >= 1 PROVE FALSE
        BY <1>3
      <3>1. n * (q - d) >= n /\ n * (q - d) = n * q - d * n
        BY <1>3
      <3>2. QED
        BY <3>1, <2>1, <1>3, <1>1
    <2>4. QED
      BY <2>2, <2>3, <1>3, <1>4 DEF q, x
  <1>5. CASE d < 0
    <2>1. 0 >= x /\ x >= d * n
      BY <1>5
    <2> HIDE DEF x, q
    <2>2. q <= 0
      <3> SUFFICES ASSUME q >= 1 PROVE FALSE
        BY <1>3
      <3>1. n * q >= n
        BY <1>3
      <3>2. QED
        BY <3>1, <2>1, <1>3, <1>1
    <2>3. q >= d
      <3> SUFFICES ASSUME q - d <= -1 PROVE FALSE
        BY <1>3
      <3>1. n * (q - d) <= -n /\ n * (q - d) = n * q - d * n
        BY <1>3
      <3>2. QED
        BY <3>1, <2>1, <1>3, <1>1
    <2>4. QED
      BY <2>2, <2>3, <1>3, <1>5 DEF q, x
  <1>6. QED
    BY <1>4, <1>5

-----------------------------------------------------------------------------
(* The trajectory.                                                           *)

\* What a waypoint is.
LEMMA WaypointType ==
  /\ \A p \in 0 .. MaxPos, t \in Nat : Waypoint(p, t) \in Waypoints
  /\ \A w \in Waypoints : w.pos \in 0 .. MaxPos /\ w.time \in Nat
  /\ MaxPos \in Nat
  BY InterpolatorAssumption DEF Waypoint, Waypoints

\* The segment looked up for a time within the trajectory ends at the first waypoint
\* that is not before it, and so has a length.
LEMMA Lookup ==
  ASSUME NEW tr \in Seq(Waypoints), NEW t \in Nat, tr # <<>>, ~Outside(tr, t)
  PROVE  /\ Segments(tr, t) # {} /\ SegmentAt(tr, t) \in 1 .. Len(tr) - 1
         /\ tr[SegmentAt(tr, t)].time < t /\ t <= tr[SegmentAt(tr, t) + 1].time
         /\ \A j \in 1 .. SegmentAt(tr, t) : tr[j].time < t
  <1> DEFINE n == Len(tr)
             T == {i \in 1 .. n : t <= tr[i].time}
  <1>1. n \in Nat /\ n >= 2 /\ tr[1].time < t /\ t < tr[n].time
        /\ \A i \in 1 .. n : tr[i].time \in Nat
    <2>1. n \in Nat /\ n # 0 /\ n # 1
      BY EmptySeq DEF Outside
    <2>2. \A i \in 1 .. n : tr[i] \in Waypoints
      BY ElementOfSeq
    <2>3. \A i \in 1 .. n : tr[i].time \in Nat
      BY <2>2, WaypointType
    <2>4. QED
      BY <2>1, <2>3 DEF Outside, First, Last
  <1>2. T \in SUBSET Nat /\ n \in T
    BY <1>1
  <1>3. PICK m \in T : \A i \in T : m <= i
    BY <1>2, SmallestIn
  <1>4. m \in 2 .. n /\ t <= tr[m].time
    BY <1>1, <1>3
  <1>5. \A j \in 1 .. m - 1 : tr[j].time < t
    BY <1>1, <1>3, <1>4
  <1>6. m - 1 \in Segments(tr, t)
    <2>1. m - 1 \in 1 .. Len(tr) - 1 /\ (m - 1) + 1 = m /\ tr[m - 1].time < t
      BY <1>1, <1>4, <1>5
    <2>2. tr[m - 1].time <= t
      BY <2>1, <1>1
    <2>3. QED
      BY <2>1, <2>2, <1>4 DEF Segments
  <1>7. \A j \in Segments(tr, t) : m - 1 <= j
    <2> SUFFICES ASSUME NEW j \in Segments(tr, t), j < m - 1 PROVE FALSE
      BY <1>4 DEF Segments
    <2>1. j + 1 \in 1 .. m - 1 /\ t <= tr[j + 1].time
      BY <1>4 DEF Segments
    <2>2. QED
      BY <2>1, <1>1, <1>4, <1>5
  <1>8. SegmentAt(tr, t) = m - 1
    <2>1. \A i \in Segments(tr, t) :
            (\A j \in Segments(tr, t) : i <= j) => i = m - 1
      BY <1>4, <1>6, <1>7 DEF Segments
    <2>2. QED
      BY <1>6, <1>7, <2>1 DEF SegmentAt
  <1>9. QED
    BY <1>1, <1>4, <1>5, <1>6, <1>8

\* interpolate() fails for no time and no trajectory but an empty one.
LEMMA Interpolates ==
  ASSUME NEW tr \in Seq(Waypoints), NEW t \in Nat \ {0}, tr # <<>>
  PROVE  CanInterpolate(tr, t)
  <1>1. CASE Outside(tr, t)
    BY <1>1 DEF CanInterpolate
  <1>2. CASE ~Outside(tr, t)
    <2> DEFINE i == SegmentAt(tr, t)
    <2>1. Segments(tr, t) # {} /\ i \in 1 .. Len(tr) - 1 /\ tr[i].time < t /\ t <= tr[i + 1].time
      BY <1>2, Lookup
    <2>2. i + 1 \in 1 .. Len(tr) /\ i \in 1 .. Len(tr)
      BY <2>1
    <2>3. tr[i].time \in Nat /\ tr[i + 1].time \in Nat
      BY <2>2, ElementOfSeq, WaypointType
    <2>4. tr[i].time < tr[i + 1].time
      BY <2>1, <2>3
    <2>5. QED
      BY <2>1, <2>4 DEF CanInterpolate
  <1>3. QED
    BY <1>1, <1>2

\* What it returns is a position between those of the waypoints.
LEMMA InterpolateType ==
  ASSUME NEW tr \in Seq(Waypoints), NEW t \in Nat, tr # <<>>
  PROVE  Interpolate(tr, t) \in 0 .. MaxPos
  <1>1. Len(tr) \in Nat \ {0} /\ \A i \in 1 .. Len(tr) : tr[i] \in Waypoints
    BY EmptySeq, ElementOfSeq
  <1>2. First(tr).pos \in 0 .. MaxPos /\ Last(tr).pos \in 0 .. MaxPos
    BY <1>1, WaypointType DEF First, Last
  <1>3. ASSUME ~Outside(tr, t)
        PROVE  OnSegment(tr[SegmentAt(tr, t)], tr[SegmentAt(tr, t) + 1], t) \in 0 .. MaxPos
    <2> DEFINE i == SegmentAt(tr, t)
               a == tr[i]
               b == tr[i + 1]
    <2>1. i \in 1 .. Len(tr) - 1 /\ a.time < t /\ t <= b.time
      BY <1>3, Lookup
    <2>0. a \in Waypoints /\ b \in Waypoints
      BY <1>1, <2>1
    <2>2. /\ a.time \in Nat /\ b.time \in Nat /\ MaxPos \in Nat
          /\ a.pos \in 0 .. MaxPos /\ b.pos \in 0 .. MaxPos
      BY <2>0, WaypointType
    <2> HIDE DEF a, b
    <2> DEFINE d == b.pos - a.pos
               s == t - a.time
               n == b.time - a.time
    <2>3. d \in Int /\ s \in Int /\ n \in Nat \ {0} /\ 0 <= s /\ s <= n
          /\ a.pos \in 0 .. MaxPos /\ b.pos \in 0 .. MaxPos
      <3>1. a.time < t /\ t <= b.time
        BY <2>1
      <3>2. \A x, y \in Nat : x < t /\ t <= y =>
              t - x \in Int /\ y - x \in Nat \ {0} /\ 0 <= t - x /\ t - x <= y - x
        OBVIOUS
      <3>3. \A x, y \in 0 .. MaxPos : x - y \in Int
        BY <2>2
      <3>4. QED
        BY <2>2, <3>1, <3>2, <3>3
    <2> DEFINE q == (d * s) \div n
    <2>4. (d >= 0 => q \in 0 .. d) /\ (d <= 0 => q \in d .. 0)
      <3> HIDE DEF d, s, n
      <3>1. QED
        BY <2>3, PartOf
    <2>5. OnSegment(a, b, t) = a.pos + q
      BY DEF OnSegment
    <2> HIDE DEF q
    <2>6. a.pos + q \in 0 .. MaxPos
      BY <2>3, <2>4, WaypointType
    <2>7. QED
      BY <2>5, <2>6 DEF a, b
  <1>4. QED
    BY <1>2, <1>3 DEF Interpolate, Outside

\* A waypoint that the others are before or after.
Passes(tr, w) ==
  \E i \in 1 .. Len(tr) :
    /\ tr[i] = w
    /\ \A j \in 1 .. i - 1 : tr[j].time < w.time
    /\ \A j \in i + 1 .. Len(tr) : w.time < tr[j].time

\* It is where the trajectory leads at its time.
LEMMA Passed ==
  ASSUME NEW tr \in Seq(Waypoints), NEW w \in Waypoints, Passes(tr, w)
  PROVE  Interpolate(tr, w.time) = w.pos
  <1> DEFINE t == w.time
  <1>1. PICK i \in 1 .. Len(tr) :
          /\ tr[i] = w
          /\ \A j \in 1 .. i - 1 : tr[j].time < t
          /\ \A j \in i + 1 .. Len(tr) : t < tr[j].time
    BY DEF Passes
  <1>2. /\ t \in Nat /\ w.pos \in Nat /\ tr # <<>> /\ Len(tr) \in Nat \ {0}
        /\ \A j \in 1 .. Len(tr) : tr[j] \in Waypoints /\ tr[j].time \in Nat /\ tr[j].pos \in Nat
    BY <1>1, WaypointType, EmptySeq, ElementOfSeq
  <1>3. CASE i = 1
    BY <1>1, <1>2, <1>3 DEF Interpolate, First
  <1>4. CASE i # 1 /\ i = Len(tr)
    <2>1. tr[1].time < t
      BY <1>1, <1>4
    <2>2. QED
      BY <1>1, <1>2, <1>4, <2>1 DEF Interpolate, First, Last
  <1>5. CASE i # 1 /\ i # Len(tr)
    <2>1. tr[1].time < t /\ t < tr[Len(tr)].time
      BY <1>1, <1>2, <1>5
    <2>2. ~Outside(tr, t) /\ ~(Len(tr) = 1 \/ t <= First(tr).time) /\ ~(t >= Last(tr).time)
      BY <1>2, <1>5, <2>1 DEF Outside, First, Last
    <2> DEFINE s == SegmentAt(tr, t)
    <2>3. s \in 1 .. Len(tr) - 1 /\ tr[s].time < t /\ t <= tr[s + 1].time
      BY <1>2, <2>2, Lookup
    <2>4. s + 1 = i
      <3>1. ~(s + 1 < i)
        <4>1. s + 1 < i => tr[s + 1].time < t
          BY <1>1, <2>3
        <4>2. QED
          BY <4>1, <2>3, <1>2
      <3>2. ~(s >= i)
        <4>1. s > i => t < tr[s].time
          BY <1>1, <2>3
        <4>2. s = i => tr[s].time = t
          BY <1>1
        <4>3. QED
          BY <4>1, <4>2, <2>3, <1>1, <1>2
      <3>3. QED
        BY <3>1, <3>2, <2>3, <1>1
    <2>5. Interpolate(tr, t) = OnSegment(tr[s], w, t)
      BY <1>1, <2>2, <2>4 DEF Interpolate
    <2> HIDE DEF s
    <2> DEFINE d == w.pos - tr[s].pos
               n == t - tr[s].time
    <2>6. d \in Int /\ n \in Nat \ {0} /\ tr[s].pos \in Nat
      <3>1. tr[s].time \in Nat /\ tr[s].pos \in Nat
        BY <1>2, <2>3
      <3>2. QED
        BY <3>1, <1>2, <2>3
    <2>7. (d * n) \div n = d
      <3> HIDE DEF d, n
      <3>1. QED
        BY <2>6
    <2>8. OnSegment(tr[s], w, t) = tr[s].pos + d
      BY <2>7 DEF OnSegment
    <2>9. QED
      BY <2>5, <2>6, <2>8, <1>2
  <1>6. QED
    BY <1>3, <1>4, <1>5

\* `while` stops at the first index where its condition does not hold.
LEMMA Advances ==
  ASSUME NEW idx \in Nat, NEW last \in Nat, idx <= last, NEW holds
  PROVE  LET j == Advance(idx, last, holds)
         IN  /\ j \in idx .. last /\ (j = last \/ j \notin holds)
             /\ \A i \in idx .. j - 1 : i \in holds
  <1> DEFINE T == {j \in idx .. last : j = last \/ j \notin holds}
  <1>1. T \in SUBSET Nat /\ last \in T
    OBVIOUS
  <1>2. PICK m \in T : \A i \in T : m <= i
    BY <1>1, SmallestIn
  <1>3. \A i \in idx .. m - 1 : i \in holds
    BY <1>2
  <1> DEFINE P(j) == (j = last \/ j \notin holds) /\ idx .. j - 1 \subseteq holds
  <1>4. \E j \in idx .. last : P(j)
    BY <1>2, <1>3
  <1>5. Advance(idx, last, holds) = CHOOSE j \in idx .. last : P(j)
    BY DEF Advance
  <1> DEFINE a == CHOOSE j \in idx .. last : P(j)
  <1>6. a \in idx .. last /\ P(a)
    BY ONLY <1>4
  <1> HIDE DEF a
  <1>7. \A i \in idx .. a - 1 : i \in holds
    BY <1>6
  <1>8. QED
    BY <1>5, <1>6, <1>7 DEF a

\* The waypoints kept are those to come.
LEMMA KeptType ==
  ASSUME NEW tr \in Seq(Waypoints), NEW t \in Nat
  PROVE  /\ Kept(tr, t) \in Seq(Waypoints)
         /\ \A i \in 1 .. Len(Kept(tr, t)) : Kept(tr, t)[i].time > t
  <1> DEFINE n == Len(tr)
             Body(g, i) == IF i = 0 THEN <<>>
                           ELSE IF tr[i].time > t THEN Append(g[i - 1], tr[i]) ELSE g[i - 1]
             Fcn(g, m) == g = [i \in 0 .. m |-> Body(g, i)]
             f == CHOOSE g : Fcn(g, n)
  <1>1. n \in Nat /\ \A i \in 1 .. n : tr[i] \in Waypoints
    BY ElementOfSeq
  <1>2. \E g : Fcn(g, n)
    <2> DEFINE T == {m \in Nat : ~\E g : Fcn(g, m)}
    <2> SUFFICES ASSUME T # {} PROVE FALSE
      BY <1>1
    <2>0. \E m \in T : \A l \in T : m <= l
      <3>1. T \in SUBSET Nat
        OBVIOUS
      <3> HIDE DEF T
      <3>2. QED
        BY <3>1, SmallestIn
    <2>1. PICK m \in T : \A l \in T : m <= l
      BY <2>0
    <2>2. CASE m = 0
      <3> DEFINE g == [i \in 0 .. 0 |-> <<>>]
      <3>1. \A i \in 0 .. 0 : i = 0
        OBVIOUS
      <3>2. Fcn(g, m)
        BY <2>2, <3>1
      <3>3. QED
        BY <3>2, <2>1
    <2>3. CASE m # 0
      <3>1. m \in Nat /\ m - 1 \in Nat /\ m - 1 \notin T
        <4>1. T \in SUBSET Nat
          OBVIOUS
        <4> HIDE DEF T
        <4>2. QED
          BY <2>1, <2>3, <4>1
      <3>2. PICK g : Fcn(g, m - 1)
        BY <3>1
      <3> DEFINE h == [i \in 0 .. m |-> IF i = m THEN Body(g, m) ELSE g[i]]
      <3>3. ASSUME NEW i \in 0 .. m PROVE h[i] = Body(h, i)
        <4>1. CASE i = m
          BY <3>1, <4>1
        <4>2. CASE i # m
          <5>1. i \in 0 .. m - 1 /\ h[i] = g[i]
            BY <3>1, <4>2
          <5>2. g[i] = Body(g, i)
            BY <3>2, <5>1
          <5>3. i # 0 => h[i - 1] = g[i - 1]
            BY <3>1, <5>1
          <5>4. QED
            BY <5>1, <5>2, <5>3
        <4>3. QED
          BY <4>1, <4>2
      <3>4. h = [i \in 0 .. m |-> Body(h, i)]
        <4>1. h = [i \in 0 .. m |-> h[i]]
          OBVIOUS
        <4> HIDE DEF h
        <4>2. QED
          BY <3>3, <4>1
      <3>5. QED
        BY <3>4, <2>1
    <2>4. QED
      BY <2>2, <2>3
  <1>3. Fcn(f, n)
    BY ONLY <1>2
  <1>4. Kept(tr, t) = f[n]
    BY DEF Kept
  <1> HIDE DEF f
  <1>5. \A i \in 0 .. n : f[i] = Body(f, i)
    BY <1>3
  <1> DEFINE Good(s) == s \in Seq(Waypoints) /\ \A i \in 1 .. Len(s) : s[i].time > t
             T == {m \in 0 .. n : ~Good(f[m])}
  <1>6. T = {}
    <2> SUFFICES ASSUME T # {} PROVE FALSE
      OBVIOUS
    <2>0. \E m \in T : \A l \in T : m <= l
      <3>1. T \in SUBSET Nat
        OBVIOUS
      <3> HIDE DEF T
      <3>2. QED
        BY <3>1, SmallestIn
    <2>1. PICK m \in T : \A l \in T : m <= l
      BY <2>0
    <2>2. m # 0
      <3>1. f[0] = <<>>
        BY <1>1, <1>5
      <3>2. Good(<<>>)
        OBVIOUS
      <3>3. QED
        BY <2>1, <3>1, <3>2
    <2>3. m - 1 \in 0 .. n /\ m \in 1 .. n /\ Good(f[m - 1]) /\ ~Good(f[m])
      BY <1>1, <2>1, <2>2
    <2>4. f[m] = IF tr[m].time > t THEN Append(f[m - 1], tr[m]) ELSE f[m - 1]
      BY <1>5, <2>3
    <2> DEFINE s == f[m - 1]
               w == tr[m]
    <2>5. Good(s) /\ w \in Waypoints
      BY <1>1, <2>3
    <2> HIDE DEF s, w
    <2>6. w.time > t => Good(Append(s, w))
      BY <2>5, AppendProperties
    <2>7. QED
      BY <2>3, <2>4, <2>5, <2>6 DEF s, w
  <1>7. QED
    BY <1>1, <1>4, <1>6

\* Timestamps that ascend from each waypoint to the next do so from each to all later.
LEMMA Ascends ==
  ASSUME NEW tr \in Seq(Waypoints), \A i \in 1 .. Len(tr) - 1 : tr[i].time < tr[i + 1].time
  PROVE  \A i, j \in 1 .. Len(tr) : i < j => tr[i].time < tr[j].time
  <1> SUFFICES ASSUME NEW i \in 1 .. Len(tr)
               PROVE  \A j \in 1 .. Len(tr) : i < j => tr[i].time < tr[j].time
    OBVIOUS
  <1> DEFINE T == {j \in 1 .. Len(tr) : i < j /\ ~(tr[i].time < tr[j].time)}
  <1>1. \A j \in 1 .. Len(tr) : tr[j].time \in Nat
    BY ElementOfSeq, WaypointType
  <1> SUFFICES ASSUME T # {} PROVE FALSE
    OBVIOUS
  <1>0. \E m \in T : \A l \in T : m <= l
    <2>1. T \in SUBSET Nat
      OBVIOUS
    <2> HIDE DEF T
    <2>2. QED
      BY <2>1, SmallestIn
  <1>2. PICK m \in T : \A l \in T : m <= l
    BY <1>0
  <1>3. m - 1 \in 1 .. Len(tr) - 1 /\ m - 1 \notin T /\ tr[m - 1].time < tr[m].time
    <2>1. m - 1 \in 1 .. Len(tr) - 1 /\ m - 1 \notin T
      BY <1>2
    <2>2. tr[m - 1].time < tr[(m - 1) + 1].time
      BY <2>1
    <2>3. QED
      BY <1>2, <2>1, <2>2
  <1>4. CASE i = m - 1
    BY <1>2, <1>3, <1>4
  <1>5. CASE i < m - 1
    <2>1. tr[i].time < tr[m - 1].time
      BY <1>3, <1>5
    <2>2. tr[i].time \in Nat /\ tr[m - 1].time \in Nat /\ tr[m].time \in Nat
      BY <1>1, <1>2, <1>3
    <2>3. QED
      BY <1>2, <1>3, <2>1, <2>2
  <1>6. QED
    BY <1>2, <1>3, <1>4, <1>5

-----------------------------------------------------------------------------
(* The velocity windows.                                                     *)

\* Ends g that advance from each other, up to where the condition H fails or to the last.
Advancing(g, n, last, H) ==
  g = [i \in 1 .. n |-> Advance(IF i = 1 THEN 1 ELSE g[i - 1], last, H[i])]

\* Each is the first index at which its condition fails.
Stops(g, n, last, H) ==
  \A i \in 1 .. n : /\ g[i] \in 1 .. last
                    /\ g[i] = last \/ g[i] \notin H[i]
                    /\ \A j \in 1 .. g[i] - 1 : j \in H[i]

\* As the conditions grow, the ends stop there.
LEMMA EndsAdvance ==
  ASSUME NEW n \in Nat, NEW last \in Nat \ {0}, NEW H,
         \A i \in 1 .. n - 1 : \A j \in 1 .. last : j \in H[i] => j \in H[i + 1]
  PROVE  /\ \E g : Advancing(g, n, last, H)
         /\ \A g : Advancing(g, n, last, H) => Stops(g, n, last, H)
  <1> DEFINE Body(g, i) == Advance(IF i = 1 THEN 1 ELSE g[i - 1], last, H[i])
             Fcn(g, m) == g = [i \in 1 .. m |-> Body(g, i)]
  <1>1. \E g : Fcn(g, n)
    <2> DEFINE T == {m \in Nat : ~\E g : Fcn(g, m)}
    <2> SUFFICES ASSUME T # {} PROVE FALSE
      OBVIOUS
    <2>1. PICK m \in T : \A l \in T : m <= l
      <3>1. T \in SUBSET Nat
        OBVIOUS
      <3> HIDE DEF T
      <3>2. QED
        BY <3>1, SmallestIn
    <2>2. m \in Nat /\ m # 0
      <3> DEFINE g == [i \in 1 .. 0 |-> 1]
      <3>1. 1 .. 0 = {}
        OBVIOUS
      <3>2. Fcn(g, 0)
        BY <3>1
      <3>3. QED
        BY <2>1, <3>2
    <2>3. m - 1 \in Nat /\ m - 1 \notin T
      <3>1. T \in SUBSET Nat
        OBVIOUS
      <3> HIDE DEF T
      <3>2. QED
        BY <2>1, <2>2, <3>1
    <2>4. PICK g : Fcn(g, m - 1)
      BY <2>3
    <2> DEFINE h == [i \in 1 .. m |-> IF i = m THEN Body(g, m) ELSE g[i]]
    <2>5. ASSUME NEW i \in 1 .. m PROVE h[i] = Body(h, i)
      <3>1. i # 1 => h[i - 1] = g[i - 1]
        BY <2>2
      <3>2. Body(h, i) = Body(g, i)
        BY <3>1
      <3>3. CASE i = m
        BY <3>2, <3>3
      <3>4. CASE i # m
        <4>1. i \in 1 .. m - 1 /\ h[i] = g[i]
          BY <2>2, <3>4
        <4>2. g[i] = Body(g, i)
          BY <2>4, <4>1
        <4>3. QED
          BY <3>2, <4>1, <4>2
      <3>5. QED
        BY <3>3, <3>4
    <2>6. h = [i \in 1 .. m |-> Body(h, i)]
      <3>1. h = [i \in 1 .. m |-> h[i]]
        OBVIOUS
      <3> HIDE DEF h
      <3>2. QED
        BY <2>5, <3>1
    <2>7. QED
      BY <2>1, <2>6
  <1>2. ASSUME NEW g, Fcn(g, n)
        PROVE  \A i \in 1 .. n : /\ g[i] \in 1 .. last
                                 /\ g[i] = last \/ g[i] \notin H[i]
                                 /\ \A j \in 1 .. g[i] - 1 : j \in H[i]
    <2> DEFINE Good(i) == /\ g[i] \in 1 .. last
                          /\ g[i] = last \/ g[i] \notin H[i]
                          /\ \A j \in 1 .. g[i] - 1 : j \in H[i]
               T == {i \in 1 .. n : ~Good(i)}
    <2> SUFFICES ASSUME T # {} PROVE FALSE
      OBVIOUS
    <2>1. PICK m \in T : \A l \in T : m <= l
      <3>1. T \in SUBSET Nat
        OBVIOUS
      <3> HIDE DEF T
      <3>2. QED
        BY <3>1, SmallestIn
    <2>2. m \in 1 .. n /\ ~Good(m) /\ g[m] = Body(g, m)
      BY <1>2, <2>1
    <2>3. m # 1 => m - 1 \in 1 .. n /\ Good(m - 1)
      BY <2>1, <2>2
    <2> DEFINE from == IF m = 1 THEN 1 ELSE g[m - 1]
    <2>4. from \in 1 .. last /\ \A j \in 1 .. from - 1 : j \in H[m]
      <3>1. CASE m = 1
        BY <3>1
      <3>2. CASE m # 1
        <4> DEFINE p == m - 1
        <4>1. p \in 1 .. n - 1 /\ p + 1 = m /\ Good(p) /\ from = g[p]
          BY <2>2, <2>3, <3>2
        <4> HIDE DEF p, from
        <4>2. QED
          BY <4>1
      <3>3. QED
        BY <3>1, <3>2
    <2>5. g[m] = Advance(from, last, H[m])
      BY <2>2
    <2> HIDE DEF from
    <2>6. /\ g[m] \in from .. last /\ (g[m] = last \/ g[m] \notin H[m])
          /\ \A i \in from .. g[m] - 1 : i \in H[m]
      BY <2>4, <2>5, Advances
    <2>7. Good(m)
      BY <2>4, <2>6
    <2>8. QED
      BY <2>2, <2>7
  <1>3. QED
    BY <1>1, <1>2 DEF Advancing, Stops

\* A window begins at a waypoint not after its own, its lower end the first that is
\* within the window or next to it.
LEMMA LowerEnd ==
  ASSUME NEW tr \in Seq(Waypoints), Len(tr) >= 2, NEW width \in Nat, NEW i \in 1 .. Len(tr),
         \A h, j \in 1 .. Len(tr) : h < j => tr[h].time < tr[j].time
  PROVE  LET e == LowerEnds(tr, width)[i]
         IN  /\ e \in 1 .. Len(tr) - 1 /\ e <= i
             /\ e = Len(tr) - 1 \/ 2 * tr[e + 1].time >= 2 * tr[i].time - width
             /\ \A j \in 1 .. e - 1 : 2 * tr[j + 1].time < 2 * tr[i].time - width
  <1> DEFINE n == Len(tr)
             Cond(h) == {j \in 1 .. n - 1 : 2 * tr[j + 1].time < 2 * tr[h].time - width}
             H == [h \in 1 .. n |-> Cond(h)]
             f == LowerEnds(tr, width)
             FcnC(g) == g = [h \in 1 .. n |->
                           Advance(IF h = 1 THEN 1 ELSE g[h - 1], n - 1, Cond(h))]
  <1>1. n \in Nat /\ n - 1 \in Nat \ {0} /\ \A j \in 1 .. n : tr[j].time \in Nat
    BY ElementOfSeq, WaypointType
  <1>2. \A h \in 1 .. n - 1 : \A j \in 1 .. n - 1 : j \in H[h] => j \in H[h + 1]
    <2>0. \A h \in 1 .. n : \A j \in 1 .. n - 1 : j \in H[h] <=> 2 * tr[j + 1].time < 2 * tr[h].time - width
      OBVIOUS
    <2> HIDE DEF H
    <2> SUFFICES ASSUME NEW h \in 1 .. n - 1, NEW j \in 1 .. n - 1, j \in H[h]
                 PROVE  j \in H[h + 1]
      OBVIOUS
    <2>1. h \in 1 .. n /\ h + 1 \in 1 .. n /\ j + 1 \in 1 .. n /\ tr[h].time < tr[h + 1].time
      BY <1>1
    <2>2. tr[h].time \in Nat /\ tr[h + 1].time \in Nat /\ tr[j + 1].time \in Nat
      BY <1>1, <2>1
    <2>3. 2 * tr[j + 1].time < 2 * tr[h].time - width
      BY <2>0, <2>1
    <2>4. \A x, y, z \in Nat : 2 * x < 2 * y - width /\ y < z => 2 * x < 2 * z - width
      OBVIOUS
    <2>5. 2 * tr[j + 1].time < 2 * tr[h + 1].time - width
      BY ONLY <2>1, <2>2, <2>3, <2>4
    <2>6. QED
      BY <2>0, <2>1, <2>5
  <1>3. f = CHOOSE g : FcnC(g)
    BY DEF LowerEnds
  <1> HIDE DEF f
  <1>4. \A g : Advancing(g, n, n - 1, H) <=> FcnC(g)
    BY DEF Advancing
  <1> DEFINE e == f[i]
  <1>5. e \in 1 .. n - 1 /\ (e = n - 1 \/ e \notin Cond(i)) /\ \A j \in 1 .. e - 1 : j \in Cond(i)
    <2> HIDE DEF H
    <2>1. PICK g : Advancing(g, n, n - 1, H)
      BY <1>1, <1>2, EndsAdvance
    <2>2. \E x : FcnC(x)
      BY <1>4, <2>1
    <2>3. FcnC(f)
      BY ONLY <1>3, <2>2
    <2>4. Stops(f, n, n - 1, H)
      <3>1. Advancing(f, n, n - 1, H)
        BY <1>4, <2>3
      <3>2. QED
        BY <1>1, <1>2, <3>1, EndsAdvance
    <2>5. e \in 1 .. n - 1 /\ (e = n - 1 \/ e \notin H[i]) /\ \A j \in 1 .. e - 1 : j \in H[i]
      BY <2>4 DEF Stops
    <2>6. QED
      BY <2>5 DEF H
  <1> HIDE DEF e
  <1>6. \A j \in 1 .. n - 1 : j \in Cond(i) <=> 2 * tr[j + 1].time < 2 * tr[i].time - width
    OBVIOUS
  <1>7. e <= i
    <2> SUFFICES ASSUME e > i PROVE FALSE
      BY <1>5
    <2>1. i \in 1 .. e - 1 /\ i \in 1 .. n - 1 /\ i + 1 \in 1 .. n
      BY <1>1, <1>5
    <2>2. 2 * tr[i + 1].time < 2 * tr[i].time - width /\ tr[i].time < tr[i + 1].time
      BY <1>5, <1>6, <2>1
    <2>3. tr[i].time \in Nat /\ tr[i + 1].time \in Nat
      BY <1>1, <2>1
    <2>4. QED
      BY <2>2, <2>3
  <1>8. e = n - 1 \/ 2 * tr[e + 1].time >= 2 * tr[i].time - width
    <2>1. e + 1 \in 1 .. n
      BY <1>1, <1>5
    <2>2. tr[e + 1].time \in Nat /\ tr[i].time \in Nat
      BY <1>1, <2>1
    <2>3. QED
      BY <1>5, <1>6, <2>2
  <1>9. \A j \in 1 .. e - 1 : 2 * tr[j + 1].time < 2 * tr[i].time - width
    BY <1>1, <1>5, <1>6
  <1>10. QED
    BY <1>5, <1>7, <1>8, <1>9 DEF e, f

\* A window ends at a waypoint after its own, unless that is the last one.
LEMMA UpperEnd ==
  ASSUME NEW tr \in Seq(Waypoints), Len(tr) >= 2, NEW width \in Nat \ {0}, NEW i \in 1 .. Len(tr),
         \A h, j \in 1 .. Len(tr) : h < j => tr[h].time < tr[j].time
  PROVE  LET e == UpperEnds(tr, width)[i]
         IN  /\ e \in 1 .. Len(tr) /\ (e > i \/ e = Len(tr))
             /\ e = Len(tr) \/ 2 * tr[e].time >= 2 * tr[i].time + width
             /\ \A j \in 1 .. e - 1 : 2 * tr[j].time < 2 * tr[i].time + width
  <1> DEFINE n == Len(tr)
             Cond(h) == {j \in 1 .. n : 2 * tr[j].time < 2 * tr[h].time + width}
             H == [h \in 1 .. n |-> Cond(h)]
             f == UpperEnds(tr, width)
             FcnC(g) == g = [h \in 1 .. n |-> Advance(IF h = 1 THEN 1 ELSE g[h - 1], n, Cond(h))]
  <1>1. n \in Nat \ {0} /\ \A j \in 1 .. n : tr[j].time \in Nat
    BY ElementOfSeq, WaypointType
  <1>2. \A h \in 1 .. n - 1 : \A j \in 1 .. n : j \in H[h] => j \in H[h + 1]
    <2>0. \A h \in 1 .. n : \A j \in 1 .. n : j \in H[h] <=> 2 * tr[j].time < 2 * tr[h].time + width
      OBVIOUS
    <2> HIDE DEF H
    <2> SUFFICES ASSUME NEW h \in 1 .. n - 1, NEW j \in 1 .. n, j \in H[h]
                 PROVE  j \in H[h + 1]
      OBVIOUS
    <2>1. h \in 1 .. n /\ h + 1 \in 1 .. n /\ tr[h].time < tr[h + 1].time
      BY <1>1
    <2>2. tr[h].time \in Nat /\ tr[h + 1].time \in Nat /\ tr[j].time \in Nat
      BY <1>1, <2>1
    <2>3. 2 * tr[j].time < 2 * tr[h].time + width
      BY <2>0, <2>1
    <2>4. \A x, y, z \in Nat : 2 * x < 2 * y + width /\ y < z => 2 * x < 2 * z + width
      OBVIOUS
    <2>5. 2 * tr[j].time < 2 * tr[h + 1].time + width
      BY ONLY <2>1, <2>2, <2>3, <2>4
    <2>6. QED
      BY <2>0, <2>1, <2>5
  <1>3. f = CHOOSE g : FcnC(g)
    BY DEF UpperEnds
  <1> HIDE DEF f
  <1>4. \A g : Advancing(g, n, n, H) <=> FcnC(g)
    BY DEF Advancing
  <1> DEFINE e == f[i]
  <1>5. e \in 1 .. n /\ (e = n \/ e \notin Cond(i)) /\ \A j \in 1 .. e - 1 : j \in Cond(i)
    <2> HIDE DEF H
    <2>1. PICK g : Advancing(g, n, n, H)
      BY <1>1, <1>2, EndsAdvance
    <2>2. \E x : FcnC(x)
      BY <1>4, <2>1
    <2>3. FcnC(f)
      BY ONLY <1>3, <2>2
    <2>4. Stops(f, n, n, H)
      <3>1. Advancing(f, n, n, H)
        BY <1>4, <2>3
      <3>2. QED
        BY <1>1, <1>2, <3>1, EndsAdvance
    <2>5. e \in 1 .. n /\ (e = n \/ e \notin H[i]) /\ \A j \in 1 .. e - 1 : j \in H[i]
      BY <2>4 DEF Stops
    <2>6. QED
      BY <2>5 DEF H
  <1> HIDE DEF e
  <1>6. \A j \in 1 .. n : j \in Cond(i) <=> 2 * tr[j].time < 2 * tr[i].time + width
    OBVIOUS
  <1>7. e = n \/ 2 * tr[e].time >= 2 * tr[i].time + width
    <2>1. tr[e].time \in Nat /\ tr[i].time \in Nat
      BY <1>1, <1>5
    <2>2. QED
      BY <1>5, <1>6, <2>1
  <1>8. e > i \/ e = n
    <2> SUFFICES ASSUME e <= i, e # n PROVE FALSE
      BY <1>5
    <2>1. tr[e].time \in Nat /\ tr[i].time \in Nat /\ 2 * tr[e].time >= 2 * tr[i].time + width
      BY <1>1, <1>5, <1>7
    <2>2. e = i \/ tr[e].time < tr[i].time
      BY <1>5
    <2>3. QED
      BY <2>1, <2>2
  <1>9. \A j \in 1 .. e - 1 : 2 * tr[j].time < 2 * tr[i].time + width
    BY <1>1, <1>5, <1>6
  <1>10. QED
    BY <1>5, <1>7, <1>8, <1>9 DEF e, f

\* The windows of a trajectory with ascending timestamps.
LEMMA WindowsOrdered ==
  ASSUME NEW tr \in Seq(Waypoints), Len(tr) >= 2, NEW i \in 1 .. Len(tr),
         \A h, j \in 1 .. Len(tr) : h < j => tr[h].time < tr[j].time
  PROVE  LET idx0 == LowerEnds(tr, 2 * Window)
             idx1 == LowerEnds(tr, Window)
             idx2 == UpperEnds(tr, Window)
             idx3 == UpperEnds(tr, 2 * Window)
         IN  /\ idx0[i] <= idx1[i] /\ idx1[i] < idx2[i] /\ idx2[i] <= idx3[i]
             /\ tr[idx0[i]].time < tr[idx3[i]].time /\ tr[idx1[i]].time < tr[idx2[i]].time
  <1> DEFINE n == Len(tr)
             a == LowerEnds(tr, 2 * Window)[i]
             b == LowerEnds(tr, Window)[i]
             c == UpperEnds(tr, Window)[i]
             d == UpperEnds(tr, 2 * Window)[i]
  <1>1. Window \in Nat \ {0} /\ 2 * Window \in Nat \ {0} /\ n \in Nat
        /\ \A j \in 1 .. n : tr[j].time \in Nat
    BY InterpolatorAssumption, ElementOfSeq, WaypointType
  <1>2. /\ a \in 1 .. n - 1 /\ a <= i
        /\ \A j \in 1 .. a - 1 : 2 * tr[j + 1].time < 2 * tr[i].time - 2 * Window
    BY <1>1, LowerEnd
  <1>3. b \in 1 .. n - 1 /\ b <= i /\ (b = n - 1 \/ 2 * tr[b + 1].time >= 2 * tr[i].time - Window)
    BY <1>1, LowerEnd
  <1>4. /\ c \in 1 .. n /\ (c > i \/ c = n)
        /\ \A j \in 1 .. c - 1 : 2 * tr[j].time < 2 * tr[i].time + Window
    BY <1>1, UpperEnd
  <1>5. d \in 1 .. n /\ (d > i \/ d = n) /\ (d = n \/ 2 * tr[d].time >= 2 * tr[i].time + 2 * Window)
    BY <1>1, UpperEnd
  <1> HIDE DEF a, b, c, d
  <1>6. a <= b
    <2> SUFFICES ASSUME b < a PROVE FALSE
      BY <1>2, <1>3
    <2>1. b \in 1 .. a - 1 /\ b # n - 1 /\ b + 1 \in 1 .. n
      BY <1>1, <1>2, <1>3
    <2>2. tr[b + 1].time \in Nat /\ tr[i].time \in Nat
      BY <1>1, <2>1
    <2>3. 2 * tr[b + 1].time < 2 * tr[i].time - 2 * Window
      BY <1>2, <2>1
    <2>4. 2 * tr[b + 1].time >= 2 * tr[i].time - Window
      BY <1>3, <2>1
    <2>5. QED
      BY ONLY <1>1, <2>2, <2>3, <2>4
  <1>7. c <= d
    <2> SUFFICES ASSUME d < c PROVE FALSE
      BY <1>4, <1>5
    <2>1. d \in 1 .. c - 1 /\ d # n
      BY <1>1, <1>4, <1>5
    <2>2. tr[d].time \in Nat /\ tr[i].time \in Nat
      BY <1>1, <1>5
    <2>3. 2 * tr[d].time < 2 * tr[i].time + Window
      BY <1>4, <2>1
    <2>4. 2 * tr[d].time >= 2 * tr[i].time + 2 * Window
      BY <1>5, <2>1
    <2>5. QED
      BY ONLY <1>1, <2>2, <2>3, <2>4
  <1>8. b < c /\ a < d
    BY <1>1, <1>2, <1>3, <1>4, <1>5
  <1>9. tr[a].time < tr[d].time /\ tr[b].time < tr[c].time
    <2>1. a \in 1 .. n /\ b \in 1 .. n /\ c \in 1 .. n /\ d \in 1 .. n
      BY <1>1, <1>2, <1>3, <1>4, <1>5
    <2>2. QED
      BY <1>8, <2>1
  <1>10. QED
    BY <1>6, <1>7, <1>8, <1>9 DEF a, b, c, d

=============================================================================
