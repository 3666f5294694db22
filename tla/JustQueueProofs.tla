-------------------------- MODULE JustQueueProofs --------------------------
(***************************************************************************)
(* The queue is well formed and a FIFO, for rings of every capacity, every *)
(* element type and every order of calls.                                  *)
(***************************************************************************)
EXTENDS JustQueue, NumberLemmas

\* justQueueRoundToPowerOfTwo returns 0 for 0, and else a power of two that
\* is large enough.
LEMMA RoundUpFits ==
  ASSUME NEW n \in Nat
  PROVE  /\ RoundUp(n) \in Nat /\ RoundUp(n) >= n
         /\ RoundUp(n) = 0 <=> n = 0
         /\ RoundUp(n) = 0 \/ RoundUp(n) \in Powers
<1>1. MinCap \in Powers /\ MinCap \in Nat /\ MinCap > 0
  BY QueueAssumption, PowersPositive
<1>2. CASE n = 0
  BY <1>2 DEF RoundUp
<1>3. CASE n > 0 /\ n < MinCap
  BY <1>1, <1>3 DEF RoundUp
<1>4. CASE n > 0 /\ n >= MinCap
  <2>1. PowerAtLeast(n) \in n .. 2 * n - 1 /\ PowerAtLeast(n) \in Powers
    BY <1>4, PowerAtLeastFits
  <2> QED
    BY <1>1, <1>4, <2>1 DEF RoundUp
<1> QED
  BY <1>1, <1>2, <1>3, <1>4

\* The capacity that Reserve chooses holds the content.
LEMMA NewCapFits ==
  ASSUME NEW n \in Nat, size \in Nat
  PROVE  /\ NewCap(n) \in Nat /\ NewCap(n) >= size
         /\ NewCap(n) = 0 \/ NewCap(n) \in Powers
  BY RoundUpFits DEF NewCap

\* A reachable slot of a ring.
LEMMA WrapInside ==
  ASSUME NEW i \in Nat, NEW cap \in Nat, cap > 0
  PROVE  Wrap(i, cap) \in 0 .. cap - 1
  BY RemainderBound DEF Wrap

\* One step from a slot inside the ring.
LEMMA WrapNext ==
  ASSUME NEW i \in Nat, NEW j \in Nat, NEW cap \in Nat, cap > 0
  PROVE  Wrap(Wrap(i, cap) + j, cap) = Wrap(i + j, cap)
  BY RemainderOfSum, ZenonT(60) DEF Wrap

LEMMA WrapSmall ==
  ASSUME NEW i \in Nat, NEW cap \in Nat, i < cap
  PROVE  Wrap(i, cap) = i
  BY SmallRemainder DEF Wrap

\* The content is a sequence of size elements.
LEMMA ContentsType ==
  ASSUME RingShape, ~overrun
  PROVE  /\ Contents \in Seq(Values \cup {NoValue})
         /\ Len(Contents) = size
         /\ \A i \in 1 .. size : Wrap(head + i - 1, capacity) \in 0 .. capacity - 1
<1> DEFINE V == Values \cup {NoValue}
<1>1. /\ size \in Nat /\ capacity \in Nat /\ head \in Nat /\ size <= capacity
      /\ data \in [0 .. capacity - 1 -> V]
  BY DEF RingShape, TypeOK
<1>2. ASSUME NEW i \in 1 .. size
      PROVE  Wrap(head + i - 1, capacity) \in 0 .. capacity - 1
  <2>1. head + i - 1 \in Nat /\ capacity > 0
    BY <1>1
  <2> QED
    BY <1>1, <2>1, WrapInside
<1>3. Contents \in [1 .. size -> V]
  BY <1>1, <1>2 DEF Contents
<1> QED
  BY <1>1, <1>2, <1>3

\* What Reserve copies into a larger buffer is the content.
LEMMA LinearizedHolds ==
  ASSUME RingShape, ~overrun, NEW cap \in Nat, cap >= size
  PROVE  /\ Linearized(cap) \in [0 .. cap - 1 -> Values \cup {NoValue}]
         /\ \A i \in 1 .. size : Linearized(cap)[i - 1] = Contents[i]
<1> DEFINE V == Values \cup {NoValue}
<1>1. /\ size \in Nat /\ capacity \in Nat /\ head \in Nat /\ size <= capacity
      /\ data \in [0 .. capacity - 1 -> V]
  BY DEF RingShape, TypeOK
<1>2. ASSUME NEW i \in 0 .. cap - 1, i < size
      PROVE  Wrap(head + i, capacity) \in 0 .. capacity - 1
  <2>1. head + i \in Nat /\ capacity > 0
    BY <1>1, <1>2
  <2> QED
    BY <1>1, <2>1, WrapInside
<1>3. Linearized(cap) \in [0 .. cap - 1 -> V]
  BY <1>1, <1>2 DEF Linearized
<1>4. ASSUME NEW i \in 1 .. size
      PROVE  Linearized(cap)[i - 1] = Contents[i]
  <2>1. i - 1 \in 0 .. cap - 1 /\ i - 1 < size
    BY <1>1
  <2>2. head + (i - 1) = head + i - 1
    BY <1>1
  <2> QED
    BY <2>1, <2>2 DEF Linearized, Contents
<1> QED
  BY <1>3, <1>4

-----------------------------------------------------------------------------
(* The shape of the ring *)

\* RingShape in three parts: the flags, the fields, and where the content lies.
Flags == made \in BOOLEAN /\ cut \in BOOLEAN /\ overrun \in BOOLEAN

Fields ==
  /\ capacity \in {0} \cup Powers
  /\ data \in [0 .. capacity - 1 -> Values \cup {NoValue}]
  /\ size \in 0 .. capacity /\ head \in Nat /\ tail \in Nat
  /\ out \in Values \cup {NoValue}

Ends ==
  /\ overrun => cut
  /\ capacity = 0 => head = 0 /\ tail = 0
  /\ capacity > 0 /\ ~overrun =>
       /\ head < capacity
       /\ cut => tail = capacity
       /\ ~cut => tail = (head + size) % capacity

LEMMA ShapeParts == RingShape <=> Flags /\ Fields /\ Ends
<1>1. TypeOK <=> Flags /\ Fields
  BY Zenon DEF TypeOK, Flags, Fields
<1>2. RingShape <=> TypeOK /\ Ends
  <2>1. CASE cut
    BY <2>1 DEF RingShape, Ends, Wrap
  <2>2. CASE ~cut
    BY <2>2 DEF RingShape, Ends, Wrap
  <2> QED
    BY <2>1, <2>2
<1> QED
  BY <1>1, <1>2

LEMMA ShapePartsPrimed == RingShape' <=> Flags' /\ Fields' /\ Ends'
  BY ShapeParts, PTL

\* The fields as the proofs of the single calls use them.
LEMMA FieldTypes ==
  ASSUME RingShape
  PROVE  /\ size \in Nat /\ capacity \in Nat /\ head \in Nat /\ tail \in Nat
         /\ size <= capacity
         /\ data \in [0 .. capacity - 1 -> Values \cup {NoValue}]
         /\ capacity > 0 /\ ~overrun => head < capacity
<1>1. Fields /\ Ends
  BY ShapeParts
<1>2. capacity \in Nat
  BY <1>1, PowersPositive DEF Fields
<1> QED
  BY <1>1, <1>2 DEF Fields, Ends

\* A move of the content to another buffer.
LEMMA ReserveShapes ==
  ASSUME RingShape, ~overrun, NEW n \in Nat, Reserve(n)
  PROVE  RingShape'
<1>1. /\ size \in Nat /\ capacity \in Nat /\ head \in Nat /\ tail \in Nat
      /\ size <= capacity
  BY FieldTypes
<1>2. /\ NewCap(n) \in Nat /\ NewCap(n) >= size
      /\ NewCap(n) = 0 \/ NewCap(n) \in Powers
  BY <1>1, NewCapFits
<1>3. /\ made' = made /\ overrun' = overrun /\ out' = out
      /\ ~overrun' /\ out \in Values \cup {NoValue}
  BY ShapeParts DEF Reserve, Fields
<1>4. CASE ReserveKeeps(n)
  BY <1>3, <1>4, Zenon DEF ReserveKeeps, RingShape, TypeOK, ring, Wrap
<1>5. CASE ReserveDrops(n)
  <2>1. size = 0
    BY <1>1, <1>2, <1>5 DEF ReserveDrops
  <2>2. /\ data' = NoData /\ capacity' = 0 /\ head' = 0 /\ tail' = 0 /\ size' = 0
    BY <1>5, <2>1 DEF ReserveDrops
  <2>3. Flags'
    BY <1>3, <1>5, ShapeParts, Zenon DEF Flags, ReserveDrops
  <2>4. data' \in [0 .. capacity' - 1 -> Values \cup {NoValue}]
    BY <2>2 DEF NoData
  <2>5. Fields'
    BY <1>3, <2>2, <2>4 DEF Fields
  <2>6. Ends'
    BY <1>3, <2>2 DEF Ends
  <2> QED
    BY <2>3, <2>5, <2>6, ShapePartsPrimed
<1>6. CASE ReserveMoves(n)
  <2> DEFINE cap == NewCap(n)
  <2>1. /\ cap > 0 /\ data' = Linearized(cap) /\ capacity' = cap /\ head' = 0
        /\ tail' = size /\ size' = size
    BY <1>6 DEF ReserveMoves, MovesTo
  <2>2. cut' \in BOOLEAN /\ (cut' <=> cap = size)
    BY <1>6, Zenon DEF ReserveMoves, MovesTo
  <2>3. cap \in Nat /\ cap >= size /\ cap \in Powers
    BY <1>2, <2>1
  <2> HIDE DEF cap
  <2>4. Flags'
    BY <1>3, <2>2, ShapeParts, Zenon DEF Flags
  <2>5. data' \in [0 .. capacity' - 1 -> Values \cup {NoValue}]
    BY <2>1, <2>3, LinearizedHolds
  <2>6. Fields'
    BY <1>1, <1>3, <2>1, <2>3, <2>5 DEF Fields
  <2>7. cap # size => size % cap = size
    BY <1>1, <2>3, SmallRemainder
  <2>8. Ends'
    BY <1>1, <1>3, <2>1, <2>2, <2>3, <2>7 DEF Ends
  <2> QED
    BY <2>4, <2>6, <2>8, ShapePartsPrimed
<1> QED
  BY <1>4, <1>5, <1>6 DEF Reserve

\* A new element goes behind the last one, in the ring or, after a resize to
\* exactly the content, outside it.
LEMMA EnqueueInPlaceShapes ==
  ASSUME RingShape, ~overrun, NEW v \in Values, EnqueueInPlace(v)
  PROVE  RingShape'
<1>1. /\ size \in Nat /\ capacity \in Nat /\ head \in Nat /\ tail \in Nat
      /\ size < capacity /\ head < capacity
      /\ data \in [0 .. capacity - 1 -> Values \cup {NoValue}]
  BY FieldTypes DEF EnqueueInPlace
<1>2. /\ cut => tail = capacity
      /\ ~cut => tail = (head + size) % capacity
  BY <1>1, ShapeParts DEF Ends
<1>3. /\ data' = Stored(data, tail, v)
      /\ tail' = (tail + 1) % capacity
      /\ size' = size + 1
      /\ capacity' = capacity /\ head' = head /\ out' = out
  BY DEF EnqueueInPlace, Wrap
<1>4. /\ cut' = cut /\ overrun' \in BOOLEAN
      /\ overrun' <=> tail \notin DOMAIN data
  BY Zenon DEF EnqueueInPlace
<1>5. Flags'
  BY <1>4, ShapeParts, Zenon DEF Flags, EnqueueInPlace
<1>6. data' \in [0 .. capacity - 1 -> Values \cup {NoValue}]
  BY <1>1, <1>3 DEF Stored
<1>7. tail' \in Nat
  BY <1>1, <1>3, RemainderBound
<1>8. Fields'
  BY <1>1, <1>3, <1>6, <1>7, ShapeParts DEF Fields
<1>9. Ends'
  <2>1. CASE cut
    <3>1. overrun' /\ cut'
      BY <1>1, <1>2, <1>4, <2>1
    <3> QED
      BY <1>1, <1>3, <3>1 DEF Ends
  <2>2. CASE ~cut
    <3>1. tail \in 0 .. capacity - 1
      BY <1>1, <1>2, <2>2, RemainderBound
    <3>2. ~overrun' /\ ~cut'
      BY <1>1, <1>4, <2>2, <3>1
    <3> DEFINE x == head + size
    <3>3. x \in Nat /\ x + 1 = head + size'
      BY <1>1, <1>3
    <3>4. tail' = ((x % capacity) + 1) % capacity
      BY <1>2, <1>3, <2>2
    <3> HIDE DEF x
    <3>5. ((x % capacity) + 1) % capacity = (x + 1) % capacity
      <4>1. capacity \in Nat /\ capacity > 0
        BY <1>1
      <4> QED
        BY <3>3, <4>1, RemainderOfSum
    <3>6. tail' = (head' + size') % capacity'
      BY <1>3, <3>3, <3>4, <3>5
    <3> QED
      BY <1>1, <1>3, <3>2, <3>6 DEF Ends
  <2> QED
    BY <2>1, <2>2
<1> QED
  BY <1>5, <1>8, <1>9, ShapePartsPrimed

\* What the buffer doubles to.
LEMMA GrowToFits ==
  ASSUME RingShape, size >= capacity
  PROVE  GrowTo \in Nat /\ GrowTo > size /\ GrowTo \in Powers
<1>1. /\ capacity \in Nat /\ size = capacity
      /\ capacity = 0 \/ capacity \in Powers
  BY FieldTypes, ShapeParts DEF Fields
<1>2. MinCap \in Nat /\ MinCap > 0 /\ MinCap \in Powers
  BY QueueAssumption, PowersPositive
<1>3. capacity > 0 => 2 * capacity \in Powers
  BY <1>1, PowerDoubled
<1> QED
  BY <1>1, <1>2, <1>3 DEF GrowTo

LEMMA EnqueueGrowsShapes ==
  ASSUME RingShape, ~overrun, NEW v \in Values, EnqueueGrows(v)
  PROVE  RingShape'
<1> DEFINE cap == GrowTo
<1>1. /\ data' = Stored(Linearized(cap), size, v)
      /\ capacity' = cap /\ head' = 0
      /\ tail' = (size + 1) % cap
      /\ size' = size + 1 /\ size >= capacity /\ out' = out
  BY DEF EnqueueGrows, Wrap
<1>2. ~cut' /\ ~overrun'
  BY Zenon DEF EnqueueGrows
<1>3. Flags'
  BY ShapeParts, Zenon DEF Flags, EnqueueGrows
<1>4. cap \in Nat /\ cap > size /\ cap \in Powers /\ size \in Nat
  BY <1>1, GrowToFits, FieldTypes
<1> HIDE DEF cap
<1>5. Linearized(cap) \in [0 .. cap - 1 -> Values \cup {NoValue}]
  BY <1>4, LinearizedHolds
<1>6. data' \in [0 .. cap - 1 -> Values \cup {NoValue}]
  BY <1>1, <1>4, <1>5 DEF Stored
<1>7. tail' \in Nat
  BY <1>1, <1>4, RemainderBound
<1>8. Fields'
  BY <1>1, <1>4, <1>6, <1>7, ShapeParts DEF Fields
<1>9. Ends'
  BY <1>1, <1>2, <1>4 DEF Ends
<1> QED
  BY <1>3, <1>8, <1>9, ShapePartsPrimed

LEMMA DequeueShapes ==
  ASSUME RingShape, ~overrun, Dequeue
  PROVE  RingShape'
<1>1. /\ size \in Nat /\ capacity \in Nat /\ head \in Nat /\ tail \in Nat
      /\ 0 < size /\ size <= capacity /\ head < capacity
      /\ data \in [0 .. capacity - 1 -> Values \cup {NoValue}]
  BY FieldTypes DEF Dequeue
<1>2. /\ cut => tail = capacity
      /\ ~cut => tail = (head + size) % capacity
  BY <1>1, ShapeParts DEF Ends
<1>3. /\ out' = data[head]
      /\ head' = (head + 1) % capacity
      /\ size' = size - 1
      /\ data' = data /\ capacity' = capacity /\ tail' = tail
  BY DEF Dequeue, Wrap
<1>4. (cut' <=> cut) /\ ~overrun'
  BY Zenon DEF Dequeue
<1>5. Flags'
  BY ShapeParts, Zenon DEF Flags, Dequeue
<1>6. head' \in Nat /\ head' < capacity
  BY <1>1, <1>3, RemainderBound
<1>7. Fields'
  BY <1>1, <1>3, <1>6, ShapeParts DEF Fields
<1>8. (((head + 1) % capacity) + (size - 1)) % capacity
        = ((head + 1) + (size - 1)) % capacity
  <2> DEFINE x == head + 1
             y == size - 1
  <2>1. x \in Nat /\ y \in Nat /\ capacity \in Nat /\ capacity > 0
    BY <1>1
  <2> HIDE DEF x, y
  <2>2. ((x % capacity) + y) % capacity = (x + y) % capacity
    BY <2>1, RemainderOfSum, ZenonT(60)
  <2> QED
    BY <2>2 DEF x, y
<1>9. (head + 1) + (size - 1) = head + size
  BY <1>1
<1>10. (head' + size') % capacity' = (head + size) % capacity
  BY <1>3, <1>8, <1>9
<1>11. Ends'
  BY <1>1, <1>2, <1>3, <1>4, <1>6, <1>10, SMTT(60) DEF Ends
<1> QED
  BY <1>5, <1>7, <1>11, ShapePartsPrimed

\* Create, Clear and Destroy set the indices anew.
LEMMA EmptyShapes ==
  ASSUME Flags', ~overrun', ~cut', size' = 0, head' = 0, tail' = 0,
         out' \in Values \cup {NoValue}, capacity' \in {0} \cup Powers,
         data' \in [0 .. capacity' - 1 -> Values \cup {NoValue}]
  PROVE  RingShape'
<1>1. capacity' \in Nat
  BY PowersPositive
<1>2. Fields'
  <2>1. size' \in 0 .. capacity'
    BY <1>1
  <2>2. head' \in Nat /\ tail' \in Nat
    OBVIOUS
  <2> QED
    BY <2>1, <2>2, Zenon DEF Fields
<1>3. capacity' > 0 => 0 % capacity' = 0
  BY <1>1, SmallRemainder
<1>4. capacity' > 0 => head' < capacity' /\ tail' = (head' + size') % capacity'
  <2> DEFINE x == head' + size'
  <2>1. x = 0
    OBVIOUS
  <2> HIDE DEF x
  <2>2. capacity' > 0 => head' < capacity' /\ tail' = x % capacity'
    BY <1>1, <1>3, <2>1
  <2> QED
    BY <2>2 DEF x
<1>5. Ends'
  BY <1>4, Zenon DEF Ends
<1> QED
  BY <1>2, <1>5, ShapePartsPrimed

LEMMA CreateShapes ==
  ASSUME RingShape, ~overrun, NEW n \in Nat, Create(n)
  PROVE  RingShape'
<1>1. /\ Flags' /\ ~overrun' /\ ~cut'
  BY ShapeParts, Zenon DEF Create, Flags
<1>2. /\ size' = 0 /\ head' = 0 /\ tail' = 0 /\ out' \in Values \cup {NoValue}
      /\ capacity' = RoundUp(n) /\ data' = Fresh(RoundUp(n))
  BY DEF Create
<1>3. /\ capacity' \in {0} \cup Powers
      /\ data' \in [0 .. capacity' - 1 -> Values \cup {NoValue}]
  BY <1>2, RoundUpFits DEF Fresh
<1> QED
  BY <1>1, <1>2, <1>3, EmptyShapes

LEMMA ClearShapes ==
  ASSUME RingShape, ~overrun, Clear
  PROVE  RingShape'
<1>1. /\ Flags' /\ ~overrun' /\ ~cut'
  BY ShapeParts, Zenon DEF Clear, Flags
<1>2. /\ size' = 0 /\ head' = 0 /\ tail' = 0 /\ out' \in Values \cup {NoValue}
      /\ capacity' \in {0} \cup Powers
      /\ data' \in [0 .. capacity' - 1 -> Values \cup {NoValue}]
  BY ShapeParts DEF Clear, Fields
<1> QED
  BY <1>1, <1>2, EmptyShapes

LEMMA DestroyShapes ==
  ASSUME RingShape, ~overrun, Destroy
  PROVE  RingShape'
<1>1. /\ Flags' /\ ~overrun' /\ ~cut'
  BY ShapeParts, Zenon DEF Destroy, Flags
<1>2. /\ size' = 0 /\ head' = 0 /\ tail' = 0 /\ out' \in Values \cup {NoValue}
      /\ capacity' \in {0} \cup Powers
      /\ data' \in [0 .. capacity' - 1 -> Values \cup {NoValue}]
  BY ShapeParts DEF Destroy, Fields, NoData
<1> QED
  BY <1>1, <1>2, EmptyShapes

\* However the queue is filled, drained, wrapped and resized, head and tail of
\* its ring are exactly size slots apart and inside the buffer, but for the
\* time after a resize to exactly the content; only then is a slot outside the
\* buffer written.
THEOREM RingAlwaysShaped == Spec => []RingShape
<1>1. Init => RingShape
  <2> SUFFICES ASSUME Init PROVE RingShape
    OBVIOUS
  <2>1. data \in [0 .. capacity - 1 -> Values \cup {NoValue}]
    BY DEF Init, NoData
  <2>2. Flags
    BY Zenon DEF Init, Flags
  <2>3. Fields
    BY <2>1 DEF Init, Fields
  <2>4. Ends
    BY DEF Init, Ends
  <2> QED
    BY <2>2, <2>3, <2>4, ShapeParts
<1>2. RingShape /\ [Next]_vars => RingShape'
  <2> SUFFICES ASSUME RingShape, [Next]_vars PROVE RingShape'
    OBVIOUS
  <2>1. CASE UNCHANGED vars
    BY <2>1 DEF vars, ring, RingShape, TypeOK, Wrap
  <2>2. CASE Stopped
    BY <2>2 DEF Stopped, vars, ring, RingShape, TypeOK, Wrap
  <2>3. ASSUME ~overrun, NEW n \in Targets, Reserve(n) PROVE RingShape'
    BY <2>3, ReserveShapes, QueueAssumption
  <2>4. ASSUME ~overrun, NEW v \in Values, EnqueueInPlace(v) PROVE RingShape'
    BY <2>4, EnqueueInPlaceShapes
  <2>5. ASSUME ~overrun, NEW v \in Values, EnqueueGrows(v) PROVE RingShape'
    BY <2>5, EnqueueGrowsShapes
  <2>6. ASSUME ~overrun, Dequeue PROVE RingShape'
    BY <2>6, DequeueShapes
  <2>7. ASSUME ~overrun, ShrinkToFit PROVE RingShape'
    <3>1. size \in Nat
      BY DEF RingShape, TypeOK
    <3> QED
      BY <2>7, <3>1, ReserveShapes DEF ShrinkToFit
  <2>8. ASSUME ~overrun, NEW n \in Targets, Create(n) PROVE RingShape'
    BY <2>8, CreateShapes, QueueAssumption
  <2>9. ASSUME ~overrun, Clear \/ Destroy PROVE RingShape'
    BY <2>9, ClearShapes, DestroyShapes
  <2> QED
    BY <2>1, <2>2, <2>3, <2>4, <2>5, <2>6, <2>7, <2>8, <2>9 DEF Next
<1> QED
  BY <1>1, <1>2, PTL DEF Spec

-----------------------------------------------------------------------------
(* The ring as a FIFO *)

LEMMA ContentsPrimed ==
  Contents' = [i \in 1 .. size' |-> data'[(head' + i - 1) % capacity']]
  BY DEF Contents, Wrap

\* Moving the content to another buffer keeps it.
LEMMA MoveKeepsContents ==
  ASSUME RingShape, ~overrun, NEW cap \in Nat, cap >= size,
         NEW d, \A i \in 1 .. size : d[i - 1] = Linearized(cap)[i - 1]
  PROVE  [i \in 1 .. size |-> d[(0 + i - 1) % cap]] = Contents
<1>1. size \in Nat
  BY FieldTypes
<1>2. ASSUME NEW i \in 1 .. size PROVE d[(0 + i - 1) % cap] = Contents[i]
  <2> DEFINE j == i - 1
  <2>1. j \in Nat /\ j < cap /\ 0 + i - 1 = j
    BY <1>1
  <2> HIDE DEF j
  <2>2. j % cap = j
    BY <2>1, SmallRemainder
  <2>3. d[j] = Contents[i]
    BY LinearizedHolds DEF j
  <2> QED
    BY <2>1, <2>2, <2>3
<1>3. Contents = [i \in 1 .. size |-> Contents[i]]
  BY DEF Contents
<1> QED
  BY <1>2, <1>3

LEMMA ReserveKeepsContents ==
  ASSUME RingShape, ~overrun, NEW n \in Nat, Reserve(n)
  PROVE  Contents' = Contents
<1>1. size \in Nat /\ NewCap(n) \in Nat /\ NewCap(n) >= size
  BY FieldTypes, NewCapFits
<1>2. CASE ReserveKeeps(n)
  BY <1>2 DEF ReserveKeeps, ring, Contents, Wrap
<1>3. CASE ReserveDrops(n)
  <2>1. size = 0 /\ size' = 0
    BY <1>1, <1>3 DEF ReserveDrops
  <2> QED
    BY <2>1 DEF Contents
<1>4. CASE ReserveMoves(n)
  <2> DEFINE cap == NewCap(n)
  <2>1. data' = Linearized(cap) /\ capacity' = cap /\ head' = 0 /\ size' = size
    BY <1>4 DEF ReserveMoves, MovesTo
  <2> HIDE DEF cap
  <2>2. Contents' = [i \in 1 .. size |-> Linearized(cap)[(0 + i - 1) % cap]]
    BY <2>1, ContentsPrimed
  <2>3. cap \in Nat /\ cap >= size
    BY <1>1 DEF cap
  <2> QED
    BY <2>2, <2>3, MoveKeepsContents
<1> QED
  BY <1>2, <1>3, <1>4 DEF Reserve

\* The element joins at the back: in the ring ...
LEMMA EnqueueInPlaceAppends ==
  ASSUME RingShape, ~overrun, NEW v \in Values, EnqueueInPlace(v), ~overrun'
  PROVE  Contents' = Append(Contents, v)
<1> DEFINE V == Values \cup {NoValue}
<1>1. /\ size \in Nat /\ capacity \in Nat /\ head \in Nat /\ capacity > 0
      /\ size < capacity
      /\ data \in [0 .. capacity - 1 -> V]
  BY FieldTypes DEF EnqueueInPlace
<1>2. tail \in 0 .. capacity - 1
  <2>1. tail \in DOMAIN data
    BY Zenon DEF EnqueueInPlace
  <2> QED
    BY <1>1, <2>1
<1>3. tail = (head + size) % capacity
  <2>1. ~cut
    BY <1>1, <1>2, ShapeParts DEF Ends
  <2> QED
    BY <1>1, <2>1, ShapeParts DEF Ends
<1>4. /\ data' = [data EXCEPT ![tail] = v]
      /\ size' = size + 1 /\ head' = head /\ capacity' = capacity
  BY <1>1, <1>2 DEF EnqueueInPlace, Stored
<1>5. Contents' = [i \in 1 .. size + 1 |-> data'[(head + i - 1) % capacity]]
  BY <1>4, ContentsPrimed
<1>6. ASSUME NEW i \in 1 .. size
      PROVE  data'[(head + i - 1) % capacity] = Contents[i]
  <2> DEFINE x == head + i - 1
             y == head + size
  <2>1. x \in Nat /\ y \in Nat /\ x < y /\ y - x < capacity
    BY <1>1
  <2>2. Contents[i] = data[x % capacity]
    BY DEF Contents, Wrap
  <2>3. tail = y % capacity
    BY <1>3
  <2> HIDE DEF x, y
  <2>4. x % capacity # y % capacity
    BY <1>1, <2>1, RemainderApart
  <2>5. x % capacity \in 0 .. capacity - 1
    BY <1>1, <2>1, RemainderBound
  <2>6. data'[x % capacity] = data[x % capacity]
    BY <1>1, <1>4, <2>3, <2>4, <2>5
  <2> QED
    BY <2>2, <2>6 DEF x
<1>7. data'[(head + (size + 1) - 1) % capacity] = v
  <2> DEFINE y == head + size
  <2>1. head + (size + 1) - 1 = y
    BY <1>1
  <2>2. tail = y % capacity
    BY <1>3
  <2> HIDE DEF y
  <2> QED
    BY <1>1, <1>2, <1>4, <2>1, <2>2
<1>8. Contents \in Seq(V) /\ Len(Contents) = size
  BY ContentsType
<1> DEFINE t == Contents'
<1>9. (size + 1 \in 1 .. size + 1) /\ \A i \in 1 .. size : i \in 1 .. size + 1
  BY <1>1
<1>10. /\ \A i \in 1 .. size : t[i] = Contents[i]
       /\ t[size + 1] = v
  BY <1>5, <1>6, <1>7, <1>9
<1>11. t \in [1 .. size + 1 -> V]
  <2>1. Contents \in [1 .. size -> V]
    BY <1>8
  <2>2. ASSUME NEW i \in 1 .. size + 1 PROVE t[i] \in V
    BY <1>1, <1>10, <2>1
  <2> QED
    BY <1>5, <2>2
<1> HIDE DEF t, V
<1>12. v \in V
  BY DEF V
<1>13. t = Append(Contents, v)
  BY <1>1, <1>8, <1>10, <1>11, <1>12, AppendForm
<1> QED
  BY <1>13 DEF t

\* ... or behind the content in a buffer of twice the size.
LEMMA EnqueueGrowsAppends ==
  ASSUME RingShape, ~overrun, NEW v \in Values, EnqueueGrows(v)
  PROVE  Contents' = Append(Contents, v)
<1> DEFINE V == Values \cup {NoValue}
           cap == GrowTo
<1>1. /\ data' = Stored(Linearized(cap), size, v)
      /\ capacity' = cap /\ head' = 0 /\ size' = size + 1 /\ size >= capacity
  BY DEF EnqueueGrows
<1>2. size \in Nat /\ cap \in Nat /\ cap > size
  BY <1>1, GrowToFits, FieldTypes
<1> HIDE DEF cap
<1>3. Linearized(cap) \in [0 .. cap - 1 -> V]
  BY <1>2, LinearizedHolds
<1>4. data' = [Linearized(cap) EXCEPT ![size] = v]
  BY <1>1, <1>2, <1>3 DEF Stored
<1>5. Contents' = [i \in 1 .. size + 1 |-> data'[(0 + i - 1) % cap]]
  BY <1>1, ContentsPrimed
<1>6. ASSUME NEW i \in 1 .. size + 1
      PROVE  (0 + i - 1) % cap = i - 1
  <2> DEFINE j == i - 1
  <2>1. j \in Nat /\ j < cap /\ 0 + i - 1 = j
    BY <1>2
  <2> HIDE DEF j
  <2>2. j % cap = j
    BY <1>2, <2>1, SmallRemainder
  <2> QED
    BY <2>1, <2>2 DEF j
<1>7. ASSUME NEW i \in 1 .. size
      PROVE  data'[i - 1] = Contents[i]
  <2>1. Linearized(cap)[i - 1] = Contents[i]
    BY <1>2, LinearizedHolds
  <2> QED
    BY <1>2, <1>3, <1>4, <2>1
<1>8. data'[(size + 1) - 1] = v
  BY <1>2, <1>3, <1>4
<1>9. Contents \in Seq(V) /\ Len(Contents) = size
  BY ContentsType
<1> DEFINE t == Contents'
<1>10. ASSUME NEW i \in 1 .. size + 1 PROVE t[i] = data'[i - 1]
  BY <1>5, <1>6
<1>11. (size + 1 \in 1 .. size + 1) /\ \A i \in 1 .. size : i \in 1 .. size + 1
  BY <1>2
<1>12. /\ \A i \in 1 .. size : t[i] = Contents[i]
       /\ t[size + 1] = v
  BY <1>7, <1>8, <1>10, <1>11
<1>13. t \in [1 .. size + 1 -> V]
  <2>1. Contents \in [1 .. size -> V]
    BY <1>9
  <2>2. ASSUME NEW i \in 1 .. size + 1 PROVE t[i] \in V
    BY <1>2, <1>12, <2>1
  <2> QED
    BY <1>5, <2>2
<1> HIDE DEF t, V
<1>14. v \in V
  BY DEF V
<1>15. t = Append(Contents, v)
  BY <1>2, <1>9, <1>12, <1>13, <1>14, AppendForm
<1> QED
  BY <1>15 DEF t

\* The oldest element leaves.
LEMMA DequeueTakesHead ==
  ASSUME RingShape, ~overrun, Dequeue
  PROVE  /\ Contents # <<>>
         /\ out' = Head(Contents)
         /\ Contents' = Tail(Contents)
<1> DEFINE V == Values \cup {NoValue}
<1>1. /\ size \in Nat /\ capacity \in Nat /\ head \in Nat /\ capacity > 0
      /\ size > 0 /\ head < capacity
      /\ data \in [0 .. capacity - 1 -> V]
  BY FieldTypes DEF Dequeue
<1>2. /\ out' = data[head] /\ head' = (head + 1) % capacity
      /\ size' = size - 1 /\ data' = data /\ capacity' = capacity
  BY DEF Dequeue, Wrap
<1>3. Contents \in Seq(V) /\ Len(Contents) = size
  BY ContentsType
<1>4. Contents[1] = data[head]
  <2>1. head + 1 - 1 = head /\ head % capacity = head
    BY <1>1, SmallRemainder
  <2>2. Contents[1] = data[(head + 1 - 1) % capacity]
    BY <1>1 DEF Contents, Wrap
  <2> QED
    BY <2>1, <2>2
<1>5. Contents # <<>> /\ Head(Contents) = Contents[1]
  BY <1>1, <1>3
<1>6. Tail(Contents) = [i \in 1 .. size - 1 |-> Contents[i + 1]]
  BY <1>1, <1>3
<1>7. Contents' = [i \in 1 .. size - 1 |->
                     data[(((head + 1) % capacity) + i - 1) % capacity]]
  BY <1>2, ContentsPrimed
<1>8. ASSUME NEW i \in 1 .. size - 1
      PROVE  data[(((head + 1) % capacity) + i - 1) % capacity] = Contents[i + 1]
  <2> DEFINE x == head + 1
             y == i - 1
             r == x % capacity
  <2>1. x \in Nat /\ y \in Nat
    BY <1>1
  <2>2. x + y = head + (i + 1) - 1
    BY <1>1
  <2> HIDE DEF x
  <2>3. r \in Nat
    BY <1>1, <2>1, RemainderBound
  <2>4. r + i - 1 = r + y
    BY <2>3
  <2> HIDE DEF y
  <2>5. (r + y) % capacity = (x + y) % capacity
    BY <1>1, <2>1, RemainderOfSum, ZenonT(60)
  <2>6. Contents[i + 1] = data[(head + (i + 1) - 1) % capacity]
    BY <1>1 DEF Contents, Wrap
  <2> HIDE DEF r
  <2>7. data[(r + i - 1) % capacity] = Contents[i + 1]
    BY <2>2, <2>4, <2>5, <2>6
  <2> QED
    BY <2>7 DEF r, x
<1> QED
  BY <1>2, <1>4, <1>5, <1>6, <1>7, <1>8

LEMMA EmptyContents ==
  ASSUME size' = 0
  PROVE  Contents' = <<>>
  BY ContentsPrimed

\* Every call is a step of the FIFO or leaves it alone, up to the write
\* outside the buffer.
LEMMA CallRefines ==
  ASSUME RingShape, [Next]_vars
  PROVE  [overrun' \/ Abstract!Next]_<<Contents, out>>
<1>1. CASE UNCHANGED vars
  BY <1>1 DEF vars, ring, Contents, Wrap
<1>2. CASE Stopped
  BY <1>2 DEF Stopped, vars, ring, Contents, Wrap
<1>3. ASSUME ~overrun, NEW n \in Nat, Reserve(n)
      PROVE  UNCHANGED <<Contents, out>>
  BY <1>3, ReserveKeepsContents DEF Reserve
<1>4. ASSUME ~overrun, NEW v \in Values, EnqueueInPlace(v)
      PROVE  overrun' \/ Abstract!Next
  <2>1. CASE ~overrun'
    <3>1. Contents' = Append(Contents, v) /\ out' = out
      BY <1>4, <2>1, EnqueueInPlaceAppends DEF EnqueueInPlace
    <3> QED
      BY <3>1 DEF Abstract!Next, Abstract!Enqueue
  <2> QED
    BY <2>1
<1>5. ASSUME ~overrun, NEW v \in Values, EnqueueGrows(v)
      PROVE  Abstract!Next
  <2>1. Contents' = Append(Contents, v) /\ out' = out
    BY <1>5, EnqueueGrowsAppends DEF EnqueueGrows
  <2> QED
    BY <2>1 DEF Abstract!Next, Abstract!Enqueue
<1>6. ASSUME ~overrun, Dequeue
      PROVE  Abstract!Next
  BY <1>6, DequeueTakesHead DEF Abstract!Next, Abstract!Dequeue
<1>7. ASSUME NEW n \in Targets, Create(n)
      PROVE  Abstract!Next
  <2>1. Contents' = <<>> /\ out' = NoValue
    BY <1>7, EmptyContents DEF Create
  <2> QED
    BY <2>1 DEF Abstract!Next, Abstract!Clear
<1>8. ASSUME Clear \/ Destroy
      PROVE  Abstract!Next
  <2>1. Contents' = <<>> /\ out' = out
    BY <1>8, EmptyContents DEF Clear, Destroy
  <2> QED
    BY <2>1 DEF Abstract!Next, Abstract!Clear
<1>9. size \in Nat /\ Targets \subseteq Nat
  BY FieldTypes, QueueAssumption
<1> QED
  BY <1>1, <1>2, <1>3, <1>4, <1>5, <1>6, <1>7, <1>8, <1>9 DEF Next, ShrinkToFit

\* The queue is a FIFO: growing, shrinking and wrapping keep the elements and
\* their order, and Dequeue returns the oldest.
THEOREM QueueImplementsFifo == Spec => ImplementsFifo
<1>1. Init => Abstract!Init
  BY DEF Init, Abstract!Init, Contents
<1>2. RingShape /\ [Next]_vars => [overrun' \/ Abstract!Next]_<<Contents, out>>
  BY CallRefines
<1> QED
  BY <1>1, <1>2, RingAlwaysShaped, PTL DEF Spec, ImplementsFifo
=============================================================================
