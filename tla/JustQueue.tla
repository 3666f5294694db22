----------------------------- MODULE JustQueue -----------------------------
(***************************************************************************)
(* justQueue (src/dataStructures/queue.c and queue.h): a FIFO in a ring of *)
(* slots whose number is a power of two, grown by doubling and resized to  *)
(* order.  The thread pool keeps its tasks in one.                         *)
(*                                                                         *)
(* One action is one call; the structure is not shared between threads     *)
(* without a lock of its user.  An allocation of up to MaxCap slots may    *)
(* succeed or fail, a larger one fails.                                    *)
(***************************************************************************)
EXTENDS PowersOfTwo, Sequences

CONSTANTS
  Values,      \* the elements
  NoValue,     \* the content of a slot never written, and "no output"
  MinCap,      \* JUST_QUEUE_DEFAULT_GROWTH_CAPACITY
  MaxCap,      \* bound: slots of the largest buffer memory has room for
  Targets      \* bound: capacities that Create and Reserve are asked for

ASSUME QueueAssumption ==
  /\ MinCap \in Powers /\ MaxCap \in Nat
  /\ Targets \subseteq Nat
  /\ NoValue \notin Values

VARIABLES
  made,      \* has Create succeeded, and Destroy not been called since?
  data,      \* the slots: a function on 0 .. capacity-1, empty for NULL
  capacity, size, head, tail,
  cut,       \* history: the ring was resized to exactly its content, and
             \* its indices not set anew since
  overrun,   \* was a slot outside the buffer written?
  out        \* the value the last Dequeue copied out

ring == <<data, capacity, size, head, tail>>
vars == <<made, ring, cut, overrun, out>>

NoData == [i \in {} |-> NoValue]
Fresh(n) == [i \in 0 .. n - 1 |-> NoValue]

Init ==
  /\ made = FALSE
  /\ data = NoData
  /\ capacity = 0 /\ size = 0 /\ head = 0 /\ tail = 0
  /\ cut = FALSE /\ overrun = FALSE
  /\ out = NoValue

\* justQueueRoundToPowerOfTwo
RoundUp(n) ==
  IF n = 0 THEN 0
  ELSE IF n < MinCap THEN MinCap
  ELSE PowerAtLeast(n)

\* An index one further, & mask.
Wrap(i, cap) == i % cap

\* The elements in order, from head on.
Contents == [i \in 1 .. size |-> data[Wrap(head + i - 1, capacity)]]

-----------------------------------------------------------------------------
Create(n) ==
  /\ ~made
  /\ RoundUp(n) <= MaxCap
  /\ made' = TRUE
  /\ capacity' = RoundUp(n)
  /\ data' = Fresh(RoundUp(n))
  /\ size' = 0 /\ head' = 0 /\ tail' = 0 /\ cut' = FALSE
  /\ out' = NoValue
  /\ UNCHANGED overrun

Destroy ==
  /\ made
  /\ made' = FALSE
  /\ data' = NoData
  /\ capacity' = 0 /\ size' = 0 /\ head' = 0 /\ tail' = 0 /\ cut' = FALSE
  /\ UNCHANGED <<overrun, out>>

\* The capacity justQueueReserve aims at when it is asked for n.
NewCap(n) == IF RoundUp(n) < size THEN RoundUp(size) ELSE RoundUp(n)

\* Mutant: the content is copied from slot 0, wherever its head is.
LinearizedFromZero(cap) ==
  [i \in 0 .. cap - 1 |-> IF i < size THEN data[i] ELSE NoValue]

\* The buffer after justQueueReserve moved to cap slots: the content starts
\* at slot 0.
Linearized(cap) ==
  [i \in 0 .. cap - 1 |-> IF i < size THEN data[Wrap(head + i, capacity)]
                                      ELSE NoValue]

\* Reserve finds the ring as it should be, gives the buffer up, or moves to a
\* new one.
ReserveKeeps(n) ==
  /\ NewCap(n) = capacity /\ capacity > 0
  /\ UNCHANGED <<ring, cut>>

ReserveDrops(n) ==
  /\ NewCap(n) = 0
  /\ data' = NoData
  /\ capacity' = 0 /\ head' = 0 /\ tail' = 0 /\ cut' = FALSE
  /\ UNCHANGED size

\* Mutant: the tail keeps its place in the old ring.
MovesToOldTail(cap) ==
  /\ cap <= MaxCap
  /\ data' = Linearized(cap)
  /\ capacity' = cap
  /\ head' = 0 /\ cut' = (cap = size)
  /\ UNCHANGED <<size, tail>>

MovesTo(cap) ==
  /\ cap <= MaxCap
  /\ data' = Linearized(cap)
  /\ capacity' = cap
  /\ head' = 0
  /\ tail' = size /\ cut' = (cap = size)
  /\ UNCHANGED size

ReserveMoves(n) ==
  /\ NewCap(n) # capacity /\ NewCap(n) > 0
  /\ MovesTo(NewCap(n))

\* justQueueReserve; when the allocation fails it changes nothing.
Reserve(n) ==
  /\ made
  /\ ReserveKeeps(n) \/ ReserveDrops(n) \/ ReserveMoves(n)
  /\ UNCHANGED <<made, overrun, out>>

ShrinkToFit == Reserve(size)

\* memcpy to the slot at index i of buffer d.
Stored(d, i, v) == IF i \in DOMAIN d THEN [d EXCEPT ![i] = v] ELSE d

\* justQueueEnqueue, room being left.
EnqueueInPlace(v) ==
  /\ made
  /\ size < capacity
  /\ data' = Stored(data, tail, v)
  /\ overrun' = (overrun \/ tail \notin DOMAIN data)
  /\ tail' = Wrap(tail + 1, capacity)
  /\ size' = size + 1
  /\ UNCHANGED <<made, capacity, head, cut, out>>

\* justQueueEnqueue with a full ring: Reserve(2 * capacity) first; when it
\* fails nothing changes.
GrowTo == IF capacity > 0 THEN 2 * capacity ELSE MinCap

EnqueueGrows(v) ==
  /\ made
  /\ size >= capacity
  /\ GrowTo <= MaxCap
  /\ data' = Stored(Linearized(GrowTo), size, v)
  /\ capacity' = GrowTo
  /\ head' = 0
  /\ tail' = Wrap(size + 1, GrowTo) /\ cut' = FALSE
  /\ size' = size + 1
  /\ UNCHANGED <<made, overrun, out>>

Dequeue ==
  /\ made /\ size > 0
  /\ out' = data[head]
  /\ head' = Wrap(head + 1, capacity)
  /\ size' = size - 1
  /\ UNCHANGED <<made, data, capacity, tail, cut, overrun>>

Clear ==
  /\ made
  /\ size' = 0 /\ head' = 0 /\ tail' = 0 /\ cut' = FALSE
  /\ UNCHANGED <<made, data, capacity, overrun, out>>

\* After a write outside the buffer memory holds anything: the model ends.
Stopped == overrun /\ UNCHANGED vars

Next ==
  \/ Stopped
  \/ /\ ~overrun
     /\ \/ \E n \in Targets : Create(n) \/ Reserve(n)
        \/ \E v \in Values : EnqueueInPlace(v) \/ EnqueueGrows(v)
        \/ Dequeue \/ Clear \/ ShrinkToFit \/ Destroy

Spec == Init /\ [][Next]_vars

-----------------------------------------------------------------------------
(* Properties *)

\* Every field holds a value of its type, and the buffer has capacity slots.
TypeOK ==
  /\ made \in BOOLEAN /\ cut \in BOOLEAN /\ overrun \in BOOLEAN
  /\ capacity \in {0} \cup Powers
  /\ data \in [0 .. capacity - 1 -> Values \cup {NoValue}]
  /\ size \in 0 .. capacity /\ head \in Nat /\ tail \in Nat
  /\ out \in Values \cup {NoValue}

\* However the ring was filled, drained, wrapped and resized, head and tail
\* are exactly size slots apart and inside the buffer, with one exception: a
\* resize to exactly the content leaves the tail behind the last slot until
\* the indices are set anew, and only then does justQueueEmplace ever hand
\* out a slot outside the buffer.
RingShape ==
  /\ TypeOK
  /\ overrun => cut
  /\ capacity = 0 => head = 0 /\ tail = 0
  /\ capacity > 0 /\ ~overrun =>
       /\ head < capacity
       /\ tail = IF cut THEN capacity ELSE Wrap(head + size, capacity)

\* Up to such a write the ring is a FIFO: growing, shrinking and wrapping keep
\* the elements and their order, and Dequeue returns the oldest.
Abstract == INSTANCE Fifo WITH items <- Contents
ImplementsFifo == Abstract!Init /\ [][overrun' \/ Abstract!Next]_<<Contents, out>>
=============================================================================
