----------------------------- MODULE RingBuffer -----------------------------
(***************************************************************************)
(* justRingBuffer (src/dataStructures/ringBuffer.c and ringBuffer.h): a    *)
(* ring of fixed capacity, a power of two, written at head and read at     *)
(* tail.  When full it refuses a push or overwrites its oldest element.    *)
(***************************************************************************)
EXTENDS PowersOfTwo, Sequences

CONSTANTS
  Values, NoValue,
  Targets  \* bound: capacities Create is asked for

ASSUME RingAssumption ==
  /\ NoValue \notin Values
  /\ Targets \subseteq Nat \ {0}

VARIABLES data, capacity, head, tail, count, allowOverwrite,
          out  \* the value the last Pop copied out

ringVars == <<data, capacity, head, tail, count, allowOverwrite, out>>

RingInit ==
  /\ data = [i \in {} |-> NoValue]
  /\ capacity = 0 /\ head = 0 /\ tail = 0 /\ count = 0
  /\ allowOverwrite = FALSE
  /\ out = NoValue

NextPowerOfTwo(n) == PowerAtLeast(n)

\* (i + 1) & mask
Step(i) == (i + 1) % capacity

RingCreate(n, overwrite) ==
  /\ capacity = 0
  /\ capacity' = NextPowerOfTwo(n)
  /\ data' = [i \in 0 .. NextPowerOfTwo(n) - 1 |-> NoValue]
  /\ head' = 0 /\ tail' = 0 /\ count' = 0
  /\ allowOverwrite' = overwrite
  /\ UNCHANGED out

RingDestroy ==
  /\ capacity > 0
  /\ data' = [i \in {} |-> NoValue]
  /\ capacity' = 0 /\ head' = 0 /\ tail' = 0 /\ count' = 0
  /\ UNCHANGED <<allowOverwrite, out>>

\* justRingBufferPush with a free slot.
Push(v) ==
  /\ count < capacity
  /\ data' = [data EXCEPT ![head] = v]
  /\ head' = Step(head)
  /\ count' = count + 1
  /\ UNCHANGED <<capacity, tail, allowOverwrite, out>>

\* Mutant: the oldest element is overwritten, but still the next to be read.
PushOverTail(v) ==
  /\ capacity > 0 /\ count = capacity /\ allowOverwrite
  /\ data' = [data EXCEPT ![head] = v]
  /\ head' = Step(head)
  /\ UNCHANGED <<capacity, tail, count, allowOverwrite, out>>

\* justRingBufferPush on a full ring: refused, or the oldest gives way.
PushOver(v) ==
  /\ capacity > 0 /\ count = capacity /\ allowOverwrite
  /\ tail' = Step(tail)
  /\ data' = [data EXCEPT ![head] = v]
  /\ head' = Step(head)
  /\ UNCHANGED <<capacity, count, allowOverwrite, out>>

Pop ==
  /\ count > 0
  /\ out' = data[tail]
  /\ tail' = Step(tail)
  /\ count' = count - 1
  /\ UNCHANGED <<data, capacity, head, allowOverwrite>>

Clear ==
  /\ capacity > 0
  /\ head' = 0 /\ tail' = 0 /\ count' = 0
  /\ UNCHANGED <<data, capacity, allowOverwrite, out>>

RingNext ==
  \/ \E n \in Targets, overwrite \in BOOLEAN : RingCreate(n, overwrite)
  \/ \E v \in Values : Push(v) \/ PushOver(v)
  \/ Pop \/ Clear \/ RingDestroy

RingSpec == RingInit /\ [][RingNext]_ringVars

-----------------------------------------------------------------------------
(* Properties *)

\* The elements, oldest first.
Contents == [i \in 1 .. count |-> data[(tail + i - 1) % capacity]]

\* The ring is a window on the last elements pushed: those, and in order.
Abstract ==
  INSTANCE Window WITH items <- Contents, width <- capacity,
                       overwrite <- allowOverwrite
ImplementsWindow == Abstract!Spec
=============================================================================
