---------------------------- MODULE DynamicArray ----------------------------
(***************************************************************************)
(* justDynamicArray (src/dataStructures/dynamicArray.c, dynamicArray.h): a *)
(* buffer of capacity elements, the first size of which are in use, taken  *)
(* from the heap or from a linear allocator.                               *)
(*                                                                         *)
(* Memory is a function from the blocks in existence to their cells.  A    *)
(* source of elements to push is memory too: the caller's own, or a part   *)
(* of the array.  Reading a block that realloc has freed gives Junk.       *)
(***************************************************************************)
EXTENDS Integers, Sequences, FiniteSets, FiniteSetsExt, Functions

CONSTANTS
  Values,
  Junk,           \* a cell nobody has written
  Null,
  HeapCells,      \* the largest block malloc and realloc can give
  ArenaCells,     \* the size of the linear allocator
  DEFAULT_GROWTH, \* JUST_DARRAY_DEFAULT_GROWTH_CAPACITY
  Capacities,     \* bound: capacities asked for
  Ranges          \* bound: the contents of a caller's own source buffers

ASSUME ArrayAssumption ==
  /\ Junk \notin Values /\ Null \notin Values \cup {Junk} \cup Nat
  /\ HeapCells \in Nat /\ ArenaCells \in Nat
  /\ DEFAULT_GROWTH \in Nat \ {0}
  /\ Capacities \subseteq Nat
  /\ Ranges \subseteq Seq(Values)

VARIABLES
  made,       \* does the array exist?
  allocator,  \* "heap" or "arena"
  data, capacity, size,
  mem,        \* the blocks in existence
  room,       \* cells left in the linear allocator
  out,        \* the value the last Pop or Peek handed out, or Null
  pushed      \* history: the source, if the last call was a push that succeeded

vars == <<made, allocator, data, capacity, size, mem, room, out, pushed>>

Init ==
  /\ made = FALSE
  /\ allocator \in {"heap", "arena"}
  /\ data = Null /\ capacity = 0 /\ size = 0
  /\ mem = [b \in {} |-> <<>>]
  /\ room = ArenaCells
  /\ out = Null /\ pushed = Null

-----------------------------------------------------------------------------
(* Memory *)

Cells(n) == [i \in 1 .. n |-> Junk]

\* The blocks with one more, or with another content of one.
With(blocks, b, cells) ==
  [c \in DOMAIN blocks \cup {b} |-> IF c = b THEN cells ELSE blocks[c]]

\* The address of a new block.
Fresh == Min((1 .. Cardinality(DOMAIN mem) + 1) \ DOMAIN mem)

\* Copying old into the front of a block of n cells; memcpy and realloc.
Copied(old, n) == [i \in 1 .. n |-> IF i <= Len(old) THEN old[i] ELSE Junk]

\* What remains of a block's memory for somebody who kept its address.
Buffer == IF data = Null THEN <<>> ELSE mem[data]

\* An outcome of an allocation: the fields it decides.
Refused == [ok |-> FALSE, data |-> data, capacity |-> capacity, mem |-> mem, room |-> room]

Granted(b, n, left, blocks) ==
  [ok |-> TRUE, data |-> b, capacity |-> n, mem |-> blocks, room |-> left]

\* Mutant: the elements stay behind in the old block.
ArenaGrownEmpty(n) ==
  IF n > room THEN {Refused}
  ELSE {Granted(Fresh, n, room - n, With(mem, Fresh, Cells(n)))}

\* justLinearAllocAllocate: old blocks stay where they are.
ArenaGrown(n) ==
  IF n > room THEN {Refused}
  ELSE {Granted(Fresh, n, room - n, With(mem, Fresh, Copied(SubSeq(Buffer, 1, size), n)))}

\* malloc, or realloc that stays in place or moves and frees the old block.
HeapResized(n) ==
  {Refused} \cup
  IF n > HeapCells THEN {}
  ELSE {Granted(b, n, room, With(Restrict(mem, DOMAIN mem \ {data}), b, Copied(Buffer, n))) :
          b \in {Fresh, data} \ {Null}}

-----------------------------------------------------------------------------
(* Operations *)

\* At least doubled.
NewCapacity(n) == IF 2 * capacity < n THEN n ELSE 2 * capacity

\* justDynamicArrayReserve: its outcomes.
Reserved(n) ==
  IF n <= capacity
    THEN {[Refused EXCEPT !.ok = TRUE]}
    ELSE IF allocator = "arena" THEN ArenaGrown(NewCapacity(n))
         ELSE HeapResized(NewCapacity(n))

\* __justDynamicArrayGrow
Grown == Reserved(IF capacity > 0 THEN 2 * capacity ELSE DEFAULT_GROWTH)

Became(r) == data' = r.data /\ capacity' = r.capacity /\ mem' = r.mem /\ room' = r.room

\* A capacity of 0 allocates nothing; a failure leaves an empty array that
\* can still be used.
Create(n) ==
  /\ ~made
  /\ made' = TRUE
  /\ size' = 0
  /\ \E r \in (IF n = 0 THEN {Refused}
               ELSE IF allocator = "arena" THEN ArenaGrown(n) ELSE HeapResized(n)) : Became(r)
  /\ pushed' = Null
  /\ UNCHANGED <<allocator, out>>

\* Mutant: an empty array's buffer is not freed.
FreedUsed == IF allocator = "heap" /\ size > 0 THEN Restrict(mem, DOMAIN mem \ {data}) ELSE mem

\* Arena memory stays with the arena.
Freed == IF allocator = "heap" THEN Restrict(mem, DOMAIN mem \ {data}) ELSE mem

Destroy ==
  /\ made
  /\ made' = FALSE
  /\ data' = Null /\ capacity' = 0 /\ size' = 0
  /\ mem' = Freed
  /\ pushed' = Null
  /\ UNCHANGED <<allocator, room, out>>

Reserve(n) ==
  /\ made
  /\ \E r \in Reserved(n) : Became(r)
  /\ pushed' = Null
  /\ UNCHANGED <<made, allocator, size, out>>

\* A source: the caller's own buffer, or elements first .. last of the array.
Own(first, last) ==
  [own |-> TRUE, block |-> data, first |-> first, last |-> last,
   cells |-> SubSeq(Buffer, first, last)]
External(cells) ==
  [own |-> FALSE, block |-> Null, first |-> 1, last |-> Len(cells), cells |-> cells]

Sources ==
  {External(cells) : cells \in Ranges}
    \cup {Own(i[1], i[2]) : i \in {p \in (1 .. size) \X (1 .. size) : p[1] <= p[2]}}

\* What memcpy reads from the source once the outcome r is there.
ReadAfter(src, r) ==
  IF ~src.own THEN src.cells
  ELSE IF src.block \in DOMAIN r.mem
       THEN SubSeq(r.mem[src.block], src.first, src.last)
       ELSE Cells(Len(src.cells))

\* Mutant: the place to write to is computed before the array grows.
AppendedStale(r, s) ==
  /\ mem' = IF r.data # data THEN r.mem
            ELSE [r.mem EXCEPT ![r.data] =
                    [i \in DOMAIN @ |-> IF i \in size + 1 .. size + Len(s) THEN s[i - size] ELSE @[i]]]
  /\ data' = r.data /\ capacity' = r.capacity /\ room' = r.room
  /\ size' = size + Len(s)

\* Write s behind the elements of the outcome's buffer.
Appended(r, s) ==
  /\ mem' = [r.mem EXCEPT ![r.data] =
               [i \in DOMAIN @ |-> IF i \in size + 1 .. size + Len(s) THEN s[i - size] ELSE @[i]]]
  /\ data' = r.data /\ capacity' = r.capacity /\ room' = r.room
  /\ size' = size + Len(s)

\* justDynamicArrayPushRange; a false answer changes nothing.
PushRange(src) ==
  /\ made /\ src.cells # <<>>
  /\ pushed' = src
  /\ \E r \in Reserved(size + Len(src.cells)) :
       /\ r.ok
       /\ Appended(r, ReadAfter(src, r))
  /\ UNCHANGED <<made, allocator, out>>

\* The outcomes of looking for a slot at the end.
Slot == IF size >= capacity THEN Grown ELSE Reserved(0)

\* justDynamicArrayEmplace: the caller gets the cell as it is.
Emplace ==
  /\ made
  /\ \E r \in Slot :
       /\ r.ok
       /\ Became(r)
       /\ size' = size + 1
  /\ pushed' = Null
  /\ UNCHANGED <<made, allocator, out>>

\* justDynamicArrayPush: Emplace, then one element is copied.
Push(src) ==
  /\ made /\ Len(src.cells) = 1
  /\ pushed' = src
  /\ \E r \in Slot :
       /\ r.ok
       /\ Appended(r, ReadAfter(src, r))
  /\ UNCHANGED <<made, allocator, out>>

\* The caller writes through the pointer of justDynamicArrayAt or of Emplace.
Store(i, v) ==
  /\ made
  /\ mem' = [mem EXCEPT ![data][i] = v]
  /\ pushed' = Null
  /\ UNCHANGED <<made, allocator, data, capacity, size, room, out>>

Pop ==
  /\ made /\ size > 0
  /\ size' = size - 1
  /\ out' = mem[data][size]
  /\ pushed' = Null
  /\ UNCHANGED <<made, allocator, data, capacity, mem, room>>

Clear ==
  /\ made
  /\ size' = 0
  /\ pushed' = Null
  /\ UNCHANGED <<made, allocator, data, capacity, mem, room, out>>

\* justDynamicArrayShrinkToFit: its outcomes.
Shrunk ==
  IF allocator = "arena" \/ size = capacity THEN {Refused}
  ELSE IF size = 0 THEN {Granted(Null, 0, room, Freed)}
  ELSE HeapResized(size)

ShrinkToFit ==
  /\ made
  /\ \E r \in Shrunk : Became(r)
  /\ pushed' = Null
  /\ UNCHANGED <<made, allocator, size, out>>

Next ==
  \/ Destroy \/ Emplace \/ Pop \/ Clear \/ ShrinkToFit
  \/ \E n \in Capacities : Create(n) \/ Reserve(n)
  \/ \E src \in Sources : PushRange(src) \/ Push(src)
  \/ \E i \in 1 .. size, v \in Values : Store(i, v)

Spec == Init /\ [][Next]_vars

-----------------------------------------------------------------------------
(* Properties *)

Contents == SubSeq(Buffer, 1, size)

\* After any sequence of growing, shrinking, failing and destroying, capacity
\* is what the buffer really has, and no other heap block is left behind.
BufferOwned ==
  /\ size \in 0 .. capacity /\ room \in 0 .. ArenaCells
  /\ data = Null <=> capacity = 0
  /\ data # Null => data \in DOMAIN mem /\ capacity = Len(mem[data])
  /\ allocator = "heap" => DOMAIN mem = {data} \ {Null}

\* A push appends what its source held when it was called, except in one case:
\* the source lies in the array, and growing moved the array and freed it.
PushCopiesSource ==
  [][ pushed' # Null =>
        \/ Contents' = Contents \o pushed'.cells
        \/ pushed'.own /\ allocator = "heap" /\ data' # data ]_vars

\* The array is a sequence: its elements survive every move of the buffer and
\* every failed allocation.
Abstract == INSTANCE Lifo WITH items <- Contents
ImplementsLifo == Abstract!Spec
=============================================================================
