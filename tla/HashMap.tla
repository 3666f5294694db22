------------------------------ MODULE HashMap ------------------------------
(***************************************************************************)
(* justHashMap (src/dataStructures/hashMap.c): open addressing with linear *)
(* probing.  A removed key leaves a tombstone; Set rebuilds the table, in  *)
(* a larger buffer or in one of the same size, when three quarters of it   *)
(* would be occupied or dead.                                              *)
(*                                                                         *)
(* One action is one call.  A key is found by its cached hash and then by  *)
(* comparison, which together are equality of keys; Hash may collide.      *)
(***************************************************************************)
EXTENDS PowersOfTwo, Integers, FiniteSets, FiniteSetsExt

CONSTANTS
  Keys, Values,
  Hash,             \* the hash of each key
  NoValue,          \* "not found"
  Word,             \* SIZE_MAX + 1
  DefaultCapacity,  \* JUST_MAP_DEFAULT_CAPACITY
  Targets           \* bound: capacities Create is asked for

ASSUME MapAssumption ==
  /\ Hash \in [Keys -> Nat]
  /\ NoValue \notin Values
  /\ DefaultCapacity \in {4, 8, 16} /\ Word \in Nat \ {0}
  /\ Targets \subseteq Nat

VARIABLES
  slots,           \* the buffer: a function from indices to slots
  capacity,        \* MAP->capacity
  count,           \* MAP->count
  tombstoneCount,  \* MAP->tombstoneCount
  failed           \* history: a rebuild has failed since the map was empty

vars == <<slots, capacity, count, tombstoneCount, failed>>

Slot(state, k, v) == [state |-> state, key |-> k, val |-> v]
Fresh(n) == [i \in 0 .. n - 1 |-> [state |-> "empty"]]

\* A destroyed map, or a zeroed one whose Create found no memory: both have no
\* buffer, and Set allocates one.
Init ==
  /\ slots = Fresh(0)
  /\ capacity = 0 /\ count = 0 /\ tombstoneCount = 0
  /\ failed = FALSE

-----------------------------------------------------------------------------
(* Probing *)

State(s, i) == s[i].state
Occupied(s, i) == State(s, i) = "occupied"

With(state) == {i \in DOMAIN slots : State(slots, i) = state}

\* The slot that is probed for k after i others.
At(k, i, cap) == (Hash[k] + i) % cap

\* The offsets at which the loops of Set, Get and Remove look for k: up to
\* the first slot that was never used.
Path(s, k, cap) ==
  {i \in 0 .. cap - 1 : \A j \in 0 .. i - 1 : State(s, At(k, j, cap)) # "empty"}

\* Those where they find it, and those where they pass a tombstone.
Matches(s, k, cap) ==
  {i \in Path(s, k, cap) : LET p == At(k, i, cap) IN Occupied(s, p) /\ s[p].key = k}
Tombs(s, k, cap) ==
  {i \in Path(s, k, cap) : State(s, At(k, i, cap)) = "tombstone"}
Unused(s, k, cap) ==
  {i \in Path(s, k, cap) : State(s, At(k, i, cap)) = "empty"}

\* What justHashmapGet finds.
Get(k) ==
  LET found == Matches(slots, k, capacity)
  IN  IF count = 0 \/ capacity = 0 \/ found = {} THEN NoValue
      ELSE slots[At(k, Min(found), capacity)].val

-----------------------------------------------------------------------------
(* hashmapResize *)

\* Entry (k, v) goes to the first slot that is not occupied.
Put(s, k, v, cap) ==
  LET free == {i \in 0 .. cap - 1 : ~Occupied(s, At(k, i, cap))}
  IN  [s EXCEPT ![At(k, Min(free), cap)] = Slot("occupied", k, v)]

\* A new buffer of cap slots after the old ones were re-inserted in order.
Rebuilt(cap) ==
  LET after[n \in 0 .. capacity] ==
        IF n = 0 THEN Fresh(cap)
        ELSE IF Occupied(slots, n - 1)
          THEN Put(after[n - 1], slots[n - 1].key, slots[n - 1].val, cap)
          ELSE after[n - 1]
  IN  after[capacity]

\* Mutant: tombstones do not count towards the load.
OverloadedByCount == ((count + 1) * 4) % Word >= (capacity * 3) % Word

\* Lazy allocation, or a load of three quarters.
Overloaded ==
  ((count + tombstoneCount + 1) * 4) % Word >= (capacity * 3) % Word
MustResize == capacity = 0 \/ Overloaded
NewCapacity ==
  IF capacity = 0 THEN DefaultCapacity
  ELSE IF count * 2 > capacity THEN capacity * 2 ELSE capacity

\* The table that Set works on, and its counters; hashmapResize counts the
\* entries it re-inserts.
TableCapacity == IF MustResize THEN NewCapacity ELSE capacity
Table         == IF MustResize THEN Rebuilt(NewCapacity) ELSE slots
Entries       == IF MustResize THEN Cardinality(With("occupied")) ELSE count
Tombstones    == IF MustResize THEN 0 ELSE tombstoneCount

-----------------------------------------------------------------------------
(* The calls *)

NextPowerOfTwo(n) ==
  IF n < DefaultCapacity THEN DefaultCapacity
  ELSE PowerAtLeast(n)

Create(n) ==
  /\ capacity = 0
  /\ capacity' = NextPowerOfTwo(n)
  /\ slots' = Fresh(NextPowerOfTwo(n))
  /\ count' = 0 /\ tombstoneCount' = 0
  /\ UNCHANGED failed

Destroy ==
  /\ slots' = Fresh(0)
  /\ capacity' = 0 /\ count' = 0 /\ tombstoneCount' = 0
  /\ failed' = FALSE

\* The buffer is as large as the map believes; otherwise a call runs out of it.
Sound == DOMAIN slots = 0 .. capacity - 1

\* Mutant: a tombstone is reused before the rest of the path is searched.
TargetAtFirstGap(s, k, cap) ==
  At(k, Min(Tombs(s, k, cap) \cup Unused(s, k, cap) \cup Matches(s, k, cap)), cap)

\* Where Set writes k: over its old value, else in the first tombstone
\* passed, else in the unused slot that ended the search.
Target(s, k, cap) ==
  LET offsets == IF Matches(s, k, cap) # {} THEN Matches(s, k, cap)
                 ELSE IF Tombs(s, k, cap) # {} THEN Tombs(s, k, cap)
                 ELSE Unused(s, k, cap)
  IN  At(k, Min(offsets), cap)

SetIn(s, k, v, cap) ==
  LET p == Target(s, k, cap)
  IN  /\ Matches(s, k, cap) \cup Tombs(s, k, cap) \cup Unused(s, k, cap) # {}
      /\ slots' = [s EXCEPT ![p] = Slot("occupied", k, v)]
      /\ count' = Entries + (IF Occupied(s, p) THEN 0 ELSE 1)
      /\ tombstoneCount' =
           (Tombstones - (IF State(s, p) = "tombstone" THEN 1 ELSE 0)) % Word
      /\ capacity' = cap
      /\ UNCHANGED failed

Set(k, v) ==
  /\ Sound
  /\ SetIn(Table, k, v, TableCapacity)

\* The rebuilt table cannot be allocated.  Set returns false, but the map has
\* been given its new capacity and an empty count already.
SetFails ==
  /\ Sound /\ MustResize
  /\ capacity' = NewCapacity
  /\ count' = 0 /\ tombstoneCount' = 0
  /\ failed' = TRUE
  /\ UNCHANGED slots

\* Mutant: the slot is marked as never used.
RemovedAsEmpty(p) == [slots EXCEPT ![p].state = "empty"]

Removed(p) == [slots EXCEPT ![p].state = "tombstone"]

Remove(k) ==
  /\ Sound
  /\ count > 0 /\ Matches(slots, k, capacity) # {}
  /\ slots' = Removed(At(k, Min(Matches(slots, k, capacity)), capacity))
  /\ count' = count - 1
  /\ tombstoneCount' = (tombstoneCount + 1) % Word
  /\ UNCHANGED <<capacity, failed>>

Clear ==
  /\ Sound
  /\ slots' = Fresh(capacity)
  /\ count' = 0 /\ tombstoneCount' = 0
  /\ failed' = FALSE
  /\ UNCHANGED capacity

Next ==
  \/ \E n \in Targets : Create(n)
  \/ \E k \in Keys : Remove(k) \/ \E v \in Values : Set(k, v)
  \/ SetFails \/ Clear \/ Destroy

Spec == Init /\ [][Next]_vars

-----------------------------------------------------------------------------
(* Properties *)

\* The counters count the slots.
CountersExact ==
  /\ Cardinality(With("occupied")) = count
  /\ Cardinality(With("tombstone")) = tombstoneCount

\* Until a rebuild fails, and again once the map was cleared or destroyed, the
\* counters that decide when the table is rebuilt are exact, and no mix of Set
\* and Remove fills the table: a slot that was never used is left, so every
\* unsuccessful search and the re-insertion loop of hashmapResize end, and Set
\* never returns false for want of a slot.
CountersTrusted ==
  ~failed => CountersExact /\ (capacity > 0 => With("empty") # {})

\* A key is stored once, and justHashmapGet finds it, past the collisions and
\* tombstones on its way: also after failed rebuilds, whose wrong counters
\* decide about later ones, as long as the buffer is as large as the map
\* believes.  One state is the exception: a failed rebuild leaves a count of 0
\* with the entries still in the table, and so does a Remove that takes the
\* count back to 0; Get and Remove then return at once and find nothing, until
\* a Set has counted an entry again.
KeysReachable ==
  Sound =>
    /\ \A i, j \in With("occupied") : slots[i].key = slots[j].key => i = j
    /\ \A i \in With("occupied") :
         Get(slots[i].key) = slots[i].val \/ (failed /\ count = 0)

\* Until a rebuild fails the table is a dictionary: collisions, tombstones,
\* reuse and rebuilding never lose, duplicate or change an entry.  Clear and
\* Destroy make it one again.
stored == [k \in Keys |-> Get(k)]
Abstract == INSTANCE Dictionary WITH map <- stored
ImplementsDictionary == Abstract!Init /\ [][failed' \/ Abstract!Next]_stored
=============================================================================
