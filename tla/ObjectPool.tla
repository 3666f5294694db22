----------------------------- MODULE ObjectPool -----------------------------
(***************************************************************************)
(* justObjectPool (src/memory/objectPool.c): Capacity slots of equal size; *)
(* the free ones form a list whose links are kept in the slots themselves. *)
(* A slot is a number here, where the code has its byte offset.            *)
(*                                                                         *)
(* The holder of a slot writes to it as it likes, links included.  In the  *)
(* debug build a bitset of taken slots traps a slot returned twice; in the *)
(* release build nothing does, and callers return only what they hold.     *)
(***************************************************************************)
EXTENDS Naturals, FiniteSets

CONSTANTS
  Capacity,
  End,       \* JUST_POOL_END_OF_LIST
  WordBits   \* JUST_BITS_PER_WORD

Slots == 0 .. Capacity - 1

ASSUME ObjectPoolAssumption ==
  /\ Capacity \in Nat \ {0}
  /\ End \notin Slots
  /\ WordBits \in Nat \ {0}

INSTANCE Bitset

VARIABLES
  debug,           \* is it the debug build?  fixed from the start
  made,            \* has the pool its memory?
  link,            \* the first word of every slot
  freeListOffset,  \* head of the free list, or End
  freeCount,
  allocatedBits,   \* the bitset of taken slots (debug build)
  trapped,         \* has an assertion stopped the program?
  taken            \* history: the slots callers hold

vars == <<debug, made, link, freeListOffset, freeCount, allocatedBits, trapped, taken>>

Init ==
  /\ debug \in BOOLEAN
  /\ made = FALSE
  /\ link = [s \in Slots |-> End]
  /\ freeListOffset = End /\ freeCount = 0
  /\ allocatedBits = DestroyedBitset /\ trapped = FALSE /\ taken = {}

Ready == made /\ ~trapped

\* The release build has no bits.
Bits(bits) == IF debug THEN bits ELSE DestroyedBitset

\* The free list is wired through all slots; their memory held anything.
Create ==
  /\ ~made /\ ~trapped
  /\ made' = TRUE
  /\ link' = [s \in Slots |-> IF s < Capacity - 1 THEN s + 1 ELSE End]
  /\ freeListOffset' = 0
  /\ freeCount' = Capacity
  /\ allocatedBits' = Bits(NewBitset(Capacity))
  /\ UNCHANGED <<debug, trapped, taken>>

\* Slots still held are gone with the pool.
Destroy ==
  /\ Ready
  /\ made' = FALSE
  /\ freeListOffset' = End /\ freeCount' = 0
  /\ allocatedBits' = DestroyedBitset
  /\ taken' = {}
  /\ UNCHANGED <<debug, link, trapped>>

\* The head of the list is handed out; an empty list gives NULL.
TakeObject ==
  /\ Ready
  /\ freeListOffset # End
  /\ freeListOffset' = link[freeListOffset]
  /\ freeCount' = freeCount - 1
  /\ allocatedBits' = Bits(BitSet(allocatedBits, freeListOffset))
  /\ trapped' = (debug /\ BitGet(allocatedBits, freeListOffset))
  /\ taken' = taken \cup {freeListOffset}
  /\ UNCHANGED <<debug, made, link>>

\* A holder writes to its slot.
Write(s, w) ==
  /\ Ready /\ s \in taken
  /\ link' = [link EXCEPT ![s] = w]
  /\ UNCHANGED <<debug, made, freeListOffset, freeCount, allocatedBits, trapped,
                 taken>>

\* Mutant: the slot keeps the word its last holder wrote.
PushedUnlinked(s) == freeListOffset' = s /\ UNCHANGED link

\* The slot becomes the head of the free list.
Pushed(s) ==
  /\ link' = [link EXCEPT ![s] = freeListOffset]
  /\ freeListOffset' = s

\* The debug build's test that a slot is active.
MayReturn(s) == debug => BitGet(allocatedBits, s)

ReturnObject(s) ==
  /\ Ready
  /\ debug \/ s \in taken
  /\ IF MayReturn(s)
       THEN /\ Pushed(s)
            /\ freeCount' = freeCount + 1
            /\ allocatedBits' = Bits(BitClear(allocatedBits, s))
            /\ taken' = taken \ {s}
            /\ UNCHANGED trapped
       ELSE /\ trapped' = TRUE
            /\ UNCHANGED <<link, freeListOffset, freeCount, allocatedBits, taken>>
  /\ UNCHANGED <<debug, made>>

\* justObjectPoolDebugPrint follows the free list: the slot after n links.
Walk ==
  LET at[n \in 0 .. Capacity] ==
        IF n = 0 THEN freeListOffset
        ELSE IF at[n - 1] = End THEN End
        ELSE link[at[n - 1]]
  IN  at

\* It shows the head of the list, the other free slots and the occupied ones.
Bar ==
  LET freeSlots == {Walk[n] : n \in 0 .. Capacity} \ {End}
  IN  [s \in Slots |-> IF s \notin freeSlots THEN "occupied"
                       ELSE IF s = freeListOffset THEN "head" ELSE "free"]

Stopped == trapped /\ UNCHANGED vars

Next ==
  \/ Create \/ Destroy \/ TakeObject \/ Stopped
  \/ \E s \in Slots : ReturnObject(s) \/ \E w \in Slots \cup {End} : Write(s, w)

Spec == Init /\ [][Next]_vars

-----------------------------------------------------------------------------
(* Properties *)

\* Whatever holders write into their slots and in whatever order slots come
\* back, the free list has every free slot once and no slot that somebody
\* holds: no slot is lost, none is handed out twice, and DebugPrint shows it.
FreeListExact ==
  Ready => /\ \A s \in Slots : Bar[s] = "occupied" <=> s \in taken
           /\ Walk[Capacity] = End
           /\ freeCount = Cardinality(Slots \ taken)
=============================================================================
