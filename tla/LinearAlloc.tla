----------------------------- MODULE LinearAlloc -----------------------------
(***************************************************************************)
(* justLinearAllocator (src/memory/linearAlloc.c and linearAlloc.h): a     *)
(* buffer handed out from front to back, cut back as a whole (Reset) or to *)
(* a marker taken earlier (Rewind).  Sizes are size_t and wrap at Word.    *)
(*                                                                         *)
(* The caller's side is history: the blocks it may still use, numbered as  *)
(* they were handed out, and its markers with the number of the next block *)
(* when they were taken.  Rewinding to a marker gives up the blocks handed *)
(* out after it; markers may be used in any order, and more than once.     *)
(***************************************************************************)
EXTENDS PowersOfTwo, FiniteSets

CONSTANTS
  Base,        \* address of the buffer
  TotalSize,   \* TOTAL_SIZE
  Word,        \* SIZE_MAX + 1
  Requests,    \* bound: sizes that are asked for
  Alignments,  \* bound: alignments that are asked for
  MaxBlocks    \* bound: blocks handed out in the allocator's life

ASSUME LinearAssumption ==
  /\ Base \in Nat /\ Word \in Nat \ {0}
  /\ TotalSize \in 1 .. Word - 1
  /\ Requests \subseteq 1 .. Word - 1
  /\ Alignments \subseteq 1 .. Word - 1
  /\ MaxBlocks \in Nat

\* justLinearAllocAllocate asserts it; 0 stands for DEFAULT_ALIGNMENT_BYTES.
ASSUME AlignmentAssumption == Alignments \subseteq Powers

VARIABLES
  totalSize, allocated,  \* the allocator; totalSize is 0 when there is none
  live,                  \* blocks the caller may use: first, size, number
  marks,                 \* markers: offset, number of the next block
  number                 \* number of the next block

linearVars == <<totalSize, allocated, live, marks, number>>

LinearInit ==
  /\ totalSize = 0 /\ allocated = 0
  /\ live = {} /\ marks = {} /\ number = 0

LinearCreate ==
  /\ totalSize = 0
  /\ totalSize' = TotalSize
  /\ allocated' = 0
  /\ UNCHANGED <<live, marks, number>>

LinearDestroy ==
  /\ totalSize > 0
  /\ totalSize' = 0 /\ allocated' = 0
  /\ live' = {} /\ marks' = {}
  /\ UNCHANGED number

\* Mutant: the padding is counted from the start of the buffer and not from
\* the offset.
PaddingOfBase(align) == (align - (Base % align)) % align

\* The bytes skipped so that the block's address is aligned.
Padding(align) == (align - ((Base + allocated) % align)) % align

\* Mutant: the padding is forgotten when the room is checked.
FitsUnpadded(align, n) == (allocated + n) % Word <= totalSize

\* The test of the room that is left, in size_t.
Fits(align, n) == (allocated + Padding(align) + n) % Word <= totalSize

\* Mutant: the padding is not added to the offset.
AdvancedUnpadded(align, n) == (allocated + n) % Word

\* The offset behind the new block.
Advanced(align, n) == (allocated + Padding(align) + n) % Word

Allocate(n, align) ==
  /\ totalSize > 0 /\ number < MaxBlocks
  /\ Fits(align, n)
  /\ allocated' = Advanced(align, n)
  /\ live' = live \cup {[first |-> allocated + Padding(align), size |-> n,
                          align |-> align, number |-> number]}
  /\ number' = number + 1
  /\ UNCHANGED <<totalSize, marks>>

Reset ==
  /\ allocated' = 0
  /\ live' = {}
  /\ UNCHANGED <<totalSize, marks, number>>

GetMarker ==
  /\ totalSize > 0
  /\ marks' = marks \cup {[offset |-> allocated, number |-> number]}
  /\ UNCHANGED <<totalSize, allocated, live, number>>

\* A marker above the offset is refused.
MayRewind(m) == m.offset <= allocated

Rewind(m) ==
  /\ MayRewind(m)
  /\ allocated' = m.offset
  /\ live' = {b \in live : b.number < m.number}
  /\ UNCHANGED <<totalSize, marks, number>>

LinearNext ==
  \/ LinearCreate \/ LinearDestroy \/ Reset \/ GetMarker
  \/ \E n \in Requests, align \in Alignments : Allocate(n, align)
  \/ \E m \in marks : Rewind(m)

LinearSpec == LinearInit /\ [][LinearNext]_linearVars

-----------------------------------------------------------------------------
(* Properties *)

Blocks == [first : Nat, size : Nat, align : Nat, number : Nat]

\* Every field holds a value of its type, and the offset is inside the buffer.
TypeOK ==
  /\ totalSize \in {0, TotalSize}
  /\ allocated \in 0 .. totalSize
  /\ live \subseteq Blocks
  /\ marks \subseteq [offset : Nat, number : Nat]
  /\ number \in Nat

\* A block that the caller may use lies inside the buffer.
BlocksInside == \A b \in live : b.first + b.size <= totalSize

\* It starts at an address of the alignment that was asked for, wherever the
\* buffer lies and whatever was allocated before.
BlocksAligned == \A b \in live : (Base + b.first) % b.align = 0

\* Two blocks that the caller may use never share a byte, however resets,
\* markers (stale ones too) and allocations are mixed.
BlocksDisjoint ==
  \A b, c \in live : \/ b = c
                     \/ b.first + b.size <= c.first
                     \/ c.first + c.size <= b.first

\* What Rewind relies on: the blocks older than a marker that are still in
\* use end below it, and every block ends below the offset.
BlocksBelowMarks ==
  /\ \A b \in live : b.first + b.size <= allocated /\ b.number < number
  /\ \A m \in marks : m.number <= number
  /\ \A b \in live, m \in marks :
       b.number < m.number => b.first + b.size <= m.offset

\* The inductive invariant.
LinearInv == TypeOK /\ BlocksBelowMarks /\ BlocksDisjoint

\* Requests that stay clear of the end of the address space.
NoWrap == \A n \in Requests, align \in Alignments : TotalSize + align + n < Word
=============================================================================
