---------------------------- MODULE ArrayProofs ----------------------------
(***************************************************************************)
(* The dynamic array, the stack on it, and the linear allocator that may   *)
(* hold its buffer.  The allocator never hands out a byte twice, for every *)
(* buffer, every request that stays clear of the end of the address space  *)
(* and every order of allocations, resets and rewinds.  The array owns one *)
(* buffer, copies what it is asked to push, and is a sequence that changes *)
(* at its end, for every element type, every size of the heap and of the   *)
(* arena and every order of calls.                                         *)
(***************************************************************************)
EXTENDS JustStack, LinearAlloc, NumberLemmas, FiniteSetTheorems,
        SequenceTheorems

-----------------------------------------------------------------------------
(* justLinearAllocator *)

\* The padding is less than the alignment.
LEMMA PaddingBound ==
  ASSUME TypeOK, NEW align \in Alignments
  PROVE  Padding(align) \in 0 .. align - 1
<1>1. align \in Nat /\ align > 0 /\ Base \in Nat
  BY LinearAssumption
<1>2. allocated \in Nat
  BY LinearAssumption DEF TypeOK
<1>3. (Base + allocated) % align \in 0 .. align - 1
  BY <1>1, <1>2
<1> QED
  BY <1>1, <1>3 DEF Padding

\* What a successful Allocate does when its size does not wrap: it moves the
\* offset past the padding and the block.
LEMMA AllocateMoves ==
  ASSUME TypeOK, NoWrap, NEW n \in Requests, NEW align \in Alignments,
         Allocate(n, align)
  PROVE  /\ Padding(align) \in Nat
         /\ allocated' = allocated + Padding(align) + n
         /\ allocated' <= totalSize
<1>1. /\ Padding(align) \in 0 .. align - 1
      /\ align \in Nat /\ n \in Nat /\ Word \in Nat /\ TotalSize \in Nat
      /\ allocated \in Nat /\ allocated <= TotalSize
  BY PaddingBound, LinearAssumption DEF TypeOK
<1>2. TotalSize + align + n < Word
  BY DEF NoWrap
<1>3. allocated + Padding(align) + n \in Nat /\ allocated + Padding(align) + n < Word
  BY <1>1, <1>2
<1>4. (allocated + Padding(align) + n) % Word = allocated + Padding(align) + n
  <2> DEFINE sum == allocated + Padding(align) + n
  <2>1. sum \in Nat /\ sum < Word
    BY <1>3
  <2> HIDE DEF sum
  <2>2. sum % Word = sum
    BY <1>1, <2>1, SmallRemainder
  <2> QED
    BY <2>2 DEF sum
<1>5. Advanced(align, n) = allocated + Padding(align) + n
  BY <1>4 DEF Advanced
<1>6. /\ allocated' = Advanced(align, n)
      /\ Fits(align, n)
  BY DEF Allocate
<1>7. allocated + Padding(align) + n <= totalSize
  BY <1>4, <1>6 DEF Fits
<1> QED
  BY <1>1, <1>5, <1>6, <1>7

\* The type invariant is preserved.
LEMMA LinearTypeStep ==
  ASSUME TypeOK, [LinearNext]_linearVars
  PROVE  TypeOK'
<1> USE LinearAssumption
<1>1. CASE LinearCreate
  BY <1>1 DEF LinearCreate, TypeOK
<1>2. CASE LinearDestroy
  BY <1>2 DEF LinearDestroy, TypeOK
<1>3. CASE Reset
  BY <1>3 DEF Reset, TypeOK
<1>4. CASE GetMarker
  BY <1>4 DEF GetMarker, TypeOK
<1>5. ASSUME NEW n \in Requests, NEW align \in Alignments, Allocate(n, align)
      PROVE  TypeOK'
  <2>1. Padding(align) \in Nat /\ align \in Nat
    BY PaddingBound
  <2>2. n \in Nat /\ align \in Nat /\ allocated \in Nat
    BY DEF TypeOK
  <2>3. allocated' \in 0 .. totalSize'
    <3> DEFINE end == allocated + Padding(align) + n
    <3>1. end \in Nat
      BY <2>1, <2>2
    <3>2. allocated' = end % Word /\ end % Word <= totalSize /\ totalSize' = totalSize
      BY <1>5 DEF Allocate, Fits, Advanced
    <3> HIDE DEF end
    <3>3. end % Word \in Nat
      BY <3>1, RemainderBound
    <3> QED
      BY <3>2, <3>3 DEF TypeOK
  <2>4. [first |-> allocated + Padding(align), size |-> n, align |-> align,
         number |-> number] \in Blocks
    BY <2>1, <2>2 DEF Blocks, TypeOK
  <2> QED
    BY <1>5, <2>3, <2>4 DEF Allocate, TypeOK
<1>6. ASSUME NEW m \in marks, Rewind(m)
      PROVE  TypeOK'
  BY <1>6 DEF Rewind, MayRewind, TypeOK
<1>7. CASE UNCHANGED linearVars
  BY <1>7 DEF linearVars, TypeOK
<1> QED
  BY <1>1, <1>2, <1>3, <1>4, <1>5, <1>6, <1>7 DEF LinearNext

\* The blocks stay below the offset and below the markers younger than they.
LEMMA LinearMarksStep ==
  ASSUME TypeOK, TypeOK', BlocksBelowMarks, NoWrap, [LinearNext]_linearVars
  PROVE  BlocksBelowMarks'
<1>1. CASE LinearCreate
  <2>1. allocated' = allocated
    BY <1>1 DEF LinearCreate, TypeOK
  <2> QED
    BY <1>1, <2>1 DEF LinearCreate, BlocksBelowMarks
<1>2. CASE LinearDestroy
  BY <1>2 DEF LinearDestroy, BlocksBelowMarks
<1>3. CASE Reset
  BY <1>3 DEF Reset, BlocksBelowMarks
<1>4. CASE GetMarker
  BY <1>4 DEF GetMarker, BlocksBelowMarks, TypeOK, Blocks
<1>5. ASSUME NEW n \in Requests, NEW align \in Alignments, Allocate(n, align)
      PROVE  BlocksBelowMarks'
  <2>1. /\ Padding(align) \in Nat
        /\ allocated' = allocated + Padding(align) + n
    BY <1>5, AllocateMoves
  <2>2. n \in Nat /\ allocated \in Nat /\ number \in Nat
    BY LinearAssumption DEF TypeOK
  <2> QED
    BY <1>5, <2>1, <2>2 DEF Allocate, BlocksBelowMarks, TypeOK, Blocks
<1>6. ASSUME NEW m \in marks, Rewind(m)
      PROVE  BlocksBelowMarks'
  BY <1>6 DEF Rewind, BlocksBelowMarks, TypeOK, Blocks
<1>7. CASE UNCHANGED linearVars
  BY <1>7 DEF linearVars, BlocksBelowMarks
<1> QED
  BY <1>1, <1>2, <1>3, <1>4, <1>5, <1>6, <1>7 DEF LinearNext

\* Blocks stay disjoint: a new one begins at or above the offset.
LEMMA LinearDisjointStep ==
  ASSUME TypeOK, BlocksBelowMarks, BlocksDisjoint, NoWrap, [LinearNext]_linearVars
  PROVE  BlocksDisjoint'
<1>1. CASE LinearCreate
  BY <1>1 DEF LinearCreate, BlocksDisjoint
<1>2. CASE LinearDestroy
  BY <1>2 DEF LinearDestroy, BlocksDisjoint
<1>3. CASE Reset
  BY <1>3 DEF Reset, BlocksDisjoint
<1>4. CASE GetMarker
  BY <1>4 DEF GetMarker, BlocksDisjoint
<1>5. ASSUME NEW n \in Requests, NEW align \in Alignments, Allocate(n, align)
      PROVE  BlocksDisjoint'
  <2> DEFINE new == [first |-> allocated + Padding(align), size |-> n,
                     align |-> align, number |-> number]
  <2>1. live' = live \cup {new}
    BY <1>5 DEF Allocate
  <2>2. Padding(align) \in Nat /\ allocated \in Nat /\ n \in Nat
    BY <1>5, AllocateMoves, LinearAssumption DEF TypeOK
  <2>3. \A b \in live : b.first + b.size <= new.first
    BY <2>2 DEF BlocksBelowMarks, TypeOK, Blocks
  <2> HIDE DEF new
  <2> QED
    BY <2>1, <2>3 DEF BlocksDisjoint
<1>6. ASSUME NEW m \in marks, Rewind(m)
      PROVE  BlocksDisjoint'
  BY <1>6 DEF Rewind, BlocksDisjoint
<1>7. CASE UNCHANGED linearVars
  BY <1>7 DEF linearVars, BlocksDisjoint
<1> QED
  BY <1>1, <1>2, <1>3, <1>4, <1>5, <1>6, <1>7 DEF LinearNext

\* The inductive invariant holds as long as no request wraps: the offset
\* never leaves the buffer, and no block reaches past the offset or past a
\* younger marker.
THEOREM LinearInvariant ==
  ASSUME NoWrap
  PROVE  LinearSpec => []LinearInv
<1>1. LinearInit => LinearInv
  BY LinearAssumption DEF LinearInit, LinearInv, TypeOK, BlocksBelowMarks, BlocksDisjoint
<1>2. LinearInv /\ [LinearNext]_linearVars => LinearInv'
  BY LinearTypeStep, LinearMarksStep, LinearDisjointStep DEF LinearInv
<1> QED
  BY <1>1, <1>2, PTL DEF LinearSpec

\* justLinearAllocAllocate never hands out a byte that belongs to a block
\* still in use, in whatever order markers are taken and rewound to.
THEOREM LinearBlocksDisjoint ==
  ASSUME NoWrap
  PROVE  LinearSpec => []BlocksDisjoint
<1>1. LinearInv => BlocksDisjoint
  BY DEF LinearInv
<1> QED
  BY <1>1, LinearInvariant, PTL

\* Nor one outside its buffer.
THEOREM LinearBlocksInside ==
  ASSUME NoWrap
  PROVE  LinearSpec => []BlocksInside
<1>1. LinearInv => BlocksInside
  BY LinearAssumption DEF LinearInv, BlocksBelowMarks, BlocksInside, TypeOK, Blocks
<1> QED
  BY <1>1, LinearInvariant, PTL

\* The padding completes an address to a multiple of the alignment.
LEMMA PaddingAligns ==
  ASSUME NEW x \in Nat, NEW a \in Nat, a > 0
  PROVE  (x + ((a - (x % a)) % a)) % a = 0
<1> DEFINE r == x % a
<1>1. r \in Nat /\ r < a
  BY RemainderBound
<1>2. PICK q \in Nat : x = q * a + r
  BY Quotient
<1> HIDE DEF r
<1> DEFINE p == (a - r) % a
           z == x + p
<1>3. CASE r = 0
  <2>1. a - r = a /\ a % a = 0
    BY <1>3
  <2>2. p = 0
    BY <2>1
  <2>3. z = q * a + 0 /\ z \in Nat
    BY <1>2, <1>3, <2>2
  <2> HIDE DEF z
  <2> QED
    BY <2>3, Remainder DEF z, r
<1>4. CASE r # 0
  <2>1. a - r \in Nat /\ a - r < a
    BY <1>1, <1>4
  <2>2. p = a - r
    <3> DEFINE d == a - r
    <3> HIDE DEF d
    <3>1. d \in Nat /\ d < a
      BY <2>1 DEF d
    <3>2. d % a = d
      BY <3>1, SmallRemainder
    <3> QED
      BY <3>2 DEF d
  <2>3. z = (q + 1) * a
    BY <1>1, <1>2, <2>2
  <2> DEFINE k == q + 1
  <2>4. k \in Nat /\ z \in Nat /\ z = k * a + 0
    BY <1>1, <2>2, <2>3
  <2> HIDE DEF z, k
  <2>5. z % a = 0
    BY <2>4, Remainder
  <2> QED
    BY <2>5 DEF z, r
<1> QED
  BY <1>3, <1>4

\* A block starts at an address of the alignment that was asked for.
LEMMA LinearAlignedStep ==
  ASSUME TypeOK, BlocksAligned, [LinearNext]_linearVars
  PROVE  BlocksAligned'
<1>1. CASE LinearCreate \/ LinearDestroy \/ Reset \/ GetMarker \/ UNCHANGED linearVars
  BY <1>1 DEF LinearCreate, LinearDestroy, Reset, GetMarker, linearVars, BlocksAligned
<1>2. ASSUME NEW n \in Requests, NEW align \in Alignments, Allocate(n, align)
      PROVE  BlocksAligned'
  <2> DEFINE pad == Padding(align)
             x == Base + allocated
  <2>1. x \in Nat /\ align \in Nat /\ align > 0 /\ Base \in Nat /\ allocated \in Nat
    BY LinearAssumption DEF TypeOK
  <2>2. pad \in Nat
    BY <2>1, PaddingBound
  <2>3. pad = (align - (x % align)) % align
    BY DEF Padding
  <2>4. Base + (allocated + pad) = x + pad
    BY <2>1, <2>2
  <2> HIDE DEF pad, x
  <2>5. (x + pad) % align = 0
    BY <2>1, <2>3, PaddingAligns
  <2> DEFINE new == [first |-> allocated + pad, size |-> n, align |-> align,
                     number |-> number]
  <2>6. live' = live \cup {new}
    BY <1>2 DEF Allocate, pad
  <2>7. (Base + new.first) % new.align = 0
    BY <2>4, <2>5
  <2> HIDE DEF new
  <2> QED
    BY <2>6, <2>7 DEF BlocksAligned
<1>3. ASSUME NEW m \in marks, Rewind(m)
      PROVE  BlocksAligned'
  BY <1>3 DEF Rewind, BlocksAligned
<1> QED
  BY <1>1, <1>2, <1>3 DEF LinearNext

\* Every block is aligned, wherever the buffer lies and whatever was allocated
\* before: requests whose size wraps included.
THEOREM LinearBlocksAligned == LinearSpec => []BlocksAligned
<1> DEFINE Inv == TypeOK /\ BlocksAligned
<1>1. LinearInit => Inv
  BY LinearAssumption DEF LinearInit, TypeOK, BlocksAligned
<1>2. Inv /\ [LinearNext]_linearVars => Inv'
  BY LinearTypeStep, LinearAlignedStep
<1>3. Inv => BlocksAligned
  OBVIOUS
<1> HIDE DEF Inv
<1> QED
  BY <1>1, <1>2, <1>3, PTL DEF LinearSpec

-----------------------------------------------------------------------------
(* justDynamicArray and justStack *)

\* A cell of a block.
Cell == Values \cup {Junk}

\* The blocks in existence: addresses, and sequences of cells.
AreBlocks(m) ==
  /\ DOMAIN m \subseteq Nat /\ IsFiniteSet(DOMAIN m)
  /\ m \in [DOMAIN m -> Seq(Cell)]

\* d is a buffer of c cells in the blocks m, and on the heap the only block.
Held(d, c, m) ==
  /\ c \in Nat /\ AreBlocks(m)
  /\ d = Null <=> c = 0
  /\ d # Null => d \in DOMAIN m /\ Len(m[d]) = c
  /\ allocator = "heap" => DOMAIN m = {d} \ {Null}

\* The inductive invariant of the array.
ArrayForm ==
  /\ allocator \in {"heap", "arena"}
  /\ Held(data, capacity, mem)
  /\ size \in Nat /\ size <= capacity
  /\ room \in 0 .. ArenaCells

\* A new block has an address of its own.
LEMMA FreshBlock ==
  ASSUME IsFiniteSet(DOMAIN mem)
  PROVE  Fresh \in Nat /\ Fresh \notin DOMAIN mem
<1> DEFINE D == DOMAIN mem
           k == Cardinality(D)
           F == (1 .. k + 1) \ D
<1>1. k \in Nat
  BY FS_CardinalityType
<1> HIDE DEF k
<1>2. F # {}
  <2>1. SUFFICES ASSUME (1 .. k + 1) \subseteq D PROVE FALSE
    OBVIOUS
  <2>2. Cardinality(1 .. k + 1) <= Cardinality(D)
    BY <2>1, FS_Subset
  <2>3. Cardinality(1 .. k + 1) = k + 1
    <3>1. 1 \in Int /\ k + 1 \in Int /\ ~(1 > k + 1)
      BY <1>1
    <3>2. Cardinality(1 .. k + 1) = (k + 1) - 1 + 1
      BY <3>1, FS_Interval
    <3> QED
      BY <1>1, <3>2
  <2> QED
    BY <1>1, <2>2, <2>3 DEF k
<1>3. F \in SUBSET Nat
  BY <1>1
<1> HIDE DEF F
<1>4. \E x \in F : \A y \in F : x <= y
  BY <1>2, <1>3, LeastElement
<1>5. Min(F) \in F
  BY <1>4 DEF Min
<1>6. Fresh = Min(F)
  BY DEF Fresh, F, k
<1> QED
  BY <1>3, <1>5, <1>6 DEF F

\* A block more among blocks that are sequences of cells.
LEMMA WithBlock ==
  ASSUME NEW m, AreBlocks(m), NEW b \in Nat, NEW s \in Seq(Cell)
  PROVE  AreBlocks(With(m, b, s))
<1> DEFINE w == With(m, b, s)
<1>1. w = [c \in DOMAIN m \cup {b} |-> IF c = b THEN s ELSE m[c]]
  BY DEF With
<1> HIDE DEF w
<1>2. DOMAIN w = DOMAIN m \cup {b}
  BY <1>1
<1>3. IsFiniteSet(DOMAIN w)
  BY <1>2, FS_AddElement DEF AreBlocks
<1>4. \A c \in DOMAIN m : m[c] \in Seq(Cell)
  BY DEF AreBlocks
<1>5. w \in [DOMAIN w -> Seq(Cell)]
  BY <1>1, <1>2, <1>4
<1>6. AreBlocks(w)
  BY <1>2, <1>3, <1>5 DEF AreBlocks
<1> QED
  BY <1>6 DEF w

\* A copy of a sequence into n cells.
LEMMA CopiedCells ==
  ASSUME NEW s \in Seq(Cell), NEW n \in Nat
  PROVE  /\ Copied(s, n) \in Seq(Cell)
         /\ Len(Copied(s, n)) = n
         /\ \A i \in 1 .. n : i <= Len(s) => Copied(s, n)[i] = s[i]
<1>1. Junk \in Cell
  BY DEF Cell
<1> DEFINE t == Copied(s, n)
<1>2. t = [i \in 1 .. n |-> IF i <= Len(s) THEN s[i] ELSE Junk]
  BY DEF Copied
<1>3. \A i \in 1 .. n : i <= Len(s) => s[i] \in Cell
  OBVIOUS
<1> HIDE DEF t
<1>4. t \in [1 .. n -> Cell]
  BY <1>1, <1>2, <1>3
<1>5. t \in Seq(Cell) /\ Len(t) = n
  BY <1>4
<1> QED
  BY <1>2, <1>5 DEF t

\* The array's buffer.
LEMMA BufferCells ==
  ASSUME ArrayForm
  PROVE  /\ Buffer \in Seq(Cell) /\ Len(Buffer) = capacity
         /\ data # Null => Buffer = mem[data]
<1>1. CASE data = Null
  BY <1>1 DEF Buffer, ArrayForm, Held
<1>2. CASE data # Null
  BY <1>2 DEF Buffer, ArrayForm, Held, AreBlocks
<1> QED
  BY <1>1, <1>2

-----------------------------------------------------------------------------
(* The outcomes of an allocation *)

\* What is there after an allocation, refused or granted: a buffer with the
\* elements of the array at its front, and either the old block as it was or,
\* if realloc moved it, no old block.
Left(d, c, m, l) ==
  /\ Held(d, c, m) /\ l \in 0 .. ArenaCells
  /\ size <= c
  /\ \A i \in 1 .. size : m[d][i] = mem[data][i]
  /\ \/ /\ data \in DOMAIN m /\ size <= Len(m[data])
        /\ \A i \in 1 .. size : m[data][i] = mem[data][i]
     \/ data \notin DOMAIN m /\ (data = Null \/ (allocator = "heap" /\ d # data))

LEMMA UnchangedLeft ==
  ASSUME ArrayForm, Null \notin Nat, ArenaCells \in Nat
  PROVE  Left(data, capacity, mem, room)
<1>1. /\ Held(data, capacity, mem) /\ room \in 0 .. ArenaCells /\ size <= capacity
  BY DEF ArrayForm
<1>2. \/ data \in DOMAIN mem /\ Len(mem[data]) = capacity
      \/ data = Null /\ data \notin DOMAIN mem
  BY DEF ArrayForm, Held, AreBlocks
<1> QED
  BY <1>1, <1>2, Zenon DEF Left

\* The linear allocator gives a new block and keeps the old one.
LEMMA ArenaLeft ==
  ASSUME ArrayForm, Null \notin Nat, ArenaCells \in Nat, allocator = "arena", NEW n \in Nat, n > 0,
         size <= n, n <= room, NEW w,
         w = With(mem, Fresh,
                        Copied(SubSeq(Buffer, 1, size), n))
  PROVE  Left(Fresh, n, w, room - n)
<1> DEFINE b == Fresh
           s == SubSeq(Buffer, 1, size)
           t == Copied(s, n)
<1>1. /\ AreBlocks(mem) /\ DOMAIN mem \subseteq Nat /\ IsFiniteSet(DOMAIN mem)
      /\ size \in Nat /\ size <= capacity /\ capacity \in Nat
      /\ data = Null <=> capacity = 0
      /\ data # Null => data \in DOMAIN mem /\ Len(mem[data]) = capacity
      /\ room \in 0 .. ArenaCells
  BY DEF ArrayForm, Held, AreBlocks
<1>2. b \in Nat /\ b \notin DOMAIN mem
  BY <1>1, FreshBlock
<1>3. /\ Buffer \in Seq(Cell) /\ Len(Buffer) = capacity
      /\ data # Null => Buffer = mem[data]
  BY BufferCells
<1>4. /\ s \in Seq(Cell) /\ Len(s) = size
      /\ \A i \in 1 .. size : s[i] = Buffer[i]
  BY <1>1, <1>3
<1> HIDE DEF s, b
<1>5. /\ t \in Seq(Cell) /\ Len(t) = n
      /\ \A i \in 1 .. n : i <= Len(s) => t[i] = s[i]
  BY <1>4, CopiedCells
<1>6. w = With(mem, b, t)
  BY DEF b, s
<1> HIDE DEF t
<1>7. /\ AreBlocks(w)
      /\ DOMAIN w = DOMAIN mem \cup {b}
      /\ w[b] = t
      /\ \A c \in DOMAIN mem \ {b} : w[c] = mem[c]
  <2>1. AreBlocks(mem) /\ b \in Nat /\ t \in Seq(Cell)
    BY <1>1, <1>2, <1>5
  <2>2. AreBlocks(w)
    BY <1>6, <2>1, WithBlock, Zenon
  <2> QED
    BY <1>6, <2>2 DEF With
<1>8. Held(b, n, w)
  BY <1>2, <1>5, <1>7 DEF Held
<1>9. \A i \in 1 .. size : t[i] = mem[data][i]
  <2> TAKE i \in 1 .. size
  <2>1. data # Null
    BY <1>1
  <2> QED
    BY <1>1, <1>3, <1>4, <1>5, <2>1
<1>10. \/ data \in DOMAIN w /\ w[data] = mem[data] /\ size <= Len(w[data])
       \/ data = Null /\ data \notin DOMAIN w
  BY <1>1, <1>2, <1>7
<1>11. room - n \in 0 .. ArenaCells
  BY <1>1
<1>12. Left(b, n, w, room - n)
  BY <1>7, <1>8, <1>9, <1>10, <1>11 DEF Left
<1> QED
  BY <1>12 DEF b

\* realloc copies what fits, stays in place or frees the old block.
LEMMA HeapLeft ==
  ASSUME ArrayForm, Null \notin Nat, ArenaCells \in Nat, allocator # "arena", NEW n \in Nat, n > 0,
         size <= n, NEW b \in {Fresh, data} \ {Null}, NEW w,
         w = With(Restrict(mem, DOMAIN mem \ {data}), b,
                        Copied(Buffer, n))
  PROVE  Left(b, n, w, room)
<1> DEFINE m == Restrict(mem, DOMAIN mem \ {data})
           t == Copied(Buffer, n)
<1>1. /\ AreBlocks(mem) /\ DOMAIN mem \subseteq Nat /\ IsFiniteSet(DOMAIN mem)
      /\ size \in Nat /\ size <= capacity /\ capacity \in Nat
      /\ data = Null <=> capacity = 0
      /\ data # Null => data \in DOMAIN mem
      /\ allocator = "heap" /\ DOMAIN mem = {data} \ {Null}
      /\ room \in 0 .. ArenaCells
  BY DEF ArrayForm, Held, AreBlocks
<1>2. Fresh \in Nat /\ Fresh \notin DOMAIN mem
  BY <1>1, FreshBlock
<1>3. b \in Nat /\ b # Null
  BY <1>1, <1>2
<1>4. /\ Buffer \in Seq(Cell) /\ Len(Buffer) = capacity
      /\ data # Null => Buffer = mem[data]
  BY BufferCells
<1>5. /\ t \in Seq(Cell) /\ Len(t) = n
      /\ \A i \in 1 .. n : i <= Len(Buffer) => t[i] = Buffer[i]
  BY <1>4, CopiedCells
<1>6. DOMAIN m = {} /\ m = [c \in {} |-> mem[c]]
  BY <1>1 DEF Restrict
<1>7. AreBlocks(m)
  BY <1>6, FS_EmptySet DEF AreBlocks
<1> HIDE DEF m, t
<1>8. w = With(m, b, t)
  BY DEF m, t
<1>9. AreBlocks(w) /\ DOMAIN w = DOMAIN m \cup {b} /\ w[b] = t
  <2>1. AreBlocks(m) /\ b \in Nat /\ t \in Seq(Cell)
    BY <1>3, <1>5, <1>7
  <2>2. AreBlocks(w)
    BY <1>8, <2>1, WithBlock, Zenon
  <2> QED
    BY <1>8, <2>2 DEF With
<1>10. DOMAIN w = {b}
  BY <1>6, <1>9
<1>11. Held(b, n, w)
  <2>1. b \in DOMAIN w /\ Len(w[b]) = n /\ DOMAIN w = {b} \ {Null}
    BY <1>3, <1>5, <1>9, <1>10
  <2>2. n # 0
    OBVIOUS
  <2> QED
    BY <1>3, <1>9, <2>1, <2>2, Zenon DEF Held
<1>12. \A i \in 1 .. size : t[i] = mem[data][i]
  <2> TAKE i \in 1 .. size
  <2>1. data # Null
    BY <1>1
  <2> QED
    BY <1>1, <1>4, <1>5, <2>1
<1> QED
  BY <1>1, <1>5, <1>9, <1>10, <1>11, <1>12 DEF Left

LEMMA ArenaGrownLeft ==
  ASSUME ArrayForm, Null \notin Nat, ArenaCells \in Nat, allocator = "arena", NEW n \in Nat, n > 0,
         size <= n, NEW r \in ArenaGrown(n)
  PROVE  /\ Left(r.data, r.capacity, r.mem, r.room)
         /\ r.ok => r.capacity = n
<1>1. CASE n > room
  <2>1. r = Refused
    BY <1>1 DEF ArenaGrown
  <2> QED
    BY <2>1, UnchangedLeft DEF Refused
<1>2. CASE ~(n > room)
  <2> DEFINE w == With(mem, Fresh,
                             Copied(SubSeq(Buffer, 1, size), n))
  <2>1. r = Granted(Fresh, n, room - n, w)
    BY <1>2 DEF ArenaGrown
  <2>2. n <= room
    BY <1>2 DEF ArrayForm
  <2>3. Left(Fresh, n, w, room - n)
    BY <2>2, ArenaLeft
  <2> HIDE DEF w
  <2> QED
    BY <2>1, <2>3 DEF Granted
<1> QED
  BY <1>1, <1>2

LEMMA HeapResizedLeft ==
  ASSUME ArrayForm, Null \notin Nat, ArenaCells \in Nat, allocator # "arena", NEW n \in Nat, n > 0,
         size <= n, NEW r \in HeapResized(n)
  PROVE  /\ Left(r.data, r.capacity, r.mem, r.room)
         /\ r.ok => r.capacity = n
<1>1. CASE r = Refused
  BY <1>1, UnchangedLeft DEF Refused
<1>2. CASE r # Refused
  <2> DEFINE w(b) == With(Restrict(mem, DOMAIN mem \ {data}), b,
                                Copied(Buffer, n))
  <2>1. PICK b \in {Fresh, data} \ {Null} :
               r = Granted(b, n, room, w(b))
    BY <1>2 DEF HeapResized
  <2>2. Left(b, n, w(b), room)
    BY HeapLeft
  <2> HIDE DEF w
  <2> QED
    BY <2>1, <2>2 DEF Granted
<1> QED
  BY <1>1, <1>2

\* justDynamicArrayReserve: room for n elements when it succeeds.
LEMMA ReservedLeft ==
  ASSUME ArrayForm, Null \notin Nat, ArenaCells \in Nat, NEW n \in Nat,
         NEW r \in Reserved(n)
  PROVE  /\ Left(r.data, r.capacity, r.mem, r.room)
         /\ r.ok => r.capacity >= n
<1>1. capacity \in Nat /\ size \in Nat /\ size <= capacity
  BY DEF ArrayForm, Held
<1>2. CASE n <= capacity
  <2>1. r = [Refused EXCEPT !.ok = TRUE]
    BY <1>2 DEF Reserved
  <2>2. r.data = data /\ r.capacity = capacity /\ r.mem = mem /\ r.room = room
    BY <2>1 DEF Refused
  <2> QED
    BY <1>1, <1>2, <2>2, UnchangedLeft
<1>3. CASE ~(n <= capacity)
  <2> DEFINE k == NewCapacity(n)
  <2>1. k \in Nat /\ k > 0 /\ size <= k /\ k >= n
    BY <1>1, <1>3 DEF NewCapacity
  <2> HIDE DEF k
  <2>2. CASE allocator = "arena"
    <3>1. r \in ArenaGrown(k)
      BY <1>3, <2>2 DEF Reserved, k
    <3> QED
      BY <2>1, <2>2, <3>1, ArenaGrownLeft
  <2>3. CASE allocator # "arena"
    <3>1. r \in HeapResized(k)
      BY <1>3, <2>3 DEF Reserved, k
    <3> QED
      BY <2>1, <2>3, <3>1, HeapResizedLeft
  <2> QED
    BY <2>2, <2>3
<1> QED
  BY <1>2, <1>3

\* A slot at the end: there, or made by growing.
LEMMA SlotLeft ==
  ASSUME ArrayForm, Null \notin Nat, ArenaCells \in Nat,
         DEFAULT_GROWTH \in Nat \ {0}, NEW r \in Slot
  PROVE  /\ Left(r.data, r.capacity, r.mem, r.room)
         /\ r.ok => r.capacity >= size + 1
<1>1. capacity \in Nat /\ size \in Nat /\ size <= capacity
  BY DEF ArrayForm, Held
<1>2. CASE size >= capacity
  <2> DEFINE n == IF capacity > 0 THEN 2 * capacity ELSE DEFAULT_GROWTH
  <2>1. n \in Nat /\ n >= size + 1
    BY <1>1, <1>2
  <2>2. r \in Reserved(n)
    BY <1>2 DEF Slot, Grown
  <2> HIDE DEF n
  <2>3. /\ Left(r.data, r.capacity, r.mem, r.room)
        /\ r.ok => r.capacity >= n
    BY <2>1, <2>2, ReservedLeft
  <2>4. r.capacity \in Nat
    BY <2>3 DEF Left, Held
  <2> QED
    BY <1>1, <2>1, <2>3, <2>4
<1>3. CASE ~(size >= capacity)
  <2>1. r \in Reserved(0)
    BY <1>3 DEF Slot
  <2>2. r.capacity = capacity
    BY <1>1, <2>1 DEF Reserved, Refused
  <2>3. Left(r.data, r.capacity, r.mem, r.room)
    BY <2>1, ReservedLeft
  <2> QED
    BY <1>1, <1>3, <2>2, <2>3
<1> QED
  BY <1>2, <1>3

\* justDynamicArrayShrinkToFit keeps at least the elements.
LEMMA ShrunkLeft ==
  ASSUME ArrayForm, Null \notin Nat, ArenaCells \in Nat, NEW r \in Shrunk
  PROVE  Left(r.data, r.capacity, r.mem, r.room)
<1>1. /\ capacity \in Nat /\ size \in Nat /\ size <= capacity
      /\ allocator \in {"heap", "arena"} /\ room \in 0 .. ArenaCells
      /\ AreBlocks(mem) /\ DOMAIN mem \subseteq Nat
      /\ allocator = "heap" => DOMAIN mem = {data} \ {Null}
  BY DEF ArrayForm, Held, AreBlocks
<1>2. CASE allocator = "arena" \/ size = capacity
  <2>1. r = Refused
    BY <1>2 DEF Shrunk
  <2> QED
    BY <2>1, UnchangedLeft DEF Refused
<1>3. CASE ~(allocator = "arena" \/ size = capacity) /\ size = 0
  <2>1. r = Granted(Null, 0, room, Freed)
    BY <1>3 DEF Shrunk
  <2>2. r.data = Null /\ r.capacity = 0 /\ r.room = room /\ r.mem = Freed
    BY <2>1 DEF Granted
  <2>3. allocator = "heap" /\ DOMAIN mem = {data} \ {Null}
    BY <1>1, <1>3
  <2>4. Freed = [c \in {} |-> mem[c]]
    BY <2>3 DEF Freed, Restrict
  <2>5. DOMAIN Freed = {} /\ AreBlocks(Freed)
    BY <2>4, FS_EmptySet DEF AreBlocks
  <2>6. Held(Null, 0, Freed)
    BY <2>5 DEF Held
  <2>7. data # Null
    BY <1>1, <1>3 DEF ArrayForm, Held
  <2>8. Left(Null, 0, Freed, room)
    BY <1>1, <1>3, <2>3, <2>5, <2>6, <2>7 DEF Left
  <2> QED
    BY <2>2, <2>8
<1>4. CASE ~(allocator = "arena" \/ size = capacity) /\ size # 0
  <2>1. r \in HeapResized(size) /\ allocator # "arena"
    BY <1>4 DEF Shrunk
  <2>2. size > 0 /\ size <= size
    BY <1>1, <1>4
  <2> QED
    BY <1>1, <2>1, <2>2, HeapResizedLeft
<1> QED
  BY <1>2, <1>3, <1>4

-----------------------------------------------------------------------------
(* The array's elements *)

\* The elements are the first cells of the buffer.
ContentsRead ==
  /\ Contents \in Seq(Cell) /\ Len(Contents) = size
  /\ \A i \in 1 .. size : Contents[i] = mem[data][i]

LEMMA ContentsForm == ArrayForm => ContentsRead
<1> SUFFICES ASSUME ArrayForm PROVE ContentsRead
  OBVIOUS
<1>2. /\ Buffer \in Seq(Cell) /\ Len(Buffer) = capacity
      /\ data # Null => Buffer = mem[data]
  BY BufferCells
<1>3. /\ capacity \in Nat /\ size \in Nat /\ size <= capacity
      /\ data = Null <=> capacity = 0
  BY DEF ArrayForm, Held
<1>4. /\ Contents \in Seq(Cell) /\ Len(Contents) = size
      /\ \A i \in 1 .. size : Contents[i] = Buffer[i]
  BY <1>2, <1>3 DEF Contents
<1> QED
  BY <1>2, <1>3, <1>4 DEF ContentsRead

LEMMA ContentsFormPrimed == ArrayForm' => ContentsRead'
  BY ContentsForm, PTL

\* Two sequences of the same elements.
LEMMA SameElements ==
  ASSUME NEW s \in Seq(Cell), NEW t \in Seq(Cell), Len(s) = Len(t),
         \A i \in 1 .. Len(s) : s[i] = t[i]
  PROVE  s = t
<1> DEFINE n == Len(s)
<1>1. s \in [1 .. n -> Cell] /\ t \in [1 .. n -> Cell]
  OBVIOUS
<1> QED
  BY <1>1

\* An allocation that the size does not follow keeps the elements.
LEMMA BecameKeeps ==
  ASSUME ArrayForm, NEW r, Left(r.data, r.capacity, r.mem, r.room),
         Became(r), allocator' = allocator, size' = size
  PROVE  ArrayForm' /\ Contents' = Contents
<1>1. /\ data' = r.data /\ capacity' = r.capacity /\ mem' = r.mem /\ room' = r.room
  BY DEF Became
<1>2. /\ Held(r.data, r.capacity, r.mem) /\ r.room \in 0 .. ArenaCells
      /\ size <= r.capacity
      /\ \A i \in 1 .. size : r.mem[r.data][i] = mem[data][i]
  BY DEF Left
<1>3. Held(data, capacity, mem)'
  BY <1>1, <1>2 DEF Held
<1>4. ArrayForm'
  BY <1>1, <1>2, <1>3 DEF ArrayForm
<1>5. ContentsRead /\ ContentsRead'
  BY <1>4, ContentsForm, ContentsFormPrimed
<1>6. /\ Contents \in Seq(Cell) /\ Contents' \in Seq(Cell)
      /\ Len(Contents) = size /\ Len(Contents') = size
      /\ \A i \in 1 .. size : Contents'[i] = Contents[i]
  BY <1>1, <1>2, <1>5 DEF ContentsRead
<1> QED
  BY <1>4, <1>6, SameElements

\* Emplace: one more cell counts, the others are as they were.
LEMMA BecameLonger ==
  ASSUME ArrayForm, NEW r, Left(r.data, r.capacity, r.mem, r.room),
         Became(r), allocator' = allocator, size' = size + 1,
         size + 1 <= r.capacity
  PROVE  /\ ArrayForm'
         /\ Len(Contents') = size + 1
         /\ \A i \in 1 .. size : Contents'[i] = Contents[i]
<1>1. /\ data' = r.data /\ capacity' = r.capacity /\ mem' = r.mem /\ room' = r.room
  BY DEF Became
<1>2. /\ Held(r.data, r.capacity, r.mem) /\ r.room \in 0 .. ArenaCells
      /\ \A i \in 1 .. size : r.mem[r.data][i] = mem[data][i]
  BY DEF Left
<1>3. Held(data, capacity, mem)'
  BY <1>1, <1>2 DEF Held
<1>4. size \in Nat
  BY DEF ArrayForm
<1>5. ArrayForm'
  BY <1>1, <1>2, <1>3, <1>4 DEF ArrayForm
<1>6. ContentsRead /\ ContentsRead'
  BY <1>5, ContentsForm, ContentsFormPrimed
<1>7. /\ Len(Contents') = size + 1
      /\ \A i \in 1 .. size + 1 : Contents'[i] = mem'[data'][i]
      /\ \A i \in 1 .. size : Contents[i] = mem[data][i]
  BY <1>6 DEF ContentsRead
<1>8. \A i \in 1 .. size : i \in 1 .. size + 1
  BY <1>4
<1> QED
  BY <1>1, <1>2, <1>5, <1>7, <1>8

\* A push writes behind the elements.
LEMMA AppendedAppends ==
  ASSUME ArrayForm, NEW r, Left(r.data, r.capacity, r.mem, r.room),
         NEW s \in Seq(Cell), Len(s) > 0, size + Len(s) <= r.capacity,
         Appended(r, s), allocator' = allocator
  PROVE  ArrayForm' /\ Contents' = Contents \o s
<1> DEFINE d == r.data
           k == size + Len(s)
           c == r.capacity
           old == r.mem[d]
           new == [i \in DOMAIN old |-> IF i \in size + 1 .. k THEN s[i - size] ELSE old[i]]
<1>1. /\ data' = d /\ capacity' = c /\ room' = r.room /\ size' = k
      /\ mem' = [r.mem EXCEPT ![d] = new]
  BY DEF Appended
<1>2. /\ Held(d, c, r.mem) /\ r.room \in 0 .. ArenaCells
      /\ \A i \in 1 .. size : r.mem[d][i] = mem[data][i]
  BY DEF Left
<1>3. size \in Nat /\ c \in Nat /\ k \in Nat /\ k <= c /\ k > 0
  BY <1>2 DEF Held, ArrayForm
<1>4. d # Null /\ d \in DOMAIN r.mem /\ AreBlocks(r.mem) /\ Len(old) = c
  BY <1>2, <1>3 DEF Held
<1>5. old \in Seq(Cell)
  BY <1>4 DEF AreBlocks
<1>6. \A i \in size + 1 .. k : s[i - size] \in Cell
  BY <1>3
<1>7. new \in Seq(Cell) /\ Len(new) = c
  <2>1. DOMAIN old = 1 .. c /\ \A i \in 1 .. c : old[i] \in Cell
    BY <1>4, <1>5
  <2>2. new \in [1 .. c -> Cell]
    BY <1>6, <2>1
  <2> HIDE DEF new, c
  <2> QED
    BY <1>3, <2>2
<1>8. /\ \A i \in 1 .. size : new[i] = old[i]
      /\ \A i \in size + 1 .. k : new[i] = s[i - size]
  <2>1. DOMAIN old = 1 .. c
    BY <1>4, <1>5
  <2> QED
    BY <1>3, <2>1
<1> HIDE DEF new
<1>9. DOMAIN mem' = DOMAIN r.mem /\ mem'[d] = new
  BY <1>1, <1>4 DEF AreBlocks
<1>10. AreBlocks(mem')
  BY <1>1, <1>4, <1>7, <1>9 DEF AreBlocks
<1>11. Held(data, capacity, mem)'
  <2>1. allocator' = "heap" => DOMAIN mem' = {d} \ {Null}
    BY <1>2, <1>9 DEF Held
  <2>2. c # 0
    BY <1>3
  <2> QED
    BY <1>1, <1>3, <1>4, <1>7, <1>9, <1>10, <2>1, <2>2 DEF Held, AreBlocks
<1>12. ArrayForm'
  BY <1>1, <1>2, <1>3, <1>11 DEF ArrayForm
<1>13. ContentsRead /\ ContentsRead'
  BY <1>12, ContentsForm, ContentsFormPrimed
<1> DEFINE t == Contents'
           u == Contents \o s
<1>14. /\ Contents \in Seq(Cell) /\ Len(Contents) = size
       /\ \A i \in 1 .. size : Contents[i] = old[i]
  BY <1>2, <1>13 DEF ContentsRead
<1>15. t \in Seq(Cell) /\ Len(t) = k /\ \A i \in 1 .. k : t[i] = new[i]
  BY <1>1, <1>9, <1>13 DEF ContentsRead
<1>16. /\ u \in Seq(Cell) /\ Len(u) = k
       /\ \A i \in 1 .. size : u[i] = Contents[i]
       /\ \A i \in size + 1 .. k : u[i] = s[i - size]
  BY <1>3, <1>14
<1> HIDE DEF t, u
<1>17. \A i \in 1 .. k : t[i] = u[i]
  <2> TAKE i \in 1 .. k
  <2>1. CASE i <= size
    <3>1. i \in 1 .. size
      BY <1>3, <2>1
    <3> QED
      BY <1>8, <1>14, <1>15, <1>16, <3>1
  <2>2. CASE ~(i <= size)
    <3>1. i \in size + 1 .. k
      BY <1>3, <2>2
    <3> QED
      BY <1>8, <1>15, <1>16, <3>1
  <2> QED
    BY <2>1, <2>2
<1>18. t = u
  BY <1>15, <1>16, <1>17, SameElements
<1> QED
  BY <1>12, <1>18 DEF t, u

\* The caller's own buffer, or elements of the array.
LEMMA SourceCells ==
  ASSUME ArrayForm, Ranges \subseteq Seq(Values), NEW src \in Sources
  PROVE  /\ src.cells \in Seq(Cell)
         /\ \/ src.own = FALSE
            \/ /\ src.own = TRUE /\ src.block = data /\ size > 0
               /\ src.first \in 1 .. size /\ src.last \in src.first .. size
               /\ src.cells = SubSeq(Buffer, src.first, src.last)
<1>1. CASE \E cells \in Ranges : src = External(cells)
  <2>1. PICK cells \in Ranges : src = External(cells)
    BY <1>1
  <2>2. src.own = FALSE /\ src.cells = cells
    BY <2>1 DEF External
  <2>3. cells \in Seq(Cell)
    BY DEF Cell
  <2> QED
    BY <2>2, <2>3
<1>2. CASE ~ \E cells \in Ranges : src = External(cells)
  <2>1. PICK p \in (1 .. size) \X (1 .. size) :
               p[1] <= p[2] /\ src = Own(p[1], p[2])
    BY <1>2 DEF Sources
  <2>2. /\ src.own = TRUE /\ src.block = data /\ src.first = p[1] /\ src.last = p[2]
        /\ src.cells = SubSeq(Buffer, p[1], p[2])
    BY <2>1 DEF Own
  <2>3. size \in Nat /\ size <= capacity /\ capacity \in Nat
    BY DEF ArrayForm, Held
  <2>4. p[1] \in 1 .. size /\ p[2] \in 1 .. size /\ p[1] <= p[2]
    BY <2>1
  <2>5. Buffer \in Seq(Cell) /\ Len(Buffer) = capacity
    BY BufferCells
  <2>6. SubSeq(Buffer, p[1], p[2]) \in Seq(Cell)
    BY <2>3, <2>4, <2>5
  <2> QED
    BY <2>2, <2>3, <2>4, <2>6
<1> QED
  BY <1>1, <1>2

\* What memcpy reads: the source as it was, unless realloc freed it.
LEMMA ReadAfterCells ==
  ASSUME ArrayForm, Ranges \subseteq Seq(Values), NEW src \in Sources,
         NEW r, Left(r.data, r.capacity, r.mem, r.room)
  PROVE  /\ ReadAfter(src, r) \in Seq(Cell)
         /\ Len(ReadAfter(src, r)) = Len(src.cells)
         /\ \/ ReadAfter(src, r) = src.cells
            \/ src.own /\ allocator = "heap" /\ r.data # data
<1>1. src.cells \in Seq(Cell)
  BY SourceCells
<1>2. CASE src.own = FALSE
  BY <1>1, <1>2 DEF ReadAfter
<1>3. CASE src.own = TRUE
  <2>1. /\ src.block = data /\ size > 0
        /\ src.first \in 1 .. size /\ src.last \in src.first .. size
        /\ src.cells = SubSeq(Buffer, src.first, src.last)
    BY <1>3, SourceCells
  <2>2. size \in Nat /\ size <= capacity /\ capacity \in Nat
        /\ data # Null
    BY <2>1 DEF ArrayForm, Held
  <2>3. /\ Buffer \in Seq(Cell) /\ Len(Buffer) = capacity
        /\ Buffer = mem[data]
    BY <2>2, BufferCells
  <2> DEFINE a == src.first
             z == src.last
             n == z - a + 1
  <2>4. a \in Nat /\ z \in Nat /\ 1 <= a /\ a <= z /\ z <= size /\ n \in Nat
    BY <2>1, <2>2
  <2>5. CASE data \in DOMAIN r.mem
    <3> DEFINE m == r.mem[data]
               s == SubSeq(Buffer, a, z)
               t == SubSeq(m, a, z)
    <3>1. /\ size <= Len(m) /\ \A i \in 1 .. size : m[i] = Buffer[i]
      BY <2>3, <2>5 DEF Left
    <3>2. m \in Seq(Cell)
      BY <2>5 DEF Left, Held, AreBlocks
    <3> HIDE DEF m, a, z
    <3>3. /\ s \in Seq(Cell) /\ Len(s) = n
          /\ \A i \in 1 .. n : s[i] = Buffer[a + i - 1]
      BY <2>2, <2>3, <2>4
    <3>4. /\ t \in Seq(Cell) /\ Len(t) = n
          /\ \A i \in 1 .. n : t[i] = m[a + i - 1]
      BY <2>2, <2>4, <3>1, <3>2
    <3>5. \A i \in 1 .. n : a + i - 1 \in 1 .. size
      BY <2>2, <2>4
    <3> HIDE DEF s, t, n
    <3>6. s = t
      BY <3>1, <3>3, <3>4, <3>5, SameElements
    <3>7. ReadAfter(src, r) = t
      BY <1>3, <2>1, <2>5 DEF ReadAfter, t, m, a, z
    <3> QED
      BY <1>1, <2>1, <3>6, <3>7 DEF s, a, z
  <2>6. CASE data \notin DOMAIN r.mem
    <3>1. allocator = "heap" /\ r.data # data
      BY <2>2, <2>6 DEF Left
    <3>2. ReadAfter(src, r) = [i \in 1 .. Len(src.cells) |-> Junk]
      BY <1>3, <2>1, <2>6 DEF ReadAfter, Cells
    <3>3. Len(src.cells) \in Nat /\ Junk \in Cell
      BY <1>1 DEF Cell
    <3>4. [i \in 1 .. Len(src.cells) |-> Junk] \in Seq(Cell)
      BY <3>3
    <3> QED
      BY <1>3, <3>1, <3>2, <3>3, <3>4
  <2> QED
    BY <2>5, <2>6
<1> QED
  BY <1>2, <1>3, SourceCells

\* What the proofs use of the constants.
LEMMA ArrayConstants ==
  /\ Null \notin Nat /\ ArenaCells \in Nat /\ DEFAULT_GROWTH \in Nat \ {0}
  /\ Capacities \subseteq Nat /\ Ranges \subseteq Seq(Values)
  BY ArrayAssumption

\* A push of one element or of several, from outside or from the array.
LEMMA PushStep ==
  ASSUME ArrayForm, NEW src \in Sources,
         PushRange(src) \/ Push(src)
  PROVE  /\ ArrayForm' /\ out' = out /\ pushed' = src
         /\ \E n \in Nat \ {0} :
              /\ Len(Contents') = size + n
              /\ \A i \in 1 .. size : Contents'[i] = Contents[i]
         /\ \/ Contents' = Contents \o src.cells
            \/ src.own /\ allocator = "heap" /\ data' # data
<1> USE ArrayConstants
<1>1. size \in Nat
  BY DEF ArrayForm
<1>2. src.cells \in Seq(Cell)
  BY SourceCells
<1> DEFINE n == Len(src.cells)
<1>3. n \in Nat /\ n > 0
  <2>1. CASE PushRange(src)
    BY <1>2, <2>1 DEF PushRange
  <2>2. CASE Push(src)
    BY <1>2, <2>2 DEF Push
  <2> QED
    BY <2>1, <2>2
<1>4. out' = out /\ pushed' = src /\ allocator' = allocator
  BY DEF PushRange, Push
<1>5. \E r : /\ Left(r.data, r.capacity, r.mem, r.room)
             /\ size + n <= r.capacity
             /\ Appended(r, ReadAfter(src, r))
  <2>1. CASE PushRange(src)
    <3>1. PICK r \in Reserved(size + n) :
                 r.ok /\ Appended(r, ReadAfter(src, r))
      BY <2>1 DEF PushRange
    <3>2. size + n \in Nat
      BY <1>1, <1>3
    <3> HIDE DEF n
    <3>3. Left(r.data, r.capacity, r.mem, r.room) /\ r.capacity >= size + n
      BY <3>1, <3>2, ReservedLeft
    <3>4. r.capacity \in Nat
      BY <3>3 DEF Left, Held
    <3> QED
      BY <3>1, <3>2, <3>3, <3>4
  <2>2. CASE Push(src)
    <3>1. PICK r \in Slot :
                 r.ok /\ Appended(r, ReadAfter(src, r))
      BY <2>2 DEF Push
    <3>2. n = 1
      BY <2>2 DEF Push
    <3>3. Left(r.data, r.capacity, r.mem, r.room) /\ r.capacity >= size + 1
      BY <3>1, SlotLeft
    <3>4. r.capacity \in Nat
      BY <3>3 DEF Left, Held
    <3> HIDE DEF n
    <3> QED
      BY <1>1, <3>1, <3>2, <3>3, <3>4
  <2> QED
    BY <2>1, <2>2
<1>6. PICK r : /\ Left(r.data, r.capacity, r.mem, r.room)
               /\ size + n <= r.capacity
               /\ Appended(r, ReadAfter(src, r))
  BY <1>5
<1> DEFINE s == ReadAfter(src, r)
<1>7. /\ s \in Seq(Cell) /\ Len(s) = n
      /\ \/ s = src.cells
         \/ src.own /\ allocator = "heap" /\ r.data # data
  BY <1>6, ReadAfterCells
<1>8. ArrayForm' /\ Contents' = Contents \o s
  <2>1. Appended(r, s)
    BY <1>6
  <2> HIDE DEF s
  <2> QED
    BY <1>3, <1>4, <1>6, <1>7, <2>1, AppendedAppends
<1>9. data' = r.data
  BY <1>6 DEF Appended
<1> HIDE DEF s, n
<1>10. Contents \in Seq(Cell) /\ Len(Contents) = size
  BY ContentsForm DEF ContentsRead
<1>11. /\ Len(Contents') = size + n
       /\ \A i \in 1 .. size : Contents'[i] = Contents[i]
  <2> DEFINE c == Contents
             u == c \o s
  <2>1. s \in Seq(Cell) /\ Len(s) = n
    BY <1>7, Zenon
  <2>2. c \in Seq(Cell) /\ Len(c) = size
    BY <1>10
  <2>3. Contents' = u
    BY <1>8
  <2> HIDE DEF c
  <2>4. Len(u) = size + n /\ \A i \in 1 .. size : u[i] = c[i]
    BY <1>1, <1>3, <2>1, <2>2
  <2> HIDE DEF u
  <2> QED
    BY <2>3, <2>4 DEF c
<1>12. n \in Nat \ {0}
  BY <1>3
<1>13. \/ Contents' = Contents \o src.cells
       \/ src.own /\ allocator = "heap" /\ data' # data
  BY <1>7, <1>8, <1>9, Zenon
<1> QED
  BY <1>4, <1>8, <1>11, <1>12, <1>13, Zenon

\* The caller writes an element.
LEMMA StoreStep ==
  ASSUME ArrayForm, NEW j \in 1 .. size, NEW v \in Values, Store(j, v)
  PROVE  /\ ArrayForm' /\ out' = out
         /\ Len(Contents') = size
         /\ \A i \in 1 .. size : i # j => Contents'[i] = Contents[i]
<1>1. /\ mem' = [mem EXCEPT ![data][j] = v]
      /\ data' = data /\ capacity' = capacity /\ size' = size /\ room' = room
      /\ allocator' = allocator /\ out' = out
  BY DEF Store
<1>2. size \in Nat /\ size <= capacity /\ capacity \in Nat
  BY DEF ArrayForm, Held
<1>3. data # Null /\ data \in DOMAIN mem /\ Len(mem[data]) = capacity /\ AreBlocks(mem)
  BY <1>2 DEF ArrayForm, Held
<1> DEFINE old == mem[data]
           new == [old EXCEPT ![j] = v]
<1>4. old \in Seq(Cell) /\ Len(old) = capacity
  BY <1>3 DEF AreBlocks
<1>5. v \in Cell
  BY DEF Cell
<1>6. new \in Seq(Cell) /\ Len(new) = capacity
      /\ \A i \in 1 .. size : i # j => new[i] = old[i]
  <2> HIDE DEF old
  <2>1. new \in [1 .. capacity -> Cell]
    BY <1>2, <1>4, <1>5
  <2>2. \A i \in 1 .. size : i # j => new[i] = old[i]
    BY <1>2, <1>4
  <2> HIDE DEF new
  <2> QED
    BY <1>2, <2>1, <2>2
<1>7. mem' = [mem EXCEPT ![data] = new]
  BY <1>1
<1> HIDE DEF new
<1>8. DOMAIN mem' = DOMAIN mem /\ mem'[data] = new
  BY <1>3, <1>7 DEF AreBlocks
<1>9. AreBlocks(mem')
  BY <1>3, <1>6, <1>7, <1>8 DEF AreBlocks
<1>10. Held(data, capacity, mem)'
  <2>1. Held(data, capacity, mem)
    BY DEF ArrayForm
  <2> QED
    BY <1>1, <1>6, <1>8, <1>9, <2>1 DEF Held
<1>11. ArrayForm'
  BY <1>1, <1>10 DEF ArrayForm
<1>12. ContentsRead /\ ContentsRead'
  BY <1>11, ContentsForm, ContentsFormPrimed
<1> QED
  BY <1>1, <1>6, <1>8, <1>11, <1>12 DEF ContentsRead

\* Freeing the buffer leaves none.
LEMMA FreedHeld ==
  ASSUME ArrayForm, Null \notin Nat
  PROVE  Held(Null, 0, Freed)
<1>1. /\ AreBlocks(mem) /\ allocator = "heap" => DOMAIN mem = {data} \ {Null}
  BY DEF ArrayForm, Held
<1>2. CASE allocator = "heap"
  <2>1. Freed = [c \in {} |-> mem[c]]
    BY <1>1, <1>2 DEF Freed, Restrict, ArrayForm, Held
  <2>2. DOMAIN Freed = {} /\ AreBlocks(Freed)
    BY <2>1, FS_EmptySet DEF AreBlocks
  <2> QED
    BY <2>2 DEF Held
<1>3. CASE allocator # "heap"
  <2>1. Freed = mem
    BY <1>3 DEF Freed
  <2>2. AreBlocks(mem)
    BY DEF ArrayForm, Held
  <2> QED
    BY <1>3, <2>1, <2>2 DEF Held
<1> QED
  BY <1>2, <1>3

LEMMA DestroyStep ==
  ASSUME ArrayForm, Destroy
  PROVE  ArrayForm' /\ Contents' = <<>> /\ size' = 0
<1>1. /\ data' = Null /\ capacity' = 0 /\ size' = 0 /\ mem' = Freed
      /\ room' = room /\ allocator' = allocator
  BY DEF Destroy
<1>2. Held(Null, 0, Freed)
  BY ArrayConstants, FreedHeld
<1>3. Held(data, capacity, mem)'
  BY <1>1, <1>2 DEF Held
<1>4. ArrayForm'
  BY <1>1, <1>3 DEF ArrayForm
<1>5. ContentsRead'
  BY <1>4, ContentsFormPrimed
<1> QED
  BY <1>1, <1>4, <1>5 DEF ContentsRead

LEMMA CreateStep ==
  ASSUME ArrayForm, size = 0, NEW n \in Capacities,
         Create(n)
  PROVE  ArrayForm' /\ Contents' = <<>>
<1> USE ArrayConstants
<1>1. size' = 0 /\ allocator' = allocator
  BY DEF Create
<1>2. n \in Nat
  OBVIOUS
<1>3. PICK r \in (IF n = 0 THEN {Refused}
                  ELSE IF allocator = "arena" THEN ArenaGrown(n)
                       ELSE HeapResized(n)) : Became(r)
  BY DEF Create
<1>4. Left(r.data, r.capacity, r.mem, r.room)
  <2>1. CASE n = 0
    BY <1>3, <2>1, UnchangedLeft DEF Refused
  <2>2. CASE n # 0
    <3>1. n > 0 /\ size <= n
      BY <1>2, <2>2
    <3>2. CASE allocator = "arena"
      BY <1>2, <1>3, <2>2, <3>1, <3>2, ArenaGrownLeft
    <3>3. CASE allocator # "arena"
      BY <1>2, <1>3, <2>2, <3>1, <3>3, HeapResizedLeft
    <3> QED
      BY <3>2, <3>3
  <2> QED
    BY <2>1, <2>2
<1>5. ArrayForm' /\ Contents' = Contents
  BY <1>1, <1>3, <1>4, BecameKeeps
<1>6. ContentsRead
  BY ContentsForm
<1> QED
  BY <1>5, <1>6 DEF ContentsRead

LEMMA ReserveStep ==
  ASSUME ArrayForm,
         ShrinkToFit \/ \E n \in Capacities : Reserve(n)
  PROVE  ArrayForm' /\ Contents' = Contents
<1> USE ArrayConstants
<1>1. CASE ShrinkToFit
  <2>1. PICK r \in Shrunk : Became(r)
    BY <1>1 DEF ShrinkToFit
  <2>2. size' = size /\ allocator' = allocator
    BY <1>1 DEF ShrinkToFit
  <2>3. Left(r.data, r.capacity, r.mem, r.room)
    BY ShrunkLeft
  <2> QED
    BY <2>1, <2>2, <2>3, BecameKeeps
<1>2. ASSUME NEW n \in Capacities, Reserve(n)
      PROVE  ArrayForm' /\ Contents' = Contents
  <2>1. PICK r \in Reserved(n) : Became(r)
    BY <1>2 DEF Reserve
  <2>2. size' = size /\ allocator' = allocator
    BY <1>2 DEF Reserve
  <2>3. Left(r.data, r.capacity, r.mem, r.room)
    BY ReservedLeft
  <2> QED
    BY <2>1, <2>2, <2>3, BecameKeeps
<1> QED
  BY <1>1, <1>2

LEMMA EmplaceStep ==
  ASSUME ArrayForm, Emplace
  PROVE  /\ ArrayForm'
         /\ Len(Contents') = size + 1
         /\ \A i \in 1 .. size : Contents'[i] = Contents[i]
<1> USE ArrayConstants
<1>1. PICK r \in Slot : r.ok /\ Became(r) /\ size' = size + 1
  BY DEF Emplace
<1>2. allocator' = allocator
  BY DEF Emplace
<1>3. Left(r.data, r.capacity, r.mem, r.room) /\ r.capacity >= size + 1
  BY <1>1, SlotLeft
<1>4. r.capacity \in Nat /\ size \in Nat
  BY <1>3 DEF Left, Held, ArrayForm
<1> QED
  BY <1>1, <1>2, <1>3, <1>4, BecameLonger

\* Pop and Clear only change the size.
LEMMA ShorterStep ==
  ASSUME ArrayForm, size' \in Nat, size' <= size, data' = data, capacity' = capacity,
         mem' = mem, room' = room, allocator' = allocator
  PROVE  /\ ArrayForm' /\ Contents' \in Seq(Cell)
         /\ Len(Contents') = size'
         /\ \A i \in 1 .. size' : Contents'[i] = Contents[i]
<1>1. Held(data, capacity, mem) /\ size \in Nat /\ capacity \in Nat
  BY DEF ArrayForm, Held
<1>2. Held(data, capacity, mem)'
  BY <1>1 DEF Held
<1>3. ArrayForm'
  BY <1>1, <1>2 DEF ArrayForm
<1>4. ContentsRead /\ ContentsRead'
  BY <1>3, ContentsForm, ContentsFormPrimed
<1> QED
  BY <1>1, <1>3, <1>4 DEF ContentsRead

\* The last element leaves, and Pop hands it out.
LEMMA PopStep ==
  ASSUME ArrayForm, Pop
  PROVE  /\ ArrayForm' /\ Abstract!Pop
<1>1. /\ size > 0 /\ size' = size - 1 /\ data' = data /\ capacity' = capacity
      /\ mem' = mem /\ room' = room /\ allocator' = allocator
      /\ out' = mem[data][size]
  BY DEF Pop
<1>2. size \in Nat
  BY DEF ArrayForm
<1>3. /\ ArrayForm' /\ Contents' \in Seq(Cell)
      /\ Len(Contents') = size - 1
      /\ \A i \in 1 .. size - 1 : Contents'[i] = Contents[i]
  BY <1>1, <1>2, ShorterStep
<1>4. ContentsRead
  BY ContentsForm
<1> DEFINE c == Contents
           t == Contents'
           u == SubSeq(c, 1, Len(c) - 1)
<1>5. c \in Seq(Cell) /\ Len(c) = size /\ c[size] = mem[data][size]
  BY <1>1, <1>2, <1>4 DEF ContentsRead
<1>6. t \in Seq(Cell) /\ Len(t) = size - 1 /\ \A i \in 1 .. size - 1 : t[i] = c[i]
  BY <1>3
<1> HIDE DEF c, t
<1>7. u \in Seq(Cell) /\ Len(u) = size - 1 /\ \A i \in 1 .. size - 1 : u[i] = c[i]
  BY <1>1, <1>2, <1>5
<1> HIDE DEF u
<1>8. t = u
  BY <1>6, <1>7, SameElements
<1>9. c # <<>>
  BY <1>1, <1>5
<1> QED
  BY <1>1, <1>3, <1>5, <1>8, <1>9
  DEF Abstract!Pop, Abstract!Front, Abstract!Last, c, t, u

LEMMA PeekStep ==
  ASSUME ArrayForm, Peek
  PROVE  ArrayForm' /\ Abstract!Peek
<1>1. /\ size' = size /\ data' = data /\ capacity' = capacity
      /\ mem' = mem /\ room' = room /\ allocator' = allocator
      /\ out' = IF size = 0 THEN Null ELSE mem[data][size]
  BY DEF Peek
<1>2. size \in Nat /\ size <= size
  BY DEF ArrayForm
<1>3. /\ ArrayForm' /\ Contents' \in Seq(Cell)
      /\ Len(Contents') = size
      /\ \A i \in 1 .. size : Contents'[i] = Contents[i]
  BY <1>1, <1>2, ShorterStep
<1>4. /\ Contents \in Seq(Cell) /\ Len(Contents) = size
      /\ \A i \in 1 .. size : Contents[i] = mem[data][i]
  BY ContentsForm DEF ContentsRead
<1>5. Contents' = Contents
  BY <1>3, <1>4, SameElements
<1>6. Contents = <<>> <=> size = 0
  BY <1>2, <1>4
<1>7. out' = IF Contents = <<>> THEN Null ELSE Contents[Len(Contents)]
  BY <1>1, <1>2, <1>4, <1>6
<1> QED
  BY <1>3, <1>5, <1>7 DEF Abstract!Peek, Abstract!Last

LEMMA ClearStep ==
  ASSUME ArrayForm, Clear
  PROVE  ArrayForm' /\ Contents' = <<>>
<1>1. /\ size' = 0 /\ data' = data /\ capacity' = capacity
      /\ mem' = mem /\ room' = room /\ allocator' = allocator
  BY DEF Clear
<1>2. size' \in Nat /\ size' <= size
  BY <1>1 DEF ArrayForm
<1>3. ArrayForm' /\ Contents' \in Seq(Cell) /\ Len(Contents') = size'
  BY <1>1, <1>2, ShorterStep
<1> QED
  BY <1>1, <1>3

\* A sequence that keeps the elements and has some more is what PushRange of
\* the abstract sequence leaves.
LEMMA LongerPushes ==
  ASSUME ArrayForm, ArrayForm', out' = out, NEW n \in Nat \ {0},
         Len(Contents') = size + n,
         \A i \in 1 .. size : Contents'[i] = Contents[i]
  PROVE  Abstract!Next
<1> DEFINE c == Contents
           t == Contents'
<1>1. c \in Seq(Cell) /\ Len(c) = size /\ size \in Nat
  BY ContentsForm DEF ContentsRead, ArrayForm
<1>2. t \in Seq(Cell)
  BY ContentsFormPrimed DEF ContentsRead
<1>3. Len(t) = size + n /\ \A i \in 1 .. size : t[i] = c[i]
  OBVIOUS
<1> HIDE DEF c, t
<1>4. /\ SubSeq(c, 1, size) \in Seq(Cell) /\ Len(SubSeq(c, 1, size)) = size
      /\ \A i \in 1 .. size : SubSeq(c, 1, size)[i] = c[i]
  BY <1>1
<1>5. /\ SubSeq(t, 1, size) \in Seq(Cell) /\ Len(SubSeq(t, 1, size)) = size
      /\ \A i \in 1 .. size : SubSeq(t, 1, size)[i] = t[i]
  BY <1>1, <1>2, <1>3
<1>6. SubSeq(c, 1, size) = SubSeq(t, 1, size)
  BY <1>3, <1>4, <1>5, SameElements
<1>7. Len(t) = Len(c) + n /\ Len(c) <= Len(t) /\ n \in 1 .. Len(t)
  BY <1>1, <1>3
<1>8. Abstract!PushRange(n)
  BY <1>1, <1>6, <1>7 DEF Abstract!PushRange, Abstract!IsPrefix, c, t
<1> QED
  BY <1>7, <1>8 DEF Abstract!Next, t

LEMMA StoreStores ==
  ASSUME ArrayForm, NEW j \in 1 .. size, NEW v \in Values, Store(j, v)
  PROVE  ArrayForm' /\ Abstract!Next
<1>1. /\ ArrayForm' /\ out' = out /\ Len(Contents') = size
      /\ \A i \in 1 .. size : i # j => Contents'[i] = Contents[i]
  BY StoreStep
<1> DEFINE c == Contents
           t == Contents'
<1>2. c \in Seq(Cell) /\ Len(c) = size /\ size \in Nat
  BY ContentsForm DEF ContentsRead, ArrayForm
<1>3. t \in Seq(Cell)
  BY <1>1, ContentsFormPrimed DEF ContentsRead
<1>4. Len(t) = size /\ \A i \in 1 .. size : i # j => t[i] = c[i]
  BY <1>1
<1> HIDE DEF c, t
<1>5. DOMAIN t = DOMAIN c /\ j \in DOMAIN c /\ \A i \in DOMAIN c \ {j} : t[i] = c[i]
  BY <1>2, <1>3, <1>4
<1>6. Abstract!Store(j)
  BY <1>1, <1>5 DEF Abstract!Store, c, t
<1> QED
  BY <1>1, <1>5, <1>6 DEF Abstract!Next, c

-----------------------------------------------------------------------------
(* Every call of the array and of the stack *)

\* What a push leaves, as PushCopiesSource states it of a step.
CopiesSource ==
  pushed' # Null =>
    \/ Contents' = Contents \o pushed'.cells
    \/ pushed'.own /\ allocator = "heap" /\ data' # data

\* An array that does not exist has no elements.
UnmadeEmpty == ~made => size = 0

LEMMA ArrayCallRefines ==
  ASSUME ArrayForm, UnmadeEmpty, StackNext
  PROVE  /\ ArrayForm' /\ UnmadeEmpty' /\ CopiesSource
         /\ Abstract!Next \/ UNCHANGED <<Contents, out>>
<1> DEFINE A == Abstract!Next
           Goal == /\ ArrayForm' /\ UnmadeEmpty' /\ CopiesSource
                   /\ A \/ UNCHANGED <<Contents, out>>
<1>1. ASSUME made' \/ size' = 0, pushed' = Null, ArrayForm',
             A \/ UNCHANGED <<Contents, out>>
      PROVE  Goal
  BY <1>1, Zenon DEF UnmadeEmpty, CopiesSource
<1>2. ASSUME out' = out, Contents' = <<>>
      PROVE  A
  BY <1>2, Zenon DEF Abstract!Next, Abstract!Clear
<1>3. ASSUME Destroy
      PROVE  Goal
  <2>1. ArrayForm' /\ Contents' = <<>> /\ size' = 0
    BY <1>3, DestroyStep
  <2>2. out' = out /\ pushed' = Null
    BY <1>3, Zenon DEF Destroy
  <2> HIDE DEF A, Goal
  <2> QED
    BY <1>1, <1>2, <2>1, <2>2, Zenon
<1>4. ASSUME Emplace
      PROVE  Goal
  <2>1. /\ ArrayForm' /\ Len(Contents') = size + 1
        /\ \A i \in 1 .. size : Contents'[i] = Contents[i]
    BY <1>4, EmplaceStep
  <2>2. out' = out /\ pushed' = Null /\ made'
    BY <1>4, Zenon DEF Emplace
  <2>3. 1 \in Nat \ {0}
    OBVIOUS
  <2>4. A
    BY <2>1, <2>2, <2>3, LongerPushes, Zenon
  <2> HIDE DEF A, Goal
  <2> QED
    BY <1>1, <2>1, <2>2, <2>4, Zenon
<1>5. ASSUME Pop \/ StackPop
      PROVE  Goal
  <2>1. Pop
    BY <1>5, Zenon DEF StackPop
  <2>2. ArrayForm' /\ Abstract!Pop
    BY <2>1, PopStep
  <2>3. pushed' = Null /\ made'
    BY <2>1, Zenon DEF Pop
  <2>4. A
    BY <2>2, Zenon DEF Abstract!Next
  <2> HIDE DEF A, Goal
  <2> QED
    BY <1>1, <2>2, <2>3, <2>4, Zenon
<1>6. ASSUME Clear
      PROVE  Goal
  <2>1. ArrayForm' /\ Contents' = <<>>
    BY <1>6, ClearStep
  <2>2. out' = out /\ pushed' = Null /\ made'
    BY <1>6, Zenon DEF Clear
  <2> HIDE DEF A, Goal
  <2> QED
    BY <1>1, <1>2, <2>1, <2>2, Zenon
<1>7. ASSUME ShrinkToFit \/ \E n \in Capacities : Reserve(n)
      PROVE  Goal
  <2>1. ArrayForm' /\ Contents' = Contents
    BY <1>7, ReserveStep
  <2>2. out' = out /\ pushed' = Null /\ made'
    <3>1. CASE ShrinkToFit
      BY <3>1, Zenon DEF ShrinkToFit
    <3>2. ASSUME NEW n \in Capacities, Reserve(n)
          PROVE  out' = out /\ pushed' = Null /\ made'
      BY <3>2, Zenon DEF Reserve
    <3> QED
      BY <1>7, <3>1, <3>2, Zenon
  <2> HIDE DEF A, Goal
  <2> QED
    BY <1>1, <2>1, <2>2, Zenon
<1>8. ASSUME NEW n \in Capacities, Create(n)
      PROVE  Goal
  <2>1. size = 0
    BY <1>8, Zenon DEF Create, UnmadeEmpty
  <2>2. ArrayForm' /\ Contents' = <<>>
    BY <1>8, <2>1, CreateStep
  <2>3. out' = out /\ pushed' = Null /\ made'
    BY <1>8, Zenon DEF Create
  <2> HIDE DEF A, Goal
  <2> QED
    BY <1>1, <1>2, <2>2, <2>3, Zenon
<1>9. ASSUME NEW src \in Sources, PushRange(src) \/ Push(src)
      PROVE  Goal
  <2>1. /\ ArrayForm' /\ out' = out /\ pushed' = src
        /\ \E n \in Nat \ {0} :
             /\ Len(Contents') = size + n
             /\ \A i \in 1 .. size : Contents'[i] = Contents[i]
        /\ \/ Contents' = Contents \o src.cells
           \/ src.own /\ allocator = "heap" /\ data' # data
    BY <1>9, PushStep, Zenon
  <2>2. made'
    <3>1. CASE PushRange(src)
      BY <3>1, Zenon DEF PushRange
    <3>2. CASE Push(src)
      BY <3>2, Zenon DEF Push
    <3> QED
      BY <1>9, <3>1, <3>2, Zenon
  <2>3. A
    BY <2>1, LongerPushes, Zenon
  <2>4. CopiesSource
    BY <2>1, Zenon DEF CopiesSource
  <2> QED
    BY <2>1, <2>2, <2>3, <2>4, Zenon DEF UnmadeEmpty
<1>10. ASSUME NEW i \in 1 .. size, NEW v \in Values, Store(i, v)
       PROVE  Goal
  <2>1. ArrayForm' /\ A
    BY <1>10, StoreStores
  <2>2. pushed' = Null /\ made'
    BY <1>10, Zenon DEF Store
  <2> HIDE DEF A, Goal
  <2> QED
    BY <1>1, <2>1, <2>2, Zenon
<1>11. ASSUME Peek
      PROVE  Goal
  <2>1. ArrayForm' /\ Abstract!Peek
    BY <1>11, PeekStep
  <2>2. pushed' = Null /\ made'
    BY <1>11, Zenon DEF Peek
  <2>3. A
    BY <2>1, Zenon DEF Abstract!Next
  <2> HIDE DEF A, Goal
  <2> QED
    BY <1>1, <2>1, <2>2, <2>3, Zenon
<1> HIDE DEF Goal
<1>12. Goal
  BY <1>3, <1>4, <1>5, <1>6, <1>7, <1>8, <1>9, <1>10, <1>11, Zenon
  DEF StackNext, Next
<1> QED
  BY <1>12, Zenon DEF Goal

LEMMA ArrayStep ==
  ASSUME ArrayForm, UnmadeEmpty, [StackNext]_vars
  PROVE  ArrayForm' /\ UnmadeEmpty' /\ [Abstract!Next]_(Abstract!vars)
<1>1. CASE StackNext
  BY <1>1, ArrayCallRefines, Zenon DEF Abstract!vars
<1>2. CASE UNCHANGED vars
  <2>1. /\ made' = made /\ allocator' = allocator /\ data' = data
        /\ capacity' = capacity /\ size' = size /\ mem' = mem /\ room' = room
        /\ out' = out
    BY <1>2, Zenon DEF vars
  <2>2. ArrayForm'
    BY <2>1, Zenon DEF ArrayForm, Held
  <2>3. Contents' = Contents
    BY <2>1, Zenon DEF Contents, Buffer
  <2> QED
    BY <2>1, <2>2, <2>3, Zenon DEF UnmadeEmpty, Abstract!vars
<1> QED
  BY <1>1, <1>2

LEMMA ArrayStart ==
  ASSUME Init
  PROVE  ArrayForm /\ UnmadeEmpty /\ Abstract!Init
<1>1. /\ allocator \in {"heap", "arena"} /\ data = Null /\ capacity = 0 /\ size = 0
      /\ mem = [b \in {} |-> <<>>] /\ room = ArenaCells /\ out = Null
  BY DEF Init
<1>2. DOMAIN mem = {} /\ AreBlocks(mem)
  BY <1>1, FS_EmptySet DEF AreBlocks
<1>3. Held(data, capacity, mem)
  BY <1>1, <1>2 DEF Held
<1>4. ArrayForm
  BY <1>1, <1>3, ArrayConstants DEF ArrayForm
<1>5. Contents = <<>>
  BY <1>1, <1>4, ContentsForm DEF ContentsRead
<1> QED
  BY <1>1, <1>4, <1>5, Zenon DEF UnmadeEmpty, Abstract!Init

\* The array's inductive invariant.
LEMMA ArrayAlwaysFormed ==
  StackSpec => [](ArrayForm /\ UnmadeEmpty)
<1>1. Init => ArrayForm /\ UnmadeEmpty
  BY ArrayStart
<1>2. ArrayForm /\ UnmadeEmpty /\ [StackNext]_vars
        => (ArrayForm /\ UnmadeEmpty)'
  BY ArrayStep
<1> QED
  BY <1>1, <1>2, PTL DEF StackSpec

\* After any sequence of growing, shrinking, failing and destroying, capacity
\* is what the array's buffer really has, the elements lie in it, and no other
\* heap block is left behind.
THEOREM ArrayBufferOwned ==
  StackSpec => []BufferOwned
<1>1. ArrayForm => BufferOwned
  <2> SUFFICES ASSUME ArrayForm PROVE BufferOwned
    OBVIOUS
  <2>1. /\ size \in Nat /\ capacity \in Nat /\ size <= capacity
        /\ room \in 0 .. ArenaCells
        /\ data = Null <=> capacity = 0
        /\ data # Null => data \in DOMAIN mem /\ capacity = Len(mem[data])
        /\ allocator = "heap" => DOMAIN mem = {data} \ {Null}
    BY DEF ArrayForm, Held
  <2>2. size \in 0 .. capacity
    BY <2>1
  <2> QED
    BY <2>1, <2>2, Zenon DEF BufferOwned
<1> QED
  BY <1>1, ArrayAlwaysFormed, PTL

\* A push appends what its source held when it was called, unless the source
\* lies in the array and realloc moved the array and freed it.
THEOREM ArrayPushCopiesSource ==
  StackSpec => PushCopiesSource
<1>1. ArrayForm /\ UnmadeEmpty /\ [StackNext]_vars
        => [pushed' # Null =>
              \/ Contents' = Contents \o pushed'.cells
              \/ pushed'.own /\ allocator = "heap" /\ data' # data]_vars
  BY ArrayCallRefines, Zenon DEF CopiesSource
<1> QED
  BY <1>1, ArrayAlwaysFormed, PTL DEF StackSpec, PushCopiesSource

\* The array is a sequence that grows and shrinks at its end: every move of
\* the buffer, every failed allocation and every shrink keeps the elements,
\* and Pop and Peek hand out the last one.
THEOREM ArrayImplementsLifo ==
  StackSpec => ImplementsLifo
<1>1. Init => ArrayForm /\ UnmadeEmpty /\ Abstract!Init
  BY ArrayStart
<1>2. ArrayForm /\ UnmadeEmpty /\ [StackNext]_vars
        => ArrayForm' /\ UnmadeEmpty' /\ [Abstract!Next]_(Abstract!vars)
  BY ArrayStep
<1> QED
  BY <1>1, <1>2, PTL DEF StackSpec, ImplementsLifo, Abstract!Spec
=============================================================================
