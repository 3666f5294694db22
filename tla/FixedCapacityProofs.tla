------------------------ MODULE FixedCapacityProofs ------------------------
(***************************************************************************)
(* The structures whose capacity is fixed when they are made.  The object  *)
(* pool's free list, its bitset of taken slots and the bitsets of its      *)
(* callers are exact, for pools and bitsets of every capacity and words of *)
(* every width; the ring buffer is a window on the last elements pushed,   *)
(* for every capacity, every element type and every order of calls.        *)
(***************************************************************************)
EXTENDS PoolAudit, RingBuffer, NumberLemmas, FunctionTheorems,
        FiniteSetTheorems

-----------------------------------------------------------------------------
(* Bits and words *)

\* A bitset of capacity c as justBitsetCreate and the operations leave it.
Bitsets(c) ==
  [capacity : {c}, words : [0 .. WordCount(c) - 1 -> SUBSET AllBits]]

\* The word and the place of a bit, and back.
LEMMA BitPlace ==
  ASSUME NEW i \in Nat
  PROVE  /\ i \div WordBits \in Nat /\ i % WordBits \in AllBits
         /\ i = (i \div WordBits) * WordBits + (i % WordBits)
  BY ObjectPoolAssumption DEF AllBits

LEMMA PlaceOfBit ==
  ASSUME NEW w \in Nat, NEW b \in AllBits
  PROVE  LET i == w * WordBits + b
         IN  i \in Nat /\ i \div WordBits = w /\ i % WordBits = b
<1> DEFINE i == w * WordBits + b
<1>1. WordBits \in Nat /\ WordBits > 0 /\ b \in Nat /\ b < WordBits
  BY ObjectPoolAssumption DEF AllBits
<1>2. i \in Nat
  BY <1>1
<1>3. i = w * WordBits + b
  OBVIOUS
<1> HIDE DEF i
<1>4. i % WordBits = b
  BY <1>1, <1>2, <1>3, Remainder
<1>5. i \div WordBits = w
  BY <1>1, <1>2, <1>3
<1> QED
  BY <1>2, <1>4, <1>5 DEF i

\* Two bits of the same place and word are one.
LEMMA BitsApart ==
  ASSUME NEW i \in Nat, NEW j \in Nat,
         i \div WordBits = j \div WordBits, i % WordBits = j % WordBits
  PROVE  i = j
  BY BitPlace

\* Every bit below the capacity has its word, and the words have no more
\* bits than the last one's tail.
LEMMA WordOfBit ==
  ASSUME NEW c \in Nat, NEW i \in 0 .. c - 1
  PROVE  i \div WordBits \in 0 .. WordCount(c) - 1
<1>1. WordBits \in Nat /\ WordBits > 0 /\ c > 0
  BY ObjectPoolAssumption
<1>2. /\ i \div WordBits \in Nat /\ WordCount(c) \in Nat
      /\ i \div WordBits < WordCount(c)
  BY <1>1 DEF WordCount
<1> QED
  BY <1>2

LEMMA WordCountNat ==
  ASSUME NEW c \in Nat
  PROVE  WordCount(c) \in Nat /\ (c = 0 => WordCount(c) = 0)
  BY ObjectPoolAssumption DEF WordCount

\* A new bitset is empty.
LEMMA NewBitsetEmpty ==
  ASSUME NEW c \in Nat
  PROVE  /\ NewBitset(c) \in Bitsets(c)
         /\ Members(NewBitset(c)) = {}
<1>1. NewBitset(c) \in Bitsets(c)
  BY DEF NewBitset, Bitsets
<1>2. ASSUME NEW i \in 0 .. c - 1 PROVE ~BitGet(NewBitset(c), i)
  BY WordOfBit DEF NewBitset, BitGet
<1>3. NewBitset(c).capacity = c
  BY DEF NewBitset
<1> QED
  BY <1>1, <1>2, <1>3 DEF Members

\* What an operation that rewrites the words leaves: the bit at every index.
LEMMA BitsetFields ==
  ASSUME NEW c \in Nat, NEW s \in Bitsets(c)
  PROVE  /\ s.capacity = c
         /\ DOMAIN s.words = 0 .. WordCount(c) - 1
         /\ s.words \in [0 .. WordCount(c) - 1 -> SUBSET AllBits]
         /\ s = [capacity |-> c, words |-> s.words]
         /\ \A i \in 0 .. c - 1 : i \in Members(s) <=> BitGet(s, i)
         /\ Members(s) \subseteq 0 .. c - 1
  BY DEF Bitsets, Members

\* One word is written.
LEMMA WordWritten ==
  ASSUME NEW c \in Nat, NEW s \in Bitsets(c), NEW i \in 0 .. c - 1,
         NEW new \in SUBSET AllBits
  PROVE  LET t == [s EXCEPT !.words[i \div WordBits] = new]
         IN  /\ t \in Bitsets(c)
             /\ \A j \in 0 .. c - 1 :
                  BitGet(t, j) <=>
                    IF j \div WordBits = i \div WordBits
                      THEN j % WordBits \in new ELSE BitGet(s, j)
<1> DEFINE w == i \div WordBits
           t == [s EXCEPT !.words[w] = new]
           f == [s.words EXCEPT ![w] = new]
<1>1. w \in 0 .. WordCount(c) - 1
  BY WordOfBit
<1>2. /\ s.words \in [0 .. WordCount(c) - 1 -> SUBSET AllBits]
      /\ s = [capacity |-> c, words |-> s.words]
  BY BitsetFields
<1>3. t = [capacity |-> c, words |-> f]
  BY <1>2
<1>4. f \in [0 .. WordCount(c) - 1 -> SUBSET AllBits]
  BY <1>1, <1>2
<1>5. ASSUME NEW j \in 0 .. c - 1
      PROVE  BitGet(t, j) <=> IF j \div WordBits = w THEN j % WordBits \in new
                                                     ELSE BitGet(s, j)
  <2>1. j \div WordBits \in 0 .. WordCount(c) - 1
    BY WordOfBit
  <2>2. BitGet(t, j) <=> j % WordBits \in f[j \div WordBits]
    BY <1>3 DEF BitGet
  <2>3. f[j \div WordBits] = IF j \div WordBits = w THEN new
                                                    ELSE s.words[j \div WordBits]
    BY <1>1, <1>2, <2>1
  <2> QED
    BY <2>2, <2>3 DEF BitGet
<1>6. t \in Bitsets(c)
  BY <1>3, <1>4 DEF Bitsets
<1> QED
  BY <1>5, <1>6

\* Members of a bitset, given bit by bit.
LEMMA MembersAre ==
  ASSUME NEW c \in Nat, NEW t \in Bitsets(c), NEW X \in SUBSET (0 .. c - 1),
         \A j \in 0 .. c - 1 : BitGet(t, j) <=> j \in X
  PROVE  Members(t) = X
<1>1. t.capacity = c
  BY BitsetFields
<1> QED
  BY <1>1 DEF Members

\* justBitsetSet, Clear and Toggle change one bit.
LEMMA BitSetMembers ==
  ASSUME NEW c \in Nat, NEW s \in Bitsets(c), NEW i \in 0 .. c - 1
  PROVE  /\ BitSet(s, i) \in Bitsets(c)
         /\ Members(BitSet(s, i)) = Members(s) \cup {i}
<1> DEFINE w == i \div WordBits
           new == s.words[w] \cup {i % WordBits}
           t == [s EXCEPT !.words[w] = new]
<1>1. new \in SUBSET AllBits
  <2>1. i \in Nat /\ w \in 0 .. WordCount(c) - 1
    BY WordOfBit
  <2>2. s.words[w] \in SUBSET AllBits
    <3>1. s.words \in [0 .. WordCount(c) - 1 -> SUBSET AllBits]
      BY BitsetFields
    <3> HIDE DEF w
    <3> QED
      BY <2>1, <3>1
  <2>3. i % WordBits \in AllBits
    BY <2>1, BitPlace
  <2> QED
    BY <2>2, <2>3
<1>2. t \in Bitsets(c)
  <2> HIDE DEF new
  <2> QED
    BY <1>1, WordWritten
<1>3. ASSUME NEW j \in 0 .. c - 1
      PROVE  BitGet(t, j) <=> j \in Members(s) \cup {i}
  <2>1. BitGet(t, j) <=> IF j \div WordBits = w THEN j % WordBits \in new
                                                 ELSE BitGet(s, j)
    <3> HIDE DEF new
    <3> QED
      BY <1>1, WordWritten
  <2>2. BitGet(s, j) <=> j \in Members(s)
    BY BitsetFields
  <2>3. j \div WordBits = w /\ j % WordBits = i % WordBits => j = i
    BY BitsApart
  <2> QED
    BY <2>1, <2>2, <2>3 DEF BitGet
<1>4. Members(s) \cup {i} \in SUBSET (0 .. c - 1)
  BY BitsetFields
<1>5. BitSet(s, i) = t
  BY DEF BitSet
<1> HIDE DEF t
<1> QED
  BY <1>2, <1>3, <1>4, <1>5, MembersAre

LEMMA BitClearMembers ==
  ASSUME NEW c \in Nat, NEW s \in Bitsets(c), NEW i \in 0 .. c - 1
  PROVE  /\ BitClear(s, i) \in Bitsets(c)
         /\ Members(BitClear(s, i)) = Members(s) \ {i}
<1> DEFINE w == i \div WordBits
           new == s.words[w] \ {i % WordBits}
           t == [s EXCEPT !.words[w] = new]
<1>1. new \in SUBSET AllBits
  <2>1. i \in Nat /\ w \in 0 .. WordCount(c) - 1
    BY WordOfBit
  <2>2. s.words[w] \in SUBSET AllBits
    <3>1. s.words \in [0 .. WordCount(c) - 1 -> SUBSET AllBits]
      BY BitsetFields
    <3> HIDE DEF w
    <3> QED
      BY <2>1, <3>1
  <2>3. i % WordBits \in AllBits
    BY <2>1, BitPlace
  <2> QED
    BY <2>2, <2>3
<1>2. t \in Bitsets(c)
  <2> HIDE DEF new
  <2> QED
    BY <1>1, WordWritten
<1>3. ASSUME NEW j \in 0 .. c - 1
      PROVE  BitGet(t, j) <=> j \in Members(s) \ {i}
  <2>1. BitGet(t, j) <=> IF j \div WordBits = w THEN j % WordBits \in new
                                                 ELSE BitGet(s, j)
    <3> HIDE DEF new
    <3> QED
      BY <1>1, WordWritten
  <2>2. BitGet(s, j) <=> j \in Members(s)
    BY BitsetFields
  <2>3. j \div WordBits = w /\ j % WordBits = i % WordBits => j = i
    BY BitsApart
  <2> QED
    BY <2>1, <2>2, <2>3 DEF BitGet
<1>4. Members(s) \ {i} \in SUBSET (0 .. c - 1)
  BY BitsetFields
<1>5. BitClear(s, i) = t
  BY DEF BitClear
<1> HIDE DEF t
<1> QED
  BY <1>2, <1>3, <1>4, <1>5, MembersAre

LEMMA BitToggleMembers ==
  ASSUME NEW c \in Nat, NEW s \in Bitsets(c), NEW i \in 0 .. c - 1
  PROVE  /\ BitToggle(s, i) \in Bitsets(c)
         /\ Members(BitToggle(s, i)) = (Members(s) \ {i}) \cup ({i} \ Members(s))
<1>1. BitGet(s, i) <=> i \in Members(s)
  BY BitsetFields
<1>2. CASE i % WordBits \in s.words[i \div WordBits]
  <2>1. BitToggle(s, i) = BitClear(s, i)
    BY <1>2 DEF BitToggle, BitClear
  <2>2. i \in Members(s)
    BY <1>1, <1>2 DEF BitGet
  <2> QED
    BY <2>1, <2>2, BitClearMembers
<1>3. CASE i % WordBits \notin s.words[i \div WordBits]
  <2>1. BitToggle(s, i) = BitSet(s, i)
    BY <1>3 DEF BitToggle, BitSet
  <2>2. i \notin Members(s)
    BY <1>1, <1>3 DEF BitGet
  <2> QED
    BY <2>1, <2>2, BitSetMembers
<1> QED
  BY <1>2, <1>3

LEMMA WordsReplaced ==
  ASSUME NEW c \in Nat, NEW s \in Bitsets(c), NEW f
  PROVE  [s EXCEPT !.words = f] = [capacity |-> c, words |-> f]
<1>1. s = [capacity |-> c, words |-> s.words]
  BY BitsetFields
<1> QED
  BY <1>1

\* justBitsetUnion, Intersection and Difference are exact on the indices both
\* sets have, whatever is in the tails.
LEMMA UnionBits ==
  ASSUME NEW c \in Nat, NEW d \in Nat, NEW dst \in Bitsets(c), NEW src \in Bitsets(d)
  PROVE  /\ Union(dst, src) \in Bitsets(c)
         /\ \A i \in 0 .. c - 1 : i < d =>
              (BitGet(Union(dst, src), i) <=> BitGet(dst, i) \/ BitGet(src, i))
<1> DEFINE f == [i \in Words(dst) |->
                   IF i \in Common(dst, src) THEN dst.words[i] \cup src.words[i]
                                             ELSE dst.words[i]]
<1>1. Union(dst, src) = [capacity |-> c, words |-> f]
  <2>1. Union(dst, src) = [dst EXCEPT !.words = f]
    BY DEF Union
  <2> HIDE DEF f
  <2> QED
    BY <2>1, WordsReplaced
<1>2. /\ Words(dst) = 0 .. WordCount(c) - 1 /\ Words(src) = 0 .. WordCount(d) - 1
      /\ dst.words \in [0 .. WordCount(c) - 1 -> SUBSET AllBits]
      /\ src.words \in [0 .. WordCount(d) - 1 -> SUBSET AllBits]
  BY BitsetFields DEF Words
<1>3. f \in [0 .. WordCount(c) - 1 -> SUBSET AllBits]
  BY <1>2 DEF Common
<1>4. ASSUME NEW i \in 0 .. c - 1, i < d
      PROVE  BitGet(Union(dst, src), i) <=> BitGet(dst, i) \/ BitGet(src, i)
  <2>1. i \in 0 .. d - 1
    BY <1>4
  <2>2. /\ i \div WordBits \in Words(dst)
        /\ i \div WordBits \in Common(dst, src)
    BY <1>2, <2>1, WordOfBit, SMTT(60) DEF Common
  <2>3. f[i \div WordBits] = dst.words[i \div WordBits] \cup src.words[i \div WordBits]
    BY <2>2
  <2> QED
    BY <1>1, <2>3 DEF BitGet
<1> QED
  BY <1>1, <1>3, <1>4 DEF Bitsets

LEMMA IntersectionBits ==
  ASSUME NEW c \in Nat, NEW d \in Nat, NEW dst \in Bitsets(c), NEW src \in Bitsets(d)
  PROVE  /\ Intersection(dst, src) \in Bitsets(c)
         /\ \A i \in 0 .. c - 1 : i < d =>
              (BitGet(Intersection(dst, src), i) <=> BitGet(dst, i) /\ BitGet(src, i))
<1> DEFINE f == [i \in Words(dst) |->
                   IF i \in Common(dst, src) THEN dst.words[i] \cap src.words[i]
                                             ELSE dst.words[i]]
<1>1. Intersection(dst, src) = [capacity |-> c, words |-> f]
  <2>1. Intersection(dst, src) = [dst EXCEPT !.words = f]
    BY DEF Intersection
  <2> HIDE DEF f
  <2> QED
    BY <2>1, WordsReplaced
<1>2. /\ Words(dst) = 0 .. WordCount(c) - 1 /\ Words(src) = 0 .. WordCount(d) - 1
      /\ dst.words \in [0 .. WordCount(c) - 1 -> SUBSET AllBits]
      /\ src.words \in [0 .. WordCount(d) - 1 -> SUBSET AllBits]
  BY BitsetFields DEF Words
<1>3. f \in [0 .. WordCount(c) - 1 -> SUBSET AllBits]
  BY <1>2 DEF Common
<1>4. ASSUME NEW i \in 0 .. c - 1, i < d
      PROVE  BitGet(Intersection(dst, src), i) <=> BitGet(dst, i) /\ BitGet(src, i)
  <2>1. i \in 0 .. d - 1
    BY <1>4
  <2>2. /\ i \div WordBits \in Words(dst)
        /\ i \div WordBits \in Common(dst, src)
    BY <1>2, <2>1, WordOfBit DEF Common
  <2>3. f[i \div WordBits] = dst.words[i \div WordBits] \cap src.words[i \div WordBits]
    BY <2>2
  <2> QED
    BY <1>1, <2>3 DEF BitGet
<1> QED
  BY <1>1, <1>3, <1>4 DEF Bitsets

LEMMA DifferenceBits ==
  ASSUME NEW c \in Nat, NEW d \in Nat, NEW dst \in Bitsets(c), NEW src \in Bitsets(d)
  PROVE  /\ Difference(dst, src) \in Bitsets(c)
         /\ \A i \in 0 .. c - 1 : i < d =>
              (BitGet(Difference(dst, src), i) <=> BitGet(dst, i) /\ ~BitGet(src, i))
<1> DEFINE f == [i \in Words(dst) |->
                   IF i \in Common(dst, src) THEN dst.words[i] \ src.words[i]
                                             ELSE dst.words[i]]
<1>1. Difference(dst, src) = [capacity |-> c, words |-> f]
  <2>1. Difference(dst, src) = [dst EXCEPT !.words = f]
    BY DEF Difference
  <2> HIDE DEF f
  <2> QED
    BY <2>1, WordsReplaced
<1>2. /\ Words(dst) = 0 .. WordCount(c) - 1 /\ Words(src) = 0 .. WordCount(d) - 1
      /\ dst.words \in [0 .. WordCount(c) - 1 -> SUBSET AllBits]
      /\ src.words \in [0 .. WordCount(d) - 1 -> SUBSET AllBits]
  BY BitsetFields DEF Words
<1>3. f \in [0 .. WordCount(c) - 1 -> SUBSET AllBits]
  BY <1>2 DEF Common
<1>4. ASSUME NEW i \in 0 .. c - 1, i < d
      PROVE  BitGet(Difference(dst, src), i) <=> BitGet(dst, i) /\ ~BitGet(src, i)
  <2>1. i \in 0 .. d - 1
    BY <1>4
  <2>2. /\ i \div WordBits \in Words(dst)
        /\ i \div WordBits \in Common(dst, src)
    BY <1>2, <2>1, WordOfBit DEF Common
  <2>3. f[i \div WordBits] = dst.words[i \div WordBits] \ src.words[i \div WordBits]
    BY <2>2
  <2> QED
    BY <1>1, <2>3, SMTT(60) DEF BitGet
<1> QED
  BY <1>1, <1>3, <1>4 DEF Bitsets

\* The bits of a word that justBitsetSetAll fills and justBitsetEquals compares
\* are those below the capacity.
Mask(c, w) == IF w = WordCount(c) - 1 THEN TailMask(c) ELSE AllBits

LEMMA MaskIsVisible ==
  ASSUME NEW c \in Nat, NEW w \in 0 .. WordCount(c) - 1, NEW b \in AllBits
  PROVE  b \in Mask(c, w) <=> w * WordBits + b < c
<1>1. WordBits \in Nat /\ WordBits > 0 /\ b \in Nat /\ b < WordBits /\ w \in Nat
  BY ObjectPoolAssumption DEF AllBits
<1> DEFINE q == c \div WordBits
           r == c % WordBits
<1>2. q \in Nat /\ r \in Nat /\ r < WordBits /\ c = q * WordBits + r
  BY <1>1
<1> HIDE DEF q
<1>3. CASE r = 0
  <2> DEFINE n == c + WordBits - 1
             m == WordBits - 1
  <2>1. n \in Nat /\ m \in Nat /\ m < WordBits /\ n = q * WordBits + m
    BY <1>1, <1>2, <1>3
  <2> HIDE DEF n, m
  <2>2. n \div WordBits = q
    BY <1>1, <1>2, <2>1
  <2>3. WordCount(c) = q
    BY <2>2 DEF WordCount, n
  <2>4. Mask(c, w) = AllBits
    BY <1>3 DEF Mask, TailMask
  <2>5. w + 1 <= q
    BY <1>1, <1>2, <2>3
  <2>6. (w + 1) * WordBits <= q * WordBits
    BY <1>1, <1>2, <2>5
  <2>7. w * WordBits + b < c
    BY <1>1, <1>2, <1>3, <2>6
  <2> QED
    BY <2>4, <2>7
<1>4. CASE r # 0
  <2> DEFINE n == c + WordBits - 1
             m == r - 1
             p == q + 1
  <2>1. n \in Nat /\ m \in Nat /\ m < WordBits /\ p \in Nat /\ n = p * WordBits + m
    BY <1>1, <1>2, <1>4
  <2> HIDE DEF n, m, p
  <2>2. n \div WordBits = p
    BY <1>1, <2>1
  <2>3. WordCount(c) = q + 1
    BY <2>2 DEF WordCount, n, p
  <2>4. CASE w = q
    <3>1. Mask(c, w) = 0 .. r - 1
      BY <1>2, <1>4, <2>3, <2>4 DEF Mask, TailMask
    <3> QED
      BY <1>1, <1>2, <2>4, <3>1
  <2>5. CASE w # q
    <3>1. w + 1 <= q /\ w # WordCount(c) - 1
      BY <1>1, <1>2, <2>3, <2>5
    <3>2. (w + 1) * WordBits <= q * WordBits
      BY <1>1, <1>2, <3>1
    <3>3. w * WordBits + b < c
      BY <1>1, <1>2, <3>2
    <3> QED
      BY <3>1, <3>3 DEF Mask
  <2> QED
    BY <2>4, <2>5
<1> QED
  BY <1>3, <1>4

LEMMA MaskInWord ==
  ASSUME NEW c \in Nat, NEW w
  PROVE  Mask(c, w) \in SUBSET AllBits
<1>1. WordBits \in Nat /\ WordBits > 0
  BY ObjectPoolAssumption
<1>2. TailMask(c) \in SUBSET AllBits
  BY <1>1, RemainderBound DEF TailMask, AllBits
<1> QED
  BY <1>2 DEF Mask

LEMMA VisibleBit ==
  ASSUME NEW c \in Nat, NEW i \in 0 .. c - 1
  PROVE  /\ i \div WordBits \in 0 .. WordCount(c) - 1
         /\ i % WordBits \in Mask(c, i \div WordBits)
<1> DEFINE w == i \div WordBits
           b == i % WordBits
<1>1. /\ i \in Nat /\ i < c /\ w \in 0 .. WordCount(c) - 1
      /\ b \in AllBits /\ i = w * WordBits + b
  BY BitPlace, WordOfBit
<1> HIDE DEF w, b
<1>2. b \in Mask(c, w)
  BY <1>1, MaskIsVisible
<1> QED
  BY <1>1, <1>2 DEF w, b

LEMMA SetAllMembers ==
  ASSUME NEW c \in Nat, NEW s \in Bitsets(c)
  PROVE  /\ SetAll(s) \in Bitsets(c)
         /\ Members(SetAll(s)) = 0 .. c - 1
<1> DEFINE f == [w \in 0 .. WordCount(c) - 1 |-> Mask(c, w)]
           t == [capacity |-> c, words |-> f]
<1>1. SetAll(s) = t
  <2>1. Words(s) = 0 .. WordCount(c) - 1 /\ s.capacity = c
    BY BitsetFields DEF Words
  <2>2. SetAll(s) = [s EXCEPT !.words = f]
    BY <2>1 DEF SetAll, Mask
  <2> HIDE DEF f
  <2> QED
    BY <2>2, WordsReplaced
<1>2. t \in Bitsets(c)
  BY MaskInWord DEF Bitsets
<1>3. ASSUME NEW i \in 0 .. c - 1 PROVE BitGet(t, i) <=> i \in 0 .. c - 1
  BY VisibleBit DEF BitGet
<1> HIDE DEF t
<1> QED
  BY <1>1, <1>2, <1>3, MembersAre

\* justBitsetEquals is equality of what a caller can see.
LEMMA EqualsExact ==
  ASSUME NEW c \in Nat, NEW d \in Nat, NEW a \in Bitsets(c), NEW e \in Bitsets(d)
  PROVE  Equals(a, e) <=> a.capacity = e.capacity /\ Members(a) = Members(e)
<1>1. a.capacity = c /\ e.capacity = d
  BY BitsetFields
<1>2. CASE c # d
  BY <1>1, <1>2 DEF Equals
<1>3. CASE c = d
  <2>1. /\ Words(a) = 0 .. WordCount(c) - 1
        /\ a.words \in [0 .. WordCount(c) - 1 -> SUBSET AllBits]
        /\ e.words \in [0 .. WordCount(c) - 1 -> SUBSET AllBits]
    BY <1>3, BitsetFields DEF Words
  <2>2. Equals(a, e) <=> \A w \in 0 .. WordCount(c) - 1 :
                           a.words[w] \cap Mask(c, w) = e.words[w] \cap Mask(c, w)
    BY <1>1, <1>3, <2>1 DEF Equals, Mask
  <2>3. ASSUME Equals(a, e) PROVE Members(a) = Members(e)
    <3>1. ASSUME NEW i \in 0 .. c - 1 PROVE BitGet(a, i) <=> BitGet(e, i)
      <4> DEFINE w == i \div WordBits
                 k == i % WordBits
      <4>1. w \in 0 .. WordCount(c) - 1 /\ k \in Mask(c, w)
        BY VisibleBit
      <4> HIDE DEF w, k
      <4>2. k \in a.words[w] <=> k \in e.words[w]
        BY <2>2, <2>3, <4>1
      <4> QED
        BY <4>2 DEF BitGet, w, k
    <3> QED
      BY <1>1, <1>3, <3>1 DEF Members
  <2>4. ASSUME Members(a) = Members(e) PROVE Equals(a, e)
    <3>1. ASSUME NEW w \in 0 .. WordCount(c) - 1, NEW k \in Mask(c, w)
          PROVE  k \in a.words[w] <=> k \in e.words[w]
      <4> DEFINE i == w * WordBits + k
      <4>1. w \in Nat /\ k \in AllBits
        BY MaskInWord, WordCountNat
      <4>2. i \in Nat /\ i \div WordBits = w /\ i % WordBits = k /\ i < c
        BY <4>1, PlaceOfBit, MaskIsVisible
      <4> HIDE DEF i
      <4>3. i \in 0 .. c - 1
        BY <4>2
      <4>4. BitGet(a, i) <=> BitGet(e, i)
        BY <1>3, <2>4, <4>3, BitsetFields
      <4> QED
        BY <4>2, <4>4 DEF BitGet
    <3>2. ASSUME NEW w \in 0 .. WordCount(c) - 1
          PROVE  a.words[w] \cap Mask(c, w) = e.words[w] \cap Mask(c, w)
      BY <3>1
    <3> QED
      BY <2>2, <3>2
  <2> QED
    BY <1>1, <1>3, <2>3, <2>4
<1> QED
  BY <1>2, <1>3

-----------------------------------------------------------------------------
(* The free list *)

\* f lists the free slots in the order of the list, and End behind them.
Chained(f) ==
  /\ f[0] = freeListOffset /\ f[freeCount] = End
  /\ \A i \in 0 .. freeCount - 1 : f[i] \in Slots \ taken /\ f[i + 1] = link[f[i]]
  /\ \A i, j \in 0 .. freeCount - 1 : f[i] = f[j] => i = j
  /\ \A s \in Slots \ taken : \E i \in 0 .. freeCount - 1 : f[i] = s

Lists == [0 .. freeCount -> Slots \cup {End}]

PoolTypes ==
  /\ freeCount \in Nat /\ freeListOffset \in Slots \cup {End}
  /\ link \in [Slots -> Slots \cup {End}]
  /\ taken \in SUBSET Slots

\* The inductive invariant: as long as no assertion has stopped the program,
\* there is such a list, and the debug build's bits are the taken slots.
PoolInv ==
  /\ PoolTypes
  /\ ~made => taken = {}
  /\ Ready => \E f \in Lists : Chained(f)
  /\ debug /\ Ready => /\ allocatedBits \in Bitsets(Capacity)
                       /\ Members(allocatedBits) = taken

LEMMA PoolInvInit == Init => PoolInv
<1> SUFFICES ASSUME Init PROVE PoolInv
  OBVIOUS
<1>1. ~Ready /\ taken = {}
  BY DEF Init, Ready
<1>2. PoolTypes
  BY DEF Init, PoolTypes
<1> QED
  BY <1>1, <1>2 DEF PoolInv

LEMMA PoolInvCreate ==
  ASSUME PoolInv, Create
  PROVE  PoolInv'
<1>1. Capacity \in Nat /\ Capacity > 0 /\ End \notin Slots
  BY ObjectPoolAssumption
<1>2. taken = {} /\ taken' = {}
  BY DEF PoolInv, Create
<1>3. /\ freeListOffset' = 0 /\ freeCount' = Capacity
      /\ link' = [s \in Slots |-> IF s < Capacity - 1 THEN s + 1 ELSE End]
  BY DEF Create
<1>4. PoolTypes'
  BY <1>1, <1>2, <1>3 DEF PoolTypes, Slots
<1> DEFINE f == [i \in 0 .. Capacity |-> IF i < Capacity THEN i ELSE End]
<1>5. f \in Lists'
  BY <1>1, <1>3 DEF Lists, Slots
<1>6. Chained(f)'
  <2>1. f[0] = 0 /\ f[Capacity] = End
    BY <1>1
  <2>2. ASSUME NEW i \in 0 .. Capacity - 1
        PROVE  f[i] = i /\ f[i] \in Slots /\ f[i + 1] = link'[f[i]]
    <3>1. f[i] = i /\ i \in Slots
      BY <1>1 DEF Slots
    <3>2. f[i + 1] = IF i < Capacity - 1 THEN i + 1 ELSE End
      BY <1>1
    <3> QED
      BY <1>3, <3>1, <3>2
  <2> HIDE DEF f
  <2> QED
    BY <1>2, <1>3, <2>1, <2>2 DEF Chained, Slots
<1>7. debug' => allocatedBits' = NewBitset(Capacity)
  BY DEF Create, Bits
<1>8. debug' => /\ allocatedBits' \in Bitsets(Capacity)
                /\ Members(allocatedBits') = taken'
  BY <1>1, <1>2, <1>7, NewBitsetEmpty
<1>9. Members(allocatedBits)' = Members(allocatedBits')
  BY DEF Members, BitGet
<1>10. made'
  BY DEF Create
<1> HIDE DEF f
<1> QED
  BY <1>4, <1>5, <1>6, <1>8, <1>9, <1>10 DEF PoolInv

LEMMA PoolInvDestroy ==
  ASSUME PoolInv, Destroy
  PROVE  PoolInv'
<1>1. ~made' /\ taken' = {}
  BY DEF Destroy
<1>2. PoolTypes'
  BY DEF PoolInv, PoolTypes, Destroy
<1> QED
  BY <1>1, <1>2 DEF PoolInv, Ready

\* The head of the list leaves it; the debug build's assertion holds.
LEMMA PoolInvTake ==
  ASSUME PoolInv, TakeObject
  PROVE  PoolInv'
<1> DEFINE h == freeListOffset
<1>1. PICK f \in Lists : Chained(f)
  BY DEF PoolInv, TakeObject
<1>2. Ready /\ h # End /\ PoolTypes
  BY DEF PoolInv, TakeObject
<1>3. freeCount \in Nat /\ freeCount > 0 /\ freeCount - 1 \in Nat
  <2>1. freeCount # 0
    BY <1>1, <1>2 DEF Chained
  <2> QED
    BY <1>2, <2>1 DEF PoolTypes
<1>4. h = f[0] /\ h \in Slots /\ h \notin taken
  BY <1>1, <1>3 DEF Chained
<1>5. /\ freeListOffset' = link[h] /\ freeCount' = freeCount - 1
      /\ taken' = taken \cup {h} /\ link' = link /\ made' = made /\ made
  BY DEF TakeObject, Ready
<1>6. PoolTypes'
  BY <1>2, <1>3, <1>4, <1>5 DEF PoolTypes
<1>7. PICK g \in [0 .. freeCount - 1 -> Slots \cup {End}] :
        \A i \in 0 .. freeCount - 1 : g[i] = f[i + 1]
  <2> DEFINE e == [i \in 0 .. freeCount - 1 |-> f[i + 1]]
  <2>1. e \in [0 .. freeCount - 1 -> Slots \cup {End}]
    BY <1>3 DEF Lists
  <2>2. \A i \in 0 .. freeCount - 1 : e[i] = f[i + 1]
    OBVIOUS
  <2> HIDE DEF e
  <2> QED
    BY <2>1, <2>2
<1>8. Chained(g)'
  <2>1. /\ g[0] = f[1] /\ f[1] = link[h]
        /\ g[freeCount - 1] = f[freeCount] /\ f[freeCount] = End
    BY <1>1, <1>3, <1>4, <1>7 DEF Chained
  <2>2. ASSUME NEW i \in 0 .. (freeCount - 1) - 1
        PROVE  g[i] \in Slots \ taken' /\ g[i + 1] = link[g[i]]
    <3>1. /\ g[i] = f[i + 1] /\ g[i + 1] = f[(i + 1) + 1]
          /\ i + 1 \in 0 .. freeCount - 1 /\ i + 1 # 0 /\ 0 \in 0 .. freeCount - 1
      BY <1>3, <1>7
    <3>2. /\ f[i + 1] \in Slots \ taken /\ f[(i + 1) + 1] = link[f[i + 1]]
          /\ f[i + 1] # f[0]
      BY <1>1, <3>1 DEF Chained
    <3> QED
      BY <1>4, <1>5, <3>1, <3>2
  <2>3. ASSUME NEW i \in 0 .. (freeCount - 1) - 1, NEW j \in 0 .. (freeCount - 1) - 1,
               g[i] = g[j]
        PROVE  i = j
    <3>1. /\ g[i] = f[i + 1] /\ g[j] = f[j + 1]
          /\ i + 1 \in 0 .. freeCount - 1 /\ j + 1 \in 0 .. freeCount - 1
      BY <1>3, <1>7
    <3>2. i + 1 = j + 1
      BY <1>1, <2>3, <3>1 DEF Chained
    <3> QED
      BY <3>2
  <2>4. ASSUME NEW s \in Slots \ taken'
        PROVE  \E i \in 0 .. (freeCount - 1) - 1 : g[i] = s
    <3>1. s \in Slots \ taken /\ s # h
      BY <1>5
    <3>2. PICK k \in 0 .. freeCount - 1 : f[k] = s
      BY <1>1, <3>1 DEF Chained
    <3>3. k # 0
      BY <1>4, <3>1, <3>2
    <3>4. k - 1 \in 0 .. (freeCount - 1) - 1 /\ g[k - 1] = f[k]
      BY <1>3, <1>7, <3>3
    <3> QED
      BY <3>2, <3>4
  <2> QED
    BY <1>5, <2>1, <2>2, <2>3, <2>4 DEF Chained
<1>9. ASSUME debug
      PROVE  /\ ~BitGet(allocatedBits, h)
             /\ allocatedBits' \in Bitsets(Capacity)
             /\ Members(allocatedBits') = taken'
  <2>1. allocatedBits \in Bitsets(Capacity) /\ Members(allocatedBits) = taken
    BY <1>2, <1>9 DEF PoolInv
  <2>2. Capacity \in Nat /\ h \in 0 .. Capacity - 1
    BY <1>4, ObjectPoolAssumption DEF Slots
  <2>3. allocatedBits' = BitSet(allocatedBits, h)
    BY <1>9 DEF TakeObject, Bits
  <2> HIDE DEF h
  <2> QED
    BY <1>4, <1>5, <2>1, <2>2, <2>3, BitsetFields, BitSetMembers
<1>10. debug' = debug
  BY DEF TakeObject
<1>11. Members(allocatedBits)' = Members(allocatedBits')
  BY DEF Members, BitGet
<1>12. g \in Lists'
  BY <1>5, <1>7 DEF Lists
<1> QED
  BY <1>5, <1>6, <1>8, <1>9, <1>10, <1>11, <1>12 DEF PoolInv

\* A slot that its holder writes to is not in the list.
LEMMA PoolInvWrite ==
  ASSUME PoolInv, NEW s \in Slots, NEW w \in Slots \cup {End}, Write(s, w)
  PROVE  PoolInv'
<1>1. PICK f \in Lists : Chained(f)
  BY DEF PoolInv, Write
<1>2. /\ link' = [link EXCEPT ![s] = w] /\ s \in taken /\ Ready
      /\ freeListOffset' = freeListOffset /\ freeCount' = freeCount
      /\ taken' = taken /\ allocatedBits' = allocatedBits
  BY DEF Write
<1>3. PoolTypes /\ PoolTypes'
  BY <1>2 DEF PoolInv, PoolTypes
<1>4. ASSUME NEW i \in 0 .. freeCount - 1 PROVE link'[f[i]] = link[f[i]]
  <2>1. f[i] \in Slots /\ f[i] # s
    BY <1>1, <1>2 DEF Chained
  <2> QED
    BY <1>2, <1>3, <2>1 DEF PoolTypes
<1>5. Chained(f)'
  BY <1>1, <1>2, <1>4 DEF Chained
<1>6. Lists' = Lists
  BY <1>2 DEF Lists
<1>7. Members(allocatedBits)' = Members(allocatedBits)
  BY <1>2 DEF Members, BitGet
<1>8. debug' = debug /\ made' = made /\ trapped' = trapped
  BY DEF Write
<1> QED
  BY <1>2, <1>3, <1>5, <1>6, <1>7, <1>8 DEF PoolInv, Ready

\* A slot that comes back is held, and becomes the head of the list; the debug
\* build stops the program at any other.
LEMMA PoolInvReturn ==
  ASSUME PoolInv, NEW s \in Slots, ReturnObject(s)
  PROVE  PoolInv'
<1>1. PICK f \in Lists : Chained(f)
  BY DEF PoolInv, ReturnObject
<1>2. PoolTypes /\ Ready /\ debug' = debug /\ made' = made /\ made
  BY DEF PoolInv, ReturnObject, Ready
<1>3. CASE ~MayReturn(s)
  <2>1. trapped' /\ ~Ready'
    BY <1>3 DEF ReturnObject, Ready
  <2>2. PoolTypes'
    BY <1>2, <1>3 DEF ReturnObject, PoolTypes
  <2> QED
    BY <1>2, <2>1, <2>2 DEF PoolInv
<1>4. CASE MayReturn(s)
  <2>1. s \in taken
    <3>1. CASE debug
      <4>1. allocatedBits \in Bitsets(Capacity) /\ Members(allocatedBits) = taken
        BY <1>2, <3>1 DEF PoolInv
      <4>2. BitGet(allocatedBits, s)
        BY <1>4, <3>1 DEF MayReturn
      <4>3. Capacity \in Nat /\ s \in 0 .. Capacity - 1
        BY ObjectPoolAssumption DEF Slots
      <4> QED
        BY <4>1, <4>2, <4>3, BitsetFields
    <3>2. CASE ~debug
      BY <3>2 DEF ReturnObject
    <3> QED
      BY <3>1, <3>2
  <2>2. /\ link' = [link EXCEPT ![s] = freeListOffset] /\ freeListOffset' = s
        /\ freeCount' = freeCount + 1 /\ taken' = taken \ {s}
    BY <1>4 DEF ReturnObject, Pushed
  <2>3. freeCount \in Nat
    BY <1>2 DEF PoolTypes
  <2>4. PoolTypes'
    BY <1>2, <2>2, <2>3 DEF PoolTypes
  <2>5. PICK g \in [0 .. freeCount + 1 -> Slots \cup {End}] :
          g[0] = s /\ \A i \in 0 .. freeCount : g[i + 1] = f[i]
    <3> DEFINE e == [i \in 0 .. freeCount + 1 |-> IF i = 0 THEN s ELSE f[i - 1]]
    <3>1. e \in [0 .. freeCount + 1 -> Slots \cup {End}]
      BY <2>3 DEF Lists
    <3>2. e[0] = s /\ \A i \in 0 .. freeCount : e[i + 1] = f[i]
      BY <2>3
    <3> HIDE DEF e
    <3> QED
      BY <3>1, <3>2
  <2>6. Chained(g)'
    <3>1. /\ \A i \in 0 .. freeCount - 1 :
               /\ f[i] \in Slots /\ f[i] \notin taken /\ f[i] # s
               /\ f[i + 1] = link[f[i]] /\ link'[f[i]] = link[f[i]]
          /\ link'[s] = freeListOffset
      BY <1>1, <1>2, <2>1, <2>2 DEF Chained, PoolTypes
    <3>2. g[0] = s /\ g[freeCount + 1] = End
      BY <1>1, <2>3, <2>5 DEF Chained
    <3>3. ASSUME NEW i \in 0 .. (freeCount + 1) - 1
          PROVE  g[i] \in Slots \ taken' /\ g[i + 1] = link'[g[i]]
      <4>1. CASE i = 0
        <5>1. g[1] = f[0] /\ f[0] = freeListOffset
          BY <1>1, <2>3, <2>5, <4>1 DEF Chained
        <5> QED
          BY <2>2, <3>1, <3>2, <4>1, <5>1
      <4>2. CASE i # 0
        <5>1. i - 1 \in 0 .. freeCount - 1 /\ i \in 0 .. freeCount
          BY <2>3, <4>2
        <5>2. g[i] = f[i - 1] /\ g[i + 1] = f[i]
          BY <2>3, <2>5, <5>1
        <5> QED
          BY <2>2, <3>1, <5>1, <5>2
      <4> QED
        BY <4>1, <4>2
    <3>4. ASSUME NEW i \in 0 .. (freeCount + 1) - 1, NEW j \in 0 .. (freeCount + 1) - 1,
                 g[i] = g[j]
          PROVE  i = j
      <4>1. ASSUME NEW k \in 0 .. (freeCount + 1) - 1, k # 0
            PROVE  k - 1 \in 0 .. freeCount - 1 /\ g[k] = f[k - 1] /\ g[k] # s
        <5>1. k - 1 \in 0 .. freeCount - 1 /\ k - 1 \in 0 .. freeCount
          BY <2>3, <4>1
        <5>2. g[(k - 1) + 1] = f[k - 1]
          BY <2>5, <5>1
        <5> QED
          BY <3>1, <5>1, <5>2
      <4>2. CASE i = 0 \/ j = 0
        BY <3>2, <3>4, <4>1, <4>2
      <4>3. CASE i # 0 /\ j # 0
        <5>1. i - 1 = j - 1
          BY <1>1, <3>4, <4>1, <4>3 DEF Chained
        <5> QED
          BY <5>1
      <4> QED
        BY <4>2, <4>3
    <3>5. ASSUME NEW x \in Slots \ taken'
          PROVE  \E i \in 0 .. (freeCount + 1) - 1 : g[i] = x
      <4>1. CASE x = s
        BY <2>3, <3>2, <4>1
      <4>2. CASE x # s
        <5>1. PICK k \in 0 .. freeCount - 1 : f[k] = x
          BY <1>1, <2>2, <4>2 DEF Chained
        <5>2. k + 1 \in 0 .. (freeCount + 1) - 1 /\ g[k + 1] = x
          BY <2>3, <2>5, <5>1
        <5> QED
          BY <5>2
      <4> QED
        BY <4>1, <4>2
    <3> QED
      BY <2>2, <3>2, <3>3, <3>4, <3>5 DEF Chained
  <2>7. g \in Lists'
    BY <2>2, <2>5 DEF Lists
  <2>8. ASSUME debug
        PROVE  /\ allocatedBits' \in Bitsets(Capacity)
               /\ Members(allocatedBits') = taken'
    <3>1. allocatedBits \in Bitsets(Capacity) /\ Members(allocatedBits) = taken
      BY <1>2, <2>8 DEF PoolInv
    <3>2. Capacity \in Nat /\ s \in 0 .. Capacity - 1
      BY ObjectPoolAssumption DEF Slots
    <3>3. allocatedBits' = BitClear(allocatedBits, s)
      BY <1>4, <2>8 DEF ReturnObject, Bits
    <3> QED
      BY <2>2, <3>1, <3>2, <3>3, BitClearMembers
  <2>9. Members(allocatedBits)' = Members(allocatedBits')
    BY DEF Members, BitGet
  <2> QED
    BY <1>2, <2>4, <2>6, <2>7, <2>8, <2>9 DEF PoolInv
<1> QED
  BY <1>3, <1>4

LEMMA PoolInvStutters ==
  ASSUME PoolInv, UNCHANGED vars
  PROVE  PoolInv'
<1>1. PoolTypes /\ (~made => taken = {})
  BY DEF PoolInv
<1>2. PoolTypes' /\ (~made => taken = {})'
  BY <1>1 DEF PoolTypes, vars
<1>3. Ready' = Ready /\ Lists' = Lists /\ Members(allocatedBits)' = Members(allocatedBits)
  BY DEF Ready, Lists, Members, BitGet, vars
<1>4. \A f : Chained(f) => Chained(f)'
  BY DEF Chained, vars
<1>5. (Ready => \E f \in Lists : Chained(f))'
  BY <1>3, <1>4, Zenon DEF PoolInv
<1>6. (debug /\ Ready => /\ allocatedBits \in Bitsets(Capacity)
                         /\ Members(allocatedBits) = taken)'
  BY <1>3, Zenon DEF PoolInv, vars
<1> QED
  BY <1>2, <1>5, <1>6 DEF PoolInv

LEMMA PoolInvNext ==
  ASSUME PoolInv, [Next]_vars
  PROVE  PoolInv'
<1>1. CASE UNCHANGED vars
  BY <1>1, PoolInvStutters
<1>2. CASE Next
  <2>1. CASE Create
    BY <2>1, PoolInvCreate
  <2>2. CASE Destroy
    BY <2>2, PoolInvDestroy
  <2>3. CASE TakeObject
    BY <2>3, PoolInvTake
  <2>4. CASE Stopped
    BY <2>4, PoolInvStutters DEF Stopped
  <2>5. ASSUME NEW s \in Slots, ReturnObject(s) PROVE PoolInv'
    BY <2>5, PoolInvReturn
  <2>6. ASSUME NEW s \in Slots, NEW w \in Slots \cup {End}, Write(s, w) PROVE PoolInv'
    BY <2>6, PoolInvWrite
  <2> QED
    BY <1>2, <2>1, <2>2, <2>3, <2>4, <2>5, <2>6 DEF Next
<1> QED
  BY <1>1, <1>2

-----------------------------------------------------------------------------
(* The walk of justObjectPoolDebugPrint *)

LEMMA ChainLength ==
  ASSUME PoolTypes, NEW f \in Lists, Chained(f)
  PROVE  freeCount = Cardinality(Slots \ taken) /\ freeCount <= Capacity
<1> DEFINE I == 0 .. freeCount - 1
           g == [i \in I |-> f[i]]
           free == Slots \ taken
<1>1. freeCount \in Nat /\ Capacity \in Nat /\ Capacity > 0
  BY ObjectPoolAssumption DEF PoolTypes
<1>2. IsFiniteSet(I) /\ Cardinality(I) = freeCount
  BY <1>1, FS_Interval
<1>3. g \in Bijection(I, free)
  <2>1. g \in [I -> free]
    BY DEF Chained
  <2>2. \A i, j \in I : g[i] = g[j] => i = j
    BY DEF Chained
  <2>3. \A s \in free : \E i \in I : g[i] = s
    BY DEF Chained
  <2> HIDE DEF g, I, free
  <2> QED
    BY <2>1, <2>2, <2>3, Fun_IsBij
<1>4. ExistsBijection(I, free)
  BY <1>3, Fun_ExistsBij
<1>5. Cardinality(free) = freeCount
  <2> HIDE DEF I, free
  <2> QED
    BY <1>2, <1>4, FS_Bijection
<1>6. IsFiniteSet(Slots) /\ Cardinality(Slots) = Capacity
  BY <1>1, FS_Interval DEF Slots
<1>7. Cardinality(free) <= Cardinality(Slots)
  BY <1>6, FS_Subset
<1> QED
  BY <1>5, <1>6, <1>7

\* The walk follows the list to its end and stays there.
LEMMA WalkFollows ==
  ASSUME PoolTypes, NEW f \in Lists, Chained(f)
  PROVE  \A n \in 0 .. Capacity : Walk[n] = IF n <= freeCount THEN f[n] ELSE End
<1> DEFINE Unrolled(at) == [n \in 0 .. Capacity |->
                          IF n = 0 THEN freeListOffset
                          ELSE IF at[n - 1] = End THEN End ELSE link[at[n - 1]]]
           w == [n \in 0 .. Capacity |-> IF n <= freeCount THEN f[n] ELSE End]
<1>1. freeCount \in Nat /\ freeCount <= Capacity /\ Capacity \in Nat /\ End \notin Slots
  BY ChainLength, ObjectPoolAssumption DEF PoolTypes
<1>2. w = Unrolled(w)
  <2>1. ASSUME NEW n \in 0 .. Capacity
        PROVE  w[n] = IF n = 0 THEN freeListOffset
                      ELSE IF w[n - 1] = End THEN End ELSE link[w[n - 1]]
    <3>1. CASE n = 0
      BY <1>1, <3>1 DEF Chained
    <3>2. CASE n # 0 /\ n <= freeCount
      <4>1. n - 1 \in 0 .. freeCount - 1 /\ n - 1 \in 0 .. Capacity /\ (n - 1) + 1 = n
        BY <1>1, <3>2
      <4>2. f[n - 1] \in Slots /\ f[n] = link[f[n - 1]]
        BY <4>1 DEF Chained
      <4>3. w[n - 1] = f[n - 1] /\ w[n] = f[n]
        BY <1>1, <3>2, <4>1
      <4> HIDE DEF w
      <4> QED
        BY <1>1, <3>2, <4>2, <4>3
    <3>3. CASE n # 0 /\ ~(n <= freeCount)
      <4>1. w[n] = End
        BY <3>3
      <4>2. w[n - 1] = End
        <5>1. n - 1 \in 0 .. Capacity
          BY <1>1, <3>3
        <5>2. CASE n - 1 = freeCount
          BY <1>1, <5>1, <5>2 DEF Chained
        <5>3. CASE n - 1 # freeCount
          BY <1>1, <3>3, <5>1, <5>3
        <5> QED
          BY <5>2, <5>3
      <4> HIDE DEF w
      <4> QED
        BY <3>3, <4>1, <4>2
    <3> QED
      BY <3>1, <3>2, <3>3
  <2>2. w = [n \in 0 .. Capacity |-> w[n]]
    OBVIOUS
  <2> HIDE DEF w
  <2> QED
    BY <2>1, <2>2
<1>3. Walk = CHOOSE at : at = Unrolled(at)
  BY DEF Walk
<1> HIDE DEF w
<1>4. Walk = Unrolled(Walk)
  <2> HIDE DEF Unrolled
  <2> QED
    BY <1>2, <1>3
<1> DEFINE T == {n \in Nat : n <= Capacity => Walk[n] = w[n]}
<1>5. 0 \in T
  <2>1. Walk[0] = freeListOffset
    BY <1>1, <1>4
  <2>2. w[0] = freeListOffset
    BY <1>1, <1>2
  <2> QED
    BY <2>1, <2>2
<1>6. ASSUME NEW n \in T PROVE n + 1 \in T
  <2> SUFFICES ASSUME n + 1 <= Capacity PROVE Walk[n + 1] = w[n + 1]
    OBVIOUS
  <2>1. n + 1 \in 0 .. Capacity /\ n + 1 # 0 /\ (n + 1) - 1 = n /\ Walk[n] = w[n]
    BY <1>1
  <2>2. Walk[n + 1] = IF Walk[n] = End THEN End ELSE link[Walk[n]]
    BY <1>4, <2>1, ZenonT(60)
  <2>3. w[n + 1] = IF w[n] = End THEN End ELSE link[w[n]]
    BY <1>2, <2>1, ZenonT(60)
  <2> QED
    BY <2>1, <2>2, <2>3
<1>7. T \in SUBSET Nat
  OBVIOUS
<1> HIDE DEF T
<1>8. T = Nat
  BY <1>5, <1>6, <1>7, SetInduction
<1>9. ASSUME NEW n \in 0 .. Capacity PROVE Walk[n] = w[n]
  BY <1>1, <1>8 DEF T
<1> QED
  BY <1>9 DEF w

LEMMA PoolInvExact == PoolInv => FreeListExact
<1> SUFFICES ASSUME PoolInv, Ready
             PROVE  /\ \A s \in Slots : Bar[s] = "occupied" <=> s \in taken
                    /\ Walk[Capacity] = End
                    /\ freeCount = Cardinality(Slots \ taken)
  BY DEF FreeListExact
<1>1. PoolTypes
  BY DEF PoolInv
<1>2. PICK f \in Lists : Chained(f)
  BY DEF PoolInv
<1>3. freeCount = Cardinality(Slots \ taken) /\ freeCount <= Capacity
  BY <1>1, <1>2, ChainLength
<1>4. freeCount \in Nat /\ Capacity \in Nat /\ End \notin Slots
  BY <1>1, ObjectPoolAssumption DEF PoolTypes
<1>5. \A n \in 0 .. Capacity : Walk[n] = IF n <= freeCount THEN f[n] ELSE End
  BY <1>1, <1>2, WalkFollows
<1>6. Walk[Capacity] = End
  BY <1>2, <1>3, <1>4, <1>5, SMTT(60) DEF Chained
<1> DEFINE free == {Walk[n] : n \in 0 .. Capacity} \ {End}
<1>7. free = Slots \ taken
  <2>1. ASSUME NEW n \in 0 .. Capacity, Walk[n] # End
        PROVE  Walk[n] \in Slots \ taken
    <3>1. n <= freeCount /\ Walk[n] = f[n] /\ n # freeCount
      BY <1>2, <1>5, <2>1 DEF Chained
    <3>2. n \in 0 .. freeCount - 1
      BY <1>4, <3>1
    <3> QED
      BY <1>2, <3>1, <3>2 DEF Chained
  <2>2. ASSUME NEW s \in Slots \ taken
        PROVE  \E n \in 0 .. Capacity : Walk[n] = s
    <3>1. PICK n \in 0 .. freeCount - 1 : f[n] = s
      BY <1>2 DEF Chained
    <3>2. n \in 0 .. Capacity /\ n <= freeCount
      BY <1>3, <1>4
    <3>3. Walk[n] = s
      BY <1>5, <3>1, <3>2
    <3> QED
      BY <3>2, <3>3
  <2> QED
    BY <1>4, <2>1, <2>2
<1>8. Bar = [s \in Slots |-> IF s \notin free THEN "occupied"
                            ELSE IF s = freeListOffset THEN "head" ELSE "free"]
  BY DEF Bar
<1> HIDE DEF free
<1>9. ASSUME NEW s \in Slots PROVE Bar[s] = "occupied" <=> s \in taken
  BY <1>7, <1>8
<1> QED
  BY <1>3, <1>6, <1>9

\* Whatever holders write into their slots and in whatever order slots come
\* back, in the debug and in the release build: the list that TakeObject and
\* ReturnObject maintain has every free slot once and no slot that is held.
THEOREM FreeListAlwaysExact == Spec => []FreeListExact
<1>1. Init => PoolInv
  BY PoolInvInit
<1>2. PoolInv /\ [Next]_vars => PoolInv'
  BY PoolInvNext
<1> QED
  BY <1>1, <1>2, PoolInvExact, PTL DEF Spec

-----------------------------------------------------------------------------
(* The callers' bitsets *)

\* The callers' sets are bitsets of their capacities, and below every capacity
\* they hold what was meant.
SetsInv ==
  /\ bitset \in [Sets -> UNION {Bitsets(SetCapacity[x]) : x \in Sets}]
  /\ meant \in [Sets -> SUBSET Shared]
  /\ \A x \in Sets : /\ bitset[x] \in Bitsets(SetCapacity[x])
                      /\ Members(bitset[x]) \cap Shared = meant[x]

AuditInv == PoolInv /\ SetsInv

LEMMA SharedBelow ==
  ASSUME NEW i \in Shared, NEW x \in Sets
  PROVE  /\ SetCapacity[x] \in Nat /\ i \in 0 .. SetCapacity[x] - 1
         /\ Capacity \in Nat /\ i \in 0 .. Capacity - 1
  BY PoolAuditAssumption, ObjectPoolAssumption DEF Shared, Slots

LEMMA AuditInvInit == AuditInit => AuditInv
<1> SUFFICES ASSUME AuditInit PROVE AuditInv
  OBVIOUS
<1>1. PoolInv
  BY PoolInvInit DEF AuditInit
<1>2. /\ bitset = [x \in Sets |-> NewBitset(SetCapacity[x])]
      /\ meant = [x \in Sets |-> {}]
  BY DEF AuditInit
<1>3. ASSUME NEW x \in Sets
      PROVE  /\ NewBitset(SetCapacity[x]) \in Bitsets(SetCapacity[x])
             /\ Members(NewBitset(SetCapacity[x])) = {}
  BY NewBitsetEmpty, PoolAuditAssumption
<1> QED
  BY <1>1, <1>2, <1>3 DEF AuditInv, SetsInv

LEMMA AuditInvBecomes ==
  ASSUME AuditInv, NEW x \in Sets, NEW bits \in Bitsets(SetCapacity[x]), NEW m,
         \A i \in Shared : i \in Members(bits) <=> i \in m,
         Becomes(x, bits, m)
  PROVE  AuditInv'
<1>1. /\ bitset' = [bitset EXCEPT ![x] = bits]
      /\ meant' = [meant EXCEPT ![x] = m \cap Shared]
      /\ UNCHANGED vars
  BY DEF Becomes
<1>2. PoolInv'
  BY <1>1, PoolInvStutters DEF AuditInv
<1>3. SetsInv
  BY DEF AuditInv
<1>4. bitset' \in [Sets -> UNION {Bitsets(SetCapacity[y]) : y \in Sets}]
  BY <1>1, <1>3 DEF SetsInv
<1>5. meant' \in [Sets -> SUBSET Shared]
  BY <1>1, <1>3 DEF SetsInv
<1>6. ASSUME NEW y \in Sets
      PROVE  /\ bitset'[y] \in Bitsets(SetCapacity[y])
             /\ Members(bitset'[y]) \cap Shared = meant'[y]
  <2>1. CASE y = x
    <3>1. bitset'[y] = bits /\ meant'[y] = m \cap Shared
      BY <1>1, <1>3, <2>1 DEF SetsInv
    <3> QED
      BY <2>1, <3>1
  <2>2. CASE y # x
    <3>1. bitset'[y] = bitset[y] /\ meant'[y] = meant[y]
      BY <1>1, <1>3, <2>2 DEF SetsInv
    <3> QED
      BY <1>3, <3>1 DEF SetsInv
  <2> QED
    BY <2>1, <2>2
<1>7. \A y \in Sets : Members(bitset[y])' = Members(bitset'[y])
  BY DEF Members, BitGet
<1>8. SetsInv'
  BY <1>4, <1>5, <1>6, <1>7 DEF SetsInv
<1> QED
  BY <1>2, <1>8 DEF AuditInv

\* What the other operand of an operation can be.
LEMMA SourceIs ==
  ASSUME AuditInv, debug, Ready, NEW x \in Sets, NEW src \in Sources(x)
  PROVE  \E d \in Nat : /\ src.bits \in Bitsets(d)
                        /\ \A i \in Shared : i \in 0 .. d - 1
                        /\ \A i \in Shared : i \in Members(src.bits) <=> i \in src.m
<1>1. CASE src = [bits |-> allocatedBits, m |-> taken]
  <2>1. src.bits = allocatedBits /\ src.m = taken
    BY <1>1
  <2>2. allocatedBits \in Bitsets(Capacity) /\ Members(allocatedBits) = taken
    BY DEF AuditInv, PoolInv
  <2>3. Capacity \in Nat /\ \A i \in Shared : i \in 0 .. Capacity - 1
    BY SharedBelow, ObjectPoolAssumption
  <2> QED
    BY <2>1, <2>2, <2>3
<1>2. ASSUME NEW y \in Sets, src = [bits |-> bitset[y], m |-> meant[y]]
      PROVE  \E d \in Nat : /\ src.bits \in Bitsets(d)
                            /\ \A i \in Shared : i \in 0 .. d - 1
                            /\ \A i \in Shared : i \in Members(src.bits) <=> i \in src.m
  <2>1. src.bits = bitset[y] /\ src.m = meant[y]
    BY <1>2
  <2>2. bitset[y] \in Bitsets(SetCapacity[y]) /\ Members(bitset[y]) \cap Shared = meant[y]
    BY DEF AuditInv, SetsInv
  <2>3. SetCapacity[y] \in Nat /\ \A i \in Shared : i \in 0 .. SetCapacity[y] - 1
    BY SharedBelow, PoolAuditAssumption
  <2> QED
    BY <2>1, <2>2, <2>3
<1> QED
  BY <1>1, <1>2 DEF Sources

\* A bit of the result of an operation on a caller's set.
LEMMA AuditInvCombine ==
  ASSUME AuditInv, NEW x \in Sets, Combine(x)
  PROVE  AuditInv'
<1> DEFINE c == SetCapacity[x]
           dst == bitset[x]
<1>1. PICK src \in Sources(x) :
        \/ Becomes(x, Union(dst, src.bits), meant[x] \cup src.m)
        \/ Becomes(x, Intersection(dst, src.bits), meant[x] \cap src.m)
        \/ Becomes(x, Difference(dst, src.bits), meant[x] \ src.m)
  BY DEF Combine
<1>2. debug /\ Ready
  BY <1>1 DEF Becomes
<1>3. PICK d \in Nat : /\ src.bits \in Bitsets(d)
                       /\ \A i \in Shared : i \in 0 .. d - 1
                       /\ \A i \in Shared : i \in Members(src.bits) <=> i \in src.m
  BY <1>2, SourceIs
<1>4. /\ c \in Nat /\ dst \in Bitsets(c)
      /\ \A i \in Shared : i \in Members(dst) <=> i \in meant[x]
  BY PoolAuditAssumption DEF AuditInv, SetsInv
<1>5. \A i \in Shared : i \in 0 .. c - 1 /\ i < d
  <2> TAKE i \in Shared
  <2>1. i \in 0 .. c - 1
    BY SharedBelow
  <2>2. i \in 0 .. d - 1
    BY <1>3
  <2> QED
    BY <2>1, <2>2
<1>6. \A i \in Shared : /\ BitGet(dst, i) <=> i \in meant[x]
                        /\ BitGet(src.bits, i) <=> i \in src.m
  BY <1>3, <1>4, <1>5, BitsetFields
<1> HIDE DEF c, dst
<1>7. CASE Becomes(x, Union(dst, src.bits), meant[x] \cup src.m)
  <2> DEFINE new == Union(dst, src.bits)
  <2>1. new \in Bitsets(c) /\ \A i \in Shared : BitGet(new, i) <=> i \in meant[x] \cup src.m
    BY <1>3, <1>4, <1>5, <1>6, UnionBits, ZenonT(60)
  <2> HIDE DEF new
  <2>2. \A i \in Shared : i \in Members(new) <=> i \in meant[x] \cup src.m
    BY <1>4, <1>5, <2>1, BitsetFields
  <2> QED
    BY <1>7, <2>1, <2>2, AuditInvBecomes DEF new, c
<1>8. CASE Becomes(x, Intersection(dst, src.bits), meant[x] \cap src.m)
  <2> DEFINE new == Intersection(dst, src.bits)
  <2>1. new \in Bitsets(c) /\ \A i \in Shared : BitGet(new, i) <=> i \in meant[x] \cap src.m
    BY <1>3, <1>4, <1>5, <1>6, IntersectionBits
  <2> HIDE DEF new
  <2>2. \A i \in Shared : i \in Members(new) <=> i \in meant[x] \cap src.m
    BY <1>4, <1>5, <2>1, BitsetFields
  <2> QED
    BY <1>8, <2>1, <2>2, AuditInvBecomes DEF new, c
<1>9. CASE Becomes(x, Difference(dst, src.bits), meant[x] \ src.m)
  <2> DEFINE new == Difference(dst, src.bits)
  <2>1. new \in Bitsets(c) /\ \A i \in Shared : BitGet(new, i) <=> i \in meant[x] \ src.m
    BY <1>3, <1>4, <1>5, <1>6, DifferenceBits, ZenonT(60)
  <2> HIDE DEF new
  <2>2. \A i \in Shared : i \in Members(new) <=> i \in meant[x] \ src.m
    BY <1>4, <1>5, <2>1, BitsetFields
  <2> QED
    BY <1>9, <2>1, <2>2, AuditInvBecomes DEF new, c
<1> QED
  BY <1>1, <1>7, <1>8, <1>9 DEF dst

LEMMA AuditInvBit ==
  ASSUME AuditInv, NEW x \in Sets, NEW i \in 0 .. SetCapacity[x] - 1,
         CallSet(x, i) \/ CallClear(x, i) \/ CallToggle(x, i)
  PROVE  AuditInv'
<1> DEFINE c == SetCapacity[x]
           dst == bitset[x]
<1>1. /\ c \in Nat /\ dst \in Bitsets(c) /\ i \in 0 .. c - 1
      /\ \A j \in Shared : j \in Members(dst) <=> j \in meant[x]
  BY PoolAuditAssumption DEF AuditInv, SetsInv
<1> HIDE DEF c, dst
<1>2. CASE CallSet(x, i)
  <2> DEFINE new == BitSet(dst, i)
             m == meant[x] \cup {i}
  <2>1. new \in Bitsets(c) /\ \A j \in Shared : j \in Members(new) <=> j \in m
    BY <1>1, BitSetMembers
  <2>2. Becomes(x, new, m)
    BY <1>2 DEF CallSet, dst
  <2> HIDE DEF new, m
  <2> QED
    BY <2>1, <2>2, AuditInvBecomes DEF c
<1>3. CASE CallClear(x, i)
  <2> DEFINE new == BitClear(dst, i)
             m == meant[x] \ {i}
  <2>1. new \in Bitsets(c) /\ \A j \in Shared : j \in Members(new) <=> j \in m
    BY <1>1, BitClearMembers
  <2>2. Becomes(x, new, m)
    BY <1>3 DEF CallClear, dst
  <2> HIDE DEF new, m
  <2> QED
    BY <2>1, <2>2, AuditInvBecomes DEF c
<1>4. CASE CallToggle(x, i)
  <2> DEFINE new == BitToggle(dst, i)
             m == (meant[x] \ {i}) \cup ({i} \ meant[x])
  <2>1. new \in Bitsets(c) /\ \A j \in Shared : j \in Members(new) <=> j \in m
    BY <1>1, BitToggleMembers
  <2>2. Becomes(x, new, m)
    BY <1>4 DEF CallToggle, dst
  <2> HIDE DEF new, m
  <2> QED
    BY <2>1, <2>2, AuditInvBecomes DEF c
<1> QED
  BY <1>2, <1>3, <1>4

LEMMA AuditInvAll ==
  ASSUME AuditInv, NEW x \in Sets, CallSetAll(x) \/ CallClearAll(x)
  PROVE  AuditInv'
<1> DEFINE c == SetCapacity[x]
           dst == bitset[x]
<1>1. /\ c \in Nat /\ dst \in Bitsets(c) /\ dst.capacity = c
      /\ \A j \in Shared : j \in 0 .. c - 1
  <2>1. c \in Nat /\ dst \in Bitsets(c)
    BY PoolAuditAssumption DEF AuditInv, SetsInv
  <2>2. \A j \in Shared : j \in 0 .. c - 1
    BY SharedBelow
  <2> HIDE DEF c, dst
  <2> QED
    BY <2>1, <2>2, BitsetFields
<1> HIDE DEF c, dst
<1>2. CASE CallSetAll(x)
  <2> DEFINE new == SetAll(dst)
  <2>1. new \in Bitsets(c) /\ \A j \in Shared : j \in Members(new) <=> j \in Shared
    BY <1>1, SetAllMembers
  <2>2. Becomes(x, new, Shared)
    BY <1>2 DEF CallSetAll, dst
  <2> HIDE DEF new
  <2> QED
    BY <2>1, <2>2, AuditInvBecomes DEF c
<1>3. CASE CallClearAll(x)
  <2> DEFINE new == NewBitset(c)
  <2>1. new \in Bitsets(c) /\ \A j \in Shared : j \in Members(new) <=> j \in {}
    BY <1>1, NewBitsetEmpty
  <2>2. Becomes(x, new, {})
    BY <1>1, <1>3 DEF CallClearAll, ClearAll, dst
  <2> HIDE DEF new
  <2> QED
    BY <2>1, <2>2, AuditInvBecomes DEF c
<1> QED
  BY <1>2, <1>3

LEMMA SetsInvStutters ==
  ASSUME SetsInv, bitset' = bitset, meant' = meant
  PROVE  SetsInv'
  BY DEF SetsInv, Members, BitGet

LEMMA AuditInvNext ==
  ASSUME AuditInv, [AuditNext]_auditVars
  PROVE  AuditInv'
<1>1. CASE UNCHANGED auditVars
  BY <1>1, PoolInvStutters, SetsInvStutters DEF AuditInv, auditVars
<1>2. CASE PoolCall
  BY <1>2, PoolInvNext, SetsInvStutters DEF AuditInv, PoolCall
<1>3. ASSUME NEW x \in Sets, CallSetAll(x) \/ CallClearAll(x) PROVE AuditInv'
  BY <1>3, AuditInvAll
<1>4. ASSUME NEW x \in Sets, Combine(x) PROVE AuditInv'
  BY <1>4, AuditInvCombine
<1>5. ASSUME NEW x \in Sets, NEW i \in 0 .. SetCapacity[x] - 1,
             CallSet(x, i) \/ CallClear(x, i) \/ CallToggle(x, i)
      PROVE  AuditInv'
  BY <1>5, AuditInvBit
<1> QED
  BY <1>1, <1>2, <1>3, <1>4, <1>5 DEF AuditNext

LEMMA AuditAlways == AuditSpec => []AuditInv
<1>1. AuditInit => AuditInv
  BY AuditInvInit
<1>2. AuditInv /\ [AuditNext]_auditVars => AuditInv'
  BY AuditInvNext
<1> QED
  BY <1>1, <1>2, PTL DEF AuditSpec

\* In the debug build the pool's bits name exactly the slots that are held,
\* and the operations on callers' bitsets of any capacities are exact on the
\* indices that every set has.
THEOREM AuditAlwaysExact == AuditSpec => []AuditExact
<1>1. AuditInv => AuditExact
  BY DEF AuditInv, PoolInv, SetsInv, AuditExact
<1> QED
  BY <1>1, AuditAlways, PTL

\* justBitsetEquals never sees the bits that a union with a larger set left in
\* the tail of a word, and never overlooks a bit that a caller can see.
THEOREM EqualsAlwaysEquality == AuditSpec => []EqualsIsEquality
<1>1. AuditInv => EqualsIsEquality
  <2> SUFFICES ASSUME AuditInv, debug, Ready, NEW x \in Sets, NEW src \in Sources(x)
               PROVE  Equals(bitset[x], src.bits) <=>
                        /\ bitset[x].capacity = src.bits.capacity
                        /\ Members(bitset[x]) = Members(src.bits)
    BY DEF EqualsIsEquality
  <2>1. SetCapacity[x] \in Nat /\ bitset[x] \in Bitsets(SetCapacity[x])
    BY PoolAuditAssumption DEF AuditInv, SetsInv
  <2>2. PICK d \in Nat : src.bits \in Bitsets(d)
    BY SourceIs
  <2> DEFINE a == bitset[x]
             e == src.bits
  <2> HIDE DEF a, e
  <2>3. a \in Bitsets(SetCapacity[x]) /\ e \in Bitsets(d)
    BY <2>1, <2>2 DEF a, e
  <2>4. Equals(a, e) <=> a.capacity = e.capacity /\ Members(a) = Members(e)
    BY <2>1, <2>3, EqualsExact
  <2> QED
    BY <2>4 DEF a, e
<1> QED
  BY <1>1, AuditAlways, PTL

-----------------------------------------------------------------------------
(* justRingBuffer *)

\* n elements of a ring of c slots, from slot h on.
View(d, h, n, c) == [i \in 1 .. n |-> d[(h + i - 1) % c]]

LEMMA ViewType ==
  ASSUME NEW V, NEW c \in Nat, NEW d \in [0 .. c - 1 -> V], NEW h \in Nat,
         NEW n \in Nat, n <= c
  PROVE  View(d, h, n, c) \in [1 .. n -> V]
<1>1. ASSUME NEW i \in 1 .. n
      PROVE  (h + i - 1) % c \in 0 .. c - 1
  <2> DEFINE x == h + i - 1
  <2>1. x \in Nat /\ c > 0
    OBVIOUS
  <2> HIDE DEF x
  <2>2. x % c \in 0 .. c - 1
    BY <2>1, RemainderBound
  <2> QED
    BY <2>2 DEF x
<1> QED
  BY <1>1 DEF View

\* A write to the slot behind the last element appends it.
LEMMA ViewAppends ==
  ASSUME NEW V, NEW v \in V, NEW c \in Nat, NEW d \in [0 .. c - 1 -> V],
         NEW h \in Nat, NEW n \in Nat, n < c
  PROVE  View([d EXCEPT ![(h + n) % c] = v], h, n + 1, c)
           = Append(View(d, h, n, c), v)
<1> DEFINE y == h + n
           e == [d EXCEPT ![y % c] = v]
           s == View(d, h, n, c)
           t == View(e, h, n + 1, c)
<1>1. y \in Nat /\ c > 0
  OBVIOUS
<1>2. y % c \in 0 .. c - 1
  <2> HIDE DEF y
  <2> QED
    BY <1>1, RemainderBound
<1>3. e \in [0 .. c - 1 -> V] /\ e[y % c] = v
  BY <1>2
<1>4. s \in [1 .. n -> V] /\ s \in Seq(V) /\ Len(s) = n
  <2>1. n <= c
    OBVIOUS
  <2>2. s \in [1 .. n -> V]
    BY <2>1, ViewType, Zenon
  <2> HIDE DEF s
  <2> QED
    BY <2>2
<1>5. t \in [1 .. n + 1 -> V]
  <2> HIDE DEF e
  <2>1. n + 1 \in Nat /\ n + 1 <= c
    OBVIOUS
  <2> QED
    BY <1>3, <2>1, ViewType, Zenon
<1>6. ASSUME NEW i \in 1 .. n
      PROVE  t[i] = s[i]
  <2> DEFINE x == h + i - 1
  <2>1. x \in Nat /\ x < y /\ y - x < c
    OBVIOUS
  <2>2. t[i] = e[x % c] /\ s[i] = d[x % c]
    BY DEF View
  <2> HIDE DEF x, y
  <2>3. x % c # y % c
    BY <1>1, <2>1, RemainderApart
  <2>4. x % c \in 0 .. c - 1
    BY <1>1, <2>1, RemainderBound
  <2>5. e[x % c] = d[x % c]
    BY <1>2, <2>3, <2>4
  <2> QED
    BY <2>2, <2>5
<1>7. t[n + 1] = v
  <2>1. h + (n + 1) - 1 = y /\ n + 1 \in 1 .. n + 1
    OBVIOUS
  <2>2. t[n + 1] = e[(h + (n + 1) - 1) % c]
    BY <2>1 DEF View
  <2> QED
    BY <1>3, <2>1, <2>2
<1> HIDE DEF s, t, e, y
<1>8. t = Append(s, v)
  BY <1>4, <1>5, <1>6, <1>7, AppendForm
<1> QED
  BY <1>8 DEF s, t, e, y

\* A step of the first slot takes the first element off.
LEMMA ViewTail ==
  ASSUME NEW V, NEW c \in Nat, NEW d \in [0 .. c - 1 -> V], NEW h \in Nat,
         h < c, NEW n \in Nat, 0 < n, n <= c
  PROVE  /\ View(d, h, n, c) # <<>>
         /\ Head(View(d, h, n, c)) = d[h]
         /\ View(d, (h + 1) % c, n - 1, c) = Tail(View(d, h, n, c))
<1> DEFINE s == View(d, h, n, c)
           g == (h + 1) % c
<1>1. s \in Seq(V) /\ Len(s) = n
  <2>1. s \in [1 .. n -> V]
    BY ViewType, Zenon
  <2> HIDE DEF s
  <2> QED
    BY <2>1
<1>2. s[1] = d[h]
  <2>1. h + 1 - 1 = h /\ h % c = h /\ 1 \in 1 .. n
    BY SmallRemainder
  <2>2. s[1] = d[(h + 1 - 1) % c]
    BY <2>1 DEF View
  <2> QED
    BY <2>1, <2>2
<1>3. g \in Nat
  <2>1. h + 1 \in Nat /\ c > 0
    OBVIOUS
  <2> QED
    BY <2>1, RemainderBound
<1>4. ASSUME NEW i \in 1 .. n - 1
      PROVE  d[(g + i - 1) % c] = s[i + 1]
  <2> DEFINE x == h + 1
             y == i - 1
  <2>1. x \in Nat /\ y \in Nat /\ c > 0 /\ h + (i + 1) - 1 = x + y
        /\ i + 1 \in 1 .. n
    OBVIOUS
  <2>2. g + i - 1 = g + y
    BY <1>3
  <2>3. s[i + 1] = d[(h + (i + 1) - 1) % c]
    BY <2>1 DEF View
  <2>4. g = x % c
    OBVIOUS
  <2> HIDE DEF x, y, g, s
  <2>5. ((x % c) + y) % c = (x + y) % c
    BY <2>1, RemainderOfSum, ZenonT(60)
  <2> QED
    BY <2>1, <2>2, <2>3, <2>4, <2>5
<1>5. Tail(s) = [i \in 1 .. n - 1 |-> s[i + 1]]
  <2> HIDE DEF s
  <2> QED
    BY <1>1
<1>6. View(d, g, n - 1, c) = [i \in 1 .. n - 1 |-> d[(g + i - 1) % c]]
  BY DEF View
<1>7. s # <<>> /\ Head(s) = s[1]
  <2> HIDE DEF s
  <2> QED
    BY <1>1
<1> HIDE DEF s, g
<1>8. View(d, g, n - 1, c) = Tail(s) /\ Head(s) = d[h] /\ s # <<>>
  BY <1>2, <1>4, <1>5, <1>6, <1>7
<1> QED
  BY <1>8 DEF s, g

\* The capacity is a power of two, so that & mask is a remainder; tail is a
\* slot, and head the one count slots behind it.
RingSlots ==
  /\ capacity \in {0} \cup Powers
  /\ data \in [0 .. capacity - 1 -> Values \cup {NoValue}]
  /\ count \in 0 .. capacity
  /\ capacity > 0 =>
       /\ tail \in 0 .. capacity - 1
       /\ head = (tail + count) % capacity

\* The inductive invariant of the ring buffer.
RingForm == RingSlots /\ allowOverwrite \in BOOLEAN

LEMMA RingFields ==
  ASSUME RingSlots
  PROVE  /\ capacity \in Nat /\ count \in Nat /\ count <= capacity
         /\ data \in [0 .. capacity - 1 -> Values \cup {NoValue}]
         /\ capacity > 0 => /\ tail \in Nat /\ tail < capacity
                           /\ head = (tail + count) % capacity
<1>1. capacity \in Nat
  BY PowersPositive DEF RingSlots
<1> QED
  BY <1>1 DEF RingSlots

\* The Powers of the ring buffer's module are those of the lemmas.
LEMMA RingPowers ==
  ASSUME NEW n \in Nat, n > 0
  PROVE  NextPowerOfTwo(n) \in Powers
<1>1. Powers = Powers
  BY DEF Powers, Powers
<1>2. NextPowerOfTwo(n) = PowerAtLeast(n)
  BY <1>1 DEF NextPowerOfTwo, PowerAtLeast, PowerAtLeast
<1> QED
  BY <1>2, PowerAtLeastFits

LEMMA RingContents == Contents = View(data, tail, count, capacity)
  BY DEF Contents, View

LEMMA RingContentsPrimed ==
  Contents' = View(data', tail', count', capacity')
  BY DEF Contents, View

LEMMA RingEmpty ==
  /\ count = 0 => Contents = <<>>
  /\ count' = 0 => Contents' = <<>>
  BY DEF Contents

\* Create, Destroy and Clear leave the indices at 0.
LEMMA RingEmptied ==
  ASSUME capacity' \in {0} \cup Powers,
         data' \in [0 .. capacity' - 1 -> Values \cup {NoValue}],
         head' = 0, tail' = 0, count' = 0
  PROVE  RingSlots'
<1>1. capacity' \in Nat
  BY PowersPositive
<1>2. capacity' > 0 => 0 % capacity' = 0
  BY <1>1, SmallRemainder
<1>3. count' \in 0 .. capacity' /\ (capacity' > 0 => tail' \in 0 .. capacity' - 1)
  <2> DEFINE c == capacity'
  <2>1. c \in Nat
    BY <1>1
  <2> HIDE DEF c
  <2>2. 0 \in 0 .. c /\ (c > 0 => 0 \in 0 .. c - 1)
    BY <2>1
  <2> QED
    BY <2>2 DEF c
<1>4. tail' + count' = 0
  OBVIOUS
<1>5. capacity' > 0 => head' = (tail' + count') % capacity'
  BY <1>2, <1>4
<1> QED
  BY <1>3, <1>5, Zenon DEF RingSlots

LEMMA RingCreates ==
  ASSUME NEW n \in Nat \ {0}, NEW overwrite, RingCreate(n, overwrite)
  PROVE  RingSlots'
<1>1. /\ capacity' \in Powers /\ data' = [i \in 0 .. capacity' - 1 |-> NoValue]
      /\ head' = 0 /\ tail' = 0 /\ count' = 0
  BY RingPowers DEF RingCreate
<1>2. data' \in [0 .. capacity' - 1 -> Values \cup {NoValue}]
  BY <1>1
<1> QED
  BY <1>1, <1>2, RingEmptied

LEMMA RingClears ==
  ASSUME RingSlots, Clear \/ RingDestroy
  PROVE  RingSlots'
<1>1. CASE Clear
  BY <1>1, RingEmptied DEF Clear, RingSlots
<1>2. CASE RingDestroy
  <2>1. /\ data' = [i \in {} |-> NoValue] /\ capacity' = 0
        /\ head' = 0 /\ tail' = 0 /\ count' = 0
    BY <1>2 DEF RingDestroy
  <2>2. data' \in [0 .. capacity' - 1 -> Values \cup {NoValue}]
    BY <2>1
  <2> QED
    BY <2>1, <2>2, RingEmptied
<1> QED
  BY <1>1, <1>2

\* One slot further, with the remainder taken twice.
LEMMA RingStep ==
  ASSUME NEW x \in Nat, NEW c \in Nat, c > 0
  PROVE  ((x % c) + 1) % c = (x + 1) % c
  BY RemainderOfSum

LEMMA RingPushes ==
  ASSUME RingSlots, NEW v \in Values, Push(v)
  PROVE  /\ RingSlots'
         /\ capacity > 0
         /\ Len(Contents) < capacity
         /\ Contents' = Append(Contents, v)
<1> DEFINE V == Values \cup {NoValue}
           x == tail + count
<1>1. /\ capacity \in Nat /\ count \in Nat /\ count < capacity /\ capacity > 0
      /\ data \in [0 .. capacity - 1 -> V]
      /\ tail \in Nat /\ tail < capacity /\ head = x % capacity
  BY RingFields DEF Push
<1>2. /\ data' = [data EXCEPT ![head] = v] /\ head' = (head + 1) % capacity
      /\ count' = count + 1 /\ capacity' = capacity /\ tail' = tail
  BY DEF Push, Step
<1>3. x \in Nat /\ x + 1 = tail + (count + 1) /\ v \in V /\ count <= capacity
  BY <1>1
<1> HIDE DEF V
<1>4. Contents \in [1 .. count -> V]
  BY <1>1, <1>3, RingContents, ViewType, Zenon
<1>5. Len(Contents) = count
  BY <1>1, <1>4
<1>6. data' = [data EXCEPT ![(tail + count) % capacity] = v]
  BY <1>1, <1>2
<1>7. Contents' = Append(Contents, v)
  <2>1. View([data EXCEPT ![(tail + count) % capacity] = v], tail, count + 1, capacity)
          = Append(View(data, tail, count, capacity), v)
    BY <1>1, <1>3, ViewAppends, Zenon
  <2> QED
    BY <1>2, <1>6, <2>1, RingContents, RingContentsPrimed
<1>8. head' = (tail' + count') % capacity'
  <2> HIDE DEF x
  <2>1. head' = (x + 1) % capacity
    BY <1>1, <1>2, <1>3, RingStep
  <2> QED
    BY <1>2, <1>3, <2>1
<1>9. data' \in [0 .. capacity - 1 -> V]
  BY <1>1, <1>2, <1>3
<1>10. RingSlots'
  <2>1. capacity' \in {0} \cup Powers
    BY <1>2 DEF RingSlots
  <2>2. count' \in 0 .. capacity' /\ tail' \in 0 .. capacity' - 1
    BY <1>1, <1>2
  <2> QED
    BY <1>2, <1>8, <1>9, <2>1, <2>2 DEF RingSlots, V
<1> QED
  BY <1>1, <1>5, <1>7, <1>10

LEMMA RingPops ==
  ASSUME RingSlots, Pop
  PROVE  /\ RingSlots'
         /\ Contents # <<>>
         /\ out' = Head(Contents)
         /\ Contents' = Tail(Contents)
<1> DEFINE V == Values \cup {NoValue}
           x == tail + 1
           y == count - 1
<1>1. /\ capacity \in Nat /\ count \in Nat /\ 0 < count /\ count <= capacity
      /\ capacity > 0 /\ data \in [0 .. capacity - 1 -> V]
      /\ tail \in Nat /\ tail < capacity /\ head = (tail + count) % capacity
  BY RingFields DEF Pop
<1>2. /\ out' = data[tail] /\ tail' = (tail + 1) % capacity
      /\ count' = count - 1 /\ data' = data /\ capacity' = capacity /\ head' = head
  BY DEF Pop, Step
<1>3. x \in Nat /\ y \in Nat /\ x + y = tail + count
  BY <1>1
<1>4. tail' \in Nat /\ tail' < capacity
  BY <1>1, <1>2, <1>3, RemainderBound
<1>5. head' = (tail' + count') % capacity'
  <2>1. tail' = x % capacity /\ count' = y
    BY <1>2
  <2> HIDE DEF x, y
  <2>2. ((x % capacity) + y) % capacity = (x + y) % capacity
    BY <1>1, <1>3, RemainderOfSum, ZenonT(60)
  <2> QED
    BY <1>1, <1>2, <1>3, <2>1, <2>2
<1>6. RingSlots'
  <2>1. capacity' \in {0} \cup Powers
    BY <1>2 DEF RingSlots
  <2>2. count' \in 0 .. capacity' /\ tail' \in 0 .. capacity' - 1
    BY <1>1, <1>2, <1>4
  <2> QED
    BY <1>1, <1>2, <1>5, <2>1, <2>2 DEF RingSlots
<1> HIDE DEF V
<1>7. /\ View(data, tail, count, capacity) # <<>>
      /\ Head(View(data, tail, count, capacity)) = data[tail]
      /\ View(data, (tail + 1) % capacity, count - 1, capacity)
           = Tail(View(data, tail, count, capacity))
  BY <1>1, ViewTail, Zenon
<1> QED
  BY <1>2, <1>6, <1>7, RingContents, RingContentsPrimed


\* A push on a full ring: head is tail, and both go one slot further.
LEMMA RingPushesOver ==
  ASSUME RingSlots, NEW v \in Values, PushOver(v)
  PROVE  /\ RingSlots'
         /\ capacity > 0
         /\ Len(Contents) = capacity
         /\ Contents' = Append(Tail(Contents), v)
<1> DEFINE V == Values \cup {NoValue}
           x == tail + 1
           y == count - 1
           t == x % capacity
<1>1. /\ capacity \in Nat /\ count = capacity /\ capacity > 0
      /\ data \in [0 .. capacity - 1 -> V]
      /\ tail \in Nat /\ tail < capacity /\ head = (tail + count) % capacity
  BY RingFields DEF PushOver
<1>2. /\ data' = [data EXCEPT ![head] = v] /\ head' = (head + 1) % capacity
      /\ tail' = t /\ count' = count /\ capacity' = capacity
  BY DEF PushOver, Step
<1>3. /\ x \in Nat /\ y \in Nat /\ x + y = tail + count /\ v \in V
      /\ y < capacity /\ y + 1 = count /\ count \in Nat /\ 0 < count
      /\ count <= capacity /\ y <= capacity /\ tail + count + 1 = x + count
      /\ tail + count \in Nat
  BY <1>1
<1>4. t \in Nat /\ t < capacity
  <2> HIDE DEF x
  <2> QED
    BY <1>1, <1>3, RemainderBound
<1> HIDE DEF V
<1>5. Contents \in [1 .. count -> V]
  BY <1>1, <1>3, RingContents, ViewType, Zenon
<1>6. Len(Contents) = capacity
  BY <1>1, <1>5
<1>7. View(data, t, y, capacity) = Tail(View(data, tail, count, capacity))
  <2>1. count \in Nat /\ 0 < count /\ count <= capacity
    BY <1>3
  <2>2. /\ View(data, tail, count, capacity) # <<>>
        /\ Head(View(data, tail, count, capacity)) = data[tail]
        /\ View(data, (tail + 1) % capacity, count - 1, capacity)
             = Tail(View(data, tail, count, capacity))
    BY <1>1, <2>1, ViewTail, Zenon
  <2> QED
    BY <2>2
<1> HIDE DEF x, y
<1>8. (t + y) % capacity = head
  <2>1. ((x % capacity) + y) % capacity = (x + y) % capacity
    BY <1>1, <1>3, RemainderOfSum, ZenonT(60)
  <2> QED
    BY <1>1, <1>3, <2>1
<1>9. head' = (t + count) % capacity
  <2>1. head' = (tail + count + 1) % capacity
    BY <1>1, <1>2, <1>3, RingStep
  <2>2. ((x % capacity) + count) % capacity = (x + count) % capacity
    BY <1>1, <1>3, RemainderOfSum, ZenonT(60)
  <2> QED
    BY <1>3, <2>1, <2>2
<1> HIDE DEF t
<1>10. View([data EXCEPT ![(t + y) % capacity] = v], t, y + 1, capacity)
         = Append(View(data, t, y, capacity), v)
  <2>1. v \in V /\ y \in Nat /\ y < capacity
    BY <1>3
  <2>2. capacity \in Nat /\ data \in [0 .. capacity - 1 -> V] /\ t \in Nat
    BY <1>1, <1>4
  <2> QED
    BY <2>1, <2>2, ViewAppends, Zenon
<1>11. Contents' = Append(Tail(Contents), v)
  BY <1>2, <1>3, <1>7, <1>8, <1>10, RingContents, RingContentsPrimed
<1>12. RingSlots'
  <2>1. capacity' \in {0} \cup Powers
    BY <1>2 DEF RingSlots
  <2>2. count' \in 0 .. capacity' /\ tail' \in 0 .. capacity' - 1
    BY <1>1, <1>2, <1>3, <1>4
  <2>3. data' \in [0 .. capacity - 1 -> V]
    BY <1>1, <1>2, <1>3
  <2> QED
    BY <1>2, <1>9, <2>1, <2>2, <2>3 DEF RingSlots, V
<1> QED
  BY <1>1, <1>6, <1>11, <1>12

\* The window as the ring's calls change it.
LEMMA RingCallRefines ==
  ASSUME RingForm, [RingNext]_ringVars
  PROVE  RingForm' /\ [Abstract!Next]_(Abstract!vars)
<1> DEFINE A == Abstract!Next
<1>1. RingSlots /\ allowOverwrite \in BOOLEAN
  BY DEF RingForm
<1>2. ASSUME NEW n \in Targets, NEW overwrite \in BOOLEAN,
             RingCreate(n, overwrite)
      PROVE  RingForm' /\ A
  <2>1. n \in Nat \ {0}
    BY RingAssumption
  <2>2. RingSlots'
    BY <1>2, <2>1, RingCreates, Zenon
  <2>3. allowOverwrite' \in BOOLEAN
    BY <1>2, Zenon DEF RingCreate
  <2>4. capacity = 0 /\ count' = 0 /\ out' = out
    BY <1>2, Zenon DEF RingCreate
  <2>5. count = 0
    BY <1>1, <2>4, RingFields
  <2>6. Contents = <<>> /\ Contents' = <<>>
    BY <2>4, <2>5, RingEmpty
  <2>7. capacity' \in Nat
    BY <2>2, PowersPositive DEF RingSlots
  <2>8. Abstract!Reset
    BY <2>3, <2>4, <2>6, <2>7, Zenon DEF Abstract!Reset
  <2> QED
    BY <2>2, <2>3, <2>8, Zenon DEF RingForm, Abstract!Next
<1>3. ASSUME RingDestroy
      PROVE  RingForm' /\ A
  <2>1. RingSlots'
    BY <1>1, <1>3, RingClears, Zenon
  <2>2. allowOverwrite' \in BOOLEAN /\ capacity' = 0 /\ count' = 0 /\ out' = out
    BY <1>1, <1>3, Zenon DEF RingDestroy
  <2>3. Contents' = <<>> /\ 0 \in Nat
    BY <2>2, RingEmpty
  <2>4. Abstract!Reset
    BY <2>2, <2>3, Zenon DEF Abstract!Reset
  <2> QED
    BY <2>1, <2>2, <2>4, Zenon DEF RingForm, Abstract!Next
<1>4. ASSUME Clear
      PROVE  RingForm' /\ A
  <2>1. RingSlots'
    BY <1>1, <1>4, RingClears, Zenon
  <2>2. /\ allowOverwrite' = allowOverwrite /\ capacity' = capacity
        /\ count' = 0 /\ out' = out
    BY <1>4, Zenon DEF Clear
  <2>3. Contents' = <<>>
    BY <2>2, RingEmpty
  <2>4. Abstract!Clear
    BY <2>2, <2>3, Zenon DEF Abstract!Clear
  <2> QED
    BY <1>1, <2>1, <2>2, <2>4, Zenon DEF RingForm, Abstract!Next
<1>5. ASSUME Pop
      PROVE  RingForm' /\ A
  <2>1. /\ RingSlots' /\ Contents # <<>>
        /\ out' = Head(Contents) /\ Contents' = Tail(Contents)
    BY <1>1, <1>5, RingPops, Zenon
  <2>2. allowOverwrite' = allowOverwrite /\ capacity' = capacity
    BY <1>5, Zenon DEF Pop
  <2>3. Abstract!Pop
    BY <2>1, <2>2, Zenon DEF Abstract!Pop
  <2> QED
    BY <1>1, <2>1, <2>2, <2>3, Zenon DEF RingForm, Abstract!Next
<1>6. ASSUME NEW v \in Values, Push(v)
      PROVE  RingForm' /\ A
  <2>1. /\ RingSlots' /\ capacity > 0 /\ Len(Contents) < capacity
        /\ Contents' = Append(Contents, v)
    BY <1>1, <1>6, RingPushes, Zenon
  <2>2. allowOverwrite' = allowOverwrite /\ capacity' = capacity /\ out' = out
    BY <1>6, Zenon DEF Push
  <2>3. Abstract!Push(v)
    BY <2>1, <2>2, Zenon DEF Abstract!Push
  <2> QED
    BY <1>1, <2>1, <2>2, <2>3, Zenon DEF RingForm, Abstract!Next
<1>7. ASSUME NEW v \in Values, PushOver(v)
      PROVE  RingForm' /\ A
  <2>1. /\ RingSlots' /\ capacity > 0 /\ Len(Contents) = capacity
        /\ Contents' = Append(Tail(Contents), v)
    BY <1>1, <1>7, RingPushesOver, Zenon
  <2>2. /\ allowOverwrite /\ allowOverwrite' = allowOverwrite
        /\ capacity' = capacity /\ out' = out
    BY <1>7, Zenon DEF PushOver
  <2>3. Abstract!Push(v)
    BY <2>1, <2>2, Zenon DEF Abstract!Push
  <2> QED
    BY <1>1, <2>1, <2>2, <2>3, Zenon DEF RingForm, Abstract!Next
<1>8. CASE UNCHANGED ringVars
  <2>1. /\ data' = data /\ capacity' = capacity /\ head' = head /\ tail' = tail
        /\ count' = count /\ allowOverwrite' = allowOverwrite /\ out' = out
    BY <1>8, Zenon DEF ringVars
  <2>2. RingSlots'
    BY <1>1, <2>1, Zenon DEF RingSlots
  <2>3. Contents' = Contents
    BY <2>1, Zenon DEF Contents
  <2> QED
    BY <1>1, <2>1, <2>2, <2>3, Zenon DEF RingForm, Abstract!vars
<1> HIDE DEF A
<1>9. ASSUME RingNext
      PROVE  RingForm' /\ A
  BY <1>2, <1>3, <1>4, <1>5, <1>6, <1>7, <1>9, Zenon DEF RingNext
<1> QED
  BY <1>8, <1>9, Zenon DEF A

LEMMA RingInitForms ==
  ASSUME RingInit
  PROVE  RingForm /\ Abstract!Init
<1>1. /\ data = [i \in {} |-> NoValue] /\ capacity = 0 /\ count = 0
      /\ out = NoValue
  BY Zenon DEF RingInit
<1>2. allowOverwrite = FALSE
  BY Zenon DEF RingInit
<1>3. data \in [0 .. capacity - 1 -> Values \cup {NoValue}]
  <2>1. 0 .. 0 - 1 = {}
    OBVIOUS
  <2>2. [i \in {} |-> NoValue] \in [{} -> Values \cup {NoValue}]
    BY Zenon
  <2> QED
    BY <1>1, <2>1, <2>2, Zenon
<1>4. count \in 0 .. capacity /\ ~(0 > 0)
  <2>1. 0 \in 0 .. 0 /\ ~(0 > 0)
    OBVIOUS
  <2> QED
    BY <1>1, <2>1, Zenon
<1>5. RingForm
  BY <1>1, <1>2, <1>3, <1>4, Zenon DEF RingForm, RingSlots
<1>6. Contents = <<>>
  BY <1>1, RingEmpty, Zenon
<1> QED
  BY <1>1, <1>2, <1>5, <1>6, Zenon DEF Abstract!Init

\* justRingBuffer is a window on the last elements pushed: a push on a full
\* ring is refused or drops the oldest element and no other, a pop returns the
\* oldest, in every order of calls and for every capacity asked for.
THEOREM RingImplementsWindow ==
  RingSpec => ImplementsWindow
<1>1. RingInit => RingForm /\ Abstract!Init
  BY RingInitForms
<1>2. RingForm /\ [RingNext]_ringVars
        => RingForm' /\ [Abstract!Next]_(Abstract!vars)
  BY RingCallRefines
<1> QED
  BY <1>1, <1>2, PTL DEF RingSpec, ImplementsWindow, Abstract!Spec
=============================================================================
