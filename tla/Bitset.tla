------------------------------- MODULE Bitset -------------------------------
(***************************************************************************)
(* justBitset (src/dataStructures/bitset.c, bitset.h): capacity bits in    *)
(* words of WordBits.  A word is the set of its bits that are 1, so that   *)
(* |, & and & ~ are union, intersection and difference.  The last word may *)
(* have bits beyond the capacity, the tail.                                *)
(***************************************************************************)
EXTENDS Naturals, FiniteSets

CONSTANT WordBits  \* JUST_BITS_PER_WORD

AllBits == 0 .. WordBits - 1

\* justBitsetGetTailMask
TailMask(capacity) ==
  IF capacity % WordBits = 0 THEN AllBits ELSE 0 .. (capacity % WordBits) - 1

WordCount(capacity) == (capacity + WordBits - 1) \div WordBits

Words(set) == DOMAIN set.words

\* justBitsetCreate, which clears the words it is given; justBitsetClearAll.
NewBitset(capacity) ==
  [capacity |-> capacity, words |-> [i \in 0 .. WordCount(capacity) - 1 |-> {}]]

\* justBitsetDestroy
DestroyedBitset == NewBitset(0)

BitSet(set, i)    == [set EXCEPT !.words[i \div WordBits] = @ \cup {i % WordBits}]
BitClear(set, i)  == [set EXCEPT !.words[i \div WordBits] = @ \ {i % WordBits}]
BitToggle(set, i) ==
  [set EXCEPT !.words[i \div WordBits] =
     IF i % WordBits \in @ THEN @ \ {i % WordBits} ELSE @ \cup {i % WordBits}]
BitGet(set, i)    == i % WordBits \in set.words[i \div WordBits]

ClearAll(set) == NewBitset(set.capacity)

\* Every word is filled, then the tail is masked.
SetAll(set) ==
  [set EXCEPT !.words = [i \in Words(set) |->
     IF i = WordCount(set.capacity) - 1 THEN TailMask(set.capacity) ELSE AllBits]]

\* Mutant: the last words are compared as they are.
EqualsUnmasked(a, b) == a.capacity = b.capacity /\ a.words = b.words

\* justBitsetEquals: full words, then the masked last one.
Equals(a, b) ==
  /\ a.capacity = b.capacity
  /\ \A i \in Words(a) :
       LET mask == IF i = WordCount(a.capacity) - 1 THEN TailMask(a.capacity) ELSE AllBits
       IN  a.words[i] \cap mask = b.words[i] \cap mask

\* The three operations work word by word, on the words both sets have.
Common(dst, src) == Words(dst) \cap Words(src)

Union(dst, src) ==
  [dst EXCEPT !.words = [i \in Words(dst) |->
     IF i \in Common(dst, src) THEN @[i] \cup src.words[i] ELSE @[i]]]

Intersection(dst, src) ==
  [dst EXCEPT !.words = [i \in Words(dst) |->
     IF i \in Common(dst, src) THEN @[i] \cap src.words[i] ELSE @[i]]]

\* Mutant: bits that are in src only come up (^ for & ~).
DifferenceToggled(dst, src) ==
  [dst EXCEPT !.words = [i \in Words(dst) |->
     IF i \in Common(dst, src)
       THEN (@[i] \ src.words[i]) \cup (src.words[i] \ @[i]) ELSE @[i]]]

Difference(dst, src) ==
  [dst EXCEPT !.words = [i \in Words(dst) |->
     IF i \in Common(dst, src) THEN @[i] \ src.words[i] ELSE @[i]]]

\* The bits a caller can ask for.
Members(set) == {i \in 0 .. set.capacity - 1 : BitGet(set, i)}
=============================================================================
