------------------------------ MODULE PoolAudit ------------------------------
(***************************************************************************)
(* Callers of an object pool's debug build that keep bitsets of their own  *)
(* beside the pool's: they change single bits, fill and clear, and combine *)
(* any set with any other, of another capacity too.  Words are combined    *)
(* whole, so bits may come up beyond a set's capacity, or go away beyond   *)
(* the capacity of the smaller set.                                        *)
(***************************************************************************)
EXTENDS ObjectPool

CONSTANTS
  Sets,          \* the callers' bitsets
  SetCapacity    \* and their capacities

ASSUME PoolAuditAssumption == SetCapacity \in [Sets -> Nat \ {0}]

VARIABLES
  bitset,  \* the callers' bitsets
  meant    \* history: what they hold below every capacity

auditVars == <<vars, bitset, meant>>

\* The indices every set has; below them no operation depends on the tails.
Shared == {i \in Slots : \A x \in Sets : i < SetCapacity[x]}

AuditInit ==
  /\ Init
  /\ bitset = [x \in Sets |-> NewBitset(SetCapacity[x])]
  /\ meant = [x \in Sets |-> {}]

PoolCall == Next /\ UNCHANGED <<bitset, meant>>

\* A caller's set gets the bits and, below every capacity, the meaning m.
Becomes(x, bits, m) ==
  /\ debug /\ Ready
  /\ bitset' = [bitset EXCEPT ![x] = bits]
  /\ meant' = [meant EXCEPT ![x] = m \cap Shared]
  /\ UNCHANGED vars

CallSet(x, i) == Becomes(x, BitSet(bitset[x], i), meant[x] \cup {i})
CallClear(x, i) == Becomes(x, BitClear(bitset[x], i), meant[x] \ {i})
CallToggle(x, i) ==
  Becomes(x, BitToggle(bitset[x], i), (meant[x] \ {i}) \cup ({i} \ meant[x]))
CallSetAll(x) == Becomes(x, SetAll(bitset[x]), Shared)
CallClearAll(x) == Becomes(x, ClearAll(bitset[x]), {})

\* The other operand of an operation: the pool's bits or another caller's.
Sources(x) ==
  {[bits |-> allocatedBits, m |-> taken]}
    \cup {[bits |-> bitset[y], m |-> meant[y]] : y \in Sets \ {x}}

Combine(x) ==
  \E src \in Sources(x) :
    \/ Becomes(x, Union(bitset[x], src.bits), meant[x] \cup src.m)
    \/ Becomes(x, Intersection(bitset[x], src.bits), meant[x] \cap src.m)
    \/ Becomes(x, Difference(bitset[x], src.bits), meant[x] \ src.m)

AuditNext ==
  \/ PoolCall
  \/ \E x \in Sets :
       \/ CallSetAll(x) \/ CallClearAll(x) \/ Combine(x)
       \/ \E i \in 0 .. SetCapacity[x] - 1 :
            CallSet(x, i) \/ CallClear(x, i) \/ CallToggle(x, i)

AuditSpec == AuditInit /\ [][AuditNext]_auditVars

-----------------------------------------------------------------------------
(* Properties *)

\* The pool's bits name exactly the slots that are held; and whatever bits
\* other sets left in the tails, justBitsetUnion, Intersection and Difference
\* are exact on the indices that every set has.
AuditExact ==
  /\ debug /\ Ready => Members(allocatedBits) = taken
  /\ \A x \in Sets : Members(bitset[x]) \cap Shared = meant[x]

\* justBitsetEquals compares capacity and visible bits: what is left in the
\* tail of a word by a union with a larger set never makes equal sets differ,
\* and no visible difference is masked away.
EqualsIsEquality ==
  debug /\ Ready =>
    \A x \in Sets : \A src \in Sources(x) :
      Equals(bitset[x], src.bits) <=>
        /\ bitset[x].capacity = src.bits.capacity
        /\ Members(bitset[x]) = Members(src.bits)
=============================================================================
