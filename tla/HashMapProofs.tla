--------------------------- MODULE HashMapProofs ---------------------------
(***************************************************************************)
(* Proofs about justHashMap: the counters are exact and an unused slot is  *)
(* left until a rebuild fails; Get finds every stored key, after failed    *)
(* rebuilds too unless the count is 0; and until one fails the table is a  *)
(* dictionary.                                                             *)
(***************************************************************************)
EXTENDS HashMap, NumberLemmas, FiniteSetTheorems

-----------------------------------------------------------------------------
(* Slots and tables *)

SlotSet ==
  [state : {"empty"}]
    \cup [state : {"occupied", "tombstone"}, key : Keys, val : Values]

Tables(cap) == [0 .. cap - 1 -> SlotSet]

\* The slots of a table that are in a state.
In(s, cap, state) == {p \in 0 .. cap - 1 : State(s, p) = state}

\* Slot p has an entry for k.
Has(s, p, k) == Occupied(s, p) /\ s[p].key = k

\* The search for a stored key gets to its slot.
Reach(s, cap) ==
  \A p \in 0 .. cap - 1 :
    Occupied(s, p) =>
      \E j \in Path(s, s[p].key, cap) : At(s[p].key, j, cap) = p

\* A key is stored once.
Unique(s, cap) ==
  \A p, q \in 0 .. cap - 1 :
    Occupied(s, p) /\ Occupied(s, q) /\ s[p].key = s[q].key => p = q

\* The table after k and v were written to slot p.
Write(s, p, k, v) == [s EXCEPT ![p] = Slot("occupied", k, v)]

LEMMA SlotFields ==
  ASSUME NEW x \in SlotSet
  PROVE  /\ x.state \in {"empty", "occupied", "tombstone"}
         /\ x.state # "empty" => x.key \in Keys /\ x.val \in Values
  BY DEF SlotSet

LEMMA EmptySlot ==
  [state |-> "empty"] \in SlotSet /\ [state |-> "empty"].state = "empty"
  BY DEF SlotSet

LEMMA OccupiedSlot ==
  ASSUME NEW k \in Keys, NEW v \in Values
  PROVE  /\ Slot("occupied", k, v) \in SlotSet
         /\ Slot("occupied", k, v).state = "occupied"
         /\ Slot("occupied", k, v).key = k
         /\ Slot("occupied", k, v).val = v
  BY DEF SlotSet, Slot

LEMMA TombstoneSlot ==
  ASSUME NEW x \in SlotSet, x.state # "empty"
  PROVE  /\ [x EXCEPT !.state = "tombstone"] \in SlotSet
         /\ [x EXCEPT !.state = "tombstone"].state = "tombstone"
  BY DEF SlotSet

LEMMA FreshTable ==
  ASSUME NEW cap \in Nat
  PROVE  /\ Fresh(cap) \in Tables(cap)
         /\ \A p \in 0 .. cap - 1 : State(Fresh(cap), p) = "empty"
  BY EmptySlot DEF Fresh, Tables, State

LEMMA FreshSound ==
  ASSUME NEW cap \in Nat
  PROVE  Reach(Fresh(cap), cap) /\ Unique(Fresh(cap), cap)
<1>1. \A p \in 0 .. cap - 1 : ~Occupied(Fresh(cap), p)
  BY FreshTable DEF Occupied
<1> QED
  BY <1>1 DEF Reach, Unique

\* What a write does to each slot.
LEMMA WriteSlots ==
  ASSUME NEW cap \in Nat, NEW s \in Tables(cap), NEW p \in 0 .. cap - 1,
         NEW k \in Keys, NEW v \in Values
  PROVE  /\ Write(s, p, k, v) \in Tables(cap)
         /\ Occupied(Write(s, p, k, v), p)
         /\ Write(s, p, k, v)[p].key = k /\ Write(s, p, k, v)[p].val = v
         /\ \A q \in 0 .. cap - 1 : q # p => Write(s, p, k, v)[q] = s[q]
<1> DEFINE x == Slot("occupied", k, v)
<1>1. x \in SlotSet /\ x.state = "occupied" /\ x.key = k /\ x.val = v
  BY OccupiedSlot
<1> HIDE DEF x
<1>2. Write(s, p, k, v) = [s EXCEPT ![p] = x]
  BY DEF Write, x
<1> QED
  BY <1>1, <1>2 DEF Tables, Occupied, State

\* Also when there is no slot p.
LEMMA WriteTyped ==
  ASSUME NEW cap \in Nat, NEW s \in Tables(cap), NEW p,
         NEW k \in Keys, NEW v \in Values
  PROVE  Write(s, p, k, v) \in Tables(cap)
<1> DEFINE x == Slot("occupied", k, v)
<1>1. x \in SlotSet
  BY OccupiedSlot
<1> HIDE DEF x
<1>2. Write(s, p, k, v) = [s EXCEPT ![p] = x]
  BY DEF Write, x
<1> QED
  BY <1>1, <1>2 DEF Tables

-----------------------------------------------------------------------------
(* Probing *)

LEMMA MinIn ==
  ASSUME NEW T \in SUBSET Nat, T # {}
  PROVE  Min(T) \in T /\ \A y \in T : Min(T) <= y
  BY LeastElement DEF Min

LEMMA AtSlot ==
  ASSUME NEW k \in Keys, NEW i \in Nat, NEW cap \in Nat, cap > 0
  PROVE  At(k, i, cap) \in 0 .. cap - 1
<1>1. Hash[k] + i \in Nat
  BY MapAssumption
<1>2. (Hash[k] + i) % cap \in Nat /\ (Hash[k] + i) % cap < cap
  BY <1>1, RemainderBound
<1> QED
  BY <1>2 DEF At

\* The probe sequence of a key comes to every slot.
LEMMA AtOnto ==
  ASSUME NEW k \in Keys, NEW cap \in Nat, cap > 0, NEW p \in 0 .. cap - 1
  PROVE  \E i \in 0 .. cap - 1 : At(k, i, cap) = p
<1> DEFINE h == Hash[k]
           r == h % cap
<1>1. h \in Nat
  BY MapAssumption
<1>2. r \in Nat /\ r < cap
  BY <1>1, RemainderBound
<1>3. \A i \in Nat : (r + i) % cap = (h + i) % cap
  BY <1>1, RemainderOfSum
<1> HIDE DEF r
<1>4. CASE r <= p
  <2>1. p - r \in 0 .. cap - 1 /\ r + (p - r) = p
    BY <1>2, <1>4
  <2>2. p % cap = p
    BY SmallRemainder
  <2>3. (h + (p - r)) % cap = p
    BY <1>3, <2>1, <2>2
  <2> QED
    BY <2>1, <2>3 DEF At
<1>5. CASE p < r
  <2>1. p - r + cap \in 0 .. cap - 1 /\ r + (p - r + cap) = p + cap
    BY <1>2, <1>5
  <2>2. (p + cap) % cap = p
    BY RemainderPeriod, SmallRemainder
  <2>3. (h + (p - r + cap)) % cap = p
    BY <1>3, <2>1, <2>2
  <2> QED
    BY <2>1, <2>3 DEF At
<1> QED
  BY <1>2, <1>4, <1>5

\* And at most once in a round.
LEMMA AtOnce ==
  ASSUME NEW k \in Keys, NEW cap \in Nat, NEW i \in 0 .. cap - 1,
         NEW j \in 0 .. cap - 1, At(k, i, cap) = At(k, j, cap)
  PROVE  i = j
<1>1. Hash[k] + i \in Nat /\ Hash[k] + j \in Nat
  BY MapAssumption
<1>2. CASE i < j
  <2>1. Hash[k] + i < Hash[k] + j /\ (Hash[k] + j) - (Hash[k] + i) < cap
    BY <1>2, MapAssumption
  <2> QED
    BY <1>1, <2>1, RemainderApart DEF At
<1>3. CASE j < i
  <2>1. Hash[k] + j < Hash[k] + i /\ (Hash[k] + i) - (Hash[k] + j) < cap
    BY <1>3, MapAssumption
  <2> QED
    BY <1>1, <2>1, RemainderApart DEF At
<1> QED
  BY <1>2, <1>3

\* Where no slot becomes empty, paths only grow.
LEMMA PathGrows ==
  ASSUME NEW cap \in Nat, cap > 0, NEW s, NEW t,
         \A p \in 0 .. cap - 1 : State(s, p) # "empty" => State(t, p) # "empty",
         NEW k \in Keys, NEW i \in Path(s, k, cap)
  PROVE  i \in Path(t, k, cap)
<1>1. i \in 0 .. cap - 1 /\ \A j \in 0 .. i - 1 : State(s, At(k, j, cap)) # "empty"
  BY DEF Path
<1>2. ASSUME NEW j \in 0 .. i - 1 PROVE State(t, At(k, j, cap)) # "empty"
  <2>1. At(k, j, cap) \in 0 .. cap - 1
    BY <1>1, AtSlot
  <2> QED
    BY <1>1, <2>1
<1> QED
  BY <1>1, <1>2 DEF Path

\* An entry written on its key's path can be reached, and so can the others,
\* unless it replaced one of another key.
LEMMA WriteReach ==
  ASSUME NEW cap \in Nat, cap > 0, NEW s \in Tables(cap), Reach(s, cap),
         NEW k \in Keys, NEW v \in Values, NEW i \in Path(s, k, cap)
  PROVE  Reach(Write(s, At(k, i, cap), k, v), cap)
<1> DEFINE p == At(k, i, cap)
           t == Write(s, p, k, v)
<1>1. i \in 0 .. cap - 1 /\ p \in 0 .. cap - 1
  BY AtSlot DEF Path
<1> HIDE DEF p
<1>2. /\ t \in Tables(cap) /\ Occupied(t, p) /\ t[p].key = k
      /\ \A q \in 0 .. cap - 1 : q # p => t[q] = s[q]
  BY <1>1, WriteSlots
<1> HIDE DEF t
<1>3. \A q \in 0 .. cap - 1 : State(s, q) # "empty" => State(t, q) # "empty"
  BY <1>2 DEF State, Occupied
<1>4. ASSUME NEW q \in 0 .. cap - 1, Occupied(t, q)
      PROVE  \E j \in Path(t, t[q].key, cap) : At(t[q].key, j, cap) = q
  <2>1. CASE q = p
    <3>1. i \in Path(t, k, cap)
      BY <1>3, PathGrows
    <3> QED
      BY <1>2, <2>1, <3>1 DEF p
  <2>2. CASE q # p
    <3>1. t[q] = s[q] /\ Occupied(s, q)
      BY <1>2, <1>4, <2>2 DEF Occupied, State
    <3>2. PICK j \in Path(s, s[q].key, cap) : At(s[q].key, j, cap) = q
      BY <3>1 DEF Reach
    <3>3. s[q].key \in Keys
      BY <3>1, SlotFields DEF Tables, Occupied, State
    <3>4. j \in Path(t, s[q].key, cap)
      BY <1>3, <3>3, PathGrows
    <3> QED
      BY <3>1, <3>2, <3>4
  <2> QED
    BY <2>1, <2>2
<1> QED
  BY <1>4 DEF Reach, t, p

\* A key stays unique if it is written where it was or was nowhere.
LEMMA WriteUnique ==
  ASSUME NEW cap \in Nat, NEW s \in Tables(cap), Unique(s, cap),
         NEW p \in 0 .. cap - 1, NEW k \in Keys, NEW v \in Values,
         \A q \in 0 .. cap - 1 : Has(s, q, k) => q = p
  PROVE  Unique(Write(s, p, k, v), cap)
<1> DEFINE t == Write(s, p, k, v)
<1>1. /\ Occupied(t, p) /\ t[p].key = k
      /\ \A q \in 0 .. cap - 1 : q # p => t[q] = s[q]
  BY WriteSlots
<1> HIDE DEF t
<1>2. ASSUME NEW q \in 0 .. cap - 1, q # p, Occupied(t, q)
      PROVE  t[q].key # k /\ Occupied(s, q) /\ t[q] = s[q]
  BY <1>1, <1>2 DEF Has, Occupied, State
<1>3. ASSUME NEW q \in 0 .. cap - 1, NEW r \in 0 .. cap - 1,
             Occupied(t, q), Occupied(t, r), t[q].key = t[r].key
      PROVE  q = r
  <2>1. CASE q = p
    BY <1>1, <1>2, <1>3, <2>1
  <2>2. CASE r = p
    BY <1>1, <1>2, <1>3, <2>2
  <2>3. CASE q # p /\ r # p
    BY <1>2, <1>3, <2>3 DEF Unique
  <2> QED
    BY <2>1, <2>2, <2>3
<1> QED
  BY <1>3 DEF Unique, t

\* The numbers of slots in each state.
LEMMA InFinite ==
  ASSUME NEW cap \in Nat, NEW s, NEW state
  PROVE  IsFiniteSet(In(s, cap, state)) /\ Cardinality(In(s, cap, state)) \in Nat
<1>1. In(s, cap, state) \in SUBSET (0 .. cap - 1)
  BY DEF In
<1>2. IsFiniteSet(0 .. cap - 1)
  BY FS_Interval
<1>3. IsFiniteSet(In(s, cap, state))
  BY <1>1, <1>2, FS_Subset
<1> QED
  BY <1>3, FS_CardinalityType

\* Fewer used slots than slots: one was never used.
LEMMA SomeEmpty ==
  ASSUME NEW cap \in Nat, NEW s \in Tables(cap)
  PROVE  (Cardinality(In(s, cap, "occupied"))
            + Cardinality(In(s, cap, "tombstone")) < cap) <=> In(s, cap, "empty") # {}
<1> DEFINE O == In(s, cap, "occupied")
           D == In(s, cap, "tombstone")
           E == In(s, cap, "empty")
           A == 0 .. cap - 1
<1>1. /\ IsFiniteSet(O) /\ Cardinality(O) \in Nat
      /\ IsFiniteSet(D) /\ Cardinality(D) \in Nat
      /\ IsFiniteSet(E) /\ Cardinality(E) \in Nat
  BY InFinite
<1>2. O \cap D = {} /\ (O \cup D) \cap E = {}
  BY DEF In
<1>3. A = (O \cup D) \cup E
  <2>1. \A p \in A : State(s, p) \in {"empty", "occupied", "tombstone"}
    BY SlotFields DEF Tables, State
  <2> QED
    BY <2>1 DEF In
<1>4. IsFiniteSet(A) /\ Cardinality(A) = cap
  BY FS_Interval
<1> HIDE DEF O, D, E, A
<1>5. IsFiniteSet(O \cup D) /\ Cardinality(O \cup D) = Cardinality(O) + Cardinality(D)
  <2>1. /\ IsFiniteSet(O \cup D)
        /\ Cardinality(O \cup D)
             = Cardinality(O) + Cardinality(D) - Cardinality(O \cap D)
    BY <1>1, FS_Union
  <2>2. Cardinality(O \cap D) = 0
    BY <1>2, FS_EmptySet
  <2> QED
    BY <1>1, <2>1, <2>2
<1>6. cap = Cardinality(O) + Cardinality(D) + Cardinality(E)
  <2>1. Cardinality((O \cup D) \cup E)
          = Cardinality(O \cup D) + Cardinality(E) - Cardinality((O \cup D) \cap E)
    BY <1>1, <1>5, FS_Union
  <2>2. Cardinality((O \cup D) \cap E) = 0
    BY <1>2, FS_EmptySet
  <2> QED
    BY <1>1, <1>3, <1>4, <1>5, <2>1, <2>2
<1>7. Cardinality(E) = 0 <=> E = {}
  BY <1>1, FS_EmptySet
<1>8. Cardinality(O) + Cardinality(D) < cap <=> E # {}
  BY <1>1, <1>6, <1>7
<1> QED
  BY <1>8 DEF O, D, E

\* What a write does to the counts.
LEMMA WriteCounts ==
  ASSUME NEW cap \in Nat, NEW s \in Tables(cap), NEW p \in 0 .. cap - 1,
         NEW k \in Keys, NEW v \in Values
  PROVE  LET t == Write(s, p, k, v)
         IN  /\ Cardinality(In(t, cap, "occupied"))
                  = Cardinality(In(s, cap, "occupied")) + (IF Occupied(s, p) THEN 0 ELSE 1)
             /\ Cardinality(In(t, cap, "tombstone"))
                  = Cardinality(In(s, cap, "tombstone"))
                      - (IF State(s, p) = "tombstone" THEN 1 ELSE 0)
<1> DEFINE t == Write(s, p, k, v)
           O == In(s, cap, "occupied")
           D == In(s, cap, "tombstone")
<1>1. State(t, p) = "occupied" /\ \A q \in 0 .. cap - 1 : q # p => State(t, q) = State(s, q)
  <2>1. Occupied(t, p) /\ \A q \in 0 .. cap - 1 : q # p => t[q] = s[q]
    BY WriteSlots
  <2> HIDE DEF t
  <2> QED
    BY <2>1 DEF State, Occupied
<1>2. /\ IsFiniteSet(O) /\ Cardinality(O) \in Nat
      /\ IsFiniteSet(D) /\ Cardinality(D) \in Nat
  BY InFinite
<1>3. p \in O <=> Occupied(s, p)
  BY DEF In, Occupied
<1>4. p \in D <=> State(s, p) = "tombstone"
  BY DEF In
<1>5. In(t, cap, "occupied") = O \cup {p}
  <2> HIDE DEF t
  <2> QED
    BY <1>1 DEF In
<1>6. In(t, cap, "tombstone") = D \ {p}
  <2> HIDE DEF t
  <2> QED
    BY <1>1 DEF In
<1> HIDE DEF O, D
<1>7. Cardinality(O \cup {p}) = IF p \in O THEN Cardinality(O) ELSE Cardinality(O) + 1
  BY <1>2, FS_AddElement
<1>8. Cardinality(D \ {p}) = IF p \in D THEN Cardinality(D) - 1 ELSE Cardinality(D)
  BY <1>2, FS_RemoveElement
<1>9. Cardinality(In(t, cap, "occupied")) = Cardinality(O) + (IF Occupied(s, p) THEN 0 ELSE 1)
  BY <1>2, <1>3, <1>5, <1>7
<1>10. Cardinality(In(t, cap, "tombstone"))
         = Cardinality(D) - (IF State(s, p) = "tombstone" THEN 1 ELSE 0)
  <2>1. CASE State(s, p) = "tombstone"
    BY <1>2, <1>4, <1>6, <1>8, <2>1
  <2>2. CASE State(s, p) # "tombstone"
    BY <1>2, <1>4, <1>6, <1>8, <2>2
  <2> QED
    BY <2>1, <2>2
<1> QED
  BY <1>9, <1>10 DEF O, D

-----------------------------------------------------------------------------
(* hashmapResize *)

\* The slot that Put finds is on the key's path and not occupied.
LEMMA PutFinds ==
  ASSUME NEW cap \in Nat, cap > 0, NEW s \in Tables(cap), NEW k \in Keys, NEW v,
         \E p \in 0 .. cap - 1 : ~Occupied(s, p)
  PROVE  \E i \in Path(s, k, cap) : /\ Put(s, k, v, cap) = Write(s, At(k, i, cap), k, v)
                                    /\ ~Occupied(s, At(k, i, cap))
<1> DEFINE free == {i \in 0 .. cap - 1 : ~Occupied(s, At(k, i, cap))}
<1>1. PICK p \in 0 .. cap - 1 : ~Occupied(s, p)
  OBVIOUS
<1>2. PICK i \in 0 .. cap - 1 : At(k, i, cap) = p
  BY AtOnto
<1>3. free \in SUBSET Nat /\ free # {}
  BY <1>1, <1>2
<1>4. Min(free) \in free /\ \A y \in free : Min(free) <= y
  <2> HIDE DEF free
  <2> QED
    BY <1>3, MinIn
<1>5. PICK m : m = Min(free)
  OBVIOUS
<1>6. m \in 0 .. cap - 1 /\ ~Occupied(s, At(k, m, cap))
  BY <1>4, <1>5
<1>7. ASSUME NEW j \in 0 .. m - 1 PROVE State(s, At(k, j, cap)) # "empty"
  <2>1. j \in 0 .. cap - 1 /\ ~(m <= j)
    BY <1>6
  <2>2. j \notin free
    BY <1>4, <1>5, <2>1
  <2>3. Occupied(s, At(k, j, cap))
    BY <2>1, <2>2
  <2> QED
    BY <2>3 DEF Occupied
<1>8. m \in Path(s, k, cap)
  BY <1>6, <1>7 DEF Path
<1>9. Put(s, k, v, cap) = Write(s, At(k, m, cap), k, v)
  BY <1>5 DEF Put, Write
<1> QED
  BY <1>6, <1>8, <1>9

\* The entries of t are those in the first n slots of the old table.
Refilled(old, n, t, cap) ==
  /\ \A p \in 0 .. n - 1 : Occupied(old, p) =>
       \E q \in 0 .. cap - 1 : Has(t, q, old[p].key) /\ t[q].val = old[p].val
  /\ \A q \in 0 .. cap - 1 : Occupied(t, q) =>
       \E p \in 0 .. n - 1 : Has(old, p, t[q].key) /\ t[q].val = old[p].val

\* What holds of the new table when the first n slots are re-inserted.
Refilling(old, n, t, cap) ==
  /\ t \in Tables(cap) /\ Reach(t, cap) /\ Unique(t, cap)
  /\ \A p \in 0 .. cap - 1 : State(t, p) # "tombstone"
  /\ Refilled(old, n, t, cap)
  /\ Cardinality(In(t, cap, "occupied")) = Cardinality(In(old, n, "occupied"))

LEMMA RefillStarts ==
  ASSUME NEW cap \in Nat, NEW old
  PROVE  Refilling(old, 0, Fresh(cap), cap)
<1>1. Fresh(cap) \in Tables(cap) /\ \A p \in 0 .. cap - 1 : State(Fresh(cap), p) = "empty"
  BY FreshTable
<1>2. Reach(Fresh(cap), cap) /\ Unique(Fresh(cap), cap)
  BY FreshSound
<1>3. In(Fresh(cap), cap, "occupied") = {} /\ In(old, 0, "occupied") = {}
  BY <1>1 DEF In
<1>4. Refilled(old, 0, Fresh(cap), cap)
  BY <1>1 DEF Refilled, Occupied
<1> QED
  BY <1>1, <1>2, <1>3, <1>4 DEF Refilling

\* One more slot of the old table.
LEMMA RefillSkips ==
  ASSUME NEW cap \in Nat, NEW old, NEW n \in Nat, NEW t, Refilling(old, n, t, cap),
         ~Occupied(old, n)
  PROVE  Refilling(old, n + 1, t, cap)
<1>1. \A p \in 0 .. (n + 1) - 1 : p \in 0 .. n - 1 \/ p = n
  OBVIOUS
<1>2. \A p \in 0 .. n - 1 : p \in 0 .. (n + 1) - 1
  OBVIOUS
<1>3. In(old, n + 1, "occupied") = In(old, n, "occupied")
  BY <1>1, <1>2 DEF In, Occupied
<1>4. Refilled(old, n, t, cap)
  BY DEF Refilling
<1>5. ASSUME NEW p \in 0 .. (n + 1) - 1, Occupied(old, p)
      PROVE  \E q \in 0 .. cap - 1 : Has(t, q, old[p].key) /\ t[q].val = old[p].val
  BY <1>1, <1>4, <1>5 DEF Refilled
<1>6. ASSUME NEW q \in 0 .. cap - 1, Occupied(t, q)
      PROVE  \E p \in 0 .. (n + 1) - 1 : Has(old, p, t[q].key) /\ t[q].val = old[p].val
  BY <1>2, <1>4, <1>6 DEF Refilled
<1>7. Refilled(old, n + 1, t, cap)
  BY <1>5, <1>6 DEF Refilled
<1> QED
  BY <1>3, <1>7 DEF Refilling

LEMMA RefillPuts ==
  ASSUME NEW N \in Nat, NEW cap \in Nat, N <= cap, NEW old \in Tables(N), Unique(old, N),
         NEW n \in 0 .. N - 1, NEW t, Refilling(old, n, t, cap), Occupied(old, n)
  PROVE  Refilling(old, n + 1, Put(t, old[n].key, old[n].val, cap), cap)
<1> DEFINE k == old[n].key
           v == old[n].val
           u == Put(t, k, v, cap)
<1>1. k \in Keys /\ v \in Values
  BY SlotFields DEF Tables, Occupied, State
<1>2. n \in Nat /\ cap > 0 /\ n < cap
  OBVIOUS
<1>3. /\ t \in Tables(cap) /\ Reach(t, cap) /\ Unique(t, cap)
      /\ \A p \in 0 .. cap - 1 : State(t, p) # "tombstone"
      /\ Refilled(old, n, t, cap)
      /\ Cardinality(In(t, cap, "occupied")) = Cardinality(In(old, n, "occupied"))
  BY DEF Refilling
<1>4. \E p \in 0 .. cap - 1 : ~Occupied(t, p)
  <2>1. SUFFICES ASSUME \A p \in 0 .. cap - 1 : Occupied(t, p) PROVE FALSE
    OBVIOUS
  <2>2. In(t, cap, "occupied") = 0 .. cap - 1
    BY <2>1 DEF In, Occupied
  <2>3. Cardinality(0 .. cap - 1) = cap
    BY FS_Interval
  <2>4. In(old, n, "occupied") \in SUBSET (0 .. n - 1)
    BY DEF In
  <2>5. IsFiniteSet(0 .. n - 1) /\ Cardinality(0 .. n - 1) = n
    <3>1. n - 1 \in Int /\ 0 \in Int /\ (0 > n - 1 <=> n = 0)
      BY <1>2
    <3>2. /\ IsFiniteSet(0 .. n - 1)
          /\ Cardinality(0 .. n - 1) = IF 0 > n - 1 THEN 0 ELSE (n - 1) - 0 + 1
      BY <3>1, FS_Interval
    <3> QED
      BY <1>2, <3>1, <3>2
  <2>6. Cardinality(In(old, n, "occupied")) <= n
    BY <2>4, <2>5, FS_Subset
  <2> QED
    BY <1>2, <1>3, <2>2, <2>3, <2>6
<1>5. PICK i \in Path(t, k, cap) : /\ u = Write(t, At(k, i, cap), k, v)
                                  /\ ~Occupied(t, At(k, i, cap))
  <2> HIDE DEF k, v
  <2> QED
    BY <1>1, <1>2, <1>3, <1>4, PutFinds
<1>6. PICK p : p = At(k, i, cap)
  OBVIOUS
<1>7. p \in 0 .. cap - 1
  <2>1. i \in Nat
    BY DEF Path
  <2> HIDE DEF k
  <2> QED
    BY <1>1, <1>2, <1>6, <2>1, AtSlot
<1>8. u = Write(t, p, k, v) /\ ~Occupied(t, p)
  BY <1>5, <1>6
<1>9. ASSUME NEW q \in 0 .. cap - 1 PROVE ~Has(t, q, k)
  <2>1. SUFFICES ASSUME Occupied(t, q), t[q].key = k PROVE FALSE
    BY DEF Has
  <2>2. PICK m \in 0 .. n - 1 : Has(old, m, t[q].key)
    BY <1>3, <2>1 DEF Refilled
  <2>3. m \in 0 .. N - 1 /\ n \in 0 .. N - 1 /\ m # n
    OBVIOUS
  <2>4. Occupied(old, m) /\ old[m].key = old[n].key
    BY <2>1, <2>2 DEF Has
  <2> QED
    BY <2>3, <2>4 DEF Unique
<1> HIDE DEF k, v, u
<1>10. Reach(u, cap)
  BY <1>1, <1>2, <1>3, <1>5, WriteReach
<1>11. Unique(u, cap)
  BY <1>1, <1>3, <1>7, <1>8, <1>9, WriteUnique
<1>12. /\ u \in Tables(cap) /\ Occupied(u, p) /\ u[p].key = k /\ u[p].val = v
       /\ \A q \in 0 .. cap - 1 : q # p => u[q] = t[q]
  BY <1>1, <1>3, <1>7, <1>8, WriteSlots
<1>13. \A q \in 0 .. cap - 1 : State(u, q) # "tombstone"
  BY <1>3, <1>12 DEF State, Occupied
<1>14. Cardinality(In(u, cap, "occupied")) = Cardinality(In(old, n + 1, "occupied"))
  <2>1. Cardinality(In(u, cap, "occupied")) = Cardinality(In(t, cap, "occupied")) + 1
    BY <1>1, <1>3, <1>7, <1>8, WriteCounts
  <2>2. In(old, n + 1, "occupied") = In(old, n, "occupied") \cup {n}
    <3>1. \A x \in 0 .. (n + 1) - 1 : x \in 0 .. n - 1 \/ x = n
      BY <1>2
    <3>2. \A x \in 0 .. n - 1 : x \in 0 .. (n + 1) - 1
      BY <1>2
    <3> QED
      BY <1>2, <3>1, <3>2 DEF In, Occupied
  <2>3. IsFiniteSet(In(old, n, "occupied")) /\ Cardinality(In(old, n, "occupied")) \in Nat
    BY <1>2, InFinite
  <2>5. n \notin In(old, n, "occupied")
    BY <1>2 DEF In
  <2>4. Cardinality(In(old, n + 1, "occupied")) = Cardinality(In(old, n, "occupied")) + 1
    BY <2>2, <2>3, <2>5, FS_AddElement
  <2> QED
    BY <1>3, <2>1, <2>4
<1>15. ASSUME NEW x \in 0 .. (n + 1) - 1, Occupied(old, x)
       PROVE  \E q \in 0 .. cap - 1 : Has(u, q, old[x].key) /\ u[q].val = old[x].val
  <2>1. CASE x = n
    BY <1>7, <1>12, <2>1 DEF Has, k, v
  <2>2. CASE x # n
    <3>1. x \in 0 .. n - 1
      BY <1>2, <2>2
    <3>2. PICK q \in 0 .. cap - 1 : Has(t, q, old[x].key) /\ t[q].val = old[x].val
      BY <1>3, <1>15, <3>1 DEF Refilled
    <3>3. q # p
      BY <1>8, <3>2 DEF Has
    <3>4. u[q] = t[q]
      BY <1>12, <3>3
    <3> QED
      BY <3>2, <3>4 DEF Has, Occupied, State
  <2> QED
    BY <2>1, <2>2
<1>16. ASSUME NEW q \in 0 .. cap - 1, Occupied(u, q)
       PROVE  \E x \in 0 .. (n + 1) - 1 : Has(old, x, u[q].key) /\ u[q].val = old[x].val
  <2>1. CASE q = p
    <3>1. n \in 0 .. (n + 1) - 1
      BY <1>2
    <3> QED
      BY <1>12, <2>1, <3>1 DEF Has, k, v
  <2>2. CASE q # p
    <3>1. u[q] = t[q] /\ Occupied(t, q)
      BY <1>12, <1>16, <2>2 DEF Occupied, State
    <3>2. PICK x \in 0 .. n - 1 : Has(old, x, t[q].key) /\ t[q].val = old[x].val
      BY <1>3, <3>1 DEF Refilled
    <3>3. x \in 0 .. (n + 1) - 1
      BY <1>2
    <3> QED
      BY <3>1, <3>2, <3>3
  <2> QED
    BY <2>1, <2>2
<1>17. Refilled(old, n + 1, u, cap)
  BY <1>15, <1>16 DEF Refilled
<1>18. Refilling(old, n + 1, u, cap)
  BY <1>10, <1>11, <1>12, <1>13, <1>14, <1>17 DEF Refilling
<1> QED
  BY <1>18 DEF u, k, v

\* The re-insertion loop: a table of at least the old size ends up with every
\* entry of the old one, each where its search finds it, and no tombstone.
LEMMA RebuiltRefills ==
  ASSUME capacity \in Nat, slots \in Tables(capacity), Unique(slots, capacity),
         NEW cap \in Nat, capacity <= cap
  PROVE  Refilling(slots, capacity, Rebuilt(cap), cap)
<1> DEFINE Step(f) == [n \in 0 .. capacity |->
                         IF n = 0 THEN Fresh(cap)
                         ELSE IF Occupied(slots, n - 1)
                           THEN Put(f[n - 1], slots[n - 1].key, slots[n - 1].val, cap)
                           ELSE f[n - 1]]
           after == CHOOSE f : f = Step(f)
           g == [n \in 1 .. capacity |->
                   [s \in Tables(cap) |->
                      IF Occupied(slots, n - 1)
                        THEN Put(s, slots[n - 1].key, slots[n - 1].val, cap) ELSE s]]
<1>1. g \in [1 .. capacity -> [Tables(cap) -> Tables(cap)]]
  <2>1. ASSUME NEW n \in 1 .. capacity, NEW s \in Tables(cap), Occupied(slots, n - 1)
        PROVE  Put(s, slots[n - 1].key, slots[n - 1].val, cap) \in Tables(cap)
    <3>1. n - 1 \in 0 .. capacity - 1
      OBVIOUS
    <3>2. slots[n - 1].key \in Keys /\ slots[n - 1].val \in Values
      BY <2>1, <3>1, SlotFields DEF Tables, Occupied, State
    <3>3. \A k \in Keys, v \in Values : \A p : Write(s, p, k, v) \in Tables(cap)
      BY WriteTyped
    <3>4. \A k \in Keys, v \in Values : Put(s, k, v, cap) \in Tables(cap)
      BY <3>3 DEF Put, Write
    <3> QED
      BY <3>2, <3>4
  <2> QED
    BY <2>1
<1>2. PICK w \in [0 .. capacity -> Tables(cap)] :
        /\ w[0] = Fresh(cap)
        /\ \A n \in 1 .. capacity : w[n] = g[n][w[n - 1]]
  <2> DEFINE S == Tables(cap)
             a == Fresh(cap)
  <2>1. a \in S /\ g \in Steps(capacity, S)
    BY <1>1, FreshTable DEF Steps
  <2> HIDE DEF g, S, a
  <2>2. PICK f : Follows(f, capacity, S, a, g)
    BY <2>1, StepwiseFunction
  <2> QED
    BY <2>2 DEF Follows, S, a
<1>3. w = Step(w)
  <2>1. ASSUME NEW n \in 0 .. capacity
        PROVE  w[n] = IF n = 0 THEN Fresh(cap)
                      ELSE IF Occupied(slots, n - 1)
                        THEN Put(w[n - 1], slots[n - 1].key, slots[n - 1].val, cap)
                        ELSE w[n - 1]
    <3>1. CASE n = 0
      BY <1>2, <3>1
    <3>2. CASE n # 0
      <4>1. n \in 1 .. capacity /\ n - 1 \in 0 .. capacity
        BY <3>2
      <4>2. w[n - 1] \in Tables(cap)
        BY <4>1
      <4>3. w[n] = g[n][w[n - 1]]
        BY <1>2, <4>1
      <4> QED
        BY <3>2, <4>1, <4>2, <4>3
    <3> QED
      BY <3>1, <3>2
  <2>2. w = [n \in 0 .. capacity |-> w[n]]
    OBVIOUS
  <2> QED
    BY <2>1, <2>2
<1>4. after = Step(after)
  <2> HIDE DEF Step
  <2> QED
    BY <1>3
<1>5. Rebuilt(cap) = after[capacity]
  BY DEF Rebuilt
<1> HIDE DEF after, g
<1> DEFINE T == {n \in Nat : n <= capacity => Refilling(slots, n, after[n], cap)}
<1>6. 0 \in T
  <2>1. after[0] = Fresh(cap)
    BY <1>4
  <2> QED
    BY <2>1, RefillStarts
<1>7. ASSUME NEW n \in T PROVE n + 1 \in T
  <2> SUFFICES ASSUME n + 1 <= capacity
               PROVE  Refilling(slots, n + 1, after[n + 1], cap)
    OBVIOUS
  <2>1. /\ n + 1 \in 0 .. capacity /\ n + 1 # 0 /\ (n + 1) - 1 = n
        /\ n \in 0 .. capacity - 1 /\ Refilling(slots, n, after[n], cap)
    OBVIOUS
  <2>2. after[n + 1] = IF Occupied(slots, n)
                         THEN Put(after[n], slots[n].key, slots[n].val, cap)
                         ELSE after[n]
    BY <1>4, <2>1
  <2>3. CASE Occupied(slots, n)
    <3>1. Refilling(slots, n + 1, Put(after[n], slots[n].key, slots[n].val, cap), cap)
      BY <2>1, <2>3, RefillPuts
    <3> QED
      BY <2>2, <2>3, <3>1
  <2>4. CASE ~Occupied(slots, n)
    <3>1. Refilling(slots, n + 1, after[n], cap)
      BY <2>1, <2>4, RefillSkips
    <3> QED
      BY <2>2, <2>4, <3>1
  <2> QED
    BY <2>3, <2>4
<1>8. T \in SUBSET Nat
  OBVIOUS
<1> HIDE DEF T
<1>9. T = Nat
  BY <1>6, <1>7, <1>8, SetInduction
<1>10. Refilling(slots, capacity, after[capacity], cap)
  BY <1>9 DEF T
<1> QED
  BY <1>5, <1>10

-----------------------------------------------------------------------------
(* Keys stay reachable *)

\* The buffer is as large as the map believes unless a rebuild has failed,
\* and in such a buffer the keys are unique and can be reached.
MapInv ==
  /\ \E n \in Nat : slots \in Tables(n)
  /\ capacity \in Nat /\ (capacity = 0 \/ capacity >= 4)
  /\ count \in Nat /\ tombstoneCount \in Nat
  /\ Sound => Reach(slots, capacity) /\ Unique(slots, capacity)

LEMMA SoundTable ==
  ASSUME NEW n \in Nat, NEW cap \in Nat, NEW s \in Tables(n), DOMAIN s = 0 .. cap - 1
  PROVE  s \in Tables(cap)
  BY DEF Tables

\* The table that Set works on.
LEMMA TableSound ==
  ASSUME MapInv, Sound
  PROVE  /\ TableCapacity \in Nat /\ TableCapacity >= 4 /\ TableCapacity >= capacity
         /\ Table \in Tables(TableCapacity)
         /\ Reach(Table, TableCapacity) /\ Unique(Table, TableCapacity)
         /\ Refilled(slots, capacity, Table, TableCapacity)
         /\ Entries \in Nat /\ Tombstones \in Nat
<1>1. /\ capacity \in Nat /\ (capacity = 0 \/ capacity >= 4)
      /\ count \in Nat /\ tombstoneCount \in Nat
      /\ Reach(slots, capacity) /\ Unique(slots, capacity)
  BY DEF MapInv
<1>2. slots \in Tables(capacity)
  BY <1>1, SoundTable DEF MapInv, Sound
<1>3. CASE MustResize
  <2>1. NewCapacity \in Nat /\ NewCapacity >= 4 /\ NewCapacity >= capacity
    BY <1>1, MapAssumption DEF NewCapacity
  <2>2. Refilling(slots, capacity, Rebuilt(NewCapacity), NewCapacity)
    BY <1>1, <1>2, <2>1, RebuiltRefills
  <2>3. /\ TableCapacity = NewCapacity /\ Table = Rebuilt(NewCapacity)
        /\ Entries = Cardinality(With("occupied")) /\ Tombstones = 0
    BY <1>3 DEF TableCapacity, Table, Entries, Tombstones
  <2>4. With("occupied") = In(slots, capacity, "occupied")
    BY DEF With, In, Sound
  <2>5. Cardinality(With("occupied")) \in Nat
    BY <1>1, <2>4, InFinite
  <2> QED
    BY <2>1, <2>2, <2>3, <2>5 DEF Refilling
<1>4. CASE ~MustResize
  <2>1. /\ TableCapacity = capacity /\ Table = slots
        /\ Entries = count /\ Tombstones = tombstoneCount
    BY <1>4 DEF TableCapacity, Table, Entries, Tombstones
  <2>2. capacity >= 4
    BY <1>1, <1>4 DEF MustResize
  <2>3. Refilled(slots, capacity, slots, capacity)
    BY DEF Refilled, Has
  <2> QED
    BY <1>1, <1>2, <2>1, <2>2, <2>3
<1> QED
  BY <1>3, <1>4

\* Where Set writes: on the key's path, and where the key was if it was stored.
LEMMA TargetFound ==
  ASSUME NEW cap \in Nat, cap > 0, NEW s \in Tables(cap), Reach(s, cap), Unique(s, cap),
         NEW k \in Keys,
         Matches(s, k, cap) \cup Tombs(s, k, cap) \cup Unused(s, k, cap) # {}
  PROVE  /\ \E i \in Path(s, k, cap) : Target(s, k, cap) = At(k, i, cap)
         /\ Target(s, k, cap) \in 0 .. cap - 1
         /\ \A q \in 0 .. cap - 1 : Has(s, q, k) => q = Target(s, k, cap)
         /\ Occupied(s, Target(s, k, cap)) => s[Target(s, k, cap)].key = k
<1> DEFINE M == Matches(s, k, cap)
           D == Tombs(s, k, cap)
           U == Unused(s, k, cap)
           offsets == IF M # {} THEN M ELSE IF D # {} THEN D ELSE U
<1>1. /\ M \in SUBSET Path(s, k, cap) /\ D \in SUBSET Path(s, k, cap)
      /\ U \in SUBSET Path(s, k, cap) /\ Path(s, k, cap) \in SUBSET (0 .. cap - 1)
  BY DEF Matches, Tombs, Unused, Path
<1>2. Target(s, k, cap) = At(k, Min(offsets), cap)
  BY DEF Target
<1>3. \A i \in M : Has(s, At(k, i, cap), k)
  BY DEF Matches, Has
<1>4. \A i \in D \cup U : ~Occupied(s, At(k, i, cap))
  BY DEF Tombs, Unused, Occupied
<1>5. ASSUME NEW q \in 0 .. cap - 1, Has(s, q, k)
      PROVE  \E i \in M : At(k, i, cap) = q
  <2>1. Occupied(s, q) /\ s[q].key = k
    BY <1>5 DEF Has
  <2>2. PICK i \in Path(s, k, cap) : At(k, i, cap) = q
    BY <2>1 DEF Reach
  <2> QED
    BY <2>1, <2>2 DEF Matches
<1> HIDE DEF M, D, U
<1>6. offsets \in SUBSET Nat /\ offsets # {} /\ offsets \in SUBSET Path(s, k, cap)
  <2>1. offsets \in SUBSET Path(s, k, cap)
    BY <1>1
  <2>2. offsets # {}
    BY DEF M, D, U
  <2> HIDE DEF offsets
  <2> QED
    BY <1>1, <2>1, <2>2
<1>7. M # {} => offsets = M
  OBVIOUS
<1>8. M = {} => offsets \in SUBSET (D \cup U)
  OBVIOUS
<1> HIDE DEF offsets
<1>9. PICK m \in offsets : m = Min(offsets)
  BY <1>6, MinIn
<1>10. PICK p : p = At(k, m, cap)
  OBVIOUS
<1>11. m \in Path(s, k, cap) /\ m \in 0 .. cap - 1 /\ Target(s, k, cap) = p
  BY <1>1, <1>2, <1>6, <1>9, <1>10
<1>12. p \in 0 .. cap - 1
  BY <1>10, <1>11, AtSlot
<1>13. CASE M # {}
  <2>1. Has(s, p, k)
    BY <1>3, <1>7, <1>10, <1>13
  <2>2. \A q \in 0 .. cap - 1 : Has(s, q, k) => q = p
    BY <1>12, <2>1 DEF Has, Unique
  <2> QED
    BY <1>10, <1>11, <1>12, <2>1, <2>2 DEF Has
<1>14. CASE M = {}
  <2>1. ~Occupied(s, p)
    BY <1>4, <1>8, <1>10, <1>14
  <2>2. \A q \in 0 .. cap - 1 : ~Has(s, q, k)
    BY <1>5, <1>14
  <2> QED
    BY <1>10, <1>11, <1>12, <2>1, <2>2
<1> QED
  BY <1>13, <1>14

\* What Set leaves behind.
LEMMA SetWrites ==
  ASSUME MapInv, NEW k \in Keys, NEW v \in Values, Set(k, v)
  PROVE  \E p \in 0 .. TableCapacity - 1 :
           /\ slots' = Write(Table, p, k, v) /\ capacity' = TableCapacity
           /\ count' = Entries + (IF Occupied(Table, p) THEN 0 ELSE 1)
           /\ tombstoneCount' =
                (Tombstones - (IF State(Table, p) = "tombstone" THEN 1 ELSE 0)) % Word
           /\ failed' = failed
           /\ Reach(slots', capacity') /\ Unique(slots', capacity')
           /\ slots' \in Tables(capacity')
           /\ \A q \in 0 .. TableCapacity - 1 : Has(Table, q, k) => q = p
           /\ Occupied(Table, p) => Table[p].key = k
<1> DEFINE s == Table
           cap == TableCapacity
           p == Target(s, k, cap)
<1>1. Sound /\ SetIn(s, k, v, cap)
  BY DEF Set
<1>2. /\ cap \in Nat /\ cap > 0 /\ s \in Tables(cap)
      /\ Reach(s, cap) /\ Unique(s, cap)
  BY <1>1, TableSound
<1> HIDE DEF s, cap
<1>3. /\ Matches(s, k, cap) \cup Tombs(s, k, cap) \cup Unused(s, k, cap) # {}
      /\ slots' = Write(s, p, k, v) /\ capacity' = cap
      /\ count' = Entries + (IF Occupied(s, p) THEN 0 ELSE 1)
      /\ tombstoneCount' = (Tombstones - (IF State(s, p) = "tombstone" THEN 1 ELSE 0)) % Word
      /\ failed' = failed
  BY <1>1 DEF SetIn, Write
<1>4. /\ \E i \in Path(s, k, cap) : p = At(k, i, cap)
      /\ p \in 0 .. cap - 1
      /\ \A q \in 0 .. cap - 1 : Has(s, q, k) => q = p
      /\ Occupied(s, p) => s[p].key = k
  BY <1>2, <1>3, TargetFound
<1> HIDE DEF p
<1>5. Reach(slots', cap)
  BY <1>2, <1>3, <1>4, WriteReach
<1>6. Unique(slots', cap)
  BY <1>2, <1>3, <1>4, WriteUnique
<1>7. slots' \in Tables(cap)
  BY <1>2, <1>3, <1>4, WriteSlots
<1> QED
  BY <1>3, <1>4, <1>5, <1>6, <1>7 DEF s, cap

\* What Remove leaves behind.
LEMMA RemoveMarks ==
  ASSUME MapInv, NEW k \in Keys, Remove(k)
  PROVE  \E p \in 0 .. capacity - 1 :
           /\ capacity > 0 /\ slots \in Tables(capacity) /\ Has(slots, p, k)
           /\ slots' \in Tables(capacity) /\ State(slots', p) = "tombstone"
           /\ \A q \in 0 .. capacity - 1 : q # p => slots'[q] = slots[q]
<1> DEFINE M == Matches(slots, k, capacity)
<1>1. /\ capacity \in Nat /\ M # {} /\ Sound
      /\ slots' = Removed(At(k, Min(M), capacity))
  BY DEF MapInv, Remove
<1>2. slots \in Tables(capacity)
  BY <1>1, SoundTable DEF MapInv, Sound
<1>3. M \in SUBSET (0 .. capacity - 1) /\ \A i \in M : Has(slots, At(k, i, capacity), k)
  BY DEF Matches, Path, Has
<1> HIDE DEF M
<1>4. M \in SUBSET Nat
  BY <1>1, <1>3
<1>5. PICK m \in M : m = Min(M)
  BY <1>1, <1>4, MinIn
<1>6. PICK p : p = At(k, m, capacity)
  OBVIOUS
<1>7. capacity > 0 /\ p \in 0 .. capacity - 1 /\ Has(slots, p, k)
  <2>1. capacity > 0 /\ m \in Nat
    BY <1>1, <1>3
  <2> QED
    BY <1>1, <1>3, <1>5, <1>6, <2>1, AtSlot
<1>8. slots' = Removed(p)
  BY <1>1, <1>5, <1>6
<1> DEFINE x == [slots[p] EXCEPT !.state = "tombstone"]
<1>9. x \in SlotSet /\ x.state = "tombstone"
  <2>1. slots[p] \in SlotSet /\ slots[p].state # "empty"
    BY <1>2, <1>7 DEF Has, Occupied, State, Tables
  <2> QED
    BY <2>1, TombstoneSlot
<1>10. slots' = [slots EXCEPT ![p] = x]
  BY <1>8 DEF Removed
<1> HIDE DEF x
<1>11. /\ slots' \in Tables(capacity) /\ State(slots', p) = "tombstone"
       /\ \A q \in 0 .. capacity - 1 : q # p => slots'[q] = slots[q]
  BY <1>2, <1>7, <1>9, <1>10 DEF Tables, State
<1> QED
  BY <1>2, <1>7, <1>11

\* A tombstone hides no key behind it.
LEMMA MarkSound ==
  ASSUME NEW cap \in Nat, cap > 0, NEW s \in Tables(cap), NEW t \in Tables(cap),
         Reach(s, cap), Unique(s, cap), NEW p \in 0 .. cap - 1,
         State(t, p) = "tombstone",
         \A q \in 0 .. cap - 1 : q # p => t[q] = s[q]
  PROVE  Reach(t, cap) /\ Unique(t, cap)
<1>1. \A q \in 0 .. cap - 1 : State(s, q) # "empty" => State(t, q) # "empty"
  BY DEF State
<1>2. \A q \in 0 .. cap - 1 : Occupied(t, q) => Occupied(s, q) /\ t[q] = s[q]
  BY DEF Occupied, State
<1>3. ASSUME NEW q \in 0 .. cap - 1, Occupied(t, q)
      PROVE  \E j \in Path(t, t[q].key, cap) : At(t[q].key, j, cap) = q
  <2>1. Occupied(s, q) /\ t[q] = s[q]
    BY <1>2, <1>3
  <2>2. PICK j \in Path(s, s[q].key, cap) : At(s[q].key, j, cap) = q
    BY <2>1 DEF Reach
  <2>3. s[q].key \in Keys
    BY <2>1, SlotFields DEF Tables, Occupied, State
  <2>4. j \in Path(t, s[q].key, cap)
    BY <1>1, <2>3, PathGrows
  <2> QED
    BY <2>1, <2>2, <2>4
<1>4. Unique(t, cap)
  BY <1>2 DEF Unique
<1> QED
  BY <1>3, <1>4 DEF Reach

LEMMA MapInvInit == Init => MapInv
<1> SUFFICES ASSUME Init PROVE MapInv
  OBVIOUS
<1>1. slots = Fresh(0) /\ capacity = 0 /\ count = 0 /\ tombstoneCount = 0
  BY DEF Init
<1>2. Fresh(0) \in Tables(0) /\ Reach(Fresh(0), 0) /\ Unique(Fresh(0), 0)
  BY FreshTable, FreshSound
<1> QED
  BY <1>1, <1>2 DEF MapInv

\* A fresh buffer.
LEMMA MapInvFresh ==
  ASSUME NEW n \in Nat, n = 0 \/ n >= 4, slots' = Fresh(n), capacity' = n,
         count' = 0, tombstoneCount' = 0
  PROVE  MapInv'
<1>1. Fresh(n) \in Tables(n) /\ Reach(Fresh(n), n) /\ Unique(Fresh(n), n)
  BY FreshTable, FreshSound
<1>2. slots' \in Tables(n) /\ Reach(slots', capacity') /\ Unique(slots', capacity')
  BY <1>1, SMTT(60)
<1>3. Reach(slots, capacity)' /\ Unique(slots, capacity)'
  BY <1>2 DEF Reach, Unique, Path, At, State, Occupied
<1> QED
  BY <1>2, <1>3 DEF MapInv, Tables

LEMMA CreateSize ==
  ASSUME NEW n \in Targets
  PROVE  NextPowerOfTwo(n) \in Nat /\ NextPowerOfTwo(n) >= 4
<1>1. n \in Nat /\ DefaultCapacity \in Nat /\ DefaultCapacity >= 4
  BY MapAssumption
<1>2. CASE n < DefaultCapacity
  BY <1>1, <1>2 DEF NextPowerOfTwo
<1>3. CASE ~(n < DefaultCapacity)
  <2>1. n > 0
    BY <1>1, <1>3
  <2>2. PowerAtLeast(n) \in n .. 2 * n - 1
    BY <1>1, <2>1, PowerAtLeastFits
  <2> QED
    BY <1>1, <1>3, <2>2 DEF NextPowerOfTwo
<1> QED
  BY <1>2, <1>3

LEMMA WordRemainder ==
  ASSUME NEW x \in Int
  PROVE  x % Word \in Nat
<1>1. Word \in Nat /\ Word > 0
  BY MapAssumption
<1> QED
  BY <1>1

LEMMA MapInvNext == MapInv /\ [Next]_vars => MapInv'
<1> SUFFICES ASSUME MapInv, [Next]_vars PROVE MapInv'
  OBVIOUS
<1>1. ASSUME NEW n \in Targets, Create(n) PROVE MapInv'
  <2>1. NextPowerOfTwo(n) \in Nat /\ NextPowerOfTwo(n) >= 4
    BY CreateSize
  <2> QED
    BY <1>1, <2>1, MapInvFresh DEF Create
<1>2. ASSUME NEW k \in Keys, Remove(k) PROVE MapInv'
  <2>1. PICK p \in 0 .. capacity - 1 :
          /\ capacity > 0 /\ slots \in Tables(capacity) /\ Has(slots, p, k)
          /\ slots' \in Tables(capacity) /\ State(slots', p) = "tombstone"
          /\ \A q \in 0 .. capacity - 1 : q # p => slots'[q] = slots[q]
    BY <1>2, RemoveMarks
  <2>2. /\ capacity \in Nat /\ capacity >= 4 /\ count \in Nat /\ tombstoneCount \in Nat
        /\ Reach(slots, capacity) /\ Unique(slots, capacity)
    BY <1>2, <2>1 DEF MapInv, Remove
  <2>3. capacity' = capacity /\ count' \in Nat /\ tombstoneCount' \in Nat
    BY <1>2, <2>2, WordRemainder DEF Remove
  <2>4. Reach(slots', capacity) /\ Unique(slots', capacity)
    BY <2>1, <2>2, MarkSound, SMTT(60)
  <2>5. Reach(slots, capacity)' /\ Unique(slots, capacity)'
    BY <2>3, <2>4 DEF Reach, Unique, Path, At, State, Occupied
  <2> QED
    BY <2>1, <2>2, <2>3, <2>5 DEF MapInv, Tables
<1>3. ASSUME NEW k \in Keys, NEW v \in Values, Set(k, v) PROVE MapInv'
  <2>1. PICK p \in 0 .. TableCapacity - 1 :
          /\ slots' = Write(Table, p, k, v) /\ capacity' = TableCapacity
          /\ count' = Entries + (IF Occupied(Table, p) THEN 0 ELSE 1)
          /\ tombstoneCount' =
               (Tombstones - (IF State(Table, p) = "tombstone" THEN 1 ELSE 0)) % Word
          /\ Reach(slots', capacity') /\ Unique(slots', capacity')
          /\ slots' \in Tables(capacity')
    BY <1>3, SetWrites
  <2>2. Sound
    BY <1>3 DEF Set
  <2>3. /\ TableCapacity \in Nat /\ TableCapacity >= 4
        /\ Entries \in Nat /\ Tombstones \in Nat
    BY <2>2, TableSound
  <2>4. capacity' \in Nat /\ capacity' >= 4 /\ count' \in Nat
    BY <2>1, <2>3
  <2>5. tombstoneCount' \in Nat
    <3>1. Tombstones - (IF State(Table, p) = "tombstone" THEN 1 ELSE 0) \in Int
      BY <2>3, SMTT(60)
    <3> QED
      BY <2>1, <3>1, WordRemainder
  <2>6. Reach(slots, capacity)' /\ Unique(slots, capacity)'
    BY <2>1 DEF Reach, Unique, Path, At, State, Occupied
  <2> QED
    BY <2>1, <2>4, <2>5, <2>6 DEF MapInv, Tables
<1>4. ASSUME SetFails PROVE MapInv'
  <2>1. /\ capacity \in Nat /\ (capacity = 0 \/ capacity >= 4) /\ count \in Nat
        /\ Reach(slots, capacity) /\ Unique(slots, capacity)
        /\ Sound /\ slots' = slots /\ count' = 0 /\ tombstoneCount' = 0
        /\ capacity' = NewCapacity
    BY <1>4 DEF MapInv, SetFails
  <2>2. NewCapacity \in Nat /\ NewCapacity >= 4 /\ NewCapacity >= capacity
    BY <2>1, MapAssumption DEF NewCapacity
  <2>3. PICK n \in Nat : slots \in Tables(n)
    BY SMTT(60) DEF MapInv
  <2>4. ASSUME Sound' PROVE Reach(slots, capacity)' /\ Unique(slots, capacity)'
    <3>1. DOMAIN slots = 0 .. NewCapacity - 1 /\ DOMAIN slots = 0 .. capacity - 1
      BY <2>1, <2>4 DEF Sound
    <3>2. NewCapacity - 1 \in 0 .. capacity - 1
      <4>1. NewCapacity - 1 \in 0 .. NewCapacity - 1
        BY <2>2
      <4> QED
        BY <3>1, <4>1
    <3>3. capacity' = capacity
      BY <2>1, <2>2, <3>2
    <3> QED
      BY <2>1, <3>3 DEF Reach, Unique, Path, At, State, Occupied
  <2> QED
    BY <2>1, <2>2, <2>3, <2>4 DEF MapInv, Tables
<1>5. ASSUME Clear PROVE MapInv'
  BY <1>5, MapInvFresh DEF Clear, MapInv
<1>6. ASSUME Destroy PROVE MapInv'
  BY <1>6, MapInvFresh DEF Destroy
<1>7. ASSUME UNCHANGED vars PROVE MapInv'
  BY <1>7 DEF vars, MapInv, Sound, Tables, Reach, Unique, Path, At, State, Occupied
<1> QED
  BY <1>1, <1>2, <1>3, <1>4, <1>5, <1>6, <1>7 DEF Next

-----------------------------------------------------------------------------
(* The counters *)

\* The load test does not wrap: no memory holds a quarter of SIZE_MAX slots,
\* each of which is larger than four bytes.
TableFits == 4 * capacity < Word

\* The counters are those of the table, and one slot at least is unused.
Exact ==
  /\ count = Cardinality(In(slots, capacity, "occupied"))
  /\ tombstoneCount = Cardinality(In(slots, capacity, "tombstone"))
  /\ capacity > 0 => count + tombstoneCount < capacity

CountInv == MapInv /\ (~failed => Sound /\ Exact)

\* The table that Set works on has counters that fit it, and room for two.
LEMMA TableCounts ==
  ASSUME MapInv, Sound, Exact, TableFits
  PROVE  /\ Cardinality(In(Table, TableCapacity, "occupied")) = Entries
         /\ Cardinality(In(Table, TableCapacity, "tombstone")) = Tombstones
         /\ Entries + Tombstones + 1 < TableCapacity
<1>1. /\ capacity \in Nat /\ (capacity = 0 \/ capacity >= 4)
      /\ count \in Nat /\ tombstoneCount \in Nat
      /\ Reach(slots, capacity) /\ Unique(slots, capacity)
  BY DEF MapInv
<1>2. slots \in Tables(capacity)
  BY <1>1, SoundTable DEF MapInv, Sound
<1>3. CASE MustResize
  <2>1. NewCapacity \in Nat /\ NewCapacity >= 4 /\ NewCapacity >= capacity
    BY <1>1, MapAssumption DEF NewCapacity
  <2>2. Refilling(slots, capacity, Rebuilt(NewCapacity), NewCapacity)
    BY <1>1, <1>2, <2>1, RebuiltRefills
  <2>3. /\ TableCapacity = NewCapacity /\ Table = Rebuilt(NewCapacity)
        /\ Entries = Cardinality(With("occupied")) /\ Tombstones = 0
    BY <1>3 DEF TableCapacity, Table, Entries, Tombstones
  <2>4. With("occupied") = In(slots, capacity, "occupied")
    BY DEF With, In, Sound
  <2>5. Entries = count
    BY <2>3, <2>4 DEF Exact
  <2>6. Cardinality(In(Table, TableCapacity, "occupied")) = Entries
    BY <2>2, <2>3, <2>4 DEF Refilling
  <2>7. Cardinality(In(Table, TableCapacity, "tombstone")) = Tombstones
    <3>1. In(Table, TableCapacity, "tombstone") = {}
      BY <2>2, <2>3 DEF Refilling, In
    <3> QED
      BY <2>3, <3>1, FS_EmptySet
  <2>8. count + 1 < NewCapacity
    <3>1. CASE capacity = 0
      <4>1. In(slots, capacity, "occupied") = {}
        BY <1>1, <3>1 DEF In
      <4>2. count = 0
        BY <4>1, FS_EmptySet DEF Exact
      <4> QED
        BY <2>1, <4>2
    <3>2. CASE capacity # 0
      BY <1>1, <3>2 DEF Exact, NewCapacity
    <3> QED
      BY <3>1, <3>2
  <2> QED
    BY <1>1, <2>1, <2>3, <2>5, <2>6, <2>7, <2>8
<1>4. CASE ~MustResize
  <2>1. /\ TableCapacity = capacity /\ Table = slots
        /\ Entries = count /\ Tombstones = tombstoneCount
    BY <1>4 DEF TableCapacity, Table, Entries, Tombstones
  <2>2. capacity >= 4 /\ ~Overloaded
    BY <1>1, <1>4 DEF MustResize
  <2>3. count + tombstoneCount + 1 <= capacity
    BY <1>1, <2>2 DEF Exact
  <2> DEFINE x == (count + tombstoneCount + 1) * 4
             y == capacity * 3
  <2>4. x \in Nat /\ y \in Nat /\ x < Word /\ y < Word /\ Word \in Nat
    BY <1>1, <2>3, MapAssumption DEF TableFits
  <2>5. x % Word = x /\ y % Word = y
    <3> HIDE DEF x, y
    <3> QED
      BY <2>4, SmallRemainder
  <2>6. ~(x % Word >= y % Word)
    BY <2>2 DEF Overloaded
  <2>7. x < y
    <3> HIDE DEF x, y
    <3> QED
      BY <2>4, <2>5, <2>6
  <2> QED
    BY <1>1, <2>1, <2>7 DEF Exact
<1> QED
  BY <1>3, <1>4

\* A removed entry turns into a tombstone.
LEMMA MarkCounts ==
  ASSUME NEW cap \in Nat, NEW s \in Tables(cap), NEW t \in Tables(cap),
         NEW p \in 0 .. cap - 1, Occupied(s, p), State(t, p) = "tombstone",
         \A q \in 0 .. cap - 1 : q # p => t[q] = s[q]
  PROVE  /\ Cardinality(In(t, cap, "occupied")) = Cardinality(In(s, cap, "occupied")) - 1
         /\ Cardinality(In(t, cap, "tombstone")) = Cardinality(In(s, cap, "tombstone")) + 1
<1> DEFINE O == In(s, cap, "occupied")
           D == In(s, cap, "tombstone")
<1>1. IsFiniteSet(O) /\ IsFiniteSet(D)
  BY InFinite
<1>2. p \in O /\ p \notin D
  BY DEF In, Occupied
<1>3. In(t, cap, "occupied") = O \ {p} /\ In(t, cap, "tombstone") = D \cup {p}
  BY DEF In, State
<1> HIDE DEF O, D
<1>4. Cardinality(O \ {p}) = Cardinality(O) - 1
  BY <1>1, <1>2, FS_RemoveElement
<1>5. Cardinality(D \cup {p}) = Cardinality(D) + 1
  BY <1>1, <1>2, FS_AddElement
<1> QED
  BY <1>3, <1>4, <1>5 DEF O, D

\* The next state's counters, in terms of its table.
LEMMA ExactNext ==
  ASSUME NEW s, NEW cap, slots' = s, capacity' = cap, DOMAIN s = 0 .. cap - 1,
         count' = Cardinality(In(s, cap, "occupied")),
         tombstoneCount' = Cardinality(In(s, cap, "tombstone")),
         cap > 0 => count' + tombstoneCount' < cap
  PROVE  Sound' /\ Exact'
<1>1. /\ In(slots, capacity, "occupied")' = In(s, cap, "occupied")
      /\ In(slots, capacity, "tombstone")' = In(s, cap, "tombstone")
  BY DEF In, State
<1> QED
  BY <1>1 DEF Sound, Exact

LEMMA ExactFresh ==
  ASSUME NEW n \in Nat, slots' = Fresh(n), capacity' = n,
         count' = 0, tombstoneCount' = 0
  PROVE  Sound' /\ Exact'
<1>1. /\ In(Fresh(n), n, "occupied") = {} /\ In(Fresh(n), n, "tombstone") = {}
      /\ DOMAIN Fresh(n) = 0 .. n - 1
  BY FreshTable DEF In, Tables
<1>2. Cardinality({}) = 0
  BY FS_EmptySet
<1>3. n > 0 => count' + tombstoneCount' < n
  OBVIOUS
<1> QED
  BY <1>1, <1>2, <1>3, ExactNext

LEMMA SetExact ==
  ASSUME MapInv, Sound, Exact, TableFits, NEW k \in Keys, NEW v \in Values, Set(k, v)
  PROVE  Sound' /\ Exact'
<1> DEFINE s == Table
           cap == TableCapacity
<1>1. PICK p \in 0 .. cap - 1 :
        /\ slots' = Write(s, p, k, v) /\ capacity' = cap
        /\ count' = Entries + (IF Occupied(s, p) THEN 0 ELSE 1)
        /\ tombstoneCount' =
             (Tombstones - (IF State(s, p) = "tombstone" THEN 1 ELSE 0)) % Word
        /\ slots' \in Tables(capacity')
  BY SetWrites
<1>2. cap \in Nat /\ cap >= 4 /\ s \in Tables(cap) /\ Entries \in Nat /\ Tombstones \in Nat
  BY TableSound
<1>3. /\ Cardinality(In(s, cap, "occupied")) = Entries
      /\ Cardinality(In(s, cap, "tombstone")) = Tombstones
      /\ Entries + Tombstones + 1 < cap
  BY TableCounts
<1>4. Tombstones < Word
  <2>1. CASE MustResize
    BY <2>1, MapAssumption DEF Tombstones
  <2>2. CASE ~MustResize
    BY <1>2, <1>3, <2>2, MapAssumption DEF TableFits, TableCapacity, MapInv
  <2> QED
    BY <2>1, <2>2
<1> HIDE DEF s, cap
<1>5. DOMAIN slots' = 0 .. cap - 1
  BY <1>1, <1>2 DEF Tables
<1> DEFINE a == IF Occupied(s, p) THEN 0 ELSE 1
           b == IF State(s, p) = "tombstone" THEN 1 ELSE 0
<1>6. /\ Cardinality(In(slots', cap, "occupied")) = Entries + a
      /\ Cardinality(In(slots', cap, "tombstone")) = Tombstones - b
  BY <1>1, <1>2, <1>3, WriteCounts
<1>7. Cardinality(In(slots', cap, "tombstone")) \in Nat
  BY <1>2, InFinite
<1>8. a \in {0, 1} /\ b \in {0, 1}
  OBVIOUS
<1>9. count' = Entries + a /\ tombstoneCount' = (Tombstones - b) % Word
  BY <1>1
<1> HIDE DEF a, b
<1>10. tombstoneCount' = Tombstones - b
  <2>1. Tombstones - b \in Nat /\ Tombstones - b < Word /\ Word \in Nat
    BY <1>2, <1>4, <1>6, <1>7, <1>8, MapAssumption
  <2> QED
    BY <1>9, <2>1, SmallRemainder
<1>11. count' + tombstoneCount' < cap
  BY <1>2, <1>3, <1>8, <1>9, <1>10
<1> QED
  BY <1>1, <1>5, <1>6, <1>9, <1>10, <1>11, ExactNext

LEMMA RemoveExact ==
  ASSUME MapInv, Sound, Exact, TableFits, NEW k \in Keys, Remove(k)
  PROVE  Sound' /\ Exact'
<1>1. PICK p \in 0 .. capacity - 1 :
        /\ capacity > 0 /\ slots \in Tables(capacity) /\ Has(slots, p, k)
        /\ slots' \in Tables(capacity) /\ State(slots', p) = "tombstone"
        /\ \A q \in 0 .. capacity - 1 : q # p => slots'[q] = slots[q]
  BY RemoveMarks
<1>2. capacity \in Nat /\ count \in Nat /\ tombstoneCount \in Nat
  BY DEF MapInv
<1>3. /\ Cardinality(In(slots', capacity, "occupied")) = count - 1
      /\ Cardinality(In(slots', capacity, "tombstone")) = tombstoneCount + 1
  BY <1>1, <1>2, MarkCounts DEF Exact, Has
<1>4. /\ count > 0 /\ count' = count - 1 /\ capacity' = capacity
      /\ tombstoneCount' = (tombstoneCount + 1) % Word
  BY DEF Remove
<1>5. tombstoneCount' = tombstoneCount + 1
  <2>1. tombstoneCount + 1 \in Nat /\ tombstoneCount + 1 < Word /\ Word \in Nat
    BY <1>1, <1>2, MapAssumption DEF Exact, TableFits
  <2> QED
    BY <1>4, <2>1, SmallRemainder
<1>6. count' + tombstoneCount' < capacity
  BY <1>1, <1>2, <1>4, <1>5 DEF Exact
<1>7. DOMAIN slots' = 0 .. capacity - 1
  BY <1>1 DEF Tables
<1> QED
  BY <1>3, <1>4, <1>5, <1>6, <1>7, ExactNext

LEMMA CountInvInit == Init => CountInv
<1> SUFFICES ASSUME Init PROVE CountInv
  OBVIOUS
<1>1. MapInv
  BY MapInvInit
<1>2. slots = Fresh(0) /\ capacity = 0 /\ count = 0 /\ tombstoneCount = 0
  BY DEF Init
<1>3. Sound
  BY <1>2 DEF Sound, Fresh
<1>4. In(slots, capacity, "occupied") = {} /\ In(slots, capacity, "tombstone") = {}
  BY <1>2 DEF In
<1>5. Exact
  BY <1>2, <1>4, FS_EmptySet DEF Exact
<1> QED
  BY <1>1, <1>3, <1>5 DEF CountInv

LEMMA CountInvNext == CountInv /\ TableFits /\ [Next]_vars => CountInv'
<1> SUFFICES ASSUME CountInv, TableFits, [Next]_vars, ~failed' PROVE Sound' /\ Exact'
  BY MapInvNext DEF CountInv
<1>1. MapInv /\ (~failed => Sound /\ Exact)
  BY DEF CountInv
<1>2. ASSUME NEW n \in Targets, Create(n) PROVE Sound' /\ Exact'
  <2>1. NextPowerOfTwo(n) \in Nat
    BY CreateSize
  <2> QED
    BY <1>2, <2>1, ExactFresh DEF Create
<1>3. ASSUME NEW k \in Keys, Remove(k) PROVE Sound' /\ Exact'
  <2>1. ~failed
    BY <1>3 DEF Remove
  <2> QED
    BY <1>1, <1>3, <2>1, RemoveExact
<1>4. ASSUME NEW k \in Keys, NEW v \in Values, Set(k, v) PROVE Sound' /\ Exact'
  <2>1. ~failed
    BY <1>4 DEF Set, SetIn
  <2> QED
    BY <1>1, <1>4, <2>1, SetExact
<1>5. ASSUME SetFails PROVE FALSE
  BY <1>5 DEF SetFails
<1>6. ASSUME Clear PROVE Sound' /\ Exact'
  BY <1>1, <1>6, ExactFresh DEF Clear, MapInv
<1>7. ASSUME Destroy PROVE Sound' /\ Exact'
  BY <1>7, ExactFresh DEF Destroy
<1>8. ASSUME UNCHANGED vars PROVE Sound' /\ Exact'
  BY <1>1, <1>8 DEF vars, Sound, Exact, In, State
<1> QED
  BY <1>2, <1>3, <1>4, <1>5, <1>6, <1>7, <1>8 DEF Next

\* Until a rebuild fails the counters that decide when the table is rebuilt are
\* exact, and an unused slot ends every search and every re-insertion.
THEOREM CountersAlwaysTrusted == Spec /\ []TableFits => []CountersTrusted
<1>1. Init => CountInv
  BY CountInvInit
<1>2. CountInv /\ TableFits /\ [Next]_vars => CountInv'
  BY CountInvNext
<1>3. CountInv => CountersTrusted
  <2> SUFFICES ASSUME CountInv, ~failed
               PROVE  CountersExact /\ (capacity > 0 => With("empty") # {})
    BY DEF CountersTrusted
  <2>1. capacity \in Nat /\ Sound /\ Exact
    BY DEF CountInv, MapInv
  <2>2. slots \in Tables(capacity)
    BY <2>1, SoundTable DEF CountInv, MapInv, Sound
  <2>3. /\ With("occupied") = In(slots, capacity, "occupied")
        /\ With("tombstone") = In(slots, capacity, "tombstone")
        /\ With("empty") = In(slots, capacity, "empty")
    BY <2>1 DEF With, In, Sound
  <2>4. capacity > 0 => In(slots, capacity, "empty") # {}
    BY <2>1, <2>2, SomeEmpty DEF Exact
  <2> QED
    BY <2>1, <2>3, <2>4 DEF Exact, CountersExact
<1> QED
  BY <1>1, <1>2, <1>3, PTL DEF Spec

-----------------------------------------------------------------------------
(* What Get finds *)

\* The search for a stored key ends at its slot, the only one with that key.
LEMMA ReachedIsFound ==
  ASSUME MapInv, Sound, count # 0,
         NEW k \in Keys, NEW p \in 0 .. capacity - 1, Has(slots, p, k)
  PROVE  Get(k) = slots[p].val
<1>1. /\ capacity \in Nat /\ Reach(slots, capacity) /\ Unique(slots, capacity)
      /\ Occupied(slots, p) /\ slots[p].key = k
  BY DEF MapInv, Has
<1> DEFINE found == Matches(slots, k, capacity)
<1>2. found \in SUBSET (0 .. capacity - 1) /\ \A i \in found : Has(slots, At(k, i, capacity), k)
  BY DEF Matches, Path, Has
<1>3. Get(k) = IF count = 0 \/ capacity = 0 \/ found = {} THEN NoValue
               ELSE slots[At(k, Min(found), capacity)].val
  BY DEF Get
<1>4. found # {}
  <2>1. PICK j \in Path(slots, k, capacity) : At(k, j, capacity) = p
    BY <1>1 DEF Reach
  <2> QED
    BY <1>1, <2>1 DEF Matches
<1> HIDE DEF found
<1>5. found \in SUBSET Nat /\ capacity > 0
  BY <1>1, <1>2
<1>6. PICK m \in found : m = Min(found)
  BY <1>4, <1>5, MinIn
<1>7. PICK q : q = At(k, m, capacity)
  OBVIOUS
<1>8. q \in 0 .. capacity - 1 /\ Has(slots, q, k)
  <2>1. m \in Nat
    BY <1>5
  <2> QED
    BY <1>1, <1>2, <1>5, <1>6, <1>7, <2>1, AtSlot
<1>9. q = p
  BY <1>1, <1>8 DEF Has, Unique
<1> QED
  BY <1>3, <1>4, <1>5, <1>6, <1>7, <1>9

\* With exact counters a table that has an entry counts one.
LEMMA EntryCounted ==
  ASSUME capacity \in Nat, Exact,
         NEW p \in 0 .. capacity - 1, Occupied(slots, p)
  PROVE  count # 0
<1>1. p \in In(slots, capacity, "occupied")
  BY DEF In, Occupied
<1>2. IsFiniteSet(In(slots, capacity, "occupied"))
  BY InFinite
<1> QED
  BY <1>1, <1>2, FS_EmptySet DEF Exact

\* A key is stored once and Get finds it, whatever was set and removed and
\* whichever rebuilds failed, unless a failed rebuild or a Remove after one
\* left a count of 0.
THEOREM KeysAlwaysReachable == Spec /\ []TableFits => []KeysReachable
<1>1. Init => CountInv
  BY CountInvInit
<1>2. CountInv /\ TableFits /\ [Next]_vars => CountInv'
  BY CountInvNext
<1>3. CountInv => KeysReachable
  <2> SUFFICES ASSUME CountInv, Sound PROVE KeysReachable
    BY DEF KeysReachable
  <2>1. MapInv /\ capacity \in Nat /\ Unique(slots, capacity)
    BY DEF CountInv, MapInv
  <2>2. With("occupied") = {i \in 0 .. capacity - 1 : Occupied(slots, i)}
    BY DEF With, Occupied, Sound
  <2>3. slots \in Tables(capacity)
    BY <2>1, SoundTable DEF MapInv, Sound
  <2>4. ASSUME NEW i \in 0 .. capacity - 1, Occupied(slots, i)
        PROVE  Get(slots[i].key) = slots[i].val \/ (failed /\ count = 0)
    <3>1. slots[i].key \in Keys
      BY <2>3, <2>4, SlotFields DEF Tables, Occupied, State
    <3>2. Has(slots, i, slots[i].key)
      BY <2>4 DEF Has
    <3>3. CASE count # 0
      BY <2>1, <3>1, <3>2, <3>3, ReachedIsFound
    <3>4. CASE count = 0
      <4>1. failed \/ Exact
        BY DEF CountInv
      <4> QED
        BY <2>1, <2>4, <3>4, <4>1, EntryCounted
    <3> QED
      BY <3>3, <3>4
  <2> QED
    BY <2>1, <2>2, <2>4 DEF KeysReachable, Unique
<1> QED
  BY <1>1, <1>2, <1>3, PTL DEF Spec

-----------------------------------------------------------------------------
(* The dictionary *)

\* Get finds the entry of a key, and nothing else.
Finds ==
  \A k \in Keys :
    /\ \A p \in 0 .. capacity - 1 : Has(slots, p, k) => Get(k) = slots[p].val
    /\ (\A p \in 0 .. capacity - 1 : ~Has(slots, p, k)) => Get(k) = NoValue

LEMMA GetFinds == CountInv => (failed \/ Finds)
<1> SUFFICES ASSUME CountInv, ~failed, NEW k \in Keys
             PROVE  /\ \A p \in 0 .. capacity - 1 : Has(slots, p, k) => Get(k) = slots[p].val
                    /\ (\A p \in 0 .. capacity - 1 : ~Has(slots, p, k)) => Get(k) = NoValue
  BY DEF Finds
<1>1. /\ capacity \in Nat /\ count \in Nat /\ Sound /\ Exact
      /\ Reach(slots, capacity) /\ Unique(slots, capacity)
  BY DEF CountInv, MapInv
<1>2. ASSUME NEW p \in 0 .. capacity - 1, Has(slots, p, k) PROVE Get(k) = slots[p].val
  <2>1. count # 0
    BY <1>1, <1>2, EntryCounted DEF Has
  <2> QED
    BY <1>1, <1>2, <2>1, ReachedIsFound DEF CountInv
<1>3. ASSUME \A p \in 0 .. capacity - 1 : ~Has(slots, p, k) PROVE Get(k) = NoValue
  <2> DEFINE found == Matches(slots, k, capacity)
  <2>1. CASE found = {}
    BY <2>1 DEF Get
  <2>2. CASE found # {}
    <3>1. PICK i \in found : TRUE
      BY <2>2
    <3>2. /\ i \in 0 .. capacity - 1 /\ capacity > 0 /\ i \in Nat
          /\ Has(slots, At(k, i, capacity), k)
      BY <1>1, <3>1 DEF Matches, Path, Has
    <3>3. At(k, i, capacity) \in 0 .. capacity - 1
      BY <1>1, <3>2, AtSlot
    <3> QED
      BY <1>3, <3>2, <3>3
  <2> QED
    BY <2>1, <2>2
<1> QED
  BY <1>2, <1>3

\* The entries of the table that Set works on are those of the old one.
LEMMA SetStores ==
  ASSUME CountInv, ~failed, NEW k \in Keys, NEW v \in Values, Set(k, v),
         Finds, Finds'
  PROVE  \A x \in Keys : Get(x)' = IF x = k THEN v ELSE Get(x)
<1> DEFINE s == Table
           cap == TableCapacity
<1>1. MapInv /\ Sound
  BY DEF CountInv
<1>2. PICK p \in 0 .. cap - 1 :
        /\ slots' = Write(s, p, k, v) /\ capacity' = cap
        /\ \A q \in 0 .. cap - 1 : Has(s, q, k) => q = p
        /\ Occupied(s, p) => s[p].key = k
  BY <1>1, SetWrites
<1>3. cap \in Nat /\ s \in Tables(cap) /\ Refilled(slots, capacity, s, cap)
  BY <1>1, TableSound
<1> HIDE DEF s, cap
<1>4. /\ Occupied(slots', p) /\ slots'[p].key = k /\ slots'[p].val = v
      /\ \A q \in 0 .. cap - 1 : q # p => slots'[q] = s[q]
  BY <1>2, <1>3, WriteSlots
<1>5. \A x \in Keys :
        /\ \A q \in 0 .. cap - 1 : Has(slots', q, x) => Get(x)' = slots'[q].val
        /\ (\A q \in 0 .. cap - 1 : ~Has(slots', q, x)) => Get(x)' = NoValue
  <2>1. \A x, q : Has(slots, q, x)' <=> Has(slots', q, x)
    BY DEF Has, Occupied, State
  <2> QED
    BY <1>2, <2>1 DEF Finds
<1>6. Get(k)' = v
  <2>1. Has(slots', p, k)
    BY <1>4 DEF Has
  <2> QED
    BY <1>4, <1>5, <2>1
<1>7. ASSUME NEW x \in Keys, x # k PROVE Get(x)' = Get(x)
  <2>1. CASE \E o \in 0 .. capacity - 1 : Has(slots, o, x)
    <3>1. PICK o \in 0 .. capacity - 1 : Has(slots, o, x)
      BY <2>1
    <3>2. Get(x) = slots[o].val /\ Occupied(slots, o) /\ slots[o].key = x
      BY <3>1 DEF Finds, Has
    <3>3. PICK q \in 0 .. cap - 1 : Has(s, q, x) /\ s[q].val = slots[o].val
      BY <1>3, <3>2 DEF Refilled
    <3>4. q # p
      BY <1>2, <1>7, <3>3 DEF Has
    <3>5. slots'[q] = s[q]
      BY <1>4, <3>4
    <3>6. Has(slots', q, x)
      BY <3>3, <3>5 DEF Has, Occupied, State
    <3> QED
      BY <1>5, <3>2, <3>3, <3>5, <3>6
  <2>2. CASE \A o \in 0 .. capacity - 1 : ~Has(slots, o, x)
    <3>1. Get(x) = NoValue
      BY <2>2 DEF Finds
    <3>2. ASSUME NEW q \in 0 .. cap - 1, Has(slots', q, x) PROVE FALSE
      <4>1. q # p
        BY <1>4, <1>7, <3>2 DEF Has
      <4>2. slots'[q] = s[q]
        BY <1>4, <4>1
      <4>3. Occupied(s, q) /\ s[q].key = x
        BY <3>2, <4>2 DEF Has, Occupied, State
      <4> QED
        BY <1>3, <2>2, <4>3 DEF Refilled
    <3> QED
      BY <1>5, <3>1, <3>2
  <2> QED
    BY <2>1, <2>2
<1> QED
  BY <1>6, <1>7

LEMMA RemoveDeletes ==
  ASSUME CountInv, ~failed, NEW k \in Keys, Remove(k), Finds, Finds'
  PROVE  /\ Get(k) # NoValue
         /\ \A x \in Keys : Get(x)' = IF x = k THEN NoValue ELSE Get(x)
<1>1. MapInv /\ Sound /\ capacity \in Nat /\ Unique(slots, capacity)
  BY DEF CountInv, MapInv
<1>2. PICK p \in 0 .. capacity - 1 :
        /\ slots \in Tables(capacity) /\ Has(slots, p, k)
        /\ State(slots', p) = "tombstone"
        /\ \A q \in 0 .. capacity - 1 : q # p => slots'[q] = slots[q]
  BY <1>1, RemoveMarks
<1>3. capacity' = capacity
  BY DEF Remove
<1>4. \A x \in Keys :
        /\ \A q \in 0 .. capacity - 1 : Has(slots', q, x) => Get(x)' = slots'[q].val
        /\ (\A q \in 0 .. capacity - 1 : ~Has(slots', q, x)) => Get(x)' = NoValue
  <2>1. \A x, q : Has(slots, q, x)' <=> Has(slots', q, x)
    BY DEF Has, Occupied, State
  <2> QED
    BY <1>3, <2>1 DEF Finds
<1>5. \A q \in 0 .. capacity - 1 : Has(slots, q, k) => q = p
  BY <1>1, <1>2 DEF Has, Unique
<1>6. \A x, q : q \in 0 .. capacity - 1 =>
        (Has(slots', q, x) <=> q # p /\ Has(slots, q, x))
  BY <1>2 DEF Has, Occupied, State
<1>7. Get(k) # NoValue
  <2>1. Get(k) = slots[p].val
    BY <1>2 DEF Finds
  <2>2. slots[p].val \in Values
    BY <1>2, SlotFields DEF Tables, Has, Occupied, State
  <2> QED
    BY <2>1, <2>2, MapAssumption
<1>8. Get(k)' = NoValue
  BY <1>4, <1>5, <1>6
<1>9. ASSUME NEW x \in Keys, x # k PROVE Get(x)' = Get(x)
  <2>1. CASE \E q \in 0 .. capacity - 1 : Has(slots, q, x)
    <3>1. PICK q \in 0 .. capacity - 1 : Has(slots, q, x)
      BY <2>1
    <3>2. q # p
      BY <1>2, <1>9, <3>1 DEF Has
    <3>3. Get(x) = slots[q].val
      BY <3>1 DEF Finds
    <3> QED
      BY <1>2, <1>4, <1>6, <3>1, <3>2, <3>3
  <2>2. CASE \A q \in 0 .. capacity - 1 : ~Has(slots, q, x)
    <3>1. Get(x) = NoValue
      BY <2>2 DEF Finds
    <3> QED
      BY <1>4, <1>6, <2>2, <3>1
  <2> QED
    BY <2>1, <2>2
<1> QED
  BY <1>7, <1>8, <1>9

\* A fresh buffer has no keys.
LEMMA FreshFinds ==
  ASSUME count' = 0
  PROVE  \A x \in Keys : Get(x)' = NoValue
  BY DEF Get

LEMMA DictionaryStep ==
  CountInv /\ CountInv' /\ [Next]_vars => (failed' \/ Abstract!Next \/ UNCHANGED stored)
<1> SUFFICES ASSUME CountInv, CountInv', [Next]_vars, ~failed'
             PROVE  Abstract!Next \/ UNCHANGED stored
  OBVIOUS
<1>1. Finds'
  <2>1. CountInv' => (failed' \/ Finds')
    BY GetFinds, PTL
  <2> QED
    BY <2>1
<1>2. ASSUME ~failed PROVE Finds
  BY <1>2, GetFinds
<1>3. /\ stored = [x \in Keys |-> Get(x)]
      /\ stored' = [x \in Keys |-> Get(x)']
  BY DEF stored
<1>4. ASSUME count' = 0 PROVE Abstract!Next
  <2>1. stored' = [x \in Keys |-> NoValue]
    BY <1>3, <1>4, FreshFinds
  <2> QED
    BY <2>1 DEF Abstract!Next, Abstract!Clear
<1>5. ASSUME NEW n \in Targets, Create(n) PROVE Abstract!Next
  BY <1>4, <1>5 DEF Create
<1>6. ASSUME NEW k \in Keys, Remove(k) PROVE Abstract!Next
  <2>1. ~failed
    BY <1>6 DEF Remove
  <2>2. /\ Get(k) # NoValue
        /\ \A x \in Keys : Get(x)' = IF x = k THEN NoValue ELSE Get(x)
    BY <1>1, <1>2, <1>6, <2>1, RemoveDeletes
  <2>3. stored[k] # NoValue /\ stored' = [stored EXCEPT ![k] = NoValue]
    BY <1>3, <2>2
  <2>4. Abstract!Remove(k)
    BY <2>3 DEF Abstract!Remove
  <2> QED
    BY <2>4 DEF Abstract!Next
<1>7. ASSUME NEW k \in Keys, NEW v \in Values, Set(k, v) PROVE Abstract!Next
  <2>1. ~failed
    BY <1>7 DEF Set, SetIn
  <2>2. \A x \in Keys : Get(x)' = IF x = k THEN v ELSE Get(x)
    BY <1>1, <1>2, <1>7, <2>1, SetStores
  <2>3. stored' = [stored EXCEPT ![k] = v]
    BY <1>3, <2>2
  <2>4. Abstract!Set(k, v)
    BY <2>3 DEF Abstract!Set
  <2> QED
    BY <2>4 DEF Abstract!Next
<1>8. ASSUME SetFails PROVE FALSE
  BY <1>8 DEF SetFails
<1>9. ASSUME Clear PROVE Abstract!Next
  BY <1>4, <1>9 DEF Clear
<1>10. ASSUME Destroy PROVE Abstract!Next
  BY <1>4, <1>10 DEF Destroy
<1>11. ASSUME UNCHANGED vars PROVE UNCHANGED stored
  <2>1. \A x : Get(x)' = Get(x)
    BY <1>11 DEF vars, Get, Matches, Path, At, Occupied, State
  <2> QED
    BY <1>3, <2>1
<1> QED
  BY <1>5, <1>6, <1>7, <1>8, <1>9, <1>10, <1>11 DEF Next

\* Until a rebuild fails, and again after Clear or Destroy, the table with its
\* collisions, tombstones and rebuilds is a function from keys to values.
THEOREM MapImplementsDictionary == Spec /\ []TableFits => ImplementsDictionary
<1>1. Init => CountInv
  BY CountInvInit
<1>2. CountInv /\ TableFits /\ [Next]_vars => CountInv'
  BY CountInvNext
<1>3. Init => Abstract!Init
  <2> SUFFICES ASSUME Init PROVE Abstract!Init
    OBVIOUS
  <2>1. count = 0
    BY DEF Init
  <2>2. stored = [x \in Keys |-> NoValue]
    BY <2>1 DEF stored, Get
  <2> QED
    BY <2>2 DEF Abstract!Init
<1>4. CountInv /\ CountInv' /\ [Next]_vars => [failed' \/ Abstract!Next]_stored
  BY DictionaryStep
<1> QED
  BY <1>1, <1>2, <1>3, <1>4, PTL DEF Spec, ImplementsDictionary
=============================================================================
