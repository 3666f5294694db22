--------------------------- MODULE TrackerProofs ---------------------------
(***************************************************************************)
(* Proofs about the memory tracker, for a program whose calls exclude one  *)
(* another: the list holds exactly the blocks that callers hold, the       *)
(* counters of every tag are exact and no limit is passed, for every       *)
(* number of blocks and tags.                                              *)
(***************************************************************************)
EXTENDS Tracker, NumberLemmas, FiniteSetTheorems

\* Calls exclude one another: there is no second thread.
CallsExclude == \A t, u \in Threads : t = u

-----------------------------------------------------------------------------
(* Doubly linked lists *)

\* The blocks s[1] .. s[n] are L, linked both ways from the head h.
IsList(n, s, L, h, nx, pv) ==
  /\ n \in Nat /\ s \in [1 .. n -> Blocks]
  /\ \A i, j \in 1 .. n : s[i] = s[j] => i = j
  /\ L = {s[i] : i \in 1 .. n}
  /\ h = IF n = 0 THEN Null ELSE s[1]
  /\ \A i \in 1 .. n : nx[s[i]] = IF i = n THEN Null ELSE s[i + 1]
  /\ \A i \in 1 .. n : pv[s[i]] = IF i = 1 THEN Null ELSE s[i - 1]

Links == [Blocks -> Blocks \cup {Null}]

LEMMA NullIs ==
  Null \notin Blocks /\ Null \notin Nat /\ Null \notin Headers /\ Null \notin Jobs
  BY TrackerAssumption

\* The assignments of unlinkAllocation.
Unlinked(b, h, nx, pv, h2, nx2, pv2) ==
  /\ nx2 = IF pv[b] = Null THEN nx ELSE [nx EXCEPT ![pv[b]] = nx[b]]
  /\ pv2 = IF nx[b] = Null THEN pv ELSE [pv EXCEPT ![nx[b]] = pv[b]]
  /\ h2 = IF pv[b] = Null THEN nx[b] ELSE h

\* They take an element out.
LEMMA ListWithout ==
  ASSUME NEW n, NEW s, NEW L, NEW h, NEW nx \in Links, NEW pv \in Links,
         IsList(n, s, L, h, nx, pv), NEW k \in 1 .. n, NEW b, b = s[k],
         NEW h2, NEW nx2, NEW pv2, Unlinked(b, h, nx, pv, h2, nx2, pv2)
  PROVE  \E t : IsList(n - 1, t, L \ {b}, h2, nx2, pv2)
<1> DEFINE up(i) == IF i < k THEN i ELSE i + 1
           t == [i \in 1 .. n - 1 |-> s[up(i)]]
<1>1. /\ n \in Nat /\ s \in [1 .. n -> Blocks] /\ L = {s[i] : i \in 1 .. n}
      /\ \A i, j \in 1 .. n : s[i] = s[j] => i = j
      /\ h = IF n = 0 THEN Null ELSE s[1]
      /\ \A i \in 1 .. n : nx[s[i]] = IF i = n THEN Null ELSE s[i + 1]
      /\ \A i \in 1 .. n : pv[s[i]] = IF i = 1 THEN Null ELSE s[i - 1]
  BY DEF IsList
<1>2. k \in Nat /\ k >= 1 /\ k <= n /\ n >= 1
  BY <1>1
<1>3. \A i \in 1 .. n - 1 : up(i) \in 1 .. n /\ up(i) # k
  BY <1>1, <1>2
<1>4. t \in [1 .. n - 1 -> Blocks] /\ n - 1 \in Nat
  BY <1>1, <1>2, <1>3
<1>5. ASSUME NEW i \in 1 .. n - 1, NEW j \in 1 .. n - 1, t[i] = t[j] PROVE i = j
  <2>1. up(i) = up(j)
    BY <1>1, <1>3, <1>5, SMTT(60)
  <2> QED
    BY <1>1, <1>2, <2>1
<1>6. \A j \in 1 .. n : j # k => \E i \in 1 .. n - 1 : up(i) = j
  <2> SUFFICES ASSUME NEW j \in 1 .. n, j # k PROVE \E i \in 1 .. n - 1 : up(i) = j
    OBVIOUS
  <2>1. CASE j < k
    BY <1>1, <1>2, <2>1
  <2>2. CASE j > k
    <3>1. j - 1 \in 1 .. n - 1 /\ up(j - 1) = j
      BY <1>1, <1>2, <2>2
    <3> QED
      BY <3>1
  <2> QED
    BY <1>2, <2>1, <2>2
<1>7. L \ {b} = {t[i] : i \in 1 .. n - 1}
  <2>1. ASSUME NEW x \in L \ {b} PROVE x \in {t[i] : i \in 1 .. n - 1}
    <3>1. PICK j \in 1 .. n : x = s[j] /\ j # k
      BY <1>1
    <3>2. PICK i \in 1 .. n - 1 : up(i) = j
      BY <1>6, <3>1
    <3> QED
      BY <3>1, <3>2
  <2>2. ASSUME NEW i \in 1 .. n - 1 PROVE t[i] \in L \ {b}
    BY <1>1, <1>3
  <2> QED
    BY <2>1, <2>2
<1>8. nx[b] = (IF k = n THEN Null ELSE s[k + 1]) /\ pv[b] = (IF k = 1 THEN Null ELSE s[k - 1])
  BY <1>1
<1>9. /\ k # 1 => k - 1 \in 1 .. n /\ s[k - 1] \in Blocks /\ s[k - 1] # Null
      /\ k # n => k + 1 \in 1 .. n /\ s[k + 1] \in Blocks /\ s[k + 1] # Null
  BY <1>1, <1>2, NullIs
<1>10. \A j \in 1 .. n : nx2[s[j]] = IF j = k - 1 THEN nx[b] ELSE nx[s[j]]
  BY <1>1, <1>2, <1>8, <1>9 DEF Links, Unlinked
<1>11. \A j \in 1 .. n : pv2[s[j]] = IF j = k + 1 THEN pv[b] ELSE pv[s[j]]
  BY <1>1, <1>2, <1>8, <1>9 DEF Links, Unlinked
<1>12. h2 = IF n - 1 = 0 THEN Null ELSE t[1]
  BY <1>1, <1>2, <1>8, <1>9 DEF Unlinked
<1>13. ASSUME NEW i \in 1 .. n - 1
       PROVE  nx2[t[i]] = IF i = n - 1 THEN Null ELSE t[i + 1]
  <2>1. CASE i < k - 1
    <3>1. t[i] = s[i] /\ t[i + 1] = s[i + 1] /\ i \in 1 .. n /\ i # n - 1 /\ i # n
      BY <1>1, <1>2, <2>1
    <3> QED
      BY <1>1, <1>2, <1>10, <2>1, <3>1
  <2>2. CASE i = k - 1
    <3>1. t[i] = s[i] /\ i \in 1 .. n /\ (i # n - 1 => t[i + 1] = s[k + 1])
      BY <1>1, <1>2, <2>2
    <3>2. i = n - 1 <=> k = n
      BY <1>1, <1>2, <2>2
    <3> QED
      BY <1>8, <1>10, <2>2, <3>1, <3>2
  <2>3. CASE i >= k
    <3>1. t[i] = s[i + 1] /\ i + 1 \in 1 .. n /\ i + 1 # k - 1
          /\ (i # n - 1 => t[i + 1] = s[i + 2]) /\ (i + 1 = n <=> i = n - 1)
      BY <1>1, <1>2, <2>3, SMTT(60)
    <3>2. nx[s[i + 1]] = IF i + 1 = n THEN Null ELSE s[i + 2]
      BY <1>1, <3>1
    <3> QED
      BY <1>10, <3>1, <3>2
  <2> QED
    BY <1>1, <1>2, <2>1, <2>2, <2>3
<1>14. ASSUME NEW i \in 1 .. n - 1
       PROVE  pv2[t[i]] = IF i = 1 THEN Null ELSE t[i - 1]
  <2>1. CASE i < k
    <3>1. t[i] = s[i] /\ i \in 1 .. n /\ i # k + 1 /\ (i # 1 => t[i - 1] = s[i - 1])
      BY <1>1, <1>2, <2>1
    <3>2. pv[s[i]] = IF i = 1 THEN Null ELSE s[i - 1]
      BY <1>1, <3>1
    <3>3. pv2[s[i]] = pv[s[i]]
      BY <1>11, <3>1
    <3> QED
      BY <3>1, <3>2, <3>3
  <2>2. CASE i = k
    <3>1. t[i] = s[k + 1] /\ k + 1 \in 1 .. n /\ (i # 1 => t[i - 1] = s[k - 1])
      BY <1>1, <1>2, <2>2
    <3> QED
      BY <1>8, <1>11, <2>2, <3>1
  <2>3. CASE i > k
    <3>1. t[i] = s[i + 1] /\ i + 1 \in 1 .. n /\ i + 1 # k + 1 /\ i + 1 # 1 /\ i # 1
          /\ t[i - 1] = s[i]
      BY <1>1, <1>2, <2>3
    <3>2. pv[s[i + 1]] = s[i]
      BY <1>1, <3>1
    <3> QED
      BY <1>11, <3>1, <3>2
  <2> QED
    BY <1>1, <1>2, <2>1, <2>2, <2>3
<1> HIDE DEF t
<1>15. IsList(n - 1, t, L \ {b}, h2, nx2, pv2)
  BY <1>4, <1>5, <1>7, <1>12, <1>13, <1>14 DEF IsList
<1> QED
  BY <1>15

\* A new head, with the assignments of linkAllocation.
LEMMA ListWith ==
  ASSUME NEW n, NEW s, NEW L, NEW h, NEW nx \in Links, NEW pv \in Links,
         IsList(n, s, L, h, nx, pv), NEW b \in Blocks, b \notin L,
         nx[b] = h, pv[b] = Null,
         NEW pv2, pv2 = IF h = Null THEN pv ELSE [pv EXCEPT ![h] = b]
  PROVE  \E t : IsList(n + 1, t, L \cup {b}, b, nx, pv2)
<1> DEFINE t == [i \in 1 .. n + 1 |-> IF i = 1 THEN b ELSE s[i - 1]]
<1>1. /\ n \in Nat /\ s \in [1 .. n -> Blocks] /\ L = {s[i] : i \in 1 .. n}
      /\ \A i, j \in 1 .. n : s[i] = s[j] => i = j
      /\ h = IF n = 0 THEN Null ELSE s[1]
      /\ \A i \in 1 .. n : nx[s[i]] = IF i = n THEN Null ELSE s[i + 1]
      /\ \A i \in 1 .. n : pv[s[i]] = IF i = 1 THEN Null ELSE s[i - 1]
  BY DEF IsList
<1>2. /\ t[1] = b /\ \A i \in 1 .. n : t[i + 1] = s[i] /\ s[i] # b
      /\ \A i \in 1 .. n + 1 : i = 1 \/ (i - 1 \in 1 .. n /\ t[i] = s[i - 1])
  BY <1>1
<1>3. t \in [1 .. n + 1 -> Blocks] /\ n + 1 \in Nat
  BY <1>1, <1>2
<1> HIDE DEF t
<1>4. ASSUME NEW i \in 1 .. n + 1, NEW j \in 1 .. n + 1, t[i] = t[j] PROVE i = j
  BY <1>1, <1>2, <1>4
<1>5. L \cup {b} = {t[i] : i \in 1 .. n + 1}
  <2>1. ASSUME NEW x \in L PROVE x \in {t[i] : i \in 1 .. n + 1}
    <3>1. PICK i \in 1 .. n : x = s[i]
      BY <1>1
    <3>2. i + 1 \in 1 .. n + 1 /\ x = t[i + 1]
      BY <1>1, <1>2, <3>1
    <3> QED
      BY <3>2
  <2>2. b = t[1] /\ 1 \in 1 .. n + 1
    BY <1>1, <1>2
  <2>3. ASSUME NEW i \in 1 .. n + 1 PROVE t[i] \in L \cup {b}
    BY <1>1, <1>2
  <2> QED
    BY <2>1, <2>2, <2>3
<1>6. \A i \in 1 .. n : pv2[s[i]] = IF i = 1 THEN b ELSE pv[s[i]]
  BY <1>1, NullIs DEF Links
<1>7. pv2[b] = Null
  BY <1>1, <1>2, NullIs DEF Links
<1>8. ASSUME NEW i \in 1 .. n + 1
      PROVE  nx[t[i]] = IF i = n + 1 THEN Null ELSE t[i + 1]
  <2>1. CASE i = 1
    <3>1. n # 0 => 1 \in 1 .. n /\ t[1 + 1] = s[1]
      BY <1>1, <1>2
    <3> QED
      BY <1>1, <1>2, <2>1, <3>1
  <2>2. CASE i # 1
    <3>1. i - 1 \in 1 .. n /\ t[i] = s[i - 1] /\ (i - 1 = n <=> i = n + 1)
          /\ (i - 1) + 1 = i
      BY <1>1, <1>2, <2>2
    <3>2. nx[s[i - 1]] = IF i - 1 = n THEN Null ELSE s[i]
      BY <1>1, <3>1
    <3>3. i # n + 1 => i \in 1 .. n /\ t[i + 1] = s[i]
      BY <1>1, <1>2
    <3> QED
      BY <3>1, <3>2, <3>3
  <2> QED
    BY <2>1, <2>2
<1>9. ASSUME NEW i \in 1 .. n + 1
      PROVE  pv2[t[i]] = IF i = 1 THEN Null ELSE t[i - 1]
  <2>1. CASE i = 1
    BY <1>2, <1>7, <2>1
  <2>2. CASE i # 1
    <3>1. i - 1 \in 1 .. n /\ t[i] = s[i - 1]
      BY <1>2, <2>2
    <3>2. CASE i = 2
      BY <1>2, <1>6, <3>1, <3>2
    <3>3. CASE i # 2
      <4>1. i - 1 # 1 /\ i - 2 \in 1 .. n /\ t[i - 1] = s[i - 2] /\ (i - 1) - 1 = i - 2
        <5>1. i - 2 \in 1 .. n /\ (i - 2) + 1 = i - 1 /\ i - 1 # 1
          BY <1>1, <2>2, <3>1, <3>3
        <5> QED
          BY <1>2, <5>1
      <4>2. pv[s[i - 1]] = s[i - 2]
        BY <1>1, <3>1, <4>1
      <4> QED
        BY <1>6, <2>2, <3>1, <4>1, <4>2
    <3> QED
      BY <3>2, <3>3
  <2> QED
    BY <2>1, <2>2
<1>10. IsList(n + 1, t, L \cup {b}, b, nx, pv2)
  BY <1>1, <1>2, <1>3, <1>4, <1>5, <1>8, <1>9 DEF IsList
<1> QED
  BY <1>10

\* What does not touch the elements' links keeps the list.
LEMMA ListSame ==
  ASSUME NEW n, NEW s, NEW L, NEW h, NEW nx, NEW pv, IsList(n, s, L, h, nx, pv),
         NEW nx2, NEW pv2, \A b \in L : nx2[b] = nx[b] /\ pv2[b] = pv[b]
  PROVE  IsList(n, s, L, h, nx2, pv2)
<1>1. \A i \in 1 .. n : s[i] \in L
  BY DEF IsList
<1> QED
  BY <1>1 DEF IsList

\* A list is no longer than there are blocks.
LEMMA ListLength ==
  ASSUME NEW n, NEW s, NEW L, NEW h, NEW nx, NEW pv, IsList(n, s, L, h, nx, pv)
  PROVE  n \in Nat /\ n <= Cardinality(Blocks) /\ Cardinality(Blocks) \in Nat
<1>1. n \in Nat /\ s \in [1 .. n -> Blocks] /\ \A i, j \in 1 .. n : s[i] = s[j] => i = j
  BY DEF IsList
<1>2. IsFiniteSet(Blocks) /\ Cardinality(Blocks) \in Nat
  BY TrackerAssumption, FS_CardinalityType
<1>3. IsFiniteSet(1 .. n) /\ Cardinality(1 .. n) = n
  BY <1>1, FS_Interval
<1>4. s \in Injection(1 .. n, Blocks)
  BY <1>1 DEF Injection, IsInjective
<1>5. Cardinality(1 .. n) <= Cardinality(Blocks)
  BY <1>2, <1>4, FS_Injection
<1> QED
  BY <1>1, <1>2, <1>3, <1>5

\* The walk follows the list to its end and stays there.
LEMMA WalkFollows ==
  ASSUME NEW n, NEW s, NEW L, IsList(n, s, L, activeAllocations, next, prev)
  PROVE  /\ DOMAIN Walk = 0 .. Cardinality(Blocks)
         /\ \A k \in 0 .. Cardinality(Blocks) : Walk[k] = IF k < n THEN s[k + 1] ELSE Null
<1> DEFINE N == Cardinality(Blocks)
           Step(at) == [k \in 0 .. N |->
                          IF k = 0 THEN activeAllocations
                          ELSE IF at[k - 1] = Null THEN Null ELSE next[at[k - 1]]]
           w == [k \in 0 .. N |-> IF k < n THEN s[k + 1] ELSE Null]
<1>1. n \in Nat /\ n <= N /\ N \in Nat
  BY ListLength
<1>2. Walk = CHOOSE at : at = Step(at)
  BY DEF Walk
<1> HIDE DEF N
<1>3. /\ s \in [1 .. n -> Blocks] /\ Null \notin Blocks
      /\ activeAllocations = IF n = 0 THEN Null ELSE s[1]
      /\ \A i \in 1 .. n : next[s[i]] = IF i = n THEN Null ELSE s[i + 1]
  BY NullIs DEF IsList
<1>4. w = Step(w)
  <2>1. ASSUME NEW k \in 0 .. N
        PROVE  w[k] = IF k = 0 THEN activeAllocations
                      ELSE IF w[k - 1] = Null THEN Null ELSE next[w[k - 1]]
    <3>1. CASE k = 0
      BY <1>1, <1>3, <3>1
    <3>2. CASE k # 0 /\ k - 1 < n
      <4>1. k - 1 \in 0 .. N /\ (k - 1) + 1 = k /\ k \in 1 .. n /\ (k = n <=> ~(k < n))
        BY <1>1, <3>2
      <4>2. w[k - 1] = s[k] /\ s[k] # Null
        BY <1>3, <3>2, <4>1
      <4>3. next[s[k]] = IF k = n THEN Null ELSE s[k + 1]
        BY <1>3, <4>1
      <4>4. w[k] = IF k < n THEN s[k + 1] ELSE Null
        OBVIOUS
      <4> HIDE DEF w
      <4> QED
        BY <3>2, <4>1, <4>2, <4>3, <4>4
    <3>3. CASE k # 0 /\ ~(k - 1 < n)
      <4>1. k - 1 \in 0 .. N /\ ~(k < n)
        BY <1>1, <3>3
      <4>2. w[k - 1] = Null /\ w[k] = Null
        BY <3>3, <4>1
      <4> HIDE DEF w
      <4> QED
        BY <3>3, <4>2
    <3> QED
      BY <3>1, <3>2, <3>3
  <2>2. w = [k \in 0 .. N |-> w[k]]
    OBVIOUS
  <2> HIDE DEF w
  <2> QED
    BY <2>1, <2>2
<1> HIDE DEF w
<1>5. Walk = Step(Walk)
  <2> HIDE DEF Step
  <2> QED
    BY <1>2, <1>4
<1> DEFINE T == {k \in Nat : k <= N => Walk[k] = w[k]}
<1>6. 0 \in T
  <2>1. Walk[0] = activeAllocations
    BY <1>1, <1>5
  <2>2. w[0] = activeAllocations
    BY <1>1, <1>4
  <2> QED
    BY <2>1, <2>2
<1>7. ASSUME NEW k \in T PROVE k + 1 \in T
  <2> SUFFICES ASSUME k + 1 <= N PROVE Walk[k + 1] = w[k + 1]
    OBVIOUS
  <2>1. k + 1 \in 0 .. N /\ k + 1 # 0 /\ (k + 1) - 1 = k /\ Walk[k] = w[k]
    BY <1>1
  <2>2. Walk[k + 1] = IF Walk[k] = Null THEN Null ELSE next[Walk[k]]
    BY <1>5, <2>1, ZenonT(60)
  <2>3. w[k + 1] = IF w[k] = Null THEN Null ELSE next[w[k]]
    BY <1>4, <2>1, ZenonT(60)
  <2> QED
    BY <2>1, <2>2, <2>3
<1>8. T \in SUBSET Nat
  OBVIOUS
<1> HIDE DEF T
<1>9. T = Nat
  BY <1>6, <1>7, <1>8, SetInduction
<1>10. ASSUME NEW k \in 0 .. N PROVE Walk[k] = w[k]
  BY <1>1, <1>9 DEF T
<1>11. DOMAIN Walk = 0 .. N
  BY <1>5
<1> QED
  BY <1>10, <1>11 DEF w, N

\* So it meets the blocks of the list and no others.
LEMMA WalkListed ==
  ASSUME NEW n, NEW s, NEW L, IsList(n, s, L, activeAllocations, next, prev)
  PROVE  Listed = L /\ Walk[Cardinality(Blocks)] = Null
<1> DEFINE N == Cardinality(Blocks)
<1>1. n \in Nat /\ n <= N /\ N \in Nat
  BY ListLength
<1>2. /\ DOMAIN Walk = 0 .. N
      /\ \A k \in 0 .. N : Walk[k] = IF k < n THEN s[k + 1] ELSE Null
  BY WalkFollows
<1>3. s \in [1 .. n -> Blocks] /\ Null \notin Blocks /\ L = {s[i] : i \in 1 .. n}
  BY NullIs DEF IsList
<1> HIDE DEF N
<1>4. ASSUME NEW b \in Listed PROVE b \in L
  <2>1. PICK k \in 0 .. N : b = Walk[k] /\ b # Null
    BY <1>2 DEF Listed
  <2>2. k < n /\ b = s[k + 1]
    BY <1>2, <2>1
  <2> QED
    BY <1>1, <1>3, <2>2
<1>5. ASSUME NEW b \in L PROVE b \in Listed
  <2>1. PICK i \in 1 .. n : b = s[i]
    BY <1>3
  <2>2. i - 1 \in 0 .. N /\ i - 1 < n /\ (i - 1) + 1 = i
    BY <1>1
  <2>3. b = Walk[i - 1] /\ b # Null
    BY <1>2, <1>3, <2>1, <2>2
  <2> QED
    BY <1>2, <2>2, <2>3 DEF Listed
<1>6. N \in 0 .. N /\ ~(N < n)
  BY <1>1
<1> QED
  BY <1>2, <1>4, <1>5, <1>6 DEF N

-----------------------------------------------------------------------------
(* The inductive invariant *)

Entries == [name : TagNames, bytes : 0 .. Word - 1, limit : Nat, count : Int]

\* The blocks on the list: those of the system's that no call is linking.
Linked == {b \in Blocks : /\ header[b] # Null
                          /\ \A t \in Threads : job[t] # Null => job[t].block # b}

TrackTypes ==
  /\ memoryTags \in Seq(Entries) /\ Len(memoryTags) \in 1 .. TagLimit
  /\ next \in Links /\ prev \in Links
  /\ header \in [Blocks -> Headers \cup {Null}]
  /\ owned \in [Blocks -> Nat \cup {Null}]
  /\ pc \in [Threads -> {"idle", "link", "publish"}]
  /\ job \in [Threads -> Jobs \cup {Null}]

\* Every header names an entry, so linking it never registers one.
TagsKnown == \A b \in Blocks : header[b] # Null => Named(header[b].tag) # {}

Chained(L, h, nx, pv) == \E n, s : IsList(n, s, L, h, nx, pv)

\* A block that a call is linking is allocated, of the size its caller will
\* know, and once the head was read it points to it.
JobsSound ==
  \A t \in Threads :
    /\ job[t] = Null <=> pc[t] = "idle"
    /\ job[t] # Null => /\ header[job[t].block] # Null
                        /\ header[job[t].block].size = job[t].size
                        /\ job[t].was \notin Linked
    /\ pc[t] = "publish" => /\ next[job[t].block] = activeAllocations
                            /\ prev[job[t].block] = Null

\* Callers hold the listed blocks and the one that is being replaced.
OwnedSound ==
  /\ \A b \in Linked : owned[b] = header[b].size
  /\ \A b \in Blocks : owned[b] # Null =>
       b \in Linked \/ \E t \in Threads : job[t] # Null /\ job[t].was = b

ListInv ==
  /\ TrackTypes /\ TagsKnown /\ JobsSound /\ OwnedSound
  /\ Chained(Linked, activeAllocations, next, prev)

-----------------------------------------------------------------------------
(* Tags *)

LEMMA Constants ==
  /\ TagLimit \in Nat /\ TagLimit >= 1 /\ Word \in Nat /\ Word > 0
  /\ DefaultLimit \in Nat /\ Align \in Nat /\ Align >= 1
  /\ Requests \subseteq Nat /\ Limits \subseteq Nat /\ Overhead \in Nat
  /\ Cut \in [Tags -> TagNames] /\ Tags \subseteq TagNames /\ Unknown \in Tags
  BY TrackerAssumption DEF TagNames

\* getOrCreateTag returns an entry of the table, of that name if it has one.
LEMMA TagsFound ==
  ASSUME memoryTags \in Seq(Entries), Len(memoryTags) \in 1 .. TagLimit,
         NEW name, name \in Tags \/ Named(name) # {}
  PROVE  /\ Registered(name) \in Seq(Entries)
         /\ Len(Registered(name)) \in Len(memoryTags) .. TagLimit
         /\ \A i \in 1 .. Len(memoryTags) : Registered(name)[i] = memoryTags[i]
         /\ EntryOf(name) \in 1 .. Len(Registered(name))
         /\ Named(name) # {} => /\ Registered(name) = memoryTags
                                /\ EntryOf(name) \in Named(name)
                                /\ \A i \in Named(name) : EntryOf(name) <= i
<1>1. DOMAIN memoryTags = 1 .. Len(memoryTags)
  OBVIOUS
<1>2. CASE Named(name) # {}
  <2>1. Named(name) \in SUBSET Nat
    BY <1>1 DEF Named
  <2>2. \E x \in Named(name) : \A y \in Named(name) : x <= y
    BY <1>2, <2>1, LeastElement, SMTT(60)
  <2>3. EntryOf(name) = CHOOSE x \in Named(name) : \A y \in Named(name) : x <= y
    BY <1>2 DEF EntryOf, Min
  <2>4. EntryOf(name) \in Named(name) /\ \A i \in Named(name) : EntryOf(name) <= i
    BY <2>2, <2>3
  <2>5. Registered(name) = memoryTags
    BY <1>2 DEF Registered
  <2>6. EntryOf(name) \in 1 .. Len(memoryTags)
    BY <1>1, <2>4 DEF Named
  <2> QED
    BY <2>4, <2>5, <2>6, Constants
<1>3. CASE Named(name) = {} /\ Len(memoryTags) >= TagLimit
  BY <1>3, Constants DEF Registered, EntryOf
<1>4. CASE Named(name) = {} /\ Len(memoryTags) < TagLimit
  <2>1. Entry(Cut[name], DefaultLimit) \in Entries
    BY <1>4, Constants DEF Entry, Entries
  <2>2. /\ Registered(name) = Append(memoryTags, Entry(Cut[name], DefaultLimit))
        /\ EntryOf(name) = Len(memoryTags) + 1
    BY <1>4, Constants DEF Registered, EntryOf
  <2> QED
    BY <1>4, <2>1, <2>2, Constants
<1> QED
  BY <1>2, <1>3, <1>4, Constants

\* The assignments to one entry keep the table a table, and its names.
LEMMA TagsCharged ==
  ASSUME NEW m \in Seq(Entries), NEW b \in Blocks, header[b].size \in Nat,
         EntryOf(header[b].tag) \in 1 .. Len(m),
         NEW r \in {Charge(m, b), Credit(m, b)}
  PROVE  /\ r \in Seq(Entries) /\ Len(r) = Len(m)
         /\ \A i \in 1 .. Len(m) : r[i].name = m[i].name
<1> DEFINE i == EntryOf(header[b].tag)
<1>1. PICK e \in Entries : r = [m EXCEPT ![i] = e] /\ e.name = m[i].name
  <2>1. m[i] \in Entries
    OBVIOUS
  <2>2. /\ m[i].name \in TagNames /\ m[i].bytes \in Int /\ m[i].limit \in Nat
        /\ m[i].count \in Int /\ m[i].bytes + header[b].size \in Int
        /\ m[i].bytes - header[b].size \in Int
    <3>1. /\ m[i].name \in TagNames /\ m[i].bytes \in 0 .. Word - 1 /\ m[i].limit \in Nat
          /\ m[i].count \in Int
      BY <2>1 DEF Entries
    <3> QED
      BY <3>1
  <2>3. \A x \in Int : x % Word \in 0 .. Word - 1
    BY Constants
  <2>4. CASE r = Charge(m, b)
    <3> DEFINE x == (m[i].bytes + header[b].size) % Word
               y == m[i].count + 1
               e == [name |-> m[i].name, bytes |-> x, limit |-> m[i].limit, count |-> y]
    <3>1. x \in 0 .. Word - 1
      BY <2>2, <2>3, Zenon
    <3> y \in Int
      BY <2>2, SMTT(60)
    <3>2. r = [m EXCEPT ![i] = e]
      BY <2>1, <2>4, ZenonT(60) DEF Charge, Entries
    <3> HIDE DEF x, y
    <3>3. e \in Entries /\ e.name = m[i].name
      BY <2>2, <3>1 DEF Entries
    <3> QED
      BY <3>2, <3>3
  <2>5. CASE r = Credit(m, b)
    <3> DEFINE x == (m[i].bytes - header[b].size) % Word
               y == m[i].count - 1
               e == [name |-> m[i].name, bytes |-> x, limit |-> m[i].limit, count |-> y]
    <3>1. x \in 0 .. Word - 1
      BY <2>2, <2>3, Zenon
    <3> y \in Int
      BY <2>2, SMTT(60)
    <3>2. r = [m EXCEPT ![i] = e]
      BY <2>1, <2>5, ZenonT(60) DEF Credit, Entries
    <3> HIDE DEF x, y
    <3>3. e \in Entries /\ e.name = m[i].name
      BY <2>2, <3>1 DEF Entries
    <3> QED
      BY <3>2, <3>3
  <2> QED
    BY <2>4, <2>5
<1> HIDE DEF i
<1> QED
  BY <1>1 DEF i
\* The table after a step: no entry is lost or renamed.
TagsKept ==
  /\ memoryTags' \in Seq(Entries) /\ Len(memoryTags') \in Len(memoryTags) .. TagLimit
  /\ \A i \in 1 .. Len(memoryTags) : memoryTags'[i].name = memoryTags[i].name

LEMMA NamesKept ==
  ASSUME TrackTypes, TagsKnown, TagsKept, NEW b \in Blocks, header[b] # Null
  PROVE  \E i \in DOMAIN memoryTags' : memoryTags'[i].name = header[b].tag
<1> DEFINE name == header[b].tag
<1>1. PICK i \in 1 .. Len(memoryTags) : memoryTags[i].name = name
  BY DEF TagsKnown, Named, TrackTypes
<1>2. i \in DOMAIN memoryTags' /\ memoryTags'[i].name = name
  BY <1>1 DEF TagsKept, TrackTypes
<1> QED
  BY <1>2

LEMMA RegisteredKept ==
  ASSUME TrackTypes, NEW name, name \in Tags \/ Named(name) # {},
         memoryTags' = Registered(name)
  PROVE  TagsKept
<1>1. memoryTags \in Seq(Entries) /\ Len(memoryTags) \in 1 .. TagLimit
  BY DEF TrackTypes
<1> QED
  BY <1>1, TagsFound DEF TagsKept

\* Steps that touch neither the blocks nor the calls.
LEMMA ListFrame ==
  ASSUME ListInv, TagsKept, UNCHANGED <<links, header, pc, job, owned>>
  PROVE  ListInv'
<1>1. TrackTypes'
  BY Constants DEF ListInv, TrackTypes, TagsKept, links
<1>2. TagsKnown'
  BY NamesKept DEF ListInv, TagsKnown, Named
<1>3. Linked' = Linked
  BY DEF Linked
<1>4. JobsSound'
  BY <1>3 DEF ListInv, JobsSound, links
<1>5. OwnedSound'
  BY <1>3 DEF ListInv, OwnedSound
<1>6. Chained(Linked, activeAllocations, next, prev)'
  BY <1>3 DEF ListInv, Chained, links
<1> QED
  BY <1>1, <1>2, <1>4, <1>5, <1>6 DEF ListInv

LEMMA LinkReadsList ==
  ASSUME CallsExclude, ListInv, NEW t \in Threads, LinkReads(t)
  PROVE  ListInv' /\ Linked' = Linked
<1> DEFINE b == job[t].block
<1>1. /\ TrackTypes /\ TagsKnown /\ JobsSound /\ OwnedSound
      /\ Chained(Linked, activeAllocations, next, prev)
  BY DEF ListInv
<1>2. pc[t] = "link" /\ job[t] \in Jobs /\ job[t] # Null /\ b \in Blocks /\ b # Null
  BY <1>1, NullIs DEF LinkReads, JobsSound, TrackTypes, Jobs
<1>3. /\ next' = [next EXCEPT ![b] = activeAllocations] /\ prev' = [prev EXCEPT ![b] = Null]
      /\ pc' = [pc EXCEPT ![t] = "publish"]
      /\ UNCHANGED <<memoryTags, activeAllocations, header, job, owned>>
  BY DEF LinkReads
<1>4. PICK n, s : IsList(n, s, Linked, activeAllocations, next, prev)
  BY <1>1 DEF Chained
<1>5. activeAllocations \in Blocks \cup {Null}
  BY <1>4 DEF IsList
<1>6. Linked' = Linked /\ b \notin Linked
  BY <1>2, <1>3 DEF Linked
<1>7. TrackTypes'
  BY <1>1, <1>2, <1>3, <1>5 DEF TrackTypes, Links
<1>8. TagsKnown'
  BY <1>1, <1>3 DEF TagsKnown, Named
<1>9. JobsSound'
  BY <1>1, <1>2, <1>3, <1>6 DEF JobsSound, TrackTypes, Links, CallsExclude
<1>10. OwnedSound'
  BY <1>1, <1>3, <1>6 DEF OwnedSound
<1>11. IsList(n, s, Linked, activeAllocations, next', prev')
  <2>1. \A x \in Linked : next'[x] = next[x] /\ prev'[x] = prev[x]
    BY <1>1, <1>3, <1>6 DEF TrackTypes, Links, Linked
  <2> QED
    BY <1>4, <2>1, ListSame
<1>12. Chained(Linked, activeAllocations, next, prev)'
  BY <1>3, <1>6, <1>11 DEF Chained
<1> QED
  BY <1>6, <1>7, <1>8, <1>9, <1>10, <1>12 DEF ListInv

LEMMA LinkPublishesList ==
  ASSUME CallsExclude, ListInv, NEW t \in Threads, LinkPublishes(t)
  PROVE  /\ ListInv' /\ TagsKept /\ Linked' = Linked \cup {job[t].block}
         /\ job[t].block \in Blocks \ Linked /\ header[job[t].block] \in Headers
         /\ header[job[t].block] # Null
<1> DEFINE b == job[t].block
<1>1. /\ TrackTypes /\ TagsKnown /\ JobsSound /\ OwnedSound
      /\ Chained(Linked, activeAllocations, next, prev)
  BY DEF ListInv
<1>2. pc[t] = "publish" /\ job[t] \in Jobs /\ job[t] # Null /\ b \in Blocks /\ b # Null
  BY <1>1, NullIs DEF LinkPublishes, JobsSound, TrackTypes, Jobs
<1>3. /\ prev' = IF activeAllocations = Null THEN prev
                 ELSE [prev EXCEPT ![activeAllocations] = b]
      /\ activeAllocations' = b
      /\ memoryTags' = Charge(Registered(header[b].tag), b)
      /\ owned' = [x \in Blocks |->
                     IF x = b THEN job[t].size
                     ELSE IF x = job[t].was THEN Null ELSE owned[x]]
      /\ pc' = [pc EXCEPT ![t] = "idle"] /\ job' = [job EXCEPT ![t] = Null]
      /\ UNCHANGED <<next, header>>
  BY DEF LinkPublishes
<1>4. /\ header[b] # Null /\ header[b].size = job[t].size /\ job[t].was \notin Linked
      /\ next[b] = activeAllocations /\ prev[b] = Null
  BY <1>1, <1>2 DEF JobsSound
<1>5. header[b] \in Headers /\ header[b].size \in Nat /\ job[t].size \in Nat
  BY <1>1, <1>2, <1>4 DEF TrackTypes, Headers, Jobs
<1>6. \A u \in Threads : u = t
  BY DEF CallsExclude
<1>7. Linked' = Linked \cup {b} /\ b \notin Linked
  BY <1>1, <1>2, <1>3, <1>4, <1>6 DEF Linked, TrackTypes
<1>8. TagsKept
  <2>1. memoryTags \in Seq(Entries) /\ Len(memoryTags) \in 1 .. TagLimit
    BY <1>1 DEF TrackTypes
  <2>2. Named(header[b].tag) # {}
    BY <1>1, <1>2, <1>4 DEF TagsKnown
  <2>3. Registered(header[b].tag) = memoryTags /\ EntryOf(header[b].tag) \in 1 .. Len(memoryTags)
    BY <2>1, <2>2, TagsFound
  <2>4. memoryTags' = Charge(memoryTags, b)
    BY <1>3, <2>3
  <2>5. /\ memoryTags' \in Seq(Entries) /\ Len(memoryTags') = Len(memoryTags)
        /\ \A i \in 1 .. Len(memoryTags) : memoryTags'[i].name = memoryTags[i].name
    BY <1>2, <1>5, <2>1, <2>3, <2>4, TagsCharged, SMTT(60)
  <2> QED
    BY <2>1, <2>5, Constants DEF TagsKept
<1>9. TrackTypes'
  <2>1. prev' \in Links
    BY <1>1, <1>2, <1>3 DEF TrackTypes, Links
  <2>2. owned' \in [Blocks -> Nat \cup {Null}]
    BY <1>1, <1>3, <1>5 DEF TrackTypes
  <2> QED
    BY <1>1, <1>3, <1>8, <2>1, <2>2, Constants DEF TrackTypes, TagsKept
<1>10. TagsKnown'
  BY <1>1, <1>3, <1>8, NamesKept DEF TagsKnown, Named
<1>11. JobsSound'
  BY <1>1, <1>2, <1>3, <1>6 DEF JobsSound, TrackTypes
<1>12. OwnedSound'
  <2>1. \A x \in Linked' : owned'[x] = header'[x].size
    BY <1>1, <1>3, <1>4, <1>7 DEF OwnedSound, Linked
  <2>2. ASSUME NEW x \in Blocks, owned'[x] # Null PROVE x \in Linked'
    BY <1>1, <1>2, <1>3, <1>6, <1>7, <2>2 DEF OwnedSound
  <2> QED
    BY <2>1, <2>2, SMTT(60) DEF OwnedSound
<1>13. Chained(Linked, activeAllocations, next, prev)'
  <2>1. PICK n, s : IsList(n, s, Linked, activeAllocations, next, prev)
    BY <1>1 DEF Chained
  <2>2. next \in Links /\ prev \in Links
    BY <1>1 DEF TrackTypes
  <2>3. \E r : IsList(n + 1, r, Linked \cup {b}, b, next, prev')
    <3> HIDE DEF b
    <3> QED
      BY <1>2, <1>3, <1>4, <1>7, <2>1, <2>2, ListWith
  <2> QED
    BY <1>3, <1>7, <2>3 DEF Chained
<1> QED
  BY <1>2, <1>4, <1>5, <1>7, <1>8, <1>9, <1>10, <1>11, <1>12, <1>13 DEF ListInv

LEMMA UnlinkList ==
  ASSUME TrackTypes, Chained(Linked, activeAllocations, next, prev),
         NEW b \in Linked, Unlink(b)
  PROVE  /\ next' \in Links /\ prev' \in Links
         /\ Chained(Linked \ {b}, activeAllocations', next', prev')
<1>1. next \in Links /\ prev \in Links /\ b \in Blocks
  BY DEF TrackTypes, Linked
<1>2. /\ next' = IF prev[b] = Null THEN next ELSE [next EXCEPT ![prev[b]] = next[b]]
      /\ activeAllocations' = IF prev[b] = Null THEN next[b] ELSE activeAllocations
      /\ prev' = IF next[b] = Null THEN prev ELSE [prev EXCEPT ![next[b]] = prev[b]]
  BY DEF Unlink
<1>3. next' \in Links /\ prev' \in Links
  BY <1>1, <1>2 DEF Links
<1>4. PICK n, s : IsList(n, s, Linked, activeAllocations, next, prev)
  BY DEF Chained
<1>5. PICK k \in 1 .. n : b = s[k]
  BY <1>4 DEF IsList
<1>6. Unlinked(b, activeAllocations, next, prev, activeAllocations', next', prev')
  BY <1>2 DEF Unlinked
<1>7. \E r : IsList(n - 1, r, Linked \ {b}, activeAllocations', next', prev')
  BY <1>1, <1>4, <1>5, <1>6, ListWithout
<1> QED
  BY <1>3, <1>7 DEF Chained

LEMMA CreditKept ==
  ASSUME TrackTypes, TagsKnown, NEW b \in Blocks, header[b] # Null,
         memoryTags' = Credit(memoryTags, b)
  PROVE  TagsKept
<1>1. memoryTags \in Seq(Entries) /\ Len(memoryTags) \in 1 .. TagLimit
  BY DEF TrackTypes
<1>2. Named(header[b].tag) # {} /\ header[b].size \in Nat
  BY DEF TagsKnown, TrackTypes, Headers
<1>3. Registered(header[b].tag) = memoryTags /\ EntryOf(header[b].tag) \in 1 .. Len(memoryTags)
  BY <1>1, <1>2, TagsFound
<1>4. /\ memoryTags' \in Seq(Entries) /\ Len(memoryTags') = Len(memoryTags)
      /\ \A i \in 1 .. Len(memoryTags) : memoryTags'[i].name = memoryTags[i].name
  BY <1>1, <1>2, <1>3, TagsCharged, SMTT(60)
<1> QED
  BY <1>1, <1>4, Constants DEF TagsKept

\* Between calls the list holds every allocated block.
LEMMA QuietList ==
  ASSUME CallsExclude, ListInv, NEW t \in Threads, MayCall(t)
  PROVE  /\ \A u \in Threads : u = t
         /\ \A u \in Threads : pc[u] = "idle" /\ job[u] = Null
         /\ Linked = Live /\ Linked = {b \in Blocks : owned[b] # Null}
         /\ \A b \in Linked : owned[b] = header[b].size /\ header[b] \in Headers
<1>1. \A u \in Threads : u = t /\ pc[u] = "idle" /\ job[u] = Null
  BY DEF CallsExclude, MayCall, ListInv, JobsSound
<1>2. Linked = Live
  BY <1>1 DEF Linked, Live
<1>3. \A b \in Linked : header[b] \in Headers /\ owned[b] = header[b].size
  BY DEF ListInv, OwnedSound, Linked, TrackTypes
<1>4. \A b \in Linked : owned[b] # Null
  BY <1>3, NullIs DEF Headers
<1>5. \A b \in Blocks : owned[b] # Null => b \in Linked
  BY <1>1 DEF ListInv, OwnedSound
<1> QED
  BY <1>1, <1>2, <1>3, <1>4, <1>5 DEF Linked

LEMMA MallocList ==
  ASSUME CallsExclude, ListInv, NEW t \in Threads, NEW tag \in Tags,
         NEW n \in Requests, MallocStarts(t, tag, n)
  PROVE  ListInv' /\ Linked' = Linked /\ \A x \in Linked : header'[x] = header[x]
<1> DEFINE e == Registered(tag)[EntryOf(tag)]
<1>1. /\ TrackTypes /\ TagsKnown /\ JobsSound /\ OwnedSound
      /\ Chained(Linked, activeAllocations, next, prev)
  BY DEF ListInv
<1>2. PICK b \in Blocks :
        /\ header[b] = Null
        /\ header' = [header EXCEPT ![b] = [size |-> n, room |-> Room(n), tag |-> e.name]]
        /\ job' = [job EXCEPT ![t] = [block |-> b, was |-> Null, size |-> n]]
  BY DEF MallocStarts, Available
<1>3. /\ MayCall(t) /\ memoryTags' = Registered(tag)
      /\ pc' = [pc EXCEPT ![t] = "link"]
      /\ UNCHANGED <<activeAllocations, next, prev, owned>>
  BY DEF MallocStarts, links
<1>4. \A u \in Threads : u = t /\ pc[u] = "idle" /\ job[u] = Null
  BY <1>3, QuietList
<1>5. TagsKept
  BY <1>1, <1>3, RegisteredKept
<1>6. EntryOf(tag) \in DOMAIN memoryTags' /\ e \in Entries /\ memoryTags'[EntryOf(tag)] = e
  <2>1. /\ Registered(tag) \in Seq(Entries)
        /\ EntryOf(tag) \in 1 .. Len(Registered(tag))
    BY <1>1, TagsFound DEF TrackTypes
  <2> QED
    BY <1>3, <2>1
<1> HIDE DEF e
<1> DEFINE hd == [size |-> n, room |-> Room(n), tag |-> e.name]
           jb == [block |-> b, was |-> Null, size |-> n]
<1>7. hd \in Headers /\ jb \in Jobs
  <2>1. Room(n) \in Nat /\ n \in Nat
    BY Constants DEF Room
  <2> QED
    BY <1>6, <2>1 DEF Headers, Jobs, Entries
<1>8. hd # Null /\ jb # Null /\ hd.size = n /\ hd.tag = e.name
      /\ jb.block = b /\ jb.was = Null /\ jb.size = n
  BY <1>7, NullIs
<1> HIDE DEF hd, jb
<1>9. header' = [header EXCEPT ![b] = hd] /\ job' = [job EXCEPT ![t] = jb]
  BY <1>2 DEF hd, jb
<1>10. Linked' = Linked /\ b \notin Linked
  BY <1>1, <1>2, <1>4, <1>8, <1>9 DEF Linked, TrackTypes
<1>11. TrackTypes'
  BY <1>1, <1>3, <1>5, <1>7, <1>9, Constants DEF TrackTypes, TagsKept
<1>12. TagsKnown'
  <2>1. ASSUME NEW x \in Blocks, header'[x] # Null
        PROVE  \E i \in DOMAIN memoryTags' : memoryTags'[i].name = header'[x].tag
    <3>1. CASE x = b
      BY <1>1, <1>6, <1>8, <1>9, <3>1 DEF TrackTypes
    <3>2. CASE x # b
      <4>1. header'[x] = header[x]
        BY <1>1, <1>9, <3>2 DEF TrackTypes
      <4> QED
        BY <1>1, <1>5, <2>1, <4>1, NamesKept
    <3> QED
      BY <3>1, <3>2
  <2> QED
    BY <2>1 DEF TagsKnown, Named
<1>13. JobsSound'
  <2>1. job'[t] = jb /\ pc'[t] = "link" /\ header'[b] = hd
    BY <1>1, <1>3, <1>9 DEF TrackTypes
  <2>2. Null \notin Linked'
    BY NullIs DEF Linked
  <2> QED
    BY <1>4, <1>8, <2>1, <2>2 DEF JobsSound
<1>14. \A x \in Linked : header'[x] = header[x]
  BY <1>1, <1>9, <1>10 DEF TrackTypes, Linked
<1>15. OwnedSound'
  <2>1. \A x \in Blocks : owned[x] # Null => x \in Linked
    BY <1>1, <1>4 DEF OwnedSound
  <2> QED
    BY <1>1, <1>3, <1>10, <1>14, <2>1 DEF OwnedSound
<1>16. Chained(Linked, activeAllocations, next, prev)'
  BY <1>1, <1>3, <1>10 DEF Chained
<1> QED
  BY <1>10, <1>11, <1>12, <1>13, <1>14, <1>15, <1>16 DEF ListInv

LEMMA FreeList ==
  ASSUME CallsExclude, ListInv, NEW t \in Threads, NEW b \in Blocks,
         MayUse(t, b), FreeSucceeds(b)
  PROVE  /\ ListInv' /\ TagsKept /\ b \in Linked /\ Linked' = Linked \ {b}
         /\ \A x \in Linked \ {b} : header'[x] = header[x]
<1>1. /\ TrackTypes /\ TagsKnown /\ JobsSound /\ OwnedSound
      /\ Chained(Linked, activeAllocations, next, prev)
  BY DEF ListInv
<1>2. MayCall(t) /\ owned[b] # Null
  BY DEF MayUse
<1>3. /\ \A u \in Threads : u = t /\ pc[u] = "idle" /\ job[u] = Null
      /\ Linked = Live /\ b \in Linked
      /\ \A x \in Blocks : owned[x] # Null => x \in Linked
  BY <1>2, QuietList
<1>4. /\ Unlink(b) /\ memoryTags' = Credit(memoryTags, b)
      /\ header' = [header EXCEPT ![b] = Null] /\ owned' = [owned EXCEPT ![b] = Null]
      /\ UNCHANGED <<pc, job>>
  BY DEF FreeSucceeds
<1>5. /\ next' \in Links /\ prev' \in Links
      /\ Chained(Linked \ {b}, activeAllocations', next', prev')
  BY <1>1, <1>3, <1>4, UnlinkList
<1>6. Linked' = Linked \ {b}
  BY <1>1, <1>3, <1>4 DEF Linked, TrackTypes
<1>7. TagsKept
  BY <1>1, <1>3, <1>4, CreditKept DEF Linked
<1>8. TrackTypes'
  BY <1>1, <1>4, <1>5, <1>7, Constants DEF TrackTypes, TagsKept
<1>9. TagsKnown'
  <2>1. \A x \in Blocks : header'[x] # Null => header'[x] = header[x] /\ header[x] # Null
    BY <1>1, <1>4 DEF TrackTypes
  <2> QED
    BY <1>1, <1>7, <2>1, NamesKept DEF TagsKnown, Named
<1>10. JobsSound'
  BY <1>1, <1>3, <1>4 DEF JobsSound
<1>11. OwnedSound'
  BY <1>1, <1>3, <1>4, <1>6 DEF OwnedSound, TrackTypes, Linked
<1>12. Chained(Linked, activeAllocations, next, prev)'
  BY <1>5, <1>6 DEF Chained
<1>13. \A x \in Linked \ {b} : header'[x] = header[x]
  BY <1>1, <1>4 DEF TrackTypes, Linked
<1> QED
  BY <1>3, <1>6, <1>7, <1>8, <1>9, <1>10, <1>11, <1>12, <1>13 DEF ListInv

LEMMA ReallocList ==
  ASSUME CallsExclude, ListInv, NEW t \in Threads, NEW b \in Blocks, NEW n \in Requests,
         MayUse(t, b), ReallocStarts(t, b, n)
  PROVE  /\ ListInv' /\ TagsKept /\ b \in Linked /\ Linked' = Linked \ {b}
         /\ \A x \in Linked \ {b} : header'[x] = header[x]
<1>1. /\ TrackTypes /\ TagsKnown /\ JobsSound /\ OwnedSound
      /\ Chained(Linked, activeAllocations, next, prev)
  BY DEF ListInv
<1>2. MayCall(t) /\ owned[b] # Null
  BY DEF MayUse
<1>3. /\ \A u \in Threads : u = t /\ pc[u] = "idle" /\ job[u] = Null
      /\ Linked = Live /\ b \in Linked
      /\ \A x \in Blocks : owned[x] # Null => x \in Linked
      /\ header[b] \in Headers /\ owned[b] = header[b].size
  BY <1>2, QuietList
<1>4. /\ Unlink(b) /\ memoryTags' = Credit(memoryTags, b)
      /\ ReallocFails(t, b, n) \/ ReallocMoves(t, b, n)
      /\ pc' = [pc EXCEPT ![t] = "link"] /\ owned' = owned
  BY DEF ReallocStarts
<1>5. /\ next' \in Links /\ prev' \in Links
      /\ Chained(Linked \ {b}, activeAllocations', next', prev')
  BY <1>1, <1>3, <1>4, UnlinkList
<1>6. TagsKept
  BY <1>1, <1>3, <1>4, CreditKept DEF Linked
\* In both cases block x, not on the list, is to be linked under b's tag.
<1>7. PICK x \in Blocks, hd \in Headers, jb \in Jobs :
        /\ x = b \/ header[x] = Null
        /\ header' = [header EXCEPT ![b] = Null, ![x] = hd]
        /\ job' = [job EXCEPT ![t] = jb]
        /\ hd.tag = header[b].tag /\ jb.block = x /\ jb.was = b /\ jb.size = hd.size
  <2>1. CASE ReallocFails(t, b, n)
    <3> DEFINE jb == [block |-> b, was |-> b, size |-> owned[b]]
    <3>1. jb \in Jobs /\ jb.block = b /\ jb.was = b /\ jb.size = header[b].size
      BY <1>3 DEF Jobs, Headers
    <3>2. job' = [job EXCEPT ![t] = jb] /\ header' = [header EXCEPT ![b] = Null, ![b] = header[b]]
      BY <1>1, <2>1 DEF ReallocFails, TrackTypes
    <3> HIDE DEF jb
    <3> QED
      BY <1>3, <3>1, <3>2, ZenonT(60)
  <2>2. CASE ReallocMoves(t, b, n)
    <3>1. PICK x \in Blocks :
            /\ x = b \/ header[x] = Null
            /\ header' = [header EXCEPT ![b] = Null,
                 ![x] = [size |-> n, room |-> Room(n), tag |-> header[b].tag]]
            /\ job' = [job EXCEPT ![t] = [block |-> x, was |-> b, size |-> n]]
      BY <2>2 DEF ReallocMoves, Available
    <3> DEFINE hd == [size |-> n, room |-> Room(n), tag |-> header[b].tag]
               jb == [block |-> x, was |-> b, size |-> n]
    <3>2. Room(n) \in Nat /\ n \in Nat
      BY Constants DEF Room
    <3>3. /\ hd \in Headers /\ jb \in Jobs /\ hd.tag = header[b].tag
          /\ jb.block = x /\ jb.was = b /\ jb.size = hd.size
      BY <1>3, <3>2 DEF Headers, Jobs
    <3> QED
      BY <3>1, <3>3
  <2> QED
    BY <1>4, <2>1, <2>2
<1>8. hd # Null /\ jb # Null /\ hd.size \in Nat
  BY NullIs DEF Headers
<1>9. /\ \A y \in Blocks : header'[y] = IF y = x THEN hd ELSE IF y = b THEN Null ELSE header[y]
      /\ header' \in [Blocks -> Headers \cup {Null}]
      /\ job'[t] = jb /\ job' \in [Threads -> Jobs \cup {Null}]
  BY <1>1, <1>7 DEF TrackTypes
<1>10. Linked' = Linked \ {b} /\ x \notin Linked'
  BY <1>3, <1>7, <1>8, <1>9 DEF Linked
<1>11. TrackTypes'
  <2>1. pc' \in [Threads -> {"idle", "link", "publish"}] /\ owned' \in [Blocks -> Nat \cup {Null}]
    BY <1>1, <1>4 DEF TrackTypes
  <2>2. memoryTags' \in Seq(Entries) /\ Len(memoryTags') \in 1 .. TagLimit
    BY <1>1, <1>6, Constants DEF TrackTypes, TagsKept
  <2> QED
    BY <1>5, <1>9, <2>1, <2>2 DEF TrackTypes
<1>12. TagsKnown'
  <2>1. ASSUME NEW y \in Blocks, header'[y] # Null
        PROVE  \E z \in Blocks : header[z] # Null /\ header'[y].tag = header[z].tag
    BY <1>3, <1>7, <1>9, <2>1 DEF Linked
  <2> QED
    BY <1>1, <1>6, <2>1, NamesKept DEF TagsKnown, Named
<1>13. JobsSound'
  <2>1. pc'[t] = "link"
    BY <1>1, <1>4 DEF TrackTypes
  <2> QED
    BY <1>3, <1>7, <1>8, <1>9, <1>10, <2>1 DEF JobsSound
<1>14. OwnedSound'
  <2>1. \A y \in Linked' : y \in Linked /\ header'[y] = header[y]
    BY <1>9, <1>10 DEF Linked
  <2>2. \A y \in Blocks : owned[y] # Null => y \in Linked' \/ y = b
    BY <1>3, <1>10
  <2> QED
    <3>1. \A y \in Linked' : owned'[y] = header'[y].size
      BY <1>1, <1>4, <2>1 DEF OwnedSound
    <3>2. job'[t] # Null /\ job'[t].was = b
      BY <1>7, <1>8, <1>9
    <3> QED
      BY <1>4, <2>2, <3>1, <3>2 DEF OwnedSound
<1>15. Chained(Linked, activeAllocations, next, prev)'
  BY <1>5, <1>10 DEF Chained
<1>16. \A y \in Linked \ {b} : header'[y] = header[y]
  BY <1>9, <1>10 DEF Linked
<1> QED
  BY <1>3, <1>6, <1>10, <1>11, <1>12, <1>13, <1>14, <1>15, <1>16 DEF ListInv

LEMMA ListInit ==
  ASSUME Init
  PROVE  ListInv
<1>1. /\ \A b \in Blocks : header[b] = Null /\ owned[b] = Null
      /\ \A t \in Threads : job[t] = Null /\ pc[t] = "idle"
      /\ activeAllocations = Null
  BY DEF Init
<1>2. Linked = {}
  BY <1>1 DEF Linked
<1>3. Entry(Unknown, DefaultLimit) \in Entries
  BY Constants DEF Entry, Entries
<1>4. TrackTypes
  BY <1>3, Constants DEF Init, TrackTypes, Links
<1>5. IsList(0, <<>>, Linked, activeAllocations, next, prev)
  BY <1>1, <1>2 DEF IsList
<1> QED
  BY <1>1, <1>2, <1>4, <1>5 DEF ListInv, TagsKnown, JobsSound, OwnedSound, Chained

LEMMA SameTags ==
  ASSUME TrackTypes, UNCHANGED memoryTags
  PROVE  TagsKept
  BY Constants DEF TrackTypes, TagsKept

\* A new entry starts from zero.
LEMMA RegisteredZero ==
  ASSUME TrackTypes, NEW name \in Tags
  PROVE  /\ \A i \in 1 .. Len(memoryTags) : Registered(name)[i] = memoryTags[i]
         /\ \A i \in 1 .. Len(Registered(name)) :
              i > Len(memoryTags) => Registered(name)[i].bytes = 0 /\ Registered(name)[i].count = 0
<1>1. memoryTags \in Seq(Entries) /\ Len(memoryTags) \in Nat
  BY DEF TrackTypes
<1>2. CASE Named(name) # {} \/ Len(memoryTags) >= TagLimit
  BY <1>1, <1>2 DEF Registered
<1>3. CASE ~(Named(name) # {} \/ Len(memoryTags) >= TagLimit)
  <2> DEFINE e == Entry(Cut[name], DefaultLimit)
  <2>1. Registered(name) = Append(memoryTags, e)
    BY <1>3 DEF Registered
  <2>2. e.bytes = 0 /\ e.count = 0
    BY DEF Entry
  <2> HIDE DEF e
  <2> QED
    BY <1>1, <2>1, <2>2
<1> QED
  BY <1>2, <1>3

\* justMemorySetLimit registers the tag and changes a limit, nothing else.
LEMMA SetLimitTags ==
  ASSUME TrackTypes, NEW t \in Threads, NEW tag \in Tags, NEW n \in Limits,
         SetLimit(t, tag, n)
  PROVE  /\ TagsKept
         /\ \A k \in 1 .. Len(memoryTags) : /\ memoryTags'[k].bytes = memoryTags[k].bytes
                                            /\ memoryTags'[k].count = memoryTags[k].count
         /\ \A k \in 1 .. Len(memoryTags') : k > Len(memoryTags) =>
              memoryTags'[k].bytes = 0 /\ memoryTags'[k].count = 0
<1> DEFINE limit == IF n = 0 THEN Word - 1 ELSE n
           i == EntryOf(tag)
           m == Registered(tag)
<1>1. /\ m \in Seq(Entries) /\ Len(m) \in Len(memoryTags) .. TagLimit
      /\ \A k \in 1 .. Len(memoryTags) : m[k] = memoryTags[k]
      /\ i \in 1 .. Len(m) /\ Len(memoryTags) \in Nat
  BY TagsFound DEF TrackTypes
<1>2. limit \in Nat
  BY Constants
<1>3. memoryTags' = [m EXCEPT ![i].limit = limit]
  BY DEF SetLimit
<1>4. \A k \in 1 .. Len(m) : k > Len(memoryTags) => m[k].bytes = 0 /\ m[k].count = 0
  BY RegisteredZero
<1> HIDE DEF m, i, limit
<1>5. \A k \in 1 .. Len(m) : m[k] \in Entries
  BY <1>1
<1>6. /\ memoryTags' \in Seq(Entries) /\ Len(memoryTags') = Len(m)
      /\ \A k \in 1 .. Len(m) : /\ memoryTags'[k].name = m[k].name
                                /\ memoryTags'[k].bytes = m[k].bytes
                                /\ memoryTags'[k].count = m[k].count
  <2> DEFINE e == [m[i] EXCEPT !.limit = limit]
  <2>1. /\ e \in Entries /\ e.name = m[i].name /\ e.bytes = m[i].bytes
        /\ e.count = m[i].count
    BY <1>1, <1>2, <1>5 DEF Entries
  <2>2. memoryTags' = [m EXCEPT ![i] = e]
    BY <1>1, <1>3
  <2> HIDE DEF e
  <2> QED
    BY <1>1, <2>1, <2>2
<1>7. \A k \in 1 .. Len(memoryTags) : k \in 1 .. Len(m)
  BY <1>1
<1>8. TagsKept
  BY <1>1, <1>6, <1>7, Constants, SMTT(60) DEF TagsKept
<1> QED
  BY <1>1, <1>4, <1>6, <1>7, <1>8, ZenonT(60)

\* No step loses or renames an entry.
LEMMA TagsStep ==
  ASSUME CallsExclude, ListInv, [Next]_vars
  PROVE  TagsKept
<1>1. TrackTypes /\ TagsKnown
  BY DEF ListInv
<1>2. ASSUME UNCHANGED memoryTags PROVE TagsKept
  BY <1>1, <1>2, SameTags
<1>3. ASSUME NEW t \in Threads, LinkReads(t) PROVE TagsKept
  BY <1>2, <1>3 DEF LinkReads
<1>4. ASSUME NEW t \in Threads, LinkPublishes(t) PROVE TagsKept
  BY <1>4, LinkPublishesList
<1>5. ASSUME NEW t \in Threads, CheckBounds(t) PROVE TagsKept
  BY <1>2, <1>5 DEF CheckBounds, Aborts
<1>6. ASSUME NEW t \in Threads, NEW b \in Blocks, Free(t, b) PROVE TagsKept
  BY <1>2, <1>6, FreeList DEF Free, Aborts
<1>7. ASSUME NEW t \in Threads, NEW b \in Blocks, Overrun(t, b) PROVE TagsKept
  BY <1>2, <1>7 DEF Overrun
<1>8. ASSUME NEW t \in Threads, NEW b \in Blocks, NEW n \in Requests, Realloc(t, b, n)
      PROVE  TagsKept
  BY <1>2, <1>8, ReallocList DEF Realloc, Aborts
<1>9. ASSUME NEW t \in Threads, NEW tag \in Tags, Query(t, tag) PROVE TagsKept
  BY <1>1, <1>9, RegisteredKept DEF Query
<1>10. ASSUME NEW t \in Threads, NEW tag \in Tags, NEW n \in Limits, SetLimit(t, tag, n)
       PROVE  TagsKept
  BY <1>1, <1>10, SetLimitTags
<1>11. ASSUME NEW t \in Threads, NEW tag \in Tags, NEW n \in Requests, MallocStarts(t, tag, n)
       PROVE  TagsKept
  BY <1>1, <1>11, RegisteredKept DEF MallocStarts
<1>12. CASE Dead
  BY <1>2, <1>12 DEF Dead, vars
<1>13. CASE UNCHANGED vars
  BY <1>2, <1>13 DEF vars
<1> QED
  BY <1>3, <1>4, <1>5, <1>6, <1>7, <1>8, <1>9, <1>10, <1>11, <1>12, <1>13 DEF Next

LEMMA ListStep ==
  ASSUME CallsExclude, ListInv, [Next]_vars
  PROVE  ListInv'
<1>1. TrackTypes
  BY DEF ListInv
<1>2. ASSUME UNCHANGED <<memoryTags, links, header, pc, job, owned>> PROVE ListInv'
  BY <1>1, <1>2, SameTags, ListFrame
<1>3. ASSUME NEW t \in Threads, LinkReads(t) PROVE ListInv'
  BY <1>3, LinkReadsList
<1>4. ASSUME NEW t \in Threads, LinkPublishes(t) PROVE ListInv'
  BY <1>4, LinkPublishesList
<1>5. ASSUME NEW t \in Threads, CheckBounds(t) PROVE ListInv'
  BY <1>2, <1>5 DEF CheckBounds, Aborts
<1>6. ASSUME NEW t \in Threads, NEW b \in Blocks, Free(t, b) PROVE ListInv'
  BY <1>2, <1>6, FreeList DEF Free, Aborts
<1>7. ASSUME NEW t \in Threads, NEW b \in Blocks, Overrun(t, b) PROVE ListInv'
  BY <1>2, <1>7 DEF Overrun
<1>8. ASSUME NEW t \in Threads, NEW b \in Blocks, NEW n \in Requests, Realloc(t, b, n)
      PROVE  ListInv'
  BY <1>2, <1>8, ReallocList DEF Realloc, Aborts
<1>9. ASSUME NEW t \in Threads, NEW tag \in Tags, Query(t, tag) PROVE ListInv'
  BY <1>1, <1>9, RegisteredKept, ListFrame DEF Query
<1>10. ASSUME NEW t \in Threads, NEW tag \in Tags, NEW n \in Limits, SetLimit(t, tag, n)
       PROVE  ListInv'
  BY <1>1, <1>10, SetLimitTags, ListFrame DEF SetLimit
<1>11. ASSUME NEW t \in Threads, NEW tag \in Tags, NEW n \in Requests, MallocStarts(t, tag, n)
       PROVE  ListInv'
  BY <1>11, MallocList
<1>12. CASE Dead
  BY <1>2, <1>12 DEF Dead, vars
<1>13. CASE UNCHANGED vars
  BY <1>2, <1>13 DEF vars
<1> QED
  BY <1>3, <1>4, <1>5, <1>6, <1>7, <1>8, <1>9, <1>10, <1>11, <1>12, <1>13 DEF Next

\* In a program whose calls into the tracker exclude one another, the list
\* holds between calls exactly the blocks that callers hold, with their sizes,
\* and can be walked both ways: whatever the number of blocks and of tags.
THEOREM BlocksAlwaysListed == CallsExclude => (Spec => []AllocationsListed)
<1>1. ASSUME ListInv PROVE AllocationsListed
  <2> SUFFICES ASSUME Quiet
               PROVE  /\ Listed = Live
                      /\ Live = {b \in Blocks : owned[b] # Null}
                      /\ \A b \in Live : owned[b] = header[b].size
                      /\ Walk[Cardinality(Blocks)] = Null
                      /\ \A b \in Live : /\ next[b] # Null => prev[next[b]] = b
                                         /\ prev[b] = Null <=> b = activeAllocations
    BY DEF AllocationsListed
  <2>1. PICK n, s : IsList(n, s, Linked, activeAllocations, next, prev)
    BY <1>1 DEF ListInv, Chained
  <2>2. \A u \in Threads : job[u] = Null
    BY <1>1 DEF ListInv, JobsSound, Quiet
  <2>3. Linked = Live
    BY <2>2 DEF Linked, Live
  <2>4. \A b \in Live : owned[b] = header[b].size /\ owned[b] # Null
    BY <1>1, <2>3, NullIs DEF ListInv, OwnedSound, TrackTypes, Headers, Live
  <2>5. \A b \in Blocks : owned[b] # Null => b \in Live
    BY <1>1, <2>2, <2>3 DEF ListInv, OwnedSound
  <2>6. Listed = Live /\ Walk[Cardinality(Blocks)] = Null
    BY <2>1, <2>3, WalkListed
  <2>7. ASSUME NEW b \in Live
        PROVE  /\ next[b] # Null => prev[next[b]] = b
               /\ prev[b] = Null <=> b = activeAllocations
    <3>1. /\ n \in Nat /\ s \in [1 .. n -> Blocks]
          /\ \A i, j \in 1 .. n : s[i] = s[j] => i = j
          /\ activeAllocations = IF n = 0 THEN Null ELSE s[1]
          /\ \A i \in 1 .. n : next[s[i]] = IF i = n THEN Null ELSE s[i + 1]
          /\ \A i \in 1 .. n : prev[s[i]] = IF i = 1 THEN Null ELSE s[i - 1]
      BY <2>1 DEF IsList
    <3>2. PICK i \in 1 .. n : b = s[i]
      BY <2>1, <2>3 DEF IsList
    <3>3. next[b] # Null => prev[next[b]] = b
      <4>1. CASE i = n
        BY <3>1, <3>2, <4>1
      <4>2. CASE i # n
        <5>1. i + 1 \in 1 .. n /\ i + 1 # 1 /\ (i + 1) - 1 = i
          BY <3>1, <4>2
        <5> QED
          BY <3>1, <3>2, <4>2, <5>1
      <4> QED
        BY <4>1, <4>2
    <3>4. prev[b] = Null <=> i = 1
      <4>1. i # 1 => i - 1 \in 1 .. n /\ s[i - 1] # Null
        BY <3>1, NullIs
      <4> QED
        BY <3>1, <3>2, <4>1
    <3>5. b = activeAllocations <=> i = 1
      BY <3>1, <3>2
    <3> QED
      BY <3>3, <3>4, <3>5
  <2> QED
    BY <2>4, <2>5, <2>6, <2>7 DEF Live
<1>2. SUFFICES ASSUME CallsExclude PROVE Spec => []AllocationsListed
  OBVIOUS
<1>3. Init => ListInv
  BY ListInit
<1>4. ListInv /\ [Next]_vars => ListInv'
  BY <1>2, ListStep
<1> QED
  BY <1>1, <1>3, <1>4, PTL DEF Spec

-----------------------------------------------------------------------------
(* Sums *)

\* The sum of f over the elements of S, as the counters' reference takes it.
SumOf(f, S) == MapThenSumSet(LAMBDA x : f[x], S)

\* g gives a sum to every subset of S, one element at a time.
Additive(g, f, S) ==
  /\ g \in [SUBSET S -> Nat] /\ g[{}] = 0
  /\ \A A \in SUBSET S : \A x \in A : g[A] = f[x] + g[A \ {x}]

\* One round of the fold.
SumStep(h, f, S) ==
  [A \in SUBSET S |-> IF A = {} THEN 0
                      ELSE f[CHOOSE x \in A : TRUE] + h[A \ {CHOOSE x \in A : TRUE}]]

\* The fold of the library is that function.
LEMMA SumUnfolds ==
  ASSUME NEW f, NEW S
  PROVE  SumOf(f, S) = (CHOOSE h : h = SumStep(h, f, S))[S]
  BY DEF SumOf, MapThenSumSet, MapThenFoldSet, SumStep

\* There is such a function, and it is the sum.
LEMMA SumExists ==
  ASSUME NEW S, IsFiniteSet(S), NEW f, \A x \in S : f[x] \in Nat
  PROVE  \E g : Additive(g, f, S)
<1> DEFINE T == {n \in Nat : \A R \in SUBSET S :
                   IsFiniteSet(R) /\ Cardinality(R) = n => \E g : Additive(g, f, R)}
<1>1. 0 \in T
  <2> SUFFICES ASSUME NEW R \in SUBSET S, IsFiniteSet(R), Cardinality(R) = 0
               PROVE  \E g : Additive(g, f, R)
    OBVIOUS
  <2>1. R = {}
    BY FS_EmptySet
  <2> DEFINE g == [A \in SUBSET R |-> 0]
  <2>2. Additive(g, f, R)
    BY <2>1 DEF Additive
  <2> QED
    BY <2>2
<1>2. ASSUME NEW n \in T PROVE n + 1 \in T
  <2> SUFFICES ASSUME NEW R \in SUBSET S, IsFiniteSet(R), Cardinality(R) = n + 1
               PROVE  \E g : Additive(g, f, R)
    OBVIOUS
  <2>1. R # {}
    BY FS_EmptySet
  <2>2. PICK x : x \in R
    BY <2>1
  <2> DEFINE Q == R \ {x}
  <2>3. IsFiniteSet(Q) /\ Cardinality(Q) = n
    <3>1. IsFiniteSet(Q) /\ Cardinality(Q) = Cardinality(R) - 1
      BY <2>2, FS_RemoveElement
    <3>2. n \in Nat
      OBVIOUS
    <3> QED
      BY <3>1, <3>2
  <2>4. PICK q : Additive(q, f, Q)
    BY <2>3
  <2> DEFINE g == [A \in SUBSET R |-> IF x \in A THEN f[x] + q[A \ {x}] ELSE q[A]]
  <2>5. /\ f[x] \in Nat /\ q \in [SUBSET Q -> Nat] /\ q[{}] = 0
        /\ \A A \in SUBSET Q : \A y \in A : q[A] = f[y] + q[A \ {y}]
    BY <2>2, <2>4 DEF Additive
  <2>6. \A A \in SUBSET R : A \ {x} \in SUBSET Q /\ (x \notin A => A \in SUBSET Q)
    OBVIOUS
  <2>7. \A A \in SUBSET R : g[A] = (IF x \in A THEN f[x] + q[A \ {x}] ELSE q[A])
    OBVIOUS
  <2>8. \A A \in SUBSET R : g[A] \in Nat
    BY <2>5, <2>6, <2>7
  <2>9. g \in [SUBSET R -> Nat]
    BY <2>8
  <2>10. g[{}] = 0
    BY <2>5
  <2> HIDE DEF g, Q
  <2>11. ASSUME NEW A \in SUBSET R, NEW y \in A PROVE g[A] = f[y] + g[A \ {y}]
    <3> DEFINE B == A \ {y}
    <3>1. B \in SUBSET R /\ f[y] \in Nat
      OBVIOUS
    <3>2. CASE y = x
      BY <2>7, <3>1, <3>2
    <3>3. CASE y # x /\ x \in A
      <4>1. g[A] = f[x] + q[A \ {x}] /\ g[B] = f[x] + q[B \ {x}]
        BY <2>7, <3>1, <3>3, SMTT(60)
      <4>2. q[A \ {x}] = f[y] + q[(A \ {x}) \ {y}]
        BY <2>5, <2>6, <3>3
      <4>3. (A \ {x}) \ {y} = B \ {x}
        OBVIOUS
      <4>4. q[B \ {x}] \in Nat
        BY <2>5, <2>6, <3>1
      <4>5. g[A] = f[x] + (f[y] + q[B \ {x}])
        BY <4>1, <4>2, <4>3, SMTT(60)
      <4>6. f[x] \in Nat
        BY <2>5
      <4> HIDE DEF B
      <4>7. g[A] = f[y] + g[B]
        BY <3>1, <4>1, <4>4, <4>5, <4>6
      <4> QED
        BY <4>7 DEF B
    <3>4. CASE x \notin A
      <4>1. g[A] = q[A] /\ g[B] = q[B]
        BY <2>7, <3>1, <3>4, SMTT(60)
      <4> QED
        BY <2>5, <2>6, <3>4, <4>1
    <3> QED
      BY <3>2, <3>3, <3>4
  <2>12. Additive(g, f, R)
    BY <2>9, <2>10, <2>11 DEF Additive
  <2> QED
    BY <2>12
<1>3. T \in SUBSET Nat
  OBVIOUS
<1> HIDE DEF T
<1>4. T = Nat
  BY <1>1, <1>2, <1>3, SetInduction
<1>5. Cardinality(S) \in T
  BY <1>4, FS_CardinalityType
<1> QED
  BY <1>5 DEF T

LEMMA SumIs ==
  ASSUME NEW S, IsFiniteSet(S), NEW f, NEW g, Additive(g, f, S)
  PROVE  SumOf(f, S) = g[S]
<1> DEFINE h == CHOOSE h : h = SumStep(h, f, S)
           c(A) == CHOOSE x \in A : TRUE
<1>1. /\ g \in [SUBSET S -> Nat] /\ g[{}] = 0
      /\ \A A \in SUBSET S : \A x \in A : g[A] = f[x] + g[A \ {x}]
  BY DEF Additive
<1>2. \A A \in SUBSET S : A # {} => c(A) \in A
  OBVIOUS
<1> HIDE DEF c
<1>3. g = SumStep(g, f, S)
  <2>1. \A A \in SUBSET S : g[A] = IF A = {} THEN 0 ELSE f[c(A)] + g[A \ {c(A)}]
    BY <1>1, <1>2
  <2>2. g = [A \in SUBSET S |-> g[A]]
    BY <1>1
  <2>3. g = [A \in SUBSET S |-> IF A = {} THEN 0 ELSE f[c(A)] + g[A \ {c(A)}]]
    BY <2>1, <2>2
  <2> QED
    BY <2>3, SMTT(60) DEF SumStep, c
<1>4. h = SumStep(h, f, S)
  BY <1>3
<1> HIDE DEF h
<1>5. \A A \in SUBSET S : h[A] = IF A = {} THEN 0 ELSE f[c(A)] + h[A \ {c(A)}]
  BY <1>4 DEF SumStep, c
<1> DEFINE T == {n \in Nat : \A A \in SUBSET S :
                   IsFiniteSet(A) /\ Cardinality(A) = n => h[A] = g[A]}
<1>6. 0 \in T
  BY <1>1, <1>5, FS_EmptySet
<1>7. ASSUME NEW n \in T PROVE n + 1 \in T
  <2> SUFFICES ASSUME NEW A \in SUBSET S, IsFiniteSet(A), Cardinality(A) = n + 1
               PROVE  h[A] = g[A]
    OBVIOUS
  <2>1. A # {}
    BY FS_EmptySet
  <2>2. c(A) \in A
    BY <1>2, <2>1
  <2>3. IsFiniteSet(A \ {c(A)}) /\ Cardinality(A \ {c(A)}) = n
    <3>1. IsFiniteSet(A \ {c(A)}) /\ Cardinality(A \ {c(A)}) = Cardinality(A) - 1
      BY <2>2, FS_RemoveElement
    <3>2. n \in Nat
      OBVIOUS
    <3> QED
      BY <3>1, <3>2
  <2>4. h[A \ {c(A)}] = g[A \ {c(A)}]
    BY <2>3
  <2> QED
    BY <1>1, <1>5, <2>1, <2>2, <2>4
<1>8. T \in SUBSET Nat
  OBVIOUS
<1> HIDE DEF T
<1>9. T = Nat
  BY <1>6, <1>7, <1>8, SetInduction
<1>10. Cardinality(S) \in T
  BY <1>9, FS_CardinalityType
<1>11. h[S] = g[S]
  BY <1>10 DEF T
<1> QED
  BY <1>11, SumUnfolds DEF h

\* A sum is a number; it depends on the elements alone; one element can be
\* taken out of it.
LEMMA SumNumber ==
  ASSUME NEW S, IsFiniteSet(S), NEW f, \A x \in S : f[x] \in Nat
  PROVE  SumOf(f, S) \in Nat /\ (S = {} => SumOf(f, S) = 0)
<1>1. PICK g : Additive(g, f, S)
  BY SumExists
<1>2. SumOf(f, S) = g[S]
  BY <1>1, SumIs
<1> QED
  BY <1>1, <1>2 DEF Additive

LEMMA SumSame ==
  ASSUME NEW S, IsFiniteSet(S), NEW f, NEW k, \A x \in S : f[x] \in Nat /\ k[x] = f[x]
  PROVE  SumOf(k, S) = SumOf(f, S)
<1>1. PICK g : Additive(g, f, S)
  BY SumExists
<1>2. Additive(g, k, S)
  BY <1>1 DEF Additive
<1> QED
  BY <1>1, <1>2, SumIs

LEMMA SumWithout ==
  ASSUME NEW S, IsFiniteSet(S), NEW f, \A x \in S : f[x] \in Nat, NEW x \in S
  PROVE  SumOf(f, S) = f[x] + SumOf(f, S \ {x})
<1> DEFINE R == S \ {x}
<1>1. PICK g : Additive(g, f, S)
  BY SumExists
<1>2. IsFiniteSet(R)
  BY FS_RemoveElement
<1> DEFINE q == [A \in SUBSET R |-> g[A]]
<1>3. /\ g \in [SUBSET S -> Nat] /\ g[{}] = 0
      /\ \A A \in SUBSET S : \A y \in A : g[A] = f[y] + g[A \ {y}]
  BY <1>1 DEF Additive
<1>4. Additive(q, f, R)
  <2>1. \A A \in SUBSET R : A \in SUBSET S /\ q[A] = g[A] /\ \A y \in A : A \ {y} \in SUBSET R
    OBVIOUS
  <2>2. q \in [SUBSET R -> Nat] /\ q[{}] = 0
    BY <1>3
  <2> HIDE DEF q, R
  <2> QED
    BY <1>3, <2>1, <2>2 DEF Additive
<1>5. SumOf(f, R) = q[R] /\ q[R] = g[R]
  BY <1>2, <1>4, SumIs
<1>6. SumOf(f, S) = g[S] /\ g[S] = f[x] + g[R]
  BY <1>1, <1>3, SumIs
<1> QED
  BY <1>5, <1>6

-----------------------------------------------------------------------------
(* Counters *)

\* The entry a name belongs to once it has one, and the blocks of entry i.
EntryIn(m, name) == Min({i \in DOMAIN m : m[i].name = name})
ChargedIn(ent, L, i) == {b \in L : ent[b] = i}

\* The counters of table m count the blocks L, of sizes sz and entries ent.
Tally(m, L, ent, sz) ==
  \A i \in 1 .. Len(m) :
    /\ m[i].count = Cardinality(ChargedIn(ent, L, i))
    /\ m[i].bytes = SumOf(sz, ChargedIn(ent, L, i)) % Word

LEMMA TallySame ==
  ASSUME NEW m, NEW m2, NEW L, IsFiniteSet(L), NEW ent, NEW sz, Tally(m, L, ent, sz),
         Len(m) \in Nat, Len(m2) \in Nat, Len(m) <= Len(m2),
         \A i \in 1 .. Len(m) : m2[i].bytes = m[i].bytes /\ m2[i].count = m[i].count,
         \A i \in 1 .. Len(m2) : i > Len(m) => m2[i].bytes = 0 /\ m2[i].count = 0,
         NEW ent2, NEW sz2,
         \A b \in L : ent[b] \in 1 .. Len(m) /\ ent2[b] = ent[b] /\ sz[b] \in Nat /\ sz2[b] = sz[b]
  PROVE  Tally(m2, L, ent2, sz2)
<1> SUFFICES ASSUME NEW i \in 1 .. Len(m2)
             PROVE  /\ m2[i].count = Cardinality(ChargedIn(ent2, L, i))
                    /\ m2[i].bytes = SumOf(sz2, ChargedIn(ent2, L, i)) % Word
  BY DEF Tally
<1> DEFINE C == ChargedIn(ent, L, i)
<1>1. ChargedIn(ent2, L, i) = C /\ C \in SUBSET L
  BY DEF ChargedIn
<1>2. IsFiniteSet(C) /\ \A b \in C : sz[b] \in Nat /\ sz2[b] = sz[b]
  BY <1>1, FS_Subset
<1>3. SumOf(sz2, C) = SumOf(sz, C)
  BY <1>2, SumSame
<1>4. CASE i \in 1 .. Len(m)
  BY <1>1, <1>3, <1>4 DEF Tally
<1>5. CASE i > Len(m)
  <2>1. C = {}
    BY <1>5 DEF ChargedIn
  <2>2. SumOf(sz, C) = 0 /\ Cardinality(C) = 0
    BY <1>2, <2>1, SumNumber, FS_EmptySet
  <2>3. 0 % Word = 0
    BY Constants
  <2> QED
    BY <1>1, <1>3, <1>5, <2>2, <2>3
<1> QED
  BY <1>4, <1>5

\* Block b joins L, which becomes M, and is charged to its entry.
Joins(b, L, M, m, m2, ent, ent2, sz, sz2) ==
  /\ b \notin L /\ M = L \cup {b}
  /\ Len(m) \in Nat /\ Len(m2) = Len(m)
  /\ \A x \in L : ent2[x] = ent[x] /\ sz[x] \in Nat /\ sz2[x] = sz[x]
  /\ sz2[b] \in Nat
  /\ m2[ent2[b]].bytes = (m[ent2[b]].bytes + sz2[b]) % Word
  /\ m2[ent2[b]].count = m[ent2[b]].count + 1
  /\ \A i \in 1 .. Len(m) : i # ent2[b] => m2[i] = m[i]

LEMMA TallyPlus ==
  ASSUME NEW m, NEW m2, NEW L, IsFiniteSet(L), NEW ent, NEW sz, Tally(m, L, ent, sz),
         NEW b, NEW ent2, NEW sz2, NEW M, Joins(b, L, M, m, m2, ent, ent2, sz, sz2)
  PROVE  Tally(m2, M, ent2, sz2)
<1> USE DEF Joins
<1> DEFINE k == ent2[b]
<1> SUFFICES ASSUME NEW i \in 1 .. Len(m)
             PROVE  /\ m2[i].count = Cardinality(ChargedIn(ent2, M, i))
                    /\ m2[i].bytes = SumOf(sz2, ChargedIn(ent2, M, i)) % Word
  BY DEF Tally
<1> DEFINE C == ChargedIn(ent, L, i)
           D == ChargedIn(ent2, M, i)
<1>1. C \in SUBSET L /\ b \notin C /\ D = IF i = k THEN C \cup {b} ELSE C
  BY DEF ChargedIn
<1>2. IsFiniteSet(C) /\ \A x \in C : sz[x] \in Nat /\ sz2[x] = sz[x]
  BY <1>1, FS_Subset
<1>3. SumOf(sz2, C) = SumOf(sz, C) /\ SumOf(sz, C) \in Nat
  BY <1>2, SumSame, SumNumber
<1>4. m[i].count = Cardinality(C) /\ m[i].bytes = SumOf(sz, C) % Word
  BY DEF Tally
<1> HIDE DEF C, D
<1>5. CASE i # k
  BY <1>1, <1>3, <1>4, <1>5 DEF D
<1>6. CASE i = k
  <2>1. D = C \cup {b} /\ IsFiniteSet(D) /\ Cardinality(D) = Cardinality(C) + 1
    BY <1>1, <1>2, <1>6, FS_AddElement
  <2>2. \A x \in D : sz2[x] \in Nat
    BY <1>2, <2>1
  <2>3. D \ {b} = C /\ b \in D
    BY <1>1, <2>1
  <2>4. SumOf(sz2, D) = sz2[b] + SumOf(sz2, C)
    <3>1. SumOf(sz2, D) = sz2[b] + SumOf(sz2, D \ {b})
      BY <2>1, <2>2, <2>3, SumWithout, SMTT(60)
    <3> QED
      BY <2>3, <3>1
  <2> DEFINE u == SumOf(sz, C)
             v == sz2[b]
  <2>5. SumOf(sz2, D) = u + v
    BY <1>3, <2>4
  <2>6. m2[i].bytes = ((u % Word) + v) % Word
    BY <1>4, <1>6
  <2>7. u \in Nat /\ v \in Nat
    BY <1>3
  <2> HIDE DEF u, v
  <2>8. ((u % Word) + v) % Word = (u + v) % Word
    <3>1. Word \in Nat /\ Word > 0
      BY Constants
    <3> DEFINE Same(x, y, n) == ((x % n) + y) % n = (x + y) % n
    <3>2. \A x, y, n \in Nat : n > 0 => Same(x, y, n)
      BY RemainderOfSum
    <3> HIDE DEF Same
    <3>3. Same(u, v, Word)
      BY <2>7, <3>1, <3>2
    <3> QED
      BY <3>3 DEF Same
  <2> QED
    BY <1>4, <1>6, <2>1, <2>5, <2>6, <2>8 DEF D
<1> QED
  BY <1>5, <1>6

\* Block b leaves L and is taken off its entry.
Leaves(b, L, m, m2, ent, ent2, sz, sz2) ==
  /\ b \in L /\ Len(m) \in Nat /\ Len(m2) = Len(m)
  /\ \A x \in L : sz[x] \in Nat
  /\ \A x \in L \ {b} : ent2[x] = ent[x] /\ sz2[x] = sz[x]
  /\ m2[ent[b]].bytes = (m[ent[b]].bytes - sz[b]) % Word
  /\ m2[ent[b]].count = m[ent[b]].count - 1
  /\ \A i \in 1 .. Len(m) : i # ent[b] => m2[i] = m[i]

LEMMA TallyMinus ==
  ASSUME NEW m, NEW m2, NEW L, IsFiniteSet(L), NEW ent, NEW sz, Tally(m, L, ent, sz),
         NEW b, NEW ent2, NEW sz2, Leaves(b, L, m, m2, ent, ent2, sz, sz2)
  PROVE  Tally(m2, L \ {b}, ent2, sz2)
<1> USE DEF Leaves
<1> DEFINE k == ent[b]
<1> SUFFICES ASSUME NEW i \in 1 .. Len(m)
             PROVE  /\ m2[i].count = Cardinality(ChargedIn(ent2, L \ {b}, i))
                    /\ m2[i].bytes = SumOf(sz2, ChargedIn(ent2, L \ {b}, i)) % Word
  BY DEF Tally
<1> DEFINE C == ChargedIn(ent, L, i)
           D == ChargedIn(ent2, L \ {b}, i)
<1>1. C \in SUBSET L /\ D = C \ {b} /\ (b \in C <=> i = k)
  BY DEF ChargedIn
<1>2. IsFiniteSet(C) /\ IsFiniteSet(D)
  BY <1>1, FS_Subset
<1>3. \A x \in C : sz[x] \in Nat
  BY <1>1
<1>4. \A x \in D : sz[x] \in Nat /\ sz2[x] = sz[x]
  BY <1>1
<1>5. SumOf(sz2, D) = SumOf(sz, D) /\ SumOf(sz, D) \in Nat
  BY <1>2, <1>4, SumSame, SumNumber
<1>6. m[i].count = Cardinality(C) /\ m[i].bytes = SumOf(sz, C) % Word
  BY DEF Tally
<1> HIDE DEF C, D
<1>7. CASE i # k
  <2>1. D = C
    BY <1>1, <1>7
  <2> QED
    BY <1>5, <1>6, <1>7, <2>1 DEF D
<1>8. CASE i = k
  <2>1. Cardinality(D) = Cardinality(C) - 1
    BY <1>1, <1>2, <1>8, FS_RemoveElement
  <2>2. SumOf(sz, C) = sz[b] + SumOf(sz, D)
    BY <1>1, <1>2, <1>3, <1>8, SumWithout, ZenonT(60)
  <2> DEFINE v == sz[b]
             u == SumOf(sz, D)
  <2>3. m2[i].bytes = (((v + u) % Word) - v) % Word
    BY <1>6, <1>8, <2>2
  <2>4. u \in Nat /\ v \in Nat /\ SumOf(sz2, D) = u
    BY <1>5
  <2> HIDE DEF u, v
  <2>5. (((v + u) % Word) - v) % Word = u % Word
    <3>1. Word \in Nat /\ Word > 0
      BY Constants
    <3> DEFINE Same(x, y, n) == (((x + y) % n) - x) % n = y % n
    <3>2. \A x, y, n \in Nat : n > 0 => Same(x, y, n)
      BY RemainderWithout
    <3> HIDE DEF Same
    <3>3. Same(v, u, Word)
      BY <2>4, <3>1, <3>2
    <3> QED
      BY <3>3 DEF Same
  <2> QED
    BY <1>6, <1>8, <2>1, <2>3, <2>4, <2>5 DEF D
<1> QED
  BY <1>7, <1>8
\* The sizes of the allocated blocks and the entries of their tags.
Sizes == [b \in Blocks |-> IF header[b] = Null THEN 0 ELSE header[b].size]
Homes == [b \in Blocks |-> EntryIn(memoryTags, header[b].tag)]

\* The counters count what is on the list, in the middle of a call too.
TallyInv == ListInv /\ Tally(memoryTags, Linked, Homes, Sizes)

LEMMA EntryInIs ==
  ASSUME NEW m, m \in Seq(Entries), NEW name, \E i \in DOMAIN m : m[i].name = name
  PROVE  /\ EntryIn(m, name) \in 1 .. Len(m) /\ m[EntryIn(m, name)].name = name
         /\ \A i \in 1 .. Len(m) : m[i].name = name => EntryIn(m, name) <= i
<1> DEFINE S == {i \in DOMAIN m : m[i].name = name}
<1>1. S \in SUBSET Nat /\ S # {} /\ DOMAIN m = 1 .. Len(m)
  OBVIOUS
<1>2. EntryIn(m, name) = CHOOSE x \in S : \A y \in S : x <= y
  BY DEF EntryIn, Min
<1> HIDE DEF S
<1>3. \E x \in S : \A y \in S : x <= y
  BY <1>1, LeastElement
<1>4. EntryIn(m, name) \in S /\ \A y \in S : EntryIn(m, name) <= y
  BY <1>2, <1>3
<1> QED
  BY <1>1, <1>4 DEF S

LEMMA EntryInKept ==
  ASSUME NEW m, m \in Seq(Entries), NEW m2, m2 \in Seq(Entries), Len(m) <= Len(m2),
         \A i \in 1 .. Len(m) : m2[i].name = m[i].name,
         NEW name, \E i \in DOMAIN m : m[i].name = name
  PROVE  EntryIn(m2, name) = EntryIn(m, name)
<1> DEFINE x == EntryIn(m, name)
           y == EntryIn(m2, name)
<1>1. /\ x \in 1 .. Len(m) /\ m[x].name = name
      /\ \A i \in 1 .. Len(m) : m[i].name = name => x <= i
  BY EntryInIs
<1>2. Len(m) \in Nat /\ Len(m2) \in Nat /\ DOMAIN m2 = 1 .. Len(m2)
  OBVIOUS
<1>3. x \in 1 .. Len(m2) /\ m2[x].name = name
  BY <1>1, <1>2
<1>4. \E i \in DOMAIN m2 : m2[i].name = name
  BY <1>2, <1>3
<1>5. /\ y \in 1 .. Len(m2) /\ m2[y].name = name
      /\ \A i \in 1 .. Len(m2) : m2[i].name = name => y <= i
  BY <1>4, EntryInIs
<1> HIDE DEF x, y
<1>6. y <= x
  BY <1>3, <1>5
<1>7. y \in 1 .. Len(m) /\ m[y].name = name
  BY <1>1, <1>2, <1>5, <1>6
<1>8. x <= y
  BY <1>1, <1>7
<1> QED
  BY <1>1, <1>5, <1>6, <1>8 DEF x, y

\* A block's entry is the same whatever is registered later.
LEMMA HomesKept ==
  ASSUME TrackTypes, TagsKnown, NEW b \in Blocks, header[b] # Null
  PROVE  /\ Homes[b] \in 1 .. Len(memoryTags) /\ Homes[b] = EntryOf(header[b].tag)
         /\ Sizes[b] = header[b].size /\ Sizes[b] \in Nat
         /\ (TagsKept /\ header'[b] = header[b])
              => (Homes'[b] = Homes[b] /\ Sizes'[b] = Sizes[b])
<1> DEFINE name == header[b].tag
<1>1. memoryTags \in Seq(Entries) /\ header[b] \in Headers /\ Named(name) # {}
  BY DEF TrackTypes, TagsKnown
<1>2. \E i \in DOMAIN memoryTags : memoryTags[i].name = name
  BY <1>1 DEF Named
<1>3. Homes[b] = EntryIn(memoryTags, name)
  BY DEF Homes
<1>4. EntryIn(memoryTags, name) \in 1 .. Len(memoryTags)
  BY <1>1, <1>2, EntryInIs
<1>5. EntryOf(name) = EntryIn(memoryTags, name)
  BY <1>1 DEF EntryOf, EntryIn, Named
<1>6. Sizes[b] = header[b].size /\ Sizes[b] \in Nat
  BY <1>1 DEF Sizes, Headers
<1>7. ASSUME TagsKept, header'[b] = header[b]
      PROVE  Homes'[b] = Homes[b] /\ Sizes'[b] = Sizes[b]
  <2>1. Homes'[b] = EntryIn(memoryTags', name)
    BY <1>7 DEF Homes
  <2>2. /\ memoryTags' \in Seq(Entries) /\ Len(memoryTags) <= Len(memoryTags')
        /\ \A i \in 1 .. Len(memoryTags) : memoryTags'[i].name = memoryTags[i].name
    BY <1>1, <1>7, Constants DEF TagsKept, TrackTypes
  <2>3. EntryIn(memoryTags', name) = EntryIn(memoryTags, name)
    BY <1>1, <1>2, <2>2, EntryInKept
  <2> QED
    BY <1>3, <1>7, <2>1, <2>3 DEF Sizes
<1> QED
  BY <1>3, <1>4, <1>5, <1>6, <1>7

LEMMA LinkedFinite ==
  ASSUME TrackTypes
  PROVE  /\ IsFiniteSet(Linked) /\ Len(memoryTags) \in Nat
         /\ \A b \in Linked : b \in Blocks /\ header[b] # Null
<1>1. Linked \in SUBSET Blocks
  BY DEF Linked
<1> QED
  BY <1>1, FS_Subset, TrackerAssumption DEF TrackTypes, Linked

\* Steps that neither link nor unlink a block.
LEMMA TallyFrame ==
  ASSUME TallyInv, TagsKept, Linked' = Linked, \A b \in Linked : header'[b] = header[b],
         \A i \in 1 .. Len(memoryTags) : /\ memoryTags'[i].bytes = memoryTags[i].bytes
                                         /\ memoryTags'[i].count = memoryTags[i].count,
         \A i \in 1 .. Len(memoryTags') :
           i > Len(memoryTags) => memoryTags'[i].bytes = 0 /\ memoryTags'[i].count = 0
  PROVE  Tally(memoryTags, Linked, Homes, Sizes)'
<1>1. TrackTypes /\ TagsKnown /\ Tally(memoryTags, Linked, Homes, Sizes)
  BY DEF TallyInv, ListInv
<1>2. /\ IsFiniteSet(Linked) /\ Len(memoryTags) \in Nat
      /\ \A b \in Linked : b \in Blocks /\ header[b] # Null
  BY <1>1, LinkedFinite
<1>3. \A b \in Linked : /\ Homes[b] \in 1 .. Len(memoryTags) /\ Homes'[b] = Homes[b]
                        /\ Sizes[b] \in Nat /\ Sizes'[b] = Sizes[b]
  BY <1>1, <1>2, HomesKept
<1>4. Len(memoryTags') \in Nat /\ Len(memoryTags) <= Len(memoryTags')
  BY <1>2, Constants DEF TagsKept
<1>5. Tally(memoryTags', Linked, Homes', Sizes')
  BY <1>1, <1>2, <1>3, <1>4, TallySame
<1> QED
  BY <1>5

LEMMA TallyLink ==
  ASSUME TallyInv, NEW b \in Blocks, b \notin Linked, header[b] # Null,
         memoryTags' = Charge(memoryTags, b), Linked' = Linked \cup {b}, header' = header
  PROVE  Tally(memoryTags, Linked, Homes, Sizes)'
<1> DEFINE k == EntryOf(header[b].tag)
<1>1. TrackTypes /\ TagsKnown /\ Tally(memoryTags, Linked, Homes, Sizes)
  BY DEF TallyInv, ListInv
<1>2. /\ IsFiniteSet(Linked) /\ Len(memoryTags) \in Nat
      /\ \A x \in Linked : x \in Blocks /\ header[x] # Null
  BY <1>1, LinkedFinite
<1>3. memoryTags \in Seq(Entries) /\ Len(memoryTags) \in 1 .. TagLimit
  BY <1>1 DEF TrackTypes
<1>4. /\ Homes[b] = k /\ k \in 1 .. Len(memoryTags)
      /\ Sizes[b] = header[b].size /\ header[b].size \in Nat
  BY <1>1, HomesKept
<1>5. /\ memoryTags' \in Seq(Entries) /\ Len(memoryTags') = Len(memoryTags)
      /\ \A i \in 1 .. Len(memoryTags) : memoryTags'[i].name = memoryTags[i].name
  BY <1>3, <1>4, TagsCharged
<1>6. TagsKept
  BY <1>3, <1>5, Constants DEF TagsKept
<1>7. /\ memoryTags'[k].bytes = (memoryTags[k].bytes + header[b].size) % Word
      /\ memoryTags'[k].count = memoryTags[k].count + 1
      /\ \A i \in 1 .. Len(memoryTags) : i # k => memoryTags'[i] = memoryTags[i]
  <2>1. memoryTags[k] \in Entries
    BY <1>3, <1>4
  <2> DEFINE x == (memoryTags[k].bytes + header[b].size) % Word
             y == memoryTags[k].count + 1
  <2>2. memoryTags' = [memoryTags EXCEPT ![k].bytes = x, ![k].count = y]
    BY <1>3, <1>4, <2>1 DEF Charge, Entries
  <2> HIDE DEF x, y, k
  <2> DEFINE e == [memoryTags[k] EXCEPT !.bytes = x, !.count = y]
  <2>3. e.bytes = x /\ e.count = y
    BY <2>1 DEF Entries
  <2>4. memoryTags' = [memoryTags EXCEPT ![k] = e]
    BY <1>3, <1>4, <2>2, ZenonT(60)
  <2> HIDE DEF e
  <2>5. /\ memoryTags'[k].bytes = x /\ memoryTags'[k].count = y
        /\ \A i \in 1 .. Len(memoryTags) : i # k => memoryTags'[i] = memoryTags[i]
    BY <1>3, <1>4, <2>3, <2>4
  <2> QED
    BY <2>5 DEF x, y
<1>8. /\ \A x \in Linked : Homes'[x] = Homes[x] /\ Sizes[x] \in Nat /\ Sizes'[x] = Sizes[x]
      /\ Homes'[b] = k /\ Sizes'[b] = header[b].size
  BY <1>1, <1>2, <1>4, <1>6, HomesKept
<1> HIDE DEF k
<1>9. Tally(memoryTags', Linked', Homes', Sizes')
  <2>1. /\ Sizes'[b] \in Nat
        /\ memoryTags'[Homes'[b]].bytes = (memoryTags[Homes'[b]].bytes + Sizes'[b]) % Word
        /\ memoryTags'[Homes'[b]].count = memoryTags[Homes'[b]].count + 1
        /\ \A i \in 1 .. Len(memoryTags) : i # Homes'[b] => memoryTags'[i] = memoryTags[i]
    BY <1>4, <1>7, <1>8
  <2>2. Joins(b, Linked, Linked', memoryTags, memoryTags', Homes, Homes', Sizes, Sizes')
    BY <1>2, <1>5, <1>8, <2>1 DEF Joins
  <2> QED
    BY <1>1, <1>2, <2>2, TallyPlus
<1> QED
  BY <1>9

LEMMA TallyPublish ==
  ASSUME CallsExclude, TallyInv, NEW t \in Threads, LinkPublishes(t)
  PROVE  Tally(memoryTags, Linked, Homes, Sizes)'
<1> DEFINE b == job[t].block
<1>1. TrackTypes /\ TagsKnown /\ ListInv
  BY DEF TallyInv, ListInv
<1>2. Linked' = Linked \cup {b} /\ b \in Blocks /\ b \notin Linked /\ header[b] # Null
  BY <1>1, LinkPublishesList
<1>3. header' = header /\ memoryTags' = Charge(Registered(header[b].tag), b)
  BY DEF LinkPublishes
<1>4. Registered(header[b].tag) = memoryTags
  BY <1>1, <1>2 DEF TagsKnown, Registered
<1> QED
  BY <1>2, <1>3, <1>4, TallyLink

LEMMA TallyUnlink ==
  ASSUME TallyInv, NEW b \in Linked, memoryTags' = Credit(memoryTags, b),
         Linked' = Linked \ {b}, \A x \in Linked \ {b} : header'[x] = header[x]
  PROVE  Tally(memoryTags, Linked, Homes, Sizes)'
<1> DEFINE k == EntryOf(header[b].tag)
<1>1. TrackTypes /\ TagsKnown /\ Tally(memoryTags, Linked, Homes, Sizes)
  BY DEF TallyInv, ListInv
<1>2. /\ IsFiniteSet(Linked) /\ Len(memoryTags) \in Nat
      /\ \A x \in Linked : x \in Blocks /\ header[x] # Null
  BY <1>1, LinkedFinite
<1>3. memoryTags \in Seq(Entries)
  BY <1>1 DEF TrackTypes
<1>4. /\ Homes[b] = k /\ k \in 1 .. Len(memoryTags) /\ Sizes[b] = header[b].size
      /\ \A x \in Linked : Sizes[x] \in Nat
  BY <1>1, <1>2, HomesKept
<1>5. TagsKept
  BY <1>1, <1>2, CreditKept
<1>6. \A x \in Linked \ {b} : Homes'[x] = Homes[x] /\ Sizes'[x] = Sizes[x]
  BY <1>1, <1>2, <1>5, HomesKept
<1>7. /\ memoryTags'[k].bytes = (memoryTags[k].bytes - Sizes[b]) % Word
      /\ memoryTags'[k].count = memoryTags[k].count - 1
      /\ \A i \in 1 .. Len(memoryTags) : i # k => memoryTags'[i] = memoryTags[i]
      /\ Len(memoryTags') = Len(memoryTags)
  <2>1. memoryTags[k] \in Entries
    BY <1>3, <1>4, SMTT(60)
  <2> DEFINE x == (memoryTags[k].bytes - header[b].size) % Word
             y == memoryTags[k].count - 1
  <2>2. memoryTags' = [memoryTags EXCEPT ![k].bytes = x, ![k].count = y]
    BY <1>3, <1>4, <2>1 DEF Credit, Entries
  <2> HIDE DEF x, y, k
  <2> DEFINE e == [memoryTags[k] EXCEPT !.bytes = x, !.count = y]
  <2>3. e.bytes = x /\ e.count = y
    BY <2>1 DEF Entries
  <2>4. memoryTags' = [memoryTags EXCEPT ![k] = e]
    BY <1>3, <1>4, <2>2, ZenonT(60)
  <2> HIDE DEF e
  <2>5. /\ memoryTags'[k].bytes = x /\ memoryTags'[k].count = y
        /\ \A i \in 1 .. Len(memoryTags) : i # k => memoryTags'[i] = memoryTags[i]
        /\ Len(memoryTags') = Len(memoryTags)
    BY <1>3, <1>4, <2>3, <2>4
  <2> QED
    BY <1>4, <2>5 DEF x, y
<1> HIDE DEF k
<1>8. Tally(memoryTags', Linked \ {b}, Homes', Sizes')
  <2>1. /\ memoryTags'[Homes[b]].bytes = (memoryTags[Homes[b]].bytes - Sizes[b]) % Word
        /\ memoryTags'[Homes[b]].count = memoryTags[Homes[b]].count - 1
        /\ \A i \in 1 .. Len(memoryTags) : i # Homes[b] => memoryTags'[i] = memoryTags[i]
    BY <1>4, <1>7
  <2>2. Leaves(b, Linked, memoryTags, memoryTags', Homes, Homes', Sizes, Sizes')
    BY <1>2, <1>4, <1>6, <1>7, <2>1 DEF Leaves
  <2> QED
    BY <1>1, <1>2, <2>2, TallyMinus
<1> QED
  BY <1>8

LEMMA TallyInit ==
  ASSUME Init
  PROVE  TallyInv
<1>1. ListInv
  BY ListInit
<1>2. Linked = {} /\ memoryTags = <<Entry(Unknown, DefaultLimit)>>
  BY DEF Init, Linked
<1>3. \A i \in 1 .. Len(memoryTags) : memoryTags[i].bytes = 0 /\ memoryTags[i].count = 0
  BY <1>2 DEF Entry
<1>4. ASSUME NEW i PROVE SumOf(Sizes, ChargedIn(Homes, Linked, i)) = 0
                          /\ Cardinality(ChargedIn(Homes, Linked, i)) = 0
  <2>1. ChargedIn(Homes, Linked, i) = {}
    BY <1>2 DEF ChargedIn
  <2>2. SumOf(Sizes, {}) = 0
    BY SumNumber, FS_EmptySet
  <2> QED
    BY <2>1, <2>2, FS_EmptySet
<1>5. 0 % Word = 0
  BY Constants
<1> QED
  BY <1>1, <1>3, <1>4, <1>5 DEF TallyInv, Tally

LEMMA TallyStep ==
  ASSUME CallsExclude, TallyInv, [Next]_vars
  PROVE  TallyInv'
<1> DEFINE Goal == Tally(memoryTags, Linked, Homes, Sizes)'
<1>1. ListInv /\ TrackTypes /\ ListInv'
  BY ListStep DEF TallyInv, ListInv
<1>2. ASSUME UNCHANGED memoryTags, Linked' = Linked, \A b \in Linked : header'[b] = header[b]
      PROVE  Goal
  <2>1. TagsKept /\ Len(memoryTags) \in Nat
    BY <1>1, <1>2, SameTags DEF TrackTypes
  <2> QED
    BY <1>2, <2>1, TallyFrame
<1>3. ASSUME NEW tag \in Tags, memoryTags' = Registered(tag), Linked' = Linked,
             \A b \in Linked : header'[b] = header[b]
      PROVE  Goal
  <2>1. TagsKept
    BY <1>1, <1>3, RegisteredKept
  <2>2. /\ \A i \in 1 .. Len(memoryTags) : memoryTags'[i] = memoryTags[i]
        /\ \A i \in 1 .. Len(memoryTags') :
             i > Len(memoryTags) => memoryTags'[i].bytes = 0 /\ memoryTags'[i].count = 0
    BY <1>1, <1>3, RegisteredZero
  <2> QED
    BY <1>3, <2>1, <2>2, TallyFrame
<1>4. ASSUME UNCHANGED <<header, job>> PROVE Linked' = Linked
  BY <1>4 DEF Linked
<1> HIDE DEF Goal
<1>5. ASSUME NEW t \in Threads, LinkReads(t) PROVE Goal
  BY <1>1, <1>2, <1>5, LinkReadsList DEF LinkReads
<1>6. ASSUME NEW t \in Threads, LinkPublishes(t) PROVE Goal
  BY <1>6, TallyPublish DEF Goal
<1>7. ASSUME NEW b \in Blocks, Aborts(b) PROVE Goal
  BY <1>2, <1>4, <1>7 DEF Aborts
<1>8. ASSUME NEW t \in Threads, CheckBounds(t) PROVE Goal
  BY <1>2, <1>4, <1>8 DEF CheckBounds, Aborts
<1>9. ASSUME NEW t \in Threads, NEW b \in Blocks, Free(t, b) PROVE Goal
  <2>1. CASE MayUse(t, b) /\ FreeSucceeds(b)
    <3>1. /\ b \in Linked /\ Linked' = Linked \ {b}
          /\ \A x \in Linked \ {b} : header'[x] = header[x]
      BY <1>1, <2>1, FreeList
    <3>2. memoryTags' = Credit(memoryTags, b)
      BY <2>1 DEF FreeSucceeds
    <3> QED
      BY <3>1, <3>2, TallyUnlink DEF Goal
  <2> QED
    BY <1>7, <1>9, <2>1 DEF Free
<1>10. ASSUME NEW t \in Threads, NEW b \in Blocks, Overrun(t, b) PROVE Goal
  BY <1>2, <1>4, <1>10 DEF Overrun
<1>11. ASSUME NEW t \in Threads, NEW b \in Blocks, NEW n \in Requests, Realloc(t, b, n)
       PROVE  Goal
  <2>1. CASE MayUse(t, b) /\ ReallocStarts(t, b, n)
    <3>1. /\ b \in Linked /\ Linked' = Linked \ {b}
          /\ \A x \in Linked \ {b} : header'[x] = header[x]
      BY <1>1, <2>1, ReallocList
    <3>2. memoryTags' = Credit(memoryTags, b)
      BY <2>1 DEF ReallocStarts
    <3> QED
      BY <3>1, <3>2, TallyUnlink DEF Goal
  <2> QED
    BY <1>7, <1>11, <2>1 DEF Realloc
<1>12. ASSUME NEW t \in Threads, NEW tag \in Tags, Query(t, tag) PROVE Goal
  BY <1>3, <1>4, <1>12 DEF Query
<1>13. ASSUME NEW t \in Threads, NEW tag \in Tags, NEW n \in Limits, SetLimit(t, tag, n)
       PROVE  Goal
  <2>1. Linked' = Linked /\ \A b \in Linked : header'[b] = header[b]
    BY <1>4, <1>13 DEF SetLimit
  <2> QED
    BY <1>1, <1>13, <2>1, SetLimitTags, TallyFrame DEF Goal
<1>14. ASSUME NEW t \in Threads, NEW tag \in Tags, NEW n \in Requests, MallocStarts(t, tag, n)
       PROVE  Goal
  <2>1. Linked' = Linked /\ \A b \in Linked : header'[b] = header[b]
    BY <1>1, <1>14, MallocList
  <2>2. memoryTags' = Registered(tag)
    BY <1>14 DEF MallocStarts
  <2> QED
    BY <1>3, <2>1, <2>2
<1>15. ASSUME Dead PROVE Goal
  BY <1>2, <1>4, <1>15 DEF Dead, vars
<1>16. ASSUME UNCHANGED vars PROVE Goal
  BY <1>2, <1>4, <1>16 DEF vars
<1>17. Goal
  BY <1>5, <1>6, <1>8, <1>9, <1>10, <1>11, <1>12, <1>13, <1>14, <1>15, <1>16 DEF Next
<1> QED
  BY <1>1, <1>17 DEF TallyInv, Goal

\* The bytes on the list that belong to entry i.
Held(i) == SumOf(Sizes, ChargedIn(Homes, Linked, i))

\* Between calls they are what callers hold under it.
BytesHeld ==
  (\A u \in Threads : job[u] = Null) =>
    \A i \in DOMAIN memoryTags :
      /\ Charged(i) = ChargedIn(Homes, Linked, i) /\ Bytes(Charged(i)) = Held(i)
      /\ Held(i) \in Nat
      /\ memoryTags[i].count = Cardinality(Charged(i))
      /\ memoryTags[i].bytes = Held(i) % Word

LEMMA QuietBytes == TallyInv => BytesHeld
<1> SUFFICES ASSUME TallyInv, \A u \in Threads : job[u] = Null, NEW i \in DOMAIN memoryTags
             PROVE  /\ Charged(i) = ChargedIn(Homes, Linked, i) /\ Bytes(Charged(i)) = Held(i)
                    /\ Held(i) \in Nat
                    /\ memoryTags[i].count = Cardinality(Charged(i))
                    /\ memoryTags[i].bytes = Held(i) % Word
  BY DEF BytesHeld
<1> DEFINE C == ChargedIn(Homes, Linked, i)
<1>1. /\ TrackTypes /\ TagsKnown /\ JobsSound /\ OwnedSound
      /\ Tally(memoryTags, Linked, Homes, Sizes)
  BY DEF TallyInv, ListInv
<1>2. \A b \in Blocks : owned[b] # Null => b \in Linked
  BY <1>1 DEF OwnedSound
<1>3. \A b \in Linked : /\ b \in Blocks /\ header[b] # Null /\ owned[b] = Sizes[b]
                        /\ Sizes[b] \in Nat /\ Homes[b] = EntryOf(header[b].tag)
  BY <1>1, HomesKept DEF OwnedSound, Linked
<1>4. \A b \in Linked : owned[b] # Null
  BY <1>3, NullIs
<1>5. Charged(i) = C /\ C \in SUBSET Linked
  BY <1>2, <1>3, <1>4 DEF Charged, ChargedIn
<1>6. IsFiniteSet(Linked) /\ i \in 1 .. Len(memoryTags)
  BY <1>1, LinkedFinite DEF TrackTypes
<1>7. IsFiniteSet(C) /\ \A b \in C : Sizes[b] \in Nat /\ owned[b] = Sizes[b]
  BY <1>3, <1>5, <1>6, FS_Subset
<1>8. SumOf(owned, C) = SumOf(Sizes, C) /\ SumOf(Sizes, C) \in Nat
  BY <1>7, SumSame, SumNumber
<1>9. Bytes(C) = SumOf(owned, C)
  BY DEF Bytes, SumOf
<1>10. memoryTags[i].count = Cardinality(C) /\ memoryTags[i].bytes = SumOf(Sizes, C) % Word
  BY <1>1, <1>6 DEF Tally
<1> QED
  BY <1>5, <1>8, <1>9, <1>10 DEF Held

\* In such a program the counters of every tag equal, between calls, what its
\* live blocks add up to in size_t, and the table of tags never grows past its
\* limit: also when it is full, and when tags were cut to fit.
THEOREM CountersAlwaysExact == CallsExclude => (Spec => []CountersExact)
<1>1. ASSUME TallyInv PROVE CountersExact
  <2> SUFFICES ASSUME Quiet
               PROVE  /\ Len(memoryTags) <= TagLimit
                      /\ \A i \in DOMAIN memoryTags :
                           /\ memoryTags[i].count = Cardinality(Charged(i))
                           /\ memoryTags[i].bytes = Bytes(Charged(i)) % Word
    BY DEF CountersExact
  <2>1. Len(memoryTags) <= TagLimit /\ \A u \in Threads : job[u] = Null
    BY <1>1, Constants DEF TallyInv, ListInv, TrackTypes, JobsSound, Quiet
  <2> QED
    BY <1>1, <2>1, QuietBytes DEF BytesHeld
<1>2. SUFFICES ASSUME CallsExclude PROVE Spec => []CountersExact
  OBVIOUS
<1>3. Init => TallyInv
  BY TallyInit
<1>4. TallyInv /\ [Next]_vars => TallyInv'
  BY <1>2, TallyStep
<1> QED
  BY <1>1, <1>3, <1>4, PTL DEF Spec

-----------------------------------------------------------------------------
(* Limits *)

\* No tag that is too long for its entry is, once cut, another tag in use.
CutsApart == \A tag \in Tags : Cut[tag] \in Tags => Cut[tag] = tag

\* A request and what its tag holds do not add up to SIZE_MAX: blocks in memory
\* cannot, and requests near SIZE_MAX are excluded.
RequestsFit ==
  \A i \in DOMAIN memoryTags : \A n \in Requests : Bytes(Charged(i)) + n < Word

\* A block that a call is linking fits under the limit of its entry, unless it
\* is the caller's own block that the system could not resize.
Promised ==
  \A t \in Threads : job[t] # Null =>
    LET b == job[t].block
        i == Homes[b]
    IN  \/ job[t].was = b /\ owned[b] = job[t].size
        \/ memoryTags[i].name \in Tags => Held(i) + job[t].size <= memoryTags[i].limit

LimitInv == TallyInv /\ memoryTags[1].name = Unknown /\ Promised

\* What is on the list keeps its entries and sizes.
LEMMA HeldKept ==
  ASSUME TrackTypes, TagsKnown, TagsKept, NEW L \in SUBSET Linked,
         \A b \in L : header'[b] = header[b], NEW i
  PROVE  /\ ChargedIn(Homes', L, i) = ChargedIn(Homes, L, i)
         /\ SumOf(Sizes', ChargedIn(Homes, L, i)) = SumOf(Sizes, ChargedIn(Homes, L, i))
         /\ SumOf(Sizes, ChargedIn(Homes, L, i)) \in Nat
<1> DEFINE C == ChargedIn(Homes, L, i)
<1>1. IsFiniteSet(Linked) /\ \A b \in Linked : b \in Blocks /\ header[b] # Null
  BY LinkedFinite
<1>2. \A b \in L : /\ Homes'[b] = Homes[b] /\ Sizes'[b] = Sizes[b] /\ Sizes[b] \in Nat
  BY <1>1, HomesKept
<1>3. ChargedIn(Homes', L, i) = C /\ C \in SUBSET L
  BY <1>2 DEF ChargedIn
<1>4. IsFiniteSet(C) /\ \A b \in C : Sizes[b] \in Nat /\ Sizes'[b] = Sizes[b]
  BY <1>1, <1>2, <1>3, FS_Subset
<1> HIDE DEF C
<1>5. SumOf(Sizes', C) = SumOf(Sizes, C) /\ SumOf(Sizes, C) \in Nat
  BY <1>4, SumSame, SumNumber
<1> QED
  BY <1>3, <1>5 DEF C

\* A sum below Word is not changed by the arithmetic of size_t.
LEMMA WordSum == \A x \in Nat : x < Word => x % Word = x
  BY Constants, SmallRemainder

\* The entry that Malloc tests is the one its block will be charged to.
LEMMA MallocEntry ==
  ASSUME CutsApart, TrackTypes, memoryTags[1].name = Unknown, NEW tag \in Tags,
         Registered(tag)[EntryOf(tag)].name \in Tags
  PROVE  EntryIn(Registered(tag), Registered(tag)[EntryOf(tag)].name) = EntryOf(tag)
<1> DEFINE m == Registered(tag)
           k == EntryOf(tag)
           name == m[k].name
           i == EntryIn(m, name)
<1>1. memoryTags \in Seq(Entries) /\ Len(memoryTags) \in Nat /\ Len(memoryTags) >= 1
  BY Constants DEF TrackTypes
<1>2. /\ m \in Seq(Entries) /\ k \in 1 .. Len(m) /\ Len(m) \in Nat
      /\ \A x \in 1 .. Len(memoryTags) : m[x] = memoryTags[x]
      /\ Named(tag) # {} => /\ m = memoryTags /\ k \in Named(tag)
                            /\ \A x \in Named(tag) : k <= x
  BY TagsFound DEF TrackTypes
<1>3. \E x \in DOMAIN m : m[x].name = name
  BY <1>2
<1> HIDE DEF m, k, name
<1>4. /\ i \in 1 .. Len(m) /\ m[i].name = name
      /\ \A x \in 1 .. Len(m) : m[x].name = name => i <= x
  BY <1>2, <1>3, EntryInIs
<1>5. name = m[k].name
  BY DEF name
<1> HIDE DEF i
<1>6. i <= k
  BY <1>2, <1>4, <1>5
<1>7. k <= i
  <2>1. CASE Named(tag) # {}
    <3>1. name = tag
      BY <1>2, <1>5, <2>1 DEF Named
    <3>2. i \in Named(tag)
      BY <1>1, <1>2, <1>4, <2>1, <3>1 DEF Named
    <3> QED
      BY <1>2, <2>1, <3>2
  <2>2. CASE Named(tag) = {} /\ Len(memoryTags) >= TagLimit
    <3>1. k = 1
      BY <1>1, <2>2, Constants DEF k, EntryOf
    <3> QED
      BY <1>2, <1>4, <3>1
  <2>3. CASE Named(tag) = {} /\ Len(memoryTags) < TagLimit
    <3> DEFINE e == Entry(Cut[tag], DefaultLimit)
    <3>1. m = Append(memoryTags, e) /\ k = Len(memoryTags) + 1
      BY <1>1, <2>3, Constants DEF m, k, Registered, EntryOf
    <3>2. e.name = Cut[tag]
      BY DEF Entry
    <3> HIDE DEF e
    <3>3. name = Cut[tag]
      BY <1>1, <1>5, <3>1, <3>2
    <3>4. name = tag
      BY <3>3 DEF CutsApart, name, m, k
    <3>5. ASSUME i <= Len(memoryTags) PROVE FALSE
      <4>1. i \in DOMAIN memoryTags /\ memoryTags[i].name = tag
        BY <1>1, <1>2, <1>4, <3>4, <3>5
      <4> QED
        BY <2>3, <4>1 DEF Named
    <3> QED
      BY <1>1, <1>2, <1>4, <3>1, <3>5
  <2> QED
    BY <1>1, <2>1, <2>2, <2>3, Constants
<1> QED
  BY <1>2, <1>4, <1>6, <1>7 DEF m, k, name, i

LEMMA MallocPromises ==
  ASSUME CallsExclude, CutsApart, LimitInv, RequestsFit, NEW t \in Threads,
         NEW tag \in Tags, NEW n \in Requests, MallocStarts(t, tag, n)
  PROVE  Promised'
<1> PICK k : k = EntryOf(tag)
  OBVIOUS
<1> PICK e : e = Registered(tag)[k]
  OBVIOUS
<1> DEFINE Sum == SumOf(Sizes', ChargedIn(Homes', Linked', k))
<1>1. ListInv /\ TrackTypes /\ TagsKnown /\ TallyInv
  BY DEF LimitInv, TallyInv, ListInv
<1>2. PICK b \in Blocks :
        /\ header[b] = Null
        /\ header' = [header EXCEPT ![b] = [size |-> n, room |-> Room(n), tag |-> e.name]]
        /\ job' = [job EXCEPT ![t] = [block |-> b, was |-> Null, size |-> n]]
  BY DEF MallocStarts, Available
<1>3. /\ MayCall(t) /\ memoryTags' = Registered(tag) /\ WithinLimit(e, e.bytes + n)
  BY DEF MallocStarts
<1>4. \A u \in Threads : u = t /\ job[u] = Null
  BY <1>1, <1>3, QuietList
<1>5. TagsKept /\ Linked' = Linked /\ \A x \in Linked : header'[x] = header[x]
  BY <1>1, <1>3, MallocList, RegisteredKept
<1>6. header'[b].tag = e.name /\ job'[t].block = b /\ job'[t].size = n
  BY <1>1, <1>2 DEF TrackTypes
<1>7. Homes'[b] = EntryIn(memoryTags', e.name)
  BY <1>6 DEF Homes
<1>8. SUFFICES ASSUME memoryTags'[Homes'[b]].name \in Tags
               PROVE  SumOf(Sizes', ChargedIn(Homes', Linked', Homes'[b])) + n
                        <= memoryTags'[Homes'[b]].limit
  BY <1>4, <1>6 DEF Promised, Held
<1>9. /\ Registered(tag) \in Seq(Entries) /\ k \in 1 .. Len(Registered(tag))
      /\ Len(memoryTags) \in Nat /\ DOMAIN memoryTags = 1 .. Len(memoryTags)
  BY <1>1, TagsFound DEF TrackTypes
<1>10. memoryTags'[EntryIn(memoryTags', e.name)].name = e.name
  BY <1>3, <1>9, EntryInIs
<1>11. Homes'[b] = k /\ memoryTags'[k] = e
  BY <1>1, <1>3, <1>7, <1>8, <1>10, MallocEntry DEF LimitInv
<1>12. /\ Sum = SumOf(Sizes, ChargedIn(Homes, Linked, k))
       /\ Sum \in Nat
  BY <1>1, <1>5, HeldKept
<1>13. e.bytes = Sum % Word
  <2>1. TallyInv'
    BY <1>1, TallyStep DEF Next
  <2> QED
    BY <1>3, <1>9, <1>11, <2>1 DEF TallyInv, Tally
<1>14. n \in Nat /\ Sum + n < Word
  <2>1. n \in Nat /\ n < Word
    BY TrackerAssumption
  <2>2. CASE k \in 1 .. Len(memoryTags)
    BY <1>1, <1>4, <1>9, <1>12, <2>1, <2>2, QuietBytes DEF BytesHeld, RequestsFit, Held
  <2>3. CASE k \notin 1 .. Len(memoryTags)
    <3>1. \A x \in Linked : Homes[x] \in 1 .. Len(memoryTags)
      BY <1>1, LinkedFinite, HomesKept
    <3>2. ChargedIn(Homes, Linked, k) = {}
      BY <2>3, <3>1 DEF ChargedIn
    <3>3. SumOf(Sizes, {}) = 0
      BY SumNumber, FS_EmptySet
    <3> QED
      BY <1>12, <2>1, <3>2, <3>3
  <2> QED
    BY <2>2, <2>3
<1> HIDE DEF Sum
<1>15. e.bytes = Sum
  <2>1. Sum \in Nat /\ Sum < Word
    BY <1>12, <1>14, Constants
  <2>2. Sum % Word = Sum
    BY <2>1, WordSum
  <2> QED
    BY <1>13, <2>2
<1> QED
  BY <1>3, <1>11, <1>12, <1>14, <1>15, WordSum DEF WithinLimit, Sum

\* Realloc tests the limit with its old block taken off and the new one added.
LEMMA ReallocPromises ==
  ASSUME CallsExclude, LimitInv, RequestsFit, NEW t \in Threads,
         NEW b \in Blocks, NEW n \in Requests, MayUse(t, b), ReallocStarts(t, b, n)
  PROVE  Promised'
<1>1. ListInv /\ TrackTypes /\ TagsKnown /\ TallyInv
  BY DEF LimitInv, TallyInv, ListInv
<1>2. MayCall(t) /\ owned[b] # Null
  BY DEF MayUse
<1>3. /\ \A u \in Threads : u = t /\ job[u] = Null
      /\ b \in Linked /\ header[b] # Null /\ header[b] \in Headers
  BY <1>1, <1>2, QuietList DEF Linked
<1>4. /\ TagsKept /\ Linked' = Linked \ {b}
      /\ \A x \in Linked \ {b} : header'[x] = header[x]
  BY <1>1, ReallocList
<1>5. CASE ReallocFails(t, b, n)
  <2>1. job'[t] = [block |-> b, was |-> b, size |-> owned[b]] /\ owned' = owned
    BY <1>1, <1>5 DEF ReallocFails, ReallocStarts, TrackTypes
  <2>2. job'[t].was = job'[t].block /\ owned'[job'[t].block] = job'[t].size
    BY <2>1
  <2> QED
    BY <1>3, <2>2 DEF Promised
<1>6. CASE ReallocMoves(t, b, n)
  <2>1. PICK x \in Blocks :
          /\ header'[x].tag = header[b].tag
          /\ job'[t] = [block |-> x, was |-> b, size |-> n]
    BY <1>1, <1>6 DEF ReallocMoves, Available, TrackTypes
  <2>2. job'[t].block = x /\ job'[t].size = n
    BY <2>1
  <2> PICK k : k = EntryOf(header[b].tag)
    OBVIOUS
  <2>3. Homes[b] = k /\ k \in 1 .. Len(memoryTags) /\ Sizes[b] = header[b].size
    BY <1>1, <1>3, HomesKept
  <2>4. Homes'[x] = k
    <3>1. Homes'[x] = EntryIn(memoryTags', header[b].tag)
      BY <2>1 DEF Homes
    <3>2. Homes[b] = EntryIn(memoryTags, header[b].tag)
      BY DEF Homes
    <3>3. \E i \in DOMAIN memoryTags : memoryTags[i].name = header[b].tag
      BY <1>1, <1>3 DEF TagsKnown, Named
    <3>4. /\ memoryTags \in Seq(Entries) /\ memoryTags' \in Seq(Entries)
          /\ Len(memoryTags) <= Len(memoryTags')
          /\ \A i \in 1 .. Len(memoryTags) : memoryTags'[i].name = memoryTags[i].name
      BY <1>1, <1>4, Constants DEF TagsKept, TrackTypes
    <3> QED
      BY <2>3, <3>1, <3>2, <3>3, <3>4, EntryInKept
  <2> DEFINE C == ChargedIn(Homes, Linked, k)
             D == ChargedIn(Homes, Linked \ {b}, k)
             u == SumOf(Sizes, D)
             v == header[b].size
  <2>5. SumOf(Sizes', ChargedIn(Homes', Linked', k)) = u /\ u \in Nat /\ v \in Nat
    <3>1. Linked \ {b} \in SUBSET Linked
      OBVIOUS
    <3> QED
      BY <1>1, <1>3, <1>4, <3>1, HeldKept DEF Headers
  <2>6. Held(k) = v + u
    <3>1. b \in C /\ C \in SUBSET Linked /\ D = C \ {b}
      BY <1>3, <2>3 DEF ChargedIn
    <3>2. IsFiniteSet(C) /\ \A y \in C : Sizes[y] \in Nat
      BY <1>1, <3>1, LinkedFinite, HomesKept, FS_Subset
    <3> HIDE DEF C, D
    <3>3. SumOf(Sizes, C) = Sizes[b] + SumOf(Sizes, C \ {b})
      BY <3>1, <3>2, SumWithout
    <3> QED
      BY <2>3, <3>1, <3>3 DEF Held, C
  <2>7. Bytes(Charged(k)) = Held(k) /\ memoryTags[k].bytes = Held(k) % Word
        /\ Held(k) + n < Word /\ n \in Nat
    BY <1>1, <1>3, <2>3, QuietBytes, Constants DEF BytesHeld, RequestsFit, TrackTypes
  <2>8. (memoryTags[k].bytes - v + n) % Word <= memoryTags[k].limit
    BY DEF ReallocStarts, WithinLimit
  <2>9. memoryTags'[k].limit = memoryTags[k].limit
    <3>1. memoryTags' = Credit(memoryTags, b) /\ memoryTags[k] \in Entries
      BY <1>1, <2>3 DEF ReallocStarts, TrackTypes
    <3> QED
      BY <1>1, <2>3, <3>1 DEF Credit, Entries, TrackTypes
  <2> HIDE DEF u, v, C, D
  <2>10. u + n <= memoryTags[k].limit
    <3>1. v + u < Word /\ u + n < Word /\ v + u \in Nat /\ u + n \in Nat
      BY <2>5, <2>6, <2>7, Constants
    <3>2. memoryTags[k].bytes = v + u
      BY <2>6, <2>7, <3>1, WordSum
    <3>3. memoryTags[k].bytes - v + n = u + n
      BY <2>5, <2>7, <3>2
    <3> QED
      BY <2>8, <3>1, <3>3, WordSum
  <2> QED
    BY <1>3, <2>2, <2>4, <2>5, <2>9, <2>10 DEF Promised, Held
<1> QED
  BY <1>5, <1>6 DEF ReallocStarts

LEMMA LimitInit ==
  ASSUME Init
  PROVE  LimitInv
<1>1. memoryTags[1].name = Unknown /\ \A t \in Threads : job[t] = Null
  BY DEF Init, Entry
<1> QED
  BY <1>1, TallyInit DEF LimitInv, Promised

LEMMA LimitStep ==
  ASSUME CallsExclude, CutsApart, LimitInv, RequestsFit, [Next]_vars
  PROVE  LimitInv'
<1>1. ListInv /\ TrackTypes /\ TallyInv /\ Promised
  BY DEF LimitInv, TallyInv, ListInv
<1>2. TagsKept /\ TallyInv'
  BY <1>1, TagsStep, TallyStep
<1>3. memoryTags'[1].name = Unknown
  BY <1>1, <1>2, Constants DEF LimitInv, TagsKept, TrackTypes
<1>4. ASSUME NEW t \in Threads, MayCall(t), UNCHANGED job PROVE Promised'
  BY <1>1, <1>4, QuietList DEF Promised
<1>5. ASSUME UNCHANGED <<memoryTags, header, job, owned>> PROVE Promised'
  <2>1. Homes' = Homes /\ Sizes' = Sizes /\ Linked' = Linked
    BY <1>5 DEF Homes, Sizes, Linked
  <2> QED
    BY <1>1, <1>5, <2>1 DEF Promised, Held
<1>6. ASSUME NEW t \in Threads, LinkReads(t) PROVE Promised'
  BY <1>5, <1>6 DEF LinkReads
<1>7. ASSUME NEW t \in Threads, LinkPublishes(t) PROVE Promised'
  <2>1. \A u \in Threads : job'[u] = Null
    BY <1>1, <1>7 DEF LinkPublishes, TrackTypes, CallsExclude
  <2> QED
    BY <2>1 DEF Promised
<1>8. ASSUME NEW t \in Threads, CheckBounds(t) PROVE Promised'
  BY <1>5, <1>8 DEF CheckBounds, Aborts
<1>9. ASSUME NEW t \in Threads, NEW b \in Blocks, Free(t, b) PROVE Promised'
  BY <1>4, <1>9 DEF Free, FreeSucceeds, Aborts, MayUse
<1>10. ASSUME NEW t \in Threads, NEW b \in Blocks, Overrun(t, b) PROVE Promised'
  BY <1>4, <1>10 DEF Overrun, MayUse
<1>11. ASSUME NEW t \in Threads, NEW b \in Blocks, NEW n \in Requests, Realloc(t, b, n)
       PROVE  Promised'
  BY <1>5, <1>11, ReallocPromises DEF Realloc, Aborts
<1>12. ASSUME NEW t \in Threads, NEW tag \in Tags, Query(t, tag) PROVE Promised'
  BY <1>4, <1>12 DEF Query
<1>13. ASSUME NEW t \in Threads, NEW tag \in Tags, NEW n \in Limits, SetLimit(t, tag, n)
       PROVE  Promised'
  BY <1>4, <1>13 DEF SetLimit
<1>14. ASSUME NEW t \in Threads, NEW tag \in Tags, NEW n \in Requests, MallocStarts(t, tag, n)
       PROVE  Promised'
  BY <1>14, MallocPromises
<1>15. ASSUME Dead PROVE Promised'
  BY <1>5, <1>15 DEF Dead, vars
<1>16. ASSUME UNCHANGED vars PROVE Promised'
  BY <1>5, <1>16 DEF vars
<1>17. Promised'
  BY <1>6, <1>7, <1>8, <1>9, <1>11, <1>12, <1>13, <1>14, <1>15, <1>10, <1>16 DEF Next
<1> QED
  BY <1>2, <1>3, <1>17 DEF LimitInv

\* The step gives callers more under entry i.
Grows(i) == Bytes(Charged(i))' > Bytes(Charged(i))

\* A step that gives no caller a block takes at most one, b, off its entry.
LEMMA NoGrowth ==
  ASSUME TrackTypes, TagsKnown, TagsKept, NEW b,
         \A x \in Blocks : owned'[x] # Null /\ header'[x] # Null =>
           owned[x] = owned'[x] /\ header[x] # Null /\ header'[x].tag = header[x].tag,
         \A x \in Blocks \ {b} : owned[x] # Null /\ header[x] # Null =>
           owned[x] = owned'[x] /\ header'[x] # Null /\ header'[x].tag = header[x].tag,
         NEW i
  PROVE  ~Grows(i)
<1> DEFINE C == Charged(i)
           D == Charged(i)'
<1>1. ASSUME NEW x \in Blocks, header[x] # Null, header'[x].tag = header[x].tag
      PROVE  EntryOf(header[x].tag)' = EntryOf(header[x].tag)
  <2> PICK name : name = header[x].tag
    OBVIOUS
  <2>1. \E k \in DOMAIN memoryTags : memoryTags[k].name = name
    BY <1>1 DEF TagsKnown, Named
  <2>2. \E k \in DOMAIN memoryTags' : memoryTags'[k].name = name
    BY <1>1, NamesKept
  <2>3. EntryOf(name) = EntryIn(memoryTags, name)
    BY <2>1 DEF EntryOf, EntryIn, Named
  <2>4. EntryOf(name)' = EntryIn(memoryTags', name)
    BY <2>2 DEF EntryOf, EntryIn, Named
  <2>5. EntryIn(memoryTags', name) = EntryIn(memoryTags, name)
    <3>1. /\ memoryTags \in Seq(Entries) /\ memoryTags' \in Seq(Entries)
          /\ Len(memoryTags) <= Len(memoryTags')
          /\ \A k \in 1 .. Len(memoryTags) : memoryTags'[k].name = memoryTags[k].name
      BY Constants DEF TagsKept, TrackTypes
    <3> QED
      BY <2>1, <3>1, EntryInKept
  <2>6. EntryOf(header[x].tag)' = EntryOf(name)'
    BY <1>1 DEF EntryOf, Named
  <2> QED
    BY <2>3, <2>4, <2>5, <2>6
<1>2. \A x : x \in D <=> /\ x \in Blocks /\ owned'[x] # Null /\ header'[x] # Null
                         /\ EntryOf(header[x].tag)' = i
  BY DEF Charged
<1>3. D = C \/ (b \in C /\ D = C \ {b})
  <2>1. \A x : x \in C <=> /\ x \in Blocks /\ owned[x] # Null /\ header[x] # Null
                           /\ EntryOf(header[x].tag) = i
    BY DEF Charged
  <2> HIDE DEF C, D
  <2>2. \A x \in D : x \in C
    BY <1>1, <1>2, <2>1
  <2>3. \A x \in C : x # b => x \in D
    BY <1>1, <1>2, <2>1
  <2> QED
    BY <2>2, <2>3
<1>4. IsFiniteSet(C) /\ \A x \in C : owned[x] \in Nat
  <2>1. C \in SUBSET Blocks
    BY DEF Charged
  <2> QED
    BY <2>1, FS_Subset, TrackerAssumption DEF Charged, TrackTypes
<1>5. IsFiniteSet(D) /\ \A x \in D : owned[x] \in Nat /\ owned'[x] = owned[x]
  BY <1>2, <1>3, <1>4, FS_Subset
<1>6. Bytes(Charged(i)) = SumOf(owned, C) /\ Bytes(Charged(i))' = SumOf(owned', D)
  <2>1. Bytes(Charged(i)) = SumOf(owned, Charged(i))
    BY DEF Bytes, SumOf
  <2>2. Bytes(Charged(i))' = SumOf(owned', Charged(i)')
    BY DEF Bytes, SumOf, MapThenSumSet, MapThenFoldSet
  <2> QED
    BY <2>1, <2>2
<1> HIDE DEF C, D
<1>7. /\ SumOf(owned', D) = SumOf(owned, D)
      /\ SumOf(owned, C) \in Nat /\ SumOf(owned, D) \in Nat
  BY <1>4, <1>5, SumSame, SumNumber
<1>8. b \in C => SumOf(owned, C) = owned[b] + SumOf(owned, C \ {b})
  BY <1>4, SumWithout
<1>9. SumOf(owned, D) <= SumOf(owned, C)
  <2>1. CASE D = C
    BY <1>7, <2>1
  <2>2. CASE b \in C /\ D = C \ {b}
    <3>1. owned[b] \in Nat /\ SumOf(owned, C) = owned[b] + SumOf(owned, D)
      BY <1>4, <1>8, <2>2
    <3> QED
      BY <1>7, <3>1
  <2> QED
    BY <1>3, <2>1, <2>2
<1> QED
  BY <1>6, <1>7, <1>9 DEF Grows

\* The call that returns a block makes its entry grow, within the limit.
LEMMA PublishGrowth ==
  ASSUME CallsExclude, LimitInv, TallyInv', BytesHeld', NEW t \in Threads,
         LinkPublishes(t), NEW i \in DOMAIN memoryTags, memoryTags[i].name \in Tags, Grows(i)
  PROVE  Bytes(Charged(i))' <= memoryTags[i].limit
<1> PICK b : b = job[t].block
  OBVIOUS
<1> DEFINE k == Homes[b]
           C == ChargedIn(Homes, Linked, i)
           CB == C \cup {b}
<1>1. /\ ListInv /\ TrackTypes /\ TagsKnown /\ JobsSound /\ OwnedSound /\ Promised
  BY DEF LimitInv, TallyInv, ListInv
<1>2. /\ TagsKept /\ Linked' = Linked \cup {b} /\ b \in Blocks /\ b \notin Linked
      /\ header[b] # Null
  BY <1>1, LinkPublishesList
<1>3. pc[t] = "publish" /\ job[t] # Null /\ header[b].size = job[t].size
  BY <1>1 DEF LinkPublishes, JobsSound
<1>4. /\ header' = header /\ job' = [job EXCEPT ![t] = Null]
      /\ owned' = [x \in Blocks |->
                     IF x = b THEN job[t].size
                     ELSE IF x = job[t].was THEN Null ELSE owned[x]]
  BY DEF LinkPublishes
<1>5. \A u \in Threads : u = t /\ job'[u] = Null
  BY <1>1, <1>4 DEF TrackTypes, CallsExclude
<1>6. /\ IsFiniteSet(Linked)
      /\ \A x \in Linked : x \in Blocks /\ header[x] # Null
  BY <1>1, LinkedFinite
<1>7. /\ \A x \in Linked \cup {b} : /\ Homes'[x] = Homes[x] /\ Sizes'[x] = Sizes[x]
                                    /\ Sizes[x] \in Nat
                                    /\ Homes[x] = EntryOf(header[x].tag)
      /\ Sizes[b] = job[t].size
  BY <1>1, <1>2, <1>3, <1>4, <1>6, HomesKept
\* What callers hold under the entry after the step ...
<1>8. Bytes(Charged(i))' = SumOf(Sizes', ChargedIn(Homes', Linked', i))
  <2>1. i \in DOMAIN memoryTags'
    BY <1>1, <1>2, Constants DEF TagsKept, TrackTypes
  <2> QED
    BY <1>5, <2>1 DEF BytesHeld, Held
<1>9. ChargedIn(Homes', Linked', i) = IF i = k THEN CB ELSE C
  BY <1>2, <1>7 DEF ChargedIn
<1>10. C \in SUBSET Linked /\ IsFiniteSet(C) /\ IsFiniteSet(CB)
  BY <1>6, FS_Subset, FS_AddElement DEF ChargedIn
<1>11. \A x \in CB : Sizes[x] \in Nat /\ Sizes'[x] = Sizes[x]
  BY <1>7, <1>10
\* ... and before it, where the block that is replaced counts if it is the
\* same one.
<1>12. \A x \in Linked : owned[x] = Sizes[x] /\ owned[x] # Null
  <2>1. \A x \in Linked : owned[x] = header[x].size /\ Sizes[x] = header[x].size
    BY <1>1, <1>6 DEF OwnedSound, Sizes
  <2> QED
    BY <1>7, <2>1, NullIs
<1>13. \A x \in Blocks : owned[x] # Null /\ header[x] # Null => x \in Linked \cup {b}
  BY <1>5 DEF Linked
<1>14. Charged(i) = IF i = k /\ owned[b] # Null THEN CB ELSE C
  BY <1>2, <1>6, <1>7, <1>12, <1>13 DEF Charged, ChargedIn
<1>15. Bytes(Charged(i)) = SumOf(owned, Charged(i))
  BY DEF Bytes, SumOf
<1>16. SumOf(owned, C) = SumOf(Sizes, C) /\ SumOf(Sizes', C) = SumOf(Sizes, C)
       /\ SumOf(Sizes', CB) = SumOf(Sizes, CB)
       /\ SumOf(Sizes, C) \in Nat /\ SumOf(Sizes, CB) \in Nat
  <2>1. \A x \in C : Sizes[x] \in Nat /\ Sizes'[x] = Sizes[x] /\ owned[x] = Sizes[x]
    BY <1>10, <1>11, <1>12
  <2> HIDE DEF C, CB
  <2> QED
    BY <1>10, <1>11, <2>1, SumSame, SumNumber
<1>17. i = k
  <2> SUFFICES ASSUME i # k PROVE FALSE
    OBVIOUS
  <2>1. Bytes(Charged(i))' = SumOf(Sizes, C) /\ Bytes(Charged(i)) = SumOf(Sizes, C)
    BY <1>8, <1>9, <1>14, <1>15, <1>16
  <2> QED
    BY <1>16, <2>1 DEF Grows
<1>18. Bytes(Charged(i))' = SumOf(Sizes, CB)
  BY <1>8, <1>9, <1>16, <1>17
<1>19. CASE job[t].was = b /\ owned[b] = job[t].size
  <2>1. \A x \in CB : owned[x] = Sizes[x]
    BY <1>7, <1>10, <1>12, <1>19
  <2>2. owned[b] # Null
    BY <1>7, <1>19, NullIs
  <2>3. SumOf(owned, CB) = SumOf(Sizes, CB)
    <3> HIDE DEF C, CB
    <3> QED
      BY <1>10, <1>11, <2>1, SumSame
  <2>4. Bytes(Charged(i)) = SumOf(Sizes, CB)
    BY <1>14, <1>15, <1>17, <2>2, <2>3
  <2> QED
    BY <1>16, <1>18, <2>4 DEF Grows
<1>20. CASE Held(k) + job[t].size <= memoryTags[k].limit
  <2>1. b \in CB /\ CB \ {b} = C
    BY <1>2, <1>10
  <2> HIDE DEF C, CB
  <2>2. SumOf(Sizes, CB) = Sizes[b] + SumOf(Sizes, CB \ {b})
    BY <1>10, <1>11, <2>1, SumWithout
  <2>3. SumOf(Sizes, CB) = job[t].size + SumOf(Sizes, C) /\ job[t].size \in Nat
    BY <1>7, <2>1, <2>2
  <2>4. Held(k) = SumOf(Sizes, C)
    BY <1>17 DEF Held, C
  <2> QED
    BY <1>16, <1>17, <1>18, <1>20, <2>3, <2>4
<1> QED
  BY <1>1, <1>3, <1>17, <1>19, <1>20 DEF Promised

LEMMA GrowthStep ==
  ASSUME CallsExclude, LimitInv, TallyInv', BytesHeld', [Next]_vars,
         NEW i \in DOMAIN memoryTags, memoryTags[i].name \in Tags, Grows(i)
  PROVE  Bytes(Charged(i))' <= memoryTags[i].limit
<1> DEFINE Goal == Bytes(Charged(i))' <= memoryTags[i].limit
<1>1. ListInv /\ TrackTypes /\ TagsKnown
  BY DEF LimitInv, TallyInv, ListInv
<1>2. TagsKept
  BY <1>1, TagsStep
<1>3. ASSUME UNCHANGED <<header, owned>> PROVE Goal
  <2>1. ~Grows(i)
    BY <1>1, <1>2, <1>3, NoGrowth
  <2> QED
    BY <2>1
<1> HIDE DEF Goal
<1>4. ASSUME NEW t \in Threads, LinkReads(t) PROVE Goal
  BY <1>3, <1>4 DEF LinkReads
<1>5. ASSUME NEW t \in Threads, LinkPublishes(t) PROVE Goal
  BY <1>5, PublishGrowth DEF Goal
<1>6. ASSUME NEW t \in Threads, CheckBounds(t) PROVE Goal
  BY <1>3, <1>6 DEF CheckBounds, Aborts
<1>7. ASSUME NEW t \in Threads, NEW b \in Blocks, Free(t, b) PROVE Goal
  <2>1. CASE FreeSucceeds(b)
    <3>1. header' = [header EXCEPT ![b] = Null] /\ owned' = [owned EXCEPT ![b] = Null]
      BY <2>1 DEF FreeSucceeds
    <3>2. \A x \in Blocks \ {b} : header'[x] = header[x] /\ owned'[x] = owned[x]
      BY <1>1, <3>1 DEF TrackTypes
    <3>3. owned'[b] = Null
      BY <1>1, <3>1 DEF TrackTypes
    <3>4. ~Grows(i)
      BY <1>1, <1>2, <3>2, <3>3, NoGrowth
    <3> QED
      BY <3>4
  <2> QED
    BY <1>3, <1>7, <2>1 DEF Free, Aborts
<1>8. ASSUME NEW t \in Threads, NEW b \in Blocks, Overrun(t, b) PROVE Goal
  BY <1>3, <1>8 DEF Overrun
<1>9. ASSUME NEW t \in Threads, NEW b \in Blocks, NEW n \in Requests, Realloc(t, b, n)
      PROVE  Goal
  <2>1. CASE MayUse(t, b) /\ ReallocStarts(t, b, n) /\ ReallocFails(t, b, n)
    BY <1>3, <2>1 DEF ReallocStarts, ReallocFails
  <2>2. CASE MayUse(t, b) /\ ReallocStarts(t, b, n) /\ ReallocMoves(t, b, n)
    <3> DEFINE hd == [size |-> n, room |-> Room(n), tag |-> header[b].tag]
    <3>1. PICK x \in Blocks :
            /\ x = b \/ header[x] = Null
            /\ header' = [header EXCEPT ![b] = Null, ![x] = hd]
      BY <2>2 DEF ReallocMoves, Available
    <3> hd.tag = header[b].tag
      OBVIOUS
    <3> HIDE DEF hd
    <3>2. \A y \in Blocks : header'[y] = IF y = x THEN hd ELSE IF y = b THEN Null ELSE header[y]
      BY <1>1, <3>1 DEF TrackTypes
    <3>3. owned' = owned /\ header[b] # Null /\ (header[x] = Null => owned[x] = Null)
      BY <1>1, <2>2, QuietList DEF ReallocStarts, MayUse, Linked
    <3>4. \A y \in Blocks \ {b} : owned[y] # Null => header'[y] = header[y]
      BY <3>1, <3>2, <3>3
    <3>5. header'[b] # Null => header'[b].tag = header[b].tag
      BY <3>2
    <3>6. ~Grows(i)
      BY <1>1, <1>2, <3>3, <3>4, <3>5, NoGrowth
    <3> QED
      BY <3>6
  <2> QED
    BY <1>3, <1>9, <2>1, <2>2 DEF Realloc, ReallocStarts, Aborts
<1>10. ASSUME NEW t \in Threads, NEW tag \in Tags, Query(t, tag) PROVE Goal
  BY <1>3, <1>10 DEF Query
<1>11. ASSUME NEW t \in Threads, NEW tag \in Tags, NEW n \in Limits, SetLimit(t, tag, n)
       PROVE  Goal
  BY <1>3, <1>11 DEF SetLimit
<1>12. ASSUME NEW t \in Threads, NEW tag \in Tags, NEW n \in Requests, MallocStarts(t, tag, n)
       PROVE  Goal
  <2>1. PICK b \in Blocks :
          /\ header[b] = Null
          /\ header' = [header EXCEPT ![b] =
               [size |-> n, room |-> Room(n), tag |-> Registered(tag)[EntryOf(tag)].name]]
    BY <1>12 DEF MallocStarts, Available
  <2>2. owned' = owned /\ owned[b] = Null
    BY <1>1, <1>12, <2>1, QuietList DEF MallocStarts, Linked
  <2>3. \A x \in Blocks \ {b} : header'[x] = header[x]
    BY <1>1, <2>1 DEF TrackTypes
  <2>4. ~Grows(i)
    BY <1>1, <1>2, <2>2, <2>3, NoGrowth
  <2> QED
    BY <2>4
<1>13. ASSUME Dead PROVE Goal
  BY <1>3, <1>13 DEF Dead, vars
<1>14. ASSUME UNCHANGED vars PROVE Goal
  BY <1>3, <1>14 DEF vars
<1>15. Goal
  BY <1>4, <1>5, <1>6, <1>7, <1>8, <1>9, <1>10, <1>11, <1>12, <1>13, <1>14 DEF Next
<1> QED
  BY <1>15 DEF Goal

\* In such a program no call succeeds in taking more under a tag than its
\* limit, whatever was allocated, resized and released before: if the sizes do
\* not wrap, and no tag is cut to another one.
THEOREM GrowthAlwaysLimited ==
  CallsExclude /\ CutsApart => (Spec /\ []RequestsFit => GrowthWithinLimit)
<1> SUFFICES ASSUME CallsExclude, CutsApart
             PROVE  Spec /\ []RequestsFit => GrowthWithinLimit
  OBVIOUS
<1> DEFINE Step == \A i \in DOMAIN memoryTags :
                     memoryTags[i].name \in Tags /\ Bytes(Charged(i))' > Bytes(Charged(i))
                       => Bytes(Charged(i))' <= memoryTags[i].limit
<1>1. Init => LimitInv
  BY LimitInit
<1>2. LimitInv /\ RequestsFit /\ [Next]_vars => LimitInv'
  BY LimitStep
<1>3. LimitInv => TallyInv /\ BytesHeld
  BY QuietBytes DEF LimitInv
<1>4. LimitInv /\ TallyInv' /\ BytesHeld' /\ [Next]_vars => [Step]_vars
  BY GrowthStep DEF Grows
<1>5. GrowthWithinLimit <=> [][Step]_vars
  BY DEF GrowthWithinLimit
<1> HIDE DEF Step
<1> QED
  BY <1>1, <1>2, <1>3, <1>4, <1>5, PTL DEF Spec
=============================================================================
