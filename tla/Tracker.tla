------------------------------ MODULE Tracker ------------------------------
(***************************************************************************)
(* The memory tracker (src/memory/tracker.c): every block of the library   *)
(* has a header that is linked into a list of live blocks and charged to   *)
(* the entry of its tag, which has a limit.                                *)
(*                                                                         *)
(* A call is one step, except that linkAllocation is two, around the load  *)
(* of the list's head: the tracker has no lock, and with several Threads   *)
(* the two interleave.  One thread stands for a program whose calls        *)
(* exclude one another.  Sizes are size_t and wrap at Word.                *)
(***************************************************************************)
EXTENDS Integers, Sequences, FiniteSets, FiniteSetsExt

CONSTANTS
  Threads,
  Blocks,        \* addresses the allocator of the system hands out
  Tags,          \* the TAG arguments callers use, "UNKNOWN" and NULL as Unknown
  Unknown,
  Cut,           \* Cut[t]: tag t as it fits into justTagEntry.name
  TagLimit,      \* JUST_MEMORY_TAG_LIMIT
  DefaultLimit,  \* JUST_MEMORY_ALLOC_DEFAULT_LIMIT
  Word,          \* SIZE_MAX + 1
  Align,         \* payloads are rounded up to a multiple of it
  Overhead,      \* bytes of a header and a footer
  Memory,        \* bound: the largest block the system has
  Requests,      \* bound: sizes that callers ask for
  Limits,        \* bound: arguments of justMemorySetLimit
  Null           \* the null pointer; also "not allocated", "not owned"

\* The names of entries, the headers of blocks and the calls in progress.
TagNames == Tags \cup {Cut[t] : t \in Tags}
Headers  == [size : Nat, room : Nat, tag : TagNames]
Jobs     == [block : Blocks, was : Blocks \cup {Null}, size : Nat]

ASSUME TrackerAssumption ==
  /\ Unknown \in Tags
  /\ Cut \in [Tags -> TagNames] /\ Cut[Unknown] = Unknown
  /\ TagLimit \in Nat \ {0}
  /\ Word \in Nat \ {0} /\ Align \in 1 .. Word - 1
  /\ Overhead \in 0 .. Word - 1 /\ Memory \in 0 .. Word - 1
  /\ DefaultLimit \in 1 .. Word - 1
  /\ Requests \subseteq 1 .. Word - 1 /\ Limits \subseteq 0 .. Word - 1
  /\ IsFiniteSet(Blocks)
  /\ Null \notin Blocks /\ Null \notin Nat /\ Null \notin Headers /\ Null \notin Jobs

VARIABLES
  memoryTags,         \* the registered entries; the first is UNKNOWN
  activeAllocations,  \* head of the list of live blocks
  next, prev,         \* the links in the headers
  header,             \* size, room and tag of each allocated block
  broken,             \* blocks whose footer was overwritten by their user
  aborted,            \* has verifyIntegrity aborted the program?
  pc,                 \* where each thread is
  job,                \* the block a thread links, the one it replaces, and the
                      \* size its caller will know
  owned               \* history: the blocks callers hold, with their sizes

links == <<activeAllocations, next, prev>>
vars == <<memoryTags, links, header, broken, aborted, pc, job, owned>>

Entry(name, limit) == [name |-> name, bytes |-> 0, limit |-> limit, count |-> 0]

Init ==
  /\ memoryTags = <<Entry(Unknown, DefaultLimit)>>
  /\ activeAllocations = Null
  /\ next = [b \in Blocks |-> Null] /\ prev = [b \in Blocks |-> Null]
  /\ header = [b \in Blocks |-> Null]
  /\ broken = {} /\ aborted = FALSE
  /\ pc = [t \in Threads |-> "idle"] /\ job = [t \in Threads |-> Null]
  /\ owned = [b \in Blocks |-> Null]

-----------------------------------------------------------------------------
(* Tags *)

Named(name) == {i \in DOMAIN memoryTags : memoryTags[i].name = name}

\* The entries after getOrCreateTag(name): a name that is not found is
\* registered, cut to the field, while there is room.
Registered(name) ==
  IF Named(name) # {} \/ Len(memoryTags) >= TagLimit
    THEN memoryTags ELSE Append(memoryTags, Entry(Cut[name], DefaultLimit))

\* The entry getOrCreateTag(name) returns: the first of that name, the new
\* one, or UNKNOWN.
EntryOf(name) ==
  IF Named(name) # {} THEN Min(Named(name))
  ELSE IF Len(memoryTags) < TagLimit THEN Len(memoryTags) + 1
  ELSE 1

-----------------------------------------------------------------------------
(* The list *)

\* Mutant: the predecessor's link is left alone when it is the head.
UnlinkKeepsHead(b) ==
  /\ next' = IF prev[b] = Null THEN next ELSE [next EXCEPT ![prev[b]] = next[b]]
  /\ prev' = IF next[b] = Null THEN prev ELSE [prev EXCEPT ![next[b]] = prev[b]]
  /\ UNCHANGED activeAllocations

\* The pointers of unlinkAllocation.
Unlink(b) ==
  /\ next' = IF prev[b] = Null THEN next ELSE [next EXCEPT ![prev[b]] = next[b]]
  /\ activeAllocations' = IF prev[b] = Null THEN next[b] ELSE activeAllocations
  /\ prev' = IF next[b] = Null THEN prev ELSE [prev EXCEPT ![next[b]] = prev[b]]

\* Mutant: the bytes are taken off, the allocation is still counted.
CreditBytes(tags, b) ==
  LET i == EntryOf(header[b].tag)
  IN  [tags EXCEPT ![i].bytes = (@ - header[b].size) % Word]

\* The counters of unlinkAllocation and of linkAllocation.
Credit(tags, b) ==
  LET i == EntryOf(header[b].tag)
  IN  [tags EXCEPT ![i].bytes = (@ - header[b].size) % Word, ![i].count = @ - 1]

Charge(tags, b) ==
  LET i == EntryOf(header[b].tag)
  IN  [tags EXCEPT ![i].bytes = (@ + header[b].size) % Word, ![i].count = @ + 1]

\* linkAllocation reads the head ...
LinkReads(t) ==
  /\ pc[t] = "link" /\ ~aborted
  /\ next' = [next EXCEPT ![job[t].block] = activeAllocations]
  /\ prev' = [prev EXCEPT ![job[t].block] = Null]
  /\ pc' = [pc EXCEPT ![t] = "publish"]
  /\ UNCHANGED <<memoryTags, activeAllocations, header, broken, aborted, job,
                 owned>>

\* ... and makes the block the head; the call returns.  The caller holds the
\* block, and no longer the one it replaces.
LinkPublishes(t) ==
  LET b == job[t].block
  IN  /\ pc[t] = "publish" /\ ~aborted
      /\ prev' = IF activeAllocations = Null THEN prev
                 ELSE [prev EXCEPT ![activeAllocations] = b]
      /\ activeAllocations' = b
      /\ memoryTags' = Charge(Registered(header[b].tag), b)
      /\ owned' = [x \in Blocks |->
                     IF x = b THEN job[t].size
                     ELSE IF x = job[t].was THEN Null ELSE owned[x]]
      /\ pc' = [pc EXCEPT ![t] = "idle"]
      /\ job' = [job EXCEPT ![t] = Null]
      /\ UNCHANGED <<next, header, broken, aborted>>

-----------------------------------------------------------------------------
(* The calls *)

MayCall(t) == pc[t] = "idle" /\ ~aborted
MayUse(t, b) == MayCall(t) /\ owned[b] # Null /\ \A x \in Threads :
                  job[x] # Null => job[x].was # b

\* Size_t arithmetic: the rounded payload, and the bytes asked of the system.
Room(n)  == (((n + Align - 1) % Word) \div Align) * Align
Total(n) == (Overhead + Room(n)) % Word

\* Blocks the system may hand out for n bytes; none if it has no room.
Available(n) ==
  IF Total(n) > Memory THEN {} ELSE {b \in Blocks : header[b] = Null}

\* Mutant: a request may exceed the limit by one.
WithinLimitOffByOne(entry, bytes) == bytes % Word <= entry.limit + 1

\* The limit test of Malloc and Realloc: would the entry hold that much?
WithinLimit(entry, bytes) == bytes % Word <= entry.limit

\* Malloc, and Calloc with n the product, within the limit.
MallocStarts(t, tag, n) ==
  LET e == Registered(tag)[EntryOf(tag)]
  IN  /\ MayCall(t)
      /\ memoryTags' = Registered(tag)
      /\ WithinLimit(e, e.bytes + n)
      /\ \E b \in Available(n) :
           /\ header' = [header EXCEPT ![b] =
                           [size |-> n, room |-> Room(n), tag |-> e.name]]
           /\ job' = [job EXCEPT ![t] = [block |-> b, was |-> Null, size |-> n]]
      /\ pc' = [pc EXCEPT ![t] = "link"]
      /\ UNCHANGED <<links, broken, aborted, owned>>

\* verifyIntegrity fails: the program aborts.
Aborts(b) ==
  /\ b \in broken
  /\ aborted' = TRUE
  /\ UNCHANGED <<memoryTags, links, header, broken, pc, job, owned>>

\* The system has no memory: the old block will be linked again.
ReallocFails(t, b, n) ==
  /\ UNCHANGED header
  /\ job' = [job EXCEPT ![t] = [block |-> b, was |-> b, size |-> owned[b]]]

\* The system resizes the block, where it is or elsewhere.
ReallocMoves(t, b, n) ==
  \E x \in Available(n) \cup {y \in {b} : Total(n) <= Memory} :
    /\ header' = [header EXCEPT
                    ![b] = Null,
                    ![x] = [size |-> n, room |-> Room(n), tag |-> header[b].tag]]
    /\ job' = [job EXCEPT ![t] = [block |-> x, was |-> b, size |-> n]]

\* Where the limit refuses the new size nothing changes.  Otherwise the block
\* is unlinked, resized by the system and linked again.
ReallocStarts(t, b, n) ==
  LET e == memoryTags[EntryOf(header[b].tag)]
  IN  /\ b \notin broken
      /\ WithinLimit(e, e.bytes - header[b].size + n)
      /\ Unlink(b)
      /\ memoryTags' = Credit(memoryTags, b)
      /\ ReallocFails(t, b, n) \/ ReallocMoves(t, b, n)
      /\ pc' = [pc EXCEPT ![t] = "link"]
      /\ UNCHANGED <<broken, aborted, owned>>

Realloc(t, b, n) ==
  /\ MayUse(t, b)
  /\ Aborts(b) \/ ReallocStarts(t, b, n)

FreeSucceeds(b) ==
  /\ b \notin broken
  /\ Unlink(b)
  /\ memoryTags' = Credit(memoryTags, b)
  /\ header' = [header EXCEPT ![b] = Null]
  /\ owned' = [owned EXCEPT ![b] = Null]
  /\ UNCHANGED <<broken, aborted, pc, job>>

Free(t, b) ==
  /\ MayUse(t, b)
  /\ Aborts(b) \/ FreeSucceeds(b)

SetLimit(t, tag, n) ==
  LET limit == IF n = 0 THEN Word - 1 ELSE n
  IN  /\ MayCall(t)
      /\ memoryTags' = [Registered(tag) EXCEPT ![EntryOf(tag)].limit = limit]
      /\ UNCHANGED <<links, header, broken, aborted, pc, job, owned>>

\* justMemoryGetLimit and justMemoryGetActiveBytes register the tag; so does a
\* Malloc that returns NULL, over the limit or for want of memory.
Query(t, tag) ==
  /\ MayCall(t)
  /\ memoryTags' = Registered(tag)
  /\ UNCHANGED <<links, header, broken, aborted, pc, job, owned>>

\* The list as CheckBounds and ReportLeaks walk it: the block after n steps.
Walk ==
  LET at[n \in 0 .. Cardinality(Blocks)] ==
        IF n = 0 THEN activeAllocations
        ELSE IF at[n - 1] = Null THEN Null
        ELSE next[at[n - 1]]
  IN  at
Listed == {Walk[n] : n \in DOMAIN Walk} \ {Null}

\* justMemoryCheckBounds: verifyIntegrity on every listed block.  When all
\* are intact it returns true and nothing changes.
CheckBounds(t) ==
  /\ MayCall(t)
  /\ \E b \in Listed : Aborts(b)

\* A caller writes behind its block (the misuse the canaries are for).
Overrun(t, b) ==
  /\ MayUse(t, b)
  /\ broken' = broken \cup {b}
  /\ UNCHANGED <<memoryTags, links, header, aborted, pc, job, owned>>

Dead == aborted /\ UNCHANGED vars

Next ==
  \/ \E t \in Threads :
       \/ LinkReads(t) \/ LinkPublishes(t) \/ CheckBounds(t)
       \/ \E b \in Blocks : Free(t, b) \/ Overrun(t, b)
                            \/ \E n \in Requests : Realloc(t, b, n)
       \/ \E tag \in Tags :
            \/ Query(t, tag)
            \/ \E n \in Limits : SetLimit(t, tag, n)
            \/ \E n \in Requests : MallocStarts(t, tag, n)
  \/ Dead

Spec == Init /\ [][Next]_vars

-----------------------------------------------------------------------------
(* Properties *)

Quiet == ~aborted /\ \A t \in Threads : pc[t] = "idle"
Live  == {b \in Blocks : header[b] # Null}

\* Between calls the list holds exactly the blocks that callers hold, with
\* their sizes, and can be walked both ways, after any sequence of
\* allocations, moves and releases: what justMemoryReportLeaks and
\* justMemoryCheckBounds see is everything.  A Realloc that fails, for the
\* limit or for want of memory, leaves the caller's block tracked as it was.
AllocationsListed ==
  Quiet => /\ Listed = Live
           /\ Live = {b \in Blocks : owned[b] # Null}
           /\ \A b \in Live : owned[b] = header[b].size
           /\ Walk[Cardinality(Blocks)] = Null
           /\ \A b \in Live :
                /\ next[b] # Null => prev[next[b]] = b
                /\ prev[b] = Null <=> b = activeAllocations

\* The blocks charged to entry i.
Charged(i) == {b \in Blocks : owned[b] # Null /\ header[b] # Null
                              /\ EntryOf(header[b].tag) = i}
Bytes(B) == MapThenSumSet(LAMBDA b : owned[b], B)

\* Between calls the counters of every entry equal what its live blocks add
\* up to, also when the table of tags was full; it never grows past its limit.
CountersExact ==
  Quiet =>
    /\ Len(memoryTags) <= TagLimit
    /\ \A i \in DOMAIN memoryTags :
             /\ memoryTags[i].count = Cardinality(Charged(i))
             /\ memoryTags[i].bytes = Bytes(Charged(i)) % Word

\* No Malloc or Realloc succeeds in taking more under a tag than its limit,
\* for the tags that fit into their entry ("If you exceed the limit, the
\* allocations will return NULL", tracker.h:138).  A longer one is cut but
\* looked up uncut: every call registers it anew and tests a fresh limit.
GrowthWithinLimit ==
  [][\A i \in DOMAIN memoryTags :
       memoryTags[i].name \in Tags /\ Bytes(Charged(i))' > Bytes(Charged(i))
         => Bytes(Charged(i))' <= memoryTags[i].limit]_vars
=============================================================================
