------------------------------ MODULE JustStack ------------------------------
(***************************************************************************)
(* justStack (stack.h): a dynamic array of which only the end is used.     *)
(* Create, Destroy, Push and Emplace are those of the array.               *)
(***************************************************************************)
EXTENDS DynamicArray

StackPop ==
  /\ made /\ size # 0
  /\ Pop

\* justStackPeek: the last element, or NULL.
Peek ==
  /\ made
  /\ out' = IF size = 0 THEN Null ELSE mem[data][size]
  /\ pushed' = Null
  /\ UNCHANGED <<made, allocator, data, capacity, size, mem, room>>

StackNext == Next \/ StackPop \/ Peek

StackSpec == Init /\ [][StackNext]_vars
=============================================================================
