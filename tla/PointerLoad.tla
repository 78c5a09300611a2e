---------------------------- MODULE PointerLoad ----------------------------
(***************************************************************************)
(* What packing and loading promise a user of the library, without the     *)
(* chain: pointers are written as offsets in any order; a load hands back  *)
(* memory in which each of them is an address, and changes nothing else.   *)
(***************************************************************************)
EXTENDS Naturals

CONSTANTS
  Positions,  \* the positions in a blob
  Base        \* the address the loaded blob's offsets are relative to

VARIABLES
  state,     \* "packing", "packed", "loading" or "loaded"
  pointers,  \* the offset of the pointer at each position, 0 for none
  memory,    \* the loaded words
  todo       \* the pointers this load has still to patch

vars == <<state, pointers, memory, todo>>

Init ==
  /\ state = "packing"
  /\ pointers = [p \in Positions |-> 0]
  /\ memory = [p \in Positions |-> 0]
  /\ todo = {}

WritePointer(p, o) ==
  /\ state = "packing"
  /\ pointers[p] = 0
  /\ pointers' = [pointers EXCEPT ![p] = o]
  /\ UNCHANGED <<state, memory, todo>>

FinishPacking ==
  /\ state = "packing"
  /\ state' = "packed"
  /\ UNCHANGED <<pointers, memory, todo>>

BeginLoad ==
  /\ state \in {"packed", "loaded"}
  /\ state' = "loading"
  /\ memory' = pointers
  /\ todo' = {p \in Positions : pointers[p] # 0}
  /\ UNCHANGED pointers

PatchPointer(p) ==
  /\ state = "loading"
  /\ p \in todo
  /\ memory' = [memory EXCEPT ![p] = Base + pointers[p]]
  /\ todo' = todo \ {p}
  /\ UNCHANGED <<state, pointers>>

EndLoad ==
  /\ state = "loading"
  /\ todo = {}
  /\ state' = "loaded"
  /\ UNCHANGED <<pointers, memory, todo>>

Loading == EndLoad \/ \E p \in Positions : PatchPointer(p)

Next ==
  \/ \E p, o \in Positions : WritePointer(p, o)
  \/ FinishPacking
  \/ BeginLoad
  \/ Loading

Spec == Init /\ [][Next]_vars /\ WF_vars(Loading)
=============================================================================
