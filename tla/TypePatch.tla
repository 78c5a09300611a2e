----------------------------- MODULE TypePatch -----------------------------
(***************************************************************************)
(* A blob of dl_instance_store that is too long for a chain of pointers    *)
(* is loaded: dl_internal_patch_instance walks the instance by its types,  *)
(* depth first, and turns every offset into an address where it stands.    *)
(* The structs that pointers lead to are remembered by their addresses, so *)
(* that a cycle ends and no offset is turned twice; a struct or an array   *)
(* inside of one is not.                                                   *)
(*                                                                         *)
(* The blob is the one that Store has made in buf.  Its addresses are what *)
(* its positions become when it lies Distance higher; a cell of the loaded *)
(* instance is the bare word, so that nothing tells an offset from an      *)
(* address.                                                                *)
(***************************************************************************)
EXTENDS Store

CONSTANTS
  HalfRange,  \* 1ULL << offset_shift: a blob that ends below it has a chain
  SizeRange,  \* 1ULL << 32: the values of instance_size
  Distance,   \* where the loaded blob is, which no position reaches
  Leftovers   \* words that may be where the instance is loaded to

ASSUME TypePatchAssumption ==
  /\ HalfRange \in Nat \ {0} /\ SizeRange \in Nat /\ HalfRange <= SizeRange
  /\ Distance \in Nat /\ LastCell < Distance
  /\ Leftovers \subseteq Nat /\ Leftovers # {}

VARIABLES
  load,   \* "none", "patch" or "loaded"
  mem,    \* the loaded instance, by the positions of the blob
  todo,   \* the members still to be patched, the next first: [member, at]
  known   \* patched: the addresses of the structs

loadVars == <<load, mem, todo, known>>
allVars == <<vars, loadVars>>

Word(p) == buf[p].v
Body == HeaderCells..(end - 1)

(* The members of a struct, or of the elements of an array, at address a.  *)
MembersAt(members, a) == [i \in 1..Len(members) |-> [member |-> members[i], at |-> a + i - 1]]

TypePatchInit ==
  /\ Init
  /\ load = "none"
  /\ mem = [p \in Positions |-> 0]
  /\ todo = <<>>
  /\ known = {}

(* Mutant: the root's address is not known from the start.                 *)
LoadToUnknown(words) ==
  /\ load = "none"
  /\ Written
  /\ end >= HalfRange
  /\ load' = "patch"
  /\ mem' = words
  /\ todo' = MembersAt(Members[Root], Distance + HeaderCells)
  /\ known' = {}
  /\ UNCHANGED vars

(***************************************************************************)
(* The blob without a chain goes to memory, and its root, whose address is *)
(* known from the start, is next.                                          *)
(***************************************************************************)
LoadTo(words) ==
  /\ load = "none"
  /\ Written
  /\ end >= HalfRange
  /\ load' = "patch"
  /\ mem' = words
  /\ todo' = MembersAt(Members[Root], Distance + HeaderCells)
  /\ known' = {Distance + HeaderCells}
  /\ UNCHANGED vars

LoadInPlace == LoadTo([p \in Positions |-> Word(p)])

(* dl_instance_load copies instance_size bytes, the size that the writer   *)
(* has cut to 32 bits; behind them is what was there.                      *)
Copied == HeaderCells + ((end - HeaderCells) % SizeRange)
Load ==
  \E left \in Leftovers :
    LoadTo([p \in Positions |-> IF p < Copied THEN Word(p) ELSE left])

-----------------------------------------------------------------------------

This == Head(todo)
Here == This.at - Distance

(* What a walk reads outside of the instance is left open.                 *)
PatchNext(kind) ==
  /\ load = "patch"
  /\ todo # <<>>
  /\ Here \in Body
  /\ This.member.kind = kind
  /\ UNCHANGED <<vars, load>>

(* dl_internal_patch_ptr: null stays null.                                 *)
Patched == IF mem[Here] = 0 THEN 0 ELSE mem[Here] + Distance
PatchHere == mem' = [mem EXCEPT ![Here] = Patched]

PatchData ==
  /\ PatchNext("data")
  /\ todo' = Tail(todo)
  /\ UNCHANGED <<mem, known>>

PatchString ==
  /\ PatchNext("str")
  /\ PatchHere
  /\ todo' = Tail(todo)
  /\ UNCHANGED known

(* Mutant: a struct is walked each time that a pointer leads to it.        *)
PatchPointerAgain ==
  /\ PatchNext("ptr")
  /\ PatchHere
  /\ todo' = (IF Patched = 0 THEN <<>> ELSE MembersAt(Members[This.member.of], Patched)) \o Tail(todo)
  /\ UNCHANGED known

(***************************************************************************)
(* The struct that the pointer leads to is walked before what follows the  *)
(* pointer, unless its address is known.                                   *)
(***************************************************************************)
PatchPointer ==
  /\ PatchNext("ptr")
  /\ PatchHere
  /\ \/ /\ Patched \in {0} \union known
        /\ todo' = Tail(todo)
        /\ UNCHANGED known
     \/ /\ Patched \notin {0} \union known
        /\ todo' = MembersAt(Members[This.member.of], Patched) \o Tail(todo)
        /\ known' = known \union {Patched}

(* Mutant: only the first element is patched.                              *)
PatchArrayFirst ==
  /\ PatchNext("array")
  /\ PatchHere
  /\ todo' = (IF Patched = 0 THEN <<>> ELSE MembersAt(Members[This.member.of], Patched)) \o Tail(todo)
  /\ UNCHANGED known

(* An array without elements has no address (count is 0 then).             *)
PatchArray ==
  /\ PatchNext("array")
  /\ PatchHere
  /\ LET elements == Repeat(Members[This.member.of], This.member.count)
     IN  todo' = (IF Patched = 0 THEN <<>> ELSE MembersAt(elements, Patched)) \o Tail(todo)
  /\ UNCHANGED known

PatchDone ==
  /\ load = "patch"
  /\ todo = <<>>
  /\ load' = "loaded"
  /\ UNCHANGED <<vars, mem, todo, known>>

Patch ==
  \/ PatchData
  \/ PatchString
  \/ PatchPointer
  \/ PatchArray
  \/ PatchDone

TypePatchNext ==
  \/ load = "none" /\ Next /\ UNCHANGED loadVars
  \/ LoadInPlace
  \/ Load
  \/ Patch

(* A store and a load are one call each.                                   *)
TypePatchSpec ==
  TypePatchInit /\ [][TypePatchNext]_allVars /\ WF_allVars(Patch)

-----------------------------------------------------------------------------

(***************************************************************************)
(* Walking by type gives the instance: every word that the store has       *)
(* recorded as a pointer has been turned into an address, once, through    *)
(* shared structs and cycles, and nothing else was changed or read.        *)
(***************************************************************************)
LoadsByType ==
  /\ load = "patch" /\ todo # <<>> => Here \in Body
  /\ load = "loaded" =>
       \A p \in Body : mem[p] = IF p \in ToSet(ptrs) THEN Word(p) + Distance ELSE Word(p)

(***************************************************************************)
(* It is another way of doing what following the chain does: storing and   *)
(* loading by type implement PointerLoad, one offset a step, and a load    *)
(* that has begun ends with all of them turned.                            *)
(***************************************************************************)
PointerWords == {p \in Positions : p \in ToSet(ptrs)}
Unpatched == {p \in PointerWords : mem[p] = Word(p)}

Promise == INSTANCE PointerLoad WITH
  Base <- Distance,
  state <- CASE load = "none"  -> IF phase = "store" THEN "packing" ELSE "packed"
             [] load = "patch" -> "loading"
             [] OTHER          -> load,
  pointers <- [p \in Positions |-> IF p \in PointerWords THEN Word(p) ELSE 0],
  memory <- [p \in Positions |->
               IF load # "none" /\ p \in PointerWords THEN mem[p] ELSE 0],
  todo <- IF load = "patch" THEN Unpatched ELSE {}

KeepsPromise == Promise!Spec
=============================================================================
