---------------------------- MODULE MCTypePatch ----------------------------
(***************************************************************************)
(* The lists of MCStore, whose pointers lead to the items of the array, to *)
(* one apart from it and back, and pairs of a struct and of its first      *)
(* member, which have one address.                                         *)
(***************************************************************************)
EXTENDS TypePatch, TLC

M(kind, of, count) == [kind |-> kind, of |-> of, count |-> count]
Addr(a) == IF a = 0 THEN Zero ELSE Cell("addr", a)

(* struct Item { const char* name; Item* other; };                         *)
(* struct Whole { Item part; Whole* next; };                               *)
(* struct List { int count; Item items[]; Whole* whole; Item* best;        *)
(*               List* self; };                                            *)
MCMembers ==
  [List |-> <<M("data", "List", 1), M("array", "Item", 2), M("ptr", "Whole", 1),
              M("ptr", "Item", 1), M("ptr", "List", 1)>>,
   Item |-> <<M("str", "Item", 1), M("ptr", "Item", 1)>>,
   Whole |-> <<M("str", "Item", 1), M("ptr", "Item", 1), M("ptr", "Whole", 1)>>]

(* The list at 1, its items at 6 and 8, a Whole at 10, whose part is there *)
(* too, an item at 13, a string at 15.                                     *)
MCMemories ==
  {<<Cell("data", 7), Addr(items), Addr(whole), Addr(best), Addr(1),
     Addr(15), Addr(8), Zero, Addr(13), Addr(15), Addr(other), Addr(next),
     Zero, Addr(other3), Cell("chars", 1)>> :
     items \in {0, 6}, whole \in {0, 10}, best \in {0, 8, 10, 13}, other \in {10, 13},
     next \in {0, 10}, other3 \in {0, 6}}

MCDistance == 100
=============================================================================
