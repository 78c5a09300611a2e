------------------------------ MODULE MCStore ------------------------------
(***************************************************************************)
(* Small instances for Store: structs that share strings, structs and      *)
(* arrays and refer to each other and themselves.                          *)
(***************************************************************************)
EXTENDS Store, TLC

M(kind, of, count) == [kind |-> kind, of |-> of, count |-> count]
Addr(a) == IF a = 0 THEN Zero ELSE Cell("addr", a)
Off(o) == Cell("off", o)
Chars(v) == Cell("chars", v)

(* struct Item { const char* name; Item* other; };                         *)
(* struct List { int count; Item items[]; Item* best; };                   *)
MCList ==
  [List |-> <<M("data", "List", 1), M("array", "Item", 2), M("ptr", "Item", 1)>>,
   Item |-> <<M("str", "Item", 1), M("ptr", "Item", 1)>>]

(* The list at 1, its items at 4 and 6, one more at 8, strings at 10 and   *)
(* 11, which may be equal; pointers may refer to the items of the array.   *)
MCLists ==
  {<<Cell("data", 7), Addr(4), Addr(best), Addr(name1), Addr(other1), Addr(10),
     Addr(other2), Addr(name3), Addr(other3), Chars(1), Chars(text)>> :
     best \in {0, 4, 8}, name1 \in {0, 10}, name3 \in {0, 10, 11}, text \in {1, 2},
     other1 \in {0, 4, 6, 8}, other2 \in {0, 4, 8}, other3 \in {0, 4, 8}}
  \union
  {<<Cell("data", 7), Zero, Addr(best), Zero, Zero, Zero, Zero,
     Addr(name3), Addr(other3), Chars(1), Chars(2)>> :
     best \in {0, 8}, name3 \in {0, 10}, other3 \in {0, 8}}

(* Those of them in which everything is referred to that has a value.      *)
MCReferredLists ==
  {m \in MCLists : /\ Addr(8) \in {m[3], m[5], m[7]} \/ (m[8] = Zero /\ m[9] = Zero)
                   /\ m[8] = Addr(11) \/ m[11] = Chars(2)}

(* struct Part { int x; }; struct Whole { Part part; int y; };             *)
(* struct Pair { Part* p; Whole* w; };  the Whole is at 3                  *)
MCPair ==
  [Pair |-> <<M("ptr", "Part", 1), M("ptr", "Whole", 1)>>,
   Part |-> <<M("data", "Part", 1)>>,
   Whole |-> <<M("data", "Part", 1), M("data", "Whole", 1)>>]
MCPairs ==
  {<<Addr(p), Addr(w), Cell("data", 1), Cell("data", 2)>> : p \in {0, 3}, w \in {0, 3}}

(* struct Text { const char* name; Text* next; const char* title; };        *)
MCText == [Text |-> <<M("str", "Text", 1), M("ptr", "Text", 1), M("str", "Text", 1)>>]

(* A Text and maybe a second one as dl_txt_pack packs them: the strings of *)
(* the first in the order of the text, then the second, which is in        *)
(* __subdata, and its string.  The pointer that is written first is the    *)
(* lowest, so that all are patched (see PtrChain).                         *)
MCTextBlobs ==
  {[p \in Positions |->
      LET n == IF titled THEN 6 ELSE 5
          first == <<Off(4), IF two THEN Off(n) ELSE Zero, IF titled THEN Off(5) ELSE Zero, Chars(1)>>
          second == <<IF named THEN Off(n + 3) ELSE Zero,
                      IF other = 0 THEN Zero ELSE Off(IF other = 1 THEN 1 ELSE n), Zero>>
          cells == first \o (IF titled THEN <<Chars(2)>> ELSE <<>>)
                         \o (IF two THEN second ELSE <<>>)
                         \o (IF two /\ named THEN <<Chars(3)>> ELSE <<>>)
      IN IF p \in DOMAIN cells THEN cells[p] ELSE Zero] :
     titled \in BOOLEAN, two \in BOOLEAN, named \in BOOLEAN, other \in 0..2}
MCNoMemory == {<<Zero>>}

(* The words that a store of memory m comes to, and what each of them is.  *)
(* That lists keep to one type per address is what StoreProofs assumes;    *)
(* a Part that is the first member of a Whole has the address of both.     *)
MCSlots(m) ==
  LET Further(slots) ==
        slots \union UNION {SlotsAt(m[s.at].v, ReferredMembers(s.member)) :
                              s \in {r \in slots : PointsTo(m, r, {"ptr", "array"})}}
      Within[n \in 0..LastCell] ==
        IF n = 0 THEN SlotsAt(Instance, Members[Root])
        ELSE LET slots == Within[n - 1] IN Further(slots)
  IN Within[LastCell]

ASSUME MCOneTypePerAddress ==
  Root # "Pair" => \A m \in Memories : OneType(m, MCSlots(m))
=============================================================================
