----------------------------- MODULE MCTxtPack -----------------------------
(***************************************************************************)
(* Small instances for TxtPack: a document with two nodes of its own, and  *)
(* nodes in __subdata that refer to each other, themselves and the         *)
(* document.                                                               *)
(***************************************************************************)
EXTENDS TxtPack

V(t, v) == [t |-> t, v |-> v]
M(kind, of, atom, count, default) ==
  [kind |-> kind, of |-> of, atom |-> atom, count |-> count, default |-> default]
Entries(values) == [i \in DOMAIN values |-> [member |-> values[i][1], value |-> values[i][2]]]

(* struct Node { const char* name = 3;   Node* next = null; Doc* doc = null; }; *)
(* struct Doc  { Node* first; const char* tags[] = [1, 2] ;             *)
(*               Node pair[2]; int id = 7; Node* all[] = []; };            *)
MCMembers ==
  [Doc |-> <<M("ptr", "Node", "pod", 1, Invalid),
             M("str", "Doc", "array", 0, V("array", <<V("str", 1), V("str", 2)>>)),
             M("struct", "Node", "inline", 2, Invalid),
             M("data", "Doc", "pod", 1, V("data", 7)),
             M("ptr", "Node", "array", 0, V("array", <<>>))>>,
   Node |-> <<M("str", "Node", "pod", 1, V("str", 3)),
              M("ptr", "Node", "pod", 1, Null),
              M("ptr", "Doc", "pod", 1, Null)>>]
MCSize == [Doc |-> 6 + 4, Node |-> 3]

(* The names a and b have the same hash.                                   *)
MCHash == [x \in {"__root", "c", "a", "b", "d"} |->
             CASE x = "__root" -> 0 [] x = "c" -> 1 [] x \in {"a", "b"} -> 2 [] x = "d" -> 3]

RefOrNull(x) == IF x = "null" THEN Null ELSE V("ref", x)
Node(name, next, doc) ==
  V("struct", (IF name = 0 THEN <<>> ELSE Entries(<<<<1, V("str", name)>>>>))
              \o (IF doc THEN Entries(<<<<3, V("ref", "__root")>>>>) ELSE <<>>)
              \o (IF next = "" THEN <<>> ELSE Entries(<<<<2, RefOrNull(next)>>>>)))

Item(name, node) == [name |-> name, value |-> node.v]
Item2(next, doc) == Item("b", Node(7, next, doc))

MCSections ==
  {<<>>}
  \union {<<Item("a", Node(name, next, doc))>> :
            name \in {0, 6}, next \in {"", "a", "b"}, doc \in BOOLEAN}
  \union {<<Item("a", Node(6, next, FALSE)), Item2(other, TRUE)>> :
            next \in {"a", "b", "null"}, other \in {"", "a", "b"}}
  \union {<<Item2(other, FALSE), Item("a", Node(0, next, TRUE))>> :
            next \in {"a", "b"}, other \in {"a", "c"}}
  \union {<<Item("a", Node(0, "", FALSE)), Item(unused, Node(6, "", FALSE))>> :
            unused \in {"c", "d"}}

(* The members of the document in any order, or one missing or set twice.  *)
MCRoots ==
  {Entries(entries) :
     entries \in
       UNION {{<<m1, m2, m3>>, <<m2, m3, m1>>, <<m3, m1, m2>>, <<m3, m1>>,
               <<<<5, V("array", <<Null, V("ref", "b"), V("ref", "a")>>)>>, m3, m1, <<4, V("data", 8)>>>>,
               <<m1, m2>>, <<m1, m2, m1, m3>>} :
                m1 \in {<<1, V("ref", "a")>>, <<1, Null>>},
                m2 \in {<<2, V("array", tags)>> : tags \in {<<>>, <<Null, V("str", 4)>>}},
                m3 \in {<<3, V("array", pair)>> :
                          pair \in {<<>>, <<Node(0, "b", FALSE)>>,
                                    <<Node(5, "", TRUE), Node(0, "a", FALSE)>>,
                                    <<Node(5, "", TRUE), Node(0, "", FALSE), Node(5, "", FALSE)>>}}}}

MCTexts == [root : MCRoots, given : {TRUE}, section : MCSections]
           \union [root : MCRoots, given : {FALSE}, section : {<<>>}]

(* All names but that of the document are names of nodes.                  *)
Parts(entries) == {entries[i].value : i \in DOMAIN entries}
MCTyping(t) ==
  LET held == UNION {{v} \union (IF v.t = "array" THEN ToSet(v.v) ELSE {}) : v \in Parts(t.root)}
      nodes == {t.section[k].value : k \in DOMAIN t.section}
               \union {v.v : v \in {w \in held : w.t = "struct"}}
  IN [structs |-> {[type |-> "Doc", given |-> t.root]} \union [type : {"Node"}, given : nodes],
      values |-> held \union UNION {Parts(node) : node \in nodes},
      types |-> [x \in DOMAIN MCHash |-> IF x = "__root" THEN "Doc" ELSE "Node"]]

(* The theorems of TxtPackFilled are about such texts.                     *)
ASSUME MCRefsLast == Texts = MCTexts => RefsLast

(* struct Doc { Node* first; Node* three[3]; };                            *)
MCInlineMembers ==
  [Doc |-> <<M("data", "Doc", "pod", 1, V("data", 7)), M("ptr", "Node", "inline", 3, Invalid)>>,
   Node |-> <<M("str", "Node", "pod", 1, V("str", 3))>>]
MCInlineSize == [Doc |-> 4, Node |-> 1]
MCInlineTexts ==
  {[root |-> Entries(<<<<2, V("array", three)>>>> \o id),
    given |-> TRUE,
    section |-> <<Item("a", V("struct", <<>>)), Item("b", V("struct", <<>>))>>] :
     three \in UNION {[1..n -> {Null, V("ref", "a"), V("ref", "b")}] : n \in 0..3},
     id \in {<<>>, <<<<1, V("data", 8)>>>>}}
=============================================================================
