----------------------------- MODULE MCTxtUnpack -----------------------------
(***************************************************************************)
(* Small instances for TxtUnpack: a document that holds two nodes, refers  *)
(* to others and has a union; nodes that refer to each other, to           *)
(* themselves and to the document.                                         *)
(***************************************************************************)
EXTENDS TxtUnpack, TLC

CONSTANT
  NodeFirst  \* does the document begin with the nodes it holds?

M(kind, of, atom, count) == [kind |-> kind, of |-> of, atom |-> atom, count |-> count]
C(t, v) == [t |-> t, v |-> v, n |-> 0]
Null == C("null", 0)

(* struct Plain  { int32 n; };                                             *)
(* struct Leaf   { string name; Node* node; };                             *)
(* union  Choice { int32 n; Node* node; Leaf leaf; };                      *)
(* struct Node   { string name; Node* next; Doc* doc; Leaf leaves[]; };    *)
(* struct Doc    { int32 id; Node pair[2]; Node* all[]; Node* three[2];    *)
(*                 Choice choice; Plain plains[]; string tags[]; };        *)
DocMembers ==
  <<M("struct", "Node", "inline", 2), M("ptr", "Node", "array", 0), M("ptr", "Node", "inline", 2),
    M("struct", "Choice", "pod", 1), M("struct", "Plain", "array", 0), M("str", "none", "array", 0)>>
Id == <<M("data", "none", "pod", 1)>>
MCMembers ==
  [Plain  |-> <<M("data", "none", "pod", 1)>>,
   Leaf   |-> <<M("str", "none", "pod", 1), M("ptr", "Node", "pod", 1)>>,
   Choice |-> <<M("data", "none", "pod", 1), M("ptr", "Node", "pod", 1), M("struct", "Leaf", "pod", 1)>>,
   Node   |-> <<M("str", "none", "pod", 1), M("ptr", "Node", "pod", 1), M("ptr", "Doc", "pod", 1),
                M("struct", "Leaf", "array", 0)>>,
   Doc    |-> IF NodeFirst THEN DocMembers \o Id ELSE Id \o DocMembers]
MCUnions == {"Choice"}

(* The document has 17 cells, the nodes follow, then the arrays.           *)
N1 == 17  N2 == 21  All == 25  Leaves == 27  Plains == 31  Tags == 32
Null2 == <<Null, Null>>
At(a) == C("addr", a)
List(a, n) == IF n = 0 THEN Null ELSE [t |-> "addr", v |-> a, n |-> n]
Node(name, next, doc, leaves) == <<C("str", name), next, doc, List(Leaves, leaves)>>
ChoiceOf(i, node) == CASE i = 1 -> <<C("data", 5), Null>>
                       [] i = 2 -> <<node, Null>>
                       [] i = 3 -> <<C("str", 4), node>>

Instance(next, doc, all, three, i, n1, n2) ==
  LET held == Node(1, next, Null, 0) \o Node(2, Null, doc, 0)
             \o <<List(All, Len(all))>> \o three \o ChoiceOf(i, n1[2]) \o <<C("data", i)>>
             \o <<List(Plains, 1), List(Tags, 2)>>
      id == <<C("data", 9)>>
      cells == (IF NodeFirst THEN held \o id ELSE id \o held) \o n1 \o n2
               \o all \o [j \in 1..(2 - Len(all)) |-> Null]
               \o <<C("str", 6), At(N1), C("str", 7), Null>> \o <<C("data", 8), C("str", 3), Null>>
  IN [a \in 0..(Len(cells) - 1) |-> cells[a + 1]]

Nexts == {Null, At(N1), At(N2)}
MCInstances ==
  {Instance(next, doc, all, three, i, Node(3, next1, doc, 0), Node(4, next2, Null, leaves)) :
     next \in {Null, At(N1)}, doc \in {Null, At(0)}, all \in {<<>>, <<Null, At(N2)>>},
     three \in {Null2, <<At(N1), At(N2)>>}, i \in 1..3,
     next1 \in Nexts, next2 \in Nexts, leaves \in {0, 2}}
=============================================================================
