----------------------------- MODULE MCConvert -----------------------------
(***************************************************************************)
(* Small blobs for Convert, laid out for both sizes of pointers and both   *)
(* byte orders from the same pieces: the root, strings, arrays, pointees.  *)
(***************************************************************************)
EXTENDS Convert, TLC

M(kind, of, atom, count) == [kind |-> kind, of |-> of, atom |-> atom, count |-> count]
None == "none"

(* struct Item  { string name; Item* other; };                             *)
(* union  Choice { int64 big; Item* item; string text; };                  *)
(* struct Box   { Item inside; int32 n; };                                 *)
(* struct Set   { uint32 a : 3; uint32 b : 2; Item[] items; int64 stamp;   *)
(*                Box*[] refs; Choice choice; string[2] tags; int32[] nums; }; *)
(* struct Menu  { Choice[] choices; string name; };                        *)
Fields == <<[offset |-> 0, bits |-> 3], [offset |-> 3, bits |-> 2]>>
MCMembers ==
  [Item   |-> <<M("str", None, "pod", 1), M("ptr", "Item", "pod", 1)>>,
   Choice |-> <<M("int64", None, "pod", 1), M("ptr", "Item", "pod", 1), M("str", None, "pod", 1)>>,
   Box    |-> <<M("struct", "Item", "pod", 1), M("int32", None, "pod", 1)>>,
   Set    |-> <<M("bits", Fields, "pod", 1), M("struct", "Item", "array", 0), M("int64", None, "pod", 1),
                M("ptr", "Box", "array", 0), M("struct", "Choice", "pod", 1),
                M("str", None, "inline", 2), M("int32", None, "array", 0)>>,
   Menu   |-> <<M("struct", "Choice", "array", 0), M("str", None, "pod", 1)>>]
MCUnions == {"Choice"}
MCAligns == [Item |-> <<1, 2>>, Choice |-> <<2, 2>>, Box |-> <<1, 2>>, Set |-> <<2, 2>>, Menu |-> <<1, 2>>]
MCSizes == [Item |-> <<2, 4>>, Choice |-> <<4, 4>>, Box |-> <<3, 6>>, Set |-> <<16, 24>>, Menu |-> <<3, 6>>]

(* A piece is [name, m, v]; a reference is the name of a piece, an array   *)
(* <<name, count>>, the value of a union <<index, value>>.                 *)
Num(v, o) == IF v = 0 THEN Zero ELSE Cell("num", v, o)
RefCells(place, name, b) ==
  (IF place[name] = 0 THEN <<Zero>> ELSE <<Word(place[name], 0, b.order)>>)
  \o [i \in 1..(b.ps - 1) |-> IF place[name] = 0 THEN Zero ELSE Rest]
Padded(cells, n, pad) == cells \o [i \in 1..(n - Len(cells)) |-> pad]
BitCell(set, b) ==
  Bits(UNION {{BfOffset(b.order, f) + i : i \in {j \in 0..(f.bits - 1) : f.offset + j \in set}} :
               f \in Range(Fields)}, b.order)

RECURSIVE CellsOf(_, _, _, _), MemberCells(_, _, _, _, _)
CellsOf(m, v, place, b) ==
  CASE m.atom = "array" -> RefCells(place, v[1], b) \o <<Num(v[2], b.order)>> \o Zeros(b.ps - 1)
    [] m.atom = "inline" ->
         FoldLeft(LAMBDA cells, x : cells \o CellsOf(AsPod(m), x, place, b), <<>>, v)
    [] m.kind = "bits" -> <<BitCell(v, b)>>
    [] m.kind = "int32" -> <<Num(v, b.order)>>
    [] m.kind = "int64" -> <<Num(v, b.order), Rest>>
    [] m.kind \in {"str", "ptr"} -> RefCells(place, v, b)
    [] m.of \in Unions ->
         Padded(Padded(CellsOf(Members[m.of][v[1]], v[2], place, b), TagOffset(m.of, b.ps), Old)
                \o <<Cell("num", v[1], b.tagOrder)>>, Sizes[m.of][b.ps], Zero)
    [] OTHER -> Padded(MemberCells(m.of, v, Len(v), place, b), Sizes[m.of][b.ps], Zero)
MemberCells(type, v, n, place, b) ==
  IF n = 0 THEN <<>>
  ELSE Padded(MemberCells(type, v, n - 1, place, b), Offsets[type][b.ps][n], Zero)
       \o CellsOf(Members[type][n], v[n], place, b)

PieceCells(piece, place, b) ==
  IF piece.m.atom = "pod" /\ piece.m.kind = "str" THEN <<Cell("chars", piece.v, "any")>>
  ELSE IF piece.m.atom = "pod" THEN CellsOf(piece.m, piece.v, place, b)
  ELSE CellsOf([piece.m EXCEPT !.atom = "inline"], piece.v, place, b)

(* The pieces follow each other, each aligned as its type asks.            *)
Nowhere == [name \in {"none", "root", "items", "refs", "nums", "s1", "s2", "i1", "b1", "choices"} |-> 0]
Placed(pieces, at, b) ==
  FoldLeft(LAMBDA sofar, piece :
             LET start == AlignUp(HeaderCells + Len(sofar.cells), InstanceAlign(piece.m, b.ps)) - HeaderCells
             IN [cells |-> Padded(sofar.cells, start, Zero) \o PieceCells(piece, at, b),
                 place |-> [sofar.place EXCEPT ![piece.name] = HeaderCells + start]],
           [cells |-> <<>>, place |-> Nowhere], pieces)

(* The chain, if the blob is not too large for one.                        *)
Packed(pieces, b) ==
  LET cells == Placed(pieces, Placed(pieces, Nowhere, b).place, b).cells
      words == {i \in DOMAIN cells : cells[i].t = "word"}
      unchained == HeaderCells + Len(cells) >= HalfRange[b.ps]
      after(i) == {j \in words : j > i}
  IN [order |-> b.order, ps |-> b.ps, notUsing |-> unchained,
      first |-> IF unchained \/ words = {} THEN 0 ELSE HeaderCells + Min(words) - 1,
      cells |-> [i \in DOMAIN cells |->
                   IF i \in words /\ ~unchained /\ after(i) # {}
                   THEN [cells[i] EXCEPT !.d = Min(after(i)) - i] ELSE cells[i]]]

P(name, kind, of, atom, count, v) == [name |-> name, m |-> M(kind, of, atom, count), v |-> v]
S1 == P("s1", "str", None, "pod", 1, 1)
S2 == P("s2", "str", None, "pod", 1, 2)
I1(name, other) == P("i1", "struct", "Item", "pod", 1, <<name, other>>)
Items(n1, o1, n2, o2) == P("items", "struct", "Item", "array", 2, <<<<n1, o1>>, <<n2, o2>>>>)
B1(name, other, n) == P("b1", "struct", "Box", "pod", 1, <<<<name, other>>, n>>)
Refs(a, b) == P("refs", "ptr", "Box", "array", 2, <<a, b>>)
Nums == P("nums", "int32", None, "array", 1, <<7>>)
Set(items, refs, choice, tags, nums) ==
  P("root", "struct", "Set", "pod", 1, <<{0, 2, 3}, items, 5, refs, choice, tags, nums>>)

(* The item inside b1 is at the address of b1, and may be referred to too: *)
(* dl_instance_store knows the instances it has written by their address.  *)
ChoiceValues == {<<2, "i1">>, <<2, "b1">>, <<3, "s1">>}
Null == <<"none", 0>>
MCPieces ==
  {<<Set(<<"items", 2>>, <<"refs", 2>>, choice, <<"s1", "s2">>, Null),
     S1, S2, Items("s1", "i1", "s2", "none"), I1("s2", "i1"),
     B1("s1", "b1", 4), Refs("b1", "none")>> : choice \in ChoiceValues}
  \union
  {<<Set(<<"items", 2>>, Null, choice, <<"s1", "none">>, Null),
     Items("none", "none", "s1", "i1"), S1, I1("none", "none")>> : choice \in {<<3, "s1">>}}
  \union
  {<<Set(Null, Null, <<2, "i1">>, <<"none", "none">>, <<"nums", 1>>), Nums, I1("s1", "i1"), S1>>}
  \union
  {<<Set(Null, Null, <<1, 9>>, <<"none", "none">>, Null)>>}

Formats == [order : Orders, ps : PtrSizes, tagOrder : {"host"}]
Machines == [order : {"foreign"}, ps : {2}, tagOrder : {"foreign"}]
MCBlobs == {Packed(pieces, b) : pieces \in MCPieces, b \in Formats \union Machines}

(* Blobs of another machine with unions in an array.                       *)
Menu(choices, name) == P("root", "struct", "Menu", "pod", 1, <<choices, name>>)
Chosen(choice) == P("choices", "struct", "Choice", "array", 1, <<choice>>)
MCMenus == {Packed(<<Menu(<<"choices", 1>>, "s1"), Chosen(choice), S1, I1("s1", "none")>>, b) :
              choice \in ChoiceValues \ {<<2, "b1">>}, b \in Machines}
MCHalfRange == <<31, 1000>>
=============================================================================
