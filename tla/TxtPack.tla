------------------------------- MODULE TxtPack -------------------------------
(***************************************************************************)
(* dl_txt_pack: an instance, written as text, is packed to a blob.  The    *)
(* members come in the order of the text, what they do not give comes from *)
(* their default values.  A pointer is the name of an item of __subdata:   *)
(* it is noted (packctx.subdata), the items are packed behind the instance *)
(* in the order of the text, and then all names are replaced by positions. *)
(* The position of every offset goes to packctx.ptrs, of which PtrChain    *)
(* makes the chain.                                                        *)
(*                                                                         *)
(* As in Store a cell is the room of a word, a string or an array member   *)
(* is one cell.  The text is what the scanner makes of it: a struct is the *)
(* sequence of the members it gives, a value has a tag t and what it is, v.*)
(***************************************************************************)
EXTENDS Naturals, Sequences, SequencesExt, FiniteSetsExt

CONSTANTS
  Members,      \* of each type: the sequence of [kind, of, atom, count, default]
  Size,         \* of each type, in cells
  Root,         \* the type of the instance
  Texts,        \* the texts: [root, given, section]: is a section given?
  Hash,         \* of each name
  Typing(_),    \* of each text: what its values are taken for, see WellTyped
  HeaderCells,  \* sizeof(dl_data_header)
  LastCell      \* the bound: the last position of a blob

Invalid == [t |-> "invalid", v |-> 0]
Null == [t |-> "null", v |-> 0]

ElementSize(m) == IF m.kind = "struct" THEN Size[m.of] ELSE 1
MemberSize(m) == CASE m.atom = "pod"    -> ElementSize(m)
                   [] m.atom = "inline" -> m.count * ElementSize(m)
                   [] m.atom = "array"  -> 1
SizeOf(members) == FoldLeft(LAMBDA sum, m : sum + MemberSize(m), 0, members)
Offset(type, i) == SizeOf(SubSeq(Members[type], 1, i - 1))

Defaults == UNION {{Members[type][i].default : i \in DOMAIN Members[type]} : type \in DOMAIN Members}
MemberDescs ==
  [kind : {"data", "str", "ptr", "struct"}, of : DOMAIN Members,
   atom : {"pod", "inline", "array"}, count : Nat, default : Defaults]

(* A default value is a word, a string or an array of these.               *)
Words == {"data", "null", "str"}
DefaultFits(m) ==
  \/ m.default.t = "invalid"
  \/ /\ m.kind # "struct"
     /\ IF m.atom = "pod" THEN m.default.t \in Words
        ELSE /\ m.default.t = "array" /\ m.default.v \in Seq(ToSet(m.default.v))
             /\ m.atom = "inline" => Len(m.default.v) <= m.count
             /\ \A i \in DOMAIN m.default.v : m.default.v[i].t \in Words

(* A struct that fills up an inline array has default values: there the    *)
(* code does not look whether it has.                                      *)
ASSUME TxtPackAssumption ==
  /\ HeaderCells \in Nat \ {0} /\ LastCell \in Nat
  /\ Root \in DOMAIN Members
  /\ Size \in [DOMAIN Members -> Nat \ {0}]
  /\ HeaderCells + Size[Root] <= LastCell + 1
  /\ \A type \in DOMAIN Members :
       /\ Members[type] \in Seq(MemberDescs)
       /\ Size[type] = SizeOf(Members[type])
       /\ \A i \in DOMAIN Members[type] :
            LET m == Members[type][i]
            IN /\ DefaultFits(m)
               /\ m.atom = "inline" /\ m.kind = "struct" =>
                    \A j \in DOMAIN Members[m.of] : Members[m.of][j].default.t # "invalid"

(***************************************************************************)
(* The scanner reads a value as the type of its member asks, whatever else *)
(* it finds is invalid.  The values of a text, its structs, each with the  *)
(* type it is read as, and the types the names stand for are its typing.   *)
(***************************************************************************)
Suits(value, m, typing) ==
  CASE value.t \in Words    -> m.kind # "struct"
    [] value.t = "ref"      -> m.kind = "ptr" /\ value.v \in DOMAIN typing.types
                                 /\ typing.types[value.v] = m.of
    [] value.t = "struct"   -> m.kind = "struct" /\ [type |-> m.of, given |-> value.v] \in typing.structs
    [] OTHER                -> value.t = "invalid"

Fits(value, m, typing) ==
  IF m.atom = "pod" THEN Suits(value, m, typing)
  ELSE \/ value.t = "invalid"
       \/ /\ value.t = "array" /\ value.v \in Seq(typing.values)
          /\ \A i \in DOMAIN value.v : Suits(value.v[i], m, typing)

WellTyped(t, typing) ==
  /\ [type |-> Root, given |-> t.root] \in typing.structs
  /\ \A s \in typing.structs :
       /\ s.type \in DOMAIN Members
       /\ s.given \in Seq([member : DOMAIN Members[s.type], value : typing.values])
       /\ \A i \in DOMAIN s.given : Fits(s.given[i].value, Members[s.type][s.given[i].member], typing)
  /\ Len(t.section) \in Nat
  /\ \A k \in 1..Len(t.section) :
       LET name == t.section[k].name
       IN name \in DOMAIN typing.types =>
            [type |-> typing.types[name], given |-> t.section[k].value] \in typing.structs

ASSUME TextsAssumption == \A t \in Texts : WellTyped(t, Typing(t))

IsMember(m) == \E type \in DOMAIN Members : \E i \in DOMAIN Members[type] : m = Members[type][i]

(* A reference does not move the writer: what is packed behind it where    *)
(* the writer is goes to its place.  These are the texts in whose arrays   *)
(* only references follow a reference, and no zeros that fill them up.     *)
RefsLast ==
  \A t \in Texts : \A value \in Typing(t).values : \A type \in DOMAIN Members : \A i \in DOMAIN Members[type] :
    LET m == Members[type][i]
    IN value.t = "array" /\ Fits(value, m, Typing(t)) =>
         \A j \in DOMAIN value.v : value.v[j].t = "ref" =>
           /\ \A k \in DOMAIN value.v : j < k => value.v[k].t \in {"ref", "invalid"}
           /\ m.atom = "inline" => m.count <= Len(value.v)

Cell(tag, v) == [tag |-> tag, v |-> v, n |-> 0]
Off(o, n) == [tag |-> "off", v |-> o, n |-> n]
Zero == Cell("zero", 0)
Old == Cell("old", 0)
Positions == 0..LastCell

VARIABLES
  text,      \* txt_instance
  phase,     \* see Phases
  dummy,     \* writer.dummy: is only the size calculated?
  buf,       \* out_buffer
  pos, end,  \* writer.pos and needed_size
  todo,      \* what is to be packed next, see Task
  refs,      \* packctx.subdata
  ptrs,      \* packctx.ptrs
  item,      \* how many items of the section are packed
  items,     \* subinstances
  resolved,  \* how many of refs are replaced
  needed     \* history: the calculated size, 0 if it was not calculated

writerVars == <<buf, pos, end>>
sectionVars == <<item, items, resolved>>
vars == <<text, phase, dummy, writerVars, todo, refs, ptrs, sectionVars, needed>>

(* In "undefined" an entry behind the end of packctx.subdata is used.      *)
Phases == {"pack", "packed", "refused", "undefined"}

-----------------------------------------------------------------------------

(***************************************************************************)
(* A task is a value to be packed as a member of kind m at a position.     *)
(* Members and structs are packed where they belong; the other elements of *)
(* an array where the writer is.                                           *)
(***************************************************************************)
MemberTask(type, at, i, value) ==
  [m |-> Members[type][i], at |-> at + Offset(type, i), seek |-> TRUE, value |-> value]

Missing == [t |-> "default", v |-> 0]
MissingTasks(type, at, given) ==
  FlattenSeq([i \in DOMAIN Members[type] |->
    IF i \in given THEN <<>> ELSE <<MemberTask(type, at, i, Missing)>>])

(* Mutant: a member that is set again is packed again.                     *)
StructTasksTwice(type, at, entries) ==
  [i \in DOMAIN entries |-> MemberTask(type, at, entries[i].member, entries[i].value)]
  \o MissingTasks(type, at, {entries[i].member : i \in DOMAIN entries})

(* The members in the order of the text, then what is missing.             *)
StructTasks(type, at, entries) ==
  LET Again(i) == \E j \in 1..(i - 1) : entries[j].member = entries[i].member
  IN [i \in DOMAIN entries |->
        MemberTask(type, at, entries[i].member,
                   IF Again(i) THEN Invalid ELSE entries[i].value)]
     \o MissingTasks(type, at, {entries[i].member : i \in DOMAIN entries})

ElementTask(m, at, i, value) ==
  [m |-> [m EXCEPT !.atom = "pod"], at |-> at + (i - 1) * ElementSize(m),
   seek |-> m.kind = "struct", value |-> value]
ElementTasks(m, at, values) == [i \in DOMAIN values |-> ElementTask(m, at, i, values[i])]

(* Mutant: the elements that the text does not give are left as they are.  *)
FillTasksNone(m, at, count) == <<>>

(* The elements that the text does not give are zeros, where the writer is,*)
(* or structs of default values.                                           *)
FillTasks(m, at, count) ==
  IF m.kind = "struct"
  THEN FlattenSeq([i \in 1..(m.count - count) |->
         StructTasks(m.of, at + (count + i - 1) * Size[m.of], <<>>)])
  ELSE [i \in 1..(m.count - count) |-> ElementTask(m, at, count + i, Null)]

Task == Head(todo)
Value == Task.value
Pos == IF Task.seek THEN Task.at ELSE pos
Packing(tags) == phase = "pack" /\ todo # <<>> /\ Value.t \in tags

Write(cells) ==
  buf' = IF dummy THEN buf
         ELSE [p \in Positions |-> IF p \in DOMAIN cells THEN cells[p] ELSE buf[p]]
Record(positions) == ptrs' = IF dummy THEN ptrs ELSE ptrs \o positions
Room(n) == n <= LastCell + 1

(* dl_binary_writer_reserve at the end of the blob.                        *)
Reserve(n) == end' = end + n

(* Mutant: when the size is calculated what is behind a default value is   *)
(* not counted.                                                            *)
DefaultEndCalculated(more) == IF dummy THEN end ELSE end + more

DefaultEnd(more) == end + more

(* Mutant: a reference is resolved where the writer is.                    *)
RefPlaceHere == Pos

RefPlace == Task.at

(* Mutant: the same item is read again.                                    *)
NextItemAgain == item

NextItem == item + 1

At(p, cells) == [q \in p..(p + Len(cells) - 1) |-> cells[q - p + 1]]
Both(a, b) == [p \in DOMAIN a \union DOMAIN b |-> IF p \in DOMAIN a THEN a[p] ELSE b[p]]

-----------------------------------------------------------------------------

(* The buffer holds whatever the caller left there; the header is cleared. *)
Cleared == [p \in Positions |-> IF p < HeaderCells THEN Zero ELSE Old]

Begin ==
  /\ todo' = StructTasks(Root, HeaderCells, text.root)
  /\ pos' = HeaderCells
  /\ end' = HeaderCells + Size[Root]
  /\ refs' = <<>> /\ ptrs' = <<>>
  /\ item' = 0 /\ resolved' = 0
  /\ items' = <<[name |-> "__root", pos |-> HeaderCells]>>

Init ==
  /\ text \in Texts
  /\ phase = "pack"
  /\ dummy = TRUE
  /\ buf = Cleared
  /\ todo = StructTasks(Root, HeaderCells, text.root)
  /\ pos = HeaderCells
  /\ end = HeaderCells + Size[Root]
  /\ refs = <<>> /\ ptrs = <<>>
  /\ item = 0 /\ resolved = 0
  /\ items = <<[name |-> "__root", pos |-> HeaderCells]>>
  /\ needed = 0

PackWord ==
  /\ Packing({"data", "null"})
  /\ Write(At(Pos, <<IF Value.t = "null" THEN Zero ELSE Cell("data", Value.v)>>))
  /\ pos' = Pos + 1
  /\ end' = Max({end, Pos + 1})
  /\ todo' = Tail(todo)
  /\ UNCHANGED <<text, phase, dummy, refs, ptrs, sectionVars, needed>>

(* A string goes to the end of the blob, its offset to the member.         *)
PackString ==
  /\ Packing({"str"})
  /\ Room(end + 1)
  /\ Write(Both(At(Pos, <<Off(end, 0)>>), At(end, <<Cell("chars", Value.v)>>)))
  /\ Record(<<Pos>>)
  /\ pos' = Pos + 1
  /\ end' = end + 1
  /\ todo' = Tail(todo)
  /\ UNCHANGED <<text, phase, dummy, refs, sectionVars, needed>>

(* A reference is noted, nothing is written and the writer stays where it  *)
(* is.                                                                     *)
Refer ==
  /\ Packing({"ref"})
  /\ Record(<<RefPlace>>)
  /\ refs' = Append(refs, [name |-> Value.v, type |-> Task.m.of, at |-> RefPlace])
  /\ pos' = Pos
  /\ todo' = Tail(todo)
  /\ UNCHANGED <<text, phase, dummy, buf, end, sectionVars, needed>>

(* A struct in a struct or array has its room already.                     *)
PackStruct ==
  /\ Packing({"struct"})
  /\ pos' = Pos
  /\ todo' = StructTasks(Task.m.of, Pos, Value.v) \o Tail(todo)
  /\ UNCHANGED <<text, phase, dummy, buf, end, refs, ptrs, sectionVars, needed>>

(* dl_txt_pack_find_array_length counts the elements before they are read. *)
ArrayLength == Len(Value.v)

(* An array's elements get room at the end of the blob.                    *)
PackArray ==
  /\ Packing({"array"})
  /\ Task.m.atom = "array"
  /\ Room(end + ArrayLength * ElementSize(Task.m))
  /\ IF ArrayLength = 0
     THEN /\ Write(At(Pos, <<Zero>>)) /\ pos' = Pos + 1
          /\ UNCHANGED <<end, ptrs>>
     ELSE /\ Write(At(Pos, <<Off(end, ArrayLength)>>)) /\ pos' = end
          /\ Record(<<Pos>>)
          /\ Reserve(ArrayLength * ElementSize(Task.m))
  /\ todo' = ElementTasks(Task.m, end, Value.v) \o Tail(todo)
  /\ UNCHANGED <<text, phase, dummy, refs, sectionVars, needed>>

PackInlineArray ==
  /\ Packing({"array"})
  /\ Task.m.atom = "inline"
  /\ ArrayLength <= Task.m.count
  /\ pos' = Pos
  /\ todo' = ElementTasks(Task.m, Pos, Value.v)
             \o FillTasks(Task.m, Pos, ArrayLength) \o Tail(todo)
  /\ UNCHANGED <<text, phase, dummy, buf, end, refs, ptrs, sectionVars, needed>>

-----------------------------------------------------------------------------

(***************************************************************************)
(* A default value as dl_load_txt_build_default_data keeps it: the data of *)
(* a blob that has it as its only member.  It is a word, a string or an    *)
(* array of these.                                                         *)
(***************************************************************************)
DefaultElements(m) ==
  IF m.atom = "pod" THEN <<m.default>>
  ELSE m.default.v \o [i \in 1..(IF m.atom = "inline" THEN m.count - Len(m.default.v) ELSE 0) |-> Null]

Strings(elements) ==
  FlattenSeq([i \in DOMAIN elements |->
    IF elements[i].t = "str" THEN <<Cell("chars", elements[i].v)>> ELSE <<>>])

DefaultCells(m) ==
  LET elements == DefaultElements(m)
      behind == HeaderCells + (IF m.atom = "array" THEN 1 ELSE 0) + Len(elements)
      before == [i \in DOMAIN elements |-> Len(Strings(SubSeq(elements, 1, i - 1)))]
  IN (IF m.atom # "array" THEN <<>>
      ELSE IF elements = <<>> THEN <<Zero>> ELSE <<Off(HeaderCells + 1, Len(elements))>>)
     \o [i \in DOMAIN elements |->
           CASE elements[i].t = "null" -> Zero
             [] elements[i].t = "data" -> Cell("data", elements[i].v)
             [] elements[i].t = "str"  -> Off(behind + before[i], 0)]
     \o Strings(elements)

(* The member is a copy of the default value, what it refers to goes to    *)
(* the end of the blob, and the offsets are moved along.                   *)
PackDefault ==
  /\ Packing({"default"})
  /\ Task.m.default.t # "invalid"
  /\ \E cells \in {DefaultCells(Task.m)} :
     LET n == MemberSize(Task.m)
         more == Len(cells) - n
         Moved(c) == IF c.tag = "off" THEN [c EXCEPT !.v = @ + end - n - HeaderCells] ELSE c
         moved == [i \in DOMAIN cells |-> Moved(cells[i])]
         place == [i \in DOMAIN cells |-> IF i <= n THEN Pos + i - 1 ELSE end + i - n - 1]
     IN /\ Room(end + more)
        /\ Write(Both(At(Pos, SubSeq(moved, 1, n)), At(end, SubSeq(moved, n + 1, Len(moved)))))
        /\ Record(FlattenSeq([i \in DOMAIN cells |->
                               IF cells[i].tag = "off" THEN <<place[i]>> ELSE <<>>]))
        /\ pos' = IF more > 0 THEN end + more ELSE Pos + n
        /\ end' = DefaultEnd(more)
  /\ todo' = Tail(todo)
  /\ UNCHANGED <<text, phase, dummy, refs, sectionVars, needed>>

(* A member that is set twice, or is not set and has no default value, or  *)
(* an inline array with too many elements.                                 *)
Refuse ==
  /\ Packing({"invalid", "default", "array"})
  /\ CASE Value.t = "invalid" -> TRUE
       [] Value.t = "default" -> Task.m.default.t = "invalid"
       [] Value.t = "array"   -> Task.m.atom = "inline" /\ ArrayLength > Task.m.count
  /\ phase' = "refused"
  /\ UNCHANGED <<text, dummy, writerVars, todo, refs, ptrs, sectionVars, needed>>

-----------------------------------------------------------------------------

Finalizing == phase = "pack" /\ todo = <<>> /\ refs # <<>>
MoreItems == text.given /\ item < Len(text.section)
Entry == text.section[item + 1]

(* Mutant: names are taken for equal when their hashes are.                *)
SameHash(a, b) == Hash[a] = Hash[b]

SameName(a, b) == a = b
RefsTo(name) == {i \in DOMAIN refs : SameName(refs[i].name, name)}

(* Instances that are referred to without a section.                       *)
RefuseNoSection ==
  /\ Finalizing
  /\ ~text.given
  /\ phase' = "refused"
  /\ UNCHANGED <<text, dummy, writerVars, todo, refs, ptrs, sectionVars, needed>>

(* The next item is packed as what the first reference in the sorted table *)
(* takes it for; which of its references is the first, the sort decides.   *)
PackItem ==
  /\ Finalizing
  /\ MoreItems
  /\ \E i \in RefsTo(Entry.name) :
       /\ Room(end + Size[refs[i].type])
       /\ todo' = StructTasks(refs[i].type, end, Entry.value)
       /\ Reserve(Size[refs[i].type])
  /\ pos' = end
  /\ items' = Append(items, [name |-> Entry.name, pos |-> end])
  /\ item' = NextItem
  /\ UNCHANGED <<text, phase, dummy, buf, refs, ptrs, resolved, needed>>

(* Nothing so far refers to the item: the search ends at a name with a     *)
(* larger hash, or behind the end of the table.                            *)
UnusedItem ==
  /\ Finalizing
  /\ MoreItems
  /\ RefsTo(Entry.name) = {}
  /\ phase' = IF \E i \in DOMAIN refs : Hash[refs[i].name] > Hash[Entry.name]
              THEN "refused" ELSE "undefined"
  /\ UNCHANGED <<text, dummy, writerVars, todo, refs, ptrs, sectionVars, needed>>

(* A reference is replaced by the position of its item, or the text is     *)
(* refused as there is none.                                               *)
Resolve ==
  /\ Finalizing
  /\ text.given /\ ~MoreItems
  /\ resolved < Len(refs)
  /\ LET ref == refs[resolved + 1]
         found == {i \in DOMAIN items : SameName(items[i].name, ref.name)}
     IN IF found = {}
        THEN /\ phase' = "refused"
             /\ UNCHANGED <<buf, pos, resolved>>
        ELSE /\ \E i \in found : Write(At(ref.at, <<Off(items[i].pos, 0)>>))
             /\ pos' = ref.at + 1
             /\ resolved' = resolved + 1
             /\ UNCHANGED phase
  /\ UNCHANGED <<text, dummy, end, todo, refs, ptrs, item, items, needed>>

(* The section is not looked at when nothing refers to it.                 *)
PackDone ==
  /\ phase = "pack" /\ todo = <<>>
  /\ refs = <<>> \/ (text.given /\ ~MoreItems /\ resolved = Len(refs))
  /\ phase' = "packed"
  /\ UNCHANGED <<text, dummy, writerVars, todo, refs, ptrs, sectionVars, needed>>

PackStep ==
  \/ PackWord \/ PackString \/ Refer \/ PackStruct \/ PackArray \/ PackInlineArray
  \/ PackDefault \/ Refuse
  \/ RefuseNoSection \/ PackItem \/ UnusedItem \/ Resolve \/ PackDone

(* dl_txt_pack_calc_size, then dl_txt_pack with a buffer of that size.     *)
PackWithNeededSize ==
  /\ phase = "packed" /\ dummy
  /\ phase' = "pack"
  /\ dummy' = FALSE
  /\ needed' = end
  /\ Begin
  /\ UNCHANGED <<text, buf>>

Next == PackStep \/ PackWithNeededSize

(* To pack is one call of the program.                                     *)
Spec == Init /\ [][Next]_vars /\ WF_vars(PackStep)

-----------------------------------------------------------------------------

(* The writer is never behind the end of the blob, and what is remembered  *)
(* are places inside it.                                                   *)
TypeOK ==
  /\ phase \in Phases
  /\ dummy \in BOOLEAN
  /\ DOMAIN buf = Positions
  /\ pos <= end /\ end <= LastCell + 1
  /\ \A i \in DOMAIN refs : refs[i].at < end
  /\ \A i \in DOMAIN ptrs : ptrs[i] < end
  /\ \A i \in DOMAIN items : items[i].pos < end
  /\ item <= Len(items) /\ resolved <= Len(refs)

Packed == phase = "packed" /\ ~dummy

(***************************************************************************)
(* What a text means.  A struct of it is [type, text, at, item]: what it   *)
(* gives, where it is in the blob, and which item it belongs to, 0 for the *)
(* instance.  Its slots are the values its members and their elements      *)
(* have; one that the text does not give is a default value or zero.       *)
(***************************************************************************)
Given(s, i) == {j \in DOMAIN s.text : s.text[j].member = i}
ValueIn(s, i) == IF Given(s, i) = {} THEN Members[s.type][i].default
                 ELSE s.text[Min(Given(s, i))].value

Element(m, value, i) ==
  IF i <= Len(value.v) THEN value.v[i]
  ELSE IF m.kind = "struct" THEN [t |-> "struct", v |-> <<>>] ELSE Null

SlotsOfMember(s, i) ==
  LET m == Members[s.type][i]
      value == ValueIn(s, i)
      at == s.at + Offset(s.type, i)
      first == IF m.atom = "array" THEN buf[at].v ELSE at
      Slot(p, v) == [of |-> m.of, at |-> p, value |-> v, item |-> s.item]
  IN IF value.t # "array" THEN {Slot(at, value)}
     ELSE {Slot(first + (j - 1) * ElementSize(m), Element(m, value, j)) :
             j \in 1..(IF m.atom = "inline" THEN m.count ELSE Len(value.v))}

Slots(s) == UNION {SlotsOfMember(s, i) : i \in DOMAIN Members[s.type]}

ItemsNamed(name) == {k \in DOMAIN text.section : text.section[k].name = name}

Instance == [type |-> Root, text |-> text.root, at |-> HeaderCells, item |-> 0]

StructsIn(slot) ==
  CASE slot.value.t = "struct" ->
         {[type |-> slot.of, text |-> slot.value.v, at |-> slot.at, item |-> slot.item]}
    [] slot.value.t = "ref" ->
         {[type |-> slot.of, text |-> text.section[k].value, at |-> buf[slot.at].v, item |-> k] :
            k \in ItemsNamed(slot.value.v)}
         \union (IF slot.value.v = "__root" THEN {[Instance EXCEPT !.at = buf[slot.at].v]} ELSE {})
    [] OTHER -> {}

(* A step goes into the structs in a struct or to those it refers to.  No  *)
(* type of the runs has a struct in a struct in a struct.                  *)
Depth == 2 * (Len(text.section) + 1)
Structs ==
  LET within[n \in 0..Depth] ==
        IF n = 0 THEN {Instance}
        ELSE LET structs == within[n - 1]
             IN structs \union UNION {UNION {StructsIn(slot) : slot \in Slots(s)} : s \in structs}
  IN within[Depth]

HasValue(slot) ==
  LET c == buf[slot.at]
  IN CASE slot.value.t = "data" -> c = Cell("data", slot.value.v)
       [] slot.value.t = "null" -> c = Zero
       [] slot.value.t = "str"  -> c.tag = "off" /\ buf[c.v] = Cell("chars", slot.value.v)
       [] slot.value.t = "ref"  -> c.tag = "off"
       [] OTHER -> TRUE

HasArray(s, i) ==
  LET value == ValueIn(s, i)
      c == buf[s.at + Offset(s.type, i)]
  IN Members[s.type][i].atom = "array" =>
       c = IF value.v = <<>> THEN Zero ELSE Off(c.v, Len(value.v))

(***************************************************************************)
(* The blob is the text: every member and element has the value that the   *)
(* text or the type gives it, in whatever order, and two pointers lead to  *)
(* the same struct exactly when they have the same name.                   *)
(***************************************************************************)
TextKept ==
  Packed =>
    LET slots == UNION {Slots(s) : s \in Structs}
        named == {slot \in slots : slot.value.t = "ref"}
    IN /\ \A s \in Structs : \A i \in DOMAIN Members[s.type] : HasArray(s, i)
       /\ \A slot \in slots : HasValue(slot)
       /\ \A x, y \in named : buf[x.at].v = buf[y.at].v <=> x.value.v = y.value.v

(* Nothing of the blob is what the caller had in the buffer.               *)
NoHoles == Packed => \A p \in 0..(end - 1) : buf[p] # Old

(* A packed blob is well formed: what is remembered lies in it, and all of *)
(* it was written, whatever the text leaves to default values and zeros.   *)
WellFormed == TypeOK /\ NoHoles

(* The chain is made of ptrs: it has every offset of the blob once.        *)
PointersRecorded ==
  Packed => /\ IsInjective(ptrs)
            /\ ToSet(ptrs) = {p \in Positions : buf[p].tag = "off"}
            /\ \A p \in ToSet(ptrs) : buf[p].v \in HeaderCells..(end - 1)

(* The size that was calculated is the size it takes, and what could be    *)
(* calculated is not refused.                                              *)
NeededSizeFits == ~dummy => phase # "refused" /\ (phase = "packed" => end = needed)

(***************************************************************************)
(* The faults of a text: members that are set twice or missing, too many   *)
(* elements, names of nothing, and items to which neither the instance nor *)
(* an item before them refers.                                             *)
(***************************************************************************)
FaultyStruct(s) ==
  \E i \in DOMAIN Members[s.type] :
    LET m == Members[s.type][i]
    IN \/ Cardinality(Given(s, i)) > 1
       \/ ValueIn(s, i).t = "invalid"
       \/ m.atom = "inline" /\ ValueIn(s, i).t = "array" /\ Len(ValueIn(s, i).v) > m.count

Faulty ==
  LET slots == UNION {Slots(s) : s \in Structs}
      named == {slot \in slots : slot.value.t = "ref"}
  IN \/ \E s \in Structs : FaultyStruct(s)
     \/ \E slot \in named : slot.value.v # "__root" /\ ItemsNamed(slot.value.v) = {}
     \/ /\ named # {}
        /\ \/ ~text.given
           \/ \E k \in DOMAIN text.section :
                \A slot \in named : slot.item < k => slot.value.v # text.section[k].name

(***************************************************************************)
(* What the search for the references of an item misses: nothing refers to *)
(* the item, and no name referred to by then has a larger hash.            *)
(***************************************************************************)
Missed(k) ==
  LET named == {slot \in UNION {Slots(s) : s \in Structs} : slot.value.t = "ref" /\ slot.item < k}
      name == text.section[k].name
  IN \A slot \in named : slot.value.v # name /\ Hash[slot.value.v] <= Hash[name]

(***************************************************************************)
(* A text is packed only when it has no fault, refused only for a fault,   *)
(* and the entry behind the end of the table is used only for an item to   *)
(* which nothing refers and that the search misses.                        *)
(***************************************************************************)
RefusedForFaults ==
  /\ phase = "packed" => ~Faulty
  /\ phase = "refused" => Faulty
  /\ phase = "undefined" => \E k \in DOMAIN text.section : Missed(k)

(***************************************************************************)
(* An item that nothing refers to is an error of the text, "non-used       *)
(* subdata", and never an entry behind the end of the table.               *)
(***************************************************************************)
UnusedRefused == phase # "undefined"

(* Packing a text ends, whatever cycles its references have.               *)
PackEnds == phase = "pack" ~> phase # "pack"

(* What the text does not give of an inline array is zero.                 *)
MissingElementsZero ==
  Packed =>
    \A s \in Structs : \A i \in DOMAIN Members[s.type] :
      LET m == Members[s.type][i]
          missing == Len(ValueIn(s, i).v) + 1 .. m.count
      IN m.atom = "inline" /\ m.kind # "struct" =>
           \A j \in missing : buf[s.at + Offset(s.type, i) + j - 1] = Zero
=============================================================================
