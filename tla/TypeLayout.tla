----------------------------- MODULE TypeLayout -----------------------------
(***************************************************************************)
(* The end of dl_context_load_txt_type_library: of every type that was     *)
(* read the places of the members are calculated, for both sizes of        *)
(* pointers, the types it holds before itself; then members whose type is  *)
(* an enum get the enum's storage, and types that refer to something are   *)
(* marked.  All sizes and places are pairs, for 32 and for 64 bits.        *)
(***************************************************************************)
EXTENDS Naturals, Sequences, SequencesExt, FiniteSetsExt

CONSTANTS
  Worlds  \* what may be loaded: [decls, libs, enums]; the libraries are
          \* sequences of the names of their types, in the order of the text

Bytes == [int8 |-> 1, int16 |-> 2, int32 |-> 4, int64 |-> 8]
Builtin(storage) ==
  IF storage \in {"str", "ptr"} THEN <<4, 8>> ELSE <<Bytes[storage], Bytes[storage]>>
AlignUp(n, a) == ((n + a - 1) \div a) * a
Aligned(size, align) == <<AlignUp(size[1], align[1]), AlignUp(size[2], align[2])>>
Plus(a, b) == <<a[1] + b[1], a[2] + b[2]>>
Times(n, a) == <<n * a[1], n * a[2]>>
Most(a, b) == <<Max({a[1], b[1]}), Max({a[2], b[2]})>>
None == <<0, 0>>

(* A type has members (the reader refuses one without), no name is given   *)
(* twice, none holds itself, no value that names a length is 0, and no     *)
(* bitfields that follow each other have more than the 64 bits the code    *)
(* asserts.                                                                *)
ASSUME WorldsAssumption ==
  \A w \in Worlds :
    /\ \A type \in DOMAIN w.decls : w.decls[type].members # <<>>
    /\ \A i \in DOMAIN w.libs : \A j \in DOMAIN w.aliases[i] : w.aliases[i][j].value > 0

VARIABLES
  world,    \* the declarations of the program
  lib,      \* the library that is loaded
  phase,    \* "read", "sizes", "fix", "flags", "done" or "refused"
  types,    \* of each type in the context: [size, align, subdata]
  members,  \* of each type in the context: its dl_member_descs
  turn,     \* how many types of the library are dealt with
  stack     \* the calls: [type, i, size, align, group]

vars == <<world, lib, phase, types, members, turn, stack>>

Decl(type) == world.decls[type]
Own == world.libs[lib]

(* The enums of the libraries that are loaded, and all their names.        *)
Enums == UNION {world.enums[i] : i \in 1..lib}
Aliases == FoldLeft(LAMBDA all, i : all \o world.aliases[i], <<>>, [i \in 1..lib |-> i])

(* dl_parse_type: a name that is not built in is taken for a struct.  The  *)
(* length of an inline array is a number, or 0 and the name of an enum's   *)
(* value that is looked up later.                                          *)
Parsed(m) ==
  [storage |-> IF m.atom = "bits" THEN "int8" ELSE m.kind,
   size |-> None, align |-> None, offset |-> None, count |-> m.count, bit |-> 0]

Init ==
  /\ world \in Worlds
  /\ lib = 1 /\ phase = "read" /\ turn = 0
  /\ types = <<>> /\ members = <<>> /\ stack = <<>>

-----------------------------------------------------------------------------

(* read_type: dl_alloc_type and dl_alloc_member.                           *)
ReadType ==
  /\ phase = "read" /\ turn < Len(Own)
  /\ LET type == Own[turn + 1]
         align == Decl(type).align
     IN /\ types' = types @@ (type :> [size |-> None, align |-> <<align, align>>, subdata |-> FALSE])
        /\ members' = members @@ (type :> [i \in DOMAIN Decl(type).members |-> Parsed(Decl(type).members[i])])
  /\ turn' = turn + 1
  /\ UNCHANGED <<world, lib, phase, stack>>

ReadDone ==
  /\ phase = "read" /\ turn = Len(Own)
  /\ phase' = "sizes" /\ turn' = 0
  /\ UNCHANGED <<world, lib, types, members, stack>>

-----------------------------------------------------------------------------

(* The bitfields that follow each other share a word that has room for all.*)
IsBits(type, i) == i \in DOMAIN Decl(type).members /\ Decl(type).members[i].atom = "bits"
GroupOf(type, i) ==
  {j \in DOMAIN Decl(type).members : \A k \in (IF j < i THEN j..i ELSE i..j) : IsBits(type, k)}
BitsOf(type, js) == FoldSet(LAMBDA j, n : n + Decl(type).members[j].count, 0, js)
WordFor(bits) == CASE bits <= 8  -> "int8"
                   [] bits <= 16 -> "int16"
                   [] bits <= 32 -> "int32"
                   [] OTHER      -> "int64"
FixedBits(type) ==
  [i \in DOMAIN members[type] |->
     IF ~IsBits(type, i) THEN members[type][i]
     ELSE LET group == GroupOf(type, i)
              storage == WordFor(BitsOf(type, group))
          IN [members[type][i] EXCEPT !.storage = storage, !.size = Builtin(storage), !.align = Builtin(storage),
                                      !.bit = BitsOf(type, {j \in group : j < i})]]

(* A call of dl_load_txt_calc_type_size_and_align, and what it does first. *)
Enter(type) ==
  /\ stack' = Append(stack, [type |-> type, i |-> 1, size |-> None, align |-> types[type].align, group |-> 0])
  /\ members' = [members EXCEPT ![type] = FixedBits(type)]

NextType ==
  /\ phase = "sizes" /\ stack = <<>> /\ turn < Len(Own)
  /\ IF types[Own[turn + 1]].size # None THEN UNCHANGED <<stack, members>> ELSE Enter(Own[turn + 1])
  /\ turn' = turn + 1
  /\ UNCHANGED <<world, lib, phase, types>>

Top == Last(stack)
Declared == Decl(Top.type).members[Top.i]
Placing(atoms) ==
  /\ phase = "sizes" /\ stack # <<>>
  /\ Top.i <= Len(Decl(Top.type).members) /\ Declared.atom \in atoms

(* The first name in the context that begins with the text.                *)
CountNamed(name) == SelectInSeq(Aliases, LAMBDA alias : IsPrefix(name, alias.name))
CountKnown(m) == m.atom = "inline" /\ m.count = 0 => CountNamed(m.by) # 0
CountFor(m) == IF m.atom = "inline" /\ m.count = 0 THEN Aliases[CountNamed(m.by)].value ELSE m.count

EnumOf(name) == {e \in Enums : e.name = name}
StorageOf(m) ==
  IF m.kind = "named" /\ EnumOf(m.of) # {} THEN (CHOOSE e \in EnumOf(m.of) : TRUE).storage ELSE m.kind

Step(frame) == stack' = [stack EXCEPT ![Len(stack)] = [frame EXCEPT !.i = @ + 1]]

(* The member is placed behind those before it, or over them in a union.   *)
Place(member, group) ==
  LET union == Decl(Top.type).union
      offset == IF union THEN None ELSE Aligned(Top.size, member.align)
  IN /\ members' = [members EXCEPT ![Top.type][Top.i] = [member EXCEPT !.offset = offset]]
     /\ Step([Top EXCEPT !.size = IF union THEN Most(@, member.size) ELSE Plus(offset, member.size),
                         !.align = Most(@, member.align), !.group = group])

NoSuchCount ==
  /\ Placing({"inline"}) /\ ~CountKnown(Declared)
  /\ phase' = "refused"
  /\ UNCHANGED <<world, lib, types, members, turn, stack>>

(* Mutant: a builtin member does not end the group of bitfields either.    *)
PlaceBuiltinGroupKept ==
  /\ Placing({"pod", "inline"}) /\ CountKnown(Declared) /\ StorageOf(Declared) # "named"
  /\ LET storage == StorageOf(Declared)
         count == CountFor(Declared)
     IN Place([members[Top.type][Top.i] EXCEPT
                 !.storage = storage, !.count = count, !.align = Builtin(storage),
                 !.size = IF Declared.atom = "pod" THEN Builtin(storage) ELSE Times(count, Builtin(storage))], Top.group)
  /\ UNCHANGED <<world, lib, phase, types, turn>>

PlaceBuiltin ==
  /\ Placing({"pod", "inline"}) /\ CountKnown(Declared) /\ StorageOf(Declared) # "named"
  /\ LET storage == StorageOf(Declared)
         count == CountFor(Declared)
     IN Place([members[Top.type][Top.i] EXCEPT
                 !.storage = storage, !.count = count, !.align = Builtin(storage),
                 !.size = IF Declared.atom = "pod" THEN Builtin(storage) ELSE Times(count, Builtin(storage))], 0)
  /\ UNCHANGED <<world, lib, phase, types, turn>>

HoldsStruct == /\ Placing({"pod", "inline"}) /\ CountKnown(Declared) /\ StorageOf(Declared) = "named"

(* It is refused later.                                                    *)
SkipUnknown ==
  /\ HoldsStruct /\ Declared.of \notin DOMAIN types
  /\ Step(Top)
  /\ UNCHANGED <<world, lib, phase, types, members, turn>>

SizeHeldType ==
  /\ HoldsStruct /\ Declared.of \in DOMAIN types /\ types[Declared.of].size = None
  /\ Enter(Declared.of)
  /\ UNCHANGED <<world, lib, phase, types, turn>>

(* Mutant: a type that is held is not laid out first.                      *)
PlaceStructUnsized ==
  /\ HoldsStruct /\ Declared.of \in DOMAIN types
  /\ LET held == types[Declared.of]
         count == CountFor(Declared)
     IN Place([members[Top.type][Top.i] EXCEPT
                 !.count = count, !.align = Most(held.align, <<1, 1>>),
                 !.size = IF Declared.atom = "pod" THEN held.size ELSE Times(count, held.size)], 0)
  /\ UNCHANGED <<world, lib, phase, types, turn>>

PlaceStruct ==
  /\ HoldsStruct /\ Declared.of \in DOMAIN types /\ types[Declared.of].size # None
  /\ LET held == types[Declared.of]
         count == CountFor(Declared)
     IN Place([members[Top.type][Top.i] EXCEPT
                 !.count = count, !.align = held.align,
                 !.size = IF Declared.atom = "pod" THEN held.size ELSE Times(count, held.size)], 0)
  /\ UNCHANGED <<world, lib, phase, types, turn>>

(* An array does not end the group of bitfields before it.                 *)
PlaceArray ==
  /\ Placing({"array"})
  /\ Place([members[Top.type][Top.i] EXCEPT !.storage = StorageOf(Declared), !.size = <<8, 16>>, !.align = <<4, 8>>],
           Top.group)
  /\ UNCHANGED <<world, lib, phase, types, turn>>

PlaceBits ==
  /\ Placing({"bits"})
  /\ LET member == members[Top.type][Top.i]
     IN IF Top.group = 0 THEN Place(member, Top.i)
        ELSE /\ members' = [members EXCEPT ![Top.type][Top.i].offset = members[Top.type][Top.group].offset]
             /\ Step(Top)
  /\ UNCHANGED <<world, lib, phase, types, turn>>

(* A union ends with the word that tells its member.                       *)
TypeSized ==
  /\ phase = "sizes" /\ stack # <<>> /\ Top.i > Len(Decl(Top.type).members)
  /\ LET whole == IF Decl(Top.type).union THEN Plus(Aligned(Top.size, Top.align), <<4, 4>>) ELSE Top.size
     IN types' = [types EXCEPT ![Top.type].size = Aligned(whole, Top.align), ![Top.type].align = Top.align]
  /\ stack' = Front(stack)
  /\ UNCHANGED <<world, lib, phase, members, turn>>

SizesDone ==
  /\ phase = "sizes" /\ stack = <<>> /\ turn = Len(Own)
  /\ phase' = "fix" /\ turn' = 0
  /\ UNCHANGED <<world, lib, types, members, stack>>

-----------------------------------------------------------------------------

OfLibrary == {<<Own[t], i>> : t \in DOMAIN Own, i \in 1..8}
OwnMembers == {p \in OfLibrary : p[2] \in DOMAIN Decl(p[1]).members}
Names(m) == m.kind \in {"named", "ptr"} /\ m.atom # "bits"
Found(m) == EnumOf(m.of) # {} \/ m.of \in DOMAIN types

FixMembers ==
  /\ phase = "fix"
  /\ \A p \in OwnMembers : LET m == Decl(p[1]).members[p[2]] IN Names(m) => Found(m)
  /\ members' = [type \in DOMAIN members |-> [i \in DOMAIN members[type] |->
                   LET m == Decl(type).members[i] IN
                   IF <<type, i>> \in OwnMembers /\ Names(m) /\ EnumOf(m.of) # {}
                   THEN [members[type][i] EXCEPT !.storage = (CHOOSE e \in EnumOf(m.of) : TRUE).storage]
                   ELSE members[type][i]]]
  /\ phase' = "flags"
  /\ UNCHANGED <<world, lib, types, turn, stack>>

UnknownType ==
  /\ phase = "fix"
  /\ \E p \in OwnMembers : LET m == Decl(p[1]).members[p[2]] IN Names(m) /\ ~Found(m)
  /\ phase' = "refused"
  /\ UNCHANGED <<world, lib, types, members, turn, stack>>

(* A type and the types it holds, not those it points to.                  *)
Holds(type) ==
  {Decl(type).members[i].of : i \in {j \in DOMAIN members[type] : members[type][j].storage = "named"}}
Within(type) ==
  LET held[n \in 0..Cardinality(DOMAIN types)] ==
        IF n = 0 THEN {type}
        ELSE LET before == held[n - 1] IN before \union UNION {Holds(t) : t \in before}
  IN held[Cardinality(DOMAIN types)]
(* Mutant: only the type's own members are looked at.                      *)
HasSubdataShallow(type) ==
  \E i \in 1..8 :
    /\ i \in DOMAIN members[type]
    /\ Decl(type).members[i].atom = "array" \/ members[type][i].storage \in {"str", "ptr"}

HasSubdata(type) ==
  \E t \in Within(type), i \in 1..8 :
    /\ i \in DOMAIN members[t]
    /\ Decl(t).members[i].atom = "array" \/ members[t][i].storage \in {"str", "ptr"}

SetFlags ==
  /\ phase = "flags" /\ turn < Len(Own)
  /\ types' = [types EXCEPT ![Own[turn + 1]].subdata = @ \/ HasSubdata(Own[turn + 1])]
  /\ turn' = turn + 1
  /\ UNCHANGED <<world, lib, phase, members, stack>>

LoadDone ==
  /\ phase = "flags" /\ turn = Len(Own)
  /\ turn' = 0
  /\ IF lib < Len(world.libs) THEN phase' = "read" /\ lib' = lib + 1
     ELSE phase' = "done" /\ UNCHANGED lib
  /\ UNCHANGED <<world, types, members, stack>>

Next ==
  \/ ReadType \/ ReadDone \/ NextType \/ NoSuchCount \/ PlaceBuiltin \/ SkipUnknown
  \/ SizeHeldType \/ PlaceStruct \/ PlaceArray \/ PlaceBits \/ TypeSized \/ SizesDone
  \/ FixMembers \/ UnknownType \/ SetFlags \/ LoadDone

Spec == Init /\ [][Next]_vars

-----------------------------------------------------------------------------

(* The state has the shape the code gives it: no type is laid out twice at *)
(* the same time, and no library has more types than were dealt with.      *)
TypeOK ==
  /\ phase \in {"read", "sizes", "fix", "flags", "done", "refused"}
  /\ lib \in DOMAIN world.libs /\ turn \in 0..Len(Own)
  /\ DOMAIN types = DOMAIN members /\ DOMAIN types \subseteq DOMAIN world.decls
  /\ \A f, g \in DOMAIN stack : stack[f].type = stack[g].type => f = g
  /\ \A f \in DOMAIN stack :
       /\ stack[f].type \in DOMAIN types
       /\ stack[f].i \in 1..(Len(Decl(stack[f].type).members) + 1)
       /\ stack[f].group \in 0..stack[f].i

LaidOut == phase \in {"flags", "done"}
MembersIn(type) == DOMAIN members[type]
End(type, i, ps) == members[type][i].offset[ps] + members[type][i].size[ps]
BitsEnd(type, i) == members[type][i].bit + members[type][i].count

(* dl_internal_union_type_offset: where loaders look for the word that     *)
(* tells which member a union has.                                         *)
TagOffset(type, ps) ==
  AlignUp(Max({members[type][i].size[ps] : i \in MembersIn(type)}),
          Max({members[type][i].align[ps] : i \in MembersIn(type)}))

(* In both layouts every member lies within its type and no two members    *)
(* have a bit in common (but those of a union, whose tag is behind all of  *)
(* them and within the type).  It takes two members that are placed by     *)
(* different rules to break this: dl_load_txt_calc_type_size_and_align     *)
(* remembers the first bitfield of a group while it places others.         *)
NoOverlap ==
  LaidOut =>
    \A type \in DOMAIN types, ps \in 1..2 :
      /\ \A i \in MembersIn(type) :
           /\ End(type, i, ps) <= types[type].size[ps]
           /\ IsBits(type, i) => BitsEnd(type, i) <= 8 * members[type][i].size[ps]
      /\ IF Decl(type).union
         THEN /\ \A i \in MembersIn(type) : members[type][i].offset = None /\ End(type, i, ps) <= TagOffset(type, ps)
              /\ TagOffset(type, ps) + 4 <= types[type].size[ps]
         ELSE \A i \in MembersIn(type) : \A j \in {k \in MembersIn(type) : k > i} :
                \/ End(type, i, ps) <= members[type][j].offset[ps]
                \/ /\ IsBits(type, i) /\ IsBits(type, j)
                   /\ members[type][i].offset = members[type][j].offset
                   /\ BitsEnd(type, i) <= members[type][j].bit

(* A layout is well formed, and so is what the load remembers on the way.  *)
WellFormed == TypeOK /\ NoOverlap

(* What a type's declaration alone says of its layout: the places follow   *)
(* from the members in order, bitfields that follow each other share a     *)
(* word, an enum is its storage, a named length is the value of that name. *)
DeclaredStorage(m) ==
  LET enums == {e \in UNION Range(world.enums) : m.kind = "named" /\ e.name = m.of}
  IN IF enums = {} THEN m.kind ELSE (CHOOSE e \in enums : TRUE).storage
DeclaredCount(m) ==
  IF m.count # 0 \/ m.atom # "inline" THEN m.count
  ELSE (CHOOSE a \in UNION {Range(world.aliases[l]) : l \in DOMAIN world.aliases} : a.name = m.by).value
DeclaredLayout ==
  LET layout[type \in DOMAIN world.decls] ==
        LET ms == Decl(type).members
            one(i) == CASE IsBits(type, i) -> LET word == Builtin(WordFor(BitsOf(type, GroupOf(type, i))))
                                              IN [size |-> word, align |-> word]
                        [] ms[i].atom = "array" -> [size |-> <<8, 16>>, align |-> <<4, 8>>]
                        [] DeclaredStorage(ms[i]) = "named" -> [size |-> layout[ms[i].of].size, align |-> layout[ms[i].of].align]
                        [] OTHER -> LET builtin == Builtin(DeclaredStorage(ms[i])) IN [size |-> builtin, align |-> builtin]
            size(i) == IF ms[i].atom = "inline" THEN Times(DeclaredCount(ms[i]), one(i).size) ELSE one(i).size
            shares(i) == i > 1 /\ IsBits(type, i) /\ IsBits(type, i - 1)
            end[i \in 0..Len(ms)] ==
              IF i = 0 THEN None
              ELSE LET before == end[i - 1]
                   IN IF shares(i) THEN before ELSE Plus(Aligned(before, one(i).align), size(i))
            offset(i) == IF Decl(type).union THEN None
                         ELSE Aligned(end[Min(GroupOf(type, i) \union {i}) - 1], one(i).align)
            align == <<Max({one(i).align[1] : i \in DOMAIN ms} \union {Decl(type).align}),
                       Max({one(i).align[2] : i \in DOMAIN ms} \union {Decl(type).align})>>
            most == <<Max({size(i)[1] : i \in DOMAIN ms}), Max({size(i)[2] : i \in DOMAIN ms})>>
            whole == IF Decl(type).union THEN Plus(Aligned(most, align), <<4, 4>>) ELSE end[Len(ms)]
        IN [size |-> Aligned(whole, align), align |-> align,
            places |-> [i \in DOMAIN ms |-> [offset |-> offset(i), size |-> size(i)]]]
  IN layout

(* The layout of a type is the one it declares, whatever was in the        *)
(* context before, in whatever order and in however many libraries the     *)
(* types it needs are: a blob packed by one program is read by another     *)
(* that loaded the same types in another order.                            *)
LaidOutAsDeclared ==
  phase = "done" =>
    LET declared == DeclaredLayout
    IN \A type \in DOMAIN types :
         /\ types[type].size = declared[type].size /\ types[type].align = declared[type].align
         /\ \A i \in MembersIn(type) :
              [offset |-> members[type][i].offset, size |-> members[type][i].size] = declared[type].places[i]

(* The places in an instance that refer to something by the declaration of *)
(* its type, those of the instances it holds with them: strings, arrays and*)
(* pointers, whatever has become of their members' storage.                *)
Referring(ps) ==
  LET refs[type \in DOMAIN types] ==
        UNION {LET m == members[type][i]
                   d == Decl(type).members[i]
                   declared == DeclaredStorage(d)
                   held == refs[d.of]
               IN IF d.atom = "array" THEN {m.offset[ps]}
                  ELSE IF declared = "named"
                  THEN {m.offset[ps] + k * types[d.of].size[ps] + r : k \in 0..(m.count - 1), r \in held}
                  ELSE IF declared \in {"str", "ptr"} THEN {m.offset[ps] + k * 4 * ps : k \in 0..(m.count - 1)}
                  ELSE {} : i \in MembersIn(type)}
  IN refs

(* A type is marked exactly if an instance of it has, by its declaration, a*)
(* place that refers to something, however deep: dl_patch_ptr.cpp, dl.cpp  *)
(* and dl_txt_unpack.cpp skip instances of types that are not marked, so   *)
(* that a missing mark leaves pointers unpatched.  And every such place is *)
(* aligned as a pointer is.                                                *)
ReferencesMarked ==
  phase = "done" =>
    \A ps \in 1..2 : LET refs == Referring(ps) IN
      \A type \in DOMAIN types :
        /\ types[type].subdata <=> refs[type] # {}
        /\ \A place \in refs[type] : place % (4 * ps) = 0 /\ place + 4 * ps <= types[type].size[ps]

=============================================================================
