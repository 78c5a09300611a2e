------------------------------ MODULE TxtUnpack ------------------------------
(***************************************************************************)
(* dl_txt_unpack_loaded: a loaded instance is written as text.  A struct   *)
(* is a map of its members; a pointer is a name made of the address it     *)
(* holds; at the end of the instance the section __subdata has a struct    *)
(* for every name.  dl_txt_pack (TxtPack) reads such a text.               *)
(*                                                                         *)
(* A cell is the room of a word; a string or an array member is one cell.  *)
(* Addresses count from the instance.  The text is a tree: a value has a   *)
(* tag t and what it is, v; maps and lists are sequences of [key, value],  *)
(* whose keys are numbers of members, of elements, or names of pointees.   *)
(***************************************************************************)
EXTENDS Naturals, Sequences, SequencesExt, FiniteSetsExt

CONSTANTS
  Members,   \* of each type: the sequence of [kind, of, atom, count]
  Unions,    \* the types that are unions
  Root,      \* the type of the instance
  Instances, \* the loaded instances: of each address [t, v, n]
  Nested     \* how deep types hold types

ASSUME TxtUnpackAssumption ==
  /\ Root \in DOMAIN Members /\ Unions \subseteq DOMAIN Members
  /\ \A type \in DOMAIN Members : Members[type] # <<>>

Kinds == {"data", "str", "ptr", "struct"}
Pod(kind, of) == [kind |-> kind, of |-> of, atom |-> "pod", count |-> 1]

(* Of each type its size and the places of its members, in cells; a union  *)
(* ends with the number of the member it has.                              *)
Sizes ==
  LET size[d \in 0..Nested] ==
        [type \in DOMAIN Members |->
           LET held(m) == IF m.atom = "array" THEN 1 ELSE m.count * (IF m.kind # "struct" THEN 1
                          ELSE IF d = 0 THEN 0 ELSE LET inner == size[d - 1] IN inner[m.of])
           IN IF type \in Unions THEN 1 + Max({held(Members[type][i]) : i \in DOMAIN Members[type]})
              ELSE FoldLeft(LAMBDA n, m : n + held(m), 0, Members[type])]
  IN size[Nested]
ElementSize(m) == IF m.kind = "struct" THEN Sizes[m.of] ELSE 1
MemberSize(m) == IF m.atom = "array" THEN 1 ELSE m.count * ElementSize(m)
Offset(type, i) ==
  IF type \in Unions THEN 0 ELSE FoldLeft(LAMBDA n, m : n + MemberSize(m), 0, SubSeq(Members[type], 1, i - 1))

(* DL_TYPE_FLAG_HAS_SUBDATA, see TypeLayout.                               *)
HasSubdata ==
  LET has[d \in 0..Nested] ==
        [type \in DOMAIN Members |->
           \E i \in DOMAIN Members[type] :
             LET m == Members[type][i]
             IN \/ m.atom = "array" \/ m.kind \in {"str", "ptr"}
                \/ m.kind = "struct" /\ d > 0 /\ (LET inner == has[d - 1] IN inner[m.of])]
  IN has[Nested]

VARIABLES
  mem,      \* the loaded instance
  phase,    \* "write" or "done"
  todo,     \* what is to be written next: [do, m, at, key]
  open,     \* the maps and lists that are begun: [t, v], outermost first
  known,    \* unpack_ctx.ptrs: addresses whose struct is in the text
  hasPtrs,  \* unpack_ctx.has_ptrs
  text      \* what is written when the outermost struct is closed

vars == <<mem, phase, todo, open, known, hasPtrs, text>>

Do(what, m, at, key) == [do |-> what, m |-> m, at |-> at, key |-> key]
Value(t, v) == [t |-> t, v |-> v]
Nothing == Value("none", <<>>)

Task == Head(todo)
Taking(what) == phase = "write" /\ todo # <<>> /\ Task.do = what
Cell == mem[Task.at]

(* The members of a struct that are dealt with: of a union the one it has. *)
Present(type, at) ==
  IF type \in Unions THEN <<mem[at + Sizes[type] - 1].v>> ELSE [i \in DOMAIN Members[type] |-> i]
MemberTasks(what, type, at) ==
  LET present == Present(type, at)
  IN [j \in DOMAIN present |-> Do(what, Members[type][present[j]], at + Offset(type, present[j]), present[j])]

(* The elements of an array, each a member of its own.                     *)
Count == IF Task.m.atom = "array" THEN Cell.n ELSE Task.m.count
First == IF Task.m.atom = "array" THEN Cell.v ELSE Task.at
ElementTasks(what) ==
  [j \in 1..Count |-> Do(what, Pod(Task.m.kind, Task.m.of), First + (j - 1) * ElementSize(Task.m), j)]

Put(key, value) ==
  IF open = <<>> THEN /\ text' = value /\ UNCHANGED open
  ELSE open' = [open EXCEPT ![Len(open)].v = Append(@, [key |-> key, value |-> value])] /\ UNCHANGED text
Begin(t) == open' = Append(open, Value(t, <<>>))

Init ==
  /\ mem \in Instances
  /\ phase = "write"
  /\ todo = <<Do("write", Pod("struct", Root), 0, 0)>>
  /\ open = <<>> /\ known = <<0>> /\ hasPtrs = FALSE
  /\ text = Nothing

-----------------------------------------------------------------------------

(* Numbers, strings and pointers, as members or elements.                  *)
WriteWord ==
  /\ Taking("write") /\ Task.m.atom = "pod" /\ Task.m.kind \in {"data", "str"}
  /\ Put(Task.key, Value(Cell.t, Cell.v))
  /\ todo' = Tail(todo)
  /\ UNCHANGED <<mem, phase, known, hasPtrs>>

WritePtr ==
  /\ Taking("write") /\ Task.m.atom = "pod" /\ Task.m.kind = "ptr"
  /\ Put(Task.key, IF Cell.t = "null" THEN Value("null", 0) ELSE Value("ref", Cell.v))
  /\ hasPtrs' = TRUE
  /\ todo' = Tail(todo)
  /\ UNCHANGED <<mem, phase, known>>

WriteStruct ==
  /\ Taking("write") /\ Task.m.atom = "pod" /\ Task.m.kind = "struct"
  /\ Begin("struct")
  /\ todo' = MemberTasks("write", Task.m.of, Task.at) \o <<[Task EXCEPT !.do = "end"]>> \o Tail(todo)
  /\ UNCHANGED <<mem, phase, known, hasPtrs, text>>

WriteArray ==
  /\ Taking("write") /\ Task.m.atom # "pod"
  /\ Begin("array")
  /\ todo' = ElementTasks("write") \o <<[Task EXCEPT !.do = "close"]>> \o Tail(todo)
  /\ UNCHANGED <<mem, phase, known, hasPtrs, text>>

(* Whoever is at the address of the instance gets the section.             *)
GetsSection == Task.at = 0 /\ hasPtrs
StructEnd ==
  /\ Taking("end") /\ ~GetsSection
  /\ todo' = <<[Task EXCEPT !.do = "close"]>> \o Tail(todo)
  /\ UNCHANGED <<mem, phase, open, known, hasPtrs, text>>

WriteSubdata ==
  /\ Taking("end") /\ GetsSection
  /\ Begin("section")
  /\ todo' = MemberTasks("walk", Task.m.of, Task.at)
             \o <<Do("close", Task.m, Task.at, 0), [Task EXCEPT !.do = "close"]>> \o Tail(todo)
  /\ UNCHANGED <<mem, phase, known, hasPtrs, text>>

Close ==
  /\ Taking("close")
  /\ IF Len(open) = 1 THEN text' = Last(open) /\ open' = <<>>
     ELSE LET rest == Front(open)
          IN /\ open' = [rest EXCEPT ![Len(rest)].v = Append(@, [key |-> Task.key, value |-> Last(open)])]
             /\ UNCHANGED text
  /\ todo' = Tail(todo)
  /\ UNCHANGED <<mem, phase, known, hasPtrs>>

-----------------------------------------------------------------------------

(* What a pointer in the struct refers to is written, if it is not yet,    *)
(* and then what the pointers in that refer to.                            *)
Fresh == Cell.t # "null" /\ Cell.v \notin Range(known)
(* Mutant: what the pointee refers to is written before the pointee.       *)
WalkPointeeLast ==
  /\ Taking("walk") /\ Task.m.atom = "pod" /\ Task.m.kind = "ptr" /\ Fresh
  /\ known' = Append(known, Cell.v)
  /\ todo' = <<Do("walk", Pod("struct", Task.m.of), Cell.v, 0),
               Do("write", Pod("struct", Task.m.of), Cell.v, Cell.v)>> \o Tail(todo)
  /\ UNCHANGED <<mem, phase, open, hasPtrs, text>>

WalkPointee ==
  /\ Taking("walk") /\ Task.m.atom = "pod" /\ Task.m.kind = "ptr" /\ Fresh
  /\ known' = Append(known, Cell.v)
  /\ todo' = <<Do("write", Pod("struct", Task.m.of), Cell.v, Cell.v),
               Do("walk", Pod("struct", Task.m.of), Cell.v, 0)>> \o Tail(todo)
  /\ UNCHANGED <<mem, phase, open, hasPtrs, text>>

(* Mutant: the loop over the pointers stays at one that is known.          *)
WalkKnownAgain ==
  /\ Taking("walk") /\ Task.m.atom = "pod" /\ Task.m.kind = "ptr" /\ ~Fresh
  /\ UNCHANGED vars

WalkKnown ==
  /\ Taking("walk") /\ Task.m.atom = "pod" /\ Task.m.kind = "ptr" /\ ~Fresh
  /\ todo' = Tail(todo)
  /\ UNCHANGED <<mem, phase, open, known, hasPtrs, text>>

(* Mutant: only pointers are followed, not what structs hold.              *)
FollowsPointers(m) == m.kind = "ptr"

(* Structs that cannot refer to anything are passed over, all else that is *)
(* no struct and no pointer too.                                           *)
Follows(m) == m.kind = "ptr" \/ (m.kind = "struct" /\ HasSubdata[m.of])
WalkStruct ==
  /\ Taking("walk") /\ Task.m.atom = "pod" /\ Task.m.kind = "struct" /\ Follows(Task.m)
  /\ todo' = MemberTasks("walk", Task.m.of, Task.at) \o Tail(todo)
  /\ UNCHANGED <<mem, phase, open, known, hasPtrs, text>>

WalkArray ==
  /\ Taking("walk") /\ Task.m.atom # "pod" /\ Follows(Task.m)
  /\ todo' = ElementTasks("walk") \o Tail(todo)
  /\ UNCHANGED <<mem, phase, open, known, hasPtrs, text>>

WalkNothing ==
  /\ Taking("walk") /\ ~Follows(Task.m)
  /\ todo' = Tail(todo)
  /\ UNCHANGED <<mem, phase, open, known, hasPtrs, text>>

Unpacked ==
  /\ phase = "write" /\ todo = <<>>
  /\ phase' = "done"
  /\ UNCHANGED <<mem, todo, open, known, hasPtrs, text>>

Next ==
  \/ WriteWord \/ WritePtr \/ WriteStruct \/ WriteArray \/ StructEnd \/ WriteSubdata \/ Close
  \/ WalkPointee \/ WalkKnown \/ WalkStruct \/ WalkArray \/ WalkNothing \/ Unpacked

(* To unpack is one call on one thread.                                    *)
Spec == Init /\ [][Next]_vars /\ WF_vars(Next)

-----------------------------------------------------------------------------

(* Only places of the instance are visited, no address is known twice, and *)
(* every begun map or list has a task that closes it.                      *)
TypeOK ==
  /\ phase \in {"write", "done"} /\ hasPtrs \in BOOLEAN
  /\ \A i \in DOMAIN todo : todo[i].at \in DOMAIN mem /\ todo[i].m.kind \in Kinds
  /\ \A i, j \in DOMAIN known : known[i] = known[j] => i = j
  /\ Len(open) = Len(SelectSeq(todo, LAMBDA task : task.do \in {"end", "close"}))

(***************************************************************************)
(* What dl_txt_pack makes of a text.  Entries with key 0 in a struct are   *)
(* sections; Says: the value of a member is what is at an address; Names:  *)
(* the names a value refers to, with the types it takes them for.          *)
(***************************************************************************)
OwnEntries(value) == SelectSeq(value.v, LAMBDA entry : entry.key # 0)

RECURSIVE Says(_, _, _)
Says(value, m, at) ==
  CASE m.atom # "pod" ->
         LET first == IF m.atom = "array" THEN mem[at].v ELSE at
             count == IF m.atom = "array" THEN mem[at].n ELSE m.count
         IN /\ value.t = "array" /\ Len(value.v) = count
            /\ \A j \in 1..count : Says(value.v[j].value, Pod(m.kind, m.of), first + (j - 1) * ElementSize(m))
    [] m.kind = "struct" ->
         LET entries == OwnEntries(value)
             present == Present(m.of, at)
         IN /\ value.t = "struct" /\ [j \in DOMAIN entries |-> entries[j].key] = present
            /\ \A j \in DOMAIN present :
                 Says(entries[j].value, Members[m.of][present[j]], at + Offset(m.of, present[j]))
    [] m.kind = "ptr" -> value = IF mem[at].t = "null" THEN Value("null", 0) ELSE Value("ref", mem[at].v)
    [] OTHER -> value = Value(mem[at].t, mem[at].v)

RECURSIVE Names(_, _)
Names(value, m) ==
  CASE value.t = "array" -> UNION {Names(entry.value, Pod(m.kind, m.of)) : entry \in Range(value.v)}
    [] value.t = "struct" ->
         UNION {Names(entry.value, Members[m.of][entry.key]) : entry \in Range(OwnEntries(value))}
    [] value.t = "ref" -> {[name |-> value.v, type |-> m.of]}
    [] OTHER -> {}

RECURSIVE Sections(_)
Sections(value) ==
  IF value.t \notin {"struct", "array", "section"} THEN <<>>
  ELSE (IF value.t = "section" THEN <<value.v>> ELSE <<>>)
       \o FlattenSeq([j \in DOMAIN value.v |-> Sections(value.v[j].value)])

Items == IF Sections(text) = <<>> THEN <<>> ELSE Sections(text)[1]

(* Item k is taken for what the names before it take it for: those of the  *)
(* instance and of the items before it.                                    *)
NamesBefore ==
  LET names[k \in 0..Len(Items)] ==
        IF k = 0 THEN Names(text, Pod("struct", Root))
        ELSE LET before == names[k - 1]
             IN before \union UNION {Names(Items[k].value, Pod("struct", n.type)) :
                                       n \in {b \in before : b.name = Items[k].key}}
  IN names

(* The text is the instance: read from the root, and on at the item that   *)
(* has the name when it comes to a name, it gives every word the instance  *)
(* has there, whatever cycles its pointers make.  That takes that no       *)
(* pointee is left out because its struct has no subdata flag, because it  *)
(* was taken for known, or because nothing that was walked refers to it,   *)
(* and at every step that only the instance is walked, and nothing twice.  *)
TextMeansInstance ==
  /\ TypeOK
  /\ phase = "done" =>
    /\ Says(text, Pod("struct", Root), 0)
    /\ LET names == NamesBefore
       IN \A n \in names[Len(Items)] :
            IF n.name = 0 THEN n.type = Root
            ELSE \E k \in DOMAIN Items : Items[k].key = n.name /\ Says(Items[k].value, Pod("struct", n.type), n.name)

(* dl_txt_pack takes the text: there is one section at most, and one if    *)
(* there is a name ("set twice", "no __subdata-member"); an item is named  *)
(* before it comes, all who name it take it for the same type, and no two  *)
(* items have the same name.                                               *)
TextPacks ==
  phase = "done" =>
    /\ Len(Sections(text)) <= 1
    /\ Names(text, Pod("struct", Root)) # {} => Sections(text) # <<>>
    /\ LET names == NamesBefore
       IN /\ \A k \in DOMAIN Items : \E n \in names[k - 1] : n.name = Items[k].key
          /\ \A n, o \in names[Len(Items)] : n.name = o.name => n.type = o.type
    /\ \A k, l \in DOMAIN Items : Items[k].key = Items[l].key => k = l

(* Pointers that lead back to where they came from do not keep the call    *)
(* from returning.                                                         *)
UnpackEnds == <>(phase = "done")
=============================================================================
