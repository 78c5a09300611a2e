------------------------------- MODULE Store -------------------------------
(***************************************************************************)
(* dl_instance_store: an instance, a graph of structs in memory, is        *)
(* written to a blob.  A struct is written member by member; what a member *)
(* refers to is placed at the end of the blob and written, recursively,    *)
(* before the offset is written to the member.  Pointees are placed once   *)
(* (written_ptrs) and so are equal strings (strings); the position of      *)
(* every offset goes to ptrs, of which PtrChain makes the chain.           *)
(*                                                                         *)
(* dl_txt_unpack loads a blob where it is, and stores the instance back    *)
(* over itself: then the memory that is read is the buffer that is         *)
(* written.                                                                *)
(*                                                                         *)
(* A cell is the room of a word; a string is one cell.  A struct inside a  *)
(* struct is the sequence of its members, a number or bitfield is "data",  *)
(* and an array has count elements, or none when its address is zero.      *)
(***************************************************************************)
EXTENDS Naturals, Sequences, SequencesExt

CONSTANTS
  Members,      \* of each type: the sequence of [kind, of, count]
  Root,         \* the type of the instance
  Instance,     \* its address
  Memories,     \* what the program's memory may hold
  TextBlobs,    \* blobs made by dl_txt_pack, to unpack; {} to store instead
  HeaderSize,   \* sizeof(dl_data_header)
  HeaderCells,  \* align_up(HeaderSize, alignment of the root)
  BufferSizes,  \* what out_buffer_size may be; 0 to calculate the size
  LastCell,     \* the bound: the last position of a blob
  StoreAgain    \* is the stored blob loaded in place and stored again?

Positions == 0..LastCell

(* Memory holds values and addresses, offsets are in blobs alone.          *)
MemoryCells == [tag : {"zero", "data", "chars", "addr"}, v : Nat]
Cells == [tag : {"zero", "data", "chars", "addr", "off"}, v : Nat]
Cell(tag, v) == [tag |-> tag, v |-> v]
Zero == Cell("zero", 0)

MemberDescs ==
  [kind : {"data", "str", "ptr", "array"}, of : DOMAIN Members, count : Nat \ {0}]

(* A type has members, and what is unpacked has a buffer it is in.         *)
ASSUME StoreAssumption ==
  /\ HeaderCells \in Nat \ {0} /\ LastCell \in Nat /\ HeaderCells <= LastCell
  /\ HeaderSize \in 1..HeaderCells
  /\ Instance \in Nat \ {0} /\ StoreAgain \in BOOLEAN
  /\ Root \in DOMAIN Members
  /\ \A type \in DOMAIN Members : Members[type] \in Seq(MemberDescs) /\ Members[type] # <<>>
  /\ \A m \in Memories : DOMAIN m \subseteq Nat /\ \A a \in DOMAIN m : m[a] \in MemoryCells
  /\ \A b \in TextBlobs : b \in [Positions -> Cells]
  /\ BufferSizes \subseteq Nat /\ (TextBlobs # {} => 0 \notin BufferSizes)

VARIABLES
  phase,    \* see Phases
  inPlace,  \* is the instance in the buffer?
  origin,   \* the memory of the instance when the store began
  buf,      \* out_buffer, and what would be written behind its end
  size,     \* out_buffer_size
  stack,    \* the calls of dl_internal_instance_store and _store_array
  end,      \* writer.needed_size
  written,  \* written_ptrs
  strings,  \* strings
  ptrs,     \* ptrs
  filled,   \* history: the positions written since the store began
  placed,   \* history: the structs and arrays that got a place since then
  blob,     \* history: the blob before it was loaded in place
  needed    \* history: the calculated size, 0 if it was not calculated

contextVars == <<end, written, strings, ptrs>>
history == <<blob, needed>>
vars == <<phase, inPlace, origin, buf, size, stack, contextVars, filled, placed, history>>

(* "too_small" is DL_ERROR_BUFFER_TOO_SMALL.                               *)
Phases == {"store", "stored", "too_small"}

Dummy == size = 0

(* The memory that the store reads.                                        *)
Read(a) == IF inPlace THEN buf[a] ELSE origin[a]
Readable(a) == a \in IF inPlace THEN Positions ELSE DOMAIN origin

(***************************************************************************)
(* A call: the members still to be stored, at, where they are read from    *)
(* and written to, and the local variable offset: 0 until what the current *)
(* member refers to has its place.                                         *)
(***************************************************************************)
Call(from, to, members) ==
  [from |-> from, to |-> to, members |-> members, at |-> 1, offset |-> 0]

Repeat(s, n) == [i \in 1..(n * Len(s)) |-> s[((i - 1) % Len(s)) + 1]]

Top == stack[Len(stack)]
Member == Top.members[Top.at]
Source == Top.from + Top.at - 1
Target == Top.to + Top.at - 1
Value == Read(Source)
Running ==
  phase = "store" /\ stack # <<>> /\ Top.at <= Len(Top.members) /\ Readable(Source)

(* What has a place in the blob: where it was, where it is, its members.   *)
Place(kind, from, to, members) ==
  [kind |-> kind, from |-> from, to |-> to, members |-> members]

WithOffset(o) == [stack EXCEPT ![Len(stack)].offset = o]
NextMember ==
  [stack EXCEPT ![Len(stack)] = [Call(Top.from, Top.to, Top.members) EXCEPT !.at = Top.at + 1]]

(* dl_binary_writer_write: behind the end of out_buffer nothing is kept.   *)
Write(p, c) ==
  /\ buf' = IF p < size THEN [buf EXCEPT ![p] = c] ELSE buf
  /\ filled' = filled \union {p}
Room(n) == end + n <= LastCell + 1

-----------------------------------------------------------------------------

NewContext == /\ stack' = <<>>
              /\ end' = HeaderCells
              /\ written' = <<>> /\ strings' = <<>> /\ ptrs' = <<>>
              /\ filled' = {} /\ placed' = {}

Init ==
  /\ phase = IF TextBlobs = {} THEN "store" ELSE "stored"
  /\ inPlace = FALSE
  /\ origin \in Memories
  /\ buf \in IF TextBlobs = {} THEN {[p \in Positions |-> Zero]} ELSE TextBlobs
  /\ size \in BufferSizes
  /\ stack = <<>>
  /\ end = HeaderCells
  /\ written = <<>> /\ strings = <<>> /\ ptrs = <<>>
  /\ filled = {} /\ placed = {}
  /\ blob = buf
  /\ needed = 0

(* A buffer without room for more than the header is refused; one that     *)
(* ends in the gap behind the header is not, before all is stored.         *)
RefuseBuffer ==
  /\ phase = "store"
  /\ stack = <<>>
  /\ ~Dummy /\ size <= HeaderSize
  /\ phase' = "too_small"
  /\ UNCHANGED <<inPlace, origin, buf, size, stack, contextVars, filled, placed, history>>

(* The instance gets its place behind the header.                          *)
StoreRoot ==
  /\ phase = "store"
  /\ stack = <<>>
  /\ Dummy \/ size > HeaderSize
  /\ Room(Len(Members[Root]))
  /\ LET address == IF inPlace THEN HeaderCells ELSE Instance
     IN /\ stack' = <<Call(address, HeaderCells, Members[Root])>>
        /\ written' = <<[ptr |-> address, pos |-> HeaderCells]>>
        /\ placed' = {Place("ptr", address, HeaderCells, Members[Root])}
  /\ end' = HeaderCells + Len(Members[Root])
  /\ UNCHANGED <<phase, inPlace, origin, buf, size, strings, ptrs, filled, history>>

(* Mutant: a null pointer's place is added to ptrs.                        *)
StoreValueRecorded ==
  /\ Running
  /\ Member.kind = "data" \/ (Value = Zero /\ Top.offset = 0)
  /\ Write(Target, Value)
  /\ ptrs' = IF Member.kind = "ptr" THEN Append(ptrs, Target) ELSE ptrs
  /\ stack' = NextMember
  /\ UNCHANGED <<phase, inPlace, origin, size, end, written, strings, placed, history>>

(* Data is copied; a null pointer, null string or empty array is a zero.   *)
StoreValue ==
  /\ Running
  /\ Member.kind = "data" \/ (Value = Zero /\ Top.offset = 0)
  /\ Write(Target, Value)
  /\ stack' = NextMember
  /\ UNCHANGED <<phase, inPlace, origin, size, contextVars, placed, history>>

(* The member refers to something.  What a store makes of a value that is  *)
(* no address, because it was overwritten, is left open.                   *)
Refers(kind) ==
  /\ Running
  /\ Member.kind = kind
  /\ Top.offset = 0
  /\ Value.tag = "addr"
  /\ Readable(Value.v)

(* Mutant: strings of the same hash and length are taken for the same.     *)
SameHash(s) == TRUE

(* GetStringOffset: the hash and length of then, the characters of now.    *)
SameString(s) == s.text = Read(Value.v) /\ Read(s.str) = Read(Value.v)
SameStrings == {i \in DOMAIN strings : SameString(strings[i])}

AppendString ==
  /\ Room(1)
  /\ Write(end, Read(Value.v))
  /\ end' = end + 1
  /\ strings' = Append(strings, [str |-> Value.v, text |-> Read(Value.v), offset |-> end])
  /\ stack' = WithOffset(end)

KnownString ==
  /\ \E i \in SameStrings :
       /\ \A j \in SameStrings : i <= j
       /\ stack' = WithOffset(strings[i].offset)
  /\ UNCHANGED <<end, strings, buf, filled>>

(* Mutants: equal strings are not merged; they are not when calculating.   *)
FindStringUnmerged ==
  /\ Refers("str")
  /\ AppendString
  /\ UNCHANGED <<phase, inPlace, origin, size, written, ptrs, placed, history>>

FindStringUncounted ==
  /\ Refers("str")
  /\ IF ~Dummy /\ SameStrings # {}
     THEN KnownString
     ELSE AppendString
  /\ UNCHANGED <<phase, inPlace, origin, size, written, ptrs, placed, history>>

FindString ==
  /\ Refers("str")
  /\ IF SameStrings # {}
     THEN KnownString
     ELSE AppendString
  /\ UNCHANGED <<phase, inPlace, origin, size, written, ptrs, placed, history>>

(* FindWrittenPtr compares the address and nothing else.                   *)
WrittenAt == {i \in DOMAIN written : written[i].ptr = Value.v}
FindPointee ==
  /\ Refers("ptr")
  /\ \E i \in WrittenAt : /\ \A j \in WrittenAt : i <= j
                          /\ stack' = WithOffset(written[i].pos)
  /\ UNCHANGED <<phase, inPlace, origin, size, buf, contextVars, filled, placed, history>>

(* Mutant: the pointee is not known before it is written.                  *)
StorePointeeUnknown ==
  /\ Refers("ptr")
  /\ WrittenAt = {}
  /\ Room(Len(Members[Member.of]))
  /\ end' = end + Len(Members[Member.of])
  /\ stack' = Append(stack, Call(Value.v, end, Members[Member.of]))
  /\ placed' = placed \union {Place("ptr", Value.v, end, Members[Member.of])}
  /\ UNCHANGED <<phase, inPlace, origin, size, buf, written, strings, ptrs, filled, history>>

(* The pointee gets its place and is known before it is written: a cycle   *)
(* ends here.                                                              *)
StorePointee ==
  /\ Refers("ptr")
  /\ WrittenAt = {}
  /\ LET members == Members[Member.of]
     IN /\ Room(Len(members))
        /\ end' = end + Len(members)
        /\ written' = Append(written, [ptr |-> Value.v, pos |-> end])
        /\ placed' = placed \union {Place("ptr", Value.v, end, members)}
        /\ stack' = Append(stack, Call(Value.v, end, members))
  /\ UNCHANGED <<phase, inPlace, origin, size, buf, strings, ptrs, filled, history>>

(* Mutant: a cell too many is reserved.                                    *)
StoreArrayPadded ==
  /\ Refers("array")
  /\ LET members == Repeat(Members[Member.of], Member.count)
     IN /\ Room(Len(members))
        /\ end' = end + Len(members) + 1
        /\ placed' = placed \union {Place("array", Value.v, end, members)}
        /\ stack' = Append(stack, Call(Value.v, end, members))
  /\ UNCHANGED <<phase, inPlace, origin, size, buf, written, strings, ptrs, filled, history>>


(* An array is placed for every member that refers to it.                  *)
StoreArray ==
  /\ Refers("array")
  /\ LET members == Repeat(Members[Member.of], Member.count)
     IN /\ Room(Len(members))
        /\ end' = end + Len(members)
        /\ placed' = placed \union {Place("array", Value.v, end, members)}
        /\ stack' = Append(stack, Call(Value.v, end, members))
  /\ UNCHANGED <<phase, inPlace, origin, size, buf, written, strings, ptrs, filled, history>>

(* A call returns and its caller has the offset.                           *)
Return ==
  /\ phase = "store"
  /\ Len(stack) > 1
  /\ Top.at > Len(Top.members)
  /\ stack' = [Front(stack) EXCEPT ![Len(stack) - 1].offset = Top.to]
  /\ UNCHANGED <<phase, inPlace, origin, size, buf, contextVars, filled, placed, history>>

StoreOffset ==
  /\ Running
  /\ Top.offset # 0
  /\ ptrs' = IF Dummy THEN ptrs ELSE Append(ptrs, Target)
  /\ Write(Target, Cell("off", Top.offset))
  /\ stack' = NextMember
  /\ UNCHANGED <<phase, inPlace, origin, size, end, written, strings, placed, history>>

(* The linking loop rewrites the words of ptrs (see PtrChain for what it   *)
(* makes of them).  The size is returned in any case.                      *)
StoreDone ==
  /\ phase = "store"
  /\ Len(stack) = 1
  /\ Top.at > Len(Top.members)
  /\ phase' = IF ~Dummy /\ end > size THEN "too_small" ELSE "stored"
  /\ stack' = <<>>
  /\ UNCHANGED <<inPlace, origin, buf, size, contextVars, filled, placed, history>>

-----------------------------------------------------------------------------

(* The calculated size is used: dl_instance_calc_size, then                *)
(* dl_instance_store with a buffer of that size.                           *)
StoreWithNeededSize ==
  /\ phase = "stored"
  /\ Dummy
  /\ phase' = "store"
  /\ size' = end
  /\ needed' = end
  /\ NewContext
  /\ UNCHANGED <<inPlace, origin, buf, blob>>

(* Mutant: the buffer is cleared although the instance is in it.           *)
StoreInPlaceCleared ==
  /\ StoreAgain
  /\ phase = "stored"
  /\ ~Dummy /\ ~inPlace
  /\ phase' = "store"
  /\ inPlace' = TRUE
  /\ buf' = [p \in Positions |-> Zero]
  /\ origin' = buf'
  /\ blob' = buf
  /\ NewContext
  /\ UNCHANGED <<size, needed>>

(* dl_txt_unpack: dl_instance_load_inplace turns the offsets of the blob   *)
(* into addresses, here positions, and dl_instance_store is called with    *)
(* the instance and the buffer it is in.  Only the header is cleared.      *)
StoreInPlace ==
  /\ StoreAgain
  /\ phase = "stored"
  /\ ~Dummy /\ ~inPlace
  /\ phase' = "store"
  /\ inPlace' = TRUE
  /\ buf' = [p \in Positions |-> IF buf[p].tag = "off" THEN Cell("addr", buf[p].v) ELSE buf[p]]
  /\ origin' = buf'
  /\ blob' = buf
  /\ NewContext
  /\ UNCHANGED <<size, needed>>

StoreStep ==
  \/ RefuseBuffer
  \/ StoreRoot
  \/ StoreValue
  \/ FindString
  \/ FindPointee
  \/ StorePointee
  \/ StoreArray
  \/ StoreOffset
  \/ Return
  \/ StoreDone

Next == StoreStep \/ StoreWithNeededSize \/ StoreInPlace

(* A store is one call of the program.                                     *)
Spec == Init /\ [][Next]_vars /\ WF_vars(StoreStep)

-----------------------------------------------------------------------------

(* Every place that a store remembers is a place of the blob.              *)
Calls == [from : Nat, to : Positions, members : Seq(MemberDescs),
          at : Nat \ {0}, offset : Positions]
TypeOK ==
  /\ phase \in Phases
  /\ inPlace \in BOOLEAN
  /\ ~inPlace => origin \in Memories
  /\ size \in Nat
  /\ buf \in [Positions -> Cells]
  /\ stack \in Seq(Calls)
  /\ \A i \in DOMAIN stack : stack[i].at <= Len(stack[i].members) + 1
  /\ end \in HeaderCells..(LastCell + 1)
  /\ written \in Seq([ptr : Nat, pos : Positions])
  /\ strings \in Seq([str : Nat, text : Cells, offset : Positions])
  /\ ptrs \in Seq(Positions)
  /\ filled \subseteq Positions

(***************************************************************************)
(* The instance and its blob walked in step: the pairs of a struct or      *)
(* array of the one and where it is in the other.                          *)
(***************************************************************************)
ReferredMembers(m) ==
  IF m.kind = "ptr" THEN Members[m.of] ELSE Repeat(Members[m.of], m.count)
Referred(t) ==
  {Place(t.members[i].kind, origin[t.from + i - 1].v, buf[t.to + i - 1].v,
         ReferredMembers(t.members[i]))
   : i \in {j \in 1..Len(t.members) :
              /\ t.members[j].kind \in {"ptr", "array"}
              /\ origin[t.from + j - 1].tag = "addr"
              /\ buf[t.to + j - 1].tag = "off"}}

InstancePlace ==
  Place("ptr", IF inPlace THEN HeaderCells ELSE Instance, HeaderCells, Members[Root])

WithReferred(pairs) == pairs \union UNION {Referred(t) : t \in pairs}
PairsWithin[n \in Nat] ==
  IF n = 0 THEN {InstancePlace} ELSE WithReferred(PairsWithin[n - 1])
Pairs == PairsWithin[LastCell]

SameValue(m, c, d) ==
  IF m.kind = "data" \/ c = Zero THEN d = c
  ELSE d.tag = "off" /\ (m.kind = "str" => buf[d.v] = origin[c.v])

Written == phase = "stored" /\ filled # {} /\ ~Dummy

(***************************************************************************)
(* A stored instance is the instance: what is loaded from the blob has the *)
(* same values, strings and elements, and two pointers lead to the same    *)
(* struct of it exactly when they did in the program's memory, through     *)
(* shared structs and cycles.                                              *)
(***************************************************************************)
InstanceKept ==
  Written =>
    /\ \A t \in Pairs : \A i \in 1..Len(t.members) :
         SameValue(t.members[i], origin[t.from + i - 1], buf[t.to + i - 1])
    /\ \A t, u \in {t \in Pairs : t.kind = "ptr"} : t.from = u.from <=> t.to = u.to

(* Everything the writer made room for was written.                        *)
NoHoles == Written => filled = HeaderCells..(end - 1)

(* The blob of a store is well formed: places that are remembered are in   *)
(* it, and it has no holes, which would hold what was in the buffer before,*)
(* however deep the writes are nested whose room was reserved before.      *)
WellFormed == TypeOK /\ NoHoles

(* Equal strings share one place, and the blob has one offset per place of *)
(* ptrs: the chain names no word twice.                                    *)
SharedStrings ==
  Written => /\ \A i, j \in DOMAIN strings :
                  buf[strings[i].offset] = buf[strings[j].offset] => i = j
             /\ IsInjective(ptrs)
             /\ ToSet(ptrs) = {p \in Positions : buf[p].tag = "off"}

(* A blob made by dl_instance_store survives dl_txt_unpack: storing the    *)
(* instance over itself gives the blob again.                              *)
BlobRestored == Written /\ inPlace => buf = blob

(* The size that was calculated is the size it takes.                      *)
NeededSizeFits ==
  needed # 0 => /\ phase # "too_small"
                /\ phase = "stored" /\ filled # {} => end = needed

(* A store ends, whatever cycles the instance has.                         *)
StoreEnds == phase = "store" ~> phase # "store"

(* dl_txt_unpack leaves the blob as good as it was: what dl_txt_unpack     *)
(* after dl_txt_unpack_calc_size finds in it is still the instance.        *)
UnpackedTwice == inPlace => InstanceKept

-----------------------------------------------------------------------------

(* What a store does to the blob is the writing part of PtrChain, which    *)
(* goes on from there.                                                     *)
OffsetAt(p) == IF p \in ToSet(ptrs) THEN buf[p].v ELSE 0
OffsetWords == [p \in 0..(LastCell + 1) |-> OffsetAt(p)]
NoWords == [p \in 0..(LastCell + 1) |-> 0]

Chain == INSTANCE PtrChain WITH
  Encoders <- {"store"}, BufferSize <- LastCell + 1, HeaderOffset <- HeaderCells,
  WordSize <- 1, HalfRange <- LastCell + 2, SizeRange <- LastCell + 2, Base <- 0, DamagedWords <- {},
  encoder <- "store", phase <- "write", word <- OffsetWords, stored <- OffsetWords,
  link <- 0, hdr <- [size |-> 0, notUsing |-> FALSE, first |-> 0],
  inst <- NoWords, cursor <- 0, next <- 0, patched <- {}, damaged <- FALSE

(***************************************************************************)
(* Every pointer is written once, into room that is reserved, and refers   *)
(* to what is in the blob, as PtrChain has it; each store starts over.     *)
(* Behind the end of a buffer that is too small there is nothing to see.   *)
(***************************************************************************)
WritesForChain ==
  Chain!Init /\ [][IF phase = "store"
                   THEN Dummy \/ end' <= size => [Chain!Next]_(Chain!vars)
                   ELSE Chain!Init']_vars
-----------------------------------------------------------------------------

(***************************************************************************)
(* The inductive invariant, in parts.  The room up to the end of the blob  *)
(* is written, or a call is still to write it, and never both, nor two     *)
(* calls.                                                                  *)
(***************************************************************************)
Reserved == HeaderCells..(end - 1)
Pending(k) == (stack[k].to + stack[k].at - 1)..(stack[k].to + Len(stack[k].members) - 1)

RoomInv ==
  /\ filled \subseteq Reserved
  /\ \A k \in DOMAIN stack :
       /\ stack[k].to \in Reserved
       /\ Pending(k) \subseteq Reserved
       /\ Pending(k) \intersect filled = {}
  /\ \A k, l \in DOMAIN stack : k # l => Pending(k) \intersect Pending(l) = {}
  /\ stack # <<>> => /\ phase = "store"
                     /\ \A p \in Reserved : p \in filled \/ \E k \in DOMAIN stack : p \in Pending(k)
  /\ stack = <<>> /\ phase = "store" => filled = {} /\ placed = {} /\ end = HeaderCells
                                        /\ written = <<>> /\ strings = <<>> /\ ptrs = <<>>
  /\ phase = "stored" => filled = {} \/ (filled = Reserved /\ (Dummy \/ end <= size))

(* What is remembered is in the blob, and nothing is remembered twice.     *)
PlacesInv ==
  /\ \A i \in DOMAIN written : written[i].pos \in Reserved
  /\ \A i, j \in DOMAIN written :
       written[i].pos = written[j].pos \/ written[i].ptr = written[j].ptr => i = j
  /\ \A i \in DOMAIN strings : strings[i].offset \in filled
  /\ \A i \in DOMAIN ptrs : ptrs[i] \in filled
  /\ \A i, j \in DOMAIN ptrs : ptrs[i] = ptrs[j] => i = j
  /\ \A k \in DOMAIN stack : stack[k].offset # 0 => stack[k].offset \in Reserved

(* All of this is so for a store in place, too.                            *)
RoomKept == TypeOK /\ RoomInv /\ PlacesInv

(***************************************************************************)
(* What is only so while the memory that is read is not the buffer.  A     *)
(* word c of memory is stored as d: what it refers to has its place, and   *)
(* nothing else is an offset, which the next load would patch.             *)
(***************************************************************************)
StringKept(c, o) == buf[o] = origin[c.v] /\ buf[o].tag # "off"
HasPlace(m, c, o) ==
  /\ c.tag = "addr"
  /\ m.kind \in {"str", "ptr", "array"}
  /\ IF m.kind = "str" THEN o \in filled /\ (o < size => StringKept(c, o))
                       ELSE Place(m.kind, c.v, o, ReferredMembers(m)) \in placed
StoredAs(m, c, d) ==
  IF m.kind = "data" \/ c = Zero THEN d = c /\ d.tag # "off"
  ELSE d.tag = "off" /\ HasPlace(m, c, d.v)

CellsInv ==
  \A t \in placed : \A i \in 1..Len(t.members) :
    t.to + i - 1 \in filled /\ t.to + i - 1 < size =>
      StoredAs(t.members[i], origin[t.from + i - 1], buf[t.to + i - 1])

(* The places lie apart, and the pointees among them are written_ptrs.     *)
Places ==
  [kind : {"ptr", "array"}, from : Nat, to : Positions, members : Seq(MemberDescs)]
PlacedInv ==
  /\ placed \subseteq Places
  /\ \A t \in placed : HeaderCells <= t.to /\ t.to + Len(t.members) <= end
  /\ \A t, u \in placed : t # u => t.to + Len(t.members) <= u.to \/ u.to + Len(u.members) <= t.to
  /\ \A t \in placed : t.kind = "ptr" =>
       \E i \in DOMAIN written : written[i].ptr = t.from /\ written[i].pos = t.to
  /\ \A i \in DOMAIN written : \E t \in placed :
       t.kind = "ptr" /\ t.from = written[i].ptr /\ t.to = written[i].pos
  /\ \A k \in DOMAIN stack : \E t \in placed :
       t.from = stack[k].from /\ t.to = stack[k].to /\ t.members = stack[k].members
  /\ stack # <<>> \/ filled # {} => InstancePlace \in placed

(* A call has the place of what its member refers to, or waits for it.     *)
MemberAt(k) == stack[k].members[stack[k].at]
WordAt(k) == origin[stack[k].from + stack[k].at - 1]
CallInv(k) ==
  /\ stack[k].offset # 0 => /\ stack[k].at <= Len(stack[k].members)
                            /\ HasPlace(MemberAt(k), WordAt(k), stack[k].offset)
  /\ k < Len(stack) => /\ stack[k].offset = 0
                       /\ stack[k].at <= Len(stack[k].members)
                       /\ MemberAt(k).kind \in {"ptr", "array"}
                       /\ HasPlace(MemberAt(k), WordAt(k), stack[k + 1].to)
CallsInv == \A k \in DOMAIN stack : CallInv(k)

(* The strings are those of memory, no two are equal, and the offsets of   *)
(* the blob are where ptrs says.                                           *)
WordsInv ==
  /\ \A i \in DOMAIN strings :
       /\ strings[i].str \in DOMAIN origin
       /\ strings[i].text = origin[strings[i].str]
       /\ strings[i].offset < size => buf[strings[i].offset] = strings[i].text
  /\ \A i, j \in DOMAIN strings :
       strings[i].text = strings[j].text \/ strings[i].offset = strings[j].offset => i = j
  /\ IF TextBlobs = {}
     THEN /\ \A p \in Positions : buf[p].tag = "off" => \E i \in DOMAIN ptrs : ptrs[i] = p
          /\ \A i \in DOMAIN ptrs : ptrs[i] < size => buf[ptrs[i]].tag = "off"
          /\ Dummy => ptrs = <<>>
     ELSE phase = "stored" /\ filled = {} /\ ~Dummy

(***************************************************************************)
(* The slots of a memory are the words that a store comes to, each with    *)
(* the member it is.  Whoever refers to an address takes it for one type.  *)
(***************************************************************************)
SlotsAt(a, members) ==
  {[at |-> a + i - 1, member |-> members[i]] : i \in DOMAIN members}
PointsTo(m, s, kinds) ==
  s.member.kind \in kinds /\ s.at \in DOMAIN m /\ m[s.at].tag = "addr"
OneType(m, slots) ==
  /\ SlotsAt(Instance, Members[Root]) \subseteq slots
  /\ \A s \in slots : PointsTo(m, s, {"ptr", "array"}) =>
       SlotsAt(m[s.at].v, ReferredMembers(s.member)) \subseteq slots
  /\ \A s \in slots : PointsTo(m, s, {"ptr"}) =>
       /\ m[s.at].v = Instance => s.member.of = Root
       /\ \A r \in slots : PointsTo(m, r, {"ptr"}) /\ m[r.at].v = m[s.at].v =>
            r.member.of = s.member.of
OneTypePerAddress == \A m \in Memories : \E slots : OneType(m, slots)

TypedInv(slots) ==
  \A t \in placed :
    /\ SlotsAt(t.from, t.members) \subseteq slots
    /\ t.kind = "ptr" =>
         \/ t.from = Instance /\ t.members = Members[Root]
         \/ \E s \in slots : /\ PointsTo(origin, s, {"ptr"})
                             /\ origin[s.at].v = t.from
                             /\ t.members = Members[s.member.of]

(* A store of an instance from the program's memory.                       *)
StoredFromMemory == CellsInv /\ PlacedInv /\ CallsInv /\ WordsInv
=============================================================================
