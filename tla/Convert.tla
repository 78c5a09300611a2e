------------------------------ MODULE Convert ------------------------------
(***************************************************************************)
(* dl_convert: a packed instance is rewritten for another byte order or    *)
(* another size of pointers, in place or to another buffer.  The chain is  *)
(* taken out of the source's words, all instances it refers to are         *)
(* collected (the root, pointees, arrays and strings), sorted by their     *)
(* address, written one after the other, and at last the new places go     *)
(* into the words that refer to them, which get a chain again.             *)
(*                                                                         *)
(* A cell is 4 bytes.  A pointer takes 1 or 2 cells, and that number, ps,  *)
(* stands for dl_ptr_size_t; a string is one cell, so that what follows    *)
(* has to be aligned.  A value carries the byte order o it was written in. *)
(***************************************************************************)
EXTENDS Naturals, Sequences, SequencesExt, FiniteSetsExt

CONSTANTS
  Members,      \* of each type: the sequence of [kind, of, atom, count]
  Unions,       \* the types that are unions
  Sizes,        \* of each type: its size, for both sizes of pointers
  Aligns,       \* of each type: its alignment, for both sizes of pointers
  Root,         \* the type of the instance
  Blobs,        \* the packed instances: [order, ps, notUsing, first, cells]
  HeaderCells,  \* align_up(sizeof(dl_data_header), alignment of the root)
  HalfRange,    \* for both sizes of pointers: 2^offset_shift, in cells
  WordBits,     \* the bits of a word
  LastCell,     \* the bound: the last position of a buffer
  MaxCalls,     \* the bound: calls of dl_convert and its relatives
  BothForeign,  \* is a foreign blob converted to foreign blobs?
  Depth         \* how far the properties look into an instance

Orders == {"host", "foreign"}
PtrSizes == {1, 2}
Positions == 0..LastCell

AlignUp(n, a) == ((n + a - 1) \div a) * a

PodSize(m, ps) == CASE m.kind = "int64"         -> 2
                    [] m.kind \in {"str", "ptr"} -> ps
                    [] m.kind = "struct"         -> Sizes[m.of][ps]
                    [] OTHER                     -> 1
MemberSize(m, ps) == CASE m.atom = "pod"    -> PodSize(m, ps)
                           [] m.atom = "inline" -> m.count * PodSize(m, ps)
                           [] m.atom = "array"  -> 2 * ps
MemberAlign(m, ps) == CASE m.atom = "array"    -> ps
                            [] m.kind = "struct"   -> Aligns[m.of][ps]
                        [] OTHER               -> PodSize(m, ps)

(* The members of a union lie over each other, its tag behind them.        *)
Offsets ==
  [type \in DOMAIN Members |-> [ps \in PtrSizes |->
    LET ms == Members[type]
        at[i \in DOMAIN ms] ==
          IF i = 1 \/ type \in Unions THEN 0
          ELSE AlignUp(at[i - 1] + MemberSize(ms[i - 1], ps), MemberAlign(ms[i], ps))
    IN at]]
Largest(type, ps) == Max({MemberSize(m, ps) : m \in Range(Members[type])})
TypeAlign(type, ps) == Max({MemberAlign(m, ps) : m \in Range(Members[type])})
TagOffset(type, ps) == AlignUp(Largest(type, ps), TypeAlign(type, ps))
EndOf(type, ps) ==
  IF type \in Unions THEN TagOffset(type, ps) + 1
  ELSE LET n == Len(Members[type])
       IN Offsets[type][ps][n] + MemberSize(Members[type][n], ps)

(* The sizes and alignments are those a type library gives the types.      *)
ASSUME ConvertAssumption ==
  /\ HeaderCells \in Nat \ {0} /\ LastCell \in Nat /\ MaxCalls \in Nat /\ Depth \in Nat
  /\ HalfRange \in Seq(Nat) /\ WordBits \in Nat /\ BothForeign \in BOOLEAN
  /\ \A type \in DOMAIN Members, ps \in PtrSizes :
       /\ Aligns[type][ps] = TypeAlign(type, ps)
       /\ Sizes[type][ps] = AlignUp(EndOf(type, ps), Aligns[type][ps])

Cell(tag, v, o) == [t |-> tag, v |-> v, d |-> 0, bits |-> {}, o |-> o]
Word(offset, distance, o) == [Cell("word", offset, o) EXCEPT !.d = distance]
Bits(set, o) == [Cell("bits", 0, o) EXCEPT !.bits = set]
Zero == Cell("zero", 0, "any")
Rest == Cell("rest", 0, "any")   \* the second half of a value of two cells
Old == Cell("old", 0, "any")     \* what the caller left in the buffer
Zeros(n) == [i \in 1..n |-> Zero]

VARIABLES
  mem,        \* the buffers, "src" and "out"
  hdr,        \* their headers; sizeOrder is the byte order of instance_size
  length,     \* packed_instance_size of the one, produced_bytes of the other
  phase,      \* see Phases
  request,    \* the arguments: [how, order, ps]
  result,     \* what the last call returned
  header,     \* the local copy of the source's header
  cursor,     \* patch_mem
  next,       \* offset_to_next_pointer_to_patch
  todo,       \* the members still to be looked at, or to be written
  instances,  \* conv_ctx.instances
  patches,    \* conv_ctx.m_lPatchOffset
  pos, end,   \* writer.pos and needed_size
  done,       \* how many instances are written, or words patched
  calls,      \* how many calls were made
  origin,     \* history: the blob of the program, as it was
  needed      \* history: the calculated sizes, 0 if not calculated

buffers == <<mem, hdr, length>>
walk == <<cursor, next>>
context == <<todo, instances, patches, done>>
writer == <<pos, end>>
history == <<calls, origin, needed>>
vars == <<buffers, phase, request, result, header, walk, context, writer, history>>

Phases == {"idle", "neutralize", "collect", "write", "patch"}
Results == {"none", "ok", "malformed", "unsupported"}
Requests == [how : {"calc", "convert", "inplace"}, order : Orders, ps : PtrSizes]

Pod(kind, of) == [kind |-> kind, of |-> of, atom |-> "pod", count |-> 1]
AsPod(m) == [m EXCEPT !.atom = "pod", !.count = 1]

Target == IF request.how = "inplace" THEN "src" ELSE "out"
Dummy == request.how = "calc"
Swaps == header.order # request.order
OtherOrder(o) == IF o = "host" THEN "foreign" ELSE "host"

NoRequest == [how |-> "calc", order |-> "host", ps |-> 1]
NoHeader == [order |-> "host", ps |-> 1, size |-> 0, sizeOrder |-> "host",
             notUsing |-> FALSE, first |-> 0]

Init ==
  /\ origin \in Blobs
  /\ LET size == Len(origin.cells)
         blob == [p \in Positions |-> IF p \in HeaderCells..(HeaderCells + size - 1)
                                      THEN origin.cells[p - HeaderCells + 1] ELSE Old]
     IN /\ mem = [src |-> blob, out |-> [p \in Positions |-> Old]]
        /\ length = [src |-> HeaderCells + size, out |-> 0]
        /\ hdr = [src |-> [order |-> origin.order, ps |-> origin.ps, size |-> size,
                           sizeOrder |-> origin.order, notUsing |-> origin.notUsing,
                           first |-> origin.first],
                  out |-> NoHeader]
  /\ phase = "idle" /\ result = "none"
  /\ request = NoRequest /\ header = NoHeader
  /\ cursor = 0 /\ next = 0
  /\ todo = <<>> /\ instances = <<>> /\ patches = <<>> /\ done = 0
  /\ pos = 0 /\ end = 0
  /\ calls = 0 /\ needed = <<0, 0>>

-----------------------------------------------------------------------------

(* A call; dl_convert_calc_size asks for the byte order of the host.  The  *)
(* program does not go on with what a refused conversion in place left.    *)
Call(r) ==
  /\ phase = "idle" /\ calls < MaxCalls
  /\ ~(request.how = "inplace" /\ result = "malformed")
  /\ r.how = "calc" => r.order = "host"
  /\ BothForeign \/ ~(r.order = "foreign" /\ hdr.src.order = "foreign" /\ r.ps # hdr.src.ps)
  /\ calls' = calls + 1
  /\ request' = r

SameFormat(r) == r.order = hdr.src.order /\ r.ps = hdr.src.ps

RefuseInPlace ==
  /\ \E r \in Requests : Call(r) /\ r.how = "inplace" /\ r.ps > hdr.src.ps
  /\ result' = "unsupported"
  /\ UNCHANGED <<buffers, phase, header, walk, context, writer, origin, needed>>

(* The whole buffer is copied, and its size is the size that is returned.  *)
CopySame ==
  /\ \E r \in Requests :
       /\ Call(r) /\ SameFormat(r)
       /\ IF r.how = "convert"
          THEN /\ mem' = [mem EXCEPT !.out = mem.src]
               /\ hdr' = [hdr EXCEPT !.out = hdr.src]
               /\ length' = [length EXCEPT !.out = length.src]
          ELSE UNCHANGED buffers
       /\ needed' = IF r.how = "calc" THEN [needed EXCEPT ![r.ps] = length.src] ELSE needed
  /\ result' = "ok"
  /\ UNCHANGED <<phase, header, walk, context, writer, origin>>

NewHeader(r) == [NoHeader EXCEPT !.order = r.order, !.ps = r.ps, !.sizeOrder = r.order]

(* What is to be done: with a value of the source, which will be aligned   *)
(* to n in the target; an array to be listed; the tag n, or the zeros, of  *)
(* a struct that is written from `at` on.                                  *)
Todo(op, m, at, n) == [op |-> op, m |-> m, at |-> at, n |-> n]
Value(m, at) == Todo("value", m, at, 1)
Instance(at, m) == [at |-> at, m |-> m, to |-> 0]

(* The new header is written before the chain of the old one is walked; in *)
(* place it takes the old one's room.                                      *)
Start ==
  /\ \E r \in Requests :
       /\ Call(r) /\ ~SameFormat(r)
       /\ ~(r.how = "inplace" /\ r.ps > hdr.src.ps)
       /\ hdr' = CASE r.how = "calc"    -> hdr
                   [] r.how = "convert" -> [hdr EXCEPT !.out = NewHeader(r)]
                   [] r.how = "inplace" -> [hdr EXCEPT !.src = NewHeader(r)]
  /\ header' = hdr.src
  /\ phase' = IF hdr.src.notUsing THEN "collect" ELSE "neutralize"
  /\ cursor' = 0 /\ next' = hdr.src.first
  /\ todo' = <<Value(Pod("struct", Root), HeaderCells)>>
  /\ instances' = <<Instance(HeaderCells, Pod("struct", Root))>>
  /\ patches' = <<>> /\ done' = 0
  /\ pos' = HeaderCells /\ end' = HeaderCells
  /\ UNCHANGED <<mem, length, result, origin, needed>>

(* The program goes on with the converted instance, and a buffer that      *)
(* holds what it likes.                                                    *)
UseResult ==
  /\ phase = "idle" /\ result = "ok" /\ request.how = "convert"
  /\ mem' = [src |-> mem.out, out |-> [p \in Positions |-> Old]]
  /\ hdr' = [src |-> hdr.out, out |-> NoHeader]
  /\ length' = [src |-> length.out, out |-> 0]
  /\ result' = "none"
  /\ needed' = <<0, 0>>
  /\ UNCHANGED <<phase, request, header, walk, context, writer, calls, origin>>

-----------------------------------------------------------------------------

(* Mutant: the header is taken for a part of the instance.                 *)
SizeReadBare(h) == IF h.sizeOrder = h.order THEN h.size - HeaderCells ELSE LastCell + 1

(* instance_size is not always in the byte order of its blob, see PatchDone*)
(* and WriteDone: the swap of a number below 2^16 is at least 2^16.        *)
SizeRead(h) == IF h.sizeOrder = h.order THEN h.size ELSE LastCell + 1

(* Mutant: the distance stays in the word.                                 *)
NeutralizeKept ==
  /\ phase = "neutralize" /\ next # 0
  /\ cursor' = cursor + next
  /\ IF cursor' > HeaderCells + SizeRead(header)
     THEN phase' = "idle" /\ result' = "malformed" /\ UNCHANGED <<mem, next>>
     ELSE /\ next' = mem.src[cursor'].d
          /\ UNCHANGED mem
          /\ UNCHANGED <<phase, result>>
  /\ UNCHANGED <<hdr, length, request, header, context, writer, history>>


(* A turn of the loop over the chain: the distance is taken out.           *)
Neutralize ==
  /\ phase = "neutralize" /\ next # 0
  /\ cursor' = cursor + next
  /\ IF cursor' > HeaderCells + SizeRead(header)
     THEN phase' = "idle" /\ result' = "malformed" /\ UNCHANGED <<mem, next>>
     ELSE /\ next' = mem.src[cursor'].d
          /\ mem' = [mem EXCEPT !.src[cursor'].d = 0]
          /\ UNCHANGED <<phase, result>>
  /\ UNCHANGED <<hdr, length, request, header, context, writer, history>>

(* Mutant: the header still promises a chain.                              *)
NeutralizeDoneHeaderKept ==
  /\ phase = "neutralize" /\ next = 0
  /\ phase' = "collect"
  /\ UNCHANGED <<mem, hdr, length, request, result, header, walk, context, writer, history>>

NeutralizeDone ==
  /\ phase = "neutralize" /\ next = 0
  /\ phase' = "collect"
  /\ hdr' = [hdr EXCEPT !.src.notUsing = TRUE, !.src.first = 0]
  /\ UNCHANGED <<mem, length, request, result, header, walk, context, writer, history>>

-----------------------------------------------------------------------------

Src == mem.src

(* A word holds a distance, or is in another byte order, or half of it is  *)
(* overwritten: what is then read for an offset is left open.              *)
Readable(p) ==
  \/ Src[p] = Zero
  \/ /\ Src[p].t = "word" /\ Src[p].o = header.order /\ Src[p].d = 0
     /\ header.ps = 2 => Src[p + 1] = Rest
RefAt(p) == Src[p].v
CountAt(p) == Src[p + header.ps].v

Elements(m, at, n) ==
  [i \in 1..n |-> Value(AsPod(m), at + (i - 1) * PodSize(m, header.ps))]

(* The tag of a union is read in the byte order of the host.               *)
Tag(type, at) == Src[at + TagOffset(type, header.ps)]
TagKnown(type, at) == Tag(type, at).t = "num" /\ Tag(type, at).o = "host"

MemberAt(type, i, at) ==
  Todo("value", Members[type][i], at + Offsets[type][header.ps][i],
       IF type \in Unions THEN 1 ELSE MemberAlign(Members[type][i], request.ps))
MembersAt(type, at) ==
  IF type \in Unions THEN <<MemberAt(type, Tag(type, at).v, at)>>
  ELSE [i \in DOMAIN Members[type] |-> MemberAt(type, i, at)]

Task == Head(todo)
At(step, op) == phase = step /\ todo # <<>> /\ Task.op = op
Taking(step, kinds, atoms) ==
  At(step, "value") /\ Task.m.kind \in kinds /\ Task.m.atom \in atoms
IsUnion(m) == m.kind = "struct" /\ m.of \in Unions

CollectNothing ==
  /\ Taking("collect", {"int32", "int64", "bits"}, {"pod", "inline"})
  /\ todo' = Tail(todo)
  /\ UNCHANGED <<buffers, phase, request, result, header, walk, instances, patches, done, writer, history>>

CollectStruct ==
  /\ Taking("collect", {"struct"}, {"pod"})
  /\ IsUnion(Task.m) => TagKnown(Task.m.of, Task.at)
  /\ todo' = MembersAt(Task.m.of, Task.at) \o Tail(todo)
  /\ UNCHANGED <<buffers, phase, request, result, header, walk, instances, patches, done, writer, history>>

(* No member of the union has such a tag.  The error ends the collecting   *)
(* and is then dropped: what is found so far is sorted and written.        *)
CollectBadTag ==
  /\ Taking("collect", {"struct"}, {"pod"})
  /\ IsUnion(Task.m) /\ ~TagKnown(Task.m.of, Task.at)
  /\ todo' = <<>>
  /\ UNCHANGED <<buffers, phase, request, result, header, walk, instances, patches, done, writer, history>>

CollectInline ==
  /\ Taking("collect", {"struct", "str", "ptr"}, {"inline"})
  /\ todo' = Elements(Task.m, Task.at, Task.m.count) \o Tail(todo)
  /\ UNCHANGED <<buffers, phase, request, result, header, walk, instances, patches, done, writer, history>>

(* A string is collected for every reference to it.                        *)
CollectString ==
  /\ Taking("collect", {"str"}, {"pod"})
  /\ Readable(Task.at)
  /\ todo' = Tail(todo)
  /\ instances' = IF RefAt(Task.at) = 0 THEN instances
                  ELSE Append(instances, Instance(RefAt(Task.at), Task.m))
  /\ UNCHANGED <<buffers, phase, request, result, header, walk, patches, done, writer, history>>

(* IsSwapped: a cycle ends at what is known.                               *)
Known(at) == \E i \in DOMAIN instances : instances[i].at = at

CollectPointee ==
  /\ Taking("collect", {"ptr"}, {"pod"})
  /\ Readable(Task.at)
  /\ LET at == RefAt(Task.at) IN
     IF at = 0 \/ Known(at) THEN todo' = Tail(todo) /\ UNCHANGED instances
     ELSE LET m == Pod("struct", Task.m.of) IN
          /\ instances' = Append(instances, Instance(at, m))
          /\ todo' = <<Value(m, at)>> \o Tail(todo)
  /\ UNCHANGED <<buffers, phase, request, result, header, walk, patches, done, writer, history>>

(* What the elements refer to is collected before the array.               *)
CollectArray ==
  /\ Taking("collect", {"int32", "int64", "struct", "str", "ptr"}, {"array"})
  /\ Readable(Task.at)
  /\ LET at == RefAt(Task.at)
         m == [Task.m EXCEPT !.count = CountAt(Task.at)] IN
     todo' = IF at = 0 THEN Tail(todo)
             ELSE (IF m.kind \in {"struct", "str", "ptr"} THEN Elements(m, at, m.count) ELSE <<>>)
                  \o <<Todo("list", m, at, 0)>> \o Tail(todo)
  /\ UNCHANGED <<buffers, phase, request, result, header, walk, instances, patches, done, writer, history>>

CollectArrayDone ==
  /\ At("collect", "list")
  /\ instances' = Append(instances, Instance(Task.at, Task.m))
  /\ todo' = Tail(todo)
  /\ UNCHANGED <<buffers, phase, request, result, header, walk, patches, done, writer, history>>

(* Mutant: the instances stay in the order they were found in.             *)
CollectDoneUnsorted ==
  /\ phase = "collect" /\ todo = <<>>
  /\ phase' = "write"
  /\ UNCHANGED <<buffers, request, result, header, walk, todo, instances, patches, done, writer, history>>

CollectDone ==
  /\ phase = "collect" /\ todo = <<>>
  /\ phase' = "write"
  /\ instances' = SortSeq(instances, LAMBDA i, j : i.at < j.at)
  /\ UNCHANGED <<buffers, request, result, header, walk, todo, patches, done, writer, history>>

Collect ==
  \/ CollectNothing \/ CollectStruct \/ CollectBadTag \/ CollectInline \/ CollectString
  \/ CollectPointee \/ CollectArray \/ CollectArrayDone \/ CollectDone

-----------------------------------------------------------------------------

Larger(a, b) == IF a > b THEN a ELSE b

Written(p, cells) ==
  IF Dummy THEN mem
  ELSE [mem EXCEPT ![Target] =
          [q \in Positions |-> IF q \in p..(p + Len(cells) - 1) THEN cells[q - p + 1] ELSE @[q]]]

(* dl_binary_writer: the gap of an alignment is cleared.                   *)
Put(align, cells) ==
  LET all == Zeros(AlignUp(pos, align) - pos) \o cells
  IN /\ pos + Len(all) <= LastCell + 1
     /\ mem' = Written(pos, all)
     /\ pos' = pos + Len(all)
     /\ end' = Larger(end, pos')

Writing == UNCHANGED <<hdr, length, phase, request, result, header, walk, instances, done, history>>

(* The values of data are turned to the byte order of the target.          *)
Swapped(cell) == IF Swaps /\ cell.o # "any" THEN [cell EXCEPT !.o = OtherOrder(@)] ELSE cell

(* Mutant: a string is written for every reference to it.                  *)
MergedNever(i) == FALSE

(* A string that is at the place of the instance before it is that string. *)
Merged(i) == i > 1 /\ instances[i].m.kind = "str" /\ instances[i].at = instances[i - 1].at

InstanceAlign(m, ps) == CASE m.kind = "struct" \/ (m.kind = "ptr" /\ m.atom = "array") -> Aligns[m.of][ps]
                          [] m.atom = "array" /\ m.kind = "str" -> ps
                          [] m.atom = "array" /\ m.kind = "int64" -> 2
                          [] OTHER -> 1
InstanceTasks(m, at) ==
  IF m.atom = "pod" THEN <<Todo("value", m, at, 0)>>
  ELSE IF m.kind \in {"struct", "str", "ptr"} THEN Elements(m, at, m.count)
  ELSE <<Value([m EXCEPT !.atom = "inline"], at)>>

WriteInstance ==
  /\ phase = "write" /\ todo = <<>> /\ done < Len(instances)
  /\ LET i == done + 1
         m == instances[i].m
         start == AlignUp(end, InstanceAlign(m, request.ps)) IN
     IF Merged(i) THEN UNCHANGED <<mem, todo, instances, pos, end>>
     ELSE /\ start <= LastCell + 1
          /\ mem' = Written(end, Zeros(start - end))
          /\ pos' = start /\ end' = start
          /\ instances' = [instances EXCEPT ![i].to = start]
          /\ todo' = InstanceTasks(m, instances[i].at)
  /\ done' = done + 1
  /\ UNCHANGED <<hdr, length, phase, request, result, header, walk, patches, history>>

(* The size of a struct is reserved before its members are written.  The   *)
(* tag of a union is read first, and is not turned to another byte order.  *)
WriteStruct ==
  /\ Taking("write", {"struct"}, {"pod"})
  /\ IsUnion(Task.m) => TagKnown(Task.m.of, Task.at)
  /\ LET type == Task.m.of
         start == AlignUp(pos, Aligns[type][request.ps])
         size == Sizes[type][request.ps]
     IN /\ start + size <= LastCell + 1
        /\ mem' = Written(pos, Zeros(start - pos))
        /\ pos' = start
        /\ end' = Larger(end, start + size)
        /\ todo' = MembersAt(type, Task.at)
                   \o (IF type \in Unions
                       THEN <<Todo("tag", Task.m, start, Tag(type, Task.at).v)>> ELSE <<>>)
                   \o <<Todo("fill", Task.m, start, 0)>> \o Tail(todo)
  /\ UNCHANGED patches /\ Writing

(* This error is returned, with the target written up to the union.        *)
WriteBadTag ==
  /\ Taking("write", {"struct"}, {"pod"})
  /\ IsUnion(Task.m) /\ ~TagKnown(Task.m.of, Task.at)
  /\ LET start == AlignUp(pos, Aligns[Task.m.of][request.ps])
         size == Sizes[Task.m.of][request.ps]
     IN /\ start + size <= LastCell + 1
        /\ mem' = Written(pos, Zeros(start - pos))
        /\ pos' = start
        /\ end' = Larger(end, start + size)
  /\ phase' = "idle" /\ result' = "malformed"
  /\ todo' = <<>>
  /\ UNCHANGED <<hdr, length, request, header, walk, instances, patches, done, history>>

(* What the chosen member does not fill keeps what the buffer held.        *)
WriteTag ==
  /\ At("write", "tag")
  /\ LET p == Task.at + TagOffset(Task.m.of, request.ps)
     IN /\ mem' = Written(p, <<Cell("num", Task.n, "host")>>)
        /\ pos' = p + 1
        /\ end' = Larger(end, pos')
  /\ todo' = Tail(todo)
  /\ UNCHANGED patches /\ Writing

WriteFill ==
  /\ At("write", "fill")
  /\ Put(1, Zeros(Sizes[Task.m.of][request.ps] - (pos - Task.at)))
  /\ todo' = Tail(todo)
  /\ UNCHANGED patches /\ Writing

WriteInline ==
  /\ Taking("write", {"struct", "str", "ptr"}, {"inline"})
  /\ Put(Task.n, <<>>)
  /\ todo' = Elements(Task.m, Task.at, Task.m.count) \o Tail(todo)
  /\ UNCHANGED patches /\ Writing

WriteData ==
  /\ Taking("write", {"int32", "int64"}, {"pod", "inline"})
  /\ Put(Task.n, [i \in 1..MemberSize(Task.m, header.ps) |-> Swapped(Src[Task.at + i - 1])])
  /\ todo' = Tail(todo)
  /\ UNCHANGED patches /\ Writing

(* dl_bf_offset: fields are counted from the other end of a foreign word.  *)
BfOffset(o, f) == IF o = "host" THEN f.offset ELSE WordBits - f.offset - f.bits
(* Mutant: the fields keep their bits.                                     *)
BfConvertedKept(cell, fields) == cell

BfConverted(cell, fields) ==
  [cell EXCEPT !.bits = UNION {{BfOffset(request.order, f) + i :
                               i \in {j \in 0..(f.bits - 1) : BfOffset(header.order, f) + j \in cell.bits}} :
                            f \in Range(fields)}]

(* All bitfields that follow each other are one word.                      *)
WriteBits ==
  /\ Taking("write", {"bits"}, {"pod"})
  /\ LET cell == Src[Task.at]
     IN Put(Task.n, <<IF Swaps THEN Swapped(BfConverted(cell, Task.m.of)) ELSE cell>>)
  /\ todo' = Tail(todo)
  /\ UNCHANGED patches /\ Writing

(* The position that is put down is that of the writer.                    *)
SavePatch(p, at) ==
  patches' = IF RefAt(at) = 0 THEN patches ELSE Append(patches, [pos |-> p, old |-> RefAt(at)])

WriteRef ==
  /\ Taking("write", {"str", "ptr"}, {"pod"}) /\ Task.n > 0
  /\ Readable(Task.at)
  /\ Put(Task.n, Zeros(request.ps))
  /\ SavePatch(pos' - request.ps, Task.at)
  /\ todo' = Tail(todo)
  /\ Writing

WriteArrayRef ==
  /\ Taking("write", {"int32", "int64", "struct", "str", "ptr"}, {"array"})
  /\ Readable(Task.at)
  /\ Put(Task.n, Zeros(request.ps) \o <<Swapped(Src[Task.at + header.ps])>> \o Zeros(request.ps - 1))
  /\ SavePatch(pos' - 2 * request.ps, Task.at)
  /\ todo' = Tail(todo)
  /\ Writing

(* The characters of a string that is an instance have no byte order.      *)
WriteString ==
  /\ Taking("write", {"str"}, {"pod"}) /\ Task.n = 0
  /\ Put(1, <<Src[Task.at]>>)
  /\ todo' = Tail(todo)
  /\ UNCHANGED patches /\ Writing

(* The size goes into the header in the byte order of the host.            *)
WriteDone ==
  /\ phase = "write" /\ todo = <<>> /\ done = Len(instances)
  /\ IF Dummy
     THEN /\ phase' = "idle" /\ result' = "ok"
          /\ needed' = [needed EXCEPT ![request.ps] = end]
          /\ UNCHANGED <<hdr, length, patches>>
     ELSE LET sorted == SortSeq(patches, LAMBDA p, q : p.pos < q.pos)
              unchained == end >= HalfRange[request.ps]
          IN /\ phase' = "patch"
             /\ patches' = sorted
             /\ hdr' = [hdr EXCEPT ![Target].notUsing = unchained,
                                   ![Target].size = end - HeaderCells,
                                   ![Target].sizeOrder = "host",
                                   ![Target].first = IF unchained \/ sorted = <<>> THEN 0 ELSE sorted[1].pos]
             /\ length' = [length EXCEPT ![Target] = end]
             /\ UNCHANGED <<result, needed>>
  /\ done' = 0
  /\ UNCHANGED <<mem, request, header, walk, todo, instances, writer, calls, origin>>

-----------------------------------------------------------------------------

(* lower_bound: of the instances at the place that was referred to, the    *)
(* first, which is the one that was written.  What was not collected, for  *)
(* an error ended the collecting, is not found: the new offset is then 0,  *)
(* unless the assertion is compiled in.                                    *)
NewPlace(old) ==
  LET found == {i \in DOMAIN instances : instances[i].at = old}
  IN IF found = {} THEN 0 ELSE instances[Min(found)].to

(* dl_binary_writer_write_ptr turns the value whenever it turns the data.  *)
PointerOrder == IF request.order = "foreign" /\ Swaps THEN "foreign" ELSE "host"

PatchNext ==
  /\ phase = "patch" /\ done < Len(patches)
  /\ LET p == patches[done + 1]
         distance == IF hdr[Target].notUsing \/ done + 1 = Len(patches) THEN 0
                     ELSE patches[done + 2].pos - p.pos
     IN mem' = Written(p.pos, <<Word(NewPlace(p.old), distance, PointerOrder)>>
                              \o [i \in 1..(request.ps - 1) |-> Rest])
  /\ done' = done + 1
  /\ UNCHANGED <<hdr, length, phase, request, result, header, walk, todo, instances, patches, writer, history>>

PatchDone ==
  /\ phase = "patch" /\ done = Len(patches)
  /\ phase' = "idle" /\ result' = "ok"
  /\ UNCHANGED <<buffers, request, header, walk, context, writer, history>>

Write ==
  \/ WriteInstance \/ WriteStruct \/ WriteBadTag \/ WriteTag \/ WriteFill \/ WriteInline \/ WriteData
  \/ WriteBits \/ WriteRef \/ WriteArrayRef \/ WriteString \/ WriteDone

Step == Neutralize \/ NeutralizeDone \/ Collect \/ Write \/ PatchNext \/ PatchDone
Next == RefuseInPlace \/ CopySame \/ Start \/ UseResult \/ Step

(* A call runs on one thread until it returns.                             *)
Spec == Init /\ [][Next]_vars /\ WF_vars(Step)

-----------------------------------------------------------------------------

(* A blob to look into: what the library made, or the program's own.       *)
View(x) == [cells |-> mem[x], order |-> hdr[x].order, ps |-> hdr[x].ps]
OriginView ==
  [cells |-> [p \in HeaderCells..(HeaderCells + Len(origin.cells) - 1) |-> origin.cells[p - HeaderCells + 1]],
   order |-> origin.order, ps |-> origin.ps]

(* The values of the two blobs a and b that lie in the same place of their *)
(* instances: [m, a, b], the type and the two positions.                   *)
Pair(m, a, b) == [m |-> m, a |-> a, b |-> b]
OffsetAt(v, p) == v.cells[p].v
MembersOf(v, w, type, a, b) ==
  {Pair(Members[type][i], a + Offsets[type][v.ps][i], b + Offsets[type][w.ps][i]) :
     i \in IF type \in Unions THEN {v.cells[a + TagOffset(type, v.ps)].v} ELSE DOMAIN Members[type]}
ElementsOf(v, w, m, n, a, b) ==
  {Pair(AsPod(m), a + i * PodSize(m, v.ps), b + i * PodSize(m, w.ps)) : i \in 0..(n - 1)}
Below(v, w, pair) ==
  LET m == pair.m a == OffsetAt(v, pair.a) b == OffsetAt(w, pair.b) IN
  CASE m.atom = "pod" /\ m.kind = "struct" -> MembersOf(v, w, m.of, pair.a, pair.b)
    [] m.atom = "inline" -> ElementsOf(v, w, m, m.count, pair.a, pair.b)
    [] m.atom = "array" /\ a # 0 /\ b # 0 -> ElementsOf(v, w, m, v.cells[pair.a + v.ps].v, a, b)
    [] m.atom = "pod" /\ m.kind = "ptr" /\ a # 0 /\ b # 0 -> {Pair(Pod("struct", m.of), a, b)}
    [] OTHER -> {}
Pairs(v, w) ==
  LET found[n \in 0..Depth] ==
        IF n = 0 THEN {Pair(Pod("struct", Root), HeaderCells, HeaderCells)}
        ELSE LET before == found[n - 1]
             IN before \union UNION {Below(v, w, pair) : pair \in before}
  IN found[Depth]

InOrder(v, cell) == cell.o \in {v.order, "any"}
IsRef(v, p) == /\ v.cells[p].t \in {"word", "zero"} /\ InOrder(v, v.cells[p])
               /\ (v.cells[p].t = "word" /\ v.ps = 2) => v.cells[p + 1] = Rest
FieldsOf(v, p, fields) ==
  [i \in DOMAIN fields |->
     {j \in 0..(fields[i].bits - 1) : BfOffset(v.order, fields[i]) + j \in v.cells[p].bits}]
SameNumber(v, w, a, b) ==
  /\ v.cells[a].t = w.cells[b].t /\ v.cells[a].v = w.cells[b].v
  /\ InOrder(v, v.cells[a]) <=> InOrder(w, w.cells[b])
SameRef(v, w, a, b) == IsRef(w, b) /\ (OffsetAt(v, a) = 0 <=> OffsetAt(w, b) = 0)
Aligned(w, pair) == pair.b % MemberAlign(pair.m, w.ps) = 0
SamePair(v, w, pair) ==
  LET m == pair.m a == pair.a b == pair.b IN
  CASE m.atom = "inline" -> TRUE
    [] m.atom = "array" -> SameRef(v, w, a, b) /\ SameNumber(v, w, a + v.ps, b + w.ps)
    [] m.kind = "struct" ->
         m.of \in Unions => LET tag == w.cells[b + TagOffset(m.of, w.ps)]
                             IN tag = v.cells[a + TagOffset(m.of, v.ps)]
    [] m.kind \in {"int32", "int64"} -> SameNumber(v, w, a, b)
    [] m.kind = "bits" -> /\ InOrder(w, w.cells[b])
                          /\ FieldsOf(v, a, m.of) = FieldsOf(w, b, m.of)
    [] m.kind = "ptr" -> SameRef(v, w, a, b)
    [] m.kind = "str" ->
         /\ SameRef(v, w, a, b)
         /\ OffsetAt(v, a) # 0 => v.cells[OffsetAt(v, a)] = w.cells[OffsetAt(w, b)]

(* What is shared stays shared, and what is not does not become so.        *)
SameSharing(pairs) ==
  \A p, q \in {x \in pairs : x.m.kind = "struct" /\ x.m.atom = "pod"} :
    p.m = q.m => (p.a = q.a <=> p.b = q.b)

Finished == phase = "idle" /\ result = "ok"
Kept == IF request.how = "convert" THEN {"src", "out"} ELSE {"src"}

(* Types of the variables.                                                 *)
TypeOK ==
  /\ phase \in Phases /\ result \in Results /\ request \in Requests
  /\ \A x \in {"src", "out"} : hdr[x].order \in Orders /\ hdr[x].ps \in PtrSizes
  /\ \A i \in DOMAIN instances : instances[i].at \in Positions /\ instances[i].to \in 0..(LastCell + 1)
  /\ \A i \in DOMAIN patches : patches[i].pos \in Positions
  /\ pos <= end /\ end <= LastCell + 1
  /\ phase = "collect" => patches = <<>>
  /\ done <= Len(instances) + Len(patches)

(* A conversion that is done leaves a blob that says what the program's    *)
(* own blob said: every number, string, field, reference and tag has its   *)
(* value, is in the byte order and at the alignment the header promises,   *)
(* and instances are shared as they were.  So does the source, though its  *)
(* chain is taken out, and so does a blob that was converted several times.*)
ConvertedMeansSame ==
  Finished => \A x \in Kept :
    LET v == OriginView w == View(x) pairs == Pairs(v, w)
    IN SameSharing(pairs) /\ \A pair \in pairs : SamePair(v, w, pair) /\ Aligned(w, pair)

(* The chain of a blob visits its references, all of them, in order; or    *)
(* there is none, and the words are free of distances: dl_instance_load    *)
(* then follows the types.  A blob has a chain only if its words have room *)
(* for an offset and a distance.                                           *)
References(w) ==
  {pair.b : pair \in {x \in Pairs(w, w) :
                        /\ \/ x.m.atom = "array"
                           \/ x.m.atom = "pod" /\ x.m.kind \in {"str", "ptr"}
                        /\ OffsetAt(w, x.b) # 0}}
ChainComplete ==
  Finished => \A x \in Kept :
    LET refs == References(View(x))
        chained == ~hdr[x].notUsing /\ refs # {}
        later(r) == {q \in refs : q > r}
    IN /\ hdr[x].first = IF chained THEN Min(refs) ELSE 0
       /\ \A r \in refs :
            mem[x][r].d = IF chained /\ later(r) # {} THEN Min(later(r)) - r ELSE 0
       /\ chained => length[x] <= HalfRange[hdr[x].ps]

(* A blob is well formed: its chain is complete or absent, and what the    *)
(* conversion remembers on the way there are places of the blobs.          *)
WellFormed == TypeOK /\ ChainComplete

(* Back in the format it had, a blob is cell for cell what it was; a chain *)
(* may be missing, and the room a member of a union leaves is not written. *)
RoundTripExact ==
  LET x == Target IN
  (Finished /\ ~Dummy /\ hdr[x].order = origin.order /\ hdr[x].ps = origin.ps) =>
    /\ length[x] = HeaderCells + Len(origin.cells)
    /\ \A i \in DOMAIN origin.cells :
         LET was == origin.cells[i] is == mem[x][HeaderCells + i - 1] IN
         \/ was = Old
         \/ is = was
         \/ hdr[x].notUsing /\ is = [was EXCEPT !.d = 0]

(* dl_convert_calc_size tells the size that dl_convert then needs, and in  *)
(* place a blob never grows past its own end.                              *)
NeededSizeFits ==
  /\ (Finished /\ request.how = "convert" /\ needed[request.ps] # 0) => length.out = needed[request.ps]
  /\ (phase = "write" /\ request.how = "inplace") => end <= length.src

(* A blob is refused as malformed only if another machine wrote the tag of *)
(* a union of its: no chain runs out of its blob, and in place no tag is   *)
(* written over before it is read.  Not every such blob is refused.        *)
RefusedForUnions ==
  result = "malformed" =>
    \E pair \in Pairs(OriginView, OriginView) :
      /\ IsUnion(pair.m) /\ pair.m.atom = "pod"
      /\ OriginView.cells[pair.a + TagOffset(pair.m.of, origin.ps)].o # "host"

(* Every conversion ends: cycles end at what is known, the chain at a word *)
(* without a distance, and no word is read that was written over.          *)
ConvertEnds == phase # "idle" ~> phase = "idle"

=============================================================================
