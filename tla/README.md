# A TLA+ model of the data library

The data library (`README.md`, `include/dl/`, `src/`) stores C structs as
binary blobs that can be loaded by fixing up their pointers.  The structs are
described by type libraries, loaded into a context at run time; instances can
also be written and read as text, and converted to other byte orders and
pointer sizes.  The library is sequential: no threads, no callbacks that come
back into it.  What is hard in it is

* **shared memory**: one blob is both read and written, offsets become
  addresses in place, indices refer into tables that are appended to;
* **order**: what is written depends on the order of members, of references in
  a text, of libraries loaded into a context, and a second function relies on
  what the first made of that order;
* **failure half-way**: errors in a text end in a `longjmp` past everything
  that was done so far;
* **boundaries**: the empty, the first (index or offset 0), the last, the
  buffer too small, the 32-bit half of a word.

Throughout, file names are relative to `src/` of the repository (so
`src/dl.cpp` is the library's core) and `module X` is `X.tla` here.

## 1. The components

| component | state | operations | talks to |
|---|---|---|---|
| pointer chain (`src/dl.cpp:52`, `:74`, `:526`, `src/dl_txt_pack.cpp:1329`) | the words of the blob, the header, the list of pointer positions | link the pointer words while packing; walk them while loading | instance store and text packer make it, load follows it |
| type-driven patching (`src/dl_patch_ptr.cpp`) | the set of addresses patched so far | patch a member, array, union, instance | load of blobs too long for a chain; default values of the text packer |
| instance store (`src/dl.cpp:145-563`) | the blob, the writer's position, written pointers, strings, pointer positions | store a member, a string, a pointee, an array; calculate the size | binary writer, type tables; called by the library writer and the text unpacker |
| context and type tables (`src/dl.cpp:10`, `src/dl_types.h`) | types, members, enums, values, aliases, strings, default values, metadata | create, destroy, append, look up | everything |
| type library from text (`src/dl_typelib_read_txt.cpp`) | the tables, the reader's position | read types, enums and members; sizes; fix-up; default values; metadata | text packer (default values, metadata), load in place (metadata) |
| binary type library (`src/dl_typelib_read_bin.cpp`, `src/dl_typelib_write_bin.cpp`) | the tables, the file | write all tables; append the tables of a file, moved | instance store (metadata), load in place |
| reflection (`src/dl_reflect.cpp`) | none | copies of descriptions | type tables |
| text packer (`src/dl_txt_pack.cpp`) | the blob, subdata positions and references, pointer positions | pack members, arrays, unions, default values; resolve references to subdata | text reader, binary writer, type tables |
| text reader (`src/dl_txt_read.cpp`, `.h`) | a position in a text | eat and skip tokens | packer, library loader |
| text unpacker (`src/dl_txt_unpack.cpp`) | the text, the subdata found | load in place, store in place, write members, write subdata | pointer chain, instance store |
| conversion (`src/dl_convert.cpp`) | source and target blob, instances found, addresses to fix | collect, write, fix the pointers, swap the header | binary writer, type tables |
| binary writer (`src/dl_binary_writer.h`) | position, needed size, buffer | write, reserve, align, seek | all writers |
| containers, allocator (`src/dl_types.h:341`, `src/dl_alloc.h`) | a growing array | add, grow | all |
| library as text, C header (`src/dl_typelib_write_txt.cpp`, `src/dl_typelib_write_c_header.cpp`) | none | formatting | type tables |
| files, tools (`src/dl_util.cpp`, `tool/`) | none | read, call the library, write | all of the above |

What makes each of them correct:

* *Pointer chain*: loading turns every pointer's offset into its address and
  changes nothing else, for every order in which pointers were written and any
  number of loads; the walk ends, and accepts what the library made.
* *Instance store*: the blob is the instance: values, strings, sharing and
  cycles.  The calculated size is right.  Nothing is written outside the
  buffer.  A store over the instance itself reads before it writes.
* *Type libraries*: what is loaded into a context, by whichever way and order,
  is what was declared, and leaves what was there alone, also when it fails.
* *Text packer*: it makes the same instance as a store of what the text
  describes; references between subdata are resolved in any order.
* *Conversion*: converted to and fro an instance is what it was; the source is
  not changed.
* *Type layout*: members do not overlap, are aligned, and a bitfield group is
  one word; all bits are inside it.

Every hazard of the code, at its line and with the properties that cover it,
is in `PROJECT.json` under `hazards`; those without one are what the plan below
is ordered by.

## 2. The modules

| module | what it is | of the code |
|---|---|---|
| `PtrChain` | packing and loading, at the level of pointer words | `dl.cpp:52-143`, `:526-548`, `dl_txt_pack.cpp:1329-1356` |
| `PointerLoad` | the abstract specification: a load turns every offset into an address | - |
| `PtrChainProofs` | the proofs about `PtrChain` | - |
| `MCPtrChain` | sizes for TLC | - |
| `Store` | the recursive store, member by member, and the store in place | `dl.cpp:145-563`, `dl_txt_unpack.cpp:833-855` |
| `StoreProofs` | the proofs about a store: its invariant, the chain's writing part, the instance; a store goes from memory alone | - |
| `StoreInPlaceProofs` | the store of a loaded instance over itself | - |
| `TypePatch`, `MCTypePatch` | loading a stored blob that has no chain, by walking the types | `dl_patch_ptr.cpp`, `dl.cpp:74-143` |
| `NatInduct` | induction and iteration over numbers in the form the provers take | - |
| `MCStore` | instances for TLC | - |
| `TypeLib` | the tables of a context; loading from text and files, writing | `dl_typelib_read_txt.cpp`, `dl_typelib_read_bin.cpp`, `dl_typelib_write_bin.cpp` |
| `TypeLibProofs` | the proofs about `TypeLib`: its inductive invariant, one lemma for each step, and what a context keeps that only grows | - |
| `TypeLibMeaning` | what is found for a name is what was declared; a file is written as it was | - |
| `MCTypeLib` | libraries for TLC | - |
| `TxtPack` | the packing of a text: members, arrays, default values, `__subdata` and the references to it | `dl_txt_pack.cpp`, `dl_typelib_read_txt.cpp:223-298` |
| `TxtPackProofs` | the proofs about `TxtPack`: what is to be done is in the blob, and both passes go one way | - |
| `TxtPackFilled` | a packed blob has no holes, and its offsets are those recorded | - |
| `MCTxtPack` | types and texts for TLC | - |
| `TxtUnpack`, `MCTxtUnpack` | the writing of a loaded instance as text: members, arrays, unions, the walk over what pointers refer to, `__subdata` | `dl_txt_unpack.cpp:1-831` |
| `Convert`, `MCConvert` | conversion between byte orders and pointer sizes, in place and into another buffer, and the calculated size | `dl_convert.cpp`, `dl_binary_writer.h` |
| `TypeLayout`, `MCTypeLayout` | sizes, offsets, bitfield groups, named lengths and flags of types, for both pointer sizes | `dl_typelib_read_txt.cpp:296-558`, `:1371-1405` |

`Store` ends where `PtrChain` begins: the list `ptrs` and the words it names.
That they fit is checked: `WritesForChain` says that every step of a store is a
step of `PtrChain`'s writing part, seen through the mapping at the end of
`Store`.  `PtrChain` in turn implements `PointerLoad` (`KeepsPromise`).  A blob
that is too long for a chain goes to `TypePatch` instead, which extends `Store`
by a load, and has to implement `PointerLoad` too: that the two ways to patch
turn the same words is that they do.
`TxtPack` also ends there: its `ptrs`, in the order of the text, are the other
list that `PtrChain` starts from (`TxtFinish`), and `PointersRecorded` says what
`PtrChain` takes for granted about it.  `TxtUnpack` and `TxtPack` meet in the
text: `TextPacks` asks of what the one writes all that the other refuses a text
for.  `Convert` takes the chain apart that `PtrChain` made and makes another,
and the offsets it goes by are those that `TypeLayout` calculates
(`ConvertAssumption` asks that they are).  The flag that `ReferencesMarked` is
about is what `dl.cpp`, `dl_patch_ptr.cpp` and `TxtUnpack` go by.

### PtrChain

State: the list of pointer positions (`ptrs`, in the code `store_context.ptrs`
or `packctx.ptrs.addresses`), the words of the blob (`word`), the header
(`hdr`), the loop index of the linking loop (`link`), the loaded words (`inst`)
and the loader's two loop variables (`cursor` for `patch_mem - base_ptr`, `next`
for `offset_to_pointer`).  `stored`, `patched` and `damaged` are history.

Actions: `Reserve` and `StorePtr` are what the writers do to the pointer words,
in any order and to any place; `Finish` is the header and the sort, `FinishBare`
the header of a blob without a chain; `Link` is a turn of the linking loop;
`Load` begins a load (`dl_instance_load` and `dl_instance_load_inplace` walk
alike), `WalkPatch`, `WalkReject` and `WalkDone` are the turns of
`dl_ptr_chain_patching`.  The two writers differ in one line: `dl_instance_store`
sets `first_pointer_to_patch` after the sort, `dl_txt_pack_internal` before it;
and the text packer makes default values without a chain whatever their size
(`use_fast_ptr_patch`).

The header's fields are cut to their 32 bits (`SizeRange`).  That loses nothing
of a blob with a chain, which ends below 2^32 on a host with words of 64 bits and
below 2^16 on one with words of 32 (`LayoutInv`); of a blob without one it does.
Such a blob is written here but not loaded: nothing is said in `PtrChain` of how
it loads, and its load is `TypePatch`'s.

`Damage` is there for the statements that are about the loader alone.  Every word
that is read from a damaged blob may then be any of `DamagedWords`, independently
of what was written where it is.  So the model need not know the bytes: a damaged
distance of less than a word leads to a word that has bytes in common with the one
that was just patched, whatever they are by then.  It follows that words can be
changed again by a walk over a damaged blob; `WalkGoesUp` states what does hold.

A word is a number and its halves are `% HalfRange` and `\div HalfRange`: the
code's mask and shift.  The `or` of the distance is an addition, as the high
half is empty then (a part of the invariant, `LinkInv`).

### Store

A cell is the room of a word.  A type is the sequence of its members: a number
or bitfield is `data`, a struct in a struct is its members, an inline array its
elements; `str`, `ptr` and `array` are the members that refer to something.
`stack` is the recursion of `dl_internal_instance_store`: its entries hold what
the C++ frames hold, above all the local variable `offset` between the write of
a pointee and the write of the pointer.  `Read` is the memory that the store
reads: the program's (`origin`), or, for a store in place, the buffer itself.

`StoreInPlace` is what `dl_txt_unpack` does: load in place, then store the
instance into the buffer it is in.

`placed`, `filled`, `blob` and `needed` are history: the structs and arrays that
got a place, the positions written, the blob before it was loaded, the size that
was calculated.  `HeaderSize` is the header, which a buffer has to be longer than
(`dl.cpp:494`), `HeaderCells` the header aligned for the instance.  At the end of the module are the parts of the inductive
invariant, which the run checks where they are properties of their own and the
proofs use (section 4), and `OneTypePerAddress`: whoever refers to an address of
an instance takes it for one type.

Not modelled: alignment (a hole is then filled with zeros), unions, the error
for a type that is not in the context, arrays that contain an instance which
refers to the array (the recursion does not end for them), that `produced_bytes`
is cut to 32 bits (`dl.cpp:552`), and what a store in
place does with a value that was an address and has been overwritten: the model
stops there, `UnpackedTwice` is violated before.

### TypePatch

State, beside that of `Store`: the loaded instance (`mem`, by the positions of the
blob), the recursion (`todo`: the members that are still to be patched, each with
its address) and the addresses of the structs that are known (`known`, in the code
`patched_payloads`).

Actions: `LoadInPlace` and `Load` begin a load; `Load` copies the bytes that the
header's field counts (`Copied`).  `PatchString`, `PatchPointer`, `PatchArray` and
`PatchData` are the cases of `dl_internal_patch_member`.  Only the root and what
pointers lead to are known by their addresses: a struct that is held by another,
or is an element of an array, is walked as a part of it.  A pointer to a
struct that shares its address with the one that holds it finds that one known, and
is right to: it is walked as a part of it.  Nothing else has two pointers of
different types to one address, since the store tells what it has written by its
address too (the finding about `FindWrittenPtr` in section 3).

Not modelled: unions; members and types whose mark says that they refer to nothing
are `data` (that the mark is right is `TypeLayout`'s `ReferencesMarked`); the
patching of a default value, which is in `TxtPack`'s `PackDefault`.

### TypeLib

State: the tables of `dl_context` (`ctx`), with indices from 0 and `None` for
`UINT32_MAX`; what is being loaded and how far (`phase`, `lib`, `pos`), the
local variables that survive from the begin of a type or enum to its end
(`local`), the starts of the new part of the tables (`start`), files written
(`files`), and, as history, what was declared by the libraries loaded (`log`).

Actions, text: `ReadBegin`, `ReadMember`, `ReadType`, `ReadValue`, `ReadEnum`
append to the tables what the functions of these names append.  `ParseError` is
a `dl_txt_read_failed` anywhere; `FixUp` or `UnknownType` the loop that looks
for the members' types; `BuildDefault` or `DefaultFails` the packing of a
default value through the temporary type `a_type_here`, found by its name;
`CreateMetadata` or `MetadataFails` the packing of metadata, whose
type has to be a loaded one (`Loaded`).  Files:
`WriteLibrary`; `LoadTables` for all loops that append and move; `LoadMetadata`
for a blob at the offset that the file gives for it, `LoadMetadataLost` when
there is none at that offset; `LoadBinaryDone` for the default values.

The properties do not look at the tables but at what a user finds: the members,
values, aliases, comments and metadata of a *name*, through the look-ups of
`dl_types.h` and `dl_reflect.cpp`, against the declarations.

Not modelled: sizes and offsets of types and members, `c_includes`, byte order
of files, capacities.  Libraries are written only while all loads into the
context succeeded: the metadata table may hold ranges of text otherwise, and
what the code does with them is undefined.

### TxtPack

A text is what the scanner makes of it: a struct is the sequence of the members
that are given, in their order, each with a value; the section `__subdata` is a
sequence of named structs.  `todo` is the recursion of the parser: the values
that are still to be packed, each with its place (`member_pos`) and whether the
writer is moved there first or goes on where it is, as for the elements of an
array of words.  What a struct does not give follows what it gives, as a task
with the value `default`.  `pos` and `end` are the writer's `pos` and
`needed_size`; `refs` is `packctx.subdata`, `items` is `subinstances`.

Actions: `PackWord`, `PackString`, `Refer`, `PackStruct`, `PackArray` and
`PackInlineArray` pack a value that the text gives, `PackDefault` copies a
default value, what it refers to and all, and moves its offsets, and `Refuse` is
the `longjmp` out of a member set twice, a missing one, or too many elements.
`dl_txt_pack_finalize_subdata` is `RefuseNoSection`, `PackItem`, `UnusedItem`
and `Resolve`.  `PackWithNeededSize` packs the text a second time, into a buffer
of the size that `dl_txt_pack_calc_size` gave, with whatever the caller left in
it.  In the phase `undefined` the code uses the entry behind the last of
`packctx.subdata`: an item to which nothing refers, and whose hash is larger
than those of all references.  `RefusedForFaults` keeps the three ends of a packing
apart: packed, without a fault; refused, for one; undefined, for such an item
(`Missed`).  That the last should not be is `UnusedRefused`, which fails (section 3).

The properties compare the blob with the meaning of the text, which is stated
without the packer: `Structs` are the structs of the text with their places,
found by following the blob's own offsets from the instance, and `Slots` their
values.

Not modelled: alignment, bitfields, unions, enums, structs written as `[..]`,
buffers that are too small, the scanning of the text.  Default values are words,
strings and arrays of these.  `TxtPackAssumption` asks of a struct that fills up
an inline array that its members have default values, as the code does not look
(`dl_txt_pack.cpp:908`), and of every type that it has room for something: types
without members are refused (`dl_typelib_read_txt.cpp:1262`).

The scanner reads every value as its member's type asks, so that a text has a
*typing* (`WellTyped`): the structs in it with the types they are read as, its
values, and the type that each name stands for, since an item is read as the
type of the first reference to it (`dl_txt_pack.cpp:1214`).  `Typing` is a
constant that gives each text its typing, and `TextsAssumption` asks that it is
one; TLC evaluates it for all texts of the run.

### TxtUnpack

State: the loaded instance (`mem`, by addresses that count from it), the
recursion (`todo`: what is still to be written or walked), the maps and lists
that are begun (`open`), the addresses whose struct is in the text (`known`, in
the code `unpack_ctx.ptrs`) and `has_ptrs`.  A text is a tree; names of pointees
are their addresses, as in the code (`ptr_<distance>`).

Actions: `WriteWord`, `WritePtr`, `WriteStruct`, `WriteArray` are
`dl_txt_unpack_member` and `_array`; `StructEnd` or `WriteSubdata`, and `Close`,
the end of `dl_txt_unpack_struct`; `WalkPointee`, `WalkKnown`, `WalkStruct`,
`WalkArray`, `WalkNothing` are `dl_txt_unpack_write_subdata` and the functions
it calls.  The properties read the text as `dl_txt_pack` does: from the root,
members by their keys, and on at an item when it is named.

Not modelled: the form of numbers, the escapes in strings, enums by name and
bitfields (all are `data`), and the size of the buffer.

### Convert

A cell is 4 bytes: a word is one cell or two, a number one or two, a string or a
bitfield's word one.  A cell knows the byte order it is in; one read in the
other order is not readable, and a word with a distance in it is not an offset.
State: the source and the target (`mem`, `hdr`, `length`; in place they are
one), the local copy of the header, and the conversion's context: `instances`,
`patches`, the writer.

Actions: `RefuseInPlace`, `CopySame` and `Start` are the three ways
`dl_internal_convert_instance` begins; `Neutralize` and `NeutralizeDone` the
loop that takes the chain out of the source; the `Collect...` actions
`dl_internal_convert_collect_instances`; the `Write...` actions what is under
`dl_internal_convert_write_instance`.  An unknown tag of a union ends the
collecting, but its error is dropped (`CollectBadTag`): what was found is sorted
and written, up to the union if that was found, where the error comes up again and
is returned with the target half written (`WriteBadTag`).  If the union was not
found, because it is in an array, there is no error.
In the last loop `PatchNext` is a turn, which writes the new offset and the distance to
the next reference (an instance that was not found has the offset 0); `PatchDone`
returns.  `UseResult` is the program, which goes on with what it got, or
converts the source again.

The properties compare a blob with the program's own blob, `origin`, by walking
both in step (`Pairs`).  The order of bits in a word of bitfields, which differs
between byte orders, is part of it (`FieldsOf`).

The instances found are told apart by their addresses (`IsSwapped`,
`dl_convert.cpp:45-51`).  What a pointer refers to can be at the address of
something else in one way only: as the first thing that is in the instance, or in
what a pointer refers to.  Neither of the writers makes another: `dl_instance_store`
remembers the root (`dl.cpp:521`) and what a pointer led to (`:239`), but neither
the elements of an array nor a struct that is held by value, so that a pointer to
one of these gets a copy of it in the blob, and a text can name the instance and the
items of `__subdata` only.  The blobs of the run have a pointer to a box and one to
the item that is the first member of the box.  A blob from elsewhere, with a
pointer into the middle of what is collected as a whole, is not in the model:
`Convert` would write what is there twice, so that it is no longer shared and that a
conversion in place may grow.  `ConvertedMeansSame`, `RoundTripExact` and
`NeededSizeFits` are about blobs of the library's own.

Not modelled: numbers of less than 32 bits, blobs of version 1 (which
`dl_convert.cpp` reads as well, `:899`: their offsets count from behind the header,
and they have no chain), and a target of another program that
is too small (the writer stops, the code reports no error).

### TypeLayout

State: the types and members that are in the context with their sizes,
alignments and offsets, each a pair for 32 and 64 bits; the recursion of
`dl_load_txt_calc_type_size_and_align` (`stack`: the type, the next member, the
local `size` and `align`, and `bitfield_group_start`); and how far the loops
over the types of the library are (`turn`).

Actions: `ReadType` is what the reader leaves; `NextType` and `SizeHeldType`
call the function, `PlaceBuiltin`, `PlaceStruct`, `PlaceArray`, `PlaceBits` and
`SkipUnknown` are the cases of its loop, `NoSuchCount` its error, `TypeSized`
its end; `FixMembers` or `UnknownType` is the fix-up, `SetFlags` the loop that
marks the types.  Default values, which are built between these two, are in
`TypeLib`.

`DeclaredLayout` says what a declaration alone determines; that the result does
not depend on the order of declarations and libraries is `LaidOutAsDeclared`.  `ReferencesMarked`
goes by what is declared too: the fix-up, when it finds that a type's name is an
enum's, overwrites the storage, be it that of a pointer.

Not modelled: types that hold themselves by value (the code's recursion does not
end), types of size 0, the `verify` flag.

## 3. What TLC checks

Every run finishes in three minutes with two workers.

| run | shows | bounds |
|---|---|---|
| `ptrchain` | `ChainInv`, `StoreLoadPatchesAll`, `OnlyPointersPatched`, `OwnBlobsAccepted`, `TxtLoadPatchesFromFirst`, `WalkGoesUp`, `LoadEnds`, and that the chain of `dl_instance_store` implements `PointerLoad` (`KeepsPromise`, with its liveness) | both writers; words of two units, which may overlap in one when damaged, a header of one, blobs of up to 8 units and half words of 8 values: up to 3 pointers in a chain, and blobs just too long for one; any word of a damaged blob is any of five, with distances of 0, 1, 2 and 3 and with offsets inside, at the end and behind it |
| `ptrchain_txt` | **violated**: `TxtLoadPatchesAll` | as `ptrchain` |
| `store` | `OneTypePerAddress` (assumed by a proof) of its memories; `InstanceKept`, `WellFormed` (the types, no holes), `SharedStrings`, `BlobRestored`, `NeededSizeFits`, `WritesForChain`, `StoreEnds` | a list with an array of two items, a third item and two strings, all ways to refer to each other and into the array; a header that the alignment of the instance makes longer; buffers of 0 (calculate the size, then store with it), the header, the header and its alignment, and too small |
| `store_text` | **violated**: `UnpackedTwice` | blobs of the text packer with up to two structs and three strings |
| `typepatch` | `LoadsByType`, and that walking by types implements `PointerLoad` as well (`KeepsPromise`, with its liveness) | 112 lists with an array of two items, a struct whose first member is an item, an item, and pointers to all of them and back; loaded in place and elsewhere, at a size that fits its field |
| `typelib` | `NoTemporaryDeclared` (assumed by proofs) of its libraries; `TypeOK` (the descriptions, and every reference inside its table, at every step, of the context and of the files), `TypesKept`, `EnumsKept`, `LaterMetadataKept`, `EarlierKept` | six libraries of one to three declarations: independent ones, ones that need another for a member or for metadata, one with a default value that does not fit, one whose metadata repeats a string; two loads into a context, two files, of contexts with one or two libraries; a load from text may fail anywhere |
| `txtpack` | `TextsAssumption`, `RefsLast` (assumed by proofs) of its texts; `TextKept`, `WellFormed` (the types, no holes), `PointersRecorded`, `NeededSizeFits`, `RefusedForFaults`, `PackEnds` | 2436 texts: a document with a pointer, an array of strings, an inline array of two nodes, a number and an array of pointers, its members in six orders, one left out or set twice; up to two items that refer to themselves, each other, the document, or nothing; two names with the same hash |
| `convert` | `ConvertedMeansSame`, `WellFormed` (the types, the chain complete or absent), `RoundTripExact`, `NeededSizeFits`, `RefusedForUnions`, `ConvertEnds` | 30 blobs of one instance with bitfields, an inline array of structs, an array of numbers, a union of three members, two strings, a cycle, and pointers to a struct and to its first member; of both byte orders and pointer sizes, with chains and too large for one; two calls, each any of the three with any format |
| `typelayout` | `WellFormed` (the types, no overlap), `LaidOutAsDeclared`, `ReferencesMarked` | a type with three members out of 12 (numbers, a string, an array, bitfields of 3, 6 and 30 bits, a struct once and twice, a union, an enum, an array whose length has a name), a struct that points back to it, a union that holds the struct, explicit alignment; three orders, in one library or two |
| `layout_bitfields` | **violated**: `NoOverlap` | the same types with an array between bitfields |
| `txtunpack` | `TextMeansInstance` (with the types), `TextPacks`, `UnpackEnds` | 864 instances: a document with an inline array of two nodes, an array and an inline array of pointers, a union of a number, a pointer and a struct, arrays of structs and strings; two further nodes that refer to each other, themselves and the document |
| `txtunpack_first` | **violated**: `TextPacks` | the same, but the document begins with the nodes it holds |

Why these bounds are enough: the linking loop and the walk treat all words but
the first and the last alike, so three pointers have every case (first, middle,
last), and one unit more than half a word has both kinds of blob.  In `TypePatch` an
address is met for the second time from inside and outside of what is there, by a
cycle through one struct, two and the root.  In `Store`
what can go wrong needs two referrers and one referee, a cycle needs one or two
structs, and a nested write two levels.  In `TypeLib` an index that is not moved
shows with two libraries, and a file written from a context that was itself
loaded from files with two files.  In `TxtPack` what one value does to another
goes through the writer's position and end: two members in another order, a
nested struct and one item behind the instance have every pair of cases, and
two items have every order of a name and its use.  In `Convert` two calls are
there and back, or twice from one source, and the instance has one member of
every kind that a function of its own converts; a blob converted again after that is in one of
the states a first conversion starts from.  In `TypeLayout` the state that one
member hands to the next is the size, the alignment and the group of bitfields:
three members have every pair of kinds and a third between them.  In `TxtUnpack`
two nodes have every cycle through one, two and the instance.

Bounds of the models that are not in the code: `BufferSize` (`PtrChain`),
`HalfRange` and `SizeRange` (`PtrChain`, `TypePatch`: the values of half a word and of
a field of the header), `Distance` and `Leftovers` (`TypePatch`: where the instance is
loaded to and what was there), `LastCell` (`Store` and `TxtPack`; `StoreEnds` and `PackEnds` show that it never
stops a call), `MaxFiles`, `MaxLoads` (`TypeLib`), `Depth` (`TxtPack`, `Convert`), how
far the properties look, `LastCell` (64 cells), `HalfRange` (31 cells for
32 bits, so that the larger blobs have no chain) and `MaxCalls` of `Convert`,
and `Nested` (`TxtUnpack`), how deep types hold types.  Three constants leave out
what is known not to hold: `BothForeign` (`MCConvert`), `Clash`
(`MCTypeLayout`) and `NodeFirst` (`MCTxtUnpack`), and the blobs of another machine in
`convert` have their unions outside of arrays; see below.  Deadlock is checked where a system does not stop; `Store`, `TypePatch`,
`TxtPack`, `TxtUnpack`, `Convert`, `TypeLayout` and `TypeLib` end when all is done
or the bounds are reached, and `PtrChain` when a blob is refused.

### Fairness

`PtrChain` and `TypePatch` have weak fairness on the steps of a load, `Store` on the steps of a
store, `TxtPack` on those of a packing, `TxtUnpack` on those of an unpacking and
`Convert` on those of a conversion once it has begun: each is the body of one function call on one thread, which goes on until
it returns.  Nothing else is fair: a program need not load what it packed, nor
load anything again.

### What the code does not keep

Four statements of the documentation and tests that do not hold are
runs with `expect: violation` and findings in `PROJECT.json`.

1. `ptrchain_txt`: `dl_txt_pack` reads `first_pointer_to_patch` before the sort
   (`dl_txt_pack.cpp:1340`).  A text whose first pointer is not the lowest, as
   with members out of order, loads with pointers left as offsets.
   `TxtLoadPatchesFromFirst` says exactly which.
2. `store_text`: storing in place over a blob made by `dl_txt_pack` overwrites
   what has not been read (`dl_txt_unpack.cpp:846`): the order of a text
   packer's blob is not that of a store.  Blobs made by `dl_instance_store` are
   restored exactly (`BlobRestored`).
3. `layout_bitfields`: an array does not end a group of bitfields when places
   are given out (`dl_typelib_read_txt.cpp:460`), but does when bits are
   (`:311`): bitfields before and behind an array are the same bits.
4. `txtunpack_first`: the instance is known by its address
   (`dl_txt_unpack.cpp:752`), which is also that of a struct it holds as its
   first member; the text then has two sections `__subdata`, and
   `dl_txt_pack` refuses it.

More are stated in the modules and do not hold either; to see one, give the cfg
of the run the property or the constant that is named here.

* `TypePatch.LoadsByType` with `SizeRange = 4` and `Leftovers = {0, 3}`:
  `instance_size` has 32 bits (`dl.cpp:530`), and on a host with words of 64 bits it
  is exactly the blobs of 2^32 bytes and more that are patched by their types (`:533`).
  `dl_instance_load` copies the low part only (`:99`) and walks all of the instance;
  also `consumed`, and the check of the target's size (`:86`), go by the low part.
  Loading in place copies nothing and is right.  `typepatch` has both, with a size
  that fits, which is what a host with words of 32 bits makes.
* `TxtPack.UnusedRefused`, on `txtpack` as it is: the search for the references of an
  item stops at the end of the table as it stops at a match, and the entry is used
  (`dl_txt_pack.cpp:1199-1214`).  An item that nothing refers to is refused ("non-used
  subdata") only when a reference with a larger hash is there; `RefusedForFaults`
  leaves out what becomes of the others.
* `Convert.ConvertedMeansSame` with `Blobs <- MCMenus`, `Root = "Menu"` and
  `LastCell = 54`: an error of collecting the instances is dropped
  (`dl_convert.cpp:821`).  The tag of a union that another machine wrote is unknown
  (`:646`); in an array this ends in `DL_ERROR_OK` and a blob whose references are 0,
  in place over what was not collected.  A debug build stops at the assertion `:875`.
* `TypeLayout.ReferencesMarked` with `Clash = "enums"`: a member declared as a pointer
  to an enum becomes an enum (`dl_typelib_read_txt.cpp:1384`), although the
  repository's `README.md` lets a pointer be one "to any user-defined type".
* `Store.InstanceKept` on `MCPair`/`MCPairs` (`Root = "Pair"`): pointees are
  found by address only (`dl.cpp:162`).  A pointer to a struct and one to its
  first member collide, and the second is lost.
* `TypeLib.MetadataKept` (`Texts <- MCMetadataTexts`): index 0 is taken for
  "none", so that what has the first metadata of a file gets that of another
  library (`dl_typelib_read_bin.cpp:162`).  All other metadata is right
  (`LaterMetadataKept`).
* `TypeLib.FilesReadable` (`Texts <- MCTwinTexts`): the offsets of metadata are
  those of other blobs than are written (`dl_typelib_write_bin.cpp:40`).
* `TypeLib.RetriedTypesKept` (`Texts <- MCRetryTexts`): a refused library stays
  in front of its second load (`dl_typelib_read_txt.cpp:1410`).
* `TxtPack.MissingElementsZero` (`Members <- MCInlineMembers`, and so on): a
  reference is noted but does not move the writer (`dl_txt_pack.cpp:327`), so
  that nulls and the zeros for elements that are not given
  (`dl_txt_pack.cpp:923`) go to the slots of the references before them, and
  their own keep what the buffer held.  The slots of the references are right in
  the end (`Resolve`); arrays of pointers whose nulls come first are right
  altogether (`txtpack`).
* `Convert.ConvertedMeansSame` with `BothForeign = TRUE`: pointers are brought
  into the target's byte order only if the source's is another
  (`dl_binary_writer.h:183`), so that a foreign blob that only gets another
  pointer size has its pointers in the host's order.
* `TypeLayout.LaidOutAsDeclared` with `Clash = "lengths"`: the name of a length
  is compared up to its own end (`dl_typelib_read_txt.cpp:365`), so that
  `type[SIZE]` takes `SIZE_MAX` when that is declared first; an empty name, or
  `type[0]`, takes the first name of the context.

More were met in the same code.  Where they are modelled the models do what
the code does; no property is stated about them:

* `dl_typelib_read_bin.cpp:166-174`, `:193-198`: the comments of members and
  enum values are not among the indices that are moved (`MovedMember` and
  `MovedValue` leave `comment` alone), so those of a second library are other
  strings.
* `dl_typelib_read_txt.cpp:268`: a default value that was refused leaves
  `a_type_here` behind (`DefaultFails`); it is found for every later default
  value, which is refused too, or packed as a value of the wrong type
  (`PackedAs`).
* `dl.cpp:541`: the linking loop runs over the whole of `ptrs` before the size
  of the buffer is compared with what was needed.
* `dl_txt_pack.cpp:1181`: `__root` is resolved to the size of the header, and
  default values are moved by it (`:798`), also when the alignment of the
  instance puts it elsewhere (read, not modelled: `TxtPack` has no alignment).
* `include/dl/dl_txt.h` promises an error for a buffer that is too small, but
  `dl_txt_pack` never compares (read, not modelled).
* `dl_convert.cpp:852`: `instance_size` of a foreign blob is left in the host's
  order (`sizeOrder`): the bound of the walk is void on the way back
  (`SizeRead`), and `dl_instance_get_info` reports it swapped.
* `dl_convert.cpp:646`: tags of unions are written and read in the host's order,
  whatever the blob's; a blob that another machine wrote is refused as
  malformed while it is written (`WriteBadTag`, `RefusedForUnions`), in place with
  a part of it overwritten, or it is not refused (`MCMenus` above).
* `dl_convert.cpp:968`: the chain is taken out of the source also when only the
  size is calculated; the source is not `const` and stays loadable.
* `dl_convert.cpp:674`: the bytes a union's member leaves before the tag are not
  written: a converted blob has there what the buffer had (`Old`).
* `dl_convert.cpp:928`: blobs that need no conversion are copied, and reported,
  with the size of the buffer, not of the blob; no buffer is found too small.
* `dl_typelib_read_txt.cpp:499`, `dl_types.h:564`: a loader places a union's tag by
  its members' alignment alone, without the type's `align`.
* `dl_txt_unpack.cpp:567`: items end with a comma, also the last; a null pointer
  alone makes an empty section (`hasPtrs`); a pointer into a struct that is held
  by value is written as a copy of it, so that it is a second struct when packed.
* `README.md` of the repository shows `__subdata` beside the root type; the code
  takes it as a member of a struct only (`dl_txt_pack.cpp:1071`).  It also says
  that trailing members of a struct written as `[..]` may be left out, which the
  code refuses (read, not modelled).

## 4. What is proved

### The pointer chain

`PtrChainProofs` holds machine-checked proofs, for every size of buffer, header,
word, half word and field of the header (`SizeAssumption`: they are numbers, the
header is inside the buffer, a field has the values of half a word), every set of
writers and every set of damaged words.

* `ChainInvariant`: `Spec => []ChainInv`.  `ChainInv` is inductive.  Its parts:
  `LayoutInv` (pointer words lie apart, inside the data), `PtrsInv` (`ptrs` is
  the pointer words, each once; strictly ascending and its last one repeated
  once a chain is made), `LinkInv` (the chain is made up to the loop index: each
  word before it holds its offset and the distance to the next), `HeaderInv`,
  and `WalkInv` (a walk that began at `ptrs[s]` has patched `ptrs[s..k-1]`, is at
  `ptrs[k-1]` and has the distance to `ptrs[k]` in hand).  The last is what
  makes it inductive: the result alone, "all are patched", says nothing about
  where a walk is.
* `StoredBlobLoads`, `PackedBlobLoadsFromFirst`, `OwnBlobsLoad`,
  `OnlyPointers` follow from it.  They are about blobs with a chain; the others are
  not loaded in `PtrChain` (`ChainOnly`), and their loading by types (`LoadsByType`)
  is not proved.
* `WalkUp`: `Spec => WalkGoesUp`.  A walk only goes up (`WalkedUp`), of a damaged blob
  too; in one of the library's own by a whole word at least, as its words lie apart
  (`LayoutInv`).
* `StoreKeepsPromise`: every step of `PtrChain` is a step of `PointerLoad` or none,
  whoever writes and whatever is damaged.  The mapping makes no promise where the
  code makes none: a blob that is too long for a chain, or damaged, is packed and
  stays so, and the text packer's, whose pointers may be left as offsets, does not
  get that far (`LoadState`, `NotPromised`).

The one fact about the sort that the proofs use is that its result is ascending
and has the same elements.

### The store

`StoreProofs` and `StoreInPlaceProofs` hold the proofs about `Store`, for all types, memories, header and buffer sizes (`StoreAssumption`:
types have members, memory has values and addresses, a header is inside the
blob).  The parts of the invariants were checked by TLC on the run `store` before
they were proved.

* `RoomIsKept`: `RoomKept` (`TypeOK`, `RoomInv`, `PlacesInv`) is inductive, for
  stores from memory, for the calculation of a size, and in place.  `RoomInv`:
  every word of the blob that is reserved is written, or one call of the stack,
  and only one, is still to write it.  That is what makes "no holes" hold: the
  result alone says nothing of the rooms that the calls below the top have still
  to fill.  `BlobsWellFormed` follows, and `StoreWritesChains` (`WritesForChain`):
  every step of a store is a step of the writing part of `PtrChain`, so that what
  is proved of a chain is about the blobs that a store makes.
* `WordsAreKept`: the strings of a store from memory are those of memory, no two
  equal, and the offsets are where `ptrs` says (`WordsInv`).
* `AllInstancesKept`: `InstanceKept`.  `CellsInv`: every word that is written is
  what memory has, or an offset to the place of what that refers to.  `PlacedInv`:
  places lie apart, pointees are `written_ptrs`.  `CallsInv`: a call that waits
  has the place its callee was given, or will have it.  The walk over instance
  and blob then stays in `placed` (`PairsAreIn`, an induction over its steps).
  It is proved under `OneTypePerAddress`, and must be: `FindWrittenPtr` compares
  the address and nothing else, so that a pointer to a struct and one to its first
  member collide (`MCPair`, section 3).  The run `store` evaluates the assumption
  for its memories (`MCOneTypePerAddress`).
* `NeededSizesFit`: `NeededSizeFits`.  A store is a *run* of memory: the calls,
  what is remembered and the end of the blob go from one step to the next by a
  function of memory alone (`StepOf`), whatever the buffer and its size.  Both
  stores, the one that calculates and the one that writes, are iterations of the
  same function, and it has one end (`OneEnd`).
* `BlobsRestored`: `BlobRestored`.  The first store leaves in the blob, for every
  config of its run, the word that the run read or the offset that it gave
  (`CourseInv`); nothing that is written changes until the store ends.  The store
  over the loaded blob *mirrors* that run: its config is that of the run with
  blob positions for addresses (`Mirrors`), and each word that it reads is the
  word it is about to write, not yet written, so it still is what the load made of
  the blob (`HalfRestored`).  So it takes the same decisions, gives the same
  offsets and ends with the same blob.  For a blob of `dl_txt_pack` there is no
  such run, and `BlobRestored` does not hold of it: the theorem is about the model
  with `TextBlobs = {}`, where the blob that is loaded is one that was stored.
* `AllStringsShared` (`SharedStrings`) follows for both stores.

### The type libraries

`TypeLibProofs` and `TypeLibMeaning` hold the proofs about `TypeLib`, for all libraries, builtin names and default values that do not fit, any number of loads
into a context and of files.  `TextsAssumption` says what a library in text form
can be: types have members, and a default value that is not packed yet stands for
its place in the text, which is never taken for an index into the default values.
`TempTypeAssumption` says that the literal `a_type_here` is a string: TLC
evaluates it, the provers cannot know it.

* `ReferencesStayInTables`: `TypeOK`.  It is not inductive: a description refers
  to parts that were read before it, so where a reader stands has to be known
  (`ReadingOK`, `DeclOK`: `first` and the parts read so far are the end of their
  table); a default value is moved to the end of its table before the table has
  it (`LoadingOK`: until the last step of a load from a file the members refer to
  defaults that are still to come, `WithinOK` afterwards); and what is loaded
  from a file is inside the tables since it was inside the tables that were
  written (`FilesOK`).  `IInv` is the conjunction; `StepKeeps` has one lemma for
  each action.
* `LoadsKeepEarlier`: `EarlierKept`.  Every step but the start of a new context
  lets the tables *grow* (`Grows`): strings, types, enums, values, aliases and
  default values are only appended to, members and metadata that were there
  before the load stay.  A load does change members and metadata that it appended
  itself (`BuildDefault`, `CreateMetadata`).  What is found for a name then stays
  (`GrowingKeeps`): the look-ups take the first description of a name, and by
  `LogOK` all that it refers to was there before the load.
* `TypesMeanDeclarations` (`TypesKept`), `EnumsMeanDeclarations` (`EnumsKept`) and
  `MetadataMeansDeclarations` (`LaterMetadataKept`): what is found for a name is
  what was declared.  These properties are about contexts that are idle; the
  invariant `MeansInv` says at every step of a load that the tables mean a
  sequence of declarations (`TypesMean`, `EnumsMean`: a description for each
  declaration, in order, and each with the meaning of its own) - those of the
  loads that are done and as much of the present one as was read.  For a load
  from a file the tables that count are those which its last step leaves
  (`Whole`): in between, members refer to defaults and descriptions to metadata
  that are not there.  `PackedOK` tells default values that are packed from those
  that are still text, `PartsOK` what was read of a declaration.  `FilesMean`: a
  file means what was declared in the context it was written from.  The argument
  for a file is that its tables, moved, are *in* the tables of the context
  (`Embeds`), by the lengths these had, and that descriptions which are embedded
  keep their meaning; growing is to be embedded without being moved.  TLC checked
  `MeansInv` and `FilesMean` with the instances of `typelib` before they were
  proved.

  The three are proved under `NoTemporaryDeclared`, no library declares a type
  named `a_type_here`, and must be: `dl_txt_pack` finds the temporary type by
  name, and would find that one in its place (`dl_typelib_read_txt.cpp:252-273`; the
  check for it is a TODO, `:240`).
  The run `typelib` evaluates it for its libraries (`MCNoTemporaryDeclared`).
* `FilesWrittenAlike`: `RewrittenAlike`, a context into which only a file was loaded
  is written as that file.  No run is needed for it: nothing is relocated there.
  `RewriteInv`: while a file is loaded into
  an empty context, the tables that count are those of the file, since nothing is
  moved by the lengths of empty tables (`EmptyMoves`), and the blobs that were
  taken were at the offsets that a writer gives them.  That these are the offsets
  which are written again rests on `AsWritten`: blobs in a file have the size they
  are stored with.  Those that were packed from text may have another, which is
  how `FilesReadable` fails (section 3).

### The text packer

`TxtPackProofs` and `TxtPackFilled` hold the proofs about `TxtPack`, for all
types, default values, texts and hashes, every header and every bound of the
blob.  Their assumptions are `TxtPackAssumption` and `TextsAssumption`.

* `PackerTypeOK`: `TypeOK`, a part of `WellFormed`.  The inductive invariant is
  `PackInv`: `BlobOK` (the writer is in the blob), `TodoOK`, `NotedOK` and
  `ItemsOK` (what is remembered are places in the blob).  `TypeOK` says nothing of
  what is still to be packed; `TodoOK` does: every task has its whole room in the
  blob, and a value that fits it; one that packs where the writer is has the room
  behind that of the task before it (`Linked`).  Tasks are made by sums of sizes
  (`Offset`), copies of default values by the lengths of their strings: these are
  the lemmas before the invariant (`StructTasksTyped`, `DefaultCellsGood`).
* `CalculatedSizeFits`: `NeededSizeFits`.  As a store, a packing is a *run* of its
  text (`Run`, `StepOf`): the writer, the tasks, the references and the items go
  from one step to the next by a function of the text alone, whatever the buffer
  and whether the size is calculated only.  A run has one end, so the pass that
  packs ends where the one that calculated ended, and is not refused (`SizeInv`).
* `PackedBlobHasNoHoles` (`WellFormed`) and `PackedPointersRecorded`
  (`PointersRecorded`).  `FilledInv`, for the pass that packs: each place of the
  blob is written, or a task holds it, or an unresolved reference is there
  (`PlacesOK`); the recorded places are those of the offsets and of the
  unresolved references, each once, and no task will write to one of them again
  (`RecordedOK`); the tasks hold places apart from each other (`AllApart`); and the
  writer is at the place of a word that goes where the writer is (`Exact`).  The
  last two are what makes it inductive.

  The two are proved under `RefsLast`: in the arrays of a text nothing but
  references follows a reference, nor zeros for elements that are not given.  They
  must be: a reference does not move the writer (`dl_txt_pack.cpp:327`), so that a
  null behind it goes to its slot, `Exact` does not hold, and the null's own slot
  keeps what the caller had in the buffer; `MissingElementsZero` above is such a
  text.  The run `txtpack` evaluates `RefsLast` for its texts (`MCRefsLast`).

Inductions over the steps of a store or of a packing, and over the elements of a
list, are inductions over sets of numbers
(`NatInduct`): `SetInduction`, and `IterationExists` for functions that a
recursion defines, as the library's theorems take operators, which the provers
cannot instantiate.

### What is only checked

* The liveness properties (`LoadEnds`, `StoreEnds`, `PackEnds`, `UnpackEnds`,
  `ConvertEnds` and the fairness part of `KeepsPromise`), since the prover has no
  rule for `ENABLED` and well-founded progress.
* `TextKept` and `RefusedForFaults`.  Both compare with the meaning of a text,
  which is a closure over structs and the items they refer to (`Structs`); what is
  proved of `TxtPack` is that every cell is written and every offset recorded,
  not that a cell has the value of the member it belongs to.
* Everything about `TypePatch`, `TxtUnpack`, `Convert` and `TypeLayout`.  The properties of
  `TxtUnpack` read a text with recursive operators, which the prover cannot use;
  its transitions have none.

## 5. The plan

Modelled and checked: `PtrChain`, `Store` and `TypeLib` (these also proved),
`TxtPack` (proved but for what a text means), `TypePatch`, `Convert`, `TypeLayout`,
`TxtUnpack`.  Next, in this order:

1. Proofs.  `TxtPack`: every cell has the value of its member (`TextKept`).
   `TypeLayout`: offsets are aligned and members do not overlap (`NoOverlap`),
   for every world without an array between bitfields.  `TxtUnpack`: no address
   is known twice.  `TypePatch`: `LoadsByType` for every blob that `Store` makes.
2. `TxtPack`: alignment and unions, buffers that are too small.
3. `TypePatch`: unions; `Convert`: blobs of version 1.
4. `Tables`: capacities of the tables and of `CArrayStatic`, failed loads
   between loads from text and files.
5. Operators for byte swapping and the text scanner with reference definitions.

## 6. Not modelled

Operators of the scanner (`src/dl_txt_read.cpp`), `src/dl_typelib_write_c_header.cpp` and `src/dl_typelib_write_txt.cpp` (formatting
of tables), `src/dl_util.cpp` and `tool/` (files and arguments around the
library's functions), numbers as text, allocation failure (the code does not
handle it), and code that is not the library's (`external/`, `benchmark/`).
