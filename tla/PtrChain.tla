------------------------------ MODULE PtrChain ------------------------------
(***************************************************************************)
(* The pointer chain of a packed instance: how dl_instance_store and       *)
(* dl_txt_pack thread every pointer word of the blob into one linked list, *)
(* and how dl_instance_load walks that list and turns each offset into an  *)
(* address.                                                                *)
(*                                                                         *)
(* A pointer word of the blob is two halves.  The low half is the offset   *)
(* of the pointee from the start of the blob, the high half the distance   *)
(* to the next pointer word, 0 in the last one.  The header holds the      *)
(* position of the first.  A blob too long for half a word has no chain    *)
(* and is patched by walking the types instead: see TypePatch.             *)
(*                                                                         *)
(* Positions count from the first byte of the blob.  Of the blob's bytes   *)
(* the module keeps the words written through store_string, store_ptr and  *)
(* the array case of store_member (txt: pack_string, finalize_subdata,     *)
(* the array case of pack_member); all others read as 0, which is what the *)
(* memset of dl_instance_store leaves.  A position is that of a byte, so   *)
(* that two words less than WordSize apart have bytes in common.           *)
(***************************************************************************)
EXTENDS Integers, Sequences

CONSTANTS
  Encoders,      \* which writers make blobs: a subset of {"store", "txt"}
  BufferSize,    \* out_buffer_size; every blob of the model fits in it
  HeaderOffset,  \* align_up(sizeof(dl_data_header), alignment of the root)
  WordSize,      \* sizeof(uintptr_t)
  HalfRange,     \* 1ULL << offset_shift: the values of half a word
  SizeRange,     \* 1ULL << 32: the values of a size in the header
  Base,          \* the address the loaded blob's offsets are relative to
  DamagedWords   \* words that may be read from a damaged blob; {} for no damage

ASSUME EncodersAssumption == Encoders \subseteq {"store", "txt"}
ASSUME SizeAssumption ==
  /\ BufferSize \in Nat
  /\ HeaderOffset \in 1..BufferSize
  /\ WordSize \in Nat \ {0}
  /\ HalfRange \in Nat \ {0}
  /\ SizeRange \in Nat /\ HalfRange <= SizeRange
  /\ Base \in Nat
  /\ DamagedWords \subseteq Nat

Positions == 0..BufferSize

VARIABLES
  encoder,  \* the writer of this blob
  phase,    \* how far the blob is: see Phases
  end,      \* needed_size of the binary writer
  ptrs,     \* store_context.ptrs / packctx.ptrs.addresses
  word,     \* the blob: the word written at each position
  link,     \* loop index i + 1 of the linking loop
  hdr,      \* the header fields: instance_size, not_using, first_pointer
  inst,     \* the buffer the blob is loaded to: the word last written at each
  cursor,   \* patch_mem - base_ptr
  next,     \* offset_to_pointer
  stored,   \* history: the offset written for the pointer at each position
  patched,  \* history: the words the loader has turned into addresses
  damaged   \* history: the blob is no longer what the writer made

blobVars == <<encoder, end, ptrs, word, link, hdr, stored>>
loadVars == <<inst, cursor, next, patched>>
vars == <<phase, blobVars, loadVars, damaged>>

Phases == {"write", "link", "packed", "walk", "loaded", "malformed"}

(***************************************************************************)
(* A position of stored holds 0 when no pointer was written there: null    *)
(* pointers and empty arrays are written as 0 and never added to ptrs.     *)
(***************************************************************************)
Slots == {p \in Positions : stored[p] # 0}

Elements(s) == {s[i] : i \in 1..Len(s)}

(***************************************************************************)
(* std::sort: the strictly ascending sequence of the same elements (no     *)
(* pointer is added twice).                                                *)
(***************************************************************************)
Ascending(s) == \A i, j \in 1..Len(s) : i < j => s[i] < s[j]
SortedSeqs(s) ==
  {t \in [1..Len(s) -> Elements(s)] : Ascending(t) /\ Elements(t) = Elements(s)}

Low(w) == w % HalfRange
High(w) == w \div HalfRange

-----------------------------------------------------------------------------

Init ==
  /\ encoder \in Encoders
  /\ phase = "write"
  /\ end = HeaderOffset
  /\ ptrs = <<>>
  /\ word = [p \in Positions |-> 0]
  /\ link = 0
  /\ hdr = [size |-> 0, notUsing |-> FALSE, first |-> 0]
  /\ inst = [p \in Positions |-> 0]
  /\ cursor = 0
  /\ next = 0
  /\ stored = [p \in Positions |-> 0]
  /\ patched = {}
  /\ damaged = FALSE

(***************************************************************************)
(* The writer appends data (a struct, an array, a string) at its end.      *)
(***************************************************************************)
Reserve(e) ==
  /\ phase = "write"
  /\ end < e /\ e <= BufferSize
  /\ end' = e
  /\ UNCHANGED <<phase, encoder, ptrs, word, link, hdr, stored, loadVars, damaged>>

(***************************************************************************)
(* The offset o of data that is in the blob is written to the pointer at   *)
(* p, a word of data that was reserved before, and p is added to ptrs.     *)
(***************************************************************************)
StorePtr(p, o) ==
  /\ phase = "write"
  /\ p \in HeaderOffset..(end - WordSize)
  /\ \A q \in Slots : q + WordSize <= p \/ p + WordSize <= q
  /\ o \in HeaderOffset..(end - 1)
  /\ ptrs' = Append(ptrs, p)
  /\ word' = [word EXCEPT ![p] = o]
  /\ stored' = [stored EXCEPT ![p] = o]
  /\ UNCHANGED <<phase, encoder, end, link, hdr, loadVars, damaged>>

(***************************************************************************)
(* The header takes the low 32 bits of a size and of a position.           *)
(***************************************************************************)
Header(notUsing, first) ==
  [size |-> (end - HeaderOffset) % SizeRange,
   notUsing |-> notUsing,
   first |-> first % SizeRange]

(***************************************************************************)
(* The writer is done with the data and writes the header: without a chain *)
(***************************************************************************)
FinishBare(first) ==
  /\ phase = "write"
  /\ link' = 1
  /\ hdr' = Header(TRUE, first)
  /\ phase' = "packed"
  /\ UNCHANGED <<encoder, end, ptrs, word, stored, loadVars, damaged>>

(* Mutant: the addresses are linked in the order they were added.          *)
FinishUnsorted(first) ==
  /\ phase = "write"
  /\ end < HalfRange
  /\ link' = 1
  /\ hdr' = Header(FALSE, first)
  /\ IF ptrs = <<>>
     THEN phase' = "packed" /\ UNCHANGED ptrs
     ELSE phase' = "link" /\ ptrs' = Append(ptrs, ptrs[Len(ptrs)])
  /\ UNCHANGED <<encoder, end, word, stored, loadVars, damaged>>

(***************************************************************************)
(* or with one, for which every offset has to fit in half a word.  ptrs is *)
(* sorted and its last element added once more, so that the last distance  *)
(* is 0.                                                                   *)
(***************************************************************************)
Finish(first) ==
  /\ phase = "write"
  /\ end < HalfRange
  /\ link' = 1
  /\ hdr' = Header(FALSE, first)
  /\ IF ptrs = <<>>
     THEN phase' = "packed" /\ UNCHANGED ptrs
     ELSE /\ phase' = "link"
          /\ \E s \in SortedSeqs(ptrs) : ptrs' = Append(s, s[Len(s)])
  /\ UNCHANGED <<encoder, end, word, stored, loadVars, damaged>>

(* dl_instance_store sets first_pointer_to_patch after the linking loop.   *)
StoreFinish ==
  /\ encoder = "store"
  /\ \/ end >= HalfRange /\ FinishBare(0)
     \/ Finish(0)

(* dl_txt_pack_internal sets it before the sort, to the pointer added      *)
(* first.  Whatever its size, the default value of a member is packed      *)
(* without a chain (use_fast_ptr_patch).                                   *)
TxtFinish ==
  /\ encoder = "txt"
  /\ LET first == IF ptrs = <<>> THEN 0 ELSE ptrs[1]
     IN  FinishBare(first) \/ Finish(first)

(* Mutant: the distance is that to the first pointer.                      *)
LinkFromFirst ==
  /\ phase = "link"
  /\ link < Len(ptrs)
  /\ word' = [word EXCEPT ![ptrs[link]] = @ + (ptrs[link + 1] - ptrs[1]) * HalfRange]
  /\ link' = link + 1
  /\ UNCHANGED <<phase, encoder, end, ptrs, hdr, stored, loadVars, damaged>>

(***************************************************************************)
(* One turn of the linking loop.  The high half of the word is empty, so   *)
(* or-ing the distance into it is an addition.                             *)
(***************************************************************************)
Link ==
  /\ phase = "link"
  /\ link < Len(ptrs)
  /\ word' = [word EXCEPT ![ptrs[link]] = @ + (ptrs[link + 1] - ptrs[link]) * HalfRange]
  /\ link' = link + 1
  /\ UNCHANGED <<phase, encoder, end, ptrs, hdr, stored, loadVars, damaged>>

(* Mutant: first_pointer_to_patch keeps the value it had before the loop.  *)
LinkDoneHeaderKept ==
  /\ phase = "link"
  /\ link = Len(ptrs)
  /\ phase' = "packed"
  /\ UNCHANGED <<encoder, end, ptrs, word, link, hdr, stored, loadVars, damaged>>

LinkDone ==
  /\ phase = "link"
  /\ link = Len(ptrs)
  /\ hdr' = [hdr EXCEPT !.first = IF encoder = "store" THEN ptrs[1] % SizeRange ELSE @]
  /\ phase' = "packed"
  /\ UNCHANGED <<encoder, end, ptrs, word, link, stored, loadVars, damaged>>

-----------------------------------------------------------------------------

(***************************************************************************)
(* Damage to the blob between packing and loading, behind the header: only *)
(* the loader's checks stand between it and a load.                        *)
(***************************************************************************)
Damage ==
  /\ phase = "packed"
  /\ DamagedWords # {}
  /\ ~damaged
  /\ damaged' = TRUE
  /\ UNCHANGED <<phase, blobVars, loadVars>>

(***************************************************************************)
(* What is read at p.  Of a damaged blob that can be any word, also for    *)
(* another reason: a distance shorter than a word leads to bytes that have *)
(* been changed as part of the word before.                                *)
(***************************************************************************)
WordsAt(p) == IF damaged THEN DamagedWords ELSE {inst[p]}

(* dl_instance_load copies the blob and follows its chain.  The same blob  *)
(* may be loaded again.                                                    *)
Load ==
  /\ phase \in {"packed", "loaded"}
  /\ ~hdr.notUsing
  /\ inst' = word
  /\ cursor' = 0
  /\ next' = hdr.first
  /\ patched' = {}
  /\ phase' = "walk"
  /\ UNCHANGED <<blobVars, damaged>>

(* One turn of the loop of dl_ptr_chain_patching.                          *)
At == cursor + next

(* Mutant: both are compared with the size of the data alone.              *)
InsideData(offsets) ==
  /\ At < hdr.size
  /\ Low(offsets) < hdr.size

InsideBlob(offsets) ==
  /\ At <= HeaderOffset + hdr.size
  /\ Low(offsets) <= HeaderOffset + hdr.size

(* Mutants: the distance stays in the address that is stored; the walk     *)
(* goes on from where it was; the walk does not move.                      *)
WalkPatchBy(Address(_), position, Distance(_)) ==
  /\ phase = "walk"
  /\ next # 0
  /\ \E offsets \in WordsAt(At) :
       /\ InsideBlob(offsets)
       /\ inst' = [inst EXCEPT ![At] = Base + Address(offsets)]
       /\ next' = Distance(offsets)
  /\ cursor' = position
  /\ patched' = patched \union {At}
  /\ UNCHANGED <<phase, blobVars, damaged>>

Unmasked(offsets) == offsets
WalkPatchUnmasked == WalkPatchBy(Unmasked, At, High)
WalkPatchFromStart == WalkPatchBy(Low, cursor, High)
NextAgain(offsets) == next
WalkPatchStuck == WalkPatchBy(Low, cursor, NextAgain)

WalkPatch ==
  /\ phase = "walk"
  /\ next # 0
  /\ \E offsets \in WordsAt(At) :
       /\ InsideBlob(offsets)
       /\ inst' = [inst EXCEPT ![At] = Base + Low(offsets)]
       /\ next' = High(offsets)
  /\ cursor' = At
  /\ patched' = patched \union {At}
  /\ UNCHANGED <<phase, blobVars, damaged>>

WalkReject ==
  /\ phase = "walk"
  /\ next # 0
  /\ \E offsets \in WordsAt(At) : ~InsideBlob(offsets)
  /\ phase' = "malformed"
  /\ UNCHANGED <<blobVars, loadVars, damaged>>

WalkDone ==
  /\ phase = "walk"
  /\ next = 0
  /\ phase' = "loaded"
  /\ UNCHANGED <<blobVars, loadVars, damaged>>

-----------------------------------------------------------------------------

Pack ==
  \/ \E e \in Positions : Reserve(e)
  \/ \E p, o \in Positions : StorePtr(p, o)
  \/ StoreFinish
  \/ TxtFinish
  \/ Link
  \/ LinkDone

Patch ==
  \/ WalkPatch
  \/ WalkReject
  \/ WalkDone

Next ==
  \/ Pack
  \/ Damage
  \/ Load
  \/ Patch

(* A load that has begun runs to its end: it is one call of the program.   *)
Spec == Init /\ [][Next]_vars /\ WF_vars(Patch)

-----------------------------------------------------------------------------

(* The words, positions and header fields that the two loops work on stay  *)
(* numbers of their ranges.                                                *)
TypeOK ==
  /\ encoder \in Encoders
  /\ phase \in Phases
  /\ end \in Nat
  /\ ptrs \in Seq(Nat)
  /\ word \in [Positions -> Nat]
  /\ link \in Nat
  /\ hdr \in [size : Nat, notUsing : BOOLEAN, first : Nat]
  /\ inst \in [Positions -> Nat]
  /\ cursor \in Nat
  /\ next \in Nat
  /\ stored \in [Positions -> Nat]
  /\ patched \subseteq Positions
  /\ damaged \in BOOLEAN

AllPatched == \A p \in Slots : inst[p] = Base + stored[p]

(***************************************************************************)
(* A blob that dl_instance_store gave a chain loads completely: after the  *)
(* load every pointer word holds the address of the data its offset named, *)
(* however often it is loaded.                                             *)
(***************************************************************************)
StoreLoadPatchesAll ==
  phase = "loaded" /\ encoder = "store" /\ ~damaged => AllPatched

(***************************************************************************)
(* A blob made by dl_txt_pack is "loadable by dl_instance_load" (dl_txt.h):*)
(* the same for the text packer.                                           *)
(***************************************************************************)
TxtLoadPatchesAll ==
  phase = "loaded" /\ encoder = "txt" /\ ~damaged => AllPatched

(***************************************************************************)
(* What the text packer does give: the words below the one it wrote first  *)
(* stay as they are in the blob, all the others are patched.  So a load is *)
(* complete exactly when the lowest pointer was written first.             *)
(***************************************************************************)
TxtLoadPatchesFromFirst ==
  phase = "loaded" /\ encoder = "txt" /\ ~damaged =>
    \A p \in Slots : inst[p] = IF p >= hdr.first THEN Base + stored[p] ELSE word[p]

(* The library never rejects a blob it made.                               *)
OwnBlobsAccepted == phase = "malformed" => damaged

(***************************************************************************)
(* A load turns nothing but pointer words into addresses: following the    *)
(* distances never lands between two of them.                              *)
(***************************************************************************)
OnlyPointersPatched == ~damaged => patched \subseteq Slots

(***************************************************************************)
(* The walk only goes up, so no position is patched twice, of a damaged    *)
(* blob either.  In a blob of the library's own it also steps over all of  *)
(* the word it has patched; the loop does not check that of a damaged one, *)
(* where a distance of less than a word makes it change the bytes that the *)
(* two words share once more.                                              *)
(***************************************************************************)
WalkGoesUp ==
  [][\A p \in patched, q \in patched' \ patched :
       IF damaged THEN p < q ELSE p + WordSize <= q]_<<inst, patched>>

(* The loader stops: the walk ends for every blob, damaged ones included.  *)
LoadEnds == phase = "walk" ~> phase \in {"loaded", "malformed"}

-----------------------------------------------------------------------------

(***************************************************************************)
(* The chain is invisible: seen as offsets and addresses only, packing and *)
(* loading are PointerLoad.  (A blob without a chain is not loaded here.)  *)
(* Nothing is promised of a blob of the text packer, which seems never to  *)
(* be done, and of a damaged one, which seems not to be loaded.            *)
(***************************************************************************)
LoadState ==
  IF encoder = "txt" \/ phase \in {"write", "link"} THEN "packing"
  ELSE IF damaged THEN "packed"
  ELSE IF phase = "walk" THEN "loading"
  ELSE phase

LoadedWord(p) == IF p \in patched THEN inst[p] ELSE stored[p]

Promise == INSTANCE PointerLoad WITH
  state <- LoadState,
  pointers <- [p \in Positions |-> IF encoder = "txt" THEN 0 ELSE stored[p]],
  memory <- [p \in Positions |->
               IF LoadState \in {"loading", "loaded"} THEN LoadedWord(p) ELSE 0],
  todo <- IF LoadState = "loading" THEN Slots \ patched ELSE {}

(* Packing with dl_instance_store and loading implement the promise: each  *)
(* turn of the patching loop turns one offset into its address and         *)
(* changes no other word, and a load that has begun ends with all of them  *)
(* turned.                                                                 *)
KeepsPromise == Promise!Spec

(* Its safety part.                                                        *)
PromiseSteps == Promise!Init /\ [][Promise!Next]_(Promise!vars)

-----------------------------------------------------------------------------

(***************************************************************************)
(* The inductive invariant, in parts.  ptrs ends with its last element     *)
(* twice once it is sorted, so Chain is the indices of the distinct ones.  *)
(***************************************************************************)
Chained == phase # "write" /\ ~hdr.notUsing /\ ptrs # <<>>
Chain == 1..(Len(ptrs) - 1)

(* Every pointer word and every pointee lies in the data of the blob, the  *)
(* words apart; the size of a blob with a chain fits in the header.        *)
LayoutInv ==
  /\ end \in HeaderOffset..BufferSize
  /\ phase # "write" /\ ~hdr.notUsing => end = HeaderOffset + hdr.size
  /\ \A p \in Slots : /\ p \in HeaderOffset..(end - WordSize)
                      /\ stored[p] \in HeaderOffset..(end - 1)
  /\ \A p, q \in Slots : p < q => p + WordSize <= q

(* ptrs holds every pointer word once, and nothing else.                   *)
PtrsInv ==
  /\ Elements(ptrs) = Slots
  /\ ~Chained => \A i, j \in 1..Len(ptrs) : ptrs[i] = ptrs[j] => i = j
  /\ Chained => /\ Len(ptrs) >= 2
                /\ ptrs[Len(ptrs)] = ptrs[Len(ptrs) - 1]
                /\ \A i, j \in Chain : i < j => ptrs[i] < ptrs[j]

(* The chain fits in half words and is made up to the loop index.          *)
LinkInv ==
  /\ Chained => end < HalfRange /\ link \in 1..Len(ptrs)
  /\ Chained /\ phase # "link" => link = Len(ptrs)
  /\ phase = "link" => Chained
  /\ ~damaged /\ ~Chained => \A p \in Slots : word[p] = stored[p]
  /\ ~damaged /\ Chained =>
       \A i \in Chain :
         word[ptrs[i]] = IF i < link
                         THEN stored[ptrs[i]] + (ptrs[i + 1] - ptrs[i]) * HalfRange
                         ELSE stored[ptrs[i]]

(* The header names the first pointer word: the lowest, or the text        *)
(* packer's first.                                                         *)
HeaderInv ==
  /\ phase # "write" /\ ptrs = <<>> => hdr.first = 0
  /\ Chained /\ encoder = "txt" => hdr.first \in Slots
  /\ Chained /\ encoder = "store" /\ phase # "link" => hdr.first = ptrs[1]

(* The walk began at ptrs[s] and is about to patch ptrs[k]; when it has    *)
(* patched them all, ptrs[k] is the repeated last one and next is 0.       *)
WalkAt(s, k) ==
  /\ hdr.first = ptrs[s]
  /\ cursor = IF k = s THEN 0 ELSE ptrs[k - 1]
  /\ next = IF k = s THEN ptrs[s] ELSE ptrs[k] - ptrs[k - 1]
  /\ patched = {ptrs[i] : i \in s..(k - 1)}
  /\ phase = "loaded" => k = Len(ptrs)

WalkInv ==
  phase \in {"walk", "loaded"} /\ ~damaged =>
    /\ ptrs = <<>> => next = 0 /\ patched = {}
    /\ ptrs # <<>> => \E s \in Chain : \E k \in s..Len(ptrs) : WalkAt(s, k)
    /\ \A p \in Slots : inst[p] = IF p \in patched THEN Base + stored[p] ELSE word[p]

(* Only a blob with a chain is walked, and only a packed one is damaged.   *)
ChainOnly ==
  /\ phase \in {"walk", "loaded", "malformed"} => ~hdr.notUsing
  /\ damaged => phase \notin {"write", "link"}

(* Nothing is patched before the first load, and the walk only goes up.    *)
WalkedUp ==
  /\ phase \in {"write", "link", "packed"} => patched = {}
  /\ phase = "walk" => \A p \in patched : p <= cursor

(***************************************************************************)
(* At every turn of both loops: the pointer words lie apart in the data,   *)
(* the chain is made up to the loop index, a walk has patched exactly the  *)
(* words from the header's first to where it is, and no blob of the        *)
(* library's own is rejected.                                              *)
(***************************************************************************)
ChainInv ==
  /\ TypeOK
  /\ LayoutInv
  /\ PtrsInv
  /\ LinkInv
  /\ HeaderInv
  /\ WalkInv
  /\ ChainOnly
  /\ OwnBlobsAccepted
  /\ WalkedUp
=============================================================================
