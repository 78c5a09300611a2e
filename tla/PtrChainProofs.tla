--------------------------- MODULE PtrChainProofs ---------------------------
(***************************************************************************)
(* Proofs about PtrChain for every buffer size, header size, word size,    *)
(* half-word range and load address, with the writers of Encoders and any  *)
(* damage to the stored words.                                             *)
(***************************************************************************)
EXTENDS PtrChain, TLAPS

USE DEF Phases

-----------------------------------------------------------------------------
(* Half words.                                                             *)

(* An offset below the half range and a distance are read back from the    *)
(* word the linking loop makes of them.                                    *)
LEMMA HalfWords ==
  ASSUME NEW o \in 0..(HalfRange - 1), NEW d \in Nat
  PROVE  /\ o + d * HalfRange \in Nat
         /\ Low(o + d * HalfRange) = o
         /\ High(o + d * HalfRange) = d
<1> DEFINE w == o + d * HalfRange
           q == w \div HalfRange
           r == w % HalfRange
<1>1. w \in Nat /\ d * HalfRange \in Nat
  BY SizeAssumption
<1>2. q \in Nat /\ r \in 0..(HalfRange - 1) /\ w = q * HalfRange + r
  BY <1>1, SizeAssumption
<1> HIDE DEF q, r
<1>3. (q - d) * HalfRange = o - r /\ q - d \in Int
  BY <1>2, SizeAssumption
<1>4. CASE q - d >= 1
  <2>1. (q - d) * HalfRange >= HalfRange
    BY <1>3, <1>4, SizeAssumption
  <2>. QED  BY <2>1, <1>2, <1>3, SizeAssumption
<1>5. CASE q - d <= -1
  <2>1. (q - d) * HalfRange <= -HalfRange
    BY <1>3, <1>5, SizeAssumption
  <2>. QED  BY <2>1, <1>2, <1>3, SizeAssumption
<1>6. CASE q = d
  <2>1. r = o
    BY <1>2, <1>3, <1>6, SizeAssumption
  <2>. QED  BY <1>1, <1>6, <2>1 DEF q, r, Low, High
<1>. QED  BY <1>2, <1>3, <1>4, <1>5, <1>6

LEMMA HalvesAreNat ==
  ASSUME NEW w \in Nat
  PROVE  Low(w) \in Nat /\ High(w) \in Nat
BY SizeAssumption DEF Low, High

(* What std::sort and the repeated last element make of ptrs.              *)
LEMMA SortedWithLast ==
  ASSUME NEW s \in Seq(Nat), s # <<>>, NEW t \in SortedSeqs(s),
         NEW u, u = Append(t, t[Len(t)])
  PROVE  /\ u \in Seq(Nat) /\ Len(u) = Len(s) + 1 /\ Len(u) >= 2
         /\ Elements(u) = Elements(s)
         /\ u[Len(u)] = u[Len(u) - 1]
         /\ \A i, j \in 1..(Len(u) - 1) : i < j => u[i] < u[j]
<1>1. Len(s) \in Nat \ {0} /\ \A i \in 1..Len(s) : s[i] \in Nat
  OBVIOUS
<1>2. Elements(s) \subseteq Nat
  BY <1>1 DEF Elements
<1>3. t \in [1..Len(s) -> Elements(s)] /\ Ascending(t) /\ Elements(t) = Elements(s)
  BY DEF SortedSeqs
<1>4. t \in Seq(Nat) /\ Len(t) = Len(s)
  BY <1>1, <1>2, <1>3
<1>5. u \in Seq(Nat) /\ Len(u) = Len(s) + 1
  BY <1>1, <1>4
<1>6. \A i \in 1..Len(s) : u[i] = t[i]
  BY <1>1, <1>4
<1>7. u[Len(s) + 1] = t[Len(s)]
  BY <1>1, <1>4
<1>8. Elements(u) = Elements(t)
  BY <1>1, <1>4, <1>5, <1>6, <1>7 DEF Elements
<1>9. u[Len(u)] = u[Len(u) - 1]
  BY <1>1, <1>4, <1>5, <1>6, <1>7
<1>10. \A i, j \in 1..Len(s) : i < j => t[i] < t[j]
  BY <1>1, <1>3, <1>4 DEF Ascending
<1>11. \A i, j \in 1..(Len(u) - 1) : i < j => u[i] < u[j]
  BY <1>1, <1>5, <1>6, <1>10
<1>12. Len(u) >= 2
  BY <1>1, <1>5
<1>. QED  BY <1>3, <1>5, <1>8, <1>9, <1>11, <1>12

-----------------------------------------------------------------------------
(* The inductive invariant, one lemma per step.                            *)

LEMMA InitInv == Init => ChainInv
<1> SUFFICES ASSUME Init PROVE ChainInv
  OBVIOUS
<1> USE DEF Init
<1>1. Slots = {} /\ Elements(ptrs) = {}
  BY DEF Slots, Elements
<1>2. /\ HeaderOffset \in Nat /\ HeaderOffset \in HeaderOffset..BufferSize
      /\ <<>> \in Seq(Nat) /\ 0 \in Nat
  BY SizeAssumption
<1>3. TypeOK
  BY <1>2 DEF TypeOK
<1>4. LayoutInv
  BY <1>1, <1>2 DEF LayoutInv
<1>5. PtrsInv /\ LinkInv
  BY <1>1 DEF PtrsInv, LinkInv, Chained
<1>. QED
  BY <1>1, <1>3, <1>4, <1>5
  DEF ChainInv, HeaderInv, WalkInv, ChainOnly, OwnBlobsAccepted, WalkedUp, Chained

LEMMA ReserveInv ==
  ASSUME ChainInv, NEW e \in Positions, Reserve(e)
  PROVE  ChainInv'
<1> USE DEF Reserve, loadVars
<1>1. Slots' = Slots /\ Elements(ptrs)' = Elements(ptrs) /\ ~Chained /\ ~Chained'
  BY DEF Slots, Elements, Chained
<1>2. /\ e \in Nat /\ end \in Nat /\ HeaderOffset \in Nat /\ WordSize \in Nat
      /\ end < e /\ e <= BufferSize /\ BufferSize \in Nat
      /\ end \in HeaderOffset..BufferSize /\ stored \in [Positions -> Nat]
      /\ \A p \in Slots : /\ p \in HeaderOffset..(end - WordSize)
                          /\ stored[p] \in HeaderOffset..(end - 1)
      /\ \A p, q \in Slots : p < q => p + WordSize <= q
  BY SizeAssumption DEF ChainInv, TypeOK, LayoutInv, Positions
<1>3. TypeOK'
  BY <1>2 DEF ChainInv, TypeOK
<1>. HIDE DEF Reserve
<1>6. end' = e /\ stored' = stored /\ hdr' = hdr /\ phase' = "write"
  BY DEF Reserve
<1>7. \A p \in Slots : /\ p \in HeaderOffset..(e - WordSize)
                      /\ stored[p] \in HeaderOffset..(e - 1)
  BY <1>2
<1>8. LayoutInv'
  BY <1>1, <1>2, <1>6, <1>7 DEF LayoutInv
<1>. USE DEF Reserve
<1>4. PtrsInv' /\ LinkInv'
  BY <1>1 DEF ChainInv, PtrsInv, LinkInv
<1>5. HeaderInv' /\ WalkInv' /\ ChainOnly' /\ OwnBlobsAccepted' /\ WalkedUp'
  BY <1>1 DEF ChainInv, HeaderInv, WalkInv, ChainOnly, OwnBlobsAccepted, WalkedUp
<1>. QED  BY <1>3, <1>8, <1>4, <1>5 DEF ChainInv

LEMMA StorePtrInv ==
  ASSUME ChainInv, NEW p \in Positions, NEW o \in Positions, StorePtr(p, o)
  PROVE  ChainInv'
<1> USE DEF StorePtr, loadVars
<1>1. ~Chained /\ ~Chained' /\ o # 0 /\ p \notin Slots
  BY SizeAssumption DEF Chained, ChainInv, LayoutInv
<1>2. Slots' = Slots \union {p}
  BY <1>1 DEF Slots, ChainInv, TypeOK
<1>3. TypeOK'
  BY SizeAssumption DEF ChainInv, TypeOK
<1>4. LayoutInv'
  <2>1. /\ end \in Nat /\ HeaderOffset \in Nat /\ WordSize \in Nat /\ p \in Nat
        /\ stored \in [Positions -> Nat]
    BY SizeAssumption DEF ChainInv, TypeOK, Positions
  <2>2. \A q, r \in Slots \union {p} : q < r => q + WordSize <= r
    <3> SUFFICES ASSUME NEW q \in Slots \union {p}, NEW r \in Slots \union {p}, q < r
                 PROVE  q + WordSize <= r
      OBVIOUS
    <3>1. q \in Nat /\ r \in Nat
      BY <2>1 DEF Slots, Positions
    <3>2. CASE q \in Slots /\ r \in Slots
      BY <3>2 DEF ChainInv, LayoutInv
    <3>3. CASE q = p \/ r = p
      BY <2>1, <3>1, <3>3
    <3>. QED  BY <3>2, <3>3
  <2>3. \A q \in Slots \union {p} : /\ q \in HeaderOffset..(end - WordSize)
                                    /\ stored'[q] \in HeaderOffset..(end - 1)
    BY <1>1, <2>1 DEF ChainInv, LayoutInv
  <2>. QED  BY <1>2, <2>2, <2>3 DEF ChainInv, LayoutInv
<1>5. /\ Len(ptrs') = Len(ptrs) + 1 /\ Len(ptrs) \in Nat
      /\ ptrs'[Len(ptrs) + 1] = p
      /\ \A i \in 1..Len(ptrs) : ptrs'[i] = ptrs[i]
  BY DEF ChainInv, TypeOK
<1>6. PtrsInv'
  BY <1>1, <1>2, <1>5 DEF ChainInv, PtrsInv, Elements
<1>7. LinkInv'
  BY <1>1, <1>2, <1>3 DEF ChainInv, TypeOK, LinkInv
<1>8. HeaderInv' /\ WalkInv' /\ ChainOnly' /\ OwnBlobsAccepted' /\ WalkedUp'
  BY <1>1 DEF ChainInv, HeaderInv, WalkInv, ChainOnly, OwnBlobsAccepted, WalkedUp
<1>. QED  BY <1>3, <1>4, <1>6, <1>7, <1>8 DEF ChainInv

(* What the header keeps of the size and of the first pointer.             *)
LEMMA HeaderFacts ==
  ASSUME ChainInv, NEW first \in Nat, NEW b \in BOOLEAN
  PROVE  /\ Header(b, first) \in [size : Nat, notUsing : BOOLEAN, first : Nat]
         /\ Header(b, first).notUsing = b
         /\ first = 0 => Header(b, first).first = 0
         /\ end < HalfRange =>
              /\ end = HeaderOffset + Header(b, first).size
              /\ first \in Slots => Header(b, first).first = first
<1>. DEFINE f == first % SizeRange
            size == (end - HeaderOffset) % SizeRange
<1>1. /\ end \in Nat /\ end - HeaderOffset \in Nat /\ HeaderOffset \in Nat
      /\ SizeRange \in Nat /\ SizeRange > 0 /\ HalfRange \in Nat /\ HalfRange <= SizeRange
  BY SizeAssumption DEF ChainInv, TypeOK, LayoutInv
<1>2. f \in Nat /\ size \in Nat
  BY <1>1
<1>3. first < SizeRange => f = first
  BY <1>1
<1>4. end < HalfRange => size = end - HeaderOffset
  BY <1>1
<1>5. end < HalfRange /\ first \in Slots => first < SizeRange
  BY <1>1, SizeAssumption DEF ChainInv, LayoutInv
<1>6. Header(b, first) = [size |-> size, notUsing |-> b, first |-> f]
  BY DEF Header
<1>. HIDE DEF f, size
<1>. QED  BY <1>1, <1>2, <1>3, <1>4, <1>5, <1>6

LEMMA FinishInv ==
  ASSUME ChainInv, NEW first \in Nat, FinishBare(first) \/ Finish(first),
         encoder = "store" => first = 0,
         encoder = "txt" => first = IF ptrs = <<>> THEN 0 ELSE ptrs[1]
  PROVE  ChainInv'
<1> USE DEF loadVars
<1>1. Slots' = Slots /\ ~Chained /\ phase = "write"
  BY DEF Slots, Chained, FinishBare, Finish
<1>2. end \in Nat /\ HalfRange \in Nat /\ ptrs \in Seq(Nat)
  BY SizeAssumption DEF ChainInv, TypeOK
<1>3. ptrs = <<>> => Slots = {} /\ first = 0
  BY EncodersAssumption DEF ChainInv, TypeOK, PtrsInv, Elements
<1>4. ptrs # <<>> /\ encoder = "txt" => first \in Slots
  BY <1>2 DEF ChainInv, PtrsInv, Elements
<1>5. CASE FinishBare(first) \/ (Finish(first) /\ ptrs = <<>>)
  <2>1. phase' = "packed" /\ ptrs' = ptrs /\ link' = 1
    BY <1>5 DEF FinishBare, Finish
  <2>2. /\ hdr' \in [size : Nat, notUsing : BOOLEAN, first : Nat]
        /\ hdr'.notUsing \/ ptrs' = <<>>
        /\ ~hdr'.notUsing => end = HeaderOffset + hdr'.size
        /\ ptrs = <<>> => hdr'.first = 0
    <3>1. CASE FinishBare(first)
      <4>1. hdr' = Header(TRUE, first)
        BY <3>1 DEF FinishBare
      <4>. QED  BY <1>3, <4>1, HeaderFacts
    <3>2. CASE Finish(first) /\ ptrs = <<>>
      <4>1. hdr' = Header(FALSE, first) /\ end < HalfRange
        BY <3>2 DEF Finish
      <4>. QED  BY <1>3, <2>1, <3>2, <4>1, HeaderFacts
    <3>. QED  BY <1>5, <3>1, <3>2
  <2>9. /\ ~Chained'
        /\ UNCHANGED <<encoder, end, word, stored, inst, cursor, next, patched, damaged>>
    BY <1>5, <2>2 DEF Chained, FinishBare, Finish
  <2>3. TypeOK'
    BY <1>2, <2>1, <2>2, <2>9 DEF ChainInv, TypeOK
  <2>4. LayoutInv'
    BY <1>1, <2>2, <2>9 DEF ChainInv, LayoutInv
  <2>5. PtrsInv' /\ LinkInv'
    BY <1>1, <2>1, <2>9 DEF ChainInv, PtrsInv, LinkInv, Elements
  <2>6. HeaderInv' /\ WalkInv' /\ ChainOnly' /\ OwnBlobsAccepted' /\ WalkedUp'
    BY <1>1, <2>1, <2>2, <2>9
    DEF ChainInv, HeaderInv, WalkInv, ChainOnly, OwnBlobsAccepted, WalkedUp
  <2>. QED  BY <2>3, <2>4, <2>5, <2>6 DEF ChainInv
<1>6. CASE Finish(first) /\ ptrs # <<>>
  <2>1. /\ phase' = "link" /\ link' = 1
        /\ \E s \in SortedSeqs(ptrs) : ptrs' = Append(s, s[Len(s)])
        /\ end < HalfRange
        /\ UNCHANGED <<encoder, end, word, stored, inst, cursor, next, patched, damaged>>
    BY <1>6 DEF Finish
  <2>10. /\ hdr' \in [size : Nat, notUsing : BOOLEAN, first : Nat]
         /\ ~hdr'.notUsing /\ end = HeaderOffset + hdr'.size
         /\ encoder = "txt" => hdr'.first \in Slots
    <3>1. hdr' = Header(FALSE, first)
      BY <1>6 DEF Finish
    <3>. QED  BY <1>4, <1>6, <2>1, <3>1, HeaderFacts
  <2>2. PICK s \in SortedSeqs(ptrs) : ptrs' = Append(s, s[Len(s)])
    BY <2>1
  <2>3. /\ ptrs' \in Seq(Nat) /\ Len(ptrs') = Len(ptrs) + 1 /\ Len(ptrs') >= 2
        /\ Elements(ptrs') = Elements(ptrs)
        /\ ptrs'[Len(ptrs')] = ptrs'[Len(ptrs') - 1]
        /\ \A i, j \in 1..(Len(ptrs') - 1) : i < j => ptrs'[i] < ptrs'[j]
    BY <1>2, <1>6, <2>2, SortedWithLast
  <2>4. Chained' /\ ptrs' # <<>>
    BY <2>1, <2>3, <2>10 DEF Chained
  <2>5. TypeOK' /\ LayoutInv'
    BY <1>1, <1>2, <2>1, <2>3, <2>10, SizeAssumption DEF ChainInv, TypeOK, LayoutInv
  <2>6. PtrsInv'
    BY <1>1, <2>3, <2>4 DEF ChainInv, PtrsInv, Chain, Elements
  <2>7. \A i \in 1..(Len(ptrs') - 1) : ptrs'[i] \in Slots
    <3>1. Len(ptrs') - 1 \in Nat /\ Elements(ptrs') = Slots
      BY <2>3 DEF ChainInv, PtrsInv
    <3>. QED  BY <2>3, <3>1 DEF Elements
  <2>8. LinkInv'
    BY <1>1, <1>6, <2>1, <2>3, <2>4, <2>7, <2>10 DEF ChainInv, LinkInv, Chain
  <2>9. HeaderInv' /\ WalkInv' /\ ChainOnly' /\ OwnBlobsAccepted' /\ WalkedUp'
    BY <1>1, <1>6, <2>1, <2>4, <2>10 DEF ChainInv, HeaderInv, WalkInv, ChainOnly, OwnBlobsAccepted, WalkedUp
  <2>. QED  BY <2>5, <2>6, <2>8, <2>9 DEF ChainInv
<1>. QED  BY <1>5, <1>6

(* The words of ptrs once it is sorted.                                    *)
LEMMA ChainFacts ==
  ASSUME ChainInv, Chained
  PROVE  /\ Len(ptrs) \in Nat /\ Len(ptrs) >= 2
         /\ \A i \in 1..Len(ptrs) : ptrs[i] \in Nat /\ ptrs[i] \in Slots
         /\ \A i \in Chain : /\ i \in 1..Len(ptrs) /\ i + 1 \in 1..Len(ptrs)
                             /\ ptrs[i + 1] - ptrs[i] \in Nat
                             /\ ptrs[i + 1] - ptrs[i] = 0 => i = Len(ptrs) - 1
         /\ \A i, j \in Chain : ptrs[i] = ptrs[j] => i = j
         /\ \A p \in Slots : \E i \in Chain : ptrs[i] = p
         /\ \A p \in Slots : /\ p \in Positions /\ p # 0 /\ p <= end
                             /\ stored[p] \in 0..(HalfRange - 1) /\ stored[p] <= end
<1>1. Len(ptrs) \in Nat /\ Len(ptrs) >= 2 /\ \A i \in 1..Len(ptrs) : ptrs[i] \in Nat
  BY DEF ChainInv, TypeOK, PtrsInv
<1>2. \A i \in 1..Len(ptrs) : ptrs[i] \in Slots
  BY <1>1 DEF ChainInv, PtrsInv, Elements
<1>3. /\ ptrs[Len(ptrs)] = ptrs[Len(ptrs) - 1]
      /\ \A i, j \in Chain : i < j => ptrs[i] < ptrs[j]
  BY DEF ChainInv, PtrsInv
<1>4. ASSUME NEW i \in Chain
      PROVE  /\ i \in 1..Len(ptrs) /\ i + 1 \in 1..Len(ptrs)
             /\ ptrs[i + 1] - ptrs[i] \in Nat
             /\ ptrs[i + 1] - ptrs[i] = 0 => i = Len(ptrs) - 1
  <2>1. i \in 1..Len(ptrs) /\ i + 1 \in 1..Len(ptrs)
    BY <1>1 DEF Chain
  <2>2. CASE i + 1 \in Chain
    <3>1. ptrs[i] < ptrs[i + 1]
      BY <1>1, <1>3, <2>2 DEF Chain
    <3>. QED  BY <1>1, <2>1, <3>1
  <2>3. CASE i = Len(ptrs) - 1
    BY <1>1, <1>3, <2>1, <2>3
  <2>. QED  BY <1>1, <2>1, <2>2, <2>3 DEF Chain
<1>5. \A i, j \in Chain : ptrs[i] = ptrs[j] => i = j
  <2> SUFFICES ASSUME NEW i \in Chain, NEW j \in Chain, ptrs[i] = ptrs[j]
               PROVE  i = j
    OBVIOUS
  <2>1. /\ i \in Nat /\ j \in Nat /\ ptrs[i] \in Nat /\ ptrs[j] \in Nat
    BY <1>1 DEF Chain
  <2>. QED  BY <1>3, <2>1
<1>6. ASSUME NEW p \in Slots PROVE \E i \in Chain : ptrs[i] = p
  <2>1. PICK i \in 1..Len(ptrs) : ptrs[i] = p
    BY DEF ChainInv, PtrsInv, Elements
  <2>2. CASE i = Len(ptrs)
    BY <1>1, <1>3, <2>1, <2>2 DEF Chain
  <2>3. CASE i # Len(ptrs)
    BY <1>1, <2>1, <2>3 DEF Chain
  <2>. QED  BY <2>2, <2>3
<1>7. ASSUME NEW p \in Slots
      PROVE  /\ p \in Positions /\ p # 0 /\ p <= end
             /\ stored[p] \in 0..(HalfRange - 1) /\ stored[p] <= end
  <2>1. p \in HeaderOffset..(end - WordSize) /\ stored[p] \in HeaderOffset..(end - 1)
    BY DEF ChainInv, LayoutInv
  <2>2. end \in Nat /\ end < HalfRange /\ p \in Positions
    BY DEF ChainInv, TypeOK, LinkInv, Slots
  <2>. QED  BY <2>1, <2>2, SizeAssumption
<1>. QED  BY <1>1, <1>2, <1>4, <1>5, <1>6, <1>7

LEMMA LinkStepInv ==
  ASSUME ChainInv, Link
  PROVE  ChainInv'
<1> USE DEF Link, loadVars
<1>1. Slots' = Slots /\ Elements(ptrs)' = Elements(ptrs) /\ Chain' = Chain
  BY DEF Slots, Elements, Chain
<1>2. Chained /\ Chained'
  BY DEF ChainInv, LinkInv, Chained
<1>3. link \in Chain /\ link \in Nat /\ link + 1 \in 1..Len(ptrs)
  BY <1>2, ChainFacts DEF ChainInv, LinkInv, Chain
<1>4. PICK d \in Nat : d = ptrs[link + 1] - ptrs[link]
  BY <1>2, <1>3, ChainFacts
<1>5. ptrs[link] \in Slots /\ ptrs[link] \in Positions
  BY <1>2, <1>3, ChainFacts
<1>6. word \in [Positions -> Nat] /\ d * HalfRange \in Nat
  BY SizeAssumption DEF ChainInv, TypeOK
<1>7. word' = [word EXCEPT ![ptrs[link]] = @ + d * HalfRange]
  BY <1>4
<1>8. TypeOK'
  <2>1. word' \in [Positions -> Nat]
    BY <1>5, <1>6, <1>7
  <2>. QED  BY <1>3, <2>1 DEF ChainInv, TypeOK
<1>9. LayoutInv' /\ PtrsInv'
  BY <1>1, <1>2 DEF ChainInv, LayoutInv, PtrsInv
<1>10. ASSUME ~damaged, NEW i \in Chain
       PROVE  word'[ptrs[i]] =
                IF i < link + 1
                THEN stored[ptrs[i]] + (ptrs[i + 1] - ptrs[i]) * HalfRange
                ELSE stored[ptrs[i]]
  <2>1. ptrs[i] \in Positions /\ i \in Nat
    BY <1>2, ChainFacts DEF Chain
  <2>2. word[ptrs[i]] = IF i < link
                        THEN stored[ptrs[i]] + (ptrs[i + 1] - ptrs[i]) * HalfRange
                        ELSE stored[ptrs[i]]
    BY <1>2, <1>10 DEF ChainInv, LinkInv
  <2>3. CASE i = link
    <3>1. word'[ptrs[i]] = word[ptrs[i]] + d * HalfRange
      BY <1>6, <1>7, <2>1, <2>3
    <3>2. word[ptrs[i]] = stored[ptrs[i]]
      BY <1>3, <2>2, <2>3
    <3>3. i < link + 1
      BY <1>3, <2>3
    <3>. QED  BY <1>4, <2>3, <3>1, <3>2, <3>3
  <2>4. CASE i # link
    <3>1. ptrs[i] # ptrs[link]
      BY <1>2, <1>3, <2>4, ChainFacts
    <3>2. word'[ptrs[i]] = word[ptrs[i]]
      BY <1>6, <1>7, <2>1, <3>1
    <3>3. i < link + 1 <=> i < link
      BY <1>3, <2>1, <2>4
    <3>. QED  BY <2>2, <3>2, <3>3
  <2>. QED  BY <2>3, <2>4
<1>11. LinkInv'
  <2>1. end < HalfRange /\ phase' = "link" /\ link' = link + 1 /\ ptrs' = ptrs
        /\ stored' = stored /\ end' = end /\ damaged' = damaged
    BY <1>2 DEF ChainInv, LinkInv
  <2>. HIDE DEF Link
  <2>2. end' < HalfRange /\ link' \in 1..Len(ptrs')
    BY <1>3, <2>1
  <2>3. ~damaged' => \A i \in Chain' :
          word'[ptrs'[i]] = IF i < link'
                            THEN stored'[ptrs'[i]] + (ptrs'[i + 1] - ptrs'[i]) * HalfRange
                            ELSE stored'[ptrs'[i]]
    BY <1>1, <1>10, <2>1
  <2>. QED  BY <1>2, <2>1, <2>2, <2>3 DEF LinkInv
<1>12. HeaderInv' /\ WalkInv' /\ ChainOnly' /\ OwnBlobsAccepted' /\ WalkedUp'
  BY <1>1, <1>2 DEF ChainInv, HeaderInv, WalkInv, ChainOnly, OwnBlobsAccepted, WalkedUp
<1>. QED  BY <1>8, <1>9, <1>11, <1>12 DEF ChainInv

LEMMA LinkDoneInv ==
  ASSUME ChainInv, LinkDone
  PROVE  ChainInv'
<1> USE DEF LinkDone, loadVars
<1>1. Slots' = Slots /\ Elements(ptrs)' = Elements(ptrs) /\ Chain' = Chain
  BY DEF Slots, Elements, Chain
<1>2. Chained /\ phase' = "packed" /\ ptrs' = ptrs
  BY DEF ChainInv, LinkInv
<1>3. /\ ptrs[1] \in Nat /\ ptrs[1] % SizeRange = ptrs[1]
      /\ hdr \in [size : Nat, notUsing : BOOLEAN, first : Nat]
  <2>1. ptrs[1] \in Slots /\ ptrs[1] \in Nat
    BY <1>2, ChainFacts
  <2>2. ptrs[1] < SizeRange
    BY <1>2, <2>1, ChainFacts, SizeAssumption DEF ChainInv, TypeOK, LinkInv
  <2>3. ptrs[1] % SizeRange = ptrs[1]
    BY <2>1, <2>2, SizeAssumption
  <2>. QED  BY <2>1, <2>3 DEF ChainInv, TypeOK
<1>4. PICK f \in Nat : /\ hdr' = [hdr EXCEPT !.first = f]
                       /\ f = IF encoder = "store" THEN ptrs[1] ELSE hdr.first
  BY <1>3
<1>5. /\ hdr' \in [size : Nat, notUsing : BOOLEAN, first : Nat]
      /\ hdr'.size = hdr.size /\ hdr'.notUsing = hdr.notUsing /\ hdr'.first = f
  BY <1>3, <1>4
<1>6. Chained'
  BY <1>2, <1>5 DEF Chained
<1>7. TypeOK'
  BY <1>5 DEF ChainInv, TypeOK
<1>8. LayoutInv' /\ PtrsInv' /\ LinkInv'
  BY <1>1, <1>2, <1>5, <1>6 DEF ChainInv, LayoutInv, PtrsInv, LinkInv
<1>9. HeaderInv'
  BY <1>1, <1>2, <1>4, <1>5, <1>6 DEF ChainInv, HeaderInv, Chained
<1>10. WalkInv' /\ ChainOnly' /\ OwnBlobsAccepted' /\ WalkedUp'
  BY <1>2 DEF ChainInv, WalkInv, ChainOnly, OwnBlobsAccepted, WalkedUp
<1>. QED  BY <1>7, <1>8, <1>9, <1>10 DEF ChainInv

LEMMA DamageInv ==
  ASSUME ChainInv, Damage
  PROVE  ChainInv'
<1> USE DEF Damage, blobVars, loadVars
<1>1. /\ Slots' = Slots /\ Elements(ptrs)' = Elements(ptrs) /\ Chain' = Chain
      /\ Chained' = Chained
  BY DEF Slots, Elements, Chain, Chained
<1>2. TypeOK'
  BY DEF ChainInv, TypeOK
<1>3. LayoutInv' /\ PtrsInv' /\ LinkInv' /\ HeaderInv'
  BY <1>1 DEF ChainInv, LayoutInv, PtrsInv, LinkInv, HeaderInv
<1>4. WalkInv' /\ ChainOnly' /\ OwnBlobsAccepted' /\ WalkedUp'
  BY DEF ChainInv, WalkInv, ChainOnly, OwnBlobsAccepted, WalkedUp
<1>. QED  BY <1>2, <1>3, <1>4 DEF ChainInv

(* What the load and patch steps leave alone.                              *)
LEMMA BlobKept ==
  ASSUME ChainInv, UNCHANGED <<blobVars, damaged>>, phase # "write", phase' # "write",
         phase # "link", phase' # "link"
  PROVE  /\ Slots' = Slots /\ Elements(ptrs)' = Elements(ptrs) /\ Chain' = Chain
         /\ Chained' = Chained
         /\ LayoutInv' /\ PtrsInv' /\ LinkInv' /\ HeaderInv'
<1> USE DEF blobVars
<1>1. /\ Slots' = Slots /\ Elements(ptrs)' = Elements(ptrs) /\ Chain' = Chain
      /\ Chained' = Chained
  BY DEF Slots, Elements, Chain, Chained
<1>. QED  BY <1>1 DEF ChainInv, LayoutInv, PtrsInv, LinkInv, HeaderInv

LEMMA LoadInv ==
  ASSUME ChainInv, Load
  PROVE  ChainInv'
<1> USE DEF Load
<1>1. /\ Slots' = Slots /\ Elements(ptrs)' = Elements(ptrs) /\ Chain' = Chain
      /\ Chained' = Chained
      /\ LayoutInv' /\ PtrsInv' /\ LinkInv' /\ HeaderInv'
  BY BlobKept
<1>2. TypeOK'
  BY DEF ChainInv, TypeOK, blobVars
<1>3. OwnBlobsAccepted' /\ WalkedUp'
  BY DEF OwnBlobsAccepted, WalkedUp
<1>4. WalkInv' /\ ChainOnly'
  <2>1. /\ phase' = "walk" /\ hdr' = hdr /\ ptrs' = ptrs /\ patched' = {}
        /\ cursor' = 0 /\ next' = hdr.first /\ inst' = word /\ word' = word
    BY DEF blobVars
  <2>2. ptrs = <<>> => next' = 0
    BY <2>1 DEF ChainInv, HeaderInv
  <2>3. ASSUME ptrs # <<>>
        PROVE  \E s \in Chain : \E k \in s..Len(ptrs) : WalkAt(s, k)'
    <3>1. Chained
      BY <2>3 DEF Chained
    <3>2. PICK s \in Chain : hdr.first = ptrs[s]
      <4>1. CASE encoder = "store"
        <5>1. 1 \in Chain
          BY <3>1, ChainFacts DEF Chain
        <5>. QED  BY <3>1, <4>1, <5>1 DEF ChainInv, HeaderInv
      <4>2. CASE encoder = "txt"
        <5>1. hdr.first \in Slots
          BY <3>1, <4>2 DEF ChainInv, HeaderInv
        <5>. QED  BY <3>1, <5>1, ChainFacts
      <4>. QED  BY <4>1, <4>2, EncodersAssumption DEF ChainInv, TypeOK
    <3>3. s \in s..Len(ptrs) /\ {ptrs[i] : i \in s..(s - 1)} = {}
      BY <3>1, ChainFacts DEF Chain
    <3>4. WalkAt(s, s)'
      BY <2>1, <3>2, <3>3 DEF WalkAt
    <3>. QED  BY <3>3, <3>4
  <2>4. WalkInv'
    BY <1>1, <2>1, <2>2, <2>3 DEF WalkInv
  <2>5. ChainOnly'
    BY <2>1 DEF ChainOnly
  <2>. QED  BY <2>4, <2>5
<1>. QED  BY <1>1, <1>2, <1>3, <1>4 DEF ChainInv

(* Where the walk of an undamaged blob stands.                             *)
LEMMA WalkHere ==
  ASSUME ChainInv, phase = "walk", next # 0, ~damaged
  PROVE  /\ Chained
         /\ \E s \in Chain : \E k \in s..(Len(ptrs) - 1) :
              /\ WalkAt(s, k) /\ k \in Chain
              /\ At = ptrs[k] /\ At \in Slots /\ At \notin patched
              /\ Low(inst[At]) = stored[At]
              /\ High(inst[At]) = ptrs[k + 1] - ptrs[k]
              /\ InsideBlob(inst[At])
<1>1. ~hdr.notUsing
  BY DEF ChainInv, ChainOnly
<1>2. ptrs # <<>>
  BY <1>1 DEF ChainInv, WalkInv
<1>3. Chained
  BY <1>1, <1>2 DEF Chained
<1>4. PICK s \in Chain : \E j \in s..Len(ptrs) : WalkAt(s, j)
  BY <1>1, <1>2 DEF ChainInv, WalkInv
<1>5. PICK k \in s..Len(ptrs) : WalkAt(s, k)
  BY <1>4
<1>6. /\ Len(ptrs) \in Nat /\ s \in Nat /\ k \in Nat /\ s <= k /\ s < Len(ptrs)
      /\ k <= Len(ptrs) /\ 1 <= s
  BY <1>3, ChainFacts DEF Chain
<1>7. k # Len(ptrs)
  <2> SUFFICES ASSUME k = Len(ptrs) PROVE FALSE
    OBVIOUS
  <2>1. k # s /\ next = ptrs[k] - ptrs[k - 1]
    BY <1>5, <1>6 DEF WalkAt
  <2>2. ptrs[Len(ptrs)] = ptrs[Len(ptrs) - 1]
    BY <1>3 DEF ChainInv, PtrsInv
  <2>3. ptrs[Len(ptrs)] \in Nat
    <3>1. Len(ptrs) \in 1..Len(ptrs)
      BY <1>6
    <3>. QED  BY <1>3, <3>1, ChainFacts
  <2>. QED  BY <2>1, <2>2, <2>3
<1>8. k \in Chain /\ k \in s..(Len(ptrs) - 1)
  BY <1>6, <1>7 DEF Chain
<1>9. ptrs[k] \in Nat /\ ptrs[k] \in Slots
  BY <1>3, <1>8, ChainFacts
<1>10. At = ptrs[k]
  <2>1. CASE k = s
    BY <1>5, <1>9, <2>1 DEF At, WalkAt
  <2>2. CASE k # s
    <3>1. ptrs[k - 1] \in Nat
      BY <1>3, <1>6, <2>2, ChainFacts
    <3>. QED  BY <1>5, <1>9, <2>2, <3>1 DEF At, WalkAt
  <2>. QED  BY <2>1, <2>2
<1>11. At \notin patched
  <2> SUFFICES ASSUME NEW i \in s..(k - 1), ptrs[i] = ptrs[k] PROVE FALSE
    BY <1>5, <1>10 DEF WalkAt
  <2>1. i \in Chain /\ i # k
    BY <1>6 DEF Chain
  <2>. QED  BY <1>3, <1>8, <2>1, ChainFacts
<1>12. inst[At] = word[At]
  BY <1>1, <1>9, <1>10, <1>11 DEF ChainInv, WalkInv
<1>13. PICK d \in Nat : d = ptrs[k + 1] - ptrs[k]
  BY <1>3, <1>8, ChainFacts
<1>14. inst[At] = stored[At] + d * HalfRange
  <2>1. link = Len(ptrs)
    BY <1>3 DEF ChainInv, LinkInv
  <2>2. k < link
    BY <1>6, <1>7, <2>1
  <2>. QED  BY <1>3, <1>8, <1>10, <1>12, <1>13, <2>2 DEF ChainInv, LinkInv
<1>15. stored[At] \in 0..(HalfRange - 1)
  BY <1>3, <1>9, <1>10, ChainFacts
<1>16. Low(inst[At]) = stored[At] /\ High(inst[At]) = d
  BY <1>14, <1>15, HalfWords
<1>17. InsideBlob(inst[At])
  <2>1. end = HeaderOffset + hdr.size /\ At <= end /\ stored[At] <= end
    BY <1>1, <1>3, <1>9, <1>10, ChainFacts DEF ChainInv, LayoutInv
  <2>. QED  BY <1>16, <2>1 DEF InsideBlob
<1>. QED  BY <1>3, <1>5, <1>8, <1>9, <1>10, <1>11, <1>13, <1>16, <1>17

LEMMA WalkPatchInv ==
  ASSUME ChainInv, WalkPatch
  PROVE  ChainInv'
<1> USE DEF WalkPatch
<1>1. /\ Slots' = Slots /\ Elements(ptrs)' = Elements(ptrs) /\ Chain' = Chain
      /\ Chained' = Chained
      /\ LayoutInv' /\ PtrsInv' /\ LinkInv' /\ HeaderInv'
  BY BlobKept
<1>2. /\ cursor \in Nat /\ next \in Nat /\ end \in 0..BufferSize
      /\ end = HeaderOffset + hdr.size /\ BufferSize \in Nat
  BY SizeAssumption DEF ChainInv, TypeOK, LayoutInv, ChainOnly
<1>. PICK w \in WordsAt(At) : /\ InsideBlob(w)
                               /\ inst' = [inst EXCEPT ![At] = Base + Low(w)]
                               /\ next' = High(w)
  OBVIOUS
<1>. HIDE DEF WalkPatch
<1>0. /\ phase = "walk" /\ phase' = "walk" /\ next # 0 /\ cursor' = At
      /\ patched' = patched \union {At}
      /\ UNCHANGED <<blobVars, damaged>>
  BY DEF WalkPatch
<1>3. At \in Nat /\ At \in Positions
  BY <1>2 DEF At, InsideBlob, Positions
<1>4. w \in Nat /\ inst \in [Positions -> Nat]
  BY <1>3, SizeAssumption DEF ChainInv, TypeOK, WordsAt
<1>5. Base + Low(w) \in Nat /\ High(w) \in Nat
  BY <1>4, HalvesAreNat, SizeAssumption
<1>6. TypeOK'
  BY <1>0, <1>3, <1>4, <1>5 DEF ChainInv, TypeOK, blobVars
<1>7. OwnBlobsAccepted' /\ ChainOnly'
  BY <1>0 DEF ChainInv, OwnBlobsAccepted, ChainOnly, blobVars
<1>8. WalkedUp'
  <2>1. cursor <= At
    BY <1>2 DEF At
  <2>2. \A p \in patched : p \in Nat /\ p <= cursor
    BY <1>0, SizeAssumption DEF ChainInv, TypeOK, WalkedUp, Positions
  <2>. QED  BY <1>0, <1>2, <1>3, <2>1, <2>2 DEF WalkedUp
<1>9. ASSUME ~damaged PROVE WalkInv'
  <2>0. w = inst[At]
    BY <1>9 DEF WordsAt
  <2>1. PICK s \in Chain : \E k \in s..(Len(ptrs) - 1) :
              /\ WalkAt(s, k) /\ k \in Chain
              /\ At = ptrs[k] /\ At \in Slots /\ At \notin patched
              /\ Low(inst[At]) = stored[At]
              /\ High(inst[At]) = ptrs[k + 1] - ptrs[k]
              /\ InsideBlob(inst[At])
    BY <1>0, <1>9, WalkHere
  <2>2. PICK k \in s..(Len(ptrs) - 1) :
              /\ WalkAt(s, k) /\ k \in Chain
              /\ At = ptrs[k] /\ At \in Slots /\ At \notin patched
              /\ Low(inst[At]) = stored[At]
              /\ High(inst[At]) = ptrs[k + 1] - ptrs[k]
    BY <2>1
  <2>3. Chained /\ ptrs # <<>>
    BY <1>0, <1>9, WalkHere DEF Chained
  <2>4. /\ Len(ptrs) \in Nat /\ s \in Nat /\ k \in Nat /\ s <= k
        /\ k + 1 \in s..Len(ptrs) /\ k + 1 # s
    BY <2>3, ChainFacts DEF Chain
  <2>5. s..((k + 1) - 1) = s..(k - 1) \union {k} /\ (k + 1) - 1 = k
    BY <2>4
  <2>6. patched' = {ptrs[i] : i \in s..((k + 1) - 1)}
    BY <1>0, <2>2, <2>5 DEF WalkAt
  <2>7. /\ phase' = "walk" /\ hdr' = hdr /\ ptrs' = ptrs
        /\ cursor' = ptrs[k] /\ next' = ptrs[k + 1] - ptrs[k]
    BY <1>0, <2>0, <2>2 DEF blobVars
  <2>8. WalkAt(s, k + 1)'
    BY <2>2, <2>4, <2>5, <2>6, <2>7 DEF WalkAt
  <2>9. \A p \in Slots :
          inst'[p] = IF p \in patched' THEN Base + stored[p] ELSE word[p]
    <3> SUFFICES ASSUME NEW p \in Slots
                 PROVE  inst'[p] = IF p \in patched' THEN Base + stored[p] ELSE word[p]
      OBVIOUS
    <3>1. inst[p] = IF p \in patched THEN Base + stored[p] ELSE word[p]
      BY <1>0, <1>9 DEF ChainInv, WalkInv
    <3>2. p \in Positions
      BY DEF Slots
    <3>. QED  BY <1>0, <1>4, <2>0, <2>2, <3>1, <3>2
  <2>. QED  BY <1>0, <1>1, <2>3, <2>4, <2>7, <2>8, <2>9 DEF WalkInv, blobVars
<1>10. WalkInv'
  BY <1>0, <1>9 DEF WalkInv, blobVars
<1>. QED  BY <1>1, <1>6, <1>7, <1>8, <1>10 DEF ChainInv

LEMMA WalkRejectInv ==
  ASSUME ChainInv, WalkReject
  PROVE  ChainInv'
<1> USE DEF WalkReject
<1>1. LayoutInv' /\ PtrsInv' /\ LinkInv' /\ HeaderInv'
  BY BlobKept
<1>2. damaged
  BY WalkHere DEF WordsAt
<1>3. TypeOK'
  BY DEF ChainInv, TypeOK, blobVars, loadVars
<1>4. WalkInv' /\ ChainOnly' /\ OwnBlobsAccepted' /\ WalkedUp'
  BY <1>2 DEF ChainInv, WalkInv, ChainOnly, OwnBlobsAccepted, WalkedUp, blobVars
<1>. QED  BY <1>1, <1>3, <1>4 DEF ChainInv

LEMMA WalkDoneInv ==
  ASSUME ChainInv, WalkDone
  PROVE  ChainInv'
<1> USE DEF WalkDone
<1>1. /\ Slots' = Slots /\ Elements(ptrs)' = Elements(ptrs) /\ Chain' = Chain
      /\ Chained' = Chained
      /\ LayoutInv' /\ PtrsInv' /\ LinkInv' /\ HeaderInv'
  BY BlobKept
<1>2. TypeOK'
  BY DEF ChainInv, TypeOK, blobVars, loadVars
<1>3. ~hdr.notUsing
  BY DEF ChainInv, ChainOnly
<1>4. ChainOnly' /\ OwnBlobsAccepted' /\ WalkedUp'
  BY <1>3 DEF ChainOnly, OwnBlobsAccepted, WalkedUp, blobVars
<1>5. ASSUME ~damaged, ptrs # <<>>
      PROVE  \E s \in Chain : \E k \in s..Len(ptrs) : WalkAt(s, k)'
  <2>1. Chained
    BY <1>3, <1>5 DEF Chained
  <2>2. PICK s \in Chain : \E j \in s..Len(ptrs) : WalkAt(s, j)
    BY <1>3, <1>5 DEF ChainInv, WalkInv
  <2>3. PICK k \in s..Len(ptrs) : WalkAt(s, k)
    BY <2>2
  <2>4. /\ Len(ptrs) \in Nat /\ s \in Nat /\ k \in Nat /\ s <= k /\ k <= Len(ptrs)
        /\ s \in 1..Len(ptrs) /\ s < Len(ptrs) /\ 1 <= s
    BY <2>1, ChainFacts DEF Chain
  <2>5. k # s
    <3>1. ptrs[s] # 0
      BY <2>1, <2>4, ChainFacts
    <3>. QED  BY <2>3, <3>1 DEF WalkAt
  <2>6. k - 1 \in Chain /\ (k - 1) + 1 = k
    BY <2>4, <2>5 DEF Chain
  <2>7. ptrs[(k - 1) + 1] - ptrs[k - 1] = 0
    BY <2>3, <2>5, <2>6 DEF WalkAt
  <2>8. k - 1 = Len(ptrs) - 1
    BY <2>1, <2>6, <2>7, ChainFacts
  <2>9. k = Len(ptrs)
    BY <2>4, <2>8
  <2>10. WalkAt(s, k)'
    BY <2>3, <2>9 DEF WalkAt, blobVars, loadVars
  <2>. QED  BY <2>10
<1>6. WalkInv'
  BY <1>1, <1>3, <1>5 DEF ChainInv, WalkInv, blobVars, loadVars
<1>. QED  BY <1>1, <1>2, <1>4, <1>6 DEF ChainInv

LEMMA StutterInv ==
  ASSUME ChainInv, UNCHANGED vars
  PROVE  ChainInv'
<1> USE DEF vars, blobVars, loadVars
<1>1. /\ Slots' = Slots /\ Elements(ptrs)' = Elements(ptrs) /\ Chain' = Chain
      /\ Chained' = Chained
  BY DEF Slots, Elements, Chain, Chained
<1>2. TypeOK' /\ LayoutInv' /\ PtrsInv' /\ LinkInv' /\ HeaderInv'
  BY <1>1 DEF ChainInv, TypeOK, LayoutInv, PtrsInv, LinkInv, HeaderInv
<1>3. WalkInv'
  BY <1>1 DEF ChainInv, WalkInv, WalkAt
<1>4. ChainOnly' /\ OwnBlobsAccepted' /\ WalkedUp'
  BY <1>1 DEF ChainInv, ChainOnly, OwnBlobsAccepted, WalkedUp
<1>. QED  BY <1>2, <1>3, <1>4 DEF ChainInv

-----------------------------------------------------------------------------
(* The theorems.                                                           *)

(* Every reachable state of packing, damaging, loading and loading again   *)
(* satisfies the inductive invariant: the blob's layout, the sorted ptrs,  *)
(* the chain as far as the linking loop has come, and the walk as far as   *)
(* dl_ptr_chain_patching has come are what the code relies on.             *)
THEOREM ChainInvariant == Spec => []ChainInv
<1>1. ChainInv /\ [Next]_vars => ChainInv'
  <2> SUFFICES ASSUME ChainInv, [Next]_vars PROVE ChainInv'
    OBVIOUS
  <2>1. ASSUME NEW e \in Positions, Reserve(e) PROVE ChainInv'
    BY <2>1, ReserveInv
  <2>2. ASSUME NEW p \in Positions, NEW o \in Positions, StorePtr(p, o) PROVE ChainInv'
    BY <2>2, StorePtrInv
  <2>3. CASE StoreFinish
    BY <2>3, FinishInv DEF StoreFinish
  <2>4. CASE TxtFinish
    <3>1. (IF ptrs = <<>> THEN 0 ELSE ptrs[1]) \in Nat
      BY DEF ChainInv, TypeOK
    <3>. QED  BY <2>4, <3>1, FinishInv DEF TxtFinish
  <2>5. CASE Link
    BY <2>5, LinkStepInv
  <2>6. CASE LinkDone
    BY <2>6, LinkDoneInv
  <2>7. CASE Damage
    BY <2>7, DamageInv
  <2>8. CASE Load
    BY <2>8, LoadInv
  <2>9. CASE WalkPatch
    BY <2>9, WalkPatchInv
  <2>10. CASE WalkReject
    BY <2>10, WalkRejectInv
  <2>11. CASE WalkDone
    BY <2>11, WalkDoneInv
  <2>12. CASE UNCHANGED vars
    BY <2>12, StutterInv
  <2>. QED
    BY <2>1, <2>2, <2>3, <2>4, <2>5, <2>6, <2>7, <2>8, <2>9, <2>10, <2>11, <2>12
    DEF Next, Pack, Patch
<1>. QED  BY <1>1, InitInv, PTL DEF Spec

(* Once dl_instance_store's blob is loaded, no pointer is left.            *)
LEMMA LoadedIsPatched ==
  ChainInv /\ phase = "loaded" /\ encoder = "store" /\ ~damaged
    => Slots \subseteq patched /\ AllPatched
<1> SUFFICES ASSUME ChainInv, phase = "loaded", encoder = "store", ~damaged
             PROVE  Slots \subseteq patched /\ AllPatched
  OBVIOUS
<1>1. ~hdr.notUsing
  BY DEF ChainInv, ChainOnly
<1>2. CASE ptrs = <<>>
  BY <1>2 DEF ChainInv, PtrsInv, Elements, AllPatched
<1>3. CASE ptrs # <<>>
  <2>1. Chained
    BY <1>1, <1>3 DEF Chained
  <2>2. PICK s \in Chain : \E k \in s..Len(ptrs) : WalkAt(s, k)
    BY <1>3 DEF ChainInv, WalkInv
  <2>3. PICK k \in s..Len(ptrs) : WalkAt(s, k)
    BY <2>2
  <2>4. k = Len(ptrs) /\ patched = {ptrs[i] : i \in s..(k - 1)}
    BY <2>3 DEF WalkAt
  <2>5. 1 \in Chain /\ ptrs[1] = ptrs[s]
    BY <2>1, <2>3, ChainFacts DEF ChainInv, HeaderInv, WalkAt, Chain
  <2>6. s = 1
    BY <2>1, <2>5, ChainFacts
  <2>7. \A p \in Slots : p \in patched
    BY <2>1, <2>4, <2>6, ChainFacts DEF Chain
  <2>. QED  BY <1>3, <2>7 DEF ChainInv, WalkInv, AllPatched
<1>. QED  BY <1>2, <1>3

(* Blobs that dl_instance_store gave a chain load completely.              *)
THEOREM StoredBlobLoads == Spec => []StoreLoadPatchesAll
<1>1. ChainInv => StoreLoadPatchesAll
  BY LoadedIsPatched DEF StoreLoadPatchesAll
<1>. QED  BY <1>1, ChainInvariant, PTL

(* Blobs made by dl_txt_pack load from the pointer it wrote first.         *)
THEOREM PackedBlobLoadsFromFirst == Spec => []TxtLoadPatchesFromFirst
<1>1. ChainInv => TxtLoadPatchesFromFirst
  <2> SUFFICES ASSUME ChainInv, phase = "loaded", encoder = "txt", ~damaged,
                      NEW p \in Slots
               PROVE  inst[p] = IF p >= hdr.first THEN Base + stored[p] ELSE word[p]
    BY DEF TxtLoadPatchesFromFirst
  <2>1. inst[p] = IF p \in patched THEN Base + stored[p] ELSE word[p]
    BY DEF ChainInv, WalkInv
  <2>2. ptrs # <<>>
    BY DEF ChainInv, PtrsInv, Elements
  <2>3. Chained
    BY <2>2 DEF Chained, ChainInv, ChainOnly
  <2>4. PICK s \in Chain : \E k \in s..Len(ptrs) : WalkAt(s, k)
    BY <2>2 DEF ChainInv, WalkInv
  <2>5. PICK k \in s..Len(ptrs) : WalkAt(s, k)
    BY <2>4
  <2>6. patched = {ptrs[i] : i \in s..(Len(ptrs) - 1)} /\ hdr.first = ptrs[s]
    BY <2>5 DEF WalkAt
  <2>7. PICK j \in Chain : ptrs[j] = p
    BY <2>3, ChainFacts
  <2>8. /\ Len(ptrs) \in Nat /\ j \in Nat /\ s \in Nat /\ ptrs[j] \in Nat /\ ptrs[s] \in Nat
    BY <2>3, ChainFacts DEF Chain
  <2>9. \A i, l \in Chain : i < l => ptrs[i] < ptrs[l]
    BY <2>3 DEF ChainInv, PtrsInv
  <2>10. CASE s <= j
    <3>1. ptrs[j] >= ptrs[s]
      BY <2>8, <2>9, <2>10
    <3>2. j \in s..(Len(ptrs) - 1)
      BY <2>8, <2>10 DEF Chain
    <3>. QED  BY <2>1, <2>6, <2>7, <3>1, <3>2
  <2>11. CASE j < s
    <3>1. ptrs[j] < ptrs[s]
      BY <2>9, <2>11
    <3>2. p \notin patched
      <4> SUFFICES ASSUME NEW i \in s..(Len(ptrs) - 1), ptrs[i] = p PROVE FALSE
        BY <2>6
      <4>1. i \in Chain /\ i # j
        BY <2>8, <2>11 DEF Chain
      <4>. QED  BY <2>3, <2>7, <4>1, ChainFacts
    <3>. QED  BY <2>1, <2>6, <2>7, <2>8, <3>1, <3>2
  <2>. QED  BY <2>8, <2>10, <2>11
<1>. QED  BY <1>1, ChainInvariant, PTL

(* The loader never rejects a blob the library made.                       *)
THEOREM OwnBlobsLoad == Spec => []OwnBlobsAccepted
<1>1. ChainInv => OwnBlobsAccepted
  BY DEF ChainInv
<1>. QED  BY <1>1, ChainInvariant, PTL

(* What a walk of an undamaged blob has patched are pointer words.         *)
LEMMA PatchedSlots ==
  ASSUME ChainInv, ~damaged
  PROVE  patched \subseteq Slots
<1>1. CASE phase \in {"write", "link", "packed"}
  BY <1>1 DEF ChainInv, WalkedUp
<1>2. CASE phase = "malformed"
  BY <1>2 DEF ChainInv, OwnBlobsAccepted
<1>3. CASE phase \in {"walk", "loaded"}
  <2>1. CASE ptrs = <<>>
    BY <1>3, <2>1 DEF ChainInv, WalkInv
  <2>2. CASE ptrs # <<>>
    <3>1. Chained
      BY <1>3, <2>2 DEF Chained, ChainInv, ChainOnly
    <3>2. PICK s \in Chain : \E k \in s..Len(ptrs) : WalkAt(s, k)
      BY <1>3, <2>2 DEF ChainInv, WalkInv
    <3>3. PICK k \in s..Len(ptrs) : WalkAt(s, k)
      BY <3>2
    <3>4. \A i \in s..(k - 1) : i \in 1..Len(ptrs)
      BY <3>1, ChainFacts DEF Chain
    <3>. QED  BY <3>1, <3>3, <3>4, ChainFacts DEF WalkAt
  <2>. QED  BY <2>1, <2>2
<1>. QED  BY <1>1, <1>2, <1>3 DEF ChainInv, TypeOK

(* The loader turns nothing but pointer words into addresses.              *)
THEOREM OnlyPointers == Spec => []OnlyPointersPatched
<1>1. ChainInv => OnlyPointersPatched
  BY PatchedSlots DEF OnlyPointersPatched
<1>. QED  BY <1>1, ChainInvariant, PTL

(* The walk only goes up, whatever the blob's words are, and by a word at  *)
(* least in a blob that is as the library made it.                         *)
THEOREM WalkUp == Spec => WalkGoesUp
<1>1. ChainInv /\ [Next]_vars =>
        [\A p \in patched, q \in patched' \ patched :
           IF damaged THEN p < q ELSE p + WordSize <= q]_<<inst, patched>>
  <2> SUFFICES ASSUME ChainInv, [Next]_vars, NEW p \in patched, NEW q \in patched' \ patched
               PROVE  IF damaged THEN p < q ELSE p + WordSize <= q
    OBVIOUS
  <2>1. WalkPatch
    BY DEF Next, Pack, Patch, Damage, Reserve, StorePtr, StoreFinish, TxtFinish, Finish,
           FinishBare, Link, LinkDone, Load, WalkReject, WalkDone, vars, loadVars
  <2>2. q = At /\ phase = "walk" /\ next # 0
    BY <2>1 DEF WalkPatch
  <2>3. p <= cursor /\ p \in Nat /\ cursor \in Nat /\ next \in Nat
    BY <2>2, SizeAssumption DEF ChainInv, TypeOK, WalkedUp, Positions
  <2>4. p < q
    BY <2>2, <2>3 DEF At
  <2>5. ASSUME ~damaged PROVE p + WordSize <= q
    <3>1. q \in Slots
      BY <2>2, <2>5, WalkHere
    <3>2. p \in Slots
      BY <2>2, <2>5, PatchedSlots
    <3>. QED  BY <2>4, <3>1, <3>2 DEF ChainInv, LayoutInv
  <2>. QED  BY <2>4, <2>5
<1>. QED  BY <1>1, ChainInvariant, PTL DEF Spec, WalkGoesUp

-----------------------------------------------------------------------------
(* The chain of dl_instance_store implements PointerLoad.                  *)

LEMMA PromiseInit == Init => Promise!Init
BY DEF Init, Promise!Init, LoadState

(* Nothing but Damage damages a blob, and a blob keeps its writer.         *)
LEMMA OnlyDamageDamages ==
  ASSUME Next
  PROVE  encoder' = encoder /\ (Damage \/ damaged' = damaged)
<1>1. CASE Pack
  <2>1. CASE (\E e \in Positions : Reserve(e)) \/ (\E p, o \in Positions : StorePtr(p, o))
    BY <2>1 DEF Reserve, StorePtr
  <2>2. ASSUME NEW first, FinishBare(first) \/ Finish(first)
        PROVE  encoder' = encoder /\ damaged' = damaged
    BY <2>2 DEF FinishBare, Finish
  <2>3. CASE StoreFinish \/ TxtFinish
    BY <2>2, <2>3 DEF StoreFinish, TxtFinish
  <2>4. CASE Link \/ LinkDone
    BY <2>4 DEF Link, LinkDone
  <2>. QED  BY <1>1, <2>1, <2>3, <2>4 DEF Pack
<1>2. CASE Damage
  BY <1>2 DEF Damage, blobVars
<1>3. CASE Load \/ WalkPatch \/ WalkReject \/ WalkDone
  BY <1>3 DEF Load, WalkPatch, WalkReject, WalkDone, blobVars
<1>. QED  BY <1>1, <1>2, <1>3 DEF Next, Patch

(* What is not promised does not move.                                     *)
LEMMA NotPromised ==
  ASSUME ChainInv, ChainInv', Next, encoder' = encoder,
         encoder = "txt" \/ damaged'
  PROVE  UNCHANGED Promise!vars
<1>1. CASE encoder = "txt"
  BY <1>1 DEF Promise!vars, LoadState
<1>2. CASE encoder # "txt" /\ damaged
  <2>1. damaged' /\ stored' = stored /\ phase \notin {"write", "link"}
    BY <1>2 DEF ChainInv, ChainOnly, Next, Pack, Patch, Reserve, StorePtr, StoreFinish, TxtFinish,
                Finish, FinishBare, Link, LinkDone, Damage, Load, WalkPatch, WalkReject, WalkDone, blobVars
  <2>2. phase' \notin {"write", "link"}
    BY <2>1 DEF ChainInv, ChainOnly
  <2>3. LoadState = "packed" /\ LoadState' = "packed"
    BY <1>2, <2>1, <2>2 DEF LoadState
  <2>. QED  BY <2>1, <2>3 DEF Promise!vars
<1>3. CASE encoder # "txt" /\ ~damaged
  <2>1. Damage
    BY <1>3, OnlyDamageDamages
  <2>2. LoadState = "packed" /\ LoadState' = "packed" /\ stored' = stored
    BY <1>3, <2>1 DEF Damage, LoadState, blobVars
  <2>. QED  BY <2>2 DEF Promise!vars
<1>. QED  BY <1>1, <1>2, <1>3

LEMMA PromiseStep ==
  ASSUME ChainInv, ChainInv', encoder = "store", encoder' = encoder, ~damaged, ~damaged', Next
  PROVE  [Promise!Next]_(Promise!vars)
<1> DEFINE pointers == [p \in Positions |-> IF encoder = "txt" THEN 0 ELSE stored[p]]
           memory == [p \in Positions |->
               IF LoadState \in {"loading", "loaded"} THEN LoadedWord(p) ELSE 0]
           todo == IF LoadState = "loading" THEN Slots \ patched ELSE {}
<1>. USE DEF Promise!Next, Promise!vars
<1>1. /\ stored \in [Positions -> Nat] /\ inst \in [Positions -> Nat]
      /\ stored' \in [Positions -> Nat]
  BY DEF ChainInv, TypeOK
<1>9. pointers = stored /\ pointers' = stored'
  BY <1>1
<1>2. CASE phase \in {"write", "link"} /\ phase' \in {"write", "link"} /\ stored' = stored
  BY <1>2 DEF LoadState
<1>3. ASSUME NEW p \in Positions, NEW o \in Positions, StorePtr(p, o)
      PROVE  Promise!WritePointer(p, o)
  <2>1. p \notin Slots
    BY <1>3, SizeAssumption DEF StorePtr, ChainInv, LayoutInv
  <2>2. stored[p] = 0
    BY <2>1 DEF Slots
  <2>3. LoadState = "packing" /\ LoadState' = "packing"
    BY <1>3 DEF StorePtr, LoadState
  <2>4. pointers' = [pointers EXCEPT ![p] = o] /\ pointers[p] = 0
    BY <1>3, <1>9, <2>2 DEF StorePtr
  <2>. QED  BY <2>3, <2>4 DEF Promise!WritePointer
<1>4. CASE /\ phase \in {"write", "link"} /\ phase' = "packed" /\ stored' = stored
  BY <1>4 DEF Promise!FinishPacking, LoadState
<1>5. CASE Load
  <2>1. /\ phase \in {"packed", "loaded"} /\ phase' = "walk"
        /\ patched' = {} /\ stored' = stored
    BY <1>5 DEF Load, blobVars
  <2>2. LoadState \in {"packed", "loaded"} /\ LoadState' = "loading"
    BY <2>1 DEF LoadState
  <2>3. memory' = pointers /\ pointers' = pointers
    BY <1>1, <1>9, <2>1, <2>2 DEF LoadedWord
  <2>4. todo' = {p \in Positions : pointers[p] # 0}
    BY <1>9, <2>1, <2>2 DEF Slots
  <2>5. Promise!BeginLoad
    BY <2>2, <2>3, <2>4 DEF Promise!BeginLoad
  <2>. QED  BY <2>5
<1>6. ASSUME NEW p \in Slots, p \notin patched,
             phase = "walk", phase' = phase, stored' = stored,
             inst' = [inst EXCEPT ![p] = Base + stored[p]], patched' = patched \union {p}
      PROVE  Promise!Next
  <2>1. p \in Positions /\ Slots' = Slots
    BY <1>6 DEF Slots
  <2>2. LoadState = "loading" /\ LoadState' = "loading"
    BY <1>6 DEF LoadState
  <2>3. memory' = [memory EXCEPT ![p] = Base + pointers[p]] /\ pointers' = pointers
    BY <1>1, <1>6, <1>9, <2>1, <2>2 DEF LoadedWord
  <2>4. todo' = todo \ {p} /\ p \in todo
    BY <1>6, <2>1, <2>2
  <2>5. Promise!PatchPointer(p)
    BY <2>2, <2>3, <2>4 DEF Promise!PatchPointer
  <2>. QED  BY <2>1, <2>5 DEF Promise!Loading
<1>7. ASSUME phase = "walk", phase' = "loaded",
             UNCHANGED <<inst, patched, stored>>
      PROVE  Promise!Next
  <2>1. Slots' \subseteq patched'
    <3>1. (ChainInv /\ phase = "loaded" /\ encoder = "store" /\ ~damaged
             => Slots \subseteq patched /\ AllPatched)'
      BY LoadedIsPatched, PTL
    <3>. QED  BY <1>7, <3>1
  <2>2. Slots' = Slots
    BY <1>7 DEF Slots
  <2>3. LoadState = "loading" /\ LoadState' = "loaded"
    BY <1>7 DEF LoadState
  <2>4. todo = {} /\ todo' = {}
    BY <1>7, <2>1, <2>2, <2>3
  <2>5. memory' = memory /\ pointers' = pointers
    BY <1>7, <2>3 DEF LoadedWord
  <2>6. Promise!EndLoad
    BY <2>3, <2>4, <2>5 DEF Promise!EndLoad
  <2>. QED  BY <2>6 DEF Promise!Loading
<1>8. CASE WalkPatch
  <2>1. At \in Slots /\ At \notin patched /\ Low(inst[At]) = stored[At]
    BY <1>8, WalkHere DEF WalkPatch
  <2>2. WordsAt(At) = {inst[At]}
    BY DEF WordsAt
  <2>. QED  BY <1>6, <1>8, <2>1, <2>2 DEF WalkPatch, blobVars
<1>10. CASE WalkDone
  BY <1>7, <1>10 DEF WalkDone, blobVars, loadVars
<1>11. CASE WalkReject
  BY <1>11, WalkHere DEF WalkReject, WordsAt
<1>12. CASE (\E e \in Positions : Reserve(e)) \/ Link
  BY <1>2, <1>12 DEF Reserve, Link
<1>13. CASE StoreFinish \/ TxtFinish
  BY <1>2, <1>4, <1>13 DEF StoreFinish, TxtFinish, Finish, FinishBare
<1>14. CASE LinkDone
  BY <1>4, <1>14 DEF LinkDone
<1>15. ~Damage
  BY DEF Damage
<1>. QED
  BY <1>3, <1>5, <1>8, <1>10, <1>11, <1>12, <1>13, <1>14, <1>15
  DEF Next, Pack, Patch

(* Packing with dl_instance_store and loading a blob that has a chain      *)
(* implement the promise of PointerLoad, step by step, as long as nothing  *)
(* damages the blob.                                                       *)
THEOREM StoreKeepsPromise == Spec => PromiseSteps
<1>1. ChainInv /\ ChainInv' /\ [Next]_vars => [Promise!Next]_(Promise!vars)
  <2> SUFFICES ASSUME ChainInv, ChainInv', [Next]_vars
               PROVE  [Promise!Next]_(Promise!vars)
    OBVIOUS
  <2>1. CASE UNCHANGED vars
    BY <2>1 DEF vars, blobVars, loadVars, Promise!vars, LoadState, LoadedWord, Slots
  <2>2. CASE Next
    <3>1. encoder' = encoder /\ (damaged => damaged')
      <4>1. encoder' = encoder /\ (Damage \/ damaged' = damaged)
        BY <2>2, OnlyDamageDamages
      <4>2. CASE Damage
        BY <4>1, <4>2 DEF Damage
      <4>3. CASE damaged' = damaged
        BY <4>1, <4>3
      <4>. QED  BY <4>1, <4>2, <4>3
    <3>2. encoder \in {"store", "txt"}
      BY EncodersAssumption DEF ChainInv, TypeOK
    <3>3. CASE encoder = "txt" \/ damaged'
      BY <2>2, <3>1, <3>3, NotPromised
    <3>4. CASE encoder = "store" /\ ~damaged'
      BY <2>2, <3>1, <3>4, PromiseStep
    <3>. QED  BY <3>2, <3>3, <3>4
  <2>. QED  BY <2>1, <2>2
<1>. QED  BY <1>1, PromiseInit, ChainInvariant, PTL DEF Spec, PromiseSteps
=============================================================================
