---------------------------- MODULE TxtPackProofs ----------------------------
(***************************************************************************)
(* Proofs about TxtPack for all types, texts and hashes, every size of     *)
(* header and every bound of the blob.                                     *)
(***************************************************************************)
EXTENDS TxtPack, Integers, NatInduct, TLAPS

-----------------------------------------------------------------------------
(* Sizes and offsets.                                                      *)

(* The fold that adds the first n weights, the last of them last.          *)
SumsOf(f, w, n) ==
  f = [t \in SUBSET (1..n) |-> IF t = {} THEN 0 ELSE f[t \ {Max(t)}] + w[Max(t)]]

(* The greatest number of a set.                                           *)
LEMMA MaxIs ==
  ASSUME NEW I \in SUBSET Nat, NEW m \in I, \A k \in I : k <= m
  PROVE  Max(I) = m
<1>1. \E x \in I : \A k \in I : x >= k
  OBVIOUS
<1>2. Max(I) \in I /\ \A k \in I : Max(I) >= k
  BY <1>1, Zenon DEF Max
<1>3. Max(I) <= m /\ m <= Max(I) /\ m \in Nat /\ Max(I) \in Nat
  BY <1>2
<1>. QED  BY <1>3

(* A set of the first n numbers that is not empty has a greatest one.      *)
LEMMA MaxOfSome ==
  ASSUME NEW n \in Nat
  PROVE  \A t \in SUBSET (1..n) : t # {} => Max(t) \in t /\ \A k \in t : k <= Max(t)
<1> DEFINE T == {l \in Nat : \A t \in SUBSET (1..l) : t # {} => Max(t) \in t /\ \A k \in t : k <= Max(t)}
<1>1. 0 \in T
  <2>1. \A t \in SUBSET (1..0) : t = {}
    OBVIOUS
  <2>. QED  BY <2>1
<1>2. ASSUME NEW l \in Nat, l \in T
      PROVE  l + 1 \in T
  <2>1. ASSUME NEW t \in SUBSET (1..(l + 1)), t # {}
        PROVE  Max(t) \in t /\ \A k \in t : k <= Max(t)
    <3>1. CASE l + 1 \in t
      <4>1. t \in SUBSET Nat /\ \A k \in t : k <= l + 1
        OBVIOUS
      <4>2. Max(t) = l + 1
        BY <3>1, <4>1, MaxIs
      <4>. QED  BY <3>1, <4>1, <4>2
    <3>2. CASE l + 1 \notin t
      <4>1. t \in SUBSET (1..l)
        BY <3>2
      <4>. QED  BY <1>2, <2>1, <4>1
    <3>. QED  BY <3>1, <3>2
  <2>. QED  BY <2>1
<1> HIDE DEF T
<1>3. \A l \in Nat : l \in T => l + 1 \in T
  BY <1>2
<1>4. Nat \subseteq T
  BY <1>1, <1>3, SetInduction, Zenon
<1>. QED  BY <1>4 DEF T

(* There is such a fold.                                                   *)
LEMMA SumsExist ==
  ASSUME NEW w
  PROVE  \A n \in Nat : \E f : SumsOf(f, w, n)
<1> DEFINE T == {n \in Nat : \E f : SumsOf(f, w, n)}
<1>1. 0 \in T
  <2> DEFINE f == [t \in SUBSET (1..0) |-> 0]
  <2>1. \A t \in SUBSET (1..0) : t = {}
    OBVIOUS
  <2>2. f = [t \in SUBSET (1..0) |-> IF t = {} THEN 0 ELSE f[t \ {Max(t)}] + w[Max(t)]]
    BY <2>1
  <2> HIDE DEF f
  <2>. QED  BY <2>2 DEF SumsOf
<1>2. ASSUME NEW n \in Nat, n \in T
      PROVE  n + 1 \in T
  <2>1. PICK f : SumsOf(f, w, n)
    BY <1>2
  <2> DEFINE g == [t \in SUBSET (1..(n + 1)) |->
                     IF n + 1 \in t THEN f[t \ {n + 1}] + w[n + 1] ELSE f[t]]
  <2>2. ASSUME NEW t \in SUBSET (1..(n + 1))
        PROVE  g[t] = IF t = {} THEN 0 ELSE g[t \ {Max(t)}] + w[Max(t)]
    <3>1. CASE n + 1 \in t
      <4>1. t \in SUBSET Nat /\ \A k \in t : k <= n + 1
        OBVIOUS
      <4>2. Max(t) = n + 1
        BY <3>1, <4>1, MaxIs
      <4>3. t \ {n + 1} \in SUBSET (1..(n + 1)) /\ n + 1 \notin t \ {n + 1}
        OBVIOUS
      <4>4. g[t \ {n + 1}] = f[t \ {n + 1}]
        BY <4>3
      <4>. QED  BY <3>1, <4>2, <4>4
    <3>2. CASE n + 1 \notin t
      <4>1. t \in SUBSET (1..n)
        BY <3>2
      <4>2. f[t] = IF t = {} THEN 0 ELSE f[t \ {Max(t)}] + w[Max(t)]
        BY <2>1, <4>1 DEF SumsOf
      <4>3. t # {} => t \ {Max(t)} \in SUBSET (1..(n + 1)) /\ n + 1 \notin t \ {Max(t)}
        BY <3>2
      <4>4. t # {} => g[t \ {Max(t)}] = f[t \ {Max(t)}]
        BY <4>3
      <4>5. g[t] = f[t]
        BY <3>2
      <4>. QED  BY <4>2, <4>4, <4>5
    <3>. QED  BY <3>1, <3>2
  <2>3. g = [t \in SUBSET (1..(n + 1)) |-> g[t]]
    OBVIOUS
  <2> HIDE DEF g
  <2>4. g = [t \in SUBSET (1..(n + 1)) |-> IF t = {} THEN 0 ELSE g[t \ {Max(t)}] + w[Max(t)]]
    BY <2>2, <2>3
  <2>5. SumsOf(g, w, n + 1)
    BY <2>4 DEF SumsOf
  <2>. QED  BY <2>5
<1> HIDE DEF T
<1>3. \A n \in Nat : n \in T => n + 1 \in T
  BY <1>2
<1>4. Nat \subseteq T
  BY <1>1, <1>3, SetInduction, Zenon
<1>. QED  BY <1>4 DEF T

SameSums(f, g, k) == \A t \in SUBSET (1..k) : f[t] = g[t]

(* What it gives for a set depends on the weights of the set alone.        *)
LEMMA SumsAgree ==
  ASSUME NEW w, NEW v, NEW f, NEW g, NEW n \in Nat, NEW m \in Nat, NEW k \in Nat,
         SumsOf(f, w, n), SumsOf(g, v, m), k <= n, k <= m, \A i \in 1..k : w[i] = v[i]
  PROVE  SameSums(f, g, k)
<1> DEFINE T == {l \in Nat : l <= k => \A t \in SUBSET (1..l) : f[t] = g[t]}
<1>1. \A t \in SUBSET (1..n) : f[t] = IF t = {} THEN 0 ELSE f[t \ {Max(t)}] + w[Max(t)]
  BY DEF SumsOf
<1>2. \A t \in SUBSET (1..m) : g[t] = IF t = {} THEN 0 ELSE g[t \ {Max(t)}] + v[Max(t)]
  BY DEF SumsOf
<1>3. 0 \in T
  <2>1. {} \in SUBSET (1..n) /\ {} \in SUBSET (1..m) /\ \A t \in SUBSET (1..0) : t = {}
    OBVIOUS
  <2>. QED  BY <1>1, <1>2, <2>1
<1>4. ASSUME NEW l \in Nat, l \in T
      PROVE  l + 1 \in T
  <2>1. SUFFICES ASSUME l + 1 <= k, NEW t \in SUBSET (1..(l + 1))
                 PROVE  f[t] = g[t]
    OBVIOUS
  <2>2. CASE l + 1 \in t
    <3>1. t \in SUBSET Nat /\ \A i \in t : i <= l + 1
      OBVIOUS
    <3>2. Max(t) = l + 1
      BY <2>2, <3>1, MaxIs
    <3>3. t \in SUBSET (1..n) /\ t \in SUBSET (1..m) /\ t # {} /\ l + 1 \in 1..k
      BY <2>1, <2>2
    <3>4. t \ {l + 1} \in SUBSET (1..l) /\ l <= k
      BY <2>1
    <3>5. f[t \ {l + 1}] = g[t \ {l + 1}]
      BY <1>4, <3>4
    <3>. QED  BY <1>1, <1>2, <3>2, <3>3, <3>5
  <2>3. CASE l + 1 \notin t
    <3>1. t \in SUBSET (1..l) /\ l <= k
      BY <2>1, <2>3
    <3>. QED  BY <1>4, <3>1
  <2>. QED  BY <2>2, <2>3
<1> HIDE DEF T
<1>5. \A l \in Nat : l \in T => l + 1 \in T
  BY <1>4
<1>6. Nat \subseteq T
  BY <1>3, <1>5, SetInduction, Zenon
<1>7. k \in T
  BY <1>6
<1>. QED  BY <1>7 DEF T, SameSums

(* The size of members is such a sum.                                      *)
LEMMA SizeIsSum ==
  ASSUME NEW s, NEW n \in Nat, DOMAIN s = 1..n
  PROVE  \E f : SumsOf(f, [i \in 1..n |-> MemberSize(s[i])], n) /\ SizeOf(s) = f[1..n]
<1> DEFINE w == [i \in 1..n |-> MemberSize(s[i])]
           f == CHOOSE g : g = [t \in SUBSET (DOMAIN s) |->
                                  IF t = {} THEN 0 ELSE g[t \ {Max(t)}] + MemberSize(s[Max(t)])]
<1>1. SizeOf(s) = f[DOMAIN s]
  BY DEF SizeOf, FoldLeft, MapThenFoldSet
<1>2. PICK g : SumsOf(g, w, n)
  BY SumsExist
<1>3. g = [t \in SUBSET (DOMAIN s) |->
             IF t = {} THEN 0 ELSE g[t \ {Max(t)}] + MemberSize(s[Max(t)])]
  <2>1. ASSUME NEW t \in SUBSET (1..n)
        PROVE  (IF t = {} THEN 0 ELSE g[t \ {Max(t)}] + w[Max(t)])
                 = (IF t = {} THEN 0 ELSE g[t \ {Max(t)}] + MemberSize(s[Max(t)]))
    <3>1. t # {} => Max(t) \in 1..n
      BY MaxOfSome
    <3>. QED  BY <3>1
  <2>2. g = [t \in SUBSET (1..n) |-> IF t = {} THEN 0 ELSE g[t \ {Max(t)}] + w[Max(t)]]
    BY <1>2 DEF SumsOf
  <2>. QED  BY <2>1, <2>2
<1>4. f = [t \in SUBSET (DOMAIN s) |->
             IF t = {} THEN 0 ELSE f[t \ {Max(t)}] + MemberSize(s[Max(t)])]
  BY <1>3
<1> HIDE DEF f
<1>5. f = [t \in SUBSET (1..n) |-> IF t = {} THEN 0 ELSE f[t \ {Max(t)}] + w[Max(t)]]
  <2>1. ASSUME NEW t \in SUBSET (1..n)
        PROVE  (IF t = {} THEN 0 ELSE f[t \ {Max(t)}] + w[Max(t)])
                 = (IF t = {} THEN 0 ELSE f[t \ {Max(t)}] + MemberSize(s[Max(t)]))
    <3>1. t # {} => Max(t) \in 1..n
      BY MaxOfSome
    <3>. QED  BY <3>1
  <2>. QED  BY <1>4, <2>1
<1>6. SumsOf(f, w, n)
  BY <1>5 DEF SumsOf
<1>. QED  BY <1>1, <1>6

(* Members have room, which is a number of cells.                          *)
LEMMA MemberRoom ==
  ASSUME NEW m \in MemberDescs
  PROVE  ElementSize(m) \in Nat \ {0} /\ MemberSize(m) \in Nat
<1>1. m.of \in DOMAIN Members /\ m.atom \in {"pod", "inline", "array"} /\ m.count \in Nat
  BY DEF MemberDescs
<1>2. ElementSize(m) \in Nat \ {0}
  BY <1>1, TxtPackAssumption DEF ElementSize
<1>3. m.count * ElementSize(m) \in Nat
  BY <1>1, <1>2
<1>. QED  BY <1>1, <1>2, <1>3 DEF MemberSize

(* The first elements of a sequence.                                       *)
LEMMA Prefix ==
  ASSUME NEW S, NEW s \in Seq(S), NEW i \in 0..Len(s)
  PROVE  /\ SubSeq(s, 1, i) \in Seq(S) /\ Len(SubSeq(s, 1, i)) = i
         /\ DOMAIN SubSeq(s, 1, i) = 1..i
         /\ \A j \in 1..i : SubSeq(s, 1, i)[j] = s[j]
<1>1. SubSeq(s, 1, i) = [j \in 1..i |-> s[j]]
  BY DEF SubSeq
<1>. QED  BY <1>1

(* The size of the first members, one by one.                              *)
LEMMA SizeOfFirst ==
  ASSUME NEW s \in Seq(MemberDescs), NEW i \in 0..Len(s)
  PROVE  IF i = 0 THEN SizeOf(SubSeq(s, 1, 0)) = 0
         ELSE SizeOf(SubSeq(s, 1, i)) = SizeOf(SubSeq(s, 1, i - 1)) + MemberSize(s[i])
<1>1. PICK a : a = SubSeq(s, 1, i) /\ DOMAIN a = 1..i /\ \A j \in 1..i : a[j] = s[j]
  BY Prefix
<1>2. i \in Nat
  OBVIOUS
<1>3. PICK f : SumsOf(f, [j \in 1..i |-> MemberSize(a[j])], i) /\ SizeOf(a) = f[1..i]
  BY <1>1, <1>2, SizeIsSum
<1>4. \A t \in SUBSET (1..i) : f[t] = IF t = {} THEN 0 ELSE f[t \ {Max(t)}] + [j \in 1..i |-> MemberSize(a[j])][Max(t)]
  BY <1>3 DEF SumsOf
<1>5. CASE i = 0
  <2>1. 1..i = {} /\ 1..i \in SUBSET (1..i)
    BY <1>5
  <2>. QED  BY <1>1, <1>3, <1>4, <1>5, <2>1
<1>6. CASE i # 0
  <2>0. i - 1 \in Nat /\ i - 1 <= i /\ i - 1 <= i - 1 /\ i \in 1..i
    BY <1>6
  <2>9. i - 1 \in 0..Len(s)
    BY <1>6
  <2>1. PICK b : b = SubSeq(s, 1, i - 1) /\ DOMAIN b = 1..(i - 1) /\ \A j \in 1..(i - 1) : b[j] = s[j]
    BY <2>9, Prefix
  <2>2. PICK g : SumsOf(g, [j \in 1..(i - 1) |-> MemberSize(b[j])], i - 1) /\ SizeOf(b) = g[1..(i - 1)]
    BY <2>0, <2>1, SizeIsSum
  <2>3. \A j \in 1..(i - 1) : [k \in 1..i |-> MemberSize(a[k])][j] = [k \in 1..(i - 1) |-> MemberSize(b[k])][j]
    BY <1>1, <2>1
  <2> DEFINE w == [k \in 1..i |-> MemberSize(a[k])]
             v == [k \in 1..(i - 1) |-> MemberSize(b[k])]
  <2>11. SumsOf(f, w, i) /\ SumsOf(g, v, i - 1) /\ \A j \in 1..(i - 1) : w[j] = v[j]
    BY <1>3, <2>2, <2>3
  <2> HIDE DEF w, v
  <2>10. SameSums(f, g, i - 1)
    BY <1>2, <2>0, <2>11, SumsAgree
  <2>4. f[1..(i - 1)] = g[1..(i - 1)]
    BY <2>10 DEF SameSums
  <2>12. 1..i \in SUBSET Nat
    OBVIOUS
  <2>13. \A k \in 1..i : k <= i
    OBVIOUS
  <2>5. 1..i \in SUBSET Nat /\ 1..i # {} /\ \A k \in 1..i : k <= i
    BY <2>0, <2>12, <2>13
  <2>6. Max(1..i) = i
    BY <2>0, <2>5, MaxIs
  <2>7. (1..i) \ {i} = 1..(i - 1)
    BY <1>6
  <2>8. f[1..i] = f[1..(i - 1)] + MemberSize(a[i])
    BY <1>4, <2>0, <2>5, <2>6, <2>7
  <2>. QED  BY <1>1, <1>3, <1>6, <2>0, <2>1, <2>2, <2>4, <2>8
<1>. QED  BY <1>5, <1>6

FirstSizesAre(s, n, u) ==
  /\ u \in [0..n -> Nat] /\ u[0] = 0 /\ u[n] = SizeOf(s)
  /\ \A i \in 1..n : u[i] = u[i - 1] + MemberSize(s[i])
  /\ \A i, j \in 0..n : i <= j => u[i] <= u[j]
  /\ \A p \in 0..(u[n] - 1) : \E i \in 1..n : u[i - 1] <= p /\ p < u[i]

(* The first members take some of the room of all, more with each.         *)
LEMMA FirstSizes ==
  ASSUME NEW s \in Seq(MemberDescs), NEW n \in Nat, n = Len(s),
         NEW u, u = [i \in 0..n |-> SizeOf(SubSeq(s, 1, i))]
  PROVE  FirstSizesAre(s, n, u)
<1>1. u[0] = 0 /\ \A i \in 1..n : u[i] = u[i - 1] + MemberSize(s[i])
  <2>1. u[0] = 0
    BY SizeOfFirst
  <2>2. ASSUME NEW i \in 1..n
        PROVE  u[i] = u[i - 1] + MemberSize(s[i])
    <3>1. i \in 0..Len(s) /\ i # 0 /\ i - 1 \in 0..n
      OBVIOUS
    <3>. QED  BY <3>1, SizeOfFirst
  <2>. QED  BY <2>1, <2>2
<1>2. \A i \in 1..n : MemberSize(s[i]) \in Nat
  BY MemberRoom
<1>3. SubSeq(s, 1, n) = s
  BY DEF SubSeq
<1>4. u[n] = SizeOf(s)
  BY <1>3
<1>5. DOMAIN u = 0..n /\ u = [i \in 0..n |-> u[i]]
  OBVIOUS
<1>6. PICK w : w = [i \in 1..n |-> MemberSize(s[i])]
  OBVIOUS
<1>7. /\ w \in [1..n -> Nat] /\ \A i \in 1..n : u[i] = u[i - 1] + w[i]
  BY <1>1, <1>2, <1>6
<1> DEFINE Good(k) == /\ u[k] \in Nat
                      /\ \A i \in 0..k : u[i] \in Nat /\ u[i] <= u[k]
                      /\ \A p \in 0..(u[k] - 1) : \E i \in 1..k : u[i - 1] <= p /\ p < u[i]
           T == {k \in Nat : k <= n => Good(k)}
<1>8. 0 \in T
  BY <1>1
<1>9. ASSUME NEW k \in Nat, k \in T
      PROVE  k + 1 \in T
  <2> HIDE DEF Good
  <2>1. SUFFICES ASSUME k + 1 <= n
                 PROVE  Good(k + 1)
    OBVIOUS
  <2>2. k + 1 \in 1..n /\ (k + 1) - 1 = k /\ k <= n
    BY <2>1
  <2>3. u[k + 1] = u[k] + w[k + 1] /\ w[k + 1] \in Nat
    BY <1>7, <2>2
  <2>4. /\ u[k] \in Nat
        /\ \A i \in 0..k : u[i] \in Nat /\ u[i] <= u[k]
        /\ \A p \in 0..(u[k] - 1) : \E i \in 1..k : u[i - 1] <= p /\ p < u[i]
    BY <1>9, <2>2 DEF Good
  <2>5. u[k + 1] \in Nat /\ u[k] <= u[k + 1]
    BY <2>3, <2>4
  <2>6. \A i \in 0..(k + 1) : i = k + 1 \/ i \in 0..k
    OBVIOUS
  <2>7. \A i \in 0..(k + 1) : u[i] \in Nat /\ u[i] <= u[k + 1]
    BY <2>4, <2>5, <2>6
  <2>8. ASSUME NEW p \in 0..(u[k + 1] - 1)
        PROVE  \E i \in 1..(k + 1) : u[i - 1] <= p /\ p < u[i]
    <3>1. CASE p < u[k]
      <4>1. p \in 0..(u[k] - 1)
        BY <2>4, <2>5, <3>1
      <4>2. PICK i \in 1..k : u[i - 1] <= p /\ p < u[i]
        BY <2>4, <4>1
      <4>3. i \in 1..(k + 1)
        OBVIOUS
      <4>. QED  BY <4>2, <4>3
    <3>2. CASE ~(p < u[k])
      <4>1. u[(k + 1) - 1] <= p /\ p < u[k + 1] /\ k + 1 \in 1..(k + 1)
        BY <2>2, <2>4, <2>5, <3>2
      <4>. QED  BY <4>1
    <3>. QED  BY <3>1, <3>2
  <2>. QED  BY <2>5, <2>7, <2>8 DEF Good
<1> HIDE DEF T, Good
<1>10. \A k \in Nat : k \in T => k + 1 \in T
  BY <1>9
<1>11. Nat \subseteq T
  BY <1>8, <1>10, SetInduction, Zenon
<1>12. \A k \in 0..n : k \in T /\ k <= n
  BY <1>11
<1>13. \A j \in 0..n : u[j] \in Nat /\ \A i \in 0..j : u[i] <= u[j]
  BY <1>12 DEF T, Good
<1>14. n \in T
  BY <1>11
<1>15. \A p \in 0..(u[n] - 1) : \E i \in 1..n : u[i - 1] <= p /\ p < u[i]
  BY <1>14 DEF T, Good
<1>16. \A i, j \in 0..n : i <= j => i \in 0..j
  OBVIOUS
<1>. QED  BY <1>1, <1>4, <1>5, <1>13, <1>15, <1>16 DEF FirstSizesAre

(* The members of a type take up its room, one behind the other.           *)
LEMMA Offsets ==
  ASSUME NEW type \in DOMAIN Members
  PROVE  /\ \A i \in DOMAIN Members[type] :
              /\ Offset(type, i) \in Nat /\ MemberSize(Members[type][i]) \in Nat
              /\ Offset(type, i) + MemberSize(Members[type][i]) <= Size[type]
         /\ \A i, j \in DOMAIN Members[type] :
              i < j => Offset(type, i) + MemberSize(Members[type][i]) <= Offset(type, j)
         /\ \A p \in 0..(Size[type] - 1) : \E i \in DOMAIN Members[type] :
              Offset(type, i) <= p /\ p < Offset(type, i) + MemberSize(Members[type][i])
         /\ Members[type] \in Seq(MemberDescs) /\ Size[type] \in Nat \ {0}
         /\ DOMAIN Members[type] = 1..Len(Members[type])
<1>1. PICK s \in Seq(MemberDescs) : s = Members[type] /\ Size[type] = SizeOf(s) /\ Size[type] \in Nat \ {0}
  BY TxtPackAssumption
<1>2. PICK n \in Nat : n = Len(s) /\ DOMAIN s = 1..n
  OBVIOUS
<1>3. PICK u : u = [i \in 0..n |-> SizeOf(SubSeq(s, 1, i))]
  OBVIOUS
<1>4. /\ u \in [0..n -> Nat] /\ u[0] = 0 /\ u[n] = SizeOf(s)
      /\ \A i \in 1..n : u[i] = u[i - 1] + MemberSize(s[i])
      /\ \A i, j \in 0..n : i <= j => u[i] <= u[j]
      /\ \A p \in 0..(u[n] - 1) : \E i \in 1..n : u[i - 1] <= p /\ p < u[i]
  <2>1. FirstSizesAre(s, n, u)
    BY <1>2, <1>3, FirstSizes
  <2>. QED  BY <2>1 DEF FirstSizesAre
<1>5. \A i \in 1..n : i - 1 \in 0..n /\ i \in 0..n /\ MemberSize(s[i]) \in Nat
  BY <1>2, MemberRoom
<1>6. \A i \in 1..n : Offset(type, i) = u[i - 1]
  BY <1>1, <1>3, <1>5 DEF Offset
<1>7. ASSUME NEW i \in 1..n
      PROVE  /\ Offset(type, i) \in Nat /\ Offset(type, i) + MemberSize(s[i]) = u[i]
             /\ u[i] <= Size[type]
  <2>1. /\ i - 1 \in 0..n /\ i \in 0..n /\ n \in 0..n /\ i <= n
        /\ u[i - 1] \in Nat /\ u[i] \in Nat /\ u[i] = u[i - 1] + MemberSize(s[i])
    BY <1>4, <1>5
  <2>2. u[i] <= u[n] /\ u[n] = Size[type]
    BY <1>1, <1>4, <2>1
  <2>. QED  BY <1>5, <1>6, <2>1, <2>2
<1>8. ASSUME NEW i \in 1..n, NEW j \in 1..n, i < j
      PROVE  u[i] <= Offset(type, j)
  <2>1. i <= j - 1 /\ j - 1 \in 0..n /\ i \in 0..n
    BY <1>8
  <2>. QED  BY <1>4, <1>6, <2>1
<1>9. ASSUME NEW p \in 0..(Size[type] - 1)
      PROVE  \E i \in 1..n : Offset(type, i) <= p /\ p < Offset(type, i) + MemberSize(s[i])
  <2>1. PICK i \in 1..n : u[i - 1] <= p /\ p < u[i]
    BY <1>1, <1>4
  <2>. QED  BY <1>6, <1>7, <2>1
<1>. QED  BY <1>1, <1>2, <1>5, <1>7, <1>8, <1>9

-----------------------------------------------------------------------------
(* The tasks of a text of a typing.                                        *)
Values(T) == T.values \union {Invalid, Null, Missing}
Tasks(T) == [m : MemberDescs, at : Nat, seek : BOOLEAN, value : Values(T)]

(* What a text gives of a struct of a type.                                *)
GivenOf(type, T) == Seq([member : DOMAIN Members[type], value : T.values])
Typed(entries, type, T) ==
  /\ entries \in GivenOf(type, T)
  /\ \A i \in DOMAIN entries : Fits(entries[i].value, Members[type][entries[i].member], T)

(* The value of a task suits its member, or is the default value of it.    *)
ValueOK(t, T) ==
  IF t.value.t = "default" THEN t.seek /\ DefaultFits(t.m) ELSE Fits(t.value, t.m, T)

(* The tasks of a struct: each packs a member where it belongs, every      *)
(* member is packed, and one that is packed twice is invalid the second    *)
(* time.                                                                   *)
MembersOf(tasks, of, type, at) ==
  /\ of \in [DOMAIN tasks -> DOMAIN Members[type]]
  /\ \A k \in DOMAIN tasks : /\ tasks[k].m = Members[type][of[k]]
                             /\ tasks[k].at = at + Offset(type, of[k])
                             /\ tasks[k].seek
  /\ \A i \in DOMAIN Members[type] : \E k \in DOMAIN tasks : of[k] = i
  /\ \A k, l \in DOMAIN tasks :
       k < l /\ of[k] = of[l] => tasks[l].value.t = "invalid"

PackStructOf(tasks, type, at) == \E of : MembersOf(tasks, of, type, at)

(* The task of a member is a task, for that member and at its place.       *)
LEMMA MemberTaskTyped ==
  ASSUME NEW T, NEW type \in DOMAIN Members, NEW i \in DOMAIN Members[type], NEW at \in Nat,
         NEW value \in Values(T)
  PROVE  /\ MemberTask(type, at, i, value) \in Tasks(T)
         /\ MemberTask(type, at, i, value).m = Members[type][i]
         /\ MemberTask(type, at, i, value).at = at + Offset(type, i)
         /\ MemberTask(type, at, i, value).seek
         /\ MemberTask(type, at, i, value).value = value
<1>1. Members[type][i] \in MemberDescs /\ at + Offset(type, i) \in Nat
  BY Offsets
<1>. QED  BY <1>1 DEF MemberTask, Tasks

(* What is missing has its default value, each once.                       *)
LEMMA MissingTyped ==
  ASSUME NEW T, NEW type \in DOMAIN Members, NEW at \in Nat, NEW given
  PROVE  /\ MissingTasks(type, at, given) \in Seq(Tasks(T))
         /\ \E of : /\ of \in [1..Len(MissingTasks(type, at, given)) -> DOMAIN Members[type] \ given]
                    /\ \A k \in 1..Len(MissingTasks(type, at, given)) :
                         MissingTasks(type, at, given)[k] = MemberTask(type, at, of[k], Missing)
                    /\ \A i \in DOMAIN Members[type] \ given :
                         \E k \in 1..Len(MissingTasks(type, at, given)) : of[k] = i
                    /\ \A k, l \in 1..Len(MissingTasks(type, at, given)) : k < l => of[k] # of[l]
<1>1. PICK n \in Nat : DOMAIN Members[type] = 1..n
  BY Offsets
<1>2. PICK seqs : seqs = [i \in 1..n |-> IF i \in given THEN <<>> ELSE <<MemberTask(type, at, i, Missing)>>]
  OBVIOUS
<1>3. MissingTasks(type, at, given) = FlattenSeq(seqs)
  BY <1>1, <1>2 DEF MissingTasks
<1>4. \A i \in 1..n : MemberTask(type, at, i, Missing) \in Tasks(T)
  BY <1>1, MemberTaskTyped DEF Values
<1>5. \A i \in 1..n : seqs[i] \in Seq(Tasks(T))
  BY <1>2, <1>4
<1>6. seqs \in Seq(Seq(Tasks(T))) /\ Len(seqs) = n
  BY <1>2, <1>5
<1>7. PICK flat : flat = FlattenSeq(seqs)
  OBVIOUS
<1>8. flat \in Seq(Tasks(T))
  BY <1>6, <1>7, Flattened
<1>9. PICK start : PlacesIn(flat, seqs, n, start)
  BY <1>6, <1>7, FlattenPlaces DEF HasPlaces
<1>10. PICK f \in Nat : f = Len(flat)
  BY <1>8
<1>11. /\ start \in [0..n -> Nat]
       /\ \A i \in 1..n : start[i] = start[i - 1] + Len(seqs[i])
       /\ \A i, j \in 0..n : i <= j => start[i] <= start[j]
       /\ \A i \in 1..n : \A j \in 1..Len(seqs[i]) : flat[start[i - 1] + j] = seqs[i][j]
       /\ \A k \in 1..f : \E i \in 1..n : \E j \in 1..Len(seqs[i]) : k = start[i - 1] + j
       /\ start[n] = f
  BY <1>9, <1>10, Zenon DEF PlacesIn
<1>12. \A i \in 1..n : IF i \in given THEN Len(seqs[i]) = 0
                       ELSE Len(seqs[i]) = 1 /\ seqs[i][1] = MemberTask(type, at, i, Missing)
  BY <1>2
<1>13. \A k \in 1..f : \E i \in (1..n) \ given : k = start[i - 1] + 1
  <2>1. ASSUME NEW k \in 1..f
        PROVE  \E i \in (1..n) \ given : k = start[i - 1] + 1
    <3>0. PICK i \in 1..n : \E j \in 1..Len(seqs[i]) : k = start[i - 1] + j
      BY <1>11
    <3>1. PICK j \in 1..Len(seqs[i]) : k = start[i - 1] + j
      BY <3>0
    <3>2. Len(seqs[i]) = IF i \in given THEN 0 ELSE 1
      BY <1>12
    <3>3. PICK e : e = Len(seqs[i]) /\ j \in 1..e
      BY <3>1
    <3>4. i \notin given /\ j = 1
      BY <3>2, <3>3
    <3>. QED  BY <3>1, <3>4
  <2>. QED  BY <2>1
<1>14. PICK of : of = [k \in 1..f |-> CHOOSE i \in (1..n) \ given : k = start[i - 1] + 1]
  OBVIOUS
<1>15. \A k \in 1..f : of[k] \in (1..n) \ given /\ k = start[of[k] - 1] + 1
  BY <1>13, <1>14
<1>16. \A k \in 1..f : flat[k] = MemberTask(type, at, of[k], Missing)
  <2>1. ASSUME NEW k \in 1..f
        PROVE  flat[k] = MemberTask(type, at, of[k], Missing)
    <3>1. PICK i \in (1..n) \ given : i = of[k] /\ k = start[i - 1] + 1
      BY <1>15
    <3>2. i \in 1..n /\ Len(seqs[i]) = 1 /\ seqs[i][1] = MemberTask(type, at, i, Missing)
      BY <1>12
    <3>3. 1 \in 1..Len(seqs[i])
      BY <3>2
    <3>4. flat[start[i - 1] + 1] = seqs[i][1]
      BY <1>11, <3>2, <3>3
    <3>. QED  BY <3>1, <3>2, <3>4
  <2>. QED  BY <2>1
<1>17. ASSUME NEW i \in (1..n) \ given
       PROVE  start[i - 1] + 1 \in 1..f /\ \A h \in (1..n) \ given : start[h - 1] + 1 = start[i - 1] + 1 => h = i
  <2>1. ASSUME NEW h \in (1..n) \ given
        PROVE  /\ start[h] = start[h - 1] + 1 /\ start[h - 1] \in Nat /\ start[h] \in Nat
               /\ h - 1 \in 0..n /\ h \in 0..n
    <3>1. h - 1 \in 0..n /\ h \in 0..n
      OBVIOUS
    <3>2. Len(seqs[h]) = 1
      BY <1>12
    <3>. QED  BY <1>11, <3>1, <3>2
  <2>2. n \in 0..n /\ i <= n
    OBVIOUS
  <2>3. start[i] <= f
    BY <1>11, <2>1, <2>2
  <2>4. start[i - 1] + 1 \in 1..f
    BY <2>1, <2>3
  <2>5. ASSUME NEW h \in (1..n) \ given, start[h - 1] + 1 = start[i - 1] + 1, h # i
        PROVE  FALSE
    <3>1. start[h] = start[i] /\ start[h - 1] = start[i - 1]
      BY <2>1, <2>5
    <3>2. CASE h < i
      <4>1. h <= i - 1
        BY <3>2
      <4>2. start[h] <= start[i - 1]
        BY <1>11, <2>1, <4>1
      <4>. QED  BY <2>1, <3>1, <4>2
    <3>3. CASE ~(h < i)
      <4>1. i <= h - 1
        BY <2>5, <3>3
      <4>2. start[i] <= start[h - 1]
        BY <1>11, <2>1, <4>1
      <4>. QED  BY <2>1, <3>1, <4>2
    <3>. QED  BY <3>2, <3>3
  <2>. QED  BY <2>4, <2>5
<1>18. \A i \in (1..n) \ given : \E k \in 1..f : of[k] = i
  <2>1. ASSUME NEW i \in (1..n) \ given
        PROVE  \E k \in 1..f : of[k] = i
    <3>1. PICK k \in 1..f : k = start[i - 1] + 1
      BY <1>17
    <3>. QED  BY <1>15, <1>17, <3>1
  <2>. QED  BY <2>1
<1>19. \A k, l \in 1..f : k < l => of[k] # of[l]
  BY <1>15
<1>20. of \in [1..f -> (1..n) \ given]
  BY <1>14, <1>15
<1>21. flat = MissingTasks(type, at, given)
  BY <1>3, <1>7
<1>22. /\ of \in [1..Len(flat) -> DOMAIN Members[type] \ given]
       /\ \A k \in 1..Len(flat) : flat[k] = MemberTask(type, at, of[k], Missing)
       /\ \A i \in DOMAIN Members[type] \ given : \E k \in 1..Len(flat) : of[k] = i
       /\ \A k, l \in 1..Len(flat) : k < l => of[k] # of[l]
  BY <1>1, <1>10, <1>16, <1>18, <1>19, <1>20
<1> HIDE DEF MissingTasks
<1>. QED  BY <1>8, <1>21, <1>22

(* Which values a member can have.                                         *)
LEMMA FitsTags ==
  ASSUME NEW T, NEW m \in MemberDescs, NEW value, Fits(value, m, T)
  PROVE  /\ value.t \in {"data", "null", "str", "ref", "struct", "array", "invalid"}
         /\ value.t = "array" => /\ m.atom # "pod" /\ value.v \in Seq(T.values)
                                 /\ \A i \in DOMAIN value.v : Suits(value.v[i], m, T)
         /\ value.t \in Words \union {"ref"} => m.atom = "pod" /\ m.kind # "struct"
         /\ value.t = "ref" => m.kind = "ptr" /\ value.v \in DOMAIN T.types /\ T.types[value.v] = m.of
         /\ value.t = "struct" => /\ m.atom = "pod" /\ m.kind = "struct"
                                  /\ [type |-> m.of, given |-> value.v] \in T.structs
<1>1. CASE m.atom = "pod"
  BY <1>1 DEF Fits, Suits, Words
<1>2. CASE m.atom # "pod"
  BY <1>2 DEF Fits, Words
<1>. QED  BY <1>1, <1>2, Zenon

(* The tasks of a struct are for members of its type, at their places, and *)
(* their values fit them.                                                  *)
LEMMA StructTasksTyped ==
  ASSUME NEW T, NEW type \in DOMAIN Members, NEW at \in Nat, NEW entries, Typed(entries, type, T)
  PROVE  /\ StructTasks(type, at, entries) \in Seq(Tasks(T))
         /\ PackStructOf(StructTasks(type, at, entries), type, at)
         /\ \A k \in DOMAIN StructTasks(type, at, entries) : ValueOK(StructTasks(type, at, entries)[k], T)
<1> DEFINE Again(i) == \E j \in 1..(i - 1) : entries[j].member = entries[i].member
<1>1. /\ entries \in Seq([member : DOMAIN Members[type], value : T.values])
      /\ \A i \in DOMAIN entries : Fits(entries[i].value, Members[type][entries[i].member], T)
  BY DEF Typed, GivenOf
<1>2. PICK e \in Nat : e = Len(entries) /\ DOMAIN entries = 1..e
  BY <1>1
<1>3. \A i \in 1..e : entries[i].member \in DOMAIN Members[type] /\ entries[i].value \in T.values
  <2> DEFINE R == [member : DOMAIN Members[type], value : T.values]
  <2> HIDE DEF R
  <2>1. entries \in Seq(R)
    BY <1>1 DEF R
  <2>2. \A i \in 1..e : entries[i] \in R
    BY <1>2, <2>1
  <2>. QED  BY <2>2 DEF R
<1>4. PICK a : a = [i \in 1..e |-> MemberTask(type, at, entries[i].member,
                                              IF Again(i) THEN Invalid ELSE entries[i].value)]
  OBVIOUS
<1>5. PICK given : given = {entries[i].member : i \in DOMAIN entries}
  OBVIOUS
<1>6. PICK b : b = MissingTasks(type, at, given)
  OBVIOUS
<1>7. StructTasks(type, at, entries) = a \o b
  BY <1>2, <1>4, <1>5, <1>6 DEF StructTasks
<1>8. ASSUME NEW i \in 1..e
      PROVE  /\ a[i] \in Tasks(T) /\ a[i].m = Members[type][entries[i].member] /\ a[i].seek
             /\ a[i].at = at + Offset(type, entries[i].member)
             /\ a[i].value = IF Again(i) THEN Invalid ELSE entries[i].value
  <2>1. PICK x \in Values(T) : x = IF Again(i) THEN Invalid ELSE entries[i].value
    BY <1>3 DEF Values
  <2>2. a[i] = MemberTask(type, at, entries[i].member, x)
    BY <1>4, <2>1
  <2> HIDE DEF Again
  <2>. QED  BY <1>3, <2>1, <2>2, MemberTaskTyped
<1>9. \A i \in 1..e : ValueOK(a[i], T)
  <2>1. ASSUME NEW i \in 1..e
        PROVE  ValueOK(a[i], T)
    <3>1. PICK m \in MemberDescs : m = a[i].m /\ m = Members[type][entries[i].member]
      BY <1>8 DEF Tasks
    <3>2. Fits(entries[i].value, m, T) /\ Fits(Invalid, m, T)
      <4>1. Fits(Invalid, m, T)
        BY DEF Fits, Suits, Invalid, Words
      <4>. QED  BY <1>1, <1>2, <3>1, <4>1
    <3>3. Fits(a[i].value, m, T)
      BY <1>8, <3>2
    <3>4. a[i].value.t # "default"
      BY <3>3, FitsTags
    <3>. QED  BY <3>1, <3>3, <3>4 DEF ValueOK
  <2>. QED  BY <2>1
<1>10. a \in Seq(Tasks(T)) /\ Len(a) = e
  <2>1. a \in [1..e -> Tasks(T)]
    BY <1>4, <1>8
  <2>. QED  BY <2>1, FunctionIsSequence
<1>11. PICK last : /\ b \in Seq(Tasks(T))
                   /\ last \in [1..Len(b) -> DOMAIN Members[type] \ given]
                   /\ \A k \in 1..Len(b) : b[k] = MemberTask(type, at, last[k], Missing)
                   /\ \A i \in DOMAIN Members[type] \ given : \E k \in 1..Len(b) : last[k] = i
                   /\ \A k, l \in 1..Len(b) : k < l => last[k] # last[l]
  BY <1>6, MissingTyped
<1>12. PICK f \in Nat : f = Len(b)
  BY <1>11
<1>13. ASSUME NEW k \in 1..f
       PROVE  /\ b[k] \in Tasks(T) /\ b[k].m = Members[type][last[k]] /\ b[k].seek
              /\ b[k].at = at + Offset(type, last[k]) /\ ValueOK(b[k], T)
  <2>1. last[k] \in DOMAIN Members[type] /\ b[k] = MemberTask(type, at, last[k], Missing)
    BY <1>11, <1>12
  <2>2. Missing \in Values(T)
    BY DEF Values
  <2>3. /\ b[k] \in Tasks(T) /\ b[k].m = Members[type][last[k]] /\ b[k].seek
        /\ b[k].at = at + Offset(type, last[k]) /\ b[k].value = Missing
    BY <2>1, <2>2, MemberTaskTyped
  <2>4. DefaultFits(Members[type][last[k]])
    BY <2>1, TxtPackAssumption
  <2>. QED  BY <2>3, <2>4 DEF ValueOK, Missing
<1>14. PICK s \in Seq(Tasks(T)) :
         /\ s = a \o b /\ Len(s) = e + f
         /\ \A k \in 1..e : s[k] = a[k]
         /\ \A k \in 1..f : s[e + k] = b[k]
  <2>1. /\ a \o b \in Seq(Tasks(T)) /\ Len(a \o b) = Len(a) + Len(b)
        /\ \A k \in 1..Len(a) : (a \o b)[k] = a[k]
        /\ \A k \in 1..Len(b) : (a \o b)[Len(a) + k] = b[k]
    <3>1. PICK S : S = Tasks(T)
      OBVIOUS
    <3>2. a \in Seq(S) /\ b \in Seq(S)
      BY <1>10, <1>11, <3>1
    <3>. QED  BY <3>1, <3>2
  <2>. QED  BY <1>10, <1>12, <2>1
<1>15. PICK of : of = [k \in 1..(e + f) |-> IF k <= e THEN entries[k].member ELSE last[k - e]]
  OBVIOUS
<1>16. \A k \in 1..(e + f) : k \in 1..e \/ (k - e \in 1..f /\ k = e + (k - e))
  OBVIOUS
<1>17. /\ \A k \in 1..e : of[k] = entries[k].member
       /\ \A k \in 1..f : of[e + k] = last[k]
  <2>1. \A k \in 1..f : e + k \in 1..(e + f) /\ ~(e + k <= e) /\ (e + k) - e = k
    OBVIOUS
  <2>2. \A k \in 1..e : k \in 1..(e + f) /\ k <= e
    OBVIOUS
  <2>. QED  BY <1>15, <2>1, <2>2
<1> HIDE DEF Again
<1>18. ASSUME NEW k \in 1..(e + f)
       PROVE  /\ of[k] \in DOMAIN Members[type] /\ s[k].m = Members[type][of[k]]
              /\ s[k].at = at + Offset(type, of[k]) /\ s[k].seek /\ ValueOK(s[k], T)
  <2>1. CASE k \in 1..e
    BY <2>1, <1>3, <1>8, <1>9, <1>14, <1>17
  <2>2. CASE k - e \in 1..f /\ k = e + (k - e)
    <3>1. PICK j \in 1..f : k = e + j
      BY <2>2
    <3>2. s[k] = b[j] /\ of[k] = last[j] /\ last[j] \in DOMAIN Members[type]
      BY <1>11, <1>12, <1>14, <1>17, <3>1
    <3>. QED  BY <1>13, <3>2
  <2>. QED  BY <1>16, <2>1, <2>2
<1>19. ASSUME NEW i \in DOMAIN Members[type]
       PROVE  \E k \in 1..(e + f) : of[k] = i
  <2>1. CASE i \in given
    <3>1. PICK k \in 1..e : i = entries[k].member
      BY <1>2, <1>5, <2>1
    <3>2. k \in 1..(e + f)
      OBVIOUS
    <3>. QED  BY <1>17, <3>1, <3>2
  <2>2. CASE i \notin given
    <3>1. PICK k \in 1..f : last[k] = i
      BY <1>11, <1>12, <2>2
    <3>2. e + k \in 1..(e + f)
      OBVIOUS
    <3>. QED  BY <1>17, <3>1, <3>2
  <2>. QED  BY <2>1, <2>2
<1>20. ASSUME NEW k \in 1..(e + f), NEW l \in 1..(e + f), k < l, of[k] = of[l]
       PROVE  s[l].value.t = "invalid"
  <2>1. CASE l \in 1..e
    <3>1. k \in 1..e /\ k \in 1..(l - 1)
      BY <1>20, <2>1
    <3>2. entries[k].member = entries[l].member
      BY <1>17, <1>20, <2>1, <3>1
    <3>3. Again(l)
      BY <3>1, <3>2 DEF Again
    <3>. QED  BY <1>8, <1>14, <2>1, <3>3 DEF Invalid
  <2>2. CASE l - e \in 1..f /\ l = e + (l - e)
    <3>1. PICK j \in 1..f : l = e + j
      BY <2>2
    <3>2. of[l] = last[j] /\ last[j] \notin given
      BY <1>11, <1>12, <1>17, <3>1
    <3>3. CASE k \in 1..e
      <4>1. of[k] \in given
        BY <1>2, <1>5, <1>17, <3>3
      <4>. QED  BY <1>20, <3>2, <4>1
    <3>4. CASE k - e \in 1..f /\ k = e + (k - e)
      <4>1. PICK i \in 1..f : k = e + i
        BY <3>4
      <4>2. of[k] = last[i] /\ i < j
        BY <1>17, <1>20, <3>1, <4>1
      <4>. QED  BY <1>11, <1>12, <1>20, <3>2, <4>2
    <3>. QED  BY <1>16, <3>3, <3>4
  <2>. QED  BY <1>16, <2>1, <2>2
<1>21. DOMAIN s = 1..(e + f)
  BY <1>14
<1>22. MembersOf(s, of, type, at)
  <2>1. of \in [1..(e + f) -> DOMAIN Members[type]]
    BY <1>15, <1>18
  <2>. QED  BY <1>18, <1>19, <1>20, <1>21, <2>1 DEF MembersOf
<1>. QED  BY <1>7, <1>14, <1>18, <1>21, <1>22 DEF PackStructOf

-----------------------------------------------------------------------------
(* The room of tasks.                                                      *)
Ends(t) == t.at + MemberSize(t.m)
Live(t) == t.value.t # "invalid"
Apart(a, b) == Ends(a) <= b.at \/ Ends(b) <= a.at

(* Tasks take up the room from lo to hi, each place once, unless they are  *)
(* invalid.                                                                *)
Within(tasks, lo, hi) == \A k \in DOMAIN tasks : lo <= tasks[k].at /\ Ends(tasks[k]) <= hi
Cover(tasks, lo, hi) ==
  \A p \in lo..(hi - 1) : \E k \in DOMAIN tasks : tasks[k].at <= p /\ p < Ends(tasks[k])
AllApart(tasks) ==
  \A k, l \in DOMAIN tasks : k < l /\ Live(tasks[k]) /\ Live(tasks[l]) => Apart(tasks[k], tasks[l])
TakeUp(tasks, lo, hi) == Within(tasks, lo, hi) /\ Cover(tasks, lo, hi) /\ AllApart(tasks)

(* The tasks that can be, and those of them that go where they belong.     *)
GoodTasks(T) ==
  {t \in Tasks(T) : /\ ValueOK(t, T)
                    /\ t.m.kind = "struct" => t.seek
                    /\ ~t.seek => t.m.atom = "pod"
                    /\ t.m.atom # "pod" => IsMember(t.m)}
SeekTasks(T) == {t \in GoodTasks(T) : t.seek}

(* A task's place and the room it takes are numbers.                       *)
LEMMA TaskRoom ==
  ASSUME NEW T, NEW t \in Tasks(T)
  PROVE  t.at \in Nat /\ t.m \in MemberDescs /\ MemberSize(t.m) \in Nat /\ Ends(t) \in Nat /\ t.at <= Ends(t)
<1>1. t.at \in Nat /\ t.m \in MemberDescs
  BY DEF Tasks
<1>2. MemberSize(t.m) \in Nat
  BY <1>1, MemberRoom
<1>. QED  BY <1>1, <1>2 DEF Ends

(* The tasks of a struct take up its room.                                 *)
LEMMA StructTasksGood ==
  ASSUME NEW T, NEW type \in DOMAIN Members, NEW at \in Nat, NEW entries, Typed(entries, type, T)
  PROVE  /\ StructTasks(type, at, entries) \in Seq(SeekTasks(T))
         /\ TakeUp(StructTasks(type, at, entries), at, at + Size[type])
<1>1. PICK s : s = StructTasks(type, at, entries)
  OBVIOUS
<1>2. s \in Seq(Tasks(T)) /\ PackStructOf(s, type, at) /\ \A k \in DOMAIN s : ValueOK(s[k], T)
  BY <1>1, StructTasksTyped
<1>3. PICK of : MembersOf(s, of, type, at)
  BY <1>2 DEF PackStructOf
<1>4. /\ of \in [DOMAIN s -> DOMAIN Members[type]]
      /\ \A k \in DOMAIN s : s[k].m = Members[type][of[k]] /\ s[k].at = at + Offset(type, of[k]) /\ s[k].seek
      /\ \A i \in DOMAIN Members[type] : \E k \in DOMAIN s : of[k] = i
      /\ \A k, l \in DOMAIN s : k < l /\ of[k] = of[l] => s[l].value.t = "invalid"
  BY <1>3 DEF MembersOf
<1>5. s \in Seq(SeekTasks(T))
  <2>1. PICK n \in Nat : n = Len(s) /\ DOMAIN s = 1..n
    BY <1>2
  <2>2. \A k \in 1..n : s[k] \in Tasks(T)
    BY <1>2, <2>1
  <2>3. \A k \in 1..n : s[k] \in SeekTasks(T)
    BY <1>2, <1>4, <2>1, <2>2 DEF SeekTasks, GoodTasks, IsMember
  <2>4. s = [k \in 1..n |-> s[k]]
    BY <1>2, <2>1
  <2>5. s \in [1..n -> SeekTasks(T)]
    BY <2>3, <2>4
  <2>. QED  BY <2>5, FunctionIsSequence
<1>6. PICK M : M = Members[type]
  OBVIOUS
<1>7. PICK off, size : /\ off = [i \in DOMAIN M |-> Offset(type, i)]
                       /\ size = [i \in DOMAIN M |-> MemberSize(M[i])]
  OBVIOUS
<1>8. PICK z : z = Size[type]
  OBVIOUS
<1>9. /\ \A i \in DOMAIN M : off[i] \in Nat /\ size[i] \in Nat /\ off[i] + size[i] <= z
      /\ \A i, j \in DOMAIN M : i < j => off[i] + size[i] <= off[j]
      /\ \A p \in 0..(z - 1) : \E i \in DOMAIN M : off[i] <= p /\ p < off[i] + size[i]
      /\ z \in Nat /\ DOMAIN M \subseteq Nat
  BY <1>6, <1>7, <1>8, Offsets
<1>10. \A k \in DOMAIN s : /\ of[k] \in DOMAIN M /\ s[k].at = at + off[of[k]]
                           /\ Ends(s[k]) = at + off[of[k]] + size[of[k]]
  BY <1>4, <1>6, <1>7 DEF Ends
<1>11. Within(s, at, at + z)
  <2>1. ASSUME NEW k \in DOMAIN s
        PROVE  at <= s[k].at /\ Ends(s[k]) <= at + z
    <3>1. PICK i \in DOMAIN M : i = of[k]
      BY <1>10
    <3>2. /\ s[k].at = at + off[i] /\ Ends(s[k]) = at + off[i] + size[i]
          /\ off[i] \in Nat /\ size[i] \in Nat /\ off[i] + size[i] <= z /\ z \in Nat
      BY <1>9, <1>10, <3>1
    <3>. QED  BY <3>2
  <2>. QED  BY <2>1 DEF Within
<1>12. Cover(s, at, at + z)
  <2>1. PICK hi \in Nat : hi = at + z
    BY <1>9
  <2>2. ASSUME NEW p \in at..(hi - 1)
        PROVE  \E k \in DOMAIN s : s[k].at <= p /\ p < Ends(s[k])
    <3>1. p - at \in 0..(z - 1) /\ p \in Nat
      BY <1>9, <2>1
    <3>2. PICK i \in DOMAIN M : off[i] <= p - at /\ p - at < off[i] + size[i]
      BY <1>9, <3>1
    <3>3. PICK k \in DOMAIN s : of[k] = i
      BY <1>4, <1>6
    <3>4. s[k].at = at + off[i] /\ Ends(s[k]) = at + off[i] + size[i] /\ off[i] \in Nat /\ size[i] \in Nat
      BY <1>9, <1>10, <3>3
    <3>5. s[k].at <= p /\ p < Ends(s[k])
      BY <3>1, <3>2, <3>4
    <3>. QED  BY <3>5
  <2>. QED  BY <2>1, <2>2 DEF Cover
<1>13. AllApart(s)
  <2>1. ASSUME NEW k \in DOMAIN s, NEW l \in DOMAIN s, k < l, Live(s[k]), Live(s[l])
        PROVE  Apart(s[k], s[l])
    <3>1. of[k] # of[l]
      BY <1>4, <2>1 DEF Live
    <3>2. PICK i \in DOMAIN M, j \in DOMAIN M : i = of[k] /\ j = of[l]
      BY <1>10
    <3>3. i \in Nat /\ j \in Nat /\ (i < j \/ j < i)
      BY <1>9, <3>1, <3>2
    <3>4. /\ s[k].at = at + off[i] /\ Ends(s[k]) = at + off[i] + size[i]
          /\ s[l].at = at + off[j] /\ Ends(s[l]) = at + off[j] + size[j]
      BY <1>10, <3>2
    <3>5. off[i] \in Nat /\ off[j] \in Nat /\ size[i] \in Nat /\ size[j] \in Nat
      BY <1>9
    <3>6. CASE i < j
      <4>1. off[i] + size[i] <= off[j]
        BY <1>9, <3>6
      <4>. QED  BY <3>4, <3>5, <4>1 DEF Apart
    <3>7. CASE j < i
      <4>1. off[j] + size[j] <= off[i]
        BY <1>9, <3>7
      <4>. QED  BY <3>4, <3>5, <4>1 DEF Apart
    <3>. QED  BY <3>3, <3>6, <3>7
  <2>. QED  BY <2>1 DEF AllApart
<1>. QED  BY <1>1, <1>5, <1>8, <1>11, <1>12, <1>13 DEF TakeUp

(* Tasks behind tasks.                                                     *)
LEMMA TakeUpBoth ==
  ASSUME NEW T, NEW s \in Seq(Tasks(T)), NEW t \in Seq(Tasks(T)), NEW lo \in Nat, NEW mid \in Nat,
         NEW hi \in Nat, lo <= mid, mid <= hi, TakeUp(s, lo, mid), TakeUp(t, mid, hi)
  PROVE  TakeUp(s \o t, lo, hi)
<1>1. PICK n \in Nat, m \in Nat : n = Len(s) /\ m = Len(t)
  OBVIOUS
<1>2. PICK S : S = Tasks(T)
  OBVIOUS
<1>3. s \in Seq(S) /\ t \in Seq(S)
  BY <1>2
<1>4. PICK b : b = s \o t
  OBVIOUS
<1>5. /\ Len(b) = n + m /\ DOMAIN b = 1..(n + m) /\ DOMAIN s = 1..n /\ DOMAIN t = 1..m
      /\ \A k \in 1..n : b[k] = s[k]
      /\ \A k \in 1..m : b[n + k] = t[k]
  BY <1>1, <1>3, <1>4
<1>6. /\ \A k \in 1..n : lo <= s[k].at /\ Ends(s[k]) <= mid /\ s[k].at \in Nat /\ Ends(s[k]) \in Nat
      /\ \A k \in 1..m : mid <= t[k].at /\ Ends(t[k]) <= hi /\ t[k].at \in Nat /\ Ends(t[k]) \in Nat
  <2>1. /\ \A k \in 1..n : lo <= s[k].at /\ Ends(s[k]) <= mid /\ s[k] \in S
        /\ \A k \in 1..m : mid <= t[k].at /\ Ends(t[k]) <= hi /\ t[k] \in S
    BY <1>3, <1>5 DEF TakeUp, Within
  <2>. QED  BY <1>2, <2>1, TaskRoom
<1>7. \A k \in 1..(n + m) : k \in 1..n \/ (\E j \in 1..m : k = n + j)
  <2>1. ASSUME NEW k \in 1..(n + m), k \notin 1..n
        PROVE  k - n \in 1..m /\ k = n + (k - n)
    BY <2>1
  <2>. QED  BY <2>1
<1>8. Within(b, lo, hi)
  <2>1. ASSUME NEW k \in 1..(n + m)
        PROVE  lo <= b[k].at /\ Ends(b[k]) <= hi
    <3>1. CASE k \in 1..n
      BY <3>1, <1>5, <1>6
    <3>2. CASE \E j \in 1..m : k = n + j
      <4>1. PICK j \in 1..m : k = n + j
        BY <3>2
      <4>2. b[k] = t[j] /\ mid <= t[j].at /\ Ends(t[j]) <= hi /\ t[j].at \in Nat /\ Ends(t[j]) \in Nat
        BY <4>1, <1>5, <1>6
      <4>. QED  BY <4>2
    <3>. QED  BY <1>7, <3>1, <3>2
  <2>. QED  BY <1>5, <2>1 DEF Within
<1>9. Cover(b, lo, hi)
  <2>1. ASSUME NEW p \in lo..(hi - 1)
        PROVE  \E k \in 1..(n + m) : b[k].at <= p /\ p < Ends(b[k])
    <3>1. CASE p < mid
      <4>1. p \in lo..(mid - 1)
        BY <3>1
      <4>2. PICK k \in 1..n : s[k].at <= p /\ p < Ends(s[k])
        BY <1>5, <4>1 DEF TakeUp, Cover
      <4>3. k \in 1..(n + m)
        OBVIOUS
      <4>. QED  BY <1>5, <4>2, <4>3
    <3>2. CASE ~(p < mid)
      <4>1. p \in mid..(hi - 1)
        BY <3>2
      <4>2. PICK k \in 1..m : t[k].at <= p /\ p < Ends(t[k])
        BY <1>5, <4>1 DEF TakeUp, Cover
      <4>3. n + k \in 1..(n + m)
        OBVIOUS
      <4>. QED  BY <1>5, <4>2, <4>3
    <3>. QED  BY <3>1, <3>2
  <2>. QED  BY <1>5, <2>1 DEF Cover
<1>10. AllApart(b)
  <2>1. ASSUME NEW k \in 1..(n + m), NEW l \in 1..(n + m), k < l, Live(b[k]), Live(b[l])
        PROVE  Apart(b[k], b[l])
    <3>1. CASE l \in 1..n
      <4>1. k \in 1..n
        BY <2>1, <3>1
      <4>. QED  BY <1>5, <2>1, <3>1, <4>1 DEF TakeUp, AllApart
    <3>2. CASE \E j \in 1..m : l = n + j
      <4>1. PICK j \in 1..m : l = n + j
        BY <3>2
      <4>2. CASE k \in 1..n
        <5>1. Ends(b[k]) <= mid /\ mid <= b[l].at /\ Ends(b[k]) \in Nat /\ b[l].at \in Nat
          BY <1>5, <1>6, <4>1, <4>2
        <5>. QED  BY <5>1 DEF Apart
      <4>3. CASE \E i \in 1..m : k = n + i
        <5>1. PICK i \in 1..m : k = n + i
          BY <4>3
        <5>2. i < j
          BY <2>1, <4>1, <5>1
        <5>3. b[k] = t[i] /\ b[l] = t[j]
          BY <1>5, <4>1, <5>1
        <5>. QED  BY <1>5, <2>1, <5>2, <5>3 DEF TakeUp, AllApart
      <4>. QED  BY <1>7, <4>2, <4>3
    <3>. QED  BY <1>7, <3>1, <3>2
  <2>. QED  BY <1>5, <2>1 DEF AllApart
<1>. QED  BY <1>4, <1>8, <1>9, <1>10 DEF TakeUp

(* Blocks of n places.                                                     *)
LEMMA Blocks ==
  ASSUME NEW n \in Nat
  PROVE  /\ \A i \in Nat : i * n \in Nat /\ (i + 1) * n = i * n + n
         /\ \A i, j \in Nat : (i + j) * n = i * n + j * n
         /\ \A i, j \in Nat : i <= j => i * n <= j * n
         /\ \A k \in Nat : \A p \in Nat : p < k * n => \E i \in 1..k : (i - 1) * n <= p /\ p < i * n
<1>1. \A i \in Nat : i * n \in Nat /\ (i + 1) * n = i * n + n
  OBVIOUS
<1>2. \A i, j \in Nat : (i + j) * n = i * n + j * n
  OBVIOUS
<1>3. \A i, j \in Nat : i <= j => i * n <= j * n
  <2>1. ASSUME NEW i \in Nat, NEW j \in Nat, i <= j
        PROVE  i * n <= j * n
    <3>1. PICK d \in Nat : j = i + d
      <4>1. j - i \in Nat /\ j = i + (j - i)
        BY <2>1
      <4>. QED  BY <4>1
    <3>2. j * n = i * n + d * n /\ d * n \in Nat /\ i * n \in Nat
      BY <1>1, <1>2, <3>1
    <3>. QED  BY <3>2
  <2>. QED  BY <2>1
<1> DEFINE K == {k \in Nat : \A p \in Nat : p < k * n => \E i \in 1..k : (i - 1) * n <= p /\ p < i * n}
<1>4. 0 \in K
  <2>1. 0 * n = 0
    OBVIOUS
  <2>. QED  BY <2>1
<1>5. ASSUME NEW k \in Nat, k \in K
      PROVE  k + 1 \in K
  <2>1. SUFFICES ASSUME NEW p \in Nat, p < (k + 1) * n
                 PROVE  \E i \in 1..(k + 1) : (i - 1) * n <= p /\ p < i * n
    OBVIOUS
  <2>2. CASE p < k * n
    <3>1. PICK i \in 1..k : (i - 1) * n <= p /\ p < i * n
      BY <1>5, <2>2
    <3>2. i \in 1..(k + 1)
      OBVIOUS
    <3>. QED  BY <3>1, <3>2
  <2>3. CASE ~(p < k * n)
    <3>1. k * n \in Nat
      BY <1>1
    <3>2. k * n <= p
      BY <2>3, <3>1
    <3>3. k + 1 \in 1..(k + 1) /\ (k + 1) - 1 = k
      OBVIOUS
    <3>. QED  BY <2>1, <3>2, <3>3
  <2>. QED  BY <2>2, <2>3
<1> HIDE DEF K
<1>6. \A k \in Nat : k \in K => k + 1 \in K
  BY <1>5
<1>7. Nat \subseteq K
  BY <1>4, <1>6, SetInduction, Zenon
<1>8. \A k \in Nat : \A p \in Nat : p < k * n => \E i \in 1..k : (i - 1) * n <= p /\ p < i * n
  BY <1>7 DEF K
<1>. QED  BY <1>1, <1>2, <1>3, <1>8

(* A task that packs where the writer is follows one that leaves the       *)
(* writer there.                                                           *)
Follows(a, b) ==
  ~b.seek => b.at = a.at + 1 /\ a.m.atom = "pod" /\ a.m.kind # "struct" /\ a.value.t # "default"
Linked(tasks) == \A k \in DOMAIN tasks : k + 1 \in DOMAIN tasks => Follows(tasks[k], tasks[k + 1])

(* The tasks for elements c + 1, ..., c + n of an array, with values that  *)
(* suit it.                                                                *)
ElementsFrom(m, at, c, n, v) == [i \in 1..n |-> ElementTask(m, at, c + i, v[i])]
AllSuit(v, n, m, T) == \A i \in 1..n : v[i] \in Values(T) /\ Suits(v[i], m, T)

GoodElements(s, m, at, c, n, T) ==
  /\ s \in Seq(GoodTasks(T)) /\ Len(s) = n
  /\ TakeUp(s, at + c * ElementSize(m), at + (c + n) * ElementSize(m))
  /\ Linked(s)

(* The task of an element is a good task in the room of that element.      *)
LEMMA ElementTyped ==
  ASSUME NEW T, NEW m \in MemberDescs, NEW at \in Nat, NEW i \in Nat \ {0}, NEW value \in Values(T),
         Suits(value, m, T)
  PROVE  /\ ElementTask(m, at, i, value) \in GoodTasks(T)
         /\ ElementTask(m, at, i, value).m = [m EXCEPT !.atom = "pod"]
         /\ ElementTask(m, at, i, value).at = at + (i - 1) * ElementSize(m)
         /\ ElementTask(m, at, i, value).value = value
         /\ ElementTask(m, at, i, value).seek <=> m.kind = "struct"
         /\ Ends(ElementTask(m, at, i, value)) = at + i * ElementSize(m)
<1>1. PICK t : t = ElementTask(m, at, i, value)
  OBVIOUS
<1>2. PICK e : e = [m EXCEPT !.atom = "pod"]
  OBVIOUS
<1>3. e \in MemberDescs /\ e.atom = "pod" /\ e.kind = m.kind /\ e.of = m.of
  BY <1>2 DEF MemberDescs
<1>4. PICK n \in Nat : n = ElementSize(m)
  BY MemberRoom
<1>5. ElementSize(e) = n /\ MemberSize(e) = n
  BY <1>3, <1>4 DEF ElementSize, MemberSize
<1>6. PICK j \in Nat : i = j + 1 /\ i - 1 = j
  <2>1. i - 1 \in Nat /\ i = (i - 1) + 1
    OBVIOUS
  <2>. QED  BY <2>1
<1>7. j * n \in Nat /\ i * n = j * n + n
  BY <1>6, Blocks
<1>8. /\ t.m = e /\ t.at = at + j * n /\ t.value = value /\ t.seek = (m.kind = "struct")
      /\ t = [m |-> e, at |-> at + j * n, seek |-> m.kind = "struct", value |-> value]
  BY <1>1, <1>2, <1>4, <1>6 DEF ElementTask
<1>9. t \in Tasks(T)
  BY <1>3, <1>7, <1>8 DEF Tasks
<1>10. Fits(value, e, T)
  BY <1>3 DEF Fits, Suits
<1>11. value.t # "default"
  BY <1>3, <1>10, FitsTags
<1>12. t \in GoodTasks(T)
  BY <1>3, <1>8, <1>9, <1>10, <1>11 DEF GoodTasks, ValueOK
<1>13. Ends(t) = at + i * n
  BY <1>5, <1>7, <1>8 DEF Ends
<1>. QED  BY <1>1, <1>2, <1>4, <1>6, <1>8, <1>12, <1>13

(* Elements take up their part of the array.                               *)
LEMMA ElementsGood ==
  ASSUME NEW T, NEW m \in MemberDescs, NEW at \in Nat, NEW c \in Nat, NEW n \in Nat,
         NEW v, AllSuit(v, n, m, T)
  PROVE  GoodElements(ElementsFrom(m, at, c, n, v), m, at, c, n, T)
<1>0. PICK s : s = ElementsFrom(m, at, c, n, v)
  OBVIOUS
<1>1. PICK e \in Nat \ {0} : e = ElementSize(m)
  BY MemberRoom
<1>2. ASSUME NEW i \in 1..n
      PROVE  /\ s[i] \in GoodTasks(T) /\ s[i].m = [m EXCEPT !.atom = "pod"]
             /\ s[i].at = at + (c + i - 1) * e /\ s[i].value = v[i]
             /\ s[i].seek <=> m.kind = "struct"
             /\ Ends(s[i]) = at + (c + i) * e
  <2>1. c + i \in Nat \ {0} /\ v[i] \in Values(T) /\ Suits(v[i], m, T)
    BY DEF AllSuit
  <2>2. PICK k \in Nat \ {0} : k = c + i /\ s[i] = ElementTask(m, at, k, v[i])
    BY <1>0, <2>1 DEF ElementsFrom
  <2>3. PICK t : t = ElementTask(m, at, k, v[i])
    OBVIOUS
  <2>4. /\ t \in GoodTasks(T) /\ t.m = [m EXCEPT !.atom = "pod"]
        /\ t.at = at + (k - 1) * ElementSize(m) /\ t.value = v[i]
        /\ t.seek <=> m.kind = "struct"
        /\ Ends(t) = at + k * ElementSize(m)
    BY <2>1, <2>3, ElementTyped
  <2>. QED  BY <1>1, <2>2, <2>3, <2>4
<1>3. s \in [1..n -> GoodTasks(T)] /\ DOMAIN s = 1..n
  BY <1>0, <1>2 DEF ElementsFrom
<1>4. s \in Seq(GoodTasks(T)) /\ Len(s) = n
  BY <1>3, FunctionIsSequence
<1>5. /\ \A i \in Nat : i * e \in Nat
      /\ \A i, j \in Nat : (i + j) * e = i * e + j * e
      /\ \A i, j \in Nat : i <= j => i * e <= j * e
      /\ \A k \in Nat : \A p \in Nat : p < k * e => \E i \in 1..k : (i - 1) * e <= p /\ p < i * e
  BY <1>1, Blocks
<1>6. ASSUME NEW i \in 1..n
      PROVE  /\ s[i].at = (at + c * e) + (i - 1) * e /\ Ends(s[i]) = (at + c * e) + i * e
             /\ c * e \in Nat /\ i * e \in Nat /\ (i - 1) * e \in Nat /\ i - 1 \in Nat /\ i \in Nat
  <2>1. i - 1 \in Nat /\ i \in Nat /\ c + i - 1 = c + (i - 1)
    OBVIOUS
  <2>2. /\ (c + (i - 1)) * e = c * e + (i - 1) * e /\ (c + i) * e = c * e + i * e
        /\ c * e \in Nat /\ i * e \in Nat /\ (i - 1) * e \in Nat
    BY <1>5, <2>1
  <2>3. s[i].at = at + (c + (i - 1)) * e /\ Ends(s[i]) = at + (c + i) * e
    BY <1>2, <2>1
  <2>. QED  BY <2>1, <2>2, <2>3
<1>7. PICK lo \in Nat, hi \in Nat : /\ lo = at + c * e /\ hi = at + (c + n) * e
                                    /\ hi = lo + n * e /\ n * e \in Nat
  <2>1. c * e \in Nat /\ n * e \in Nat /\ (c + n) * e = c * e + n * e
    BY <1>5
  <2>. QED  BY <2>1
<1>8. Within(s, lo, hi)
  <2>1. ASSUME NEW i \in 1..n
        PROVE  lo <= s[i].at /\ Ends(s[i]) <= hi
    <3>1. i \in Nat /\ i <= n
      OBVIOUS
    <3>2. i * e <= n * e
      BY <1>5, <3>1
    <3>3. PICK x \in Nat, y \in Nat : x = (i - 1) * e /\ y = i * e
      BY <1>6
    <3>4. s[i].at = lo + x /\ Ends(s[i]) = lo + y
      BY <1>6, <1>7, <3>3
    <3>5. y <= n * e /\ n * e \in Nat /\ hi = lo + n * e
      BY <1>7, <3>2, <3>3
    <3>. QED  BY <3>4, <3>5
  <2>. QED  BY <1>3, <2>1 DEF Within
<1>9. Cover(s, lo, hi)
  <2>1. ASSUME NEW p \in lo..(hi - 1)
        PROVE  \E i \in 1..n : s[i].at <= p /\ p < Ends(s[i])
    <3>1. PICK q \in Nat : p = lo + q /\ q < n * e
      <4>1. p - lo \in Nat /\ p = lo + (p - lo) /\ p - lo < n * e
        BY <1>7
      <4>. QED  BY <4>1
    <3>2. PICK i \in 1..n : (i - 1) * e <= q /\ q < i * e
      BY <1>5, <3>1
    <3>3. s[i].at <= p /\ p < Ends(s[i])
      BY <1>6, <1>7, <3>1, <3>2
    <3>. QED  BY <3>3
  <2>. QED  BY <1>3, <2>1 DEF Cover
<1>10. AllApart(s)
  <2>1. ASSUME NEW k \in 1..n, NEW l \in 1..n, k < l
        PROVE  Apart(s[k], s[l])
    <3>1. k \in Nat /\ l - 1 \in Nat /\ k <= l - 1
      BY <2>1
    <3>2. k * e <= (l - 1) * e
      BY <1>5, <3>1
    <3>4. PICK x \in Nat, y \in Nat : x = (l - 1) * e /\ y = k * e
      BY <1>6
    <3>5. s[l].at = lo + x /\ Ends(s[k]) = lo + y
      BY <1>6, <1>7, <3>4
    <3>6. y <= x
      BY <3>2, <3>4
    <3>3. Ends(s[k]) <= s[l].at
      BY <3>5, <3>6
    <3>. QED  BY <3>3 DEF Apart
  <2>. QED  BY <1>3, <2>1 DEF AllApart
<1>11. Linked(s)
  <2>1. ASSUME NEW k \in 1..n, k + 1 \in 1..n, ~s[k + 1].seek
        PROVE  /\ s[k + 1].at = s[k].at + 1 /\ s[k].m.atom = "pod" /\ s[k].m.kind # "struct"
               /\ s[k].value.t # "default"
    <3>1. m.kind # "struct"
      BY <1>2, <2>1
    <3>2. e = 1
      BY <1>1, <3>1 DEF ElementSize
    <3>3. s[k].m = [m EXCEPT !.atom = "pod"] /\ s[k] \in GoodTasks(T)
      BY <1>2
    <3>4. s[k].m.atom = "pod" /\ s[k].m.kind # "struct" /\ ~s[k].seek
      BY <1>2, <3>1, <3>3 DEF MemberDescs
    <3>5. s[k].value.t # "default"
      BY <3>3, <3>4 DEF GoodTasks, ValueOK
    <3>6. (k + 1) - 1 = k /\ k \in Nat /\ (k + 1) \in Nat
      OBVIOUS
    <3>7. s[k + 1].at = lo + k * e /\ s[k].at = lo + (k - 1) * e /\ k * e = k /\ (k - 1) * e = k - 1
      <4>1. s[k + 1].at = lo + ((k + 1) - 1) * e
        BY <1>6, <1>7, <2>1
      <4>2. s[k].at = lo + (k - 1) * e
        BY <1>6, <1>7
      <4>. QED  BY <3>2, <3>6, <4>1, <4>2
    <3>8. s[k + 1].at = s[k].at + 1
      BY <3>6, <3>7
    <3>. QED  BY <3>4, <3>5, <3>8
  <2>. QED  BY <1>3, <2>1 DEF Linked, Follows
<1>. QED  BY <1>0, <1>1, <1>4, <1>7, <1>8, <1>9, <1>10, <1>11 DEF TakeUp, GoodElements

(* Tasks of blocks of n places, one behind the other.                      *)
LEMMA TakeUpFlat ==
  ASSUME NEW T, NEW seqs \in Seq(Seq(Tasks(T))), NEW n \in Nat, NEW lo \in Nat,
         \A i \in 1..Len(seqs) : TakeUp(seqs[i], lo + (i - 1) * n, lo + i * n)
  PROVE  TakeUp(FlattenSeq(seqs), lo, lo + Len(seqs) * n)
<1> DEFINE Blocked(r) == \A i \in 1..Len(r) : TakeUp(r[i], lo + (i - 1) * n, lo + i * n)
           K == {k \in Nat : \A r \in Seq(Seq(Tasks(T))) :
                   Len(r) = k /\ Blocked(r) => TakeUp(FlattenSeq(r), lo, lo + k * n)}
<1>1. 0 \in K
  <2>1. SUFFICES ASSUME NEW r \in Seq(Seq(Tasks(T))), Len(r) = 0
                 PROVE  TakeUp(FlattenSeq(r), lo, lo + 0 * n)
    OBVIOUS
  <2>2. r = <<>> /\ 0 * n = 0 /\ lo + 0 = lo
    BY <2>1
  <2>3. FlattenSeq(r) = <<>>
    BY <2>1, <2>2 DEF FlattenSeq
  <2>4. DOMAIN <<>> = {} /\ lo..(lo - 1) = {}
    OBVIOUS
  <2>. QED  BY <2>2, <2>3, <2>4 DEF TakeUp, Within, Cover, AllApart
<1>2. ASSUME NEW k \in Nat, k \in K
      PROVE  k + 1 \in K
  <2> HIDE DEF Blocked
  <2>1. SUFFICES ASSUME NEW r \in Seq(Seq(Tasks(T))), Len(r) = k + 1, Blocked(r)
                 PROVE  TakeUp(FlattenSeq(r), lo, lo + (k + 1) * n)
    BY <1>2
  <2>2. PICK front : front = [i \in 1..k |-> r[i]]
    OBVIOUS
  <2>3. PICK S : S = Seq(Tasks(T))
    OBVIOUS
  <2>4. r \in Seq(S)
    BY <2>3
  <2>5. front \in Seq(S) /\ Len(front) = k /\ r[k + 1] \in S
    BY <2>1, <2>2, <2>4
  <2>6. r = Append(front, r[k + 1])
    BY <2>1, <2>2, <2>4, <2>5
  <2>7. PICK s \in Seq(Tasks(T)) : s = r[k + 1]
    BY <2>3, <2>5
  <2>8. \A i \in 1..k : front[i] = r[i] /\ i \in 1..(k + 1)
    BY <2>2
  <2>9. Blocked(front)
    BY <2>1, <2>5, <2>8 DEF Blocked
  <2>10. TakeUp(FlattenSeq(front), lo, lo + k * n)
    BY <1>2, <2>3, <2>5, <2>9
  <2>11. k + 1 \in 1..(k + 1) /\ (k + 1) - 1 = k
    OBVIOUS
  <2>12. TakeUp(s, lo + k * n, lo + (k + 1) * n)
    <3>1. TakeUp(r[k + 1], lo + ((k + 1) - 1) * n, lo + (k + 1) * n)
      BY <2>1, <2>11 DEF Blocked
    <3>. QED  BY <2>7, <2>11, <3>1
  <2>13. FlattenSeq(r) = FlattenSeq(front) \o s /\ FlattenSeq(front) \in Seq(Tasks(T))
    BY <2>3, <2>5, <2>6, <2>7, FlattenAppended, Flattened
  <2>14. PICK mid \in Nat, hi \in Nat : mid = lo + k * n /\ hi = lo + (k + 1) * n /\ mid <= hi
    <3>1. k * n \in Nat /\ (k + 1) * n = k * n + n
      BY Blocks
    <3>2. PICK x \in Nat, y \in Nat : x = k * n /\ y = (k + 1) * n /\ y = x + n
      BY <3>1
    <3>4. y = x + n
      BY <3>2
    <3>3. lo + x \in Nat /\ lo + y \in Nat /\ lo + x <= lo + y
      BY <3>4
    <3>. QED  BY <3>2, <3>3
  <2>15. lo <= mid
    <3>1. k * n \in Nat
      BY Blocks
    <3>. QED  BY <2>14, <3>1
  <2>16. PICK a \in Seq(Tasks(T)) : a = FlattenSeq(front)
    BY <2>13
  <2>17. TakeUp(a, lo, mid) /\ TakeUp(s, mid, hi)
    BY <2>10, <2>12, <2>14, <2>16
  <2>18. TakeUp(a \o s, lo, hi)
    BY <2>14, <2>15, <2>17, TakeUpBoth
  <2>. QED  BY <2>13, <2>14, <2>16, <2>18
<1> HIDE DEF K, Blocked
<1>3. \A k \in Nat : k \in K => k + 1 \in K
  BY <1>2
<1>4. Nat \subseteq K
  BY <1>1, <1>3, SetInduction, Zenon
<1>5. Len(seqs) \in K /\ Blocked(seqs)
  BY <1>4 DEF Blocked
<1>. QED  BY <1>5 DEF K

(* Tasks that each have a place of their own are linked, whatever the      *)
(* writer does.                                                            *)
LEMMA SeekLinked ==
  ASSUME NEW T, NEW s \in Seq(SeekTasks(T))
  PROVE  Linked(s) /\ s \in Seq(GoodTasks(T)) /\ \A k \in DOMAIN s : s[k].seek
<1>1. \A k \in DOMAIN s : s[k] \in SeekTasks(T)
  OBVIOUS
<1>2. SeekTasks(T) \subseteq GoodTasks(T) /\ \A t \in SeekTasks(T) : t.seek
  BY DEF SeekTasks
<1>3. \A k \in DOMAIN s : s[k].seek
  BY <1>1, <1>2
<1>4. s \in Seq(GoodTasks(T))
  BY <1>2
<1>. QED  BY <1>3, <1>4 DEF Linked, Follows

(* A struct of which nothing is given is typed as any type.                *)
LEMMA NothingGiven ==
  ASSUME NEW T, NEW type
  PROVE  Typed(<<>>, type, T)
BY DEF Typed, GivenOf

(* The structs that fill up an inline array.                               *)
LEMMA FillStructsGood ==
  ASSUME NEW T, NEW m \in MemberDescs, m.kind = "struct", NEW at \in Nat, NEW count \in Nat, count <= m.count
  PROVE  /\ FillTasks(m, at, count) \in Seq(SeekTasks(T))
         /\ TakeUp(FillTasks(m, at, count), at + count * ElementSize(m), at + m.count * ElementSize(m))
<1>1. m.of \in DOMAIN Members /\ m.count \in Nat
  BY DEF MemberDescs
<1>2. PICK e \in Nat \ {0} : e = ElementSize(m) /\ e = Size[m.of]
  BY MemberRoom DEF ElementSize
<1>3. PICK k \in Nat : k = m.count - count /\ m.count = count + k
  <2>1. m.count - count \in Nat /\ m.count = count + (m.count - count)
    BY <1>1
  <2>. QED  BY <2>1
<1>4. PICK seqs : seqs = [i \in 1..k |-> StructTasks(m.of, at + (count + i - 1) * e, <<>>)]
  OBVIOUS
<1>5. FillTasks(m, at, count) = FlattenSeq(seqs)
  BY <1>2, <1>3, <1>4 DEF FillTasks
<1>6. PICK lo \in Nat : lo = at + count * e /\ lo + k * e = at + m.count * e
  <2>1. /\ count * e \in Nat /\ k * e \in Nat
        /\ (count + k) * e = count * e + k * e
    BY Blocks
  <2>2. PICK x \in Nat, y \in Nat, z \in Nat : x = count * e /\ y = k * e /\ z = m.count * e /\ z = x + y
    BY <1>3, <2>1
  <2>. QED  BY <2>2
<1>7. ASSUME NEW i \in 1..k
      PROVE  seqs[i] \in Seq(SeekTasks(T)) /\ TakeUp(seqs[i], lo + (i - 1) * e, lo + i * e)
  <2>1. PICK j \in Nat : j = i - 1 /\ i = j + 1 /\ count + i - 1 = count + j
    <3>1. i - 1 \in Nat /\ i = (i - 1) + 1 /\ count + i - 1 = count + (i - 1)
      OBVIOUS
    <3>. QED  BY <3>1
  <2>2. /\ count * e \in Nat /\ j * e \in Nat /\ (count + j) * e = count * e + j * e
        /\ i * e = j * e + e
    BY <2>1, Blocks
  <2>3. PICK p \in Nat : p = at + (count + j) * e /\ p = lo + j * e /\ p + e = lo + i * e
    <3>1. PICK x \in Nat, y \in Nat : x = count * e /\ y = j * e
      BY <2>2
    <3>2. at + x + y \in Nat /\ at + x + y = at + (count + j) * e /\ lo = at + x /\ lo + i * e = at + x + y + e
      BY <1>6, <2>2, <3>1
    <3>. QED  BY <3>1, <3>2
  <2>4. seqs[i] = StructTasks(m.of, p, <<>>)
    BY <1>4, <2>1, <2>3
  <2>5. StructTasks(m.of, p, <<>>) \in Seq(SeekTasks(T)) /\ TakeUp(StructTasks(m.of, p, <<>>), p, p + e)
    BY <1>1, <1>2, NothingGiven, StructTasksGood
  <2>. QED  BY <2>1, <2>3, <2>4, <2>5
<1>8. DOMAIN seqs = 1..k /\ seqs = [i \in 1..k |-> seqs[i]]
  BY <1>4
<1>9. seqs \in [1..k -> Seq(SeekTasks(T))]
  BY <1>7, <1>8
<1>10. seqs \in Seq(Seq(SeekTasks(T))) /\ Len(seqs) = k
  BY <1>9, FunctionIsSequence
<1>11. FlattenSeq(seqs) \in Seq(SeekTasks(T))
  BY <1>10, Flattened
<1>12. seqs \in Seq(Seq(Tasks(T)))
  <2>1. SeekTasks(T) \subseteq Tasks(T)
    BY DEF SeekTasks, GoodTasks
  <2>2. \A i \in 1..k : seqs[i] \in Seq(Tasks(T))
    BY <1>7, <2>1
  <2>3. seqs \in [1..k -> Seq(Tasks(T))]
    BY <1>8, <2>2
  <2>. QED  BY <2>3, FunctionIsSequence
<1>13. TakeUp(FlattenSeq(seqs), lo, lo + k * e)
  BY <1>7, <1>10, <1>12, TakeUpFlat
<1>. QED  BY <1>2, <1>5, <1>6, <1>11, <1>13

(* The elements of an inline array, with what fills it up.                 *)
LEMMA InlineGood ==
  ASSUME NEW T, NEW m \in MemberDescs, m.atom = "inline", NEW at \in Nat, NEW values \in Seq(T.values),
         \A i \in DOMAIN values : Suits(values[i], m, T), Len(values) <= m.count
  PROVE  LET s == ElementTasks(m, at, values) \o FillTasks(m, at, Len(values))
         IN /\ s \in Seq(GoodTasks(T)) /\ TakeUp(s, at, at + MemberSize(m)) /\ Linked(s)
            /\ m.kind = "struct" => \A k \in DOMAIN s : s[k].seek
            /\ m.kind # "struct" => \A k \in DOMAIN s : s[k].value = IF k <= Len(values) THEN values[k] ELSE Null
<1>1. PICK n \in Nat : n = Len(values) /\ DOMAIN values = 1..n
  OBVIOUS
<1>2. m.count \in Nat /\ n <= m.count
  BY <1>1 DEF MemberDescs
<1>3. PICK e \in Nat \ {0} : e = ElementSize(m)
  BY MemberRoom
<1>4. MemberSize(m) = m.count * e
  BY <1>3 DEF MemberSize
<1>5. PICK a : a = ElementTasks(m, at, values)
  OBVIOUS
<1>6. \A i \in 1..n : values[i] \in Values(T) /\ Suits(values[i], m, T)
  BY <1>1 DEF Values
<1>7. a = [i \in 1..n |-> ElementTask(m, at, 0 + i, values[i])]
  BY <1>1, <1>5 DEF ElementTasks
<1>8. /\ a \in Seq(GoodTasks(T)) /\ Len(a) = n
      /\ TakeUp(a, at + 0 * e, at + (0 + n) * e)
  <2>1. PICK c \in Nat : c = 0
    OBVIOUS
  <2>2. a = ElementsFrom(m, at, c, n, values) /\ AllSuit(values, n, m, T)
    BY <1>6, <1>7, <2>1 DEF ElementsFrom, AllSuit
  <2>3. /\ a \in Seq(GoodTasks(T)) /\ Len(a) = n
        /\ TakeUp(a, at + c * ElementSize(m), at + (c + n) * ElementSize(m))
    <3>1. GoodElements(ElementsFrom(m, at, c, n, values), m, at, c, n, T)
      BY <2>2, ElementsGood, Zenon
    <3>. QED  BY <2>2, <3>1 DEF GoodElements
  <2>. QED  BY <1>3, <2>1, <2>3
<1>9. at + 0 * e = at /\ 0 + n = n
  OBVIOUS
<1>10. PICK b : b = FillTasks(m, at, n)
  OBVIOUS
<1>11. CASE m.kind = "struct"
  <2>1. /\ b \in Seq(SeekTasks(T))
        /\ TakeUp(b, at + n * e, at + m.count * e)
    BY <1>2, <1>3, <1>10, <1>11, FillStructsGood
  <2>2. a \in Seq(SeekTasks(T))
    <3>1. \A i \in 1..n : a[i] \in GoodTasks(T)
      BY <1>8
    <3>4. \A i \in 1..n : a[i].seek
      BY <1>7, <1>11 DEF ElementTask
    <3>2. \A i \in 1..n : a[i] \in SeekTasks(T)
      BY <3>1, <3>4 DEF SeekTasks
    <3>3. a \in [1..n -> SeekTasks(T)]
      BY <1>7, <3>2
    <3>. QED  BY <3>3, FunctionIsSequence
  <2>3. a \o b \in Seq(SeekTasks(T))
    BY <2>1, <2>2
  <2>4. Linked(a \o b) /\ a \o b \in Seq(GoodTasks(T)) /\ \A k \in DOMAIN (a \o b) : (a \o b)[k].seek
    BY <2>3, SeekLinked
  <2>5. PICK mid \in Nat, hi \in Nat : mid = at + n * e /\ hi = at + m.count * e /\ at <= mid /\ mid <= hi
    <3>1. n * e \in Nat /\ m.count * e \in Nat /\ n * e <= m.count * e
      BY <1>2, Blocks
    <3>2. PICK x \in Nat, y \in Nat : x = n * e /\ y = m.count * e /\ x <= y
      BY <3>1
    <3>3. at + x \in Nat /\ at + y \in Nat /\ at <= at + x /\ at + x <= at + y
      BY <3>2
    <3>. QED  BY <3>2, <3>3
  <2>6. SeekTasks(T) \subseteq Tasks(T)
    BY DEF SeekTasks, GoodTasks
  <2>7. a \in Seq(Tasks(T)) /\ b \in Seq(Tasks(T))
    BY <2>1, <2>2, <2>6
  <2>8. TakeUp(a, at, mid) /\ TakeUp(b, mid, hi)
    BY <1>8, <1>9, <2>1, <2>5
  <2>9. TakeUp(a \o b, at, hi)
    BY <2>5, <2>7, <2>8, TakeUpBoth
  <2>. QED  BY <1>1, <1>4, <1>5, <1>10, <1>11, <2>4, <2>5, <2>9
<1>12. CASE m.kind # "struct"
  <2>1. PICK c \in Nat : c = m.count
    BY <1>2
  <2>2. PICK k \in Nat : k = m.count - n /\ c = n + k
    <3>1. m.count - n \in Nat /\ m.count = n + (m.count - n)
      BY <1>2
    <3>. QED  BY <2>1, <3>1
  <2>3. b = [i \in 1..k |-> ElementTask(m, at, n + i, Null)]
    BY <1>10, <1>12, <2>2 DEF FillTasks
  <2>4. PICK v : v = [i \in 1..c |-> IF i <= n THEN values[i] ELSE Null]
    OBVIOUS
  <2>5. PICK s : s = [i \in 1..c |-> ElementTask(m, at, 0 + i, v[i])]
    OBVIOUS
  <2>6. \A i \in 1..c : v[i] \in Values(T) /\ Suits(v[i], m, T)
    <3>1. Null \in Values(T) /\ Suits(Null, m, T)
      BY <1>12 DEF Values, Suits, Null, Words
    <3>. QED  BY <1>6, <2>4, <3>1
  <2>7. /\ s \in Seq(GoodTasks(T)) /\ Len(s) = c
        /\ TakeUp(s, at + 0 * e, at + (0 + c) * e)
        /\ Linked(s)
    <3>1. PICK z \in Nat : z = 0
      OBVIOUS
    <3>2. s = ElementsFrom(m, at, z, c, v) /\ AllSuit(v, c, m, T)
      BY <2>5, <2>6, <3>1 DEF ElementsFrom, AllSuit
    <3>3. /\ s \in Seq(GoodTasks(T)) /\ Len(s) = c
          /\ TakeUp(s, at + z * ElementSize(m), at + (z + c) * ElementSize(m))
          /\ Linked(s)
      <4>1. s = ElementsFrom(m, at, z, c, v)
        BY <3>2
      <4>2. AllSuit(v, c, m, T)
        BY <3>2
      <4>3. GoodElements(ElementsFrom(m, at, z, c, v), m, at, z, c, T)
        BY <4>2, ElementsGood, Zenon
      <4>. QED  BY <4>1, <4>3 DEF GoodElements
    <3>. QED  BY <1>3, <3>1, <3>3
  <2>8. \A i \in 1..c : s[i].value = v[i]
    BY <2>5 DEF ElementTask
  <2>9. a \o b = s
    <3>1. /\ \A i \in 1..n : s[i] = a[i]
          /\ \A i \in 1..k : s[n + i] = b[i]
      <4>1. \A i \in 1..n : i \in 1..c /\ 0 + i = i /\ i <= n
        BY <2>2
      <4>2. \A i \in 1..k : n + i \in 1..c /\ 0 + (n + i) = n + i /\ ~(n + i <= n)
        BY <2>2
      <4>. QED  BY <1>7, <2>3, <2>4, <2>5, <4>1, <4>2
    <3>2. PICK S : S = GoodTasks(T)
      OBVIOUS
    <3>3. b \in Seq(S) /\ Len(b) = k
      <4>1. \A i \in 1..k : n + i \in 1..c
        BY <2>2
      <4>4. \A i \in 1..c : s[i] \in S
        BY <2>7, <3>2
      <4>2. \A i \in 1..k : b[i] \in S
        BY <3>1, <4>1, <4>4
      <4>3. b \in [1..k -> S]
        BY <2>3, <4>2
      <4>. QED  BY <4>3, FunctionIsSequence
    <3>4. a \in Seq(S) /\ s \in Seq(S)
      BY <1>8, <2>7, <3>2
    <3>5. /\ a \o b \in Seq(S) /\ Len(a \o b) = n + k
          /\ \A i \in 1..n : (a \o b)[i] = a[i]
          /\ \A i \in 1..k : (a \o b)[n + i] = b[i]
      <4>1. /\ a \o b \in Seq(S) /\ Len(a \o b) = Len(a) + Len(b)
            /\ \A i \in 1..Len(a) : (a \o b)[i] = a[i]
            /\ \A i \in 1..Len(b) : (a \o b)[Len(a) + i] = b[i]
        <5>1. b \in Seq(S)
          BY <3>3
        <5>. QED  BY <3>4, <5>1, Concatenated DEF Longer
      <4>. QED  BY <1>8, <3>3, <4>1
    <3>6. \A i \in 1..(n + k) : i \in 1..n \/ (i - n \in 1..k /\ i = n + (i - n))
      OBVIOUS
    <3>7. \A i \in 1..(n + k) : (a \o b)[i] = s[i]
      BY <3>1, <3>5, <3>6
    <3>8. PICK d \in Seq(S) : d = a \o b /\ Len(d) = c /\ \A i \in 1..c : d[i] = s[i]
      BY <2>2, <3>5, <3>7
    <3>9. s \in Seq(S) /\ Len(s) = c
      BY <2>7, <3>4
    <3>10. d = s
      BY <3>8, <3>9
    <3>. QED  BY <3>8, <3>10
  <2>10. TakeUp(s, at, at + MemberSize(m))
    BY <1>4, <1>9, <2>1, <2>7
  <2>11. \A i \in 1..c : v[i] = IF i <= n THEN values[i] ELSE Null
    BY <2>4
  <2>. QED  BY <1>1, <1>5, <1>10, <1>12, <2>7, <2>8, <2>9, <2>10, <2>11
<1>. QED  BY <1>11, <1>12

-----------------------------------------------------------------------------
(* Default values.                                                         *)
CharsOf(e) == IF e.t = "str" THEN <<Cell("chars", e.v)>> ELSE <<>>
Chars(E) == {Cell("chars", e.v) : e \in E}

(* One string more for each element that is one.                           *)
LEMMA StringsAppended ==
  ASSUME NEW E, NEW s \in Seq(E), NEW i \in 1..Len(s)
  PROVE  /\ Strings(SubSeq(s, 1, i - 1)) \in Seq(Chars(E))
         /\ Strings(SubSeq(s, 1, i)) = Strings(SubSeq(s, 1, i - 1)) \o CharsOf(s[i])
<1>1. i \in Nat /\ i - 1 \in Nat /\ i - 1 \in 0..Len(s) /\ i \in 0..Len(s)
  OBVIOUS
<1>2. PICK a : a = SubSeq(s, 1, i - 1) /\ DOMAIN a = 1..(i - 1) /\ \A j \in 1..(i - 1) : a[j] = s[j]
  BY <1>1, Prefix
<1>3. PICK b : b = SubSeq(s, 1, i) /\ DOMAIN b = 1..i /\ \A j \in 1..i : b[j] = s[j]
  BY <1>1, Prefix
<1>4. PICK q : q = [j \in 1..(i - 1) |-> CharsOf(a[j])]
  OBVIOUS
<1>5. Strings(a) = FlattenSeq(q)
  BY <1>2, <1>4 DEF Strings, CharsOf
<1>6. PICK r : r = [j \in 1..i |-> CharsOf(b[j])]
  OBVIOUS
<1>7. Strings(b) = FlattenSeq(r)
  BY <1>3, <1>6 DEF Strings, CharsOf
<1>8. PICK S : S = Chars(E)
  OBVIOUS
<1>9. \A e \in E : CharsOf(e) \in Seq(S)
  <2>1. ASSUME NEW e \in E
        PROVE  CharsOf(e) \in Seq(S)
    <3>1. Cell("chars", e.v) \in S
      BY <1>8 DEF Chars
    <3>2. PICK x \in S : x = Cell("chars", e.v)
      BY <3>1
    <3>3. <<x>> \in Seq(S) /\ <<>> \in Seq(S)
      OBVIOUS
    <3>. QED  BY <3>2, <3>3 DEF CharsOf
  <2>. QED  BY <2>1
<1>10. \A j \in 1..i : s[j] \in E
  OBVIOUS
<1>11. q \in [1..(i - 1) -> Seq(S)]
  <2>1. \A j \in 1..(i - 1) : j \in 1..i
    BY <1>1
  <2>. QED  BY <1>2, <1>4, <1>9, <1>10, <2>1
<1>12. q \in Seq(Seq(S)) /\ Len(q) = i - 1
  BY <1>1, <1>11, FunctionIsSequence
<1>13. PICK c \in Seq(S) : c = CharsOf(s[i])
  <2>1. i \in 1..i
    BY <1>1
  <2>. QED  BY <1>9, <1>10, <2>1
<1>14. r = Append(q, c)
  <2>1. PICK k \in Nat : k = i - 1 /\ i = k + 1
    BY <1>1
  <2>2. q \in [1..k -> Seq(S)] /\ Len(q) = k
    BY <1>11, <1>12, <2>1
  <2>3. PICK d \in Seq(Seq(S)) : d = Append(q, c)
    <3>1. PICK Z : Z = Seq(S)
      OBVIOUS
    <3>2. q \in Seq(Z) /\ c \in Z
      BY <1>12, <3>1
    <3>3. Append(q, c) \in Seq(Z)
      BY <3>2
    <3>. QED  BY <3>1, <3>3
  <2>4. Len(d) = k + 1 /\ d[k + 1] = c /\ \A j \in 1..k : d[j] = q[j]
    BY <1>12, <2>2, <2>3
  <2>5. \A j \in 1..(k + 1) : j = k + 1 \/ j \in 1..k
    OBVIOUS
  <2>6. \A j \in 1..(k + 1) : r[j] = d[j]
    BY <1>2, <1>3, <1>4, <1>6, <1>13, <2>1, <2>4, <2>5
  <2>7. d = [j \in 1..(k + 1) |-> d[j]]
    BY <2>4
  <2>8. r = [j \in 1..(k + 1) |-> r[j]]
    BY <1>6, <2>1
  <2>. QED  BY <2>3, <2>6, <2>7, <2>8
<1>15. FlattenSeq(r) = FlattenSeq(q) \o c /\ FlattenSeq(q) \in Seq(S)
  BY <1>12, <1>14, FlattenAppended, Flattened
<1>. QED  BY <1>2, <1>3, <1>5, <1>7, <1>8, <1>13, <1>15

StringsBefore(s, i) == Len(Strings(SubSeq(s, 1, i)))

(* There are fewer strings before one than in all.                         *)
LEMMA StringsCounted ==
  ASSUME NEW E, NEW s \in Seq(E)
  PROVE  /\ Strings(s) \in Seq(Chars(E))
         /\ \A i \in 1..Len(s) : /\ StringsBefore(s, i - 1) \in Nat
                                 /\ s[i].t = "str" => StringsBefore(s, i - 1) < Len(Strings(s))
<1>1. PICK n \in Nat : n = Len(s)
  OBVIOUS
<1>2. PICK u : u = [i \in 0..n |-> StringsBefore(s, i)]
  OBVIOUS
<1>3. ASSUME NEW i \in 1..n
      PROVE  /\ u[i - 1] \in Nat /\ u[i] \in Nat /\ u[i - 1] <= u[i]
             /\ s[i].t = "str" => u[i - 1] < u[i]
             /\ Strings(SubSeq(s, 1, i)) \in Seq(Chars(E))
  <2>1. i - 1 \in 0..n /\ i \in 0..n
    OBVIOUS
  <2>2. PICK a, b, c : a = Strings(SubSeq(s, 1, i - 1)) /\ b = Strings(SubSeq(s, 1, i)) /\ c = CharsOf(s[i])
    OBVIOUS
  <2>3. a \in Seq(Chars(E)) /\ b = a \o c
    BY <1>1, <2>2, StringsAppended
  <2>4. s[i] \in E
    BY <1>1
  <2>5. c \in Seq(Chars(E)) /\ Len(c) = IF s[i].t = "str" THEN 1 ELSE 0
    BY <2>2, <2>4 DEF CharsOf, Chars
  <2>6. b \in Seq(Chars(E)) /\ Len(b) = Len(a) + Len(c) /\ Len(a) \in Nat
    <3>1. PICK S : S = Chars(E)
      OBVIOUS
    <3>2. a \in Seq(S) /\ c \in Seq(S)
      BY <2>3, <2>5, <3>1
    <3>3. a \o c \in Seq(S) /\ Len(a \o c) = Len(a) + Len(c)
      BY <3>2
    <3>. QED  BY <2>3, <3>1, <3>2, <3>3
  <2>7. u[i - 1] = Len(a) /\ u[i] = Len(b)
    BY <1>2, <2>1, <2>2 DEF StringsBefore
  <2>. QED  BY <2>2, <2>5, <2>6, <2>7
<1>4. SubSeq(s, 1, n) = s
  BY <1>1 DEF SubSeq
<1>5. Strings(s) \in Seq(Chars(E))
  <2>1. CASE n = 0
    <3>7. DOMAIN s = 1..Len(s)
      OBVIOUS
    <3>1. DOMAIN s = 1..0
      BY <1>1, <2>1, <3>7
    <3>3. PICK q : q = [i \in DOMAIN s |-> IF s[i].t = "str" THEN <<Cell("chars", s[i].v)>> ELSE <<>>]
      OBVIOUS
    <3>4. q \in [1..0 -> Seq(Chars(E))]
      BY <3>1, <3>3
    <3>6. q \in Seq(Seq(Chars(E)))
      BY <3>4, FunctionIsSequence
    <3>5. Strings(s) \in Seq(Chars(E))
      BY <3>3, <3>6, Flattened DEF Strings
    <3>. QED  BY <3>5
  <2>2. CASE n # 0
    <3>1. n \in 1..n
      BY <2>2
    <3>. QED  BY <1>3, <1>4, <3>1
  <2>. QED  BY <2>1, <2>2
<1> DEFINE K == {k \in Nat : \A i \in 0..n : i + k <= n => u[i] <= u[i + k]}
<1>6. \A i \in 0..n : u[i] \in Nat
  <2>1. ASSUME NEW i \in 0..n
        PROVE  u[i] \in Nat
    <3>1. CASE i = n
      <4>1. u[n] = Len(Strings(s))
        <5>1. n \in 0..n
          OBVIOUS
        <5>. QED  BY <1>2, <1>4, <5>1 DEF StringsBefore
      <4>. QED  BY <1>5, <3>1, <4>1
    <3>2. CASE i # n
      <4>1. i + 1 \in 1..n /\ (i + 1) - 1 = i
        BY <3>2
      <4>2. u[(i + 1) - 1] \in Nat
        BY <1>3, <4>1
      <4>. QED  BY <4>1, <4>2
    <3>. QED  BY <3>1, <3>2
  <2>. QED  BY <2>1
<1>7. 0 \in K
  <2>1. \A i \in 0..n : i + 0 = i
    OBVIOUS
  <2>. QED  BY <1>6, <2>1
<1>8. ASSUME NEW k \in Nat, k \in K
      PROVE  k + 1 \in K
  <2>1. SUFFICES ASSUME NEW i \in 0..n, i + (k + 1) <= n
                 PROVE  u[i] <= u[i + (k + 1)]
    OBVIOUS
  <2>2. PICK j \in Nat : j = i + k
    OBVIOUS
  <2>3. j + 1 \in 1..n /\ (j + 1) - 1 = j /\ i + (k + 1) = j + 1 /\ i + k <= n /\ j \in 0..n /\ j + 1 \in 0..n
    BY <2>1, <2>2
  <2>4. u[i] <= u[j]
    BY <1>8, <2>2, <2>3
  <2>5. u[(j + 1) - 1] <= u[j + 1]
    BY <1>3, <2>3
  <2>6. u[j] <= u[j + 1]
    BY <2>3, <2>5
  <2>7. u[i] \in Nat /\ u[j] \in Nat /\ u[j + 1] \in Nat
    BY <1>6, <2>3
  <2>8. u[i] <= u[j + 1]
    BY <2>4, <2>6, <2>7
  <2>. QED  BY <2>3, <2>8
<1> HIDE DEF K
<1>9. \A k \in Nat : k \in K => k + 1 \in K
  BY <1>8
<1>10. Nat \subseteq K
  BY <1>7, <1>9, SetInduction, Zenon
<1>11. \A i \in 0..n : u[i] <= u[n]
  <2>1. ASSUME NEW i \in 0..n
        PROVE  u[i] <= u[n]
    <3>1. PICK k \in Nat : k = n - i /\ i + k = n
      <4>1. n - i \in Nat /\ i + (n - i) = n
        OBVIOUS
      <4>. QED  BY <4>1
    <3>2. k \in K
      BY <1>10
    <3>3. u[i] <= u[i + k]
      BY <3>1, <3>2 DEF K
    <3>. QED  BY <3>1, <3>3
  <2>. QED  BY <2>1
<1>12. u[n] = Len(Strings(s))
  <2>1. n \in 0..n
    OBVIOUS
  <2>. QED  BY <1>2, <1>4, <2>1 DEF StringsBefore
<1>13. ASSUME NEW i \in 1..n
       PROVE  /\ StringsBefore(s, i - 1) \in Nat
              /\ s[i].t = "str" => StringsBefore(s, i - 1) < Len(Strings(s))
  <2>1. i - 1 \in 0..n /\ i \in 0..n
    OBVIOUS
  <2>2. u[i - 1] = StringsBefore(s, i - 1)
    BY <1>2, <2>1
  <2>3. u[i] <= u[n] /\ u[i] \in Nat /\ u[n] \in Nat /\ u[i - 1] \in Nat
    BY <1>6, <1>11, <2>1
  <2>4. s[i].t = "str" => u[i - 1] < u[i]
    BY <1>3
  <2>5. s[i].t = "str" => u[i - 1] < u[n]
    BY <2>3, <2>4
  <2>. QED  BY <1>12, <2>2, <2>3, <2>5
<1>. QED  BY <1>1, <1>5, <1>13

(* The elements of a default value, and the cells it is made of.           *)
Parts(m) == {m.default, Null} \union ToSet(m.default.v)
Contents(m) ==
  [tag : {"zero", "data", "chars", "off"}, v : Nat \union {e.v : e \in Parts(m)}, n : Nat]

(* The elements of a default value are words and strings, as many as its   *)
(* member has room for.                                                    *)
LEMMA DefaultElementsGood ==
  ASSUME NEW m \in MemberDescs, DefaultFits(m), m.default.t # "invalid"
  PROVE  /\ DefaultElements(m) \in Seq(Parts(m))
         /\ \A i \in DOMAIN DefaultElements(m) : DefaultElements(m)[i].t \in Words
         /\ m.atom # "array" => MemberSize(m) = Len(DefaultElements(m))
<1>1. m.kind # "struct" /\ m.atom \in {"pod", "inline", "array"} /\ m.count \in Nat
  BY DEF DefaultFits, MemberDescs
<1>2. ElementSize(m) = 1
  BY <1>1 DEF ElementSize
<1>3. CASE m.atom = "pod"
  <2>1. PICK d \in Parts(m) : d = m.default /\ d.t \in Words
    BY <1>1, <1>3 DEF DefaultFits, Parts
  <2>2. DefaultElements(m) = <<d>>
    BY <1>3, <2>1 DEF DefaultElements
  <2>3. <<d>> \in Seq(Parts(m)) /\ Len(<<d>>) = 1 /\ \A i \in DOMAIN <<d>> : <<d>>[i] = d
    OBVIOUS
  <2>4. MemberSize(m) = 1
    BY <1>2, <1>3 DEF MemberSize
  <2>. QED  BY <2>1, <2>2, <2>3, <2>4
<1>4. CASE m.atom # "pod"
  <2>1. /\ m.default.v \in Seq(ToSet(m.default.v))
        /\ m.atom = "inline" => Len(m.default.v) <= m.count
        /\ \A i \in DOMAIN m.default.v : m.default.v[i].t \in Words
    BY <1>1, <1>4 DEF DefaultFits
  <2>2. PICK P : P = Parts(m)
    OBVIOUS
  <2>3. ToSet(m.default.v) \subseteq P /\ Null \in P
    BY <2>2 DEF Parts
  <2>4. PICK a \in Seq(P) : a = m.default.v
    BY <2>1, <2>3
  <2>5. PICK l \in Nat : l = Len(a)
    OBVIOUS
  <2>6. PICK k \in Nat : k = (IF m.atom = "inline" THEN m.count - l ELSE 0)
    <3>1. m.atom = "inline" => m.count - l \in Nat
      BY <1>1, <2>1, <2>4, <2>5
    <3>. QED  BY <3>1
  <2>7. PICK b : b = [i \in 1..k |-> Null]
    OBVIOUS
  <2>8. DefaultElements(m) = a \o b
    BY <1>4, <2>4, <2>5, <2>6, <2>7 DEF DefaultElements
  <2>9. b \in [1..k -> P]
    BY <2>3, <2>7
  <2>10. b \in Seq(P) /\ Len(b) = k
    BY <2>9, FunctionIsSequence
  <2>11. b \in Seq(P)
    BY <2>10
  <2>12. a \o b \in Seq(P) /\ Len(a \o b) = Len(a) + Len(b)
    BY <2>11
  <2>13. \A i \in DOMAIN (a \o b) : \/ i \in DOMAIN a /\ (a \o b)[i] = a[i]
                                    \/ \E j \in DOMAIN b : (a \o b)[i] = b[j]
    BY <2>11, ConcatenatedElements
  <2>14. \A i \in DOMAIN (a \o b) : (a \o b)[i].t \in Words
    <3>1. \A j \in DOMAIN b : b[j].t \in Words
      BY <2>7 DEF Null, Words
    <3>2. \A i \in DOMAIN a : a[i].t \in Words
      BY <2>1, <2>4
    <3>. QED  BY <2>13, <3>1, <3>2
  <2>15. m.atom # "array" => MemberSize(m) = l + k
    <3>1. m.atom # "array" => MemberSize(m) = m.count * 1 /\ k = m.count - l
      BY <1>1, <1>2, <1>4, <2>6 DEF MemberSize
    <3>2. m.count * 1 = m.count
      BY <1>1
    <3>. QED  BY <1>1, <3>1, <3>2
  <2>. QED  BY <2>2, <2>5, <2>8, <2>10, <2>12, <2>14, <2>15
<1>. QED  BY <1>3, <1>4

(* A default value takes the room of its member at least, and what its     *)
(* offsets lead to is behind that.                                         *)
DefaultGood(cells, m) ==
  /\ cells \in Seq(Contents(m)) /\ MemberSize(m) <= Len(cells)
  /\ \A i \in DOMAIN cells :
       cells[i].tag = "off" => /\ cells[i].v \in Nat
                               /\ HeaderCells + MemberSize(m) <= cells[i].v
                               /\ cells[i].v < HeaderCells + Len(cells)

(* The cells of a default value begin with its member's, and its offsets   *)
(* lead to what is behind these.                                           *)
LEMMA DefaultCellsGood ==
  ASSUME NEW m \in MemberDescs, DefaultFits(m), m.default.t # "invalid"
  PROVE  DefaultGood(DefaultCells(m), m)
<1>1. PICK P, C : P = Parts(m) /\ C = Contents(m)
  OBVIOUS
<1>2. PICK els \in Seq(P) : els = DefaultElements(m) /\ \A i \in DOMAIN els : els[i].t \in Words
  BY <1>1, DefaultElementsGood
<1>3. PICK l \in Nat : l = Len(els) /\ DOMAIN els = 1..l
  OBVIOUS
<1>4. m.atom # "array" => MemberSize(m) = l
  BY <1>2, <1>3, DefaultElementsGood
<1>5. PICK z \in Nat : z = (IF m.atom = "array" THEN 1 ELSE 0)
  OBVIOUS
<1>6. HeaderCells \in Nat
  BY TxtPackAssumption
<1>7. PICK behind \in Nat : behind = HeaderCells + z + l
  BY <1>6
<1>8. PICK before : before = [i \in 1..l |-> Len(Strings(SubSeq(els, 1, i - 1)))]
  OBVIOUS
<1>9. PICK s : s = Strings(els)
  OBVIOUS
<1>10. s \in Seq(Chars(P))
  BY <1>9, StringsCounted
<1>11. PICK f \in Nat : f = Len(s)
  BY <1>10
<1>12. ASSUME NEW i \in 1..l
       PROVE  before[i] \in Nat /\ (els[i].t = "str" => before[i] < f)
  <2>1. before[i] = StringsBefore(els, i - 1)
    BY <1>8 DEF StringsBefore
  <2>2. StringsBefore(els, i - 1) \in Nat /\ (els[i].t = "str" => StringsBefore(els, i - 1) < Len(Strings(els)))
    BY <1>3, StringsCounted
  <2>. QED  BY <1>9, <1>11, <2>1, <2>2
<1>13. PICK x : x = IF m.atom # "array" THEN <<>>
                    ELSE IF els = <<>> THEN <<Zero>> ELSE <<Off(HeaderCells + 1, l)>>
  OBVIOUS
<1>14. PICK y : y = [i \in 1..l |-> CASE els[i].t = "null" -> Zero
                                      [] els[i].t = "data" -> Cell("data", els[i].v)
                                      [] els[i].t = "str"  -> Off(behind + before[i], 0)]
  OBVIOUS
<1>15. DefaultCells(m) = x \o y \o s
  BY <1>2, <1>3, <1>5, <1>7, <1>8, <1>9, <1>13, <1>14 DEF DefaultCells
<1>16. /\ Zero \in C /\ Zero.tag = "zero"
       /\ \A e \in P : Cell("data", e.v) \in C /\ Cell("chars", e.v) \in C
       /\ \A o, k \in Nat : Off(o, k) \in C /\ Off(o, k).v = o
       /\ \A v : Cell("data", v).tag = "data" /\ Cell("chars", v).tag = "chars"
  BY <1>1 DEF Contents, Parts, Zero, Cell, Off
<1>17. /\ x \in Seq(C) /\ Len(x) = z
       /\ \A i \in 1..z : x[i].tag = "off" => x[i].v = HeaderCells + 1 /\ l # 0
  <2>1. CASE m.atom # "array"
    <3>1. x = <<>> /\ z = 0
      BY <1>5, <1>13, <2>1
    <3>. QED  BY <3>1
  <2>2. CASE m.atom = "array" /\ els = <<>>
    <3>1. x = <<Zero>> /\ z = 1
      BY <1>5, <1>13, <2>2
    <3>2. PICK c \in C : c = Zero /\ c.tag = "zero"
      BY <1>16
    <3>3. x = <<c>> /\ <<c>> \in Seq(C) /\ Len(<<c>>) = 1 /\ <<c>>[1] = c
      BY <3>1, <3>2
    <3>. QED  BY <3>1, <3>2, <3>3
  <2>3. CASE m.atom = "array" /\ els # <<>>
    <3>1. x = <<Off(HeaderCells + 1, l)>> /\ z = 1
      BY <1>5, <1>13, <2>3
    <3>2. PICK c \in C : c = Off(HeaderCells + 1, l) /\ c.v = HeaderCells + 1
      BY <1>6, <1>16
    <3>3. x = <<c>> /\ <<c>> \in Seq(C) /\ Len(<<c>>) = 1 /\ <<c>>[1] = c
      BY <3>1, <3>2
    <3>4. l # 0
      BY <1>3, <2>3
    <3>. QED  BY <3>1, <3>2, <3>3, <3>4
  <2>. QED  BY <2>1, <2>2, <2>3
<1>18. ASSUME NEW i \in 1..l
       PROVE  /\ y[i] \in C
              /\ y[i].tag = "off" => y[i].v = behind + before[i] /\ before[i] < f /\ before[i] \in Nat
  <2>1. els[i] \in P /\ els[i].t \in {"null", "data", "str"}
    BY <1>2, <1>3 DEF Words
  <2>2. before[i] \in Nat /\ (els[i].t = "str" => before[i] < f)
    BY <1>12
  <2>3. CASE els[i].t = "null"
    <3>1. y[i] = Zero
      BY <1>14, <2>3
    <3>. QED  BY <1>16, <3>1
  <2>4. CASE els[i].t = "data"
    <3>1. y[i] = Cell("data", els[i].v)
      BY <1>14, <2>4
    <3>. QED  BY <1>16, <2>1, <3>1
  <2>5. CASE els[i].t = "str"
    <3>1. y[i] = Off(behind + before[i], 0)
      BY <1>14, <2>5
    <3>2. behind + before[i] \in Nat
      BY <2>2
    <3>. QED  BY <1>16, <2>2, <2>5, <3>1, <3>2
  <2>. QED  BY <2>1, <2>3, <2>4, <2>5
<1>19. y \in [1..l -> C]
  BY <1>14, <1>18
<1>20. y \in Seq(C) /\ Len(y) = l
  BY <1>19, FunctionIsSequence
<1>21. s \in Seq(C) /\ \A i \in 1..f : s[i].tag = "chars"
  <2>1. \A c \in Chars(P) : c \in C /\ c.tag = "chars"
    BY <1>16 DEF Chars
  <2>2. \A i \in 1..f : s[i] \in Chars(P)
    BY <1>10, <1>11
  <2>3. Chars(P) \subseteq C
    BY <2>1
  <2>. QED  BY <1>10, <2>1, <2>2, <2>3
<1>22. PICK a : a = x \o y
  OBVIOUS
<1>23. /\ a \in Seq(C) /\ Len(a) = z + l
       /\ \A i \in DOMAIN a : (i \in 1..z /\ a[i] = x[i]) \/ \E j \in 1..l : a[i] = y[j]
  <2>1. x \in Seq(C) /\ y \in Seq(C)
    BY <1>17, <1>20
  <2>2. a \in Seq(C) /\ Len(a) = Len(x) + Len(y) /\ DOMAIN x = 1..Len(x) /\ DOMAIN y = 1..Len(y)
    BY <1>22, <2>1
  <2>3. \A i \in DOMAIN a : (i \in DOMAIN x /\ a[i] = x[i]) \/ \E j \in DOMAIN y : a[i] = y[j]
    BY <1>22, <2>1, ConcatenatedElements
  <2>. QED  BY <1>17, <1>20, <2>2, <2>3
<1>24. PICK cells : cells = a \o s
  OBVIOUS
<1>25. /\ cells \in Seq(C) /\ Len(cells) = z + l + f
       /\ \A i \in DOMAIN cells : (i \in DOMAIN a /\ cells[i] = a[i]) \/ \E j \in 1..f : cells[i] = s[j]
  <2>1. a \in Seq(C) /\ s \in Seq(C)
    BY <1>21, <1>23
  <2>2. cells \in Seq(C) /\ Len(cells) = Len(a) + Len(s) /\ DOMAIN s = 1..Len(s)
    BY <1>24, <2>1
  <2>3. \A i \in DOMAIN cells : (i \in DOMAIN a /\ cells[i] = a[i]) \/ \E j \in DOMAIN s : cells[i] = s[j]
    BY <1>24, <2>1, ConcatenatedElements
  <2>. QED  BY <1>11, <1>23, <2>2, <2>3
<1>26. cells = DefaultCells(m)
  BY <1>15, <1>22, <1>24
<1>27. PICK n \in Nat : /\ n = MemberSize(m) /\ n <= z + l
                        /\ z = 1 => n = 1
                        /\ z = 0 => n = l
  <2>1. m.atom = "array" => MemberSize(m) = 1
    BY DEF MemberSize
  <2>2. (m.atom = "array" => z = 1) /\ (m.atom # "array" => z = 0)
    BY <1>5
  <2>. QED  BY <1>4, <2>1, <2>2
<1>28. ASSUME NEW i \in DOMAIN cells, cells[i].tag = "off"
       PROVE  cells[i].v \in Nat /\ HeaderCells + n <= cells[i].v /\ cells[i].v < HeaderCells + (z + l + f)
  <2>1. CASE \E j \in 1..f : cells[i] = s[j]
    BY <1>21, <1>28, <2>1
  <2>2. CASE i \in DOMAIN a /\ cells[i] = a[i] /\ i \in 1..z /\ a[i] = x[i]
    <3>1. cells[i].v = HeaderCells + 1 /\ l # 0 /\ z = 1
      BY <1>5, <1>17, <1>28, <2>2
    <3>. QED  BY <1>6, <1>27, <3>1
  <2>3. CASE \E j \in 1..l : cells[i] = y[j]
    <3>1. PICK j \in 1..l : cells[i] = y[j]
      BY <2>3
    <3>2. PICK k \in Nat : k = before[j] /\ cells[i].v = behind + k /\ k < f
      BY <1>18, <1>28, <3>1
    <3>. QED  BY <1>6, <1>7, <1>27, <3>2
  <2>. QED  BY <1>23, <1>25, <2>1, <2>2, <2>3
<1>29. n <= Len(cells) /\ Len(cells) = z + l + f
  BY <1>25, <1>27
<1>. QED  BY <1>1, <1>25, <1>26, <1>27, <1>28, <1>29 DEF DefaultGood

-----------------------------------------------------------------------------
(* What is to be packed next: tasks inside the blob, and before one that   *)
(* packs where the writer is, the writer is not behind its place.          *)
TodoOK(q, p, e, T) ==
  /\ q \in Seq(GoodTasks(T)) /\ Within(q, HeaderCells, e) /\ Linked(q)
  /\ q # <<>> /\ ~q[1].seek => p <= q[1].at

(* The next task goes where it belongs.                                    *)
Jumps(t) == t.m.atom # "pod" \/ t.m.kind = "struct" \/ t.value.t = "default"

(* What a good task is.                                                    *)
LEMMA GoodTask ==
  ASSUME NEW T, NEW t \in GoodTasks(T)
  PROVE  /\ t \in Tasks(T) /\ t.at \in Nat /\ t.m \in MemberDescs /\ t.seek \in BOOLEAN /\ t.value \in Values(T)
         /\ MemberSize(t.m) \in Nat /\ Ends(t) = t.at + MemberSize(t.m) /\ Ends(t) \in Nat
         /\ ValueOK(t, T) /\ (t.m.kind = "struct" => t.seek) /\ (~t.seek => t.m.atom = "pod")
<1>1. /\ t \in Tasks(T) /\ ValueOK(t, T) /\ (t.m.kind = "struct" => t.seek) /\ (~t.seek => t.m.atom = "pod")
  BY DEF GoodTasks
<1>2. t.at \in Nat /\ t.m \in MemberDescs /\ MemberSize(t.m) \in Nat /\ Ends(t) \in Nat
  BY <1>1, TaskRoom
<1>3. t.seek \in BOOLEAN /\ t.value \in Values(T)
  BY <1>1 DEF Tasks
<1>. QED  BY <1>1, <1>2, <1>3, Zenon DEF Ends

(* The next task is a good one, and its room is in the blob.               *)
LEMMA HeadOK ==
  ASSUME NEW T, NEW q, NEW p \in Nat, NEW e \in Nat, TodoOK(q, p, e, T), q # <<>>
  PROVE  /\ Head(q) \in GoodTasks(T) /\ HeaderCells <= Head(q).at /\ Ends(Head(q)) <= e
         /\ ~Head(q).seek => p <= Head(q).at
<1>1. q \in Seq(GoodTasks(T)) /\ Within(q, HeaderCells, e) /\ (~q[1].seek => p <= q[1].at)
  BY DEF TodoOK
<1>2. Head(q) = q[1] /\ 1 \in DOMAIN q /\ q[1] \in GoodTasks(T)
  BY <1>1
<1>. QED  BY <1>1, <1>2 DEF Within

(* The tasks behind the next one.                                          *)
LEMMA TailOK ==
  ASSUME NEW T, NEW q, NEW p \in Nat, NEW e \in Nat, TodoOK(q, p, e, T), q # <<>>,
         NEW p2 \in Nat, NEW e2 \in Nat, e <= e2, Jumps(Head(q)) \/ p2 <= Head(q).at + 1
  PROVE  /\ TodoOK(Tail(q), p2, e2, T)
         /\ Jumps(Head(q)) /\ Tail(q) # <<>> => Tail(q)[1].seek
<1>1. q \in Seq(GoodTasks(T)) /\ Within(q, HeaderCells, e) /\ Linked(q)
  BY DEF TodoOK
<1>2. PICK n \in Nat : Len(q) = n + 1
  <2>1. Len(q) \in Nat /\ Len(q) # 0
    BY <1>1
  <2>2. Len(q) - 1 \in Nat /\ Len(q) = (Len(q) - 1) + 1
    BY <2>1
  <2>. QED  BY <2>2
<1>3. PICK r \in Seq(GoodTasks(T)) : r = Tail(q) /\ Len(r) = n /\ \A k \in 1..n : r[k] = q[k + 1]
  <2>1. PICK G : G = GoodTasks(T)
    OBVIOUS
  <2>2. q \in Seq(G)
    BY <1>1, <2>1
  <2>3. q # <<>> /\ (Len(q) - 1 = n)
    BY <1>2
  <2>4. Tail(q) \in Seq(G) /\ Len(Tail(q)) = Len(q) - 1 /\ \A k \in 1..(Len(q) - 1) : Tail(q)[k] = q[k + 1]
    BY <2>2, <2>3
  <2>. QED  BY <2>1, <2>3, <2>4
<1>4. \A k \in 1..n : k + 1 \in DOMAIN q
  BY <1>1, <1>2
<1>5. DOMAIN r = 1..n /\ DOMAIN q = 1..(n + 1) /\ Head(q) = q[1]
  BY <1>1, <1>2, <1>3
<1>6. Within(r, HeaderCells, e2)
  <2>1. ASSUME NEW k \in 1..n
        PROVE  HeaderCells <= r[k].at /\ Ends(r[k]) <= e2
    <3>1. HeaderCells <= q[k + 1].at /\ Ends(q[k + 1]) <= e /\ q[k + 1] \in GoodTasks(T)
      BY <1>1, <1>4 DEF Within
    <3>2. Ends(q[k + 1]) \in Nat
      BY <3>1, GoodTask
    <3>3. Ends(q[k + 1]) <= e2
      BY <3>1, <3>2
    <3>. QED  BY <1>3, <3>1, <3>3
  <2>. QED  BY <1>5, <2>1 DEF Within
<1>7. Linked(r)
  <2>1. ASSUME NEW k \in 1..n, k + 1 \in 1..n
        PROVE  Follows(r[k], r[k + 1])
    <3>1. PICK j \in Nat : j = k + 1 /\ j \in 1..(n + 1) /\ j + 1 \in 1..(n + 1)
      BY <2>1
    <3>2. Follows(q[j], q[j + 1])
      BY <1>1, <1>5, <3>1 DEF Linked
    <3>3. r[k] = q[j] /\ r[k + 1] = q[j + 1]
      BY <1>3, <2>1, <3>1
    <3>. QED  BY <3>2, <3>3
  <2>. QED  BY <1>5, <2>1 DEF Linked
<1>8. ASSUME r # <<>>
      PROVE  Follows(q[1], r[1])
  <2>1. n # 0
    BY <1>3, <1>8
  <2>2. 1 \in 1..n /\ 1 \in 1..(n + 1) /\ 1 + 1 \in 1..(n + 1)
    BY <2>1
  <2>3. Follows(q[1], q[1 + 1])
    BY <1>1, <1>5, <2>2 DEF Linked
  <2>. QED  BY <1>3, <2>2, <2>3
<1>9. Jumps(Head(q)) /\ r # <<>> => r[1].seek
  BY <1>5, <1>8 DEF Follows, Jumps
<1>10. r # <<>> /\ ~r[1].seek => p2 <= r[1].at
  BY <1>5, <1>8, <1>9 DEF Follows
<1>. QED  BY <1>3, <1>6, <1>7, <1>9, <1>10 DEF TodoOK

(* Tasks that are put before the others.                                   *)
LEMMA JoinOK ==
  ASSUME NEW T, NEW q, NEW p \in Nat, NEW e \in Nat, TodoOK(q, p, e, T), q # <<>>,
         NEW p2 \in Nat, NEW e2 \in Nat, e <= e2, Jumps(Head(q)), NEW s, TodoOK(s, p2, e2, T)
  PROVE  TodoOK(s \o Tail(q), p2, e2, T)
<1>1. PICK r : r = Tail(q)
  OBVIOUS
<1>2. TodoOK(r, p2, e2, T) /\ (r # <<>> => r[1].seek)
  BY <1>1, TailOK
<1>3. PICK G : G = GoodTasks(T)
  OBVIOUS
<1>4. /\ s \in Seq(G) /\ Within(s, HeaderCells, e2) /\ Linked(s) /\ (s # <<>> /\ ~s[1].seek => p2 <= s[1].at)
      /\ r \in Seq(G) /\ Within(r, HeaderCells, e2) /\ Linked(r)
  BY <1>2, <1>3 DEF TodoOK
<1>5. s \in Seq(G) /\ r \in Seq(G)
  BY <1>4
<1>6. PICK n \in Nat, l \in Nat : n = Len(s) /\ l = Len(r)
  BY <1>5
<1>7. PICK b : b = s \o r
  OBVIOUS
<1>8. /\ b \in Seq(G) /\ Len(b) = n + l /\ DOMAIN b = 1..(n + l) /\ DOMAIN s = 1..n /\ DOMAIN r = 1..l
      /\ \A k \in 1..n : b[k] = s[k]
      /\ \A k \in 1..l : b[n + k] = r[k]
  BY <1>5, <1>6, <1>7
<1>9. \A k \in 1..(n + l) : k \in 1..n \/ \E j \in 1..l : k = n + j
  <2>1. ASSUME NEW k \in 1..(n + l), k \notin 1..n
        PROVE  k - n \in 1..l /\ k = n + (k - n)
    BY <2>1
  <2>. QED  BY <2>1
<1>10. Within(b, HeaderCells, e2)
  <2>1. ASSUME NEW k \in 1..(n + l)
        PROVE  HeaderCells <= b[k].at /\ Ends(b[k]) <= e2
    <3>1. CASE k \in 1..n
      <4>1. HeaderCells <= s[k].at /\ Ends(s[k]) <= e2
        BY <1>4, <1>8, <3>1 DEF Within
      <4>. QED  BY <1>8, <3>1, <4>1
    <3>2. CASE \E j \in 1..l : k = n + j
      <4>1. PICK j \in 1..l : k = n + j
        BY <3>2
      <4>2. HeaderCells <= r[j].at /\ Ends(r[j]) <= e2
        BY <1>4, <1>8 DEF Within
      <4>. QED  BY <1>8, <4>1, <4>2
    <3>. QED  BY <1>9, <3>1, <3>2
  <2>. QED  BY <1>8, <2>1 DEF Within
<1>11. Linked(b)
  <2>1. ASSUME NEW k \in 1..(n + l), k + 1 \in 1..(n + l)
        PROVE  Follows(b[k], b[k + 1])
    <3>1. CASE k + 1 \in 1..n
      <4>1. k \in 1..n
        BY <3>1
      <4>2. Follows(s[k], s[k + 1])
        BY <1>4, <1>8, <3>1, <4>1 DEF Linked
      <4>. QED  BY <1>8, <3>1, <4>1, <4>2
    <3>2. CASE \E j \in 1..l : k + 1 = n + j
      <4>1. PICK j \in 1..l : k + 1 = n + j
        BY <3>2
      <4>2. CASE j = 1
        <5>1. r # <<>> /\ b[k + 1] = r[1]
          BY <1>6, <1>8, <4>1, <4>2
        <5>. QED  BY <1>2, <5>1 DEF Follows
      <4>3. CASE j # 1
        <5>1. PICK i \in 1..l : j = i + 1 /\ i + 1 \in 1..l /\ k = n + i
          <6>1. j - 1 \in 1..l /\ j = (j - 1) + 1 /\ (j - 1) + 1 \in 1..l /\ k = n + (j - 1)
            BY <4>1, <4>3
          <6>. QED  BY <6>1
        <5>2. Follows(r[i], r[i + 1])
          BY <1>4, <1>8, <5>1 DEF Linked
        <5>3. b[k] = r[i] /\ b[k + 1] = r[i + 1]
          BY <1>8, <4>1, <5>1
        <5>. QED  BY <5>2, <5>3
      <4>. QED  BY <4>2, <4>3
    <3>. QED  BY <1>9, <2>1, <3>1, <3>2
  <2>. QED  BY <1>8, <2>1 DEF Linked
<1>12. b # <<>> /\ ~b[1].seek => p2 <= b[1].at
  <2>1. CASE n = 0
    <3>1. ASSUME b # <<>>
          PROVE  b[1] = r[1] /\ r # <<>>
      <4>1. l # 0 /\ 1 \in 1..l /\ n + 1 = 1
        BY <1>8, <2>1, <3>1
      <4>2. b[n + 1] = r[1]
        BY <1>8, <4>1
      <4>3. r # <<>>
        BY <1>6, <4>1
      <4>. QED  BY <4>1, <4>2, <4>3
    <3>. QED  BY <1>2, <3>1
  <2>2. CASE n # 0
    <3>1. 1 \in 1..n /\ s # <<>>
      BY <1>6, <2>2
    <3>2. b[1] = s[1]
      BY <1>8, <3>1
    <3>. QED  BY <1>4, <3>1, <3>2
  <2>. QED  BY <2>1, <2>2
<1>. QED  BY <1>1, <1>3, <1>7, <1>8, <1>10, <1>11, <1>12 DEF TodoOK

(* Tasks in a part of the blob are in the blob.                            *)
LEMMA WithinMore ==
  ASSUME NEW T, NEW s \in Seq(GoodTasks(T)), NEW lo \in Nat, NEW hi \in Nat, NEW e \in Nat,
         Within(s, lo, hi), HeaderCells <= lo, hi <= e
  PROVE  Within(s, HeaderCells, e) /\ (s # <<>> => lo <= s[1].at)
<1>1. ASSUME NEW k \in DOMAIN s
      PROVE  HeaderCells <= s[k].at /\ Ends(s[k]) <= e /\ lo <= s[k].at
  <2>1. s[k] \in GoodTasks(T) /\ lo <= s[k].at /\ Ends(s[k]) <= hi
    BY DEF Within
  <2>2. s[k].at \in Nat /\ Ends(s[k]) \in Nat /\ HeaderCells \in Nat
    BY <2>1, GoodTask, TxtPackAssumption
  <2>. QED  BY <2>1, <2>2
<1>2. s # <<>> => 1 \in DOMAIN s
  OBVIOUS
<1>. QED  BY <1>1, <1>2 DEF Within

(* The tasks of a struct that is in the blob can be done next.             *)
LEMMA StructTodo ==
  ASSUME NEW T, NEW type \in DOMAIN Members, NEW entries, Typed(entries, type, T), NEW at \in Nat,
         NEW e \in Nat, HeaderCells <= at, at + Size[type] <= e, NEW p \in Nat
  PROVE  TodoOK(StructTasks(type, at, entries), p, e, T)
<1>1. PICK s : s = StructTasks(type, at, entries)
  OBVIOUS
<1>2. PICK z \in Nat : z = Size[type]
  BY TxtPackAssumption
<1>3. s \in Seq(SeekTasks(T)) /\ TakeUp(s, at, at + z)
  BY <1>1, <1>2, StructTasksGood
<1>4. Linked(s) /\ s \in Seq(GoodTasks(T)) /\ \A k \in DOMAIN s : s[k].seek
  BY <1>3, SeekLinked
<1>5. PICK hi \in Nat : hi = at + z /\ hi <= e
  BY <1>2
<1>6. Within(s, at, hi)
  BY <1>3, <1>5 DEF TakeUp
<1>7. Within(s, HeaderCells, e)
  BY <1>4, <1>5, <1>6, WithinMore
<1>8. s # <<>> => s[1].seek
  BY <1>4
<1>. QED  BY <1>1, <1>4, <1>7, <1>8 DEF TodoOK

(* So can those of an array, which take up the array's room one after the  *)
(* other.                                                                  *)
LEMMA ArrayTodo ==
  ASSUME NEW T, NEW m \in MemberDescs, NEW values \in Seq(T.values),
         \A i \in DOMAIN values : Suits(values[i], m, T), NEW at \in Nat, NEW e \in Nat,
         HeaderCells <= at, at + Len(values) * ElementSize(m) <= e
  PROVE  /\ TodoOK(ElementTasks(m, at, values), at, e, T)
         /\ TakeUp(ElementTasks(m, at, values), at, at + Len(values) * ElementSize(m))
         /\ Len(ElementTasks(m, at, values)) = Len(values)
<1>1. PICK n \in Nat : n = Len(values) /\ DOMAIN values = 1..n
  OBVIOUS
<1>2. PICK s : s = ElementTasks(m, at, values)
  OBVIOUS
<1>3. PICK c \in Nat : c = 0
  OBVIOUS
<1>4. s = ElementsFrom(m, at, c, n, values)
  BY <1>1, <1>2, <1>3 DEF ElementTasks, ElementsFrom
<1>5. AllSuit(values, n, m, T)
  BY <1>1 DEF AllSuit, Values
<1>6. GoodElements(ElementsFrom(m, at, c, n, values), m, at, c, n, T)
  BY <1>5, ElementsGood, Zenon
<1>7. PICK z \in Nat : z = ElementSize(m)
  BY MemberRoom
<1>8. /\ s \in Seq(GoodTasks(T)) /\ Len(s) = n /\ Linked(s)
      /\ TakeUp(s, at + c * z, at + (c + n) * z)
  BY <1>4, <1>6, <1>7 DEF GoodElements
<1>9. at + c * z = at /\ c + n = n
  BY <1>3
<1>10. PICK hi \in Nat : hi = at + n * z /\ hi <= e
  <2>1. n * z \in Nat
    BY Blocks
  <2>2. PICK x \in Nat : x = n * z
    BY <2>1
  <2>3. at + x <= e
    BY <1>1, <1>7, <2>2
  <2>. QED  BY <2>2, <2>3
<1>11. TakeUp(s, at, hi)
  BY <1>8, <1>9, <1>10
<1>12. Within(s, at, hi)
  BY <1>11 DEF TakeUp
<1>13. Within(s, HeaderCells, e) /\ (s # <<>> => at <= s[1].at)
  BY <1>8, <1>10, <1>12, WithinMore
<1>14. TodoOK(s, at, e, T)
  BY <1>8, <1>13 DEF TodoOK
<1>. QED  BY <1>1, <1>2, <1>7, <1>8, <1>10, <1>11, <1>14

(* So can those of an inline array, with those that fill it up.            *)
LEMMA InlineTodo ==
  ASSUME NEW T, NEW m \in MemberDescs, m.atom = "inline", NEW values \in Seq(T.values),
         \A i \in DOMAIN values : Suits(values[i], m, T), Len(values) <= m.count,
         NEW at \in Nat, NEW e \in Nat, HeaderCells <= at, at + MemberSize(m) <= e
  PROVE  TodoOK(ElementTasks(m, at, values) \o FillTasks(m, at, Len(values)), at, e, T)
<1>1. PICK s : s = ElementTasks(m, at, values) \o FillTasks(m, at, Len(values))
  OBVIOUS
<1>2. s \in Seq(GoodTasks(T)) /\ TakeUp(s, at, at + MemberSize(m)) /\ Linked(s)
  BY <1>1, InlineGood
<1>3. PICK hi \in Nat : hi = at + MemberSize(m) /\ hi <= e
  BY MemberRoom
<1>4. Within(s, at, hi)
  BY <1>2, <1>3 DEF TakeUp
<1>5. Within(s, HeaderCells, e) /\ (s # <<>> => at <= s[1].at)
  BY <1>2, <1>3, <1>4, WithinMore
<1>. QED  BY <1>1, <1>2, <1>5 DEF TodoOK

-----------------------------------------------------------------------------
(* The invariant: the tasks, the blob, what is noted, and the items.       *)
Types == Typing(text).types

BlobOK ==
  /\ text \in Texts /\ phase \in Phases /\ dummy \in BOOLEAN /\ needed \in Nat
  /\ DOMAIN buf = Positions
  /\ pos \in Nat /\ end \in Nat /\ HeaderCells <= pos /\ pos <= end /\ end <= LastCell + 1

Place(p) == p \in Nat /\ HeaderCells <= p /\ p < end

NotedOK ==
  /\ refs \in Seq([name : DOMAIN Types, type : DOMAIN Members, at : Nat])
  /\ \A i \in DOMAIN refs : Place(refs[i].at) /\ refs[i].type = Types[refs[i].name]
  /\ ptrs \in Seq(HeaderCells..(end - 1))

Names == {"__root"} \union {text.section[k].name : k \in 1..Len(text.section)}

ItemsOK ==
  /\ item \in Nat /\ item <= Len(text.section)
  /\ items \in Seq([name : Names, pos : Nat]) /\ Len(items) = item + 1
  /\ \A i \in DOMAIN items : Place(items[i].pos)
  /\ resolved \in Nat /\ resolved <= Len(refs)

PackInv == BlobOK /\ TodoOK(todo, pos, end, Typing(text)) /\ NotedOK /\ ItemsOK

(* The inductive invariant gives the type invariant.                       *)
LEMMA InvTypeOK == PackInv => TypeOK
<1> SUFFICES ASSUME PackInv PROVE TypeOK
  OBVIOUS
<1>1. item \in Nat /\ Len(items) = item + 1
  BY DEF PackInv, ItemsOK
<1>2. item <= Len(items)
  BY <1>1
<1>3. \A i \in DOMAIN ptrs : ptrs[i] < end
  <2>1. ptrs \in Seq(HeaderCells..(end - 1)) /\ end \in Nat /\ HeaderCells \in Nat
    BY TxtPackAssumption DEF PackInv, BlobOK, NotedOK
  <2>2. \A i \in DOMAIN ptrs : ptrs[i] \in HeaderCells..(end - 1)
    BY <2>1
  <2>. QED  BY <2>1, <2>2
<1>. QED  BY <1>2, <1>3 DEF PackInv, BlobOK, NotedOK, ItemsOK, Place, TypeOK

(* What a text is taken for.                                               *)
LEMMA TextTyped ==
  ASSUME text \in Texts
  PROVE  /\ \A s \in Typing(text).structs : s.type \in DOMAIN Members /\ Typed(s.given, s.type, Typing(text))
         /\ [type |-> Root, given |-> text.root] \in Typing(text).structs
         /\ Len(text.section) \in Nat
         /\ \A k \in 1..Len(text.section) : text.section[k].name \in DOMAIN Types =>
              [type |-> Types[text.section[k].name], given |-> text.section[k].value] \in Typing(text).structs
<1>1. WellTyped(text, Typing(text))
  BY TextsAssumption
<1>. QED  BY <1>1 DEF WellTyped, Typed, GivenOf, Types

(* The beginning of a pass.                                                *)
LEMMA BeginOK ==
  ASSUME text \in Texts
  PROVE  /\ HeaderCells \in Nat /\ Size[Root] \in Nat \ {0} /\ HeaderCells + Size[Root] \in Nat
         /\ HeaderCells + Size[Root] <= LastCell + 1 /\ LastCell \in Nat
         /\ TodoOK(StructTasks(Root, HeaderCells, text.root), HeaderCells, HeaderCells + Size[Root], Typing(text))
<1>1. /\ HeaderCells \in Nat /\ Size[Root] \in Nat \ {0} /\ Root \in DOMAIN Members
      /\ HeaderCells + Size[Root] <= LastCell + 1 /\ LastCell \in Nat
  BY TxtPackAssumption
<1>2. PICK r : r = [type |-> Root, given |-> text.root]
  OBVIOUS
<1>3. Typed(r.given, r.type, Typing(text)) /\ r.type = Root /\ r.given = text.root
  BY <1>2, TextTyped
<1>4. Typed(text.root, Root, Typing(text))
  BY <1>3
<1>5. PICK z \in Nat, e \in Nat : z = Size[Root] /\ e = HeaderCells + z
  BY <1>1
<1>6. TodoOK(StructTasks(Root, HeaderCells, text.root), HeaderCells, e, Typing(text))
  BY <1>1, <1>4, <1>5, StructTodo
<1>. QED  BY <1>1, <1>5, <1>6

(* The inductive invariant holds in the beginning,                         *)
LEMMA InitInv == Init => PackInv
<1> SUFFICES ASSUME Init PROVE PackInv
  OBVIOUS
<1>1. text \in Texts
  BY DEF Init
<1>2. BlobOK
  BY <1>1, BeginOK DEF Init, BlobOK, Phases, Cleared
<1>3. TodoOK(todo, pos, end, Typing(text))
  BY <1>1, BeginOK DEF Init
<1>4. NotedOK
  BY DEF Init, NotedOK
<1>5. ItemsOK
  <2>1. PICK x \in [name : Names, pos : Nat] : x = [name |-> "__root", pos |-> HeaderCells]
    BY <1>1, BeginOK DEF Names
  <2>2. items = <<x>> /\ <<x>> \in Seq([name : Names, pos : Nat]) /\ Len(<<x>>) = 1 /\ DOMAIN <<x>> = {1}
    BY <2>1 DEF Init
  <2>3. Place(HeaderCells)
    BY <1>1, BeginOK DEF Place, Init
  <2>4. item = 0 /\ resolved = 0 /\ refs = <<>> /\ 0 <= Len(text.section)
    BY <1>1, TextTyped DEF Init
  <2>. QED  BY <2>1, <2>2, <2>3, <2>4 DEF ItemsOK
<1>. QED  BY <1>2, <1>3, <1>4, <1>5 DEF PackInv

-----------------------------------------------------------------------------
(* What the next task is.                                                  *)
LEMMA NextTask ==
  ASSUME PackInv, todo # <<>>
  PROVE  /\ Task \in GoodTasks(Typing(text)) /\ Task.m \in MemberDescs
         /\ Task.at \in Nat /\ HeaderCells <= Task.at /\ Ends(Task) = Task.at + MemberSize(Task.m)
         /\ MemberSize(Task.m) \in Nat /\ Ends(Task) <= end
         /\ Pos \in Nat /\ HeaderCells <= Pos /\ Pos <= Task.at /\ (Task.seek => Pos = Task.at)
         /\ Task.m.kind = "struct" \/ Task.m.atom # "pod" => Task.seek
         /\ Value.t # "default" => Fits(Value, Task.m, Typing(text))
         /\ Value.t = "default" => Task.seek /\ DefaultFits(Task.m)
<1>1. PICK T, q : T = Typing(text) /\ q = todo
  OBVIOUS
<1>2. TodoOK(q, pos, end, T) /\ q # <<>> /\ pos \in Nat /\ end \in Nat /\ HeaderCells <= pos
  BY <1>1 DEF PackInv, BlobOK
<1>3. PICK t : t = Head(q)
  OBVIOUS
<1>4. t \in GoodTasks(T) /\ HeaderCells <= t.at /\ Ends(t) <= end /\ (~t.seek => pos <= t.at)
  BY <1>2, <1>3, HeadOK
<1>5. /\ t.at \in Nat /\ t.m \in MemberDescs /\ t.seek \in BOOLEAN
      /\ MemberSize(t.m) \in Nat /\ Ends(t) = t.at + MemberSize(t.m)
      /\ ValueOK(t, T) /\ (t.m.kind = "struct" => t.seek) /\ (~t.seek => t.m.atom = "pod")
  BY <1>4, GoodTask
<1>6. Task = t /\ Value = t.value /\ Pos = (IF t.seek THEN t.at ELSE pos)
  BY <1>1, <1>3 DEF Task, Value, Pos
<1>7. Pos \in Nat /\ HeaderCells <= Pos /\ Pos <= t.at /\ (t.seek => Pos = t.at)
  BY <1>2, <1>4, <1>5, <1>6
<1>8. /\ t.value.t # "default" => Fits(t.value, t.m, T)
      /\ t.value.t = "default" => t.seek /\ DefaultFits(t.m)
  BY <1>5 DEF ValueOK
<1>. QED  BY <1>1, <1>4, <1>5, <1>6, <1>7, <1>8

(* A word, a string or a reference is a cell of the blob.                  *)
LEMMA WordRoom ==
  ASSUME PackInv, todo # <<>>, Value.t \in Words \union {"ref"}
  PROVE  /\ MemberSize(Task.m) = 1 /\ Pos + 1 <= end /\ Pos + 1 <= Task.at + 1 /\ Task.at < end
         /\ ~Jumps(Task)
<1>1. Value.t # "default"
  BY DEF Words
<1>2. Task.m \in MemberDescs /\ Fits(Value, Task.m, Typing(text))
  BY <1>1, NextTask
<1>3. Task.m.atom = "pod" /\ Task.m.kind # "struct"
  BY <1>2, FitsTags
<1>4. MemberSize(Task.m) = 1
  BY <1>3 DEF MemberSize, ElementSize
<1>5. /\ Task.at \in Nat /\ Pos \in Nat /\ Pos <= Task.at /\ end \in Nat
      /\ Ends(Task) = Task.at + MemberSize(Task.m) /\ Ends(Task) <= end
  BY NextTask DEF PackInv, BlobOK
<1>6. ~Jumps(Task)
  BY <1>1, <1>3 DEF Jumps, Value
<1>. QED  BY <1>4, <1>5, <1>6

(* The next task is done.                                                  *)
LEMMA TaskDone ==
  ASSUME PackInv, todo # <<>>, text' = text, todo' = Tail(todo), pos' \in Nat, end' \in Nat, end <= end',
         Jumps(Task) \/ pos' <= Task.at + 1
  PROVE  TodoOK(todo', pos', end', Typing(text)')
<1>1. PICK T, q : T = Typing(text) /\ q = todo
  OBVIOUS
<1>2. TodoOK(q, pos, end, T) /\ q # <<>> /\ pos \in Nat /\ end \in Nat
  BY <1>1 DEF PackInv, BlobOK
<1>3. PICK p2 \in Nat, e2 \in Nat : p2 = pos' /\ e2 = end'
  OBVIOUS
<1>4. Jumps(Head(q)) \/ p2 <= Head(q).at + 1
  BY <1>1, <1>3 DEF Task
<1>5. TodoOK(Tail(q), p2, e2, T)
  BY <1>2, <1>3, <1>4, TailOK
<1>. QED  BY <1>1, <1>3, <1>5

(* What is noted stays a place in the blob.                                *)
LEMMA NotedSame ==
  ASSUME PackInv, text' = text, refs' = refs, end' \in Nat, end <= end',
         ptrs' \in Seq(HeaderCells..(end' - 1))
  PROVE  NotedOK'
<1>1. ASSUME NEW i \in DOMAIN refs
      PROVE  Place(refs[i].at)'
  <2>1. Place(refs[i].at) /\ end \in Nat
    BY DEF PackInv, NotedOK, BlobOK
  <2>. QED  BY <2>1 DEF Place
<1>2. Types' = Types
  BY DEF Types
<1>. QED  BY <1>1, <1>2 DEF PackInv, NotedOK

(* The items stay well formed when the blob and the references grow.       *)
LEMMA ItemsSame ==
  ASSUME PackInv, text' = text, UNCHANGED <<item, items, resolved>>, end' \in Nat, end <= end',
         Len(refs) <= Len(refs'), Len(refs') \in Nat
  PROVE  ItemsOK'
<1>1. ASSUME NEW i \in DOMAIN items
      PROVE  Place(items[i].pos)'
  <2>1. Place(items[i].pos) /\ end \in Nat
    BY DEF PackInv, ItemsOK, BlobOK
  <2>. QED  BY <2>1 DEF Place
<1>2. Names' = Names
  BY DEF Names
<1>3. resolved \in Nat /\ resolved <= Len(refs) /\ Len(refs) \in Nat
  BY DEF PackInv, ItemsOK, NotedOK
<1>4. resolved <= Len(refs')
  BY <1>3
<1>. QED  BY <1>1, <1>2, <1>3, <1>4 DEF PackInv, ItemsOK

(* A sequence over a set is one over a larger set.                         *)
LEMMA SeqMore ==
  ASSUME NEW A, NEW B, A \subseteq B, NEW s \in Seq(A)
  PROVE  s \in Seq(B)
<1>1. PICK n \in Nat : n = Len(s)
  OBVIOUS
<1>2. \A i \in 1..n : s[i] \in A
  BY <1>1
<1>3. s = [i \in 1..n |-> s[i]]
  BY <1>1
<1>4. s \in [1..n -> B]
  BY <1>2, <1>3
<1>. QED  BY <1>4, FunctionIsSequence

(* Places in the blob are places in a larger one.                          *)
LEMMA PlacesMore ==
  ASSUME PackInv, end' \in Nat, end <= end'
  PROVE  ptrs \in Seq(HeaderCells..(end' - 1))
<1>1. HeaderCells..(end - 1) \subseteq HeaderCells..(end' - 1)
  BY TxtPackAssumption DEF PackInv, BlobOK
<1>2. ptrs \in Seq(HeaderCells..(end - 1))
  BY DEF PackInv, NotedOK
<1>. QED  BY <1>1, <1>2, SeqMore

(* What is recorded stays in the blob when it grows.                       *)
LEMMA PtrsMore ==
  ASSUME PackInv, end' \in Nat, end <= end', ptrs' = ptrs
  PROVE  ptrs' \in Seq(HeaderCells..(end' - 1))
BY PlacesMore

(* Places in the blob are recorded.                                        *)
LEMMA Recorded ==
  ASSUME PackInv, end' \in Nat, end <= end', NEW s \in Seq(HeaderCells..(end' - 1)), Record(s)
  PROVE  ptrs' \in Seq(HeaderCells..(end' - 1))
<1>1. PICK S : S = HeaderCells..(end' - 1)
  OBVIOUS
<1>3. ptrs \in Seq(S)
  BY <1>1, PlacesMore
<1>4. s \in Seq(S)
  BY <1>1
<1>5. ptrs \o s \in Seq(S)
  BY <1>3, <1>4
<1>. QED  BY <1>1, <1>3, <1>5 DEF Record

(* A write leaves the buffer a function of its positions.                  *)
LEMMA Written ==
  ASSUME NEW cells, DOMAIN buf = Positions, Write(cells)
  PROVE  DOMAIN buf' = Positions
BY DEF Write

(* A word goes to the room of its task.                                    *)
LEMMA PackWordInv == PackInv /\ PackWord => PackInv'
<1> SUFFICES ASSUME PackInv, PackWord PROVE PackInv'
  OBVIOUS
<1>1. todo # <<>> /\ Value.t \in Words \union {"ref"}
  BY DEF PackWord, Packing, Words
<1>2. /\ Pos \in Nat /\ HeaderCells <= Pos /\ Pos + 1 <= end /\ Pos + 1 <= Task.at + 1
      /\ HeaderCells \in Nat /\ end \in Nat /\ end <= LastCell + 1
  BY <1>1, NextTask, WordRoom, TxtPackAssumption DEF PackInv, BlobOK
<1>3. PICK p \in Nat : p = Pos + 1 /\ p <= end
  BY <1>2
<1>4. end' = end
  <2>1. {end, p} \in SUBSET Nat /\ end \in {end, p} /\ \A k \in {end, p} : k <= end
    BY <1>2, <1>3
  <2>2. Max({end, p}) = end
    BY <2>1, MaxIs
  <2>. QED  BY <1>3, <2>2 DEF PackWord
<1>5. pos' = p /\ p <= Task.at + 1 /\ HeaderCells <= p
  BY <1>2, <1>3 DEF PackWord
<1>6. BlobOK'
  <2>1. DOMAIN buf' = Positions
    BY Written DEF PackInv, BlobOK, PackWord
  <2>. QED  BY <1>2, <1>3, <1>4, <1>5, <2>1 DEF PackWord, PackInv, BlobOK
<1>7. TodoOK(todo', pos', end', Typing(text)')
  BY <1>1, <1>2, <1>3, <1>4, <1>5, TaskDone DEF PackWord
<1>8. NotedOK'
  BY <1>2, <1>4, PtrsMore, NotedSame DEF PackWord
<1>9. ItemsOK'
  <2>1. Len(refs) \in Nat /\ Len(refs) <= Len(refs)
    BY DEF PackInv, NotedOK
  <2>. QED  BY <1>2, <1>4, <2>1, ItemsSame DEF PackWord, sectionVars
<1>. QED  BY <1>6, <1>7, <1>8, <1>9 DEF PackInv

(* A place in the blob is recorded.                                        *)
LEMMA OneRecorded ==
  ASSUME PackInv, end' \in Nat, end <= end', NEW p \in Nat, HeaderCells <= p, p < end', Record(<<p>>)
  PROVE  ptrs' \in Seq(HeaderCells..(end' - 1))
<1>1. PICK h \in Nat, e \in Nat : h = HeaderCells /\ e = end'
  BY TxtPackAssumption
<1>2. h <= p /\ p < e
  BY <1>1
<1>3. PICK S : S = h..(e - 1)
  OBVIOUS
<1>4. p \in S
  BY <1>2, <1>3
<1>5. <<p>> \in Seq(S)
  BY <1>4
<1>6. <<p>> \in Seq(HeaderCells..(end' - 1))
  BY <1>1, <1>3, <1>5
<1>. QED  BY <1>6, Recorded

(* How many references are noted stays the same.                           *)
LEMMA RefsKept == PackInv => Len(refs) \in Nat /\ Len(refs) <= Len(refs)
BY DEF PackInv, NotedOK

(* A string is packed into a cell, the cell behind the blob is its text.   *)
LEMMA PackStringInv == PackInv /\ PackString => PackInv'
<1> SUFFICES ASSUME PackInv, PackString PROVE PackInv'
  OBVIOUS
<1>1. todo # <<>> /\ Value.t \in Words \union {"ref"}
  BY DEF PackString, Packing, Words
<1>2. /\ Pos \in Nat /\ HeaderCells <= Pos /\ Pos + 1 <= end /\ Pos + 1 <= Task.at + 1
      /\ HeaderCells \in Nat /\ end \in Nat /\ end <= LastCell + 1 /\ LastCell \in Nat
  BY <1>1, NextTask, WordRoom, TxtPackAssumption DEF PackInv, BlobOK
<1>3. end' = end + 1 /\ end' <= LastCell + 1 /\ end' \in Nat /\ end <= end'
  BY <1>2 DEF PackString, Room
<1>4. pos' = Pos + 1 /\ pos' \in Nat /\ pos' <= Task.at + 1 /\ HeaderCells <= pos' /\ pos' <= end'
  BY <1>2, <1>3 DEF PackString
<1>5. BlobOK'
  <2>1. DOMAIN buf' = Positions
    BY Written DEF PackInv, BlobOK, PackString
  <2>. QED  BY <1>3, <1>4, <2>1 DEF PackString, PackInv, BlobOK
<1>6. TodoOK(todo', pos', end', Typing(text)')
  BY <1>1, <1>3, <1>4, TaskDone DEF PackString
<1>7. NotedOK'
  <2>1. Pos < end'
    BY <1>2, <1>3
  <2>2. ptrs' \in Seq(HeaderCells..(end' - 1))
    BY <1>2, <1>3, <2>1, OneRecorded DEF PackString
  <2>. QED  BY <1>3, <2>2, NotedSame DEF PackString
<1>8. ItemsOK'
  BY <1>3, RefsKept, ItemsSame DEF PackString, sectionVars
<1>. QED  BY <1>5, <1>6, <1>7, <1>8 DEF PackInv

(* A reference is noted, the writer stays before its place.                *)
LEMMA ReferInv == PackInv /\ Refer => PackInv'
<1> SUFFICES ASSUME PackInv, Refer PROVE PackInv'
  OBVIOUS
<1>1. todo # <<>> /\ Value.t = "ref" /\ Value.t \in Words \union {"ref"}
  BY DEF Refer, Packing, Words
<1>2. /\ Pos \in Nat /\ HeaderCells <= Pos /\ Pos + 1 <= end /\ Pos + 1 <= Task.at + 1
      /\ HeaderCells \in Nat /\ end \in Nat /\ end <= LastCell + 1 /\ LastCell \in Nat
      /\ Task.at \in Nat /\ HeaderCells <= Task.at /\ Task.at < end
  BY <1>1, NextTask, WordRoom, TxtPackAssumption DEF PackInv, BlobOK
<1>3. end' = end /\ end' \in Nat /\ end <= end'
  BY <1>2 DEF Refer
<1>4. pos' = Pos /\ pos' \in Nat /\ pos' <= Task.at + 1 /\ HeaderCells <= pos' /\ pos' <= end'
  BY <1>2, <1>3 DEF Refer
<1>5. BlobOK'
  BY <1>3, <1>4 DEF Refer, PackInv, BlobOK
<1>6. TodoOK(todo', pos', end', Typing(text)')
  BY <1>1, <1>3, <1>4, TaskDone DEF Refer
<1>7. Value.v \in DOMAIN Types /\ Types[Value.v] = Task.m.of /\ Task.m.of \in DOMAIN Members
  <2>1. Task.m \in MemberDescs /\ Fits(Value, Task.m, Typing(text))
    BY <1>1, NextTask
  <2>2. Value.v \in DOMAIN Typing(text).types /\ Typing(text).types[Value.v] = Task.m.of
    BY <1>1, <2>1, FitsTags
  <2>3. Task.m.of \in DOMAIN Members
    BY <2>1 DEF MemberDescs
  <2>. QED  BY <2>2, <2>3 DEF Types
<1>8. PICK R : R = [name : DOMAIN Types, type : DOMAIN Members, at : Nat]
  OBVIOUS
<1>9. PICK r : r = [name |-> Value.v, type |-> Task.m.of, at |-> Task.at]
  OBVIOUS
<1>10. r \in R /\ Place(r.at) /\ r.type = Types[r.name]
  BY <1>2, <1>7, <1>8, <1>9 DEF Place
<1>11. refs \in Seq(R) /\ \A i \in DOMAIN refs : Place(refs[i].at) /\ refs[i].type = Types[refs[i].name]
  BY <1>8 DEF PackInv, NotedOK
<1>12. PICK more \in Seq(R) : /\ more = Append(refs, r) /\ Len(more) = Len(refs) + 1
                              /\ \A i \in DOMAIN more : (i \in DOMAIN refs /\ more[i] = refs[i]) \/ more[i] = r
  <2>1. refs \in Seq(R)
    BY <1>11
  <2>2. Append(refs, r) \in Seq(R) /\ Len(Append(refs, r)) = Len(refs) + 1
    BY <1>10, <2>1
  <2>3. \A i \in DOMAIN Append(refs, r) : (i \in DOMAIN refs /\ Append(refs, r)[i] = refs[i]) \/ Append(refs, r)[i] = r
    BY <1>10, <2>1
  <2>. QED  BY <2>2, <2>3
<1>13. refs' = more
  BY <1>9, <1>12 DEF Refer, RefPlace
<1>14. NotedOK'
  <2>1. ptrs' \in Seq(HeaderCells..(end' - 1))
    BY <1>2, <1>3, OneRecorded DEF Refer, RefPlace
  <2>2. \A i \in DOMAIN more : Place(more[i].at) /\ more[i].type = Types[more[i].name]
    BY <1>10, <1>11, <1>12
  <2>3. Types' = Types /\ \A p : Place(p)' <=> Place(p)
    BY <1>3 DEF Refer, Types, Place
  <2>4. more \in Seq([name : DOMAIN Types, type : DOMAIN Members, at : Nat])
    BY <1>8
  <2>. QED  BY <1>3, <1>13, <2>1, <2>2, <2>3, <2>4 DEF NotedOK, Place
<1>15. ItemsOK'
  <2>1. Len(refs) \in Nat /\ Len(refs') = Len(refs) + 1
    BY <1>12, <1>13, RefsKept
  <2>2. Len(refs) <= Len(refs') /\ Len(refs') \in Nat
    BY <2>1
  <2>. QED  BY <1>3, <2>2, ItemsSame DEF Refer, sectionVars
<1>. QED  BY <1>5, <1>6, <1>14, <1>15 DEF PackInv

(* Tasks are put in the place of the next one.                             *)
LEMMA TasksJoined ==
  ASSUME PackInv, todo # <<>>, text' = text, NEW s, todo' = s \o Tail(todo), pos' \in Nat, end' \in Nat,
         end <= end', Jumps(Task), TodoOK(s, pos', end', Typing(text))
  PROVE  TodoOK(todo', pos', end', Typing(text)')
<1>1. PICK T, q : T = Typing(text) /\ q = todo
  OBVIOUS
<1>2. TodoOK(q, pos, end, T) /\ q # <<>> /\ pos \in Nat /\ end \in Nat
  BY <1>1 DEF PackInv, BlobOK
<1>3. PICK p2 \in Nat, e2 \in Nat : p2 = pos' /\ e2 = end'
  OBVIOUS
<1>4. Jumps(Head(q)) /\ TodoOK(s, p2, e2, T) /\ end <= e2
  BY <1>1, <1>3 DEF Task
<1>5. TodoOK(s \o Tail(q), p2, e2, T)
  BY <1>2, <1>3, <1>4, JoinOK
<1>. QED  BY <1>1, <1>3, <1>5

(* The numbers of a state.                                                 *)
LEMMA Numbers ==
  ASSUME PackInv
  PROVE  /\ HeaderCells \in Nat /\ end \in Nat /\ end <= LastCell + 1 /\ LastCell \in Nat
         /\ pos \in Nat /\ HeaderCells <= pos /\ pos <= end /\ HeaderCells <= end
BY TxtPackAssumption DEF PackInv, BlobOK

(* A struct is replaced by its members.                                    *)
LEMMA PackStructInv == PackInv /\ PackStruct => PackInv'
<1> SUFFICES ASSUME PackInv, PackStruct PROVE PackInv'
  OBVIOUS
<1>1. todo # <<>> /\ Value.t = "struct"
  BY DEF PackStruct, Packing
<1>2. PICK T : T = Typing(text)
  OBVIOUS
<1>3. Task.m \in MemberDescs /\ Fits(Value, Task.m, T) /\ text \in Texts
  BY <1>1, <1>2, NextTask DEF PackInv, BlobOK
<1>4. Task.m.atom = "pod" /\ Task.m.kind = "struct" /\ [type |-> Task.m.of, given |-> Value.v] \in T.structs
  BY <1>1, <1>3, FitsTags
<1>5. PICK s : s = [type |-> Task.m.of, given |-> Value.v]
  OBVIOUS
<1>6. s.type = Task.m.of /\ s.given = Value.v /\ s \in T.structs
  BY <1>4, <1>5
<1>7. Task.m.of \in DOMAIN Members /\ Typed(Value.v, Task.m.of, T)
  BY <1>2, <1>3, <1>6, TextTyped
<1>8. /\ Task.at \in Nat /\ HeaderCells <= Task.at /\ Pos = Task.at
      /\ Ends(Task) = Task.at + MemberSize(Task.m) /\ Ends(Task) <= end
  BY <1>1, <1>4, NextTask
<1>9. MemberSize(Task.m) = Size[Task.m.of]
  BY <1>4 DEF MemberSize, ElementSize
<1>10. PICK z \in Nat, a \in Nat, e \in Nat : z = Size[Task.m.of] /\ a = Task.at /\ e = end
  BY <1>7, <1>8, Numbers, TxtPackAssumption
<1>11. HeaderCells <= a /\ a + z <= e /\ a <= e
  BY <1>8, <1>9, <1>10
<1>12. TodoOK(StructTasks(Task.m.of, a, Value.v), a, e, T)
  BY <1>7, <1>10, <1>11, StructTodo
<1>13. pos' = a /\ end' = e /\ text' = text /\ todo' = StructTasks(Task.m.of, a, Value.v) \o Tail(todo)
  BY <1>8, <1>10 DEF PackStruct
<1>14. Jumps(Task)
  BY <1>4 DEF Jumps
<1>15. end' \in Nat /\ end <= end' /\ end' = end
  BY <1>10, <1>13
<1>16. TodoOK(todo', pos', end', Typing(text)')
  BY <1>1, <1>2, <1>10, <1>12, <1>13, <1>14, <1>15, TasksJoined
<1>17. BlobOK'
  BY <1>10, <1>11, <1>13, <1>15 DEF PackStruct, PackInv, BlobOK
<1>18. NotedOK'
  BY <1>15, PtrsMore, NotedSame DEF PackStruct
<1>19. ItemsOK'
  BY <1>15, RefsKept, ItemsSame DEF PackStruct, sectionVars
<1>. QED  BY <1>16, <1>17, <1>18, <1>19 DEF PackInv

(* The elements of an array are packed at the end of the blob.             *)
LEMMA PackArrayInv == PackInv /\ PackArray => PackInv'
<1> SUFFICES ASSUME PackInv, PackArray PROVE PackInv'
  OBVIOUS
<1>1. todo # <<>> /\ Value.t = "array" /\ Task.m.atom = "array"
  BY DEF PackArray, Packing
<1>2. PICK T : T = Typing(text)
  OBVIOUS
<1>3. Task.m \in MemberDescs /\ Fits(Value, Task.m, T) /\ text \in Texts
  BY <1>1, <1>2, NextTask DEF PackInv, BlobOK
<1>4. Value.v \in Seq(T.values) /\ \A i \in DOMAIN Value.v : Suits(Value.v[i], Task.m, T)
  BY <1>1, <1>3, FitsTags
<1>5. PICK n \in Nat : n = ArrayLength /\ n = Len(Value.v)
  BY <1>4 DEF ArrayLength
<1>6. PICK z \in Nat : z = ElementSize(Task.m)
  BY <1>3, MemberRoom
<1>7. PICK x \in Nat : x = n * z
  BY Blocks
<1>8. PICK e \in Nat : e = end
  BY Numbers
<1>9. /\ Pos \in Nat /\ HeaderCells <= Pos /\ Pos = Task.at
      /\ Ends(Task) = Task.at + MemberSize(Task.m) /\ Ends(Task) <= end
  BY <1>1, NextTask
<1>10. MemberSize(Task.m) = 1
  BY <1>1 DEF MemberSize
<1>11. Pos + 1 <= e /\ HeaderCells <= e /\ HeaderCells \in Nat /\ LastCell \in Nat
  BY <1>8, <1>9, <1>10, Numbers
<1>12. e + x <= LastCell + 1
  BY <1>5, <1>6, <1>7, <1>8 DEF PackArray, Room
<1>13. /\ TodoOK(ElementTasks(Task.m, e, Value.v), e, e + x, T)
       /\ Len(ElementTasks(Task.m, e, Value.v)) = n
  <2>1. e + Len(Value.v) * ElementSize(Task.m) <= e + x /\ e + x \in Nat
    BY <1>5, <1>6, <1>7
  <2>. QED  BY <1>3, <1>4, <1>5, <1>11, <2>1, ArrayTodo
<1>14. Jumps(Task)
  BY <1>1 DEF Jumps
<1>15. text' = text /\ todo' = ElementTasks(Task.m, e, Value.v) \o Tail(todo)
  BY <1>8 DEF PackArray
<1>16. /\ n = 0 => end' = e /\ pos' = Pos + 1 /\ ptrs' = ptrs
       /\ n # 0 => end' = e + x /\ pos' = e /\ Record(<<Pos>>)
  BY <1>5, <1>6, <1>7, <1>8 DEF PackArray, Reserve
<1>17. x = 0 \/ n # 0
  BY <1>7
<1>18. end' = e + x
  BY <1>8, <1>16, <1>17
<1>19. end' \in Nat /\ end <= end' /\ end' <= LastCell + 1
  BY <1>8, <1>12, <1>18
<1>20. pos' \in Nat /\ HeaderCells <= pos' /\ pos' <= end'
  BY <1>9, <1>11, <1>16, <1>18
<1>21. TodoOK(todo', pos', end', Typing(text)')
  <2>1. TodoOK(ElementTasks(Task.m, e, Value.v), pos', end', T)
    <3>1. CASE n = 0
      <4>1. ElementTasks(Task.m, e, Value.v) = <<>>
        <5>1. ElementTasks(Task.m, e, Value.v) \in Seq(GoodTasks(T)) /\ Len(ElementTasks(Task.m, e, Value.v)) = 0
          BY <1>13, <3>1 DEF TodoOK
        <5>. QED  BY <5>1
      <4>. QED  BY <1>13, <1>18, <4>1 DEF TodoOK
    <3>2. CASE n # 0
      BY <1>13, <1>16, <1>18, <3>2
    <3>. QED  BY <3>1, <3>2
  <2>. QED  BY <1>1, <1>2, <1>14, <1>15, <1>19, <1>20, <2>1, TasksJoined
<1>22. DOMAIN buf' = Positions
  <2>1. DOMAIN buf = Positions
    BY DEF PackInv, BlobOK
  <2>. QED  BY <2>1, Written DEF PackArray
<1>23. BlobOK'
  BY <1>15, <1>19, <1>20, <1>22 DEF PackArray, PackInv, BlobOK
<1>24. NotedOK'
  <2>1. ptrs' \in Seq(HeaderCells..(end' - 1))
    <3>1. CASE n = 0
      BY <1>16, <1>19, <3>1, PtrsMore
    <3>2. CASE n # 0
      <4>1. Pos < end'
        BY <1>9, <1>11, <1>18
      <4>. QED  BY <1>9, <1>16, <1>19, <3>2, <4>1, OneRecorded
    <3>. QED  BY <3>1, <3>2
  <2>. QED  BY <1>15, <1>19, <2>1, NotedSame DEF PackArray
<1>25. ItemsOK'
  BY <1>15, <1>19, RefsKept, ItemsSame DEF PackArray, sectionVars
<1>. QED  BY <1>21, <1>23, <1>24, <1>25 DEF PackInv

(* The elements of an inline array are packed where it is.                 *)
LEMMA PackInlineArrayInv == PackInv /\ PackInlineArray => PackInv'
<1> SUFFICES ASSUME PackInv, PackInlineArray PROVE PackInv'
  OBVIOUS
<1>1. todo # <<>> /\ Value.t = "array" /\ Task.m.atom = "inline"
  BY DEF PackInlineArray, Packing
<1>2. PICK T : T = Typing(text)
  OBVIOUS
<1>3. Task.m \in MemberDescs /\ Fits(Value, Task.m, T) /\ text \in Texts
  BY <1>1, <1>2, NextTask DEF PackInv, BlobOK
<1>4. /\ Value.v \in Seq(T.values) /\ \A i \in DOMAIN Value.v : Suits(Value.v[i], Task.m, T)
      /\ Len(Value.v) <= Task.m.count
  BY <1>1, <1>3, FitsTags DEF PackInlineArray, ArrayLength
<1>5. /\ Pos \in Nat /\ HeaderCells <= Pos /\ Pos = Task.at /\ MemberSize(Task.m) \in Nat
      /\ Ends(Task) = Task.at + MemberSize(Task.m) /\ Ends(Task) <= end
  BY <1>1, NextTask
<1>6. PICK a \in Nat, e \in Nat : a = Pos /\ e = end
  BY <1>5, Numbers
<1>7. HeaderCells <= a /\ a + MemberSize(Task.m) <= e /\ a <= e
  BY <1>5, <1>6
<1>8. TodoOK(ElementTasks(Task.m, a, Value.v) \o FillTasks(Task.m, a, Len(Value.v)), a, e, T)
  BY <1>1, <1>3, <1>4, <1>7, InlineTodo
<1>9. PICK s : s = ElementTasks(Task.m, a, Value.v) \o FillTasks(Task.m, a, Len(Value.v))
  OBVIOUS
<1>10. /\ text' = text /\ pos' = a /\ end' = e
       /\ todo' = s \o Tail(todo)
  BY <1>6, <1>9 DEF PackInlineArray, ArrayLength
<1>11. end' \in Nat /\ end <= end' /\ end' = end
  BY <1>6, <1>10
<1>12. Jumps(Task)
  BY <1>1 DEF Jumps
<1>13. TodoOK(todo', pos', end', Typing(text)')
  BY <1>1, <1>2, <1>6, <1>8, <1>9, <1>10, <1>11, <1>12, TasksJoined
<1>14. BlobOK'
  BY <1>6, <1>7, <1>10, <1>11 DEF PackInlineArray, PackInv, BlobOK
<1>15. NotedOK'
  BY <1>10, <1>11, PtrsMore, NotedSame DEF PackInlineArray
<1>16. ItemsOK'
  BY <1>10, <1>11, RefsKept, ItemsSame DEF PackInlineArray, sectionVars
<1>. QED  BY <1>13, <1>14, <1>15, <1>16 DEF PackInv

(* The cells of a default value, where they go, and what is recorded.      *)
DefaultPlace(n) ==
  [i \in DOMAIN DefaultCells(Task.m) |-> IF i <= n THEN Pos + i - 1 ELSE end + i - n - 1]
DefaultPtrs(n) ==
  FlattenSeq([i \in DOMAIN DefaultCells(Task.m) |->
               IF DefaultCells(Task.m)[i].tag = "off" THEN <<DefaultPlace(n)[i]>> ELSE <<>>])

(* What packing a default value does to the writer and to ptrs, apart from *)
(* the cells.                                                              *)
LEMMA DefaultPacked ==
  ASSUME PackDefault
  PROVE  LET n == MemberSize(Task.m)
             more == Len(DefaultCells(Task.m)) - n
         IN /\ Room(end + more)
            /\ \E cells : Write(cells)
            /\ Record(DefaultPtrs(n))
            /\ pos' = IF more > 0 THEN end + more ELSE Pos + n
            /\ end' = end + more
BY DEF PackDefault, DefaultEnd, DefaultPlace, DefaultPtrs

(* A default value is copied, what it refers to goes behind the blob.      *)
LEMMA PackDefaultInv == PackInv /\ PackDefault => PackInv'
<1> SUFFICES ASSUME PackInv, PackDefault PROVE PackInv'
  OBVIOUS
<1>1. todo # <<>> /\ Value.t = "default" /\ Task.m.default.t # "invalid"
  BY DEF PackDefault, Packing
<1>2. /\ Task.m \in MemberDescs /\ DefaultFits(Task.m)
      /\ Pos \in Nat /\ HeaderCells <= Pos /\ Pos = Task.at /\ MemberSize(Task.m) \in Nat
      /\ Ends(Task) = Task.at + MemberSize(Task.m) /\ Ends(Task) <= end
  BY <1>1, NextTask
<1>3. PICK cells : cells = DefaultCells(Task.m) /\ DefaultGood(cells, Task.m)
  BY <1>1, <1>2, DefaultCellsGood
<1>4. PICK n \in Nat, l \in Nat : n = MemberSize(Task.m) /\ l = Len(cells) /\ DOMAIN cells = 1..l /\ n <= l
  BY <1>2, <1>3 DEF DefaultGood
<1>5. PICK more \in Nat : more = l - n
  BY <1>4
<1>6. PICK e \in Nat, p \in Nat, h \in Nat : e = end /\ p = Pos /\ h = HeaderCells
  BY <1>2, Numbers
<1>7. h <= p /\ p + n <= e
  BY <1>2, <1>4, <1>6
<1>8. /\ e + more <= LastCell + 1 /\ Record(DefaultPtrs(n))
      /\ pos' = IF more > 0 THEN e + more ELSE p + n
      /\ end' = e + more
      /\ \E new : Write(new)
  <2>1. more = Len(DefaultCells(Task.m)) - n
    BY <1>3, <1>4, <1>5
  <2>. QED  BY <1>4, <1>6, <2>1, DefaultPacked DEF Room
<1>9. end' \in Nat /\ end <= end' /\ end' <= LastCell + 1 /\ pos' \in Nat /\ HeaderCells <= pos' /\ pos' <= end'
  BY <1>6, <1>7, <1>8, Numbers
<1>10. Jumps(Task)
  BY <1>1 DEF Jumps, Value
<1>11. TodoOK(todo', pos', end', Typing(text)')
  BY <1>1, <1>9, <1>10, TaskDone DEF PackDefault
<1>12. DOMAIN buf' = Positions
  BY <1>8, Written DEF PackInv, BlobOK
<1>13. BlobOK'
  BY <1>9, <1>12 DEF PackDefault, PackInv, BlobOK
<1>14. PICK S : S = h..(e + more - 1)
  OBVIOUS
<1>15. ASSUME NEW i \in 1..l
       PROVE  DefaultPlace(n)[i] \in S
  <2>1. DefaultPlace(n)[i] = IF i <= n THEN p + i - 1 ELSE e + i - n - 1
    BY <1>3, <1>4, <1>6 DEF DefaultPlace
  <2>2. CASE i <= n
    BY <1>5, <1>7, <1>14, <2>1, <2>2
  <2>3. CASE ~(i <= n)
    BY <1>5, <1>7, <1>14, <2>1, <2>3
  <2>. QED  BY <2>2, <2>3
<1>16. PICK q : q = [i \in 1..l |-> IF cells[i].tag = "off" THEN <<DefaultPlace(n)[i]>> ELSE <<>>]
  OBVIOUS
<1>17. DefaultPtrs(n) = FlattenSeq(q)
  BY <1>3, <1>4, <1>16 DEF DefaultPtrs
<1>18. q \in Seq(Seq(S))
  <2>1. ASSUME NEW i \in 1..l
        PROVE  q[i] \in Seq(S)
    <3>1. PICK x \in S : x = DefaultPlace(n)[i]
      BY <1>15
    <3>2. <<x>> \in Seq(S) /\ <<>> \in Seq(S)
      OBVIOUS
    <3>. QED  BY <1>16, <3>1, <3>2
  <2>2. q = [i \in 1..l |-> q[i]]
    BY <1>16
  <2>3. q \in [1..l -> Seq(S)]
    BY <2>1, <2>2
  <2>. QED  BY <2>3, FunctionIsSequence
<1>19. DefaultPtrs(n) \in Seq(HeaderCells..(end' - 1))
  <2>1. FlattenSeq(q) \in Seq(S)
    BY <1>18, Flattened
  <2>. QED  BY <1>6, <1>8, <1>14, <1>17, <2>1
<1>20. ptrs' \in Seq(HeaderCells..(end' - 1))
  BY <1>8, <1>9, <1>19, Recorded
<1>21. NotedOK'
  BY <1>9, <1>20, NotedSame DEF PackDefault
<1>22. ItemsOK'
  BY <1>9, RefsKept, ItemsSame DEF PackDefault, sectionVars
<1>. QED  BY <1>11, <1>13, <1>21, <1>22 DEF PackInv

(* Nothing but the phase changes.                                          *)
LEMMA PhaseInv ==
  ASSUME PackInv, phase' \in Phases,
         UNCHANGED <<text, dummy, writerVars, todo, refs, ptrs, sectionVars, needed>>
  PROVE  PackInv'
<1>1. /\ text' = text /\ dummy' = dummy /\ buf' = buf /\ pos' = pos /\ end' = end /\ todo' = todo
      /\ refs' = refs /\ ptrs' = ptrs /\ item' = item /\ items' = items /\ resolved' = resolved /\ needed' = needed
  BY DEF writerVars, sectionVars
<1>2. end' \in Nat /\ end <= end'
  BY <1>1, Numbers
<1>3. BlobOK'
  BY <1>1 DEF PackInv, BlobOK
<1>4. TodoOK(todo', pos', end', Typing(text)')
  BY <1>1 DEF PackInv
<1>5. NotedOK'
  BY <1>1, <1>2, PtrsMore, NotedSame
<1>6. ItemsOK'
  BY <1>1, <1>2, RefsKept, ItemsSame
<1>. QED  BY <1>3, <1>4, <1>5, <1>6 DEF PackInv

(* The next item: its struct goes to the end of the blob.                  *)
LEMMA PackItemInv == PackInv /\ PackItem => PackInv'
<1> SUFFICES ASSUME PackInv, PackItem PROVE PackInv'
  OBVIOUS
<1>1. PICK T : T = Typing(text)
  OBVIOUS
<1>2. PICK i \in RefsTo(Entry.name) : /\ Room(end + Size[refs[i].type])
                                      /\ todo' = StructTasks(refs[i].type, end, Entry.value)
                                      /\ Reserve(Size[refs[i].type])
  BY DEF PackItem
<1>3. PICK type : type = refs[i].type
  OBVIOUS
<1>4. type \in DOMAIN Members /\ type = Types[Entry.name] /\ Entry.name \in DOMAIN Types
  <2>1. PICK R : R = [name : DOMAIN Types, type : DOMAIN Members, at : Nat]
    OBVIOUS
  <2>2. refs \in Seq(R) /\ i \in DOMAIN refs /\ refs[i].name = Entry.name
    BY <2>1 DEF PackInv, NotedOK, RefsTo, SameName
  <2>3. refs[i] \in R
    BY <2>2
  <2>4. refs[i].type = Types[refs[i].name]
    BY <2>2 DEF PackInv, NotedOK
  <2>. QED  BY <1>3, <2>1, <2>2, <2>3, <2>4
<1>5. /\ text \in Texts /\ item \in Nat /\ item + 1 \in 1..Len(text.section) /\ Entry = text.section[item + 1]
      /\ todo = <<>>
  <2>1. text \in Texts /\ item \in Nat /\ item < Len(text.section) /\ todo = <<>>
    BY DEF PackInv, BlobOK, ItemsOK, PackItem, MoreItems, Finalizing
  <2>2. Len(text.section) \in Nat
    BY <2>1, TextTyped
  <2>. QED  BY <2>1, <2>2 DEF Entry
<1>6. PICK r : r = [type |-> Types[Entry.name], given |-> Entry.value]
  OBVIOUS
<1>7. r \in T.structs
  BY <1>1, <1>4, <1>5, <1>6, TextTyped
<1>8. Typed(Entry.value, type, T)
  <2>1. r.type = type /\ r.given = Entry.value
    BY <1>4, <1>6
  <2>. QED  BY <1>1, <1>5, <1>7, <2>1, TextTyped
<1>9. PICK z \in Nat \ {0}, e \in Nat, h \in Nat : z = Size[type] /\ e = end /\ h = HeaderCells
  BY <1>4, Numbers, TxtPackAssumption
<1>10. h <= e /\ e + z <= LastCell + 1 /\ end' = e + z
  BY <1>2, <1>3, <1>9, Numbers DEF Room, Reserve
<1>11. pos' = e /\ text' = text /\ todo' = StructTasks(type, e, Entry.value)
  BY <1>2, <1>3, <1>9 DEF PackItem
<1>12. end' \in Nat /\ end <= end' /\ end' <= LastCell + 1 /\ pos' \in Nat /\ HeaderCells <= pos' /\ pos' <= end'
  BY <1>9, <1>10, <1>11
<1>13. TodoOK(todo', pos', end', Typing(text)')
  <2>1. e + z \in Nat /\ HeaderCells <= e /\ e + Size[type] <= e + z
    BY <1>9, <1>10
  <2>2. TodoOK(StructTasks(type, e, Entry.value), e, e + z, T)
    BY <1>4, <1>8, <2>1, StructTodo
  <2>. QED  BY <1>1, <1>10, <1>11, <2>2
<1>14. BlobOK'
  BY <1>11, <1>12 DEF PackItem, PackInv, BlobOK
<1>15. NotedOK'
  <2>1. refs' = refs /\ ptrs' = ptrs
    BY DEF PackItem
  <2>. QED  BY <1>11, <1>12, <2>1, PtrsMore, NotedSame
<1>16. ItemsOK'
  <2>1. PICK N : N = [name : Names, pos : Nat]
    OBVIOUS
  <2>2. PICK x : x = [name |-> Entry.name, pos |-> e]
    OBVIOUS
  <2>3. Entry.name \in Names
    BY <1>5 DEF Names
  <2>4. x \in N /\ x.pos = e
    BY <2>1, <2>2, <2>3
  <2>5. items \in Seq(N) /\ Len(items) = item + 1 /\ \A k \in DOMAIN items : Place(items[k].pos)
    BY <2>1 DEF PackInv, ItemsOK
  <2>6. items' = Append(items, x) /\ item' = item + 1
    BY <1>9, <2>2 DEF PackItem, NextItem
  <2>7. /\ Append(items, x) \in Seq(N) /\ Len(Append(items, x)) = item + 1 + 1
        /\ \A k \in DOMAIN Append(items, x) : (k \in DOMAIN items /\ Append(items, x)[k] = items[k]) \/ Append(items, x)[k] = x
    <3>1. items \in Seq(N)
      BY <2>5
    <3>. QED  BY <2>4, <2>5, <3>1
  <2>8. ASSUME NEW k \in DOMAIN items'
        PROVE  items'[k].pos \in Nat /\ HeaderCells <= items'[k].pos /\ items'[k].pos < end'
    <3>1. CASE items'[k] = x
      BY <1>9, <1>10, <2>4, <3>1 DEF Place
    <3>2. CASE k \in DOMAIN items /\ items'[k] = items[k]
      <4>1. Place(items[k].pos)
        BY <2>5, <3>2
      <4>2. items[k].pos < end' /\ items[k].pos \in Nat /\ HeaderCells <= items[k].pos
        BY <1>9, <1>10, <4>1 DEF Place
      <4>. QED  BY <3>2, <4>2 DEF Place
    <3>. QED  BY <2>6, <2>7, <3>1, <3>2
  <2>9. Names' = Names
    BY <1>11 DEF Names
  <2>10. item' \in Nat /\ item' <= Len(text.section)
    BY <1>5, <2>6
  <2>11. resolved' = resolved /\ refs' = refs /\ resolved \in Nat /\ resolved <= Len(refs)
    BY DEF PackItem, PackInv, ItemsOK
  <2>12. items' \in Seq([name : Names, pos : Nat]) /\ Len(items') = item' + 1
    BY <2>1, <2>6, <2>7
  <2>. QED  BY <1>11, <2>8, <2>9, <2>10, <2>11, <2>12 DEF ItemsOK, Place
<1>. QED  BY <1>13, <1>14, <1>15, <1>16 DEF PackInv

(* A reference is resolved at its place.                                   *)
LEMMA ResolveInv == PackInv /\ Resolve => PackInv'
<1> SUFFICES ASSUME PackInv, Resolve PROVE PackInv'
  OBVIOUS
<1>1. /\ todo = <<>> /\ resolved < Len(refs) /\ resolved \in Nat /\ resolved + 1 \in DOMAIN refs
      /\ UNCHANGED <<text, dummy, end, todo, refs, ptrs, item, items, needed>> /\ phase \in Phases
  <2>1. resolved \in Nat /\ Len(refs) \in Nat /\ resolved < Len(refs) /\ DOMAIN refs = 1..Len(refs)
    BY DEF PackInv, NotedOK, ItemsOK, Resolve
  <2>. QED  BY <2>1 DEF Resolve, Finalizing, PackInv, BlobOK
<1>2. CASE UNCHANGED <<buf, pos, resolved>> /\ phase' = "refused"
  BY <1>1, <1>2, PhaseInv DEF writerVars, sectionVars, Phases
<1>3. CASE \E cells : /\ Write(cells) /\ pos' = refs[resolved + 1].at + 1 /\ resolved' = resolved + 1
                      /\ UNCHANGED phase
  <2>1. PICK a \in Nat : a = refs[resolved + 1].at /\ Place(a)
    <3>1. Place(refs[resolved + 1].at)
      BY <1>1 DEF PackInv, NotedOK
    <3>. QED  BY <3>1 DEF Place
  <2>2. a < end /\ HeaderCells <= a /\ pos' = a + 1
    BY <1>3, <2>1 DEF Place
  <2>3. end' = end /\ end' \in Nat /\ end <= end' /\ text' = text
    BY <1>1, Numbers
  <2>4. pos' \in Nat /\ HeaderCells <= pos' /\ pos' <= end'
    BY <2>2, <2>3, Numbers
  <2>5. DOMAIN buf' = Positions
    BY <1>3, Written DEF PackInv, BlobOK
  <2>6. BlobOK'
    BY <1>1, <1>3, <2>3, <2>4, <2>5 DEF PackInv, BlobOK
  <2>7. TodoOK(todo', pos', end', Typing(text)')
    BY <1>1, <2>3 DEF PackInv, TodoOK
  <2>8. NotedOK'
    BY <1>1, <2>3, PtrsMore, NotedSame
  <2>9. ItemsOK'
    <3>1. resolved' \in Nat /\ resolved' <= Len(refs')
      <4>1. Len(refs) \in Nat
        BY DEF PackInv, NotedOK
      <4>. QED  BY <1>1, <1>3, <4>1
    <3>2. Names' = Names /\ \A p : Place(p)' <=> Place(p)
      BY <2>3 DEF Names, Place
    <3>. QED  BY <1>1, <2>3, <3>1, <3>2 DEF PackInv, ItemsOK, Place
  <2>. QED  BY <2>6, <2>7, <2>8, <2>9 DEF PackInv
<1>. QED  BY <1>2, <1>3 DEF Resolve

(* The second pass begins like the first.                                  *)
LEMMA BeginInv ==
  ASSUME text \in Texts, text' = text, phase' \in Phases, dummy' \in BOOLEAN, needed' \in Nat,
         DOMAIN buf' = Positions, Begin
  PROVE  PackInv'
<1>1. PICK h \in Nat, z \in Nat \ {0}, e \in Nat :
         h = HeaderCells /\ z = Size[Root] /\ e = h + z /\ e <= LastCell + 1
  BY BeginOK
<1>2. pos' = h /\ end' = e /\ refs' = <<>> /\ ptrs' = <<>> /\ item' = 0 /\ resolved' = 0
  BY <1>1 DEF Begin
<1>3. BlobOK'
  BY <1>1, <1>2 DEF BlobOK
<1>4. TodoOK(todo', pos', end', Typing(text)')
  <2>1. TodoOK(StructTasks(Root, HeaderCells, text.root), h, e, Typing(text))
    BY <1>1, BeginOK
  <2>2. todo' = StructTasks(Root, HeaderCells, text.root)
    BY DEF Begin
  <2>. QED  BY <1>2, <2>1, <2>2
<1>5. NotedOK'
  BY <1>2 DEF NotedOK
<1>6. ItemsOK'
  <2>1. PICK x \in [name : Names, pos : Nat] : x = [name |-> "__root", pos |-> h]
    BY DEF Names
  <2>2. items' = <<x>> /\ <<x>> \in Seq([name : Names, pos : Nat]) /\ Len(<<x>>) = 1 /\ DOMAIN <<x>> = {1}
    BY <1>1, <2>1 DEF Begin
  <2>3. Place(h)'
    BY <1>1, <1>2 DEF Place
  <2>4. Names' = Names /\ Len(text.section) \in Nat
    BY TextTyped DEF Names
  <2>5. 0 <= Len(text.section)
    BY <2>4
  <2>. QED  BY <1>2, <2>1, <2>2, <2>3, <2>4, <2>5 DEF ItemsOK
<1>. QED  BY <1>3, <1>4, <1>5, <1>6 DEF PackInv

(* Every step keeps the inductive invariant.                               *)
LEMMA NextInv == PackInv /\ [Next]_vars => PackInv'
<1> SUFFICES ASSUME PackInv, [Next]_vars PROVE PackInv'
  OBVIOUS
<1>1. CASE PackStep
  <2>1. CASE Refuse \/ RefuseNoSection \/ UnusedItem \/ PackDone
    <3>1. phase' \in Phases
      BY <2>1 DEF Refuse, RefuseNoSection, UnusedItem, PackDone, Phases
    <3>2. UNCHANGED <<text, dummy, writerVars, todo, refs, ptrs, sectionVars, needed>>
      BY <2>1 DEF Refuse, RefuseNoSection, UnusedItem, PackDone
    <3>. QED  BY <3>1, <3>2, PhaseInv
  <2>. QED  BY <1>1, <2>1, PackWordInv, PackStringInv, ReferInv, PackStructInv, PackArrayInv,
               PackInlineArrayInv, PackDefaultInv, PackItemInv, ResolveInv DEF PackStep
<1>2. CASE PackWithNeededSize
  <2>1. /\ text \in Texts /\ text' = text /\ phase' \in Phases /\ dummy' \in BOOLEAN /\ needed' \in Nat
        /\ DOMAIN buf' = Positions /\ Begin
    BY <1>2 DEF PackWithNeededSize, PackInv, BlobOK, Phases
  <2>. QED  BY <2>1, BeginInv
<1>3. CASE UNCHANGED vars
  <2>1. phase' = phase /\ UNCHANGED <<text, dummy, writerVars, todo, refs, ptrs, sectionVars, needed>>
    BY <1>3 DEF vars
  <2>. QED  BY <2>1, PhaseInv DEF PackInv, BlobOK
<1>. QED  BY <1>1, <1>2, <1>3 DEF Next

(* In every state the tasks are places in the blob, and what is noted.     *)
LEMMA PackInvHolds == Spec => []PackInv
<1>. QED  BY InitInv, NextInv, PTL DEF Spec

(* Whatever text is packed, with whatever types: the writer is never       *)
(* behind the end of the blob, the references, the offsets and the items   *)
(* that are remembered are places in the blob, and no more are resolved    *)
(* than there are.                                                         *)
THEOREM PackerTypeOK == Spec => []TypeOK
<1>. QED  BY PackInvHolds, InvTypeOK, PTL

-----------------------------------------------------------------------------
(***************************************************************************)
(* The run of a text: the steps of a pass.  What a step does depends       *)
(* neither on the buffer nor on whether only the size is calculated, so    *)
(* two passes over a text run alike.                                       *)
(***************************************************************************)

(* What a pass has to do and remembers.                                    *)
Configs(t) ==
  [phase : Phases, pos : Nat, end : Nat, todo : Seq(GoodTasks(Typing(t))),
   refs : Seq([name : DOMAIN Typing(t).types, type : DOMAIN Members, at : Nat]), item : Nat,
   items : Seq([name : {"__root"} \union {t.section[k].name : k \in 1..Len(t.section)}, pos : Nat]),
   resolved : Nat]
Config ==
  [phase |-> phase, pos |-> pos, end |-> end, todo |-> todo, refs |-> refs, item |-> item,
   items |-> items, resolved |-> resolved]

NewConfig(t) ==
  [phase |-> "pack", pos |-> HeaderCells, end |-> HeaderCells + Size[Root],
   todo |-> StructTasks(Root, HeaderCells, t.root), refs |-> <<>>, item |-> 0,
   items |-> <<[name |-> "__root", pos |-> HeaderCells]>>, resolved |-> 0]

(* The step of a pass over the text t, case by case.                       *)
In(c, ph) == [c EXCEPT !.phase = ph]
Goes(c, p, e, tasks) ==
  [phase |-> c.phase, pos |-> p, end |-> e, todo |-> tasks, refs |-> c.refs, item |-> c.item,
   items |-> c.items, resolved |-> c.resolved]

ArrayStep(c, task, p, rest) ==
  LET n == Len(task.value.v)
      more == n * ElementSize(task.m)
  IN IF task.m.atom = "array"
     THEN Goes(c, IF n = 0 THEN p + 1 ELSE c.end, IF n = 0 THEN c.end ELSE c.end + more,
               ElementTasks(task.m, c.end, task.value.v) \o rest)
     ELSE IF n <= task.m.count
     THEN Goes(c, p, c.end, ElementTasks(task.m, p, task.value.v) \o FillTasks(task.m, p, n) \o rest)
     ELSE In(c, "refused")

DefaultStep(c, task, p, rest) ==
  LET n == MemberSize(task.m)
      more == Len(DefaultCells(task.m)) - n
  IN IF task.m.default.t = "invalid" THEN In(c, "refused")
     ELSE Goes(c, IF more > 0 THEN c.end + more ELSE p + n, c.end + more, rest)

TaskStep(c) ==
  LET task == Head(c.todo)
      rest == Tail(c.todo)
      p == IF task.seek THEN task.at ELSE c.pos
      tag == task.value.t
  IN IF tag \in {"data", "null"} THEN Goes(c, p + 1, Max({c.end, p + 1}), rest)
     ELSE IF tag = "str" THEN Goes(c, p + 1, c.end + 1, rest)
     ELSE IF tag = "ref"
     THEN [Goes(c, p, c.end, rest) EXCEPT
             !.refs = Append(c.refs, [name |-> task.value.v, type |-> task.m.of, at |-> task.at])]
     ELSE IF tag = "struct" THEN Goes(c, p, c.end, StructTasks(task.m.of, p, task.value.v) \o rest)
     ELSE IF tag = "array" THEN ArrayStep(c, task, p, rest)
     ELSE IF tag = "default" THEN DefaultStep(c, task, p, rest)
     ELSE In(c, "refused")

ItemStep(t, c) ==
  LET entry == t.section[c.item + 1]
      type == Typing(t).types[entry.name]
  IN IF \E i \in DOMAIN c.refs : c.refs[i].name = entry.name
     THEN [phase |-> c.phase, pos |-> c.end, end |-> c.end + Size[type],
           todo |-> StructTasks(type, c.end, entry.value), refs |-> c.refs, item |-> c.item + 1,
           items |-> Append(c.items, [name |-> entry.name, pos |-> c.end]), resolved |-> c.resolved]
     ELSE In(c, IF \E i \in DOMAIN c.refs : Hash[c.refs[i].name] > Hash[entry.name]
                THEN "refused" ELSE "undefined")

ResolveStep(c) ==
  LET ref == c.refs[c.resolved + 1]
  IN IF \E i \in DOMAIN c.items : c.items[i].name = ref.name
     THEN [c EXCEPT !.pos = ref.at + 1, !.resolved = c.resolved + 1]
     ELSE In(c, "refused")

StepOf(t, c) ==
  IF c.phase # "pack" THEN c
  ELSE IF c.todo # <<>> THEN TaskStep(c)
  ELSE IF c.refs = <<>> THEN In(c, "packed")
  ELSE IF ~t.given THEN In(c, "refused")
  ELSE IF c.item < Len(t.section) THEN ItemStep(t, c)
  ELSE IF c.resolved < Len(c.refs) THEN ResolveStep(c)
  ELSE In(c, "packed")

StepsOf(t) == [c \in Configs(t) |-> IF StepOf(t, c) \in Configs(t) THEN StepOf(t, c) ELSE c]
Run(t) == CHOOSE g \in [Nat -> Configs(t)] : IsIteration(g, NewConfig(t), StepsOf(t))

(* The fields of a config are those of the state.                          *)
LEMMA ConfigFields ==
  /\ Config.phase = phase /\ Config.pos = pos /\ Config.end = end /\ Config.todo = todo
  /\ Config.refs = refs /\ Config.item = item /\ Config.items = items /\ Config.resolved = resolved
BY DEF Config

(* The configuration of a state is one that StepOf is about.               *)
LEMMA ConfigTyped == PackInv => Config \in Configs(text)
<1> SUFFICES ASSUME PackInv PROVE Config \in Configs(text)
  OBVIOUS
<1>1. phase \in Phases /\ pos \in Nat /\ end \in Nat /\ item \in Nat /\ resolved \in Nat
  BY DEF PackInv, BlobOK, ItemsOK
<1>2. todo \in Seq(GoodTasks(Typing(text)))
  BY DEF PackInv, TodoOK
<1>3. refs \in Seq([name : DOMAIN Typing(text).types, type : DOMAIN Members, at : Nat])
  BY DEF PackInv, NotedOK, Types
<1>4. items \in Seq([name : {"__root"} \union {text.section[k].name : k \in 1..Len(text.section)}, pos : Nat])
  BY DEF PackInv, ItemsOK, Names
<1>. QED  BY <1>1, <1>2, <1>3, <1>4, Zenon DEF Config, Configs

(* Where a pass begins.                                                    *)
LEMMA NewConfigTyped ==
  ASSUME text \in Texts
  PROVE  NewConfig(text) \in Configs(text)
<1>1. PICK h \in Nat, e \in Nat : h = HeaderCells /\ e = HeaderCells + Size[Root]
  BY BeginOK
<1>2. StructTasks(Root, HeaderCells, text.root) \in Seq(GoodTasks(Typing(text)))
  BY BeginOK DEF TodoOK
<1>3. PICK N : N = [name : {"__root"} \union {text.section[k].name : k \in 1..Len(text.section)}, pos : Nat]
  OBVIOUS
<1>4. PICK x \in N : x = [name |-> "__root", pos |-> HeaderCells]
  BY <1>1, <1>3
<1>5. <<x>> \in Seq(N)
  OBVIOUS
<1>6. <<[name |-> "__root", pos |-> HeaderCells]>>
        \in Seq([name : {"__root"} \union {text.section[k].name : k \in 1..Len(text.section)}, pos : Nat])
  BY <1>3, <1>4, <1>5
<1>7. /\ HeaderCells \in Nat /\ HeaderCells + Size[Root] \in Nat /\ "pack" \in Phases /\ 0 \in Nat
      /\ <<>> \in Seq([name : DOMAIN Typing(text).types, type : DOMAIN Members, at : Nat])
  BY <1>1 DEF Phases
<1>. QED  BY <1>2, <1>6, <1>7, Zenon DEF NewConfig, Configs

(* The run of a text is an iteration of its steps.                         *)
LEMMA RunIsIteration ==
  ASSUME text \in Texts
  PROVE  /\ Run(text) \in [Nat -> Configs(text)]
         /\ Run(text)[0] = NewConfig(text)
         /\ \A n \in Nat : Run(text)[n + 1] = StepsOf(text)[Run(text)[n]]
<1>1. PICK S, b : S = Configs(text) /\ b = NewConfig(text)
  OBVIOUS
<1>2. b \in S
  BY <1>1, NewConfigTyped
<1>3. PICK F : F = StepsOf(text)
  OBVIOUS
<1>4. F \in [S -> S]
  BY <1>1, <1>3 DEF StepsOf
<1>5. \E g \in [Nat -> S] : IsIteration(g, b, F)
  BY <1>2, <1>4, IterationExists
<1>6. Run(text) = CHOOSE g \in [Nat -> S] : IsIteration(g, b, F)
  BY <1>1, <1>3 DEF Run
<1>7. Run(text) \in [Nat -> S] /\ IsIteration(Run(text), b, F)
  BY <1>5, <1>6, Zenon
<1>8. PICK g \in [Nat -> S] : g = Run(text) /\ IsIteration(g, b, F)
  BY <1>7
<1>9. g = [n \in Nat |-> IF n = 0 THEN b ELSE F[g[n - 1]]]
  BY <1>8 DEF IsIteration
<1>10. g[0] = b /\ \A n \in Nat : g[n + 1] = F[g[n]]
  BY <1>9
<1>. QED  BY <1>1, <1>3, <1>8, <1>10

(* When a text is packed or refused nothing follows, so a run ends in one  *)
(* config.                                                                 *)
LEMMA OneEnd ==
  ASSUME text \in Texts, NEW i \in Nat, NEW j \in Nat, Run(text)[i].phase # "pack", Run(text)[j].phase # "pack"
  PROVE  Run(text)[i] = Run(text)[j]
<1>1. ASSUME NEW k \in Nat, Run(text)[k].phase # "pack"
      PROVE  \A l \in Nat : Run(text)[k + l] = Run(text)[k]
  <2> DEFINE T == {l \in Nat : Run(text)[k + l] = Run(text)[k]}
  <2>1. 0 \in T
    OBVIOUS
  <2>2. ASSUME NEW l \in Nat, l \in T
        PROVE  l + 1 \in T
    <3>1. k + l \in Nat /\ k + (l + 1) = (k + l) + 1
      OBVIOUS
    <3>2. Run(text)[(k + l) + 1] = StepsOf(text)[Run(text)[k + l]] /\ Run(text)[k] \in Configs(text)
      BY <3>1, RunIsIteration
    <3>3. StepOf(text, Run(text)[k]) = Run(text)[k]
      BY <1>1 DEF StepOf
    <3>4. StepsOf(text)[Run(text)[k]] = Run(text)[k]
      BY <3>2, <3>3 DEF StepsOf
    <3>. QED  BY <2>2, <3>1, <3>2, <3>4
  <2>3. \A l \in Nat : l \in T => l + 1 \in T
    BY <2>2
  <2> HIDE DEF T
  <2>4. Nat \subseteq T
    BY <2>1, <2>3, SetInduction
  <2>. QED  BY <2>4 DEF T
<1>2. CASE i <= j
  <2>1. j - i \in Nat /\ i + (j - i) = j
    BY <1>2
  <2>. QED  BY <1>1, <2>1
<1>3. CASE j <= i
  <2>1. i - j \in Nat /\ j + (i - j) = i
    BY <1>3
  <2>. QED  BY <1>1, <2>1
<1>. QED  BY <1>2, <1>3

-----------------------------------------------------------------------------
(* Every step of the packer is the step of the run.                        *)

(* What the run finds to be packed next.                                   *)
LEMMA RunTask ==
  ASSUME phase = "pack", todo # <<>>
  PROVE  /\ StepOf(text, Config) = TaskStep(Config)
         /\ Head(Config.todo) = Task /\ Tail(Config.todo) = Tail(todo) /\ Head(Config.todo).value = Value
         /\ (IF Head(Config.todo).seek THEN Head(Config.todo).at ELSE Config.pos) = Pos
BY ConfigFields DEF StepOf, Task, Value, Pos

(* A step that changes only the writer, the tasks and the references moves *)
(* the configuration alike.                                                *)
LEMMA GoesTo ==
  ASSUME NEW p, NEW e, NEW tasks, phase' = phase, UNCHANGED <<item, items, resolved>>,
         pos' = p, end' = e, todo' = tasks
  PROVE  /\ refs' = refs => Config' = Goes(Config, p, e, tasks)
         /\ Config' = [Goes(Config, p, e, tasks) EXCEPT !.refs = refs']
<1>1. item' = item /\ items' = items /\ resolved' = resolved
  OBVIOUS
<1>2. Goes(Config, p, e, tasks) =
        [phase |-> phase, pos |-> p, end |-> e, todo |-> tasks, refs |-> refs, item |-> item,
         items |-> items, resolved |-> resolved]
  BY ConfigFields DEF Goes
<1>3. [Goes(Config, p, e, tasks) EXCEPT !.refs = refs'] =
        [phase |-> phase, pos |-> p, end |-> e, todo |-> tasks, refs |-> refs', item |-> item,
         items |-> items, resolved |-> resolved]
  BY <1>2
<1>. QED  BY <1>1, <1>2, <1>3 DEF Config

(* A step that only ends the packing changes only the configuration's      *)
(* phase.                                                                  *)
LEMMA PhaseGoes ==
  ASSUME UNCHANGED <<writerVars, todo, refs, sectionVars>>
  PROVE  Config' = In(Config, phase')
BY DEF Config, In, writerVars, sectionVars

(* A word is packed as StepOf does it, whatever buffer and dummy are; so   *)
(* is                                                                      *)
LEMMA WordStep == PackWord => StepOf(text, Config) = Config'
<1> SUFFICES ASSUME PackWord PROVE StepOf(text, Config) = Config'
  OBVIOUS
<1>1. phase = "pack" /\ todo # <<>> /\ Value.t \in {"data", "null"}
  BY DEF PackWord, Packing
<1>2. StepOf(text, Config) = Goes(Config, Pos + 1, Max({end, Pos + 1}), Tail(todo))
  BY <1>1, RunTask, ConfigFields DEF TaskStep
<1>. QED  BY <1>2, GoesTo DEF PackWord, sectionVars

(* a string,                                                               *)
LEMMA StringStep == PackString => StepOf(text, Config) = Config'
<1> SUFFICES ASSUME PackString PROVE StepOf(text, Config) = Config'
  OBVIOUS
<1>1. phase = "pack" /\ todo # <<>> /\ Value.t = "str"
  BY DEF PackString, Packing
<1>2. StepOf(text, Config) = Goes(Config, Pos + 1, end + 1, Tail(todo))
  BY <1>1, RunTask, ConfigFields DEF TaskStep
<1>. QED  BY <1>2, GoesTo DEF PackString, sectionVars

(* a reference,                                                            *)
LEMMA ReferStep == Refer => StepOf(text, Config) = Config'
<1> SUFFICES ASSUME Refer PROVE StepOf(text, Config) = Config'
  OBVIOUS
<1>1. phase = "pack" /\ todo # <<>> /\ Value.t = "ref"
  BY DEF Refer, Packing
<1>2. refs' = Append(refs, [name |-> Value.v, type |-> Task.m.of, at |-> Task.at])
  BY DEF Refer, RefPlace
<1>3. StepOf(text, Config) = [Goes(Config, Pos, end, Tail(todo)) EXCEPT !.refs = refs']
  BY <1>1, <1>2, RunTask, ConfigFields DEF TaskStep
<1>. QED  BY <1>3, GoesTo DEF Refer, sectionVars

(* a struct,                                                               *)
LEMMA StructStep == PackStruct => StepOf(text, Config) = Config'
<1> SUFFICES ASSUME PackStruct PROVE StepOf(text, Config) = Config'
  OBVIOUS
<1>1. phase = "pack" /\ todo # <<>> /\ Value.t = "struct"
  BY DEF PackStruct, Packing
<1>2. StepOf(text, Config) = Goes(Config, Pos, end, StructTasks(Task.m.of, Pos, Value.v) \o Tail(todo))
  BY <1>1, RunTask, ConfigFields DEF TaskStep
<1>. QED  BY <1>2, GoesTo DEF PackStruct, sectionVars

(* an array,                                                               *)
LEMMA ArrayStepTaken == PackArray => StepOf(text, Config) = Config'
<1> SUFFICES ASSUME PackArray PROVE StepOf(text, Config) = Config'
  OBVIOUS
<1>1. phase = "pack" /\ todo # <<>> /\ Value.t = "array" /\ Task.m.atom = "array"
  BY DEF PackArray, Packing
<1>2. StepOf(text, Config) = ArrayStep(Config, Task, Pos, Tail(todo))
  BY <1>1, RunTask DEF TaskStep
<1>3. PICK tasks : tasks = ElementTasks(Task.m, end, Value.v) \o Tail(todo)
  OBVIOUS
<1>4. ArrayStep(Config, Task, Pos, Tail(todo)) =
        Goes(Config, IF ArrayLength = 0 THEN Pos + 1 ELSE end,
             IF ArrayLength = 0 THEN end ELSE end + ArrayLength * ElementSize(Task.m), tasks)
  BY <1>1, <1>3, ConfigFields DEF ArrayStep, ArrayLength, Value
<1>5. /\ phase' = phase /\ UNCHANGED <<item, items, resolved>> /\ refs' = refs /\ todo' = tasks
      /\ pos' = IF ArrayLength = 0 THEN Pos + 1 ELSE end
      /\ end' = IF ArrayLength = 0 THEN end ELSE end + ArrayLength * ElementSize(Task.m)
  BY <1>3 DEF PackArray, sectionVars, Reserve
<1>. QED  BY <1>2, <1>4, <1>5, GoesTo

(* an inline array,                                                        *)
LEMMA InlineStep == PackInlineArray => StepOf(text, Config) = Config'
<1> SUFFICES ASSUME PackInlineArray PROVE StepOf(text, Config) = Config'
  OBVIOUS
<1>1. phase = "pack" /\ todo # <<>> /\ Value.t = "array" /\ Task.m.atom = "inline" /\ ArrayLength <= Task.m.count
  BY DEF PackInlineArray, Packing
<1>2. StepOf(text, Config) = ArrayStep(Config, Task, Pos, Tail(todo))
  BY <1>1, RunTask DEF TaskStep
<1>3. PICK tasks : tasks = ElementTasks(Task.m, Pos, Value.v) \o FillTasks(Task.m, Pos, ArrayLength) \o Tail(todo)
  OBVIOUS
<1>4. ArrayStep(Config, Task, Pos, Tail(todo)) = Goes(Config, Pos, end, tasks)
  BY <1>1, <1>3, ConfigFields DEF ArrayStep, ArrayLength, Value
<1>5. /\ phase' = phase /\ UNCHANGED <<item, items, resolved>> /\ refs' = refs /\ todo' = tasks
      /\ pos' = Pos /\ end' = end
  BY <1>3 DEF PackInlineArray, sectionVars
<1>. QED  BY <1>2, <1>4, <1>5, GoesTo

(* and a default value;                                                    *)
LEMMA DefaultStepTaken == PackDefault => StepOf(text, Config) = Config'
<1> SUFFICES ASSUME PackDefault PROVE StepOf(text, Config) = Config'
  OBVIOUS
<1>1. phase = "pack" /\ todo # <<>> /\ Value.t = "default" /\ Task.m.default.t # "invalid"
  BY DEF PackDefault, Packing
<1>2. StepOf(text, Config) = DefaultStep(Config, Task, Pos, Tail(todo))
  BY <1>1, RunTask DEF TaskStep
<1>3. PICK n, more : n = MemberSize(Task.m) /\ more = Len(DefaultCells(Task.m)) - n
  OBVIOUS
<1>4. DefaultStep(Config, Task, Pos, Tail(todo)) =
        Goes(Config, IF more > 0 THEN end + more ELSE Pos + n, end + more, Tail(todo))
  BY <1>1, <1>3, ConfigFields DEF DefaultStep
<1>5. /\ pos' = (IF more > 0 THEN end + more ELSE Pos + n) /\ end' = end + more
  BY <1>3, DefaultPacked
<1>6. phase' = phase /\ UNCHANGED <<item, items, resolved>> /\ refs' = refs /\ todo' = Tail(todo)
  BY DEF PackDefault, sectionVars
<1>. QED  BY <1>2, <1>4, <1>5, <1>6, GoesTo

(* a fault is refused as StepOf does it,                                   *)
LEMMA RefuseStep == PackInv /\ Refuse => StepOf(text, Config) = Config'
<1> SUFFICES ASSUME PackInv, Refuse PROVE StepOf(text, Config) = Config'
  OBVIOUS
<1>1. /\ phase = "pack" /\ todo # <<>> /\ Value.t \in {"invalid", "default", "array"} /\ phase' = "refused"
      /\ Value.t = "default" => Task.m.default.t = "invalid"
      /\ Value.t = "array" => Task.m.atom = "inline" /\ ArrayLength > Task.m.count
  BY DEF Refuse, Packing
<1>2. Config' = In(Config, "refused")
  BY <1>1, PhaseGoes DEF Refuse
<1>3. CASE Value.t = "invalid"
  BY <1>1, <1>2, <1>3, RunTask DEF TaskStep
<1>4. CASE Value.t = "default"
  BY <1>1, <1>2, <1>4, RunTask DEF TaskStep, DefaultStep
<1>5. CASE Value.t = "array"
  <2>1. StepOf(text, Config) = ArrayStep(Config, Task, Pos, Tail(todo))
    BY <1>1, <1>5, RunTask DEF TaskStep
  <2>2. Task.m \in MemberDescs /\ Fits(Value, Task.m, Typing(text))
    BY <1>1, <1>5, NextTask
  <2>3. Value.v \in Seq(Typing(text).values) /\ Task.m.count \in Nat
    BY <1>5, <2>2, FitsTags DEF MemberDescs
  <2>4. Len(Value.v) \in Nat /\ Len(Value.v) > Task.m.count /\ Task.m.atom # "array"
    BY <1>1, <1>5, <2>3 DEF ArrayLength
  <2>5. ~(Len(Value.v) <= Task.m.count)
    BY <2>3, <2>4
  <2>. QED  BY <1>2, <2>1, <2>4, <2>5 DEF ArrayStep, Value
<1>. QED  BY <1>1, <1>3, <1>4, <1>5

(* The names that are noted are looked for as the code does.               *)
LEMMA RunRefs ==
  ASSUME PackInv, Finalizing
  PROVE  /\ phase = "pack" /\ todo = <<>> /\ refs # <<>> /\ Len(refs) \in Nat
         /\ item \in Nat /\ resolved \in Nat /\ Len(text.section) \in Nat
         /\ StepOf(text, Config) =
              IF ~text.given THEN In(Config, "refused")
              ELSE IF item < Len(text.section) THEN ItemStep(text, Config)
              ELSE IF resolved < Len(refs) THEN ResolveStep(Config)
              ELSE In(Config, "packed")
         /\ \A name : (\E i \in DOMAIN refs : refs[i].name = name) <=> RefsTo(name) # {}
<1>1. phase = "pack" /\ todo = <<>> /\ refs # <<>>
  BY DEF Finalizing
<1>2. Len(refs) \in Nat /\ item \in Nat /\ resolved \in Nat /\ text \in Texts
  BY DEF PackInv, NotedOK, ItemsOK, BlobOK
<1>3. \A name : (\E i \in DOMAIN refs : refs[i].name = name) <=> RefsTo(name) # {}
  BY DEF RefsTo, SameName
<1>. QED  BY <1>1, <1>2, <1>3, TextTyped, ConfigFields DEF StepOf

(* and so is a text without a section;                                     *)
LEMMA NoSectionStep == PackInv /\ RefuseNoSection => StepOf(text, Config) = Config'
<1> SUFFICES ASSUME PackInv, RefuseNoSection PROVE StepOf(text, Config) = Config'
  OBVIOUS
<1>1. Finalizing /\ ~text.given /\ phase' = "refused"
  BY DEF RefuseNoSection
<1>2. Config' = In(Config, "refused")
  BY <1>1, PhaseGoes DEF RefuseNoSection
<1>. QED  BY <1>1, <1>2, RunRefs

(* an item is packed as StepOf does it,                                    *)
LEMMA ItemStepTaken == PackInv /\ PackItem => StepOf(text, Config) = Config'
<1> SUFFICES ASSUME PackInv, PackItem PROVE StepOf(text, Config) = Config'
  OBVIOUS
<1>1. Finalizing /\ text.given /\ item < Len(text.section)
  BY DEF PackItem, MoreItems
<1>2. StepOf(text, Config) = ItemStep(text, Config)
  BY <1>1, RunRefs
<1>3. PICK i \in RefsTo(Entry.name) : /\ todo' = StructTasks(refs[i].type, end, Entry.value)
                                      /\ Reserve(Size[refs[i].type])
  BY DEF PackItem
<1>4. PICK type : type = Typing(text).types[Entry.name]
  OBVIOUS
<1>5. refs[i].type = type
  <2>1. i \in DOMAIN refs /\ refs[i].name = Entry.name
    BY DEF RefsTo, SameName
  <2>. QED  BY <1>4, <2>1 DEF PackInv, NotedOK, Types
<1>6. \E k \in DOMAIN refs : refs[k].name = Entry.name
  BY <1>1, <1>3, RunRefs
<1>7. PICK more, tasks : more = Append(items, [name |-> Entry.name, pos |-> end]) /\ tasks = StructTasks(type, end, Entry.value)
  OBVIOUS
<1>8. /\ phase' = phase /\ pos' = end /\ end' = end + Size[type] /\ todo' = tasks /\ refs' = refs
      /\ item' = item + 1 /\ items' = more /\ resolved' = resolved
  BY <1>3, <1>5, <1>7 DEF PackItem, NextItem, Reserve
<1>9. ItemStep(text, Config) =
        [phase |-> phase, pos |-> end, end |-> end + Size[type], todo |-> tasks, refs |-> refs,
         item |-> item + 1, items |-> more, resolved |-> resolved]
  BY <1>4, <1>6, <1>7, ConfigFields DEF ItemStep, Entry
<1>. QED  BY <1>2, <1>8, <1>9 DEF Config

(* or refused if nothing refers to it;                                     *)
LEMMA UnusedStep == PackInv /\ UnusedItem => StepOf(text, Config) = Config'
<1> SUFFICES ASSUME PackInv, UnusedItem PROVE StepOf(text, Config) = Config'
  OBVIOUS
<1>1. Finalizing /\ text.given /\ item < Len(text.section) /\ RefsTo(Entry.name) = {}
  BY DEF UnusedItem, MoreItems
<1>2. StepOf(text, Config) = ItemStep(text, Config)
  BY <1>1, RunRefs
<1>3. Config' = In(Config, phase')
  BY PhaseGoes DEF UnusedItem
<1>4. ~ \E k \in DOMAIN refs : refs[k].name = Entry.name
  BY <1>1, RunRefs
<1>5. phase' = IF \E i \in DOMAIN refs : Hash[refs[i].name] > Hash[Entry.name] THEN "refused" ELSE "undefined"
  BY DEF UnusedItem
<1>6. ItemStep(text, Config) = In(Config, phase')
  BY <1>4, <1>5, ConfigFields DEF ItemStep, Entry
<1>. QED  BY <1>2, <1>3, <1>6

(* a reference is resolved as StepOf does it,                              *)
LEMMA ResolveStepTaken == PackInv /\ Resolve => StepOf(text, Config) = Config'
<1> SUFFICES ASSUME PackInv, Resolve PROVE StepOf(text, Config) = Config'
  OBVIOUS
<1>1. Finalizing /\ text.given /\ ~(item < Len(text.section)) /\ resolved < Len(refs)
  BY DEF Resolve, MoreItems
<1>2. StepOf(text, Config) = ResolveStep(Config)
  BY <1>1, RunRefs
<1>3. PICK ref : ref = refs[resolved + 1]
  OBVIOUS
<1>4. CASE \E i \in DOMAIN items : items[i].name = ref.name
  <2>1. /\ pos' = ref.at + 1 /\ resolved' = resolved + 1 /\ phase' = phase
        /\ UNCHANGED <<end, todo, refs, item, items>>
    BY <1>3, <1>4 DEF Resolve, SameName
  <2>2. ResolveStep(Config) = [Config EXCEPT !.pos = ref.at + 1, !.resolved = resolved + 1]
    BY <1>3, <1>4, ConfigFields DEF ResolveStep
  <2>. QED  BY <1>2, <2>1, <2>2 DEF Config
<1>5. CASE ~ \E i \in DOMAIN items : items[i].name = ref.name
  <2>1. phase' = "refused" /\ UNCHANGED <<pos, resolved, end, todo, refs, item, items>>
    BY <1>3, <1>5 DEF Resolve, SameName
  <2>2. ResolveStep(Config) = In(Config, "refused")
    BY <1>3, <1>5, ConfigFields DEF ResolveStep
  <2>. QED  BY <1>2, <2>1, <2>2 DEF Config, In
<1>. QED  BY <1>4, <1>5

(* and the packing ends when it does there.                                *)
LEMMA DoneStep == PackInv /\ PackDone => StepOf(text, Config) = Config'
<1> SUFFICES ASSUME PackInv, PackDone PROVE StepOf(text, Config) = Config'
  OBVIOUS
<1>1. phase = "pack" /\ todo = <<>> /\ phase' = "packed"
  BY DEF PackDone
<1>2. Config' = In(Config, "packed")
  BY <1>1, PhaseGoes DEF PackDone
<1>3. CASE refs = <<>>
  BY <1>1, <1>2, <1>3, ConfigFields DEF StepOf
<1>4. CASE refs # <<>>
  <2>1. text.given /\ ~(item < Len(text.section)) /\ resolved = Len(refs)
    BY <1>4 DEF PackDone, MoreItems
  <2>2. Finalizing
    BY <1>1, <1>4 DEF Finalizing
  <2>3. ~(resolved < Len(refs))
    BY <2>1, <2>2, RunRefs
  <2>. QED  BY <1>2, <2>1, <2>2, <2>3, RunRefs
<1>. QED  BY <1>3, <1>4

(* A pass goes along the run of its text, and the calculated size is the   *)
(* one at its end.                                                         *)
SizeInv ==
  /\ \E k \in Nat : Run(text)[k] = Config
  /\ ~dummy => \E k \in Nat : Run(text)[k].phase = "packed" /\ Run(text)[k].end = needed

(* A step of either run is the next of the text's one run.                 *)
LEMMA StepSize == PackInv /\ PackInv' /\ SizeInv /\ PackStep => SizeInv'
<1> SUFFICES ASSUME PackInv, PackInv', SizeInv, PackStep PROVE SizeInv'
  OBVIOUS
<1>1. StepOf(text, Config) = Config'
  BY WordStep, StringStep, ReferStep, StructStep, ArrayStepTaken, InlineStep, DefaultStepTaken, RefuseStep,
     NoSectionStep, ItemStepTaken, UnusedStep, ResolveStepTaken, DoneStep DEF PackStep
<1>2. text' = text /\ dummy' = dummy /\ needed' = needed
  BY DEF PackStep, PackWord, PackString, Refer, PackStruct, PackArray, PackInlineArray, PackDefault, Refuse,
         RefuseNoSection, PackItem, UnusedItem, Resolve, PackDone
<1>3. text \in Texts /\ Config \in Configs(text)
  BY ConfigTyped DEF PackInv, BlobOK
<1>4. Config' \in Configs(text)
  <2>1. (Config \in Configs(text))'
    BY ConfigTyped, PTL
  <2>2. Configs(text)' = Configs(text)
    BY <1>2
  <2>. QED  BY <2>1, <2>2
<1>5. StepsOf(text)[Config] = Config'
  BY <1>1, <1>3, <1>4 DEF StepsOf
<1>6. PICK k \in Nat : Run(text)[k] = Config
  BY DEF SizeInv
<1>7. k + 1 \in Nat /\ Run(text)[k + 1] = Config'
  BY <1>3, <1>5, <1>6, RunIsIteration
<1>. QED  BY <1>2, <1>7 DEF SizeInv

(* To pack begins that run again.                                          *)
LEMMA BeginRun ==
  ASSUME text \in Texts, text' = text, phase' = "pack", Begin
  PROVE  \E k \in Nat : Run(text)[k] = Config'
<1>1. Config' = NewConfig(text)
  BY DEF Begin, Config, NewConfig
<1>. QED  BY <1>1, RunIsIteration

(* Every step keeps both runs on that one run, and what the first needed   *)
(* is where it ends.                                                       *)
LEMMA NextSize == PackInv /\ PackInv' /\ SizeInv /\ [Next]_vars => SizeInv'
<1> SUFFICES ASSUME PackInv, PackInv', SizeInv, [Next]_vars PROVE SizeInv'
  OBVIOUS
<1>1. CASE PackStep
  BY <1>1, StepSize
<1>2. CASE PackWithNeededSize
  <2>1. /\ text \in Texts /\ text' = text /\ phase = "packed" /\ phase' = "pack" /\ Begin /\ needed' = end
    BY <1>2 DEF PackWithNeededSize, PackInv, BlobOK
  <2>2. \E k \in Nat : Run(text)[k] = Config'
    BY <2>1, BeginRun
  <2>3. \E k \in Nat : Run(text)[k].phase = "packed" /\ Run(text)[k].end = end
    BY <2>1, ConfigFields DEF SizeInv
  <2>. QED  BY <2>1, <2>2, <2>3 DEF SizeInv
<1>3. CASE UNCHANGED vars
  BY <1>3 DEF vars, writerVars, sectionVars, SizeInv, Config
<1>. QED  BY <1>1, <1>2, <1>3 DEF Next

(* The calculation begins on that run.                                     *)
LEMMA InitSize == Init => SizeInv
<1> SUFFICES ASSUME Init PROVE SizeInv
  OBVIOUS
<1>1. text \in Texts /\ dummy
  BY DEF Init
<1>2. Config = NewConfig(text)
  BY DEF Init, Config, NewConfig
<1>. QED  BY <1>1, <1>2, RunIsIteration DEF SizeInv

(* One run has one end.                                                    *)
LEMMA SizeFits == PackInv /\ SizeInv => NeededSizeFits
<1> SUFFICES ASSUME PackInv, SizeInv, ~dummy
             PROVE  phase # "refused" /\ (phase = "packed" => end = needed)
  BY DEF NeededSizeFits
<1>1. text \in Texts
  BY DEF PackInv, BlobOK
<1>2. PICK k \in Nat : Run(text)[k] = Config
  BY DEF SizeInv
<1>3. PICK l \in Nat : Run(text)[l].phase = "packed" /\ Run(text)[l].end = needed
  BY DEF SizeInv
<1>4. phase # "pack" => Config = Run(text)[l]
  BY <1>1, <1>2, <1>3, OneEnd, ConfigFields
<1>. QED  BY <1>3, <1>4, ConfigFields

(* The size that dl_txt_pack_calc_size calculates is the size of the blob  *)
(* that dl_txt_pack packs of the same text, which it does not refuse: the  *)
(* pass that only counts goes the same way, whatever the types and texts.  *)
THEOREM CalculatedSizeFits == Spec => []NeededSizeFits
<1>1. SizeInv /\ PackInv /\ PackInv' /\ [Next]_vars => SizeInv'
  BY NextSize
<1>. QED  BY <1>1, InitSize, PackInvHolds, SizeFits, PTL DEF Spec
=============================================================================
