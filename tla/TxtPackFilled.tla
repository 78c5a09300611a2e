---------------------------- MODULE TxtPackFilled ----------------------------
(***************************************************************************)
(* Proofs about TxtPack: a packed blob has no holes, and the offsets in it *)
(* are the ones that are recorded, each once, for all texts in whose       *)
(* arrays nothing but references follows a reference.                      *)
(***************************************************************************)
EXTENDS TxtPackProofs, Functions

-----------------------------------------------------------------------------
(* The invariant.                                                          *)

(* What a task that packs where the writer is must follow, and where the   *)
(* writer is when it writes a word.                                        *)
Strict(a, b) == ~b.seek /\ a.value.t = "ref" => b.value.t \in {"ref", "invalid"}
StrictLinked(q) == \A k \in DOMAIN q : k + 1 \in DOMAIN q => Strict(q[k], q[k + 1])
Exact(q, p) == q # <<>> /\ ~q[1].seek /\ q[1].value.t \in Words => p = q[1].at
TodoFilled(q, p) == AllApart(q) /\ StrictLinked(q) /\ Exact(q, p)

(* The places that tasks are for.                                          *)
Has(t, p) == t.at <= p /\ p < Ends(t)
Held(q, p) == \E k \in DOMAIN q : Has(q[k], p)
HeldLive(q, p) == \E k \in DOMAIN q : Live(q[k]) /\ Has(q[k], p)

Offs == {p \in Positions : buf[p].tag = "off"}
Unresolved == {refs[i].at : i \in (resolved + 1)..Len(refs)}

(* Every place of the blob is written, or a task is for it, or a reference *)
(* is to be resolved there.  The recorded places are those of offsets and  *)
(* unresolved references.                                                  *)
PlacesOK == \A p \in 0..(end - 1) : buf[p].tag # "old" \/ Held(todo, p) \/ p \in Unresolved
RecordedOK ==
  /\ \A i \in DOMAIN ptrs : ~HeldLive(todo, ptrs[i])
  /\ IsInjective(ptrs)
  /\ \A p : (\E i \in DOMAIN ptrs : ptrs[i] = p) <=> p \in Offs \/ p \in Unresolved
OffsetsOK == \A p \in Offs : buf[p].v \in HeaderCells..(end - 1)
EndOK == phase = "packed" => todo = <<>> /\ Unresolved = {}

Filled == TodoFilled(todo, pos) /\ PlacesOK /\ RecordedOK /\ OffsetsOK /\ EndOK
FilledInv == IF dummy THEN buf = Cleared ELSE Filled

-----------------------------------------------------------------------------
(* Sequences of tasks.                                                     *)

(* Where the elements of a tail and of two sequences are.                  *)
IsTail(q, n, G) ==
  /\ DOMAIN q = 1..(n + 1) /\ Tail(q) \in Seq(G) /\ DOMAIN Tail(q) = 1..n
  /\ \A k \in 1..n : Tail(q)[k] = q[k + 1] /\ k + 1 \in 1..(n + 1)
  /\ \A k \in 1..(n + 1) : k = 1 \/ \E j \in 1..n : k = j + 1
  /\ Head(q) = q[1] /\ 1 \in 1..(n + 1)

(* The tail of a sequence, by its elements.                                *)
LEMMA TailIs ==
  ASSUME NEW G, NEW q \in Seq(G), q # <<>>
  PROVE  \E n \in Nat : IsTail(q, n, G)
<1>1. Len(q) \in Nat /\ Len(q) # 0 /\ DOMAIN q = 1..Len(q)
  OBVIOUS
<1>2. PICK n \in Nat : n = Len(q) - 1 /\ Len(q) = n + 1
  <2>1. Len(q) - 1 \in Nat /\ Len(q) = (Len(q) - 1) + 1
    BY <1>1
  <2>. QED  BY <2>1
<1>3. Tail(q) \in Seq(G) /\ Len(Tail(q)) = n /\ Head(q) = q[1]
  BY <1>2
<1>4. DOMAIN Tail(q) = 1..n
  BY <1>3
<1>5. \A k \in 1..n : Tail(q)[k] = q[k + 1]
  BY <1>2
<1>6. (\A k \in 1..n : k + 1 \in 1..(n + 1)) /\ 1 \in 1..(n + 1)
  OBVIOUS
<1>7. ASSUME NEW k \in 1..(n + 1), k # 1
      PROVE  \E j \in 1..n : k = j + 1
  <2>1. k - 1 \in 1..n /\ k = (k - 1) + 1
    BY <1>7
  <2>. QED  BY <2>1
<1>8. IsTail(q, n, G)
  BY <1>1, <1>2, <1>3, <1>4, <1>5, <1>6, <1>7 DEF IsTail
<1>. QED  BY <1>8

IsJoin(a, b, n, l, G) ==
  /\ a \o b \in Seq(G) /\ DOMAIN (a \o b) = 1..(n + l)
  /\ DOMAIN a = 1..n /\ DOMAIN b = 1..l /\ n = Len(a) /\ l = Len(b)
  /\ \A k \in 1..n : (a \o b)[k] = a[k] /\ k \in 1..(n + l)
  /\ \A k \in 1..l : (a \o b)[n + k] = b[k] /\ n + k \in 1..(n + l)
  /\ \A k \in 1..(n + l) : k \in 1..n \/ \E j \in 1..l : k = n + j

(* Two sequences joined, by their elements.                                *)
LEMMA JoinIs ==
  ASSUME NEW G, NEW a \in Seq(G), NEW b \in Seq(G)
  PROVE  \E n, l \in Nat : IsJoin(a, b, n, l, G)
<1>1. PICK n \in Nat, l \in Nat : n = Len(a) /\ l = Len(b)
  OBVIOUS
<1>2. a \o b \in Seq(G) /\ DOMAIN (a \o b) = 1..(n + l) /\ DOMAIN a = 1..n /\ DOMAIN b = 1..l
  BY <1>1
<1>3. \A k \in 1..n : (a \o b)[k] = a[k]
  BY <1>1
<1>4. \A k \in 1..l : (a \o b)[n + k] = b[k]
  BY <1>1
<1>5. ASSUME NEW k \in 1..(n + l), k \notin 1..n
      PROVE  \E j \in 1..l : k = n + j
  <2>1. k - n \in 1..l /\ k = n + (k - n)
    BY <1>5
  <2>. QED  BY <2>1
<1>6. (\A k \in 1..n : k \in 1..(n + l)) /\ (\A k \in 1..l : n + k \in 1..(n + l))
  OBVIOUS
<1>7. IsJoin(a, b, n, l, G)
  BY <1>1, <1>2, <1>3, <1>4, <1>5, <1>6 DEF IsJoin
<1>. QED  BY <1>7

(* What the tasks behind the next one are for, and that one.               *)
LEMMA Popped ==
  ASSUME NEW G, NEW q \in Seq(G), q # <<>>
  PROVE  /\ \A p : Held(q, p) <=> Has(Head(q), p) \/ Held(Tail(q), p)
         /\ \A p : HeldLive(q, p) <=> (Live(Head(q)) /\ Has(Head(q), p)) \/ HeldLive(Tail(q), p)
<1>1. PICK n \in Nat : IsTail(q, n, G)
  BY TailIs
<1>2. /\ DOMAIN q = 1..(n + 1) /\ DOMAIN Tail(q) = 1..n
      /\ \A k \in 1..n : Tail(q)[k] = q[k + 1] /\ k + 1 \in 1..(n + 1)
      /\ \A k \in 1..(n + 1) : k = 1 \/ \E j \in 1..n : k = j + 1
      /\ Head(q) = q[1] /\ 1 \in 1..(n + 1)
  BY <1>1 DEF IsTail
<1>3. ASSUME NEW p
      PROVE  Held(q, p) <=> Has(Head(q), p) \/ Held(Tail(q), p)
  <2>1. ASSUME Held(q, p) PROVE Has(Head(q), p) \/ Held(Tail(q), p)
    <3>1. PICK k \in 1..(n + 1) : Has(q[k], p)
      BY <1>2, <2>1 DEF Held
    <3>. QED  BY <1>2, <3>1 DEF Held
  <2>2. ASSUME Has(Head(q), p) PROVE Held(q, p)
    BY <1>2, <2>2 DEF Held
  <2>3. ASSUME Held(Tail(q), p) PROVE Held(q, p)
    <3>1. PICK k \in 1..n : Has(q[k + 1], p)
      BY <1>2, <2>3 DEF Held
    <3>. QED  BY <1>2, <3>1 DEF Held
  <2>. QED  BY <2>1, <2>2, <2>3
<1>4. ASSUME NEW p
      PROVE  HeldLive(q, p) <=> (Live(Head(q)) /\ Has(Head(q), p)) \/ HeldLive(Tail(q), p)
  <2>1. ASSUME HeldLive(q, p) PROVE (Live(Head(q)) /\ Has(Head(q), p)) \/ HeldLive(Tail(q), p)
    <3>1. PICK k \in 1..(n + 1) : Live(q[k]) /\ Has(q[k], p)
      BY <1>2, <2>1 DEF HeldLive
    <3>. QED  BY <1>2, <3>1 DEF HeldLive
  <2>2. ASSUME Live(Head(q)) /\ Has(Head(q), p) PROVE HeldLive(q, p)
    BY <1>2, <2>2 DEF HeldLive
  <2>3. ASSUME HeldLive(Tail(q), p) PROVE HeldLive(q, p)
    <3>1. PICK k \in 1..n : Live(q[k + 1]) /\ Has(q[k + 1], p)
      BY <1>2, <2>3 DEF HeldLive
    <3>. QED  BY <1>2, <3>1 DEF HeldLive
  <2>. QED  BY <2>1, <2>2, <2>3
<1>. QED  BY <1>3, <1>4

(* Two lists of tasks hold what either holds.                              *)
LEMMA Joined ==
  ASSUME NEW G, NEW a \in Seq(G), NEW b \in Seq(G)
  PROVE  /\ \A p : Held(a \o b, p) <=> Held(a, p) \/ Held(b, p)
         /\ \A p : HeldLive(a \o b, p) <=> HeldLive(a, p) \/ HeldLive(b, p)
<1>0. PICK n \in Nat, l \in Nat : IsJoin(a, b, n, l, G)
  BY JoinIs
<1>1. /\ DOMAIN (a \o b) = 1..(n + l)
      /\ DOMAIN a = 1..n /\ DOMAIN b = 1..l
      /\ \A k \in 1..n : (a \o b)[k] = a[k] /\ k \in 1..(n + l)
      /\ \A k \in 1..l : (a \o b)[n + k] = b[k] /\ n + k \in 1..(n + l)
      /\ \A k \in 1..(n + l) : k \in 1..n \/ \E j \in 1..l : k = n + j
  BY <1>0 DEF IsJoin
<1>3. ASSUME NEW p
      PROVE  Held(a \o b, p) <=> Held(a, p) \/ Held(b, p)
  <2>1. ASSUME Held(a \o b, p) PROVE Held(a, p) \/ Held(b, p)
    <3>1. PICK k \in 1..(n + l) : Has((a \o b)[k], p)
      BY <1>1, <2>1 DEF Held
    <3>. QED  BY <1>1, <3>1 DEF Held
  <2>2. ASSUME Held(a, p) PROVE Held(a \o b, p)
    <3>1. PICK k \in 1..n : Has(a[k], p)
      BY <1>1, <2>2 DEF Held
    <3>. QED  BY <1>1, <3>1 DEF Held
  <2>3. ASSUME Held(b, p) PROVE Held(a \o b, p)
    <3>1. PICK k \in 1..l : Has(b[k], p)
      BY <1>1, <2>3 DEF Held
    <3>. QED  BY <1>1, <3>1 DEF Held
  <2>. QED  BY <2>1, <2>2, <2>3
<1>4. ASSUME NEW p
      PROVE  HeldLive(a \o b, p) <=> HeldLive(a, p) \/ HeldLive(b, p)
  <2>1. ASSUME HeldLive(a \o b, p) PROVE HeldLive(a, p) \/ HeldLive(b, p)
    <3>1. PICK k \in 1..(n + l) : Live((a \o b)[k]) /\ Has((a \o b)[k], p)
      BY <1>1, <2>1 DEF HeldLive
    <3>. QED  BY <1>1, <3>1 DEF HeldLive
  <2>2. ASSUME HeldLive(a, p) PROVE HeldLive(a \o b, p)
    <3>1. PICK k \in 1..n : Live(a[k]) /\ Has(a[k], p)
      BY <1>1, <2>2 DEF HeldLive
    <3>. QED  BY <1>1, <3>1 DEF HeldLive
  <2>3. ASSUME HeldLive(b, p) PROVE HeldLive(a \o b, p)
    <3>1. PICK k \in 1..l : Live(b[k]) /\ Has(b[k], p)
      BY <1>1, <2>3 DEF HeldLive
    <3>. QED  BY <1>1, <3>1 DEF HeldLive
  <2>. QED  BY <2>1, <2>2, <2>3
<1>. QED  BY <1>3, <1>4

(* Tasks that take up a room are for the places in it.                     *)
LEMMA HeldInRoom ==
  ASSUME NEW T, NEW s \in Seq(GoodTasks(T)), NEW lo \in Nat, NEW hi \in Nat, TakeUp(s, lo, hi), NEW p \in Nat
  PROVE  /\ lo <= p /\ p < hi => Held(s, p)
         /\ Held(s, p) => lo <= p /\ p < hi
         /\ HeldLive(s, p) => Held(s, p)
<1>1. Within(s, lo, hi) /\ Cover(s, lo, hi)
  BY DEF TakeUp
<1>2. lo <= p /\ p < hi => Held(s, p)
  <2>1. lo <= p /\ p < hi => p \in lo..(hi - 1)
    OBVIOUS
  <2>. QED  BY <1>1, <2>1 DEF Cover, Held, Has
<1>3. ASSUME Held(s, p) PROVE lo <= p /\ p < hi
  <2>1. PICK k \in DOMAIN s : Has(s[k], p)
    BY <1>3 DEF Held
  <2>2. s[k] \in GoodTasks(T)
    OBVIOUS
  <2>3. lo <= s[k].at /\ Ends(s[k]) <= hi /\ s[k].at \in Nat /\ Ends(s[k]) \in Nat
    BY <1>1, <2>2, GoodTask DEF Within
  <2>. QED  BY <2>1, <2>3 DEF Has
<1>. QED  BY <1>2, <1>3 DEF Held, HeldLive

(* The tasks behind the next one.                                          *)
LEMMA TailFilled ==
  ASSUME NEW T, NEW q \in Seq(GoodTasks(T)), q # <<>>, NEW p, TodoFilled(q, p), Linked(q), NEW p2,
         \/ Jumps(Head(q))
         \/ Head(q).value.t = "ref"
         \/ p2 = Head(q).at + 1
  PROVE  /\ TodoFilled(Tail(q), p2)
         /\ Live(Head(q)) => \A k \in DOMAIN Tail(q) : Live(Tail(q)[k]) => Apart(Head(q), Tail(q)[k])
         /\ Jumps(Head(q)) /\ Tail(q) # <<>> => Tail(q)[1].seek
<1>1. PICK n \in Nat : IsTail(q, n, GoodTasks(T))
  BY TailIs
<1>2. PICK r : r = Tail(q)
  OBVIOUS
<1>3. /\ DOMAIN q = 1..(n + 1) /\ DOMAIN r = 1..n
      /\ \A k \in 1..n : r[k] = q[k + 1] /\ k + 1 \in 1..(n + 1)
      /\ Head(q) = q[1] /\ 1 \in 1..(n + 1)
  BY <1>1, <1>2 DEF IsTail
<1>4. AllApart(q) /\ StrictLinked(q)
  BY DEF TodoFilled
<1>5. AllApart(r)
  <2>1. ASSUME NEW k \in 1..n, NEW l \in 1..n, k < l, Live(r[k]), Live(r[l])
        PROVE  Apart(r[k], r[l])
    <3>1. PICK i \in 1..(n + 1), j \in 1..(n + 1) : i = k + 1 /\ j = l + 1 /\ i < j /\ r[k] = q[i] /\ r[l] = q[j]
      <4>1. k + 1 \in 1..(n + 1) /\ l + 1 \in 1..(n + 1) /\ k + 1 < l + 1
        BY <2>1
      <4>. QED  BY <1>3, <4>1
    <3>2. Apart(q[i], q[j])
      BY <1>3, <1>4, <2>1, <3>1 DEF AllApart
    <3>. QED  BY <3>1, <3>2
  <2>. QED  BY <1>3, <2>1 DEF AllApart
<1>6. StrictLinked(r)
  <2>1. ASSUME NEW k \in 1..n, k + 1 \in 1..n
        PROVE  Strict(r[k], r[k + 1])
    <3>1. PICK j \in 1..(n + 1) : j = k + 1 /\ j + 1 \in 1..(n + 1) /\ r[k] = q[j] /\ r[k + 1] = q[j + 1]
      <4>1. k + 1 \in 1..(n + 1) /\ (k + 1) + 1 \in 1..(n + 1)
        BY <2>1
      <4>. QED  BY <1>3, <2>1, <4>1
    <3>2. Strict(q[j], q[j + 1])
      BY <1>3, <1>4, <3>1 DEF StrictLinked
    <3>. QED  BY <3>1, <3>2
  <2>. QED  BY <1>3, <2>1 DEF StrictLinked
<1>7. ASSUME r # <<>>
      PROVE  r[1] = q[2] /\ Follows(q[1], r[1]) /\ Strict(q[1], r[1])
  <2>1. r \in Seq(GoodTasks(T))
    BY <1>1, <1>2 DEF IsTail
  <2>2. n # 0
    BY <1>3, <1>7, <2>1
  <2>3. 1 \in 1..n /\ 1 + 1 = 2 /\ 2 \in 1..(n + 1)
    BY <2>2
  <2>4. r[1] = q[2]
    BY <1>3, <2>3
  <2>5. Follows(q[1], q[1 + 1]) /\ Strict(q[1], q[1 + 1])
    BY <1>3, <1>4, <2>3 DEF Linked, StrictLinked
  <2>. QED  BY <2>3, <2>4, <2>5
<1>8. Jumps(q[1]) /\ r # <<>> => r[1].seek
  BY <1>7 DEF Follows, Jumps
<1>9. Exact(r, p2)
  <2>1. SUFFICES ASSUME r # <<>>, ~r[1].seek, r[1].value.t \in Words
                 PROVE  p2 = r[1].at
    BY DEF Exact
  <2>2. r[1].at = q[1].at + 1
    BY <1>7, <2>1 DEF Follows
  <2>3. q[1].value.t # "ref"
    BY <1>7, <2>1 DEF Strict, Words
  <2>. QED  BY <1>3, <1>8, <2>1, <2>2, <2>3
<1>10. ASSUME Live(q[1]), NEW k \in 1..n, Live(r[k])
       PROVE  Apart(q[1], r[k])
  <2>1. 1 < k + 1 /\ k + 1 \in 1..(n + 1) /\ r[k] = q[k + 1]
    BY <1>3
  <2>. QED  BY <1>3, <1>4, <1>10, <2>1 DEF AllApart
<1>. QED  BY <1>2, <1>3, <1>5, <1>6, <1>8, <1>9, <1>10 DEF TodoFilled

(* Tasks before others, from which they are apart.                         *)
LEMMA JoinFilled ==
  ASSUME NEW T, NEW s \in Seq(GoodTasks(T)), NEW r \in Seq(GoodTasks(T)), NEW p,
         TodoFilled(s, p), TodoFilled(r, p), r # <<>> => r[1].seek,
         \A k \in DOMAIN s : \A l \in DOMAIN r : Live(s[k]) /\ Live(r[l]) => Apart(s[k], r[l])
  PROVE  TodoFilled(s \o r, p)
<1>1. PICK n \in Nat, l \in Nat : IsJoin(s, r, n, l, GoodTasks(T))
  BY JoinIs
<1>2. PICK b : b = s \o r
  OBVIOUS
<1>3. /\ b \in Seq(GoodTasks(T)) /\ DOMAIN b = 1..(n + l)
      /\ DOMAIN s = 1..n /\ DOMAIN r = 1..l
      /\ \A k \in 1..n : b[k] = s[k] /\ k \in 1..(n + l)
      /\ \A k \in 1..l : b[n + k] = r[k] /\ n + k \in 1..(n + l)
      /\ \A k \in 1..(n + l) : k \in 1..n \/ \E j \in 1..l : k = n + j
  BY <1>1, <1>2 DEF IsJoin
<1>4. AllApart(s) /\ StrictLinked(s) /\ AllApart(r) /\ StrictLinked(r)
  BY DEF TodoFilled
<1>5. AllApart(b)
  <2>1. ASSUME NEW k \in 1..(n + l), NEW m \in 1..(n + l), k < m, Live(b[k]), Live(b[m])
        PROVE  Apart(b[k], b[m])
    <3>1. CASE k \in 1..n /\ m \in 1..n
      BY <1>3, <1>4, <2>1, <3>1 DEF AllApart
    <3>2. CASE k \in 1..n /\ \E j \in 1..l : m = n + j
      <4>1. PICK j \in 1..l : m = n + j
        BY <3>2
      <4>2. b[k] = s[k] /\ b[m] = r[j] /\ k \in DOMAIN s /\ j \in DOMAIN r
        BY <1>3, <3>2, <4>1
      <4>3. Live(s[k]) /\ Live(r[j])
        BY <2>1, <4>2
      <4>. QED  BY <4>2, <4>3
    <3>3. CASE \E j \in 1..l : k = n + j
      <4>1. PICK i \in 1..l : k = n + i
        BY <3>3
      <4>2. m \notin 1..n
        BY <2>1, <4>1
      <4>3. PICK j \in 1..l : m = n + j
        BY <1>3, <4>2
      <4>4. i < j
        BY <2>1, <4>1, <4>3
      <4>5. b[k] = r[i] /\ b[m] = r[j]
        BY <1>3, <4>1, <4>3
      <4>. QED  BY <1>3, <1>4, <2>1, <4>4, <4>5 DEF AllApart
    <3>. QED  BY <1>3, <3>1, <3>2, <3>3
  <2>. QED  BY <1>3, <2>1 DEF AllApart
<1>6. r # <<>> <=> l # 0
  <2>1. l = Len(r)
    BY <1>1 DEF IsJoin
  <2>. QED  BY <2>1
<1>7. s # <<>> <=> n # 0
  <2>1. n = Len(s)
    BY <1>1 DEF IsJoin
  <2>. QED  BY <2>1
<1>8. StrictLinked(b)
  <2>1. ASSUME NEW k \in 1..(n + l), k + 1 \in 1..(n + l)
        PROVE  Strict(b[k], b[k + 1])
    <3>1. CASE k + 1 \in 1..n
      <4>1. k \in 1..n
        BY <3>1
      <4>. QED  BY <1>3, <1>4, <3>1, <4>1 DEF StrictLinked
    <3>2. CASE \E j \in 1..l : k + 1 = n + j
      <4>1. PICK j \in 1..l : k + 1 = n + j
        BY <3>2
      <4>2. CASE j = 1
        <5>1. b[k + 1] = r[1] /\ r # <<>>
          BY <1>3, <1>6, <4>1, <4>2
        <5>. QED  BY <5>1 DEF Strict
      <4>3. CASE j # 1
        <5>1. PICK i \in 1..l : j = i + 1 /\ i + 1 \in 1..l /\ k = n + i
          <6>1. j - 1 \in 1..l /\ j = (j - 1) + 1 /\ (j - 1) + 1 \in 1..l /\ k = n + (j - 1)
            BY <4>1, <4>3
          <6>. QED  BY <6>1
        <5>2. Strict(r[i], r[i + 1])
          BY <1>3, <1>4, <5>1 DEF StrictLinked
        <5>3. b[k] = r[i] /\ b[k + 1] = r[i + 1]
          BY <1>3, <4>1, <5>1
        <5>. QED  BY <5>2, <5>3
      <4>. QED  BY <4>2, <4>3
    <3>. QED  BY <1>3, <2>1, <3>1, <3>2
  <2>. QED  BY <1>3, <2>1 DEF StrictLinked
<1>9. Exact(b, p)
  <2>1. CASE n = 0
    <3>1. l # 0 => b[1] = r[1]
      <4>1. l # 0 => 1 \in 1..l /\ n + 1 = 1
        BY <2>1
      <4>. QED  BY <1>3, <4>1
    <3>2. b # <<>> => l # 0
      BY <1>3, <2>1
    <3>. QED  BY <1>6, <3>1, <3>2 DEF Exact
  <2>2. CASE n # 0
    <3>1. 1 \in 1..n
      BY <2>2
    <3>2. b[1] = s[1] /\ s # <<>>
      BY <1>3, <1>7, <2>2, <3>1
    <3>. QED  BY <3>2 DEF TodoFilled, Exact
  <2>. QED  BY <2>1, <2>2
<1>. QED  BY <1>2, <1>5, <1>8, <1>9 DEF TodoFilled

(* Tasks that go where they belong.                                        *)
LEMMA SeekFilled ==
  ASSUME NEW T, NEW s \in Seq(GoodTasks(T)), \A k \in DOMAIN s : s[k].seek, AllApart(s), NEW p
  PROVE  TodoFilled(s, p)
<1>1. StrictLinked(s)
  BY DEF StrictLinked, Strict
<1>2. s # <<>> => 1 \in DOMAIN s
  OBVIOUS
<1>3. Exact(s, p)
  BY <1>2 DEF Exact
<1>. QED  BY <1>1, <1>3 DEF TodoFilled

-----------------------------------------------------------------------------
(* Which tasks follow one another in the texts that RefsLast tells of.     *)

(* Only references follow a reference in an array, and nothing fills it up.*)
OnlyRefsAfter(value, m) ==
  \A j \in DOMAIN value.v : value.v[j].t = "ref" =>
    /\ \A k \in DOMAIN value.v : j < k => value.v[k].t \in {"ref", "invalid"}
    /\ m.atom = "inline" => m.count <= Len(value.v)

(* In a text of RefsLast only references come after a reference in an      *)
(* array.                                                                  *)
LEMMA ArrayOrder ==
  ASSUME RefsLast, NEW t \in Texts, NEW task \in GoodTasks(Typing(t)), task.value.t = "array"
  PROVE  OnlyRefsAfter(task.value, task.m)
<1>1. PICK T : T = Typing(t)
  OBVIOUS
<1>2. task \in Tasks(T) /\ ValueOK(task, T) /\ (task.m.atom # "pod" => IsMember(task.m))
  BY <1>1 DEF GoodTasks
<1>3. task.value \in T.values
  BY <1>2 DEF Tasks, Values, Invalid, Null, Missing
<1>4. task.m \in MemberDescs /\ Fits(task.value, task.m, T)
  BY <1>2 DEF ValueOK, Tasks
<1>5. task.m.atom # "pod"
  BY <1>4, FitsTags
<1>6. PICK type \in DOMAIN Members : \E i \in DOMAIN Members[type] : task.m = Members[type][i]
  BY <1>2, <1>5 DEF IsMember
<1>7. PICK i \in DOMAIN Members[type] : task.m = Members[type][i]
  BY <1>6
<1>. QED  BY <1>1, <1>3, <1>4, <1>7 DEF RefsLast, OnlyRefsAfter

(* The elements of an array.                                               *)
LEMMA ElementsFilled ==
  ASSUME NEW T, NEW m \in MemberDescs, NEW value, value.v \in Seq(T.values),
         \A i \in DOMAIN value.v : Suits(value.v[i], m, T), OnlyRefsAfter(value, m),
         NEW at \in Nat, NEW e \in Nat, HeaderCells <= at, at + Len(value.v) * ElementSize(m) <= e
  PROVE  /\ TodoFilled(ElementTasks(m, at, value.v), at)
         /\ ElementTasks(m, at, value.v) \in Seq(GoodTasks(T))
         /\ TakeUp(ElementTasks(m, at, value.v), at, at + Len(value.v) * ElementSize(m))
<1>1. PICK s : s = ElementTasks(m, at, value.v)
  OBVIOUS
<1>2. /\ TodoOK(s, at, e, T) /\ TakeUp(s, at, at + Len(value.v) * ElementSize(m))
  BY <1>1, ArrayTodo
<1>3. s \in Seq(GoodTasks(T))
  BY <1>2 DEF TodoOK
<1>4. AllApart(s)
  BY <1>2 DEF TakeUp
<1>5. /\ DOMAIN s = DOMAIN value.v
      /\ \A k \in DOMAIN s : s[k].value = value.v[k] /\ s[k].at = at + (k - 1) * ElementSize(m)
  BY <1>1 DEF ElementTasks, ElementTask
<1>6. StrictLinked(s)
  <2>1. ASSUME NEW k \in DOMAIN s, k + 1 \in DOMAIN s, s[k].value.t = "ref"
        PROVE  s[k + 1].value.t \in {"ref", "invalid"}
    <3>1. k < k + 1
      BY <1>3
    <3>. QED  BY <1>5, <2>1, <3>1 DEF OnlyRefsAfter
  <2>. QED  BY <2>1 DEF StrictLinked, Strict
<1>7. Exact(s, at)
  <2>1. s # <<>> => 1 \in DOMAIN s
    BY <1>3
  <2>2. (1 - 1) * ElementSize(m) = 0
    <3>1. ElementSize(m) \in Nat
      BY MemberRoom
    <3>. QED  BY <3>1
  <2>3. s # <<>> => s[1].at = at
    BY <1>5, <2>1, <2>2
  <2>. QED  BY <2>3 DEF Exact
<1>. QED  BY <1>1, <1>2, <1>3, <1>4, <1>6, <1>7 DEF TodoFilled

(* The elements of an inline array and what fills it up.                   *)
LEMMA InlineFilled ==
  ASSUME NEW T, NEW m \in MemberDescs, m.atom = "inline", NEW value, value.v \in Seq(T.values),
         \A i \in DOMAIN value.v : Suits(value.v[i], m, T), OnlyRefsAfter(value, m),
         Len(value.v) <= m.count, NEW at \in Nat
  PROVE  LET s == ElementTasks(m, at, value.v) \o FillTasks(m, at, Len(value.v))
         IN /\ TodoFilled(s, at) /\ s \in Seq(GoodTasks(T)) /\ TakeUp(s, at, at + MemberSize(m))
<1>1. PICK s : s = ElementTasks(m, at, value.v) \o FillTasks(m, at, Len(value.v))
  OBVIOUS
<1>2. /\ s \in Seq(GoodTasks(T)) /\ TakeUp(s, at, at + MemberSize(m)) /\ Linked(s)
      /\ m.kind = "struct" => \A k \in DOMAIN s : s[k].seek
      /\ m.kind # "struct" => \A k \in DOMAIN s : s[k].value = IF k <= Len(value.v) THEN value.v[k] ELSE Null
  BY <1>1, InlineGood
<1>3. AllApart(s)
  BY <1>2 DEF TakeUp
<1>4. CASE m.kind = "struct"
  BY <1>1, <1>2, <1>3, <1>4, SeekFilled
<1>5. CASE m.kind # "struct"
  <2>1. PICK n \in Nat : n = Len(value.v) /\ DOMAIN value.v = 1..n
    OBVIOUS
  <2>2. m.count \in Nat /\ n <= m.count
    BY <2>1 DEF MemberDescs
  <2>3. PICK c \in Nat : c = m.count - n /\ n + c = m.count
    <3>1. m.count - n \in Nat /\ n + (m.count - n) = m.count
      BY <2>2
    <3>. QED  BY <3>1
  <2>4. PICK a, f : a = ElementTasks(m, at, value.v) /\ f = FillTasks(m, at, n)
    OBVIOUS
  <2>5. DOMAIN a = 1..n /\ \A k \in 1..n : a[k] = ElementTask(m, at, k, value.v[k])
    BY <2>1, <2>4 DEF ElementTasks
  <2>6. f = [i \in 1..c |-> ElementTask(m, at, n + i, Null)]
    BY <1>5, <2>3, <2>4 DEF FillTasks
  <2>7. PICK S : S = {a[k] : k \in 1..n} \union {f[k] : k \in 1..c}
    OBVIOUS
  <2>8. a \in Seq(S) /\ Len(a) = n
    <3>1. a = [k \in 1..n |-> a[k]]
      BY <2>4, <2>5 DEF ElementTasks
    <3>2. a \in [1..n -> S]
      BY <2>7, <3>1
    <3>. QED  BY <3>2, FunctionIsSequence
  <2>9. f \in Seq(S) /\ Len(f) = c
    <3>1. f = [k \in 1..c |-> f[k]]
      BY <2>6
    <3>2. f \in [1..c -> S]
      BY <2>7, <3>1
    <3>. QED  BY <3>2, FunctionIsSequence
  <2>10. s = a \o f
    BY <1>1, <2>1, <2>4
  <2>11. /\ DOMAIN s = 1..(n + c)
         /\ \A k \in 1..n : s[k] = a[k]
         /\ \A k \in 1..c : s[n + k] = f[k]
    BY <2>8, <2>9, <2>10
  <2>12. \A k \in 1..(n + c) : s[k].value = IF k <= n THEN value.v[k] ELSE Null
    BY <1>2, <1>5, <2>1, <2>11
  <2>13. StrictLinked(s)
    <3>1. ASSUME NEW k \in 1..(n + c), k + 1 \in 1..(n + c), s[k].value.t = "ref"
          PROVE  s[k + 1].value.t \in {"ref", "invalid"}
      <4>1. k <= n /\ s[k].value = value.v[k]
        BY <2>12, <3>1 DEF Null
      <4>2. k \in DOMAIN value.v /\ m.count <= n
        BY <2>1, <3>1, <4>1 DEF OnlyRefsAfter
      <4>3. k + 1 \in 1..n /\ k < k + 1
        BY <2>3, <3>1, <4>2
      <4>4. s[k + 1].value = value.v[k + 1]
        BY <2>12, <3>1, <4>3
      <4>5. value.v[k].t = "ref"
        BY <3>1, <4>1
      <4>. QED  BY <2>1, <4>2, <4>3, <4>4, <4>5 DEF OnlyRefsAfter
    <3>. QED  BY <2>11, <3>1 DEF StrictLinked, Strict
  <2>14. Exact(s, at)
    <3>1. ASSUME s # <<>> PROVE s[1].at = at
      <4>1. n + c # 0
        BY <1>2, <2>11, <3>1
      <4>2. ElementTask(m, at, 1, value.v[1]).at = at /\ ElementTask(m, at, 1, Null).at = at
        <5>1. (1 - 1) * ElementSize(m) = 0
          <6>1. ElementSize(m) \in Nat
            BY MemberRoom
          <6>. QED  BY <6>1
        <5>. QED  BY <5>1 DEF ElementTask
      <4>3. CASE n = 0
        <5>1. 1 \in 1..c /\ n + 1 = 1
          BY <4>1, <4>3
        <5>. QED  BY <2>6, <2>11, <4>2, <5>1
      <4>4. CASE n # 0
        <5>1. 1 \in 1..n
          BY <4>4
        <5>. QED  BY <2>5, <2>11, <4>2, <5>1
      <4>. QED  BY <4>3, <4>4
    <3>. QED  BY <3>1 DEF Exact
  <2>. QED  BY <1>1, <1>2, <1>3, <2>13, <2>14 DEF TodoFilled
<1>. QED  BY <1>4, <1>5

-----------------------------------------------------------------------------
(***************************************************************************)
(* What a step does: it writes to the places W, none of which is recorded, *)
(* it records the places s, where it wrote offsets or notes references, it *)
(* leaves tasks for all other places, and no task for a recorded one.      *)
(***************************************************************************)
WroteAt(W) ==
  /\ \A p \in Positions : p \notin W => buf'[p] = buf[p]
  /\ \A p \in W : /\ p \in Positions /\ buf'[p].tag # "old"
                  /\ buf'[p].tag = "off" => buf'[p].v \in HeaderCells..(end' - 1)
                  /\ \A i \in DOMAIN ptrs : ptrs[i] # p
NotesAt(W, s) ==
  /\ ptrs' = ptrs \o s /\ IsInjective(s)
  /\ \A p : (\E i \in DOMAIN s : s[i] = p) <=>
              (p \in W /\ buf'[p].tag = "off") \/ (p \in Unresolved' /\ p \notin Unresolved)
  /\ \A i \in DOMAIN s : \A j \in DOMAIN ptrs : ptrs[j] # s[i]
TasksFor(W) ==
  /\ \A p \in Nat : Held(todo, p) => p \in W \/ Held(todo', p) \/ p \in Unresolved'
  /\ \A p \in end..(end' - 1) : p \in W \/ Held(todo', p)
FreeOf(s) ==
  /\ \A i \in DOMAIN ptrs : ~HeldLive(todo', ptrs[i])
  /\ \A i \in DOMAIN s : ~HeldLive(todo', s[i])

(* A step that writes what its task held, and notes what it wrote there,   *)
(* keeps the blob filled.                                                  *)
LEMMA FilledStep ==
  ASSUME PackInv, PackInv', Filled, end <= end', Unresolved \subseteq Unresolved', phase' # "packed",
         NEW W \in SUBSET Nat, NEW s \in Seq(Nat), WroteAt(W), NotesAt(W, s), TasksFor(W), FreeOf(s),
         TodoFilled(todo', pos')
  PROVE  Filled'
<1>1. end \in Nat /\ end' \in Nat /\ end' <= LastCell + 1 /\ LastCell \in Nat /\ HeaderCells \in Nat
  BY TxtPackAssumption DEF PackInv, BlobOK
<1>2. /\ \A p \in 0..(end - 1) : buf[p].tag # "old" \/ Held(todo, p) \/ p \in Unresolved
      /\ IsInjective(ptrs)
      /\ \A p : (\E i \in DOMAIN ptrs : ptrs[i] = p) <=> p \in Offs \/ p \in Unresolved
      /\ \A p \in Offs : buf[p].v \in HeaderCells..(end - 1)
  BY DEF Filled, PlacesOK, RecordedOK, OffsetsOK
<1>0. PICK e \in Nat, f \in Nat, c \in Nat : e = end /\ f = end' /\ c = LastCell /\ f <= c + 1 /\ e <= f
  BY <1>1
<1>00. f <= c + 1 /\ e <= f /\ f \in Nat /\ c \in Nat /\ e \in Nat
  BY <1>0
<1>3. ASSUME NEW p \in 0..(f - 1)
      PROVE  buf'[p].tag # "old" \/ Held(todo', p) \/ p \in Unresolved'
  <2>1. p \in Positions /\ p \in Nat
    <3>1. p \in 0..c /\ p \in Nat
      BY <1>00
    <3>. QED  BY <1>0, <3>1 DEF Positions
  <2>2. CASE p \in W
    BY <2>2 DEF WroteAt
  <2>3. CASE p \notin W /\ end <= p
    <3>0. e <= p
      BY <1>0, <2>3
    <3>1. p \in e..(f - 1)
      BY <1>00, <3>0
    <3>2. p \in end..(end' - 1)
      BY <1>0, <3>1
    <3>. QED  BY <2>3, <3>2 DEF TasksFor
  <2>4. CASE p \notin W /\ ~(end <= p)
    <3>0. p \in 0..(e - 1)
      BY <1>0, <2>4
    <3>1. p \in 0..(end - 1) /\ buf'[p] = buf[p]
      BY <1>0, <2>1, <2>4, <3>0 DEF WroteAt
    <3>2. CASE buf[p].tag # "old"
      BY <3>1, <3>2
    <3>3. CASE Held(todo, p)
      BY <2>1, <2>4, <3>3 DEF TasksFor
    <3>4. CASE p \in Unresolved
      BY <3>4
    <3>. QED  BY <1>2, <3>1, <3>2, <3>3, <3>4
  <2>. QED  BY <2>2, <2>3, <2>4
<1>4. \A p : p \in Offs' <=> (p \in W /\ buf'[p].tag = "off") \/ p \in Offs
  <2>1. ASSUME NEW p, p \in Offs PROVE p \notin W
    <3>1. PICK i \in DOMAIN ptrs : ptrs[i] = p
      BY <1>2, <2>1
    <3>. QED  BY <3>1 DEF WroteAt
  <2>2. ASSUME NEW p, p \in Offs PROVE p \in Offs'
    BY <2>1, <2>2 DEF Offs, WroteAt
  <2>3. ASSUME NEW p, p \in W, buf'[p].tag = "off" PROVE p \in Offs'
    BY <2>3 DEF Offs, WroteAt
  <2>4. ASSUME NEW p, p \in Offs', p \notin W PROVE p \in Offs
    BY <2>4 DEF Offs, WroteAt
  <2>5. ASSUME NEW p, p \in Offs', p \in W PROVE buf'[p].tag = "off"
    BY <2>5 DEF Offs
  <2>. QED  BY <2>2, <2>3, <2>4, <2>5
<1>5. ASSUME NEW p \in Offs'
      PROVE  buf'[p].v \in HeaderCells..(end' - 1)
  <2>1. CASE p \in W
    BY <2>1 DEF WroteAt, Offs
  <2>2. CASE p \notin W
    <3>1. p \in Offs /\ p \in Positions /\ buf'[p] = buf[p]
      BY <1>4, <2>2 DEF Offs, WroteAt
    <3>2. buf[p].v \in HeaderCells..(end - 1)
      BY <1>2, <3>1
    <3>. QED  BY <1>1, <3>1, <3>2
  <2>. QED  BY <2>1, <2>2
<1>6. ptrs \in Seq(Nat)
  <2>1. ptrs \in Seq(HeaderCells..(end - 1)) /\ HeaderCells..(end - 1) \subseteq Nat
    BY <1>1 DEF PackInv, NotedOK
  <2>. QED  BY <2>1, SeqMore
<1>7. PICK n \in Nat, l \in Nat : IsJoin(ptrs, s, n, l, Nat)
  BY <1>6, JoinIs
<1>8. PICK b : b = ptrs \o s /\ b = ptrs'
  BY DEF NotesAt
<1>9. /\ DOMAIN b = 1..(n + l) /\ DOMAIN ptrs = 1..n /\ DOMAIN s = 1..l
      /\ \A k \in 1..n : b[k] = ptrs[k] /\ k \in 1..(n + l)
      /\ \A k \in 1..l : b[n + k] = s[k] /\ n + k \in 1..(n + l)
      /\ \A k \in 1..(n + l) : k \in 1..n \/ \E j \in 1..l : k = n + j
  BY <1>7, <1>8 DEF IsJoin
<1>10. \A k \in DOMAIN b : (\E i \in DOMAIN ptrs : b[k] = ptrs[i]) \/ (\E i \in DOMAIN s : b[k] = s[i])
  <2>1. ASSUME NEW k \in 1..(n + l), k \in 1..n PROVE \E i \in DOMAIN ptrs : b[k] = ptrs[i]
    BY <1>9, <2>1
  <2>2. ASSUME NEW k \in 1..(n + l), k \notin 1..n PROVE \E i \in DOMAIN s : b[k] = s[i]
    <3>1. PICK j \in 1..l : k = n + j
      BY <1>9, <2>2
    <3>. QED  BY <1>9, <3>1
  <2>. QED  BY <1>9, <2>1, <2>2
<1>11. \A k \in DOMAIN b : ~HeldLive(todo', b[k])
  BY <1>10 DEF FreeOf
<1>20. \A i \in 1..l : \A j \in 1..n : ptrs[j] # s[i]
  BY <1>9 DEF NotesAt
<1>12. IsInjective(b)
  <2>1. ASSUME NEW i \in 1..(n + l), NEW j \in 1..(n + l), b[i] = b[j]
        PROVE  i = j
    <3>1. CASE i \in 1..n /\ j \in 1..n
      BY <1>2, <1>9, <2>1, <3>1 DEF IsInjective
    <3>2. CASE i \notin 1..n /\ j \notin 1..n
      <4>1. PICK x \in 1..l : i = n + x /\ b[i] = s[x]
        BY <1>9, <3>2
      <4>2. PICK y \in 1..l : j = n + y /\ b[j] = s[y]
        BY <1>9, <3>2
      <4>3. IsInjective(s)
        BY DEF NotesAt
      <4>4. x = y
        BY <1>9, <2>1, <4>1, <4>2, <4>3 DEF IsInjective
      <4>. QED  BY <4>1, <4>2, <4>4
    <3>3. CASE i \in 1..n /\ j \notin 1..n
      <4>1. PICK y \in 1..l : b[j] = s[y]
        BY <1>9, <3>3
      <4>2. b[i] = ptrs[i]
        BY <1>9, <3>3
      <4>. QED  BY <1>20, <2>1, <3>3, <4>1, <4>2
    <3>4. CASE i \notin 1..n /\ j \in 1..n
      <4>1. PICK y \in 1..l : b[i] = s[y]
        BY <1>9, <3>4
      <4>2. b[j] = ptrs[j]
        BY <1>9, <3>4
      <4>. QED  BY <1>20, <2>1, <3>4, <4>1, <4>2
    <3>. QED  BY <3>1, <3>2, <3>3, <3>4
  <2>. QED  BY <1>9, <2>1 DEF IsInjective
<1>13. ASSUME NEW p
       PROVE  (\E k \in DOMAIN b : b[k] = p) <=> p \in Offs' \/ p \in Unresolved'
  <2>1. (\E k \in DOMAIN b : b[k] = p) <=> (\E i \in DOMAIN ptrs : ptrs[i] = p) \/ (\E i \in DOMAIN s : s[i] = p)
    <3>1. ASSUME NEW i \in 1..n, ptrs[i] = p PROVE \E k \in DOMAIN b : b[k] = p
      BY <1>9, <3>1
    <3>2. ASSUME NEW i \in 1..l, s[i] = p PROVE \E k \in DOMAIN b : b[k] = p
      <4>1. n + i \in DOMAIN b /\ b[n + i] = p
        BY <1>9, <3>2
      <4>. QED  BY <4>1
    <3>. QED  BY <1>9, <1>10, <3>1, <3>2
  <2>2. (\E i \in DOMAIN ptrs : ptrs[i] = p) <=> p \in Offs \/ p \in Unresolved
    BY <1>2
  <2>3. (\E i \in DOMAIN s : s[i] = p) <=> (p \in W /\ buf'[p].tag = "off") \/ (p \in Unresolved' /\ p \notin Unresolved)
    BY DEF NotesAt
  <2>4. p \in Offs' <=> (p \in W /\ buf'[p].tag = "off") \/ p \in Offs
    BY <1>4
  <2>5. p \in Unresolved => p \in Unresolved'
    OBVIOUS
  <2>. QED  BY <2>1, <2>2, <2>3, <2>4, <2>5
<1>14. RecordedOK'
  BY <1>8, <1>11, <1>12, <1>13 DEF RecordedOK
<1>15. PlacesOK'
  <2>1. 0..(end' - 1) = 0..(f - 1)
    BY <1>0
  <2>. QED  BY <1>3, <2>1 DEF PlacesOK
<1>16. OffsetsOK'
  BY <1>5 DEF OffsetsOK
<1>. QED  BY <1>14, <1>15, <1>16 DEF Filled, EndOK

-----------------------------------------------------------------------------
(* What the tasks behind the next one are for.                             *)
LEMMA NextHeld ==
  ASSUME PackInv, Filled, todo # <<>>, Live(Task)
  PROVE  /\ \A p : Held(todo, p) <=> Has(Task, p) \/ Held(Tail(todo), p)
         /\ \A p \in Nat : HeldLive(Tail(todo), p) => HeldLive(todo, p) /\ ~Has(Task, p)
         /\ \A p \in Nat : Has(Task, p) => HeldLive(todo, p)
         /\ \A p \in Nat : HeldLive(todo, p) => p < end
         /\ \A k \in DOMAIN Tail(todo) : Tail(todo)[k] \in GoodTasks(Typing(text)) /\ Ends(Tail(todo)[k]) <= end
         /\ \A k \in DOMAIN Tail(todo) : Live(Tail(todo)[k]) => Apart(Task, Tail(todo)[k])
<1>1. PICK T, q : T = Typing(text) /\ q = todo
  OBVIOUS
<1>2. PICK e \in Nat : e = end
  BY Numbers
<1>3. q \in Seq(GoodTasks(T)) /\ Within(q, HeaderCells, e) /\ Linked(q) /\ TodoFilled(q, pos) /\ q # <<>>
  BY <1>1, <1>2 DEF PackInv, TodoOK, Filled
<1>4. PICK t, r : t = Head(q) /\ r = Tail(q)
  OBVIOUS
<1>5. /\ \A p : Held(q, p) <=> Has(t, p) \/ Held(r, p)
      /\ \A p : HeldLive(q, p) <=> (Live(t) /\ Has(t, p)) \/ HeldLive(r, p)
  BY <1>3, <1>4, Popped
<1>6. Live(t)
  BY <1>1, <1>4 DEF Task
<1>7. \A k \in DOMAIN r : Live(r[k]) => Apart(t, r[k])
  <2>1. PICK p2 : p2 = t.at + 1
    OBVIOUS
  <2>. QED  BY <1>3, <1>4, <1>6, <2>1, TailFilled
<1>8. PICK n \in Nat : IsTail(q, n, GoodTasks(T))
  BY <1>3, TailIs
<1>9. /\ DOMAIN q = 1..(n + 1) /\ DOMAIN r = 1..n /\ 1 \in 1..(n + 1) /\ t = q[1]
      /\ \A k \in 1..n : r[k] = q[k + 1] /\ k + 1 \in 1..(n + 1)
  BY <1>4, <1>8 DEF IsTail
<1>10. \A k \in DOMAIN q : q[k] \in GoodTasks(T) /\ Ends(q[k]) <= e
  BY <1>3 DEF Within
<1>11. \A k \in 1..n : r[k] \in GoodTasks(T) /\ Ends(r[k]) <= e
  BY <1>9, <1>10
<1>12. t \in GoodTasks(T)
  BY <1>9, <1>10
<1>13. ASSUME NEW p \in Nat, HeldLive(r, p)
       PROVE  ~Has(t, p)
  <2>1. PICK k \in 1..n : Live(r[k]) /\ Has(r[k], p)
    BY <1>9, <1>13 DEF HeldLive
  <2>2. Apart(t, r[k])
    BY <1>7, <1>9, <2>1
  <2>3. t.at \in Nat /\ Ends(t) \in Nat /\ r[k].at \in Nat /\ Ends(r[k]) \in Nat
    BY <1>11, <1>12, GoodTask
  <2>. QED  BY <2>1, <2>2, <2>3 DEF Has, Apart
<1>14. ASSUME NEW p \in Nat, HeldLive(q, p)
       PROVE  p < e
  <2>1. PICK k \in DOMAIN q : Has(q[k], p)
    BY <1>14 DEF HeldLive
  <2>2. Ends(q[k]) \in Nat /\ Ends(q[k]) <= e
    BY <1>10, GoodTask
  <2>. QED  BY <2>1, <2>2 DEF Has
<1>15. t = Task /\ r = Tail(todo) /\ q = todo
  BY <1>1, <1>4 DEF Task
<1>. QED  BY <1>1, <1>2, <1>5, <1>6, <1>7, <1>9, <1>11, <1>13, <1>14, <1>15

(* The next task is done, the writer is behind it or the next one goes     *)
(* where it belongs.                                                       *)
LEMMA NextFilled ==
  ASSUME PackInv, Filled, todo # <<>>, NEW p, Jumps(Task) \/ Value.t = "ref" \/ p = Task.at + 1
  PROVE  TodoFilled(Tail(todo), p)
<1>1. PICK T, q : T = Typing(text) /\ q = todo
  OBVIOUS
<1>2. q \in Seq(GoodTasks(T)) /\ Linked(q) /\ TodoFilled(q, pos) /\ q # <<>>
  BY <1>1 DEF PackInv, TodoOK, Filled
<1>3. Jumps(Head(q)) \/ Head(q).value.t = "ref" \/ p = Head(q).at + 1
  BY <1>1 DEF Task, Value
<1>4. PICK r : r = pos
  OBVIOUS
<1>. QED  BY <1>1, <1>2, <1>3, <1>4, TailFilled

(* Tasks are put in the place of the next one, for the same room or for    *)
(* room behind the blob.                                                   *)
LEMMA TasksFilled ==
  ASSUME PackInv, Filled, todo # <<>>, Live(Task), Jumps(Task),
         NEW s \in Seq(GoodTasks(Typing(text))), NEW lo \in Nat, NEW hi \in Nat, TakeUp(s, lo, hi),
         (lo = Task.at /\ hi = Ends(Task)) \/ end <= lo, NEW p, TodoFilled(s, p)
  PROVE  /\ TodoFilled(s \o Tail(todo), p)
         /\ \A x : Held(s \o Tail(todo), x) <=> Held(s, x) \/ Held(Tail(todo), x)
         /\ \A x : HeldLive(s \o Tail(todo), x) <=> HeldLive(s, x) \/ HeldLive(Tail(todo), x)
<1>1. PICK T, r, t, e : T = Typing(text) /\ r = Tail(todo) /\ t = Task /\ e = end
  OBVIOUS
<1>2. e \in Nat
  BY <1>1, Numbers
<1>3. TodoFilled(r, p)
  BY <1>1, NextFilled
<1>4. /\ \A k \in DOMAIN r : r[k] \in GoodTasks(T) /\ Ends(r[k]) <= e
      /\ \A k \in DOMAIN r : Live(r[k]) => Apart(t, r[k])
  BY <1>1, NextHeld
<1>5. r # <<>> => r[1].seek
  <2>1. PICK q : q = todo
    OBVIOUS
  <2>2. q \in Seq(GoodTasks(T)) /\ Linked(q) /\ TodoFilled(q, pos) /\ q # <<>>
    BY <1>1, <2>1 DEF PackInv, TodoOK, Filled
  <2>3. Jumps(Head(q)) /\ r = Tail(q)
    BY <1>1, <2>1 DEF Task
  <2>. QED  BY <2>2, <2>3, TailFilled
<1>6. r \in Seq(GoodTasks(T)) /\ s \in Seq(GoodTasks(T))
  <2>1. PICK G, q : G = GoodTasks(T) /\ q = todo
    OBVIOUS
  <2>2. q \in Seq(G) /\ q # <<>>
    BY <1>1, <2>1 DEF PackInv, TodoOK
  <2>. QED  BY <1>1, <2>1, <2>2
<1>7. t \in GoodTasks(T) /\ t.at \in Nat /\ Ends(t) \in Nat
  <2>1. t \in GoodTasks(T)
    BY <1>1, NextTask
  <2>. QED  BY <2>1, GoodTask
<1>8. ASSUME NEW k \in DOMAIN s, NEW l \in DOMAIN r, Live(r[l])
      PROVE  Apart(s[k], r[l])
  <2>1. s[k] \in GoodTasks(T) /\ lo <= s[k].at /\ Ends(s[k]) <= hi
    BY <1>6 DEF TakeUp, Within
  <2>2. s[k].at \in Nat /\ Ends(s[k]) \in Nat
    BY <2>1, GoodTask
  <2>3. r[l].at \in Nat /\ Ends(r[l]) \in Nat /\ Ends(r[l]) <= e
    BY <1>4, GoodTask
  <2>4. Apart(t, r[l])
    BY <1>4, <1>8
  <2>5. (lo = t.at /\ hi = Ends(t)) \/ e <= lo
    BY <1>1
  <2>. QED  BY <1>2, <1>7, <2>1, <2>2, <2>3, <2>4, <2>5 DEF Apart
<1>9. TodoFilled(s \o r, p)
  BY <1>3, <1>5, <1>6, <1>8, JoinFilled
<1>10. /\ \A x : Held(s \o r, x) <=> Held(s, x) \/ Held(r, x)
       /\ \A x : HeldLive(s \o r, x) <=> HeldLive(s, x) \/ HeldLive(r, x)
  BY <1>6, Joined
<1>. QED  BY <1>1, <1>9, <1>10

-----------------------------------------------------------------------------
(* What the steps write.                                                   *)
LEMMA CellsWritten ==
  ASSUME NEW cells, Write(cells), ~dummy, DOMAIN buf = Positions
  PROVE  /\ \A p \in Positions : p \notin DOMAIN cells => buf'[p] = buf[p]
         /\ \A p \in Positions : p \in DOMAIN cells => buf'[p] = cells[p]
BY DEF Write

(* One cell at a place.                                                    *)
LEMMA OneAt ==
  ASSUME NEW p \in Nat, NEW x
  PROVE  DOMAIN At(p, <<x>>) = {p} /\ At(p, <<x>>)[p] = x
<1>1. Len(<<x>>) = 1 /\ p..(p + 1 - 1) = {p} /\ p - p + 1 = 1 /\ <<x>>[1] = x
  OBVIOUS
<1>. QED  BY <1>1 DEF At

-----------------------------------------------------------------------------
(* The steps of a task that is done.                                       *)

(* What is recorded is no place that a task is for.                        *)
LEMMA RecordedFree ==
  ASSUME PackInv, Filled, todo # <<>>, Live(Task)
  PROVE  \A i \in DOMAIN ptrs : /\ ptrs[i] \in Nat /\ ptrs[i] < end
                                /\ ~Has(Task, ptrs[i]) /\ ~HeldLive(Tail(todo), ptrs[i])
<1>1. ASSUME NEW i \in DOMAIN ptrs
      PROVE  ptrs[i] \in Nat /\ ptrs[i] < end
  <2>1. PICK e \in Nat, h \in Nat : e = end /\ h = HeaderCells
    BY Numbers
  <2>2. ptrs \in Seq(h..(e - 1))
    BY <2>1 DEF PackInv, NotedOK
  <2>3. ptrs[i] \in h..(e - 1)
    BY <2>2
  <2>. QED  BY <2>1, <2>3
<1>2. \A i \in DOMAIN ptrs : ~HeldLive(todo, ptrs[i])
  BY DEF Filled, RecordedOK
<1>. QED  BY <1>1, <1>2, NextHeld

(* A word or a string is packed at its place.                              *)
LEMMA WordHere ==
  ASSUME PackInv, Filled, todo # <<>>, Value.t \in Words
  PROVE  /\ Pos = Task.at /\ Live(Task) /\ Task.at \in Nat /\ Task.at < end
         /\ \A p \in Nat : Has(Task, p) <=> p = Task.at
<1>1. Live(Task)
  BY DEF Live, Words, Value
<1>2. Value.t \in Words \union {"ref"}
  OBVIOUS
<1>3. MemberSize(Task.m) = 1 /\ Task.at < end
  BY <1>2, WordRoom
<1>4. Task.at \in Nat /\ Ends(Task) = Task.at + MemberSize(Task.m)
  BY NextTask
<1>5. Task.seek => Pos = Task.at
  BY DEF Pos
<1>6. Head(todo) = todo[1]
  <2>1. todo \in Seq(GoodTasks(Typing(text)))
    BY DEF PackInv, TodoOK
  <2>. QED  BY <2>1
<1>7. ~Task.seek => Pos = Task.at
  BY <1>6 DEF Filled, TodoFilled, Exact, Pos, Task, Value
<1>8. \A p \in Nat : Has(Task, p) <=> p = Task.at
  BY <1>3, <1>4 DEF Has
<1>. QED  BY <1>1, <1>3, <1>4, <1>5, <1>7, <1>8

(* A word fills its task's cell.                                           *)
LEMMA PackWordFilled ==
  ASSUME PackInv, PackInv', ~dummy, Filled, PackWord
  PROVE  Filled'
<1>1. todo # <<>> /\ Value.t \in {"data", "null"} /\ Value.t \in Words /\ phase' # "packed"
  BY DEF PackWord, Packing, Words
<1>2. /\ Pos = Task.at /\ Live(Task) /\ Task.at \in Nat /\ Task.at < end
      /\ \A p \in Nat : Has(Task, p) <=> p = Task.at
  BY <1>1, WordHere
<1>3. PICK a \in Nat : a = Task.at
  BY <1>2
<1>4. PICK e \in Nat : e = end /\ a < e
  BY <1>2, <1>3, Numbers
<1>5. PICK c : c = IF Value.t = "null" THEN Zero ELSE Cell("data", Value.v)
  OBVIOUS
<1>6. c.tag \in {"zero", "data"}
  BY <1>5 DEF Zero, Cell
<1>7. a \in Positions
  <2>1. PICK l \in Nat : l = LastCell /\ e <= l + 1
    BY <1>4, Numbers
  <2>2. a \in 0..l
    BY <1>4, <2>1
  <2>. QED  BY <2>1, <2>2 DEF Positions
<1>8. DOMAIN At(a, <<c>>) = {a} /\ At(a, <<c>>)[a] = c
  BY OneAt
<1>9. Write(At(a, <<c>>)) /\ DOMAIN buf = Positions
  BY <1>2, <1>3, <1>5 DEF PackWord, PackInv, BlobOK
<1>10. /\ \A p \in Positions : p # a => buf'[p] = buf[p]
       /\ buf'[a] = c
  BY <1>7, <1>8, <1>9, CellsWritten
<1>11. end' = e
  <2>1. a + 1 <= e
    BY <1>4
  <2>2. {e, a + 1} \in SUBSET Nat /\ e \in {e, a + 1} /\ \A k \in {e, a + 1} : k <= e
    BY <2>1
  <2>3. Max({e, a + 1}) = e
    BY <2>2, MaxIs
  <2>. QED  BY <1>2, <1>3, <1>4, <2>3 DEF PackWord
<1>12. /\ refs' = refs /\ ptrs' = ptrs /\ resolved' = resolved /\ todo' = Tail(todo) /\ pos' = a + 1
  BY <1>2, <1>3 DEF PackWord, sectionVars
<1>13. Unresolved' = Unresolved
  BY <1>12 DEF Unresolved
<1>14. \A i \in DOMAIN ptrs : ptrs[i] # a /\ ~HeldLive(todo', ptrs[i])
  BY <1>1, <1>2, <1>3, <1>12, RecordedFree
<1>15. WroteAt({a})
  BY <1>6, <1>7, <1>10, <1>14 DEF WroteAt
<1>16. ptrs \in Seq(HeaderCells..(end - 1))
  BY DEF PackInv, NotedOK
<1>17. NotesAt({a}, <<>>)
  <2>1. ptrs' = ptrs \o <<>>
    BY <1>12, <1>16
  <2>2. buf'[a].tag # "off"
    BY <1>6, <1>10
  <2>. QED  BY <1>13, <2>1, <2>2 DEF NotesAt, IsInjective
<1>18. TasksFor({a})
  <2>1. e..(end' - 1) = {}
    BY <1>11
  <2>. QED  BY <1>1, <1>2, <1>3, <1>4, <1>12, <2>1, NextHeld DEF TasksFor
<1>19. FreeOf(<<>>)
  BY <1>14 DEF FreeOf
<1>20. TodoFilled(todo', pos')
  BY <1>1, <1>3, <1>12, NextFilled
<1>21. end <= end' /\ Unresolved \subseteq Unresolved' /\ {a} \in SUBSET Nat /\ <<>> \in Seq(Nat)
  BY <1>4, <1>11, <1>13
<1>. QED  BY <1>1, <1>15, <1>17, <1>18, <1>19, <1>20, <1>21, FilledStep

(* The offset of a string goes to its place, the string behind the blob.   *)
LEMMA PackStringFilled ==
  ASSUME PackInv, PackInv', ~dummy, Filled, PackString
  PROVE  Filled'
<1>1. todo # <<>> /\ Value.t = "str" /\ Value.t \in Words /\ phase' # "packed"
  BY DEF PackString, Packing, Words
<1>2. /\ Pos = Task.at /\ Live(Task) /\ Task.at \in Nat /\ Task.at < end
      /\ \A p \in Nat : Has(Task, p) <=> p = Task.at
  BY <1>1, WordHere
<1>3. PICK a \in Nat : a = Task.at
  BY <1>2
<1>4. PICK e \in Nat, h \in Nat : e = end /\ a < e /\ h = HeaderCells /\ h <= e
  BY <1>2, <1>3, Numbers
<1>5. PICK c, d : c = Off(e, 0) /\ d = Cell("chars", Value.v)
  OBVIOUS
<1>6. c.tag = "off" /\ c.v = e /\ d.tag = "chars"
  BY <1>5 DEF Off, Cell
<1>7. a \in Positions /\ e \in Positions /\ a # e
  <2>1. PICK l \in Nat : l = LastCell
    BY Numbers
  <2>2. e + 1 <= l + 1
    BY <1>4, <2>1 DEF PackString, Room
  <2>3. a \in 0..l /\ e \in 0..l
    BY <1>4, <2>2
  <2>. QED  BY <1>4, <2>1, <2>3 DEF Positions
<1>8. PICK cells : cells = Both(At(a, <<c>>), At(e, <<d>>))
  OBVIOUS
<1>9. DOMAIN cells = {a, e} /\ cells[a] = c /\ cells[e] = d
  <2>1. a # e /\ a \in Nat /\ e \in Nat
    BY <1>7
  <2>2. PICK f, g : f = At(a, <<c>>) /\ g = At(e, <<d>>)
    OBVIOUS
  <2>3. DOMAIN f = {a} /\ DOMAIN g = {e} /\ f[a] = c /\ g[e] = d /\ cells = Both(f, g)
    BY <1>8, <2>2, OneAt
  <2>. QED  BY <2>1, <2>3 DEF Both
<1>10. Write(cells) /\ DOMAIN buf = Positions
  BY <1>2, <1>3, <1>4, <1>5, <1>8 DEF PackString, PackInv, BlobOK
<1>11. /\ \A p \in Positions : p \notin {a, e} => buf'[p] = buf[p]
       /\ buf'[a] = c /\ buf'[e] = d
  BY <1>7, <1>9, <1>10, CellsWritten
<1>12. /\ refs' = refs /\ ptrs' = ptrs \o <<a>> /\ resolved' = resolved /\ todo' = Tail(todo) /\ pos' = a + 1
       /\ end' = e + 1
  BY <1>2, <1>3, <1>4 DEF PackString, sectionVars, Record
<1>13. Unresolved' = Unresolved
  BY <1>12 DEF Unresolved
<1>14. \A i \in DOMAIN ptrs : ptrs[i] # a /\ ptrs[i] # e /\ ~HeldLive(todo', ptrs[i])
  BY <1>1, <1>2, <1>3, <1>4, <1>12, RecordedFree
<1>15. WroteAt({a, e})
  <2>1. e \in HeaderCells..(end' - 1)
    <3>1. e \in h..(e + 1 - 1)
      BY <1>4
    <3>. QED  BY <1>4, <1>12, <3>1
  <2>. QED  BY <1>6, <1>7, <1>11, <1>14, <2>1 DEF WroteAt
<1>16. NotesAt({a, e}, <<a>>)
  <2>1. DOMAIN <<a>> = {1} /\ <<a>>[1] = a
    OBVIOUS
  <2>2. buf'[a].tag = "off" /\ buf'[e].tag # "off"
    BY <1>6, <1>11
  <2>3. \A i \in DOMAIN <<a>> : \A j \in DOMAIN ptrs : ptrs[j] # <<a>>[i]
    BY <1>14, <2>1
  <2>4. IsInjective(<<a>>)
    BY <2>1 DEF IsInjective
  <2>5. \A p : (\E i \in DOMAIN <<a>> : <<a>>[i] = p) <=> p = a
    BY <2>1
  <2>. QED  BY <1>12, <1>13, <2>2, <2>3, <2>4, <2>5 DEF NotesAt
<1>17. TasksFor({a, e})
  <2>1. \A p \in end..(end' - 1) : p = e
    <3>1. \A p \in e..(e + 1 - 1) : p = e
      OBVIOUS
    <3>. QED  BY <1>4, <1>12, <3>1
  <2>. QED  BY <1>1, <1>2, <1>3, <1>12, <2>1, NextHeld DEF TasksFor
<1>18. FreeOf(<<a>>)
  <2>1. DOMAIN <<a>> = {1} /\ <<a>>[1] = a
    OBVIOUS
  <2>2. ~HeldLive(todo', a)
    BY <1>1, <1>2, <1>3, <1>12, NextHeld
  <2>. QED  BY <1>14, <2>1, <2>2 DEF FreeOf
<1>19. TodoFilled(todo', pos')
  BY <1>1, <1>3, <1>12, NextFilled
<1>20. end <= end' /\ Unresolved \subseteq Unresolved' /\ {a, e} \in SUBSET Nat /\ <<a>> \in Seq(Nat)
  BY <1>4, <1>12, <1>13
<1>. QED  BY <1>1, <1>15, <1>16, <1>17, <1>18, <1>19, <1>20, FilledStep

(* A reference is noted where it is to be resolved.                        *)
LEMMA ReferFilled ==
  ASSUME PackInv, PackInv', ~dummy, Filled, Refer
  PROVE  Filled'
<1>1. todo # <<>> /\ Value.t = "ref" /\ Live(Task) /\ phase' # "packed"
  BY DEF Refer, Packing, Live, Value
<1>2. MemberSize(Task.m) = 1 /\ Task.at \in Nat /\ Task.at < end /\ Ends(Task) = Task.at + MemberSize(Task.m)
  BY <1>1, WordRoom, NextTask
<1>3. PICK a \in Nat : a = Task.at
  BY <1>2
<1>4. PICK e \in Nat : e = end /\ a < e
  BY <1>2, <1>3, Numbers
<1>5. \A p \in Nat : Has(Task, p) <=> p = a
  BY <1>2, <1>3 DEF Has
<1>6. PICK r : r = [name |-> Value.v, type |-> Task.m.of, at |-> a]
  OBVIOUS
<1>7. /\ refs' = Append(refs, r) /\ r.at = a /\ ptrs' = ptrs \o <<a>> /\ resolved' = resolved
      /\ todo' = Tail(todo) /\ end' = e /\ buf' = buf
  BY <1>3, <1>4, <1>6 DEF Refer, RefPlace, Record, sectionVars
<1>8. \A p : p \in Unresolved' <=> p = a \/ p \in Unresolved
  <2>1. PICK R : R = [name : DOMAIN Types, type : DOMAIN Members, at : Nat]
    OBVIOUS
  <2>2. refs \in Seq(R)
    BY <2>1 DEF PackInv, NotedOK
  <2>3. PICK n \in Nat, k \in Nat : n = Len(refs) /\ k = resolved /\ k <= n
    BY <2>2 DEF PackInv, ItemsOK
  <2>4. refs' \in Seq(R)
    BY <2>1 DEF PackInv, NotedOK, Types, Refer
  <2>5. Len(refs') = n + 1 /\ refs'[n + 1] = r /\ \A i \in 1..n : refs'[i] = refs[i]
    BY <1>7, <2>2, <2>3
  <2>6. Unresolved' = {refs'[i].at : i \in (k + 1)..(n + 1)}
    BY <1>7, <2>3, <2>5 DEF Unresolved
  <2>7. Unresolved = {refs[i].at : i \in (k + 1)..n}
    BY <2>3 DEF Unresolved
  <2>8. \A i \in (k + 1)..(n + 1) : i = n + 1 \/ i \in (k + 1)..n
    OBVIOUS
  <2>9. \A i \in (k + 1)..n : i \in (k + 1)..(n + 1) /\ i \in 1..n
    OBVIOUS
  <2>10. n + 1 \in (k + 1)..(n + 1)
    BY <2>3
  <2>11. ASSUME NEW p, p \in Unresolved' PROVE p = a \/ p \in Unresolved
    <3>1. PICK i \in (k + 1)..(n + 1) : refs'[i].at = p
      BY <2>6, <2>11
    <3>2. CASE i = n + 1
      BY <1>7, <2>5, <3>1, <3>2
    <3>3. CASE i \in (k + 1)..n
      BY <2>5, <2>7, <2>9, <3>1, <3>3
    <3>. QED  BY <2>8, <3>2, <3>3
  <2>12. ASSUME NEW p, p \in Unresolved PROVE p \in Unresolved'
    <3>1. PICK i \in (k + 1)..n : refs[i].at = p
      BY <2>7, <2>12
    <3>. QED  BY <2>5, <2>6, <2>9, <3>1
  <2>13. a \in Unresolved'
    BY <1>7, <2>5, <2>6, <2>10
  <2>. QED  BY <2>11, <2>12, <2>13
<1>9. \A i \in DOMAIN ptrs : ptrs[i] # a /\ ~HeldLive(todo', ptrs[i])
  BY <1>1, <1>5, <1>7, RecordedFree
<1>10. a \notin Unresolved
  <2>1. \A p : (\E i \in DOMAIN ptrs : ptrs[i] = p) <=> p \in Offs \/ p \in Unresolved
    BY DEF Filled, RecordedOK
  <2>. QED  BY <1>9, <2>1
<1>11. WroteAt({})
  BY <1>7 DEF WroteAt
<1>12. NotesAt({}, <<a>>)
  <2>1. DOMAIN <<a>> = {1} /\ <<a>>[1] = a
    OBVIOUS
  <2>2. \A i \in DOMAIN <<a>> : \A j \in DOMAIN ptrs : ptrs[j] # <<a>>[i]
    BY <1>9, <2>1
  <2>3. IsInjective(<<a>>)
    BY <2>1 DEF IsInjective
  <2>4. \A p : (\E i \in DOMAIN <<a>> : <<a>>[i] = p) <=> p = a
    BY <2>1
  <2>. QED  BY <1>7, <1>8, <1>10, <2>2, <2>3, <2>4 DEF NotesAt
<1>13. TasksFor({})
  <2>1. end..(end' - 1) = {}
    <3>1. e..(e - 1) = {}
      OBVIOUS
    <3>. QED  BY <1>4, <1>7, <3>1
  <2>. QED  BY <1>1, <1>5, <1>7, <1>8, <2>1, NextHeld DEF TasksFor
<1>14. FreeOf(<<a>>)
  <2>1. DOMAIN <<a>> = {1} /\ <<a>>[1] = a
    OBVIOUS
  <2>2. ~HeldLive(todo', a)
    BY <1>1, <1>5, <1>7, NextHeld
  <2>. QED  BY <1>9, <2>1, <2>2 DEF FreeOf
<1>15. TodoFilled(todo', pos')
  <2>1. PICK p : p = pos'
    OBVIOUS
  <2>2. TodoFilled(Tail(todo), p)
    BY <1>1, NextFilled
  <2>. QED  BY <1>7, <2>1, <2>2
<1>16. end <= end' /\ Unresolved \subseteq Unresolved' /\ {} \in SUBSET Nat /\ <<a>> \in Seq(Nat)
  BY <1>4, <1>7, <1>8
<1>. QED  BY <1>1, <1>11, <1>12, <1>13, <1>14, <1>15, <1>16, FilledStep

(* A task is replaced by tasks for its room.                               *)
LEMMA ReplacedFilled ==
  ASSUME PackInv, PackInv', Filled, todo # <<>>, Live(Task), Jumps(Task), phase' # "packed",
         UNCHANGED <<buf, end, refs, ptrs, resolved>>,
         NEW s \in Seq(GoodTasks(Typing(text))), TakeUp(s, Task.at, Ends(Task)), todo' = s \o Tail(todo),
         TodoFilled(s, pos')
  PROVE  Filled'
<1>1. PICK lo \in Nat, hi \in Nat : lo = Task.at /\ hi = Ends(Task)
  BY NextTask, GoodTask
<1>2. PICK e, p : e = end /\ p = pos' /\ e \in Nat
  BY Numbers
<1>3. /\ TodoFilled(todo', p)
      /\ \A x : Held(todo', x) <=> Held(s, x) \/ Held(Tail(todo), x)
      /\ \A x : HeldLive(todo', x) <=> HeldLive(s, x) \/ HeldLive(Tail(todo), x)
  BY <1>1, <1>2, TasksFilled
<1>4. TakeUp(s, lo, hi)
  BY <1>1
<1>5. \A x \in Nat : /\ Has(Task, x) => Held(s, x)
                     /\ HeldLive(s, x) => Has(Task, x)
  <2>1. ASSUME NEW x \in Nat, Has(Task, x) PROVE Held(s, x)
    <3>1. lo <= x /\ x < hi
      BY <1>1, <2>1 DEF Has
    <3>. QED  BY <1>4, <3>1, HeldInRoom
  <2>2. ASSUME NEW x \in Nat, HeldLive(s, x) PROVE Has(Task, x)
    <3>1. lo <= x /\ x < hi
      BY <1>4, <2>2, HeldInRoom
    <3>. QED  BY <1>1, <3>1 DEF Has
  <2>. QED  BY <2>1, <2>2
<1>6. end' = e /\ ptrs' = ptrs /\ buf' = buf /\ Unresolved' = Unresolved
  BY <1>2 DEF Unresolved
<1>7. \A i \in DOMAIN ptrs : ~HeldLive(todo', ptrs[i])
  BY <1>3, <1>5, RecordedFree
<1>8. WroteAt({})
  BY <1>6 DEF WroteAt
<1>9. NotesAt({}, <<>>)
  <2>1. ptrs \in Seq(HeaderCells..(end - 1))
    BY DEF PackInv, NotedOK
  <2>2. ptrs' = ptrs \o <<>>
    BY <1>6, <2>1
  <2>. QED  BY <1>6, <2>2 DEF NotesAt, IsInjective
<1>10. TasksFor({})
  <2>0. e \in Nat
    BY <1>2
  <2>1. end..(end' - 1) = {}
    <3>1. e..(e - 1) = {}
      BY <2>0
    <3>. QED  BY <1>2, <1>6, <3>1
  <2>. QED  BY <1>3, <1>5, <2>1, NextHeld DEF TasksFor
<1>11. FreeOf(<<>>)
  BY <1>7 DEF FreeOf
<1>12. end <= end' /\ Unresolved \subseteq Unresolved' /\ {} \in SUBSET Nat /\ <<>> \in Seq(Nat)
  BY <1>2, <1>6
<1>13. TodoFilled(todo', pos')
  BY <1>2, <1>3
<1>. QED  BY <1>8, <1>9, <1>10, <1>11, <1>12, <1>13, FilledStep

(* A struct's cells are held by the tasks of its members.                  *)
LEMMA PackStructFilled ==
  ASSUME PackInv, PackInv', ~dummy, Filled, PackStruct
  PROVE  Filled'
<1>1. todo # <<>> /\ Value.t = "struct" /\ phase' # "packed" /\ Live(Task)
  BY DEF PackStruct, Packing, Live, Value
<1>2. PICK T : T = Typing(text)
  OBVIOUS
<1>3. Task.m \in MemberDescs /\ Fits(Value, Task.m, T) /\ text \in Texts
  BY <1>1, <1>2, NextTask DEF PackInv, BlobOK
<1>4. Task.m.atom = "pod" /\ Task.m.kind = "struct" /\ [type |-> Task.m.of, given |-> Value.v] \in T.structs
  BY <1>1, <1>3, FitsTags
<1>5. PICK r : r = [type |-> Task.m.of, given |-> Value.v]
  OBVIOUS
<1>6. r.type = Task.m.of /\ r.given = Value.v /\ r \in T.structs
  BY <1>4, <1>5
<1>7. Task.m.of \in DOMAIN Members /\ Typed(Value.v, Task.m.of, T)
  BY <1>2, <1>3, <1>6, TextTyped
<1>8. PICK a \in Nat : a = Task.at /\ a = Pos /\ Ends(Task) = a + Size[Task.m.of]
  <2>1. MemberSize(Task.m) = Size[Task.m.of]
    BY <1>4 DEF MemberSize, ElementSize
  <2>. QED  BY <1>1, <1>4, <2>1, NextTask
<1>9. PICK s : s = StructTasks(Task.m.of, a, Value.v)
  OBVIOUS
<1>10. s \in Seq(SeekTasks(T)) /\ TakeUp(s, a, a + Size[Task.m.of])
  BY <1>7, <1>9, StructTasksGood
<1>11. s \in Seq(GoodTasks(T)) /\ \A k \in DOMAIN s : s[k].seek
  BY <1>10, SeekLinked
<1>12. AllApart(s)
  BY <1>10 DEF TakeUp
<1>13. PICK p : p = pos'
  OBVIOUS
<1>14. TodoFilled(s, p)
  BY <1>11, <1>12, SeekFilled
<1>15. Jumps(Task)
  BY <1>4 DEF Jumps
<1>16. todo' = s \o Tail(todo) /\ UNCHANGED <<buf, end, refs, ptrs, resolved>>
  BY <1>8, <1>9 DEF PackStruct, sectionVars
<1>17. TakeUp(s, Task.at, Ends(Task))
  BY <1>8, <1>10
<1>. QED  BY <1>1, <1>2, <1>11, <1>13, <1>14, <1>15, <1>16, <1>17, ReplacedFilled

(* An inline array's cells are held by the tasks of its elements and those *)
(* that fill it up.                                                        *)
LEMMA PackInlineArrayFilled ==
  ASSUME RefsLast, PackInv, PackInv', ~dummy, Filled, PackInlineArray
  PROVE  Filled'
<1>1. /\ todo # <<>> /\ Value.t = "array" /\ Task.m.atom = "inline" /\ phase' # "packed"
      /\ Live(Task) /\ Jumps(Task)
  BY DEF PackInlineArray, Packing, Live, Jumps, Value
<1>2. PICK T : T = Typing(text)
  OBVIOUS
<1>3. Task.m \in MemberDescs /\ Fits(Value, Task.m, T) /\ text \in Texts /\ Task \in GoodTasks(T)
  BY <1>1, <1>2, NextTask DEF PackInv, BlobOK
<1>4. /\ Value.v \in Seq(T.values) /\ \A i \in DOMAIN Value.v : Suits(Value.v[i], Task.m, T)
      /\ Len(Value.v) <= Task.m.count
  BY <1>1, <1>3, FitsTags DEF PackInlineArray, ArrayLength
<1>5. PICK a \in Nat : a = Task.at /\ a = Pos /\ Ends(Task) = a + MemberSize(Task.m)
  BY <1>1, NextTask
<1>6. OnlyRefsAfter(Value, Task.m)
  BY <1>1, <1>2, <1>3, ArrayOrder DEF Value
<1>7. PICK s : s = ElementTasks(Task.m, a, Value.v) \o FillTasks(Task.m, a, Len(Value.v))
  OBVIOUS
<1>8. TodoFilled(s, a) /\ s \in Seq(GoodTasks(T)) /\ TakeUp(s, a, a + MemberSize(Task.m))
  <2>1. PICK v, m : v = Value /\ m = Task.m
    OBVIOUS
  <2>. QED  BY <1>1, <1>3, <1>4, <1>6, <1>7, <2>1, InlineFilled
<1>9. pos' = a /\ todo' = s \o Tail(todo) /\ UNCHANGED <<buf, end, refs, ptrs, resolved>>
  BY <1>5, <1>7 DEF PackInlineArray, ArrayLength, sectionVars
<1>10. TakeUp(s, Task.at, Ends(Task)) /\ TodoFilled(s, pos')
  BY <1>5, <1>8, <1>9
<1>. QED  BY <1>1, <1>2, <1>8, <1>9, <1>10, ReplacedFilled

(* The elements of an array go behind the blob, the offset to its place.   *)
LEMMA PackArrayFilled ==
  ASSUME RefsLast, PackInv, PackInv', ~dummy, Filled, PackArray
  PROVE  Filled'
<1>1. /\ todo # <<>> /\ Value.t = "array" /\ Task.m.atom = "array" /\ phase' # "packed"
      /\ Live(Task) /\ Jumps(Task)
  BY DEF PackArray, Packing, Live, Jumps, Value
<1>2. PICK T, m, v : T = Typing(text) /\ m = Task.m /\ v = Value
  OBVIOUS
<1>3. m \in MemberDescs /\ Fits(v, m, T) /\ text \in Texts /\ Task \in GoodTasks(T)
  BY <1>1, <1>2, NextTask DEF PackInv, BlobOK
<1>4. v.v \in Seq(T.values) /\ \A i \in DOMAIN v.v : Suits(v.v[i], m, T)
  BY <1>1, <1>2, <1>3, FitsTags
<1>5. OnlyRefsAfter(v, m)
  BY <1>1, <1>2, <1>3, ArrayOrder DEF Value
<1>6. PICK n \in Nat : n = ArrayLength /\ n = Len(v.v)
  BY <1>2, <1>4 DEF ArrayLength
<1>7. PICK z \in Nat : z = ElementSize(m) /\ z # 0
  <2>1. Size[m.of] \in Nat \ {0}
    BY <1>3, TxtPackAssumption DEF MemberDescs
  <2>2. ElementSize(m) \in Nat /\ ElementSize(m) # 0
    BY <2>1 DEF ElementSize
  <2>. QED  BY <2>2
<1>8. PICK x \in Nat : x = n * z /\ (n # 0 => x # 0) /\ (n = 0 => x = 0)
  <2>1. n * z \in Nat
    BY Blocks
  <2>2. n # 0 => n * z # 0
    BY <1>7
  <2>3. n = 0 => n * z = 0
    BY <1>7
  <2>. QED  BY <2>1, <2>2, <2>3
<1>9. PICK a \in Nat : a = Task.at /\ a = Pos /\ Ends(Task) = a + 1 /\ a < end
  <2>1. MemberSize(Task.m) = 1
    BY <1>1 DEF MemberSize
  <2>2. Task.at \in Nat /\ Pos = Task.at /\ Ends(Task) = Task.at + MemberSize(Task.m) /\ Ends(Task) <= end
    BY <1>1, NextTask
  <2>. QED  BY <2>1, <2>2, Numbers
<1>10. PICK e \in Nat, h \in Nat, l \in Nat : e = end /\ h = HeaderCells /\ l = LastCell /\ h <= e /\ a < e /\ e <= l + 1
  BY <1>9, Numbers
<1>11. \A p \in Nat : Has(Task, p) <=> p = a
  BY <1>9 DEF Has
<1>12. PICK s : s = ElementTasks(m, e, v.v)
  OBVIOUS
<1>13. TodoFilled(s, e) /\ s \in Seq(GoodTasks(T)) /\ TakeUp(s, e, e + x)
  <2>1. e + Len(v.v) * ElementSize(m) <= e + x /\ e + x \in Nat
    BY <1>6, <1>7, <1>8
  <2>2. HeaderCells <= e
    BY <1>10
  <2>3. Len(v.v) * ElementSize(m) = x
    BY <1>6, <1>7, <1>8
  <2>4. /\ TodoFilled(s, e) /\ s \in Seq(GoodTasks(T)) /\ TakeUp(s, e, e + Len(v.v) * ElementSize(m))
    BY <1>3, <1>4, <1>5, <1>12, <2>1, <2>2, ElementsFilled
  <2>. QED  BY <2>3, <2>4
<1>14. PICK q, c, p : q \in Seq(Nat) /\
         /\ q = (IF n = 0 THEN <<>> ELSE <<a>>) /\ c = (IF n = 0 THEN Zero ELSE Off(e, n)) /\ p = pos'
  <2>1. <<>> \in Seq(Nat) /\ <<a>> \in Seq(Nat)
    OBVIOUS
  <2>. QED  BY <2>1
<1>15. /\ todo' = s \o Tail(todo) /\ refs' = refs /\ resolved' = resolved /\ end' = e + x
       /\ n # 0 => pos' = e
  BY <1>2, <1>6, <1>7, <1>8, <1>10, <1>12 DEF PackArray, sectionVars, Reserve
<1>16. ptrs' = ptrs \o q
  <2>1. ptrs \in Seq(HeaderCells..(end - 1))
    BY DEF PackInv, NotedOK
  <2>2. ptrs \o <<>> = ptrs
    BY <2>1
  <2>. QED  BY <1>6, <1>9, <1>14, <2>2 DEF PackArray, Record
<1>17. Write(At(a, <<c>>)) /\ DOMAIN buf = Positions
  BY <1>6, <1>9, <1>10, <1>14 DEF PackArray, PackInv, BlobOK
<1>18. a \in Positions
  <2>1. a \in 0..l
    BY <1>10
  <2>. QED  BY <1>10, <2>1 DEF Positions
<1>19. /\ \A y \in Positions : y # a => buf'[y] = buf[y]
       /\ buf'[a] = c
  <2>1. DOMAIN At(a, <<c>>) = {a} /\ At(a, <<c>>)[a] = c
    BY OneAt
  <2>. QED  BY <1>17, <1>18, <2>1, CellsWritten
<1>20. Unresolved' = Unresolved
  BY <1>15 DEF Unresolved
<1>21. s = <<>> \/ n # 0
  <2>1. ASSUME n = 0 PROVE s = <<>>
    <3>1. DOMAIN s = DOMAIN v.v
      BY <1>12 DEF ElementTasks
    <3>2. DOMAIN v.v = 1..n
      BY <1>4, <1>6
    <3>3. PICK G : s \in Seq(G)
      BY <1>13
    <3>4. DOMAIN s = {}
      BY <2>1, <3>1, <3>2
    <3>. QED  BY <3>3, <3>4
  <2>. QED  BY <2>1
<1>22. TodoFilled(s, p)
  <2>1. CASE n # 0
    BY <1>13, <1>14, <1>15, <2>1
  <2>2. CASE s = <<>>
    BY <1>13, <2>2 DEF TodoFilled, Exact
  <2>. QED  BY <1>21, <2>1, <2>2
<1>23. PICK hi \in Nat : hi = e + x
  OBVIOUS
<1>24. TakeUp(s, e, hi)
  BY <1>13, <1>23
<1>25. /\ TodoFilled(todo', p)
       /\ \A y : Held(todo', y) <=> Held(s, y) \/ Held(Tail(todo), y)
       /\ \A y : HeldLive(todo', y) <=> HeldLive(s, y) \/ HeldLive(Tail(todo), y)
  <2>1. end <= e
    BY <1>10
  <2>. QED  BY <1>1, <1>2, <1>13, <1>15, <1>22, <1>24, <2>1, TasksFilled
<1>26. \A y \in Nat : /\ e <= y /\ y < hi => Held(s, y)
                      /\ HeldLive(s, y) => e <= y
  BY <1>13, <1>24, HeldInRoom
<1>27. \A i \in DOMAIN ptrs : ptrs[i] # a /\ ~HeldLive(todo', ptrs[i])
  <2>1. ASSUME NEW i \in DOMAIN ptrs
        PROVE  ptrs[i] # a /\ ~HeldLive(todo', ptrs[i])
    <3>1. PICK y \in Nat : y = ptrs[i] /\ y < e /\ ~Has(Task, y) /\ ~HeldLive(Tail(todo), y)
      BY <1>1, <1>10, RecordedFree
    <3>2. ~HeldLive(s, y)
      BY <1>26, <3>1
    <3>. QED  BY <1>11, <1>25, <3>1, <3>2
  <2>. QED  BY <2>1
<1>28. ~HeldLive(todo', a)
  <2>1. ~HeldLive(s, a)
    BY <1>10, <1>26
  <2>. QED  BY <1>1, <1>11, <1>25, <2>1, NextHeld
<1>29. n # 0 => e \in HeaderCells..(end' - 1)
  <2>1. n # 0 => e \in h..(e + x - 1)
    BY <1>8, <1>10
  <2>. QED  BY <1>10, <1>15, <2>1
<1>30. WroteAt({a})
  <2>1. c.tag # "old" /\ (c.tag = "off" => n # 0 /\ c.v = e)
    BY <1>14 DEF Zero, Off, Cell
  <2>. QED  BY <1>18, <1>19, <1>27, <1>29, <2>1 DEF WroteAt
<1>31. /\ \A y : (\E i \in DOMAIN q : q[i] = y) <=> y = a /\ n # 0
       /\ IsInjective(q)
  <2>1. CASE n = 0
    BY <1>14, <2>1 DEF IsInjective
  <2>2. CASE n # 0
    <3>1. DOMAIN <<a>> = {1} /\ <<a>>[1] = a
      OBVIOUS
    <3>. QED  BY <1>14, <2>2, <3>1 DEF IsInjective
  <2>. QED  BY <2>1, <2>2
<1>32. \A i \in DOMAIN q : q[i] = a
  BY <1>31
<1>33. NotesAt({a}, q)
  <2>1. buf'[a].tag = "off" <=> n # 0
    BY <1>14, <1>19 DEF Zero, Off, Cell
  <2>. QED  BY <1>16, <1>20, <1>27, <1>31, <1>32, <2>1 DEF NotesAt
<1>34. TasksFor({a})
  <2>1. \A y \in end..(end' - 1) : Held(todo', y)
    <3>1. \A y \in e..(hi - 1) : y \in Nat /\ e <= y /\ y < hi
      OBVIOUS
    <3>2. \A y \in e..(hi - 1) : Held(todo', y)
      BY <1>25, <1>26, <3>1
    <3>. QED  BY <1>10, <1>15, <1>23, <3>2
  <2>. QED  BY <1>1, <1>11, <1>25, <2>1, NextHeld DEF TasksFor
<1>35. FreeOf(q)
  BY <1>27, <1>28, <1>32 DEF FreeOf
<1>36. end <= end' /\ Unresolved \subseteq Unresolved' /\ {a} \in SUBSET Nat /\ TodoFilled(todo', pos')
  BY <1>10, <1>14, <1>15, <1>20, <1>25
<1>37. q \in Seq(Nat)
  BY <1>14
<1>. QED  BY <1>1, <1>30, <1>33, <1>34, <1>35, <1>36, <1>37, FilledStep

-----------------------------------------------------------------------------
(* The cells of a default value.                                           *)

(* Sequences of one or no element, of which no two are the same.           *)
Ones(l, f, C) == [i \in 1..l |-> IF i \in C THEN <<f[i]>> ELSE <<>>]
IsListOf(s, S, f, C) ==
  /\ s \in Seq(S) /\ IsInjective(s)
  /\ \A p : (\E k \in DOMAIN s : s[k] = p) <=> \E i \in C : f[i] = p

(* A list made of the values at some indices has each of these values      *)
(* once.                                                                   *)
LEMMA FlatOnes ==
  ASSUME NEW S, NEW l \in Nat, NEW f \in [1..l -> S], IsInjective(f), NEW C \in SUBSET (1..l)
  PROVE  IsListOf(FlattenSeq(Ones(l, f, C)), S, f, C)
<1>0. PICK q, s : q = Ones(l, f, C) /\ s = FlattenSeq(q)
  OBVIOUS
<1>1. \A i \in 1..l : q[i] \in Seq(S) /\ (i \in C => Len(q[i]) = 1 /\ q[i][1] = f[i]) /\ (i \notin C => Len(q[i]) = 0)
  <2>1. ASSUME NEW i \in 1..l
        PROVE  q[i] \in Seq(S) /\ (i \in C => Len(q[i]) = 1 /\ q[i][1] = f[i]) /\ (i \notin C => Len(q[i]) = 0)
    <3>1. PICK x \in S : x = f[i]
      OBVIOUS
    <3>2. <<x>> \in Seq(S) /\ Len(<<x>>) = 1 /\ <<x>>[1] = x /\ <<>> \in Seq(S) /\ Len(<<>>) = 0
      OBVIOUS
    <3>3. q[i] = IF i \in C THEN <<x>> ELSE <<>>
      BY <1>0, <3>1 DEF Ones
    <3>. QED  BY <3>1, <3>2, <3>3
  <2>. QED  BY <2>1
<1>2. q \in Seq(Seq(S)) /\ Len(q) = l
  <2>1. q = [i \in 1..l |-> q[i]]
    BY <1>0 DEF Ones
  <2>2. q \in [1..l -> Seq(S)]
    BY <1>1, <2>1
  <2>. QED  BY <2>2, FunctionIsSequence
<1>3. s \in Seq(S)
  BY <1>0, <1>2, Flattened
<1>4. HasPlaces(s, q)
  BY <1>0, <1>2, FlattenPlaces
<1>5. PICK start : PlacesIn(s, q, l, start)
  BY <1>2, <1>4 DEF HasPlaces
<1>6. /\ start \in [0..l -> Nat] /\ start[l] = Len(s)
      /\ \A i \in 1..l : start[i] = start[i - 1] + Len(q[i])
      /\ \A i, j \in 0..l : i <= j => start[i] <= start[j]
      /\ \A i \in 1..l : \A j \in 1..Len(q[i]) : s[start[i - 1] + j] = q[i][j]
      /\ \A k \in 1..Len(s) : \E i \in 1..l : \E j \in 1..Len(q[i]) : k = start[i - 1] + j
  BY <1>5 DEF PlacesIn
<1>7. PICK m \in Nat : m = Len(s) /\ DOMAIN s = 1..m
  <2>1. Len(s) \in Nat /\ DOMAIN s = 1..Len(s)
    BY <1>3
  <2>. QED  BY <2>1
<1>8. \A k \in 1..m : \E i \in C : k = start[i - 1] + 1 /\ s[k] = f[i]
  <2>1. ASSUME NEW k \in 1..m
        PROVE  \E i \in C : k = start[i - 1] + 1 /\ s[k] = f[i]
    <3>1. PICK i \in 1..l : \E j \in 1..Len(q[i]) : k = start[i - 1] + j
      BY <1>6, <1>7
    <3>2. PICK j \in 1..Len(q[i]) : k = start[i - 1] + j
      BY <3>1
    <3>3. i \in C /\ j = 1
      <4>1. Len(q[i]) = 0 => FALSE
        BY <3>2
      <4>2. i \in C /\ Len(q[i]) = 1
        BY <1>1, <4>1
      <4>. QED  BY <3>2, <4>2
    <3>4. s[k] = f[i]
      BY <1>1, <1>6, <3>2, <3>3
    <3>. QED  BY <3>2, <3>3, <3>4
  <2>. QED  BY <2>1
<1>9. \A i \in C : \E k \in 1..m : s[k] = f[i]
  <2>1. ASSUME NEW i \in C
        PROVE  \E k \in 1..m : s[k] = f[i]
    <3>1. i \in 1..l /\ Len(q[i]) = 1 /\ q[i][1] = f[i]
      BY <1>1
    <3>2. 1 \in 1..Len(q[i])
      BY <3>1
    <3>3. s[start[i - 1] + 1] = f[i]
      BY <1>6, <3>1, <3>2
    <3>4. start[i] = start[i - 1] + 1
      BY <1>6, <3>1
    <3>5. i \in 0..l /\ l \in 0..l /\ i <= l /\ i - 1 \in 0..l
      BY <3>1
    <3>6. start[i] <= start[l] /\ start[i - 1] \in Nat
      BY <1>6, <3>5
    <3>7. start[i - 1] + 1 \in 1..m
      BY <1>6, <1>7, <3>4, <3>6
    <3>. QED  BY <3>3, <3>7
  <2>. QED  BY <2>1
<1>10. IsInjective(s)
  <2>1. ASSUME NEW j \in 1..m, NEW k \in 1..m, s[j] = s[k]
        PROVE  j = k
    <3>1. PICK i \in C : j = start[i - 1] + 1 /\ s[j] = f[i]
      BY <1>8
    <3>2. PICK x \in C : k = start[x - 1] + 1 /\ s[k] = f[x]
      BY <1>8
    <3>3. i = x
      BY <2>1, <3>1, <3>2 DEF IsInjective
    <3>. QED  BY <3>1, <3>2, <3>3
  <2>. QED  BY <1>7, <2>1 DEF IsInjective
<1>11. ASSUME NEW p
       PROVE  (\E k \in DOMAIN s : s[k] = p) <=> \E i \in C : f[i] = p
  <2>1. ASSUME NEW k \in DOMAIN s, s[k] = p PROVE \E i \in C : f[i] = p
    <3>1. PICK i \in C : s[k] = f[i]
      BY <1>7, <1>8
    <3>. QED  BY <2>1, <3>1
  <2>2. ASSUME NEW i \in C, f[i] = p PROVE \E k \in DOMAIN s : s[k] = p
    <3>1. PICK k \in 1..m : s[k] = f[i]
      BY <1>9
    <3>. QED  BY <1>7, <2>2, <3>1
  <2>. QED  BY <2>1, <2>2
<1>12. IsListOf(s, S, f, C)
  BY <1>3, <1>10, <1>11 DEF IsListOf
<1>. QED  BY <1>0, <1>12

(* The first n cells of a value at one place, the others at another one.   *)
PlaceOf(a, e, n, l) == [i \in 1..l |-> IF i <= n THEN a + i - 1 ELSE e + i - n - 1]
InRuns(p, a, e, n, l) == (a <= p /\ p < a + n) \/ (e <= p /\ p < e + (l - n))

RunsOf(cells, a, e, n, l) == Both(At(a, SubSeq(cells, 1, n)), At(e, SubSeq(cells, n + 1, l)))
AreRuns(b, f, cells, a, e, n, l) ==
  /\ f \in [1..l -> Nat] /\ IsInjective(f)
  /\ \A i \in 1..l : InRuns(f[i], a, e, n, l) /\ f[i] \in DOMAIN b /\ b[f[i]] = cells[i]
  /\ \A p \in Nat : InRuns(p, a, e, n, l) => \E i \in 1..l : f[i] = p
  /\ \A p \in DOMAIN b : p \in Nat /\ InRuns(p, a, e, n, l)

(* Cells written as two runs, by their positions.                          *)
LEMMA TwoRuns ==
  ASSUME NEW C, NEW cells \in Seq(C), NEW n \in Nat, NEW l \in Nat, Len(cells) = l, n <= l,
         NEW a \in Nat, NEW e \in Nat, a + n <= e
  PROVE  AreRuns(RunsOf(cells, a, e, n, l), PlaceOf(a, e, n, l), cells, a, e, n, l)
<1>0. PICK b, f : b = RunsOf(cells, a, e, n, l) /\ f = PlaceOf(a, e, n, l)
  OBVIOUS
<1>1. PICK x \in Nat : x = l - n /\ l = n + x
  <2>1. l - n \in Nat /\ l = n + (l - n)
    OBVIOUS
  <2>. QED  BY <2>1
<1>2. PICK c, d : c = SubSeq(cells, 1, n) /\ d = SubSeq(cells, n + 1, l)
  OBVIOUS
<1>3. /\ Len(c) = n /\ \A i \in 1..n : c[i] = cells[i]
      /\ Len(d) = x /\ \A i \in 1..x : d[i] = cells[n + i]
  <2>1. \A i \in 1..n : i \in 1..l
    OBVIOUS
  <2>2. \A i \in 1..x : n + i \in 1..l
    BY <1>1
  <2>3. Len(c) = n /\ \A i \in 1..n : c[i] = cells[i]
    BY <1>2
  <2>4. Len(d) = x
    BY <1>1, <1>2
  <2>5. \A i \in 1..x : d[i] = cells[n + 1 + i - 1]
    BY <1>1, <1>2
  <2>6. \A i \in 1..x : n + 1 + i - 1 = n + i
    OBVIOUS
  <2>. QED  BY <2>3, <2>4, <2>5, <2>6
<1>4. PICK A, E : A = At(a, c) /\ E = At(e, d)
  OBVIOUS
<1>5. /\ DOMAIN A = a..(a + n - 1) /\ \A p \in a..(a + n - 1) : A[p] = c[p - a + 1]
      /\ DOMAIN E = e..(e + x - 1) /\ \A p \in e..(e + x - 1) : E[p] = d[p - e + 1]
  BY <1>3, <1>4 DEF At
<1>6. /\ DOMAIN b = a..(a + n - 1) \union e..(e + x - 1)
      /\ \A p \in DOMAIN A : b[p] = A[p]
      /\ \A p \in DOMAIN E : p \notin DOMAIN A => b[p] = E[p]
  <2>1. b = Both(A, E)
    BY <1>0, <1>2, <1>4 DEF RunsOf
  <2>. QED  BY <1>5, <2>1 DEF Both
<1>7. \A i \in 1..l : f[i] = IF i <= n THEN a + i - 1 ELSE e + i - n - 1
  BY <1>0 DEF PlaceOf
<1>8. ASSUME NEW i \in 1..l
      PROVE  /\ f[i] \in Nat /\ InRuns(f[i], a, e, n, l) /\ f[i] \in DOMAIN b /\ b[f[i]] = cells[i]
  <2>1. CASE i <= n
    <3>1. PICK p \in Nat : p = a + i - 1 /\ p \in a..(a + n - 1) /\ p - a + 1 = i /\ i \in 1..n
      <4>1. /\ a + i - 1 \in Nat /\ a + i - 1 \in a..(a + n - 1) /\ (a + i - 1) - a + 1 = i /\ i \in 1..n
        BY <2>1
      <4>. QED  BY <4>1
    <3>2. f[i] = p
      BY <1>7, <2>1, <3>1
    <3>3. A[p] = cells[i] /\ b[p] = A[p]
      <4>1. A[p] = c[p - a + 1] /\ p \in DOMAIN A
        BY <1>5, <3>1
      <4>2. A[p] = c[i]
        BY <3>1, <4>1
      <4>. QED  BY <1>3, <1>6, <3>1, <4>1, <4>2
    <3>4. a <= p /\ p < a + n
      BY <3>1
    <3>. QED  BY <1>6, <3>1, <3>2, <3>3, <3>4 DEF InRuns
  <2>2. CASE ~(i <= n)
    <3>1. PICK j \in 1..x : i = n + j
      <4>1. i - n \in 1..x /\ i = n + (i - n)
        BY <1>1, <2>2
      <4>. QED  BY <4>1
    <3>2. PICK p \in Nat : p = e + j - 1 /\ p \in e..(e + x - 1) /\ p - e + 1 = j /\ p \notin a..(a + n - 1)
      <4>1. /\ e + j - 1 \in Nat /\ e + j - 1 \in e..(e + x - 1) /\ (e + j - 1) - e + 1 = j
            /\ e + j - 1 \notin a..(a + n - 1)
        OBVIOUS
      <4>. QED  BY <4>1
    <3>3. f[i] = p
      <4>1. f[i] = e + i - n - 1
        BY <1>7, <2>2
      <4>. QED  BY <3>1, <3>2, <4>1
    <3>4. E[p] = cells[i] /\ b[p] = E[p]
      <4>1. E[p] = d[p - e + 1] /\ p \in DOMAIN E /\ p \notin DOMAIN A
        BY <1>5, <3>2
      <4>2. E[p] = d[j]
        BY <3>2, <4>1
      <4>. QED  BY <1>3, <1>6, <3>1, <4>1, <4>2
    <3>5. e <= p /\ p < e + (l - n)
      BY <1>1, <3>2
    <3>. QED  BY <1>6, <3>2, <3>3, <3>4, <3>5 DEF InRuns
  <2>. QED  BY <2>1, <2>2
<1>9. f \in [1..l -> Nat]
  <2>1. f = [i \in 1..l |-> f[i]]
    BY <1>0 DEF PlaceOf
  <2>. QED  BY <1>8, <2>1
<1>10. IsInjective(f)
  <2>1. ASSUME NEW i \in 1..l, NEW j \in 1..l, f[i] = f[j]
        PROVE  i = j
    <3>1. (IF i <= n THEN a + i - 1 ELSE e + i - n - 1) = (IF j <= n THEN a + j - 1 ELSE e + j - n - 1)
      BY <1>7, <2>1
    <3>. QED  BY <3>1
  <2>. QED  BY <1>9, <2>1 DEF IsInjective
<1>11. ASSUME NEW p \in Nat, InRuns(p, a, e, n, l)
       PROVE  \E i \in 1..l : f[i] = p
  <2>1. CASE a <= p /\ p < a + n
    <3>1. p - a + 1 \in 1..l /\ p - a + 1 <= n /\ a + (p - a + 1) - 1 = p
      BY <2>1
    <3>. QED  BY <1>7, <3>1
  <2>2. CASE e <= p /\ p < e + (l - n)
    <3>1. /\ n + (p - e) + 1 \in 1..l /\ ~(n + (p - e) + 1 <= n)
          /\ e + (n + (p - e) + 1) - n - 1 = p
      BY <2>2
    <3>. QED  BY <1>7, <3>1
  <2>. QED  BY <1>11, <2>1, <2>2 DEF InRuns
<1>12. ASSUME NEW p \in DOMAIN b
       PROVE  p \in Nat /\ InRuns(p, a, e, n, l)
  <2>1. p \in a..(a + n - 1) \/ p \in e..(e + x - 1)
    BY <1>6
  <2>2. p \in Nat /\ ((a <= p /\ p < a + n) \/ (e <= p /\ p < e + (l - n)))
    BY <1>1, <2>1
  <2>. QED  BY <2>2 DEF InRuns
<1>13. AreRuns(b, f, cells, a, e, n, l)
  BY <1>8, <1>9, <1>10, <1>11, <1>12 DEF AreRuns
<1>. QED  BY <1>0, <1>13

(* The cells of the next task's default value, with the offsets moved.     *)
MovedCell(c, n) == IF c.tag = "off" THEN [c EXCEPT !.v = @ + end - n - HeaderCells] ELSE c
MovedCells(n) == [i \in DOMAIN DefaultCells(Task.m) |-> MovedCell(DefaultCells(Task.m)[i], n)]

(* What a default value writes.                                            *)
LEMMA DefaultWritten ==
  ASSUME PackDefault
  PROVE  LET n == MemberSize(Task.m)
             moved == MovedCells(n)
         IN Write(Both(At(Pos, SubSeq(moved, 1, n)), At(end, SubSeq(moved, n + 1, Len(moved)))))
BY DEF PackDefault, MovedCells, MovedCell

(* An offset of a default value leads to what is behind the blob.          *)
LEMMA CellMoved ==
  ASSUME NEW m, NEW c \in Contents(m), NEW n \in Nat, NEW l \in Nat, n <= l, end \in Nat, HeaderCells \in Nat,
         c.tag = "off" => c.v \in Nat /\ HeaderCells + n <= c.v /\ c.v < HeaderCells + l
  PROVE  /\ MovedCell(c, n).tag = c.tag /\ c.tag # "old"
         /\ c.tag = "off" => /\ MovedCell(c, n).v \in Nat /\ end <= MovedCell(c, n).v
                             /\ MovedCell(c, n).v < end + (l - n)
<1>1. c.tag # "old" /\ c = [tag |-> c.tag, v |-> c.v, n |-> c.n]
  BY DEF Contents
<1>2. CASE c.tag # "off"
  BY <1>1, <1>2 DEF MovedCell
<1>3. CASE c.tag = "off"
  <2>1. PICK w : w = c.v + end - n - HeaderCells
    OBVIOUS
  <2>2. MovedCell(c, n) = [tag |-> c.tag, v |-> w, n |-> c.n]
    BY <1>1, <1>3, <2>1 DEF MovedCell
  <2>3. w \in Nat /\ end <= w /\ w < end + (l - n)
    BY <1>3, <2>1
  <2>. QED  BY <1>1, <2>2, <2>3
<1>. QED  BY <1>2, <1>3

(* A default value is copied, what it refers to goes behind the blob.      *)
LEMMA PackDefaultFilled ==
  ASSUME PackInv, PackInv', ~dummy, Filled, PackDefault
  PROVE  Filled'
<1>1. /\ todo # <<>> /\ Value.t = "default" /\ Task.m.default.t # "invalid" /\ phase' # "packed"
      /\ Live(Task) /\ Jumps(Task)
  BY DEF PackDefault, Packing, Live, Jumps, Value
<1>2. /\ Task.m \in MemberDescs /\ DefaultFits(Task.m)
      /\ Pos \in Nat /\ Pos = Task.at /\ MemberSize(Task.m) \in Nat
      /\ Ends(Task) = Task.at + MemberSize(Task.m) /\ Ends(Task) <= end
  BY <1>1, NextTask
<1>3. PICK cells : cells = DefaultCells(Task.m) /\ DefaultGood(cells, Task.m)
  BY <1>1, <1>2, DefaultCellsGood
<1>4. PICK n \in Nat, l \in Nat : n = MemberSize(Task.m) /\ l = Len(cells) /\ DOMAIN cells = 1..l /\ n <= l
  BY <1>2, <1>3 DEF DefaultGood
<1>5. PICK e \in Nat, a \in Nat, h \in Nat, z \in Nat : e = end /\ a = Pos /\ h = HeaderCells /\ z = LastCell /\ h <= e
  BY <1>2, Numbers
<1>6. a + n <= e /\ a = Task.at /\ Ends(Task) = a + n
  BY <1>2, <1>4, <1>5
<1>7. PICK x \in Nat : x = l - n
  <2>1. l - n \in Nat
    BY <1>4
  <2>. QED  BY <2>1
<1>8. e + x <= z + 1 /\ Record(DefaultPtrs(n)) /\ end' = e + x
  <2>1. x = Len(DefaultCells(Task.m)) - MemberSize(Task.m)
    BY <1>3, <1>4, <1>7
  <2>. QED  BY <1>4, <1>5, <2>1, DefaultPacked DEF Room
<1>9. PICK moved : moved = MovedCells(n)
  OBVIOUS
<1>10. moved = [i \in 1..l |-> MovedCell(cells[i], n)]
  BY <1>3, <1>4, <1>9 DEF MovedCells
<1>11. PICK S : S = {moved[i] : i \in 1..l}
  OBVIOUS
<1>12. moved \in Seq(S) /\ Len(moved) = l
  <2>1. moved = [i \in 1..l |-> moved[i]]
    BY <1>10
  <2>2. moved \in [1..l -> S]
    BY <1>11, <2>1
  <2>. QED  BY <2>2, FunctionIsSequence
<1>13. PICK b, f : b = RunsOf(moved, a, e, n, l) /\ f = PlaceOf(a, e, n, l)
  OBVIOUS
<1>14. Write(b) /\ DOMAIN buf = Positions
  BY <1>4, <1>5, <1>9, <1>12, <1>13, DefaultWritten DEF RunsOf, PackInv, BlobOK
<1>15. /\ f \in [1..l -> Nat] /\ IsInjective(f)
       /\ \A i \in 1..l : InRuns(f[i], a, e, n, l) /\ f[i] \in DOMAIN b /\ b[f[i]] = moved[i]
       /\ \A p \in Nat : InRuns(p, a, e, n, l) => \E i \in 1..l : f[i] = p
       /\ \A p \in DOMAIN b : p \in Nat /\ InRuns(p, a, e, n, l)
  <2>1. AreRuns(RunsOf(moved, a, e, n, l), PlaceOf(a, e, n, l), moved, a, e, n, l)
    BY <1>4, <1>6, <1>12, TwoRuns
  <2>2. AreRuns(b, f, moved, a, e, n, l)
    BY <1>13, <2>1
  <2>. QED  BY <2>2 DEF AreRuns
<1>16. PICK W \in SUBSET Nat : W = {p \in Nat : InRuns(p, a, e, n, l)}
  OBVIOUS
<1>17. W \subseteq Positions
  <2>1. ASSUME NEW p \in W PROVE p \in 0..z
    <3>1. (a <= p /\ p < a + n) \/ (e <= p /\ p < e + (l - n))
      BY <1>16 DEF InRuns
    <3>. QED  BY <1>6, <1>7, <1>8, <3>1
  <2>. QED  BY <1>5, <2>1 DEF Positions
<1>18. /\ \A p \in Positions : p \notin W => buf'[p] = buf[p]
       /\ \A i \in 1..l : f[i] \in W /\ buf'[f[i]] = moved[i]
       /\ \A p \in W : \E i \in 1..l : f[i] = p
  <2>1. DOMAIN b \subseteq W
    BY <1>15, <1>16
  <2>2. ASSUME NEW i \in 1..l PROVE f[i] \in W /\ buf'[f[i]] = moved[i]
    <3>1. PICK p \in Nat : p = f[i] /\ InRuns(p, a, e, n, l) /\ p \in DOMAIN b /\ b[p] = moved[i]
      BY <1>15
    <3>2. p \in W /\ p \in Positions
      BY <1>16, <1>17, <3>1
    <3>3. buf'[p] = b[p]
      BY <1>14, <3>1, <3>2, CellsWritten
    <3>. QED  BY <3>1, <3>2, <3>3
  <2>3. \A p \in Positions : p \notin W => buf'[p] = buf[p]
    BY <1>14, <2>1, CellsWritten
  <2>4. \A p \in W : \E i \in 1..l : f[i] = p
    BY <1>15, <1>16
  <2>. QED  BY <2>2, <2>3, <2>4
<1>19. \A i \in 1..l : /\ moved[i].tag = cells[i].tag /\ moved[i].tag # "old"
                       /\ moved[i].tag = "off" => moved[i].v \in HeaderCells..(end' - 1)
  <2>1. ASSUME NEW i \in 1..l
        PROVE  /\ moved[i].tag = cells[i].tag /\ moved[i].tag # "old"
               /\ moved[i].tag = "off" => moved[i].v \in HeaderCells..(end' - 1)
    <3>1. cells[i] \in Contents(Task.m)
      BY <1>3, <1>4 DEF DefaultGood
    <3>2. cells[i].tag = "off" => cells[i].v \in Nat /\ HeaderCells + n <= cells[i].v /\ cells[i].v < HeaderCells + l
      BY <1>3, <1>4 DEF DefaultGood
    <3>3. /\ MovedCell(cells[i], n).tag = cells[i].tag /\ cells[i].tag # "old"
          /\ cells[i].tag = "off" => /\ MovedCell(cells[i], n).v \in Nat /\ end <= MovedCell(cells[i], n).v
                                     /\ MovedCell(cells[i], n).v < end + (l - n)
      BY <1>4, <1>5, <3>1, <3>2, CellMoved
    <3>4. moved[i] = MovedCell(cells[i], n)
      BY <1>10
    <3>5. ASSUME moved[i].tag = "off" PROVE moved[i].v \in h..(e + x - 1)
      <4>1. moved[i].v \in Nat /\ e <= moved[i].v /\ moved[i].v < e + x
        BY <1>5, <1>7, <3>3, <3>4, <3>5
      <4>. QED  BY <1>5, <4>1
    <3>6. HeaderCells..(end' - 1) = h..(e + x - 1)
      BY <1>5, <1>8
    <3>. QED  BY <3>3, <3>4, <3>5, <3>6
  <2>. QED  BY <2>1
<1>20. PICK C \in SUBSET (1..l) : C = {i \in 1..l : cells[i].tag = "off"}
  OBVIOUS
<1>21. PICK q, s : q = Ones(l, f, C) /\ s = FlattenSeq(q)
  OBVIOUS
<1>22. /\ s \in Seq(Nat) /\ IsInjective(s)
       /\ \A p : (\E k \in DOMAIN s : s[k] = p) <=> \E i \in C : f[i] = p
  <2>1. f \in [1..l -> Nat] /\ IsInjective(f)
    BY <1>15
  <2>2. IsListOf(FlattenSeq(Ones(l, f, C)), Nat, f, C)
    BY <2>1, FlatOnes
  <2>3. IsListOf(s, Nat, f, C)
    BY <1>21, <2>2
  <2>. QED  BY <2>3 DEF IsListOf
<1>23. DefaultPtrs(n) = s
  <2>1. DefaultPlace(n) = f
    BY <1>3, <1>4, <1>5, <1>13 DEF DefaultPlace, PlaceOf
  <2>2. DefaultPtrs(n) = FlattenSeq([i \in 1..l |-> IF cells[i].tag = "off" THEN <<f[i]>> ELSE <<>>])
    BY <1>3, <1>4, <2>1 DEF DefaultPtrs
  <2>3. [i \in 1..l |-> IF cells[i].tag = "off" THEN <<f[i]>> ELSE <<>>] = q
    BY <1>20, <1>21 DEF Ones
  <2>. QED  BY <1>21, <2>2, <2>3
<1>24. ptrs' = ptrs \o s
  BY <1>8, <1>23 DEF Record
<1>25. refs' = refs /\ resolved' = resolved /\ todo' = Tail(todo) /\ Unresolved' = Unresolved
  BY DEF PackDefault, sectionVars, Unresolved
<1>26. \A p \in Nat : p \in W <=> Has(Task, p) \/ (e <= p /\ p < e + x)
  <2>1. \A p \in Nat : Has(Task, p) <=> a <= p /\ p < a + n
    BY <1>6 DEF Has
  <2>. QED  BY <1>7, <1>16, <2>1 DEF InRuns
<1>27. \A i \in DOMAIN ptrs : ptrs[i] \notin W /\ ~HeldLive(todo', ptrs[i])
  <2>1. ASSUME NEW i \in DOMAIN ptrs
        PROVE  ptrs[i] \notin W /\ ~HeldLive(todo', ptrs[i])
    <3>1. PICK y \in Nat : y = ptrs[i] /\ y < e /\ ~Has(Task, y) /\ ~HeldLive(Tail(todo), y)
      BY <1>1, <1>5, RecordedFree
    <3>2. y \notin W
      BY <1>26, <3>1
    <3>. QED  BY <1>25, <3>1, <3>2
  <2>. QED  BY <2>1
<1>28. \A p \in W : ~HeldLive(todo', p)
  <2>1. ASSUME NEW p \in W PROVE ~HeldLive(todo', p)
    <3>1. p \in Nat /\ (Has(Task, p) \/ e <= p)
      BY <1>26
    <3>2. HeldLive(Tail(todo), p) => ~Has(Task, p) /\ HeldLive(todo, p) /\ p < e
      BY <1>1, <1>5, <3>1, NextHeld
    <3>. QED  BY <1>25, <3>1, <3>2
  <2>. QED  BY <2>1
<1>29. WroteAt(W)
  <2>1. ASSUME NEW p \in W
        PROVE  /\ p \in Positions /\ buf'[p].tag # "old"
               /\ buf'[p].tag = "off" => buf'[p].v \in HeaderCells..(end' - 1)
               /\ \A i \in DOMAIN ptrs : ptrs[i] # p
    <3>1. PICK i \in 1..l : f[i] = p
      BY <1>18
    <3>2. buf'[p] = moved[i]
      BY <1>18, <3>1
    <3>. QED  BY <1>17, <1>19, <1>27, <3>2
  <2>. QED  BY <1>18, <2>1 DEF WroteAt
<1>30. NotesAt(W, s)
  <2>1. \A p : (\E i \in C : f[i] = p) <=> p \in W /\ buf'[p].tag = "off"
    <3>1. ASSUME NEW i \in C PROVE f[i] \in W /\ buf'[f[i]].tag = "off"
      BY <1>18, <1>19, <1>20
    <3>2. ASSUME NEW p \in W, buf'[p].tag = "off" PROVE \E i \in C : f[i] = p
      <4>1. PICK i \in 1..l : f[i] = p
        BY <1>18
      <4>2. buf'[p] = moved[i]
        BY <1>18, <4>1
      <4>3. i \in C
        BY <1>19, <1>20, <3>2, <4>2
      <4>. QED  BY <4>1, <4>3
    <3>. QED  BY <3>1, <3>2
  <2>2. \A p : (\E i \in DOMAIN s : s[i] = p) <=> p \in W /\ buf'[p].tag = "off"
    BY <1>22, <2>1
  <2>3. \A i \in DOMAIN s : s[i] \in W
    BY <2>2
  <2>4. \A i \in DOMAIN s : \A j \in DOMAIN ptrs : ptrs[j] # s[i]
    BY <1>27, <2>3
  <2>. QED  BY <1>22, <1>24, <1>25, <2>2, <2>4 DEF NotesAt
<1>31. \A i \in DOMAIN s : s[i] \in W
  BY <1>25, <1>30 DEF NotesAt
<1>32. TasksFor(W)
  <2>1. \A y \in end..(end' - 1) : y \in W
    <3>1. \A y \in e..(e + x - 1) : y \in Nat /\ e <= y /\ y < e + x
      OBVIOUS
    <3>2. \A y \in e..(e + x - 1) : y \in W
      BY <1>26, <3>1
    <3>. QED  BY <1>5, <1>8, <3>2
  <2>. QED  BY <1>1, <1>25, <1>26, <2>1, NextHeld DEF TasksFor
<1>33. FreeOf(s)
  BY <1>27, <1>28, <1>31 DEF FreeOf
<1>34. TodoFilled(todo', pos')
  <2>1. PICK p : p = pos'
    OBVIOUS
  <2>2. TodoFilled(Tail(todo), p)
    BY <1>1, NextFilled
  <2>. QED  BY <1>25, <2>1, <2>2
<1>35. end <= end' /\ Unresolved \subseteq Unresolved'
  BY <1>5, <1>8, <1>25
<1>. QED  BY <1>1, <1>22, <1>29, <1>30, <1>32, <1>33, <1>34, <1>35, FilledStep

-----------------------------------------------------------------------------
(* The steps between the items, when no task is left.                      *)
LEMMA NothingHeld == \A p : ~Held(<<>>, p) /\ ~HeldLive(<<>>, p)
BY DEF Held, HeldLive

(* Nothing is to be done in order.                                         *)
LEMMA NothingTodo ==
  ASSUME NEW p
  PROVE  TodoFilled(<<>>, p)
BY DEF TodoFilled, AllApart, StrictLinked, Exact

(* What is recorded is in the blob.                                        *)
LEMMA PtrsBelow ==
  ASSUME PackInv
  PROVE  \A i \in DOMAIN ptrs : ptrs[i] \in Nat /\ ptrs[i] < end
<1>1. PICK e \in Nat, h \in Nat : e = end /\ h = HeaderCells
  BY Numbers
<1>2. ptrs \in Seq(h..(e - 1))
  BY <1>1 DEF PackInv, NotedOK
<1>3. \A i \in DOMAIN ptrs : ptrs[i] \in h..(e - 1)
  BY <1>2
<1>4. \A y \in h..(e - 1) : y \in Nat /\ y < e
  OBVIOUS
<1>. QED  BY <1>1, <1>3, <1>4

(* The struct of an item is of the type the references take it for.        *)
LEMMA ItemTyped ==
  ASSUME PackInv, Finalizing, MoreItems, NEW i \in RefsTo(Entry.name)
  PROVE  refs[i].type \in DOMAIN Members /\ Typed(Entry.value, refs[i].type, Typing(text))
<1>1. PICK type : type = refs[i].type
  OBVIOUS
<1>2. type \in DOMAIN Members /\ type = Types[Entry.name] /\ Entry.name \in DOMAIN Types
  <2>1. PICK R : R = [name : DOMAIN Types, type : DOMAIN Members, at : Nat]
    OBVIOUS
  <2>2. refs \in Seq(R) /\ i \in DOMAIN refs /\ refs[i].name = Entry.name
    BY <2>1 DEF PackInv, NotedOK, RefsTo, SameName
  <2>3. refs[i] \in R
    BY <2>2
  <2>4. refs[i].type = Types[refs[i].name]
    BY <2>2 DEF PackInv, NotedOK
  <2>. QED  BY <1>1, <2>1, <2>2, <2>3, <2>4
<1>3. text \in Texts /\ item + 1 \in 1..Len(text.section) /\ Entry = text.section[item + 1]
  <2>1. text \in Texts /\ item \in Nat /\ item < Len(text.section)
    BY DEF PackInv, BlobOK, ItemsOK, MoreItems
  <2>2. Len(text.section) \in Nat
    BY <2>1, TextTyped
  <2>. QED  BY <2>1, <2>2 DEF Entry
<1>4. PICK r : r = [type |-> Types[Entry.name], given |-> Entry.value]
  OBVIOUS
<1>5. r \in Typing(text).structs
  BY <1>2, <1>3, <1>4, TextTyped
<1>6. r.type = type /\ r.given = Entry.value
  BY <1>2, <1>4
<1>. QED  BY <1>1, <1>2, <1>3, <1>5, <1>6, TextTyped

(* The struct of the next item takes up the room behind the blob.          *)
LEMMA PackItemFilled ==
  ASSUME PackInv, PackInv', ~dummy, Filled, PackItem
  PROVE  Filled'
<1>1. PICK T : T = Typing(text)
  OBVIOUS
<1>2. PICK i \in RefsTo(Entry.name) : /\ todo' = StructTasks(refs[i].type, end, Entry.value)
                                      /\ Reserve(Size[refs[i].type])
  BY DEF PackItem
<1>3. PICK type, v : type = refs[i].type /\ v = Entry.value
  OBVIOUS
<1>4. Finalizing /\ MoreItems /\ todo = <<>> /\ phase' # "packed"
  BY DEF PackItem, Finalizing
<1>5. type \in DOMAIN Members /\ Typed(v, type, T)
  BY <1>1, <1>3, <1>4, ItemTyped
<1>6. PICK z \in Nat, e \in Nat : z = Size[type] /\ e = end
  BY <1>5, Numbers, TxtPackAssumption
<1>7. PICK s, p : s = StructTasks(type, e, v) /\ p = pos'
  OBVIOUS
<1>8. s \in Seq(SeekTasks(T)) /\ TakeUp(s, e, e + z)
  BY <1>5, <1>6, <1>7, StructTasksGood
<1>9. s \in Seq(GoodTasks(T)) /\ \A k \in DOMAIN s : s[k].seek
  BY <1>8, SeekLinked
<1>10. TodoFilled(s, p)
  BY <1>8, <1>9, SeekFilled DEF TakeUp
<1>11. /\ todo' = s /\ end' = e + z /\ buf' = buf /\ ptrs' = ptrs /\ refs' = refs /\ resolved' = resolved
       /\ Unresolved' = Unresolved
  BY <1>2, <1>3, <1>6, <1>7 DEF PackItem, Reserve, Unresolved
<1>12. PICK hi \in Nat : hi = e + z
  OBVIOUS
<1>13. TakeUp(s, e, hi)
  BY <1>8, <1>12
<1>14. \A y \in Nat : (e <= y /\ y < hi => Held(s, y)) /\ (HeldLive(s, y) => e <= y)
  BY <1>9, <1>13, HeldInRoom
<1>15. \A k \in DOMAIN ptrs : ~HeldLive(todo', ptrs[k])
  <2>1. ASSUME NEW k \in DOMAIN ptrs PROVE ~HeldLive(s, ptrs[k])
    <3>1. PICK y \in Nat : y = ptrs[k] /\ y < e
      BY <1>6, PtrsBelow
    <3>. QED  BY <1>14, <3>1
  <2>. QED  BY <1>11, <2>1
<1>16. WroteAt({})
  BY <1>11 DEF WroteAt
<1>17. NotesAt({}, <<>>)
  <2>1. ptrs \in Seq(HeaderCells..(end - 1))
    BY DEF PackInv, NotedOK
  <2>2. ptrs' = ptrs \o <<>>
    BY <1>11, <2>1
  <2>. QED  BY <1>11, <2>2 DEF NotesAt, IsInjective
<1>18. TasksFor({})
  <2>1. \A y \in end..(end' - 1) : Held(todo', y)
    <3>1. \A y \in e..(hi - 1) : y \in Nat /\ e <= y /\ y < hi
      OBVIOUS
    <3>2. \A y \in e..(hi - 1) : Held(todo', y)
      BY <1>11, <1>14, <3>1
    <3>. QED  BY <1>6, <1>11, <1>12, <3>2
  <2>. QED  BY <1>4, <2>1, NothingHeld DEF TasksFor
<1>19. FreeOf(<<>>)
  BY <1>15 DEF FreeOf
<1>20. end <= end' /\ Unresolved \subseteq Unresolved' /\ {} \in SUBSET Nat /\ <<>> \in Seq(Nat)
  BY <1>6, <1>11
<1>21. TodoFilled(todo', pos')
  BY <1>7, <1>10, <1>11
<1>. QED  BY <1>4, <1>16, <1>17, <1>18, <1>19, <1>20, <1>21, FilledStep

(* What changes is the phase, and it is "packed" only when all is done.    *)
LEMMA PhaseFilled ==
  ASSUME Filled, UNCHANGED <<buf, pos, end, todo, refs, ptrs, resolved>>,
         phase' = "packed" => todo = <<>> /\ Unresolved = {}
  PROVE  Filled'
<1>1. Unresolved' = Unresolved /\ Offs' = Offs
  BY DEF Unresolved, Offs
<1>2. PlacesOK'
  BY <1>1 DEF Filled, PlacesOK
<1>3. RecordedOK'
  BY <1>1 DEF Filled, RecordedOK
<1>4. OffsetsOK'
  BY <1>1 DEF Filled, OffsetsOK
<1>5. EndOK'
  BY <1>1 DEF EndOK
<1>6. TodoFilled(todo, pos)'
  BY DEF Filled
<1>. QED  BY <1>2, <1>3, <1>4, <1>5, <1>6 DEF Filled

(* In the end there is no reference to be resolved.                        *)
LEMMA AllResolved ==
  ASSUME PackInv, refs = <<>> \/ resolved = Len(refs)
  PROVE  Unresolved = {}
<1>1. PICK n \in Nat, k \in Nat : n = Len(refs) /\ k = resolved
  BY DEF PackInv, NotedOK, ItemsOK
<1>2. n <= k
  BY <1>1
<1>3. (k + 1)..n = {}
  BY <1>2
<1>. QED  BY <1>1, <1>3 DEF Unresolved

(* The end of the packing leaves the blob filled.                          *)
LEMMA PackDoneFilled ==
  ASSUME PackInv, Filled, PackDone
  PROVE  Filled'
<1>1. todo = <<>> /\ Unresolved = {}
  BY AllResolved DEF PackDone
<1>2. UNCHANGED <<buf, pos, end, todo, refs, ptrs, resolved>>
  BY DEF PackDone, writerVars, sectionVars
<1>. QED  BY <1>1, <1>2, PhaseFilled

(* What refuses a text writes nothing.                                     *)
LEMMA RefusedFilled ==
  ASSUME Filled, Refuse \/ RefuseNoSection \/ UnusedItem
  PROVE  Filled'
<1>1. phase' # "packed"
  BY DEF Refuse, RefuseNoSection, UnusedItem
<1>2. UNCHANGED <<buf, pos, end, todo, refs, ptrs, resolved>>
  BY DEF Refuse, RefuseNoSection, UnusedItem, writerVars, sectionVars
<1>. QED  BY <1>1, <1>2, PhaseFilled

(* A reference is resolved: the place noted for it gets an offset.         *)
LEMMA ResolveFilled ==
  ASSUME PackInv, PackInv', ~dummy, Filled, Resolve
  PROVE  Filled'
<1>1. /\ todo = <<>> /\ phase = "pack" /\ resolved < Len(refs)
      /\ UNCHANGED <<end, todo, refs, ptrs>>
  BY DEF Resolve, Finalizing
<1>2. CASE UNCHANGED <<buf, pos, resolved>> /\ phase' = "refused"
  BY <1>1, <1>2, PhaseFilled
<1>3. CASE \E i \in DOMAIN items : /\ Write(At(refs[resolved + 1].at, <<Off(items[i].pos, 0)>>))
                                   /\ resolved' = resolved + 1 /\ UNCHANGED phase
  <2>1. PICK i \in DOMAIN items : /\ Write(At(refs[resolved + 1].at, <<Off(items[i].pos, 0)>>))
                                  /\ resolved' = resolved + 1 /\ UNCHANGED phase
    BY <1>3
  <2>2. PICK n \in Nat, k \in Nat : n = Len(refs) /\ k = resolved /\ k < n /\ DOMAIN refs = 1..n
    BY <1>1 DEF PackInv, NotedOK, ItemsOK
  <2>3. PICK e \in Nat, h \in Nat, l \in Nat : e = end /\ h = HeaderCells /\ l = LastCell /\ e <= l + 1 /\ h <= e
    BY Numbers
  <2>4. PICK a \in Nat : a = refs[k + 1].at /\ a < e /\ k + 1 \in 1..n
    <3>1. k + 1 \in 1..n
      BY <2>2
    <3>2. Place(refs[k + 1].at)
      BY <2>2, <3>1 DEF PackInv, NotedOK
    <3>. QED  BY <2>3, <3>1, <3>2 DEF Place
  <2>5. PICK o \in Nat : o = items[i].pos /\ h <= o /\ o < e
    <3>1. Place(items[i].pos)
      BY DEF PackInv, ItemsOK
    <3>. QED  BY <2>3, <3>1 DEF Place
  <2>6. a \in Positions
    <3>1. a \in 0..l
      BY <2>3, <2>4
    <3>. QED  BY <2>3, <3>1 DEF Positions
  <2>7. PICK c : c = Off(o, 0)
    OBVIOUS
  <2>8. Write(At(a, <<c>>)) /\ DOMAIN buf = Positions
    BY <2>1, <2>2, <2>4, <2>5, <2>7 DEF PackInv, BlobOK
  <2>9. /\ \A p \in Positions : p # a => buf'[p] = buf[p]
        /\ buf'[a] = c
    <3>1. DOMAIN At(a, <<c>>) = {a} /\ At(a, <<c>>)[a] = c
      BY OneAt
    <3>. QED  BY <2>6, <2>8, <3>1, CellsWritten
  <2>10. c.tag = "off" /\ c.v = o
    BY <2>7 DEF Off
  <2>11. \A p : p \in Unresolved <=> p = a \/ p \in Unresolved'
    <3>1. Unresolved = {refs[j].at : j \in (k + 1)..n}
      BY <2>2 DEF Unresolved
    <3>2. Unresolved' = {refs[j].at : j \in (k + 1 + 1)..n}
      BY <1>1, <2>1, <2>2 DEF Unresolved
    <3>3. \A j \in (k + 1)..n : j = k + 1 \/ j \in (k + 1 + 1)..n
      OBVIOUS
    <3>4. \A j \in (k + 1 + 1)..n : j \in (k + 1)..n
      OBVIOUS
    <3>5. k + 1 \in (k + 1)..n
      BY <2>2
    <3>6. ASSUME NEW p, p \in Unresolved PROVE p = a \/ p \in Unresolved'
      <4>1. PICK j \in (k + 1)..n : refs[j].at = p
        BY <3>1, <3>6
      <4>. QED  BY <2>4, <3>2, <3>3, <4>1
    <3>7. ASSUME NEW p, p \in Unresolved' PROVE p \in Unresolved
      <4>1. PICK j \in (k + 1 + 1)..n : refs[j].at = p
        BY <3>2, <3>7
      <4>. QED  BY <3>1, <3>4, <4>1
    <3>8. a \in Unresolved
      BY <2>4, <3>1, <3>5
    <3>. QED  BY <3>6, <3>7, <3>8
  <2>12. \A p : p \in Offs' <=> p = a \/ p \in Offs
    <3>1. a \in Offs'
      BY <2>6, <2>9, <2>10 DEF Offs
    <3>. QED  BY <2>9, <3>1 DEF Offs
  <2>13. todo' = <<>> /\ ptrs' = ptrs /\ end' = e
    BY <1>1, <2>3
  <2>14. PlacesOK'
    <3>1. \A p \in 0..(e - 1) : buf[p].tag # "old" \/ p \in Unresolved
      BY <1>1, <2>3, NothingHeld DEF Filled, PlacesOK
    <3>2. \A p \in 0..(e - 1) : p \in 0..l
      BY <2>3
    <3>3. \A p \in 0..(e - 1) : p \in Positions
      BY <2>3, <3>2 DEF Positions
    <3>4. \A p \in 0..(e - 1) : buf'[p].tag # "old" \/ p \in Unresolved'
      BY <2>9, <2>10, <2>11, <3>1, <3>3
    <3>. QED  BY <2>13, <3>4 DEF PlacesOK
  <2>15. RecordedOK'
    <3>1. /\ IsInjective(ptrs)
          /\ \A p : (\E j \in DOMAIN ptrs : ptrs[j] = p) <=> p \in Offs \/ p \in Unresolved
      BY DEF Filled, RecordedOK
    <3>2. \A p : p \in Offs' \/ p \in Unresolved' <=> p \in Offs \/ p \in Unresolved
      BY <2>11, <2>12
    <3>. QED  BY <2>13, <3>1, <3>2, NothingHeld DEF RecordedOK
  <2>16. OffsetsOK'
    <3>1. \A p \in Offs : p # a => buf'[p] = buf[p] /\ buf[p].v \in HeaderCells..(end - 1)
      BY <2>9 DEF Offs, Filled, OffsetsOK
    <3>2. o \in HeaderCells..(end - 1)
      <4>1. o \in h..(e - 1)
        BY <2>5
      <4>. QED  BY <2>3, <4>1
    <3>3. \A p \in Offs' : buf'[p].v \in HeaderCells..(end - 1)
      BY <2>9, <2>10, <2>12, <3>1, <3>2
    <3>. QED  BY <1>1, <3>3 DEF OffsetsOK
  <2>17. EndOK'
    BY <1>1, <2>1 DEF EndOK
  <2>18. TodoFilled(todo', pos')
    <3>1. PICK p : p = pos'
      OBVIOUS
    <3>2. TodoFilled(<<>>, p)
      BY NothingTodo
    <3>. QED  BY <2>13, <3>1, <3>2
  <2>. QED  BY <2>14, <2>15, <2>16, <2>17, <2>18 DEF Filled
<1>. QED  BY <1>2, <1>3 DEF Resolve

-----------------------------------------------------------------------------
(* The pass that packs begins with a buffer that nothing was written to.   *)
LEMMA BeginFilled ==
  ASSUME PackInv, PackInv', buf = Cleared, PackWithNeededSize
  PROVE  Filled'
<1>1. PICK T : T = Typing(text)
  OBVIOUS
<1>2. /\ text \in Texts /\ todo' = StructTasks(Root, HeaderCells, text.root) /\ end' = HeaderCells + Size[Root]
      /\ refs' = <<>> /\ ptrs' = <<>> /\ resolved' = 0 /\ buf' = buf /\ phase' # "packed"
  BY DEF PackWithNeededSize, Begin, PackInv, BlobOK
<1>3. PICK h \in Nat, z \in Nat, l \in Nat :
        h = HeaderCells /\ z = Size[Root] /\ l = LastCell /\ h + z <= l + 1 /\ Root \in DOMAIN Members
  BY <1>2, BeginOK, TxtPackAssumption
<1>4. PICK r : r = [type |-> Root, given |-> text.root]
  OBVIOUS
<1>5. Typed(r.given, r.type, T) /\ r.type = Root /\ r.given = text.root
  BY <1>1, <1>2, <1>4, TextTyped
<1>6. PICK s, p : s = StructTasks(Root, h, text.root) /\ p = pos'
  OBVIOUS
<1>7. s \in Seq(SeekTasks(T)) /\ TakeUp(s, h, h + z)
  BY <1>3, <1>5, <1>6, StructTasksGood
<1>8. s \in Seq(GoodTasks(T)) /\ \A k \in DOMAIN s : s[k].seek
  BY <1>7, SeekLinked
<1>9. TodoFilled(s, p)
  BY <1>7, <1>8, SeekFilled DEF TakeUp
<1>10. PICK e \in Nat : e = h + z
  OBVIOUS
<1>11. todo' = s /\ end' = e
  BY <1>2, <1>3, <1>6, <1>10
<1>12. TakeUp(s, h, e)
  BY <1>7, <1>10
<1>13. \A y \in Nat : h <= y /\ y < e => Held(s, y)
  BY <1>8, <1>12, HeldInRoom
<1>14. \A y \in 0..l : (y < h => buf'[y].tag = "zero") /\ buf'[y].tag \in {"zero", "old"}
  BY <1>2, <1>3 DEF Cleared, Positions, Zero, Old, Cell
<1>15. Positions = 0..l
  BY <1>3 DEF Positions
<1>16. Offs' = {} /\ Unresolved' = {}
  <2>1. Offs' = {}
    BY <1>14, <1>15 DEF Offs
  <2>2. Len(<<>>) = 0 /\ (0 + 1)..0 = {}
    OBVIOUS
  <2>3. Unresolved' = {}
    BY <1>2, <2>2 DEF Unresolved
  <2>. QED  BY <2>1, <2>3
<1>17. PlacesOK'
  <2>1. ASSUME NEW y \in 0..(e - 1) PROVE buf'[y].tag # "old" \/ Held(todo', y)
    <3>1. y \in 0..l /\ y \in Nat /\ y < e
      BY <1>3, <1>10
    <3>2. CASE y < h
      BY <1>14, <3>1, <3>2
    <3>3. CASE h <= y
      BY <1>11, <1>13, <3>1, <3>3
    <3>. QED  BY <1>3, <3>1, <3>2, <3>3
  <2>. QED  BY <1>11, <2>1 DEF PlacesOK
<1>18. RecordedOK'
  BY <1>2, <1>16 DEF RecordedOK, IsInjective
<1>19. OffsetsOK'
  BY <1>16 DEF OffsetsOK
<1>20. EndOK'
  BY <1>2 DEF EndOK
<1>21. TodoFilled(todo', pos')
  BY <1>6, <1>9, <1>11
<1>. QED  BY <1>17, <1>18, <1>19, <1>20, <1>21 DEF Filled

(* While the size is calculated nothing is written.                        *)
LEMMA NothingWritten ==
  ASSUME dummy, PackStep
  PROVE  buf' = buf /\ dummy' = dummy
<1>1. \A cells : Write(cells) => buf' = buf
  BY DEF Write
<1>. QED  BY <1>1 DEF PackStep, PackWord, PackString, Refer, PackStruct, PackArray, PackInlineArray, PackDefault,
                 Refuse, RefuseNoSection, PackItem, UnusedItem, Resolve, PackDone, writerVars

(* Nothing is packed in the beginning.                                     *)
LEMMA InitFilled == Init => FilledInv
BY DEF Init, FilledInv

(* Every step keeps the blob filled.                                       *)
LEMMA NextFilledInv ==
  ASSUME RefsLast
  PROVE  PackInv /\ PackInv' /\ FilledInv /\ [Next]_vars => FilledInv'
<1> SUFFICES ASSUME PackInv, PackInv', FilledInv, [Next]_vars
             PROVE  FilledInv'
  OBVIOUS
<1>1. CASE PackStep /\ dummy
  BY <1>1, NothingWritten DEF FilledInv, Cleared, Positions, Zero, Old, Cell
<1>2. CASE PackStep /\ ~dummy
  <2>1. Filled
    BY <1>2 DEF FilledInv
  <2>2. Filled'
    BY <1>2, <2>1, PackWordFilled, PackStringFilled, ReferFilled, PackStructFilled, PackArrayFilled,
       PackInlineArrayFilled, PackDefaultFilled, PackItemFilled, ResolveFilled, PackDoneFilled, RefusedFilled
       DEF PackStep
  <2>3. dummy' = dummy
    BY <1>2 DEF PackStep, PackWord, PackString, Refer, PackStruct, PackArray, PackInlineArray, PackDefault,
                Refuse, RefuseNoSection, PackItem, UnusedItem, Resolve, PackDone
  <2>. QED  BY <1>2, <2>2, <2>3 DEF FilledInv
<1>3. CASE PackWithNeededSize
  <2>1. buf = Cleared /\ ~dummy'
    BY <1>3 DEF FilledInv, PackWithNeededSize
  <2>. QED  BY <1>3, <2>1, BeginFilled DEF FilledInv
<1>4. CASE UNCHANGED vars
  <2>1. UNCHANGED <<buf, pos, end, todo, refs, ptrs, resolved, phase, dummy>>
    BY <1>4 DEF vars, writerVars, sectionVars
  <2>2. CASE dummy
    BY <2>1, <2>2 DEF FilledInv, Cleared, Positions, Zero, Old, Cell
  <2>3. CASE ~dummy
    <3>1. Filled
      BY <2>3 DEF FilledInv
    <3>2. Filled'
      BY <2>1, <3>1, PhaseFilled DEF Filled, EndOK
    <3>. QED  BY <2>1, <2>3, <3>2 DEF FilledInv
  <2>. QED  BY <2>2, <2>3
<1>. QED  BY <1>1, <1>2, <1>3, <1>4 DEF Next

(* The blob is filled, but for what the tasks and references to come will  *)
(* write.                                                                  *)
LEMMA FilledInvHolds ==
  ASSUME RefsLast
  PROVE  Spec => []FilledInv
<1>1. PackInv /\ PackInv' /\ FilledInv /\ [Next]_vars => FilledInv'
  BY NextFilledInv
<1>. QED  BY <1>1, InitFilled, PackInvHolds, PTL DEF Spec

(* What that means for a packed blob.                                      *)
LEMMA PackedWhole ==
  PackInv /\ FilledInv => WellFormed /\ PointersRecorded
<1> SUFFICES ASSUME PackInv, FilledInv PROVE WellFormed /\ PointersRecorded
  OBVIOUS
<1>1. TypeOK
  BY InvTypeOK
<1>2. CASE ~Packed
  BY <1>1, <1>2 DEF WellFormed, NoHoles, PointersRecorded
<1>3. CASE Packed
  <2>1. Filled /\ todo = <<>> /\ Unresolved = {}
    BY <1>3 DEF Packed, FilledInv, Filled, EndOK
  <2>2. \A p \in 0..(end - 1) : buf[p].tag # "old"
    BY <2>1, NothingHeld DEF Filled, PlacesOK
  <2>3. Old.tag = "old"
    BY DEF Old, Cell
  <2>4. NoHoles
    BY <2>2, <2>3 DEF NoHoles
  <2>5. /\ IsInjective(ptrs)
        /\ \A p : (\E i \in DOMAIN ptrs : ptrs[i] = p) <=> p \in Offs
    BY <2>1 DEF Filled, RecordedOK
  <2>6. ToSet(ptrs) = Offs
    BY <2>5 DEF ToSet
  <2>7. \A p \in Offs : buf[p].v \in HeaderCells..(end - 1)
    BY <2>1 DEF Filled, OffsetsOK
  <2>. QED  BY <1>1, <2>4, <2>5, <2>6, <2>7 DEF WellFormed, PointersRecorded, Offs
<1>. QED  BY <1>2, <1>3

(* Whatever text is packed in whose arrays nothing but references follows  *)
(* a reference: nothing of the blob is what the caller had in the buffer.  *)
THEOREM PackedBlobHasNoHoles ==
  ASSUME RefsLast
  PROVE  Spec => []WellFormed
<1>1. Spec => []FilledInv
  BY FilledInvHolds
<1>. QED  BY <1>1, PackInvHolds, PackedWhole, PTL

(* Of such texts the blob has exactly the offsets that are recorded, each  *)
(* once, and each leads to a place in the blob behind the header: what     *)
(* dl_txt_pack makes the chain of is right.                                *)
THEOREM PackedPointersRecorded ==
  ASSUME RefsLast
  PROVE  Spec => []PointersRecorded
<1>1. Spec => []FilledInv
  BY FilledInvHolds
<1>. QED  BY <1>1, PackInvHolds, PackedWhole, PTL
=============================================================================
