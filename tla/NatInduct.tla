----------------------------- MODULE NatInduct -----------------------------
(***************************************************************************)
(* Induction over the natural numbers, and what it gives for functions     *)
(* that are defined recursively, in terms of sets and functions; and what  *)
(* the proofs need of sequences.                                           *)
(***************************************************************************)
EXTENDS Integers, Sequences, SequencesExt, TLAPS, WellFoundedInduction

(* The order of the numbers as a relation, which sets can speak of.        *)
LEMMA LessIsWellFounded ==
  \E R : /\ \A m, n \in Nat : m < n => <<m, n>> \in R
         /\ \A T : T \subseteq Nat /\ T # {} => \E n \in T : \A m \in T : <<m, n>> \notin R
<1> DEFINE R == OpToRel(<, Nat)
<1>1. IsWellFoundedOn(R, Nat)
  BY NatLessThanWellFounded
<1>2. \A m, n \in Nat : m < n => <<m, n>> \in R
  BY DEF OpToRel
<1> HIDE DEF R
<1>3. \A T : T \subseteq Nat /\ T # {} => \E n \in T : \A m \in T : <<m, n>> \notin R
  BY <1>1, WFMin
<1>. QED  BY <1>2, <1>3

(* A set of numbers that is not empty has a least number.                  *)
LEMMA LeastNat ==
  ASSUME NEW T \in SUBSET Nat, T # {}
  PROVE  \E n \in T : \A m \in T : n <= m
<1>1. PICK R : /\ \A m, n \in Nat : m < n => <<m, n>> \in R
               /\ \A S : S \subseteq Nat /\ S # {} => \E n \in S : \A m \in S : <<m, n>> \notin R
  BY LessIsWellFounded
<1>2. PICK n \in T : \A m \in T : <<m, n>> \notin R
  BY <1>1
<1>3. ASSUME NEW m \in T
      PROVE  n <= m
  <2>1. m \in Nat /\ n \in Nat /\ <<m, n>> \notin R
    BY <1>2
  <2>2. ~(m < n)
    BY <1>1, <2>1, Zenon
  <2>. QED  BY <2>1, <2>2
<1>. QED  BY <1>3

(* A set that has 0, and n + 1 if it has n, has all numbers.               *)
LEMMA SetInduction ==
  ASSUME NEW S, 0 \in S, \A n \in Nat : n \in S => n + 1 \in S
  PROVE  Nat \subseteq S
<1> DEFINE T == {n \in Nat : n \notin S}
<1>1. CASE T = {}
  BY <1>1
<1>2. CASE T # {}
  <2>1. PICK n \in T : \A m \in T : n <= m
    BY <1>2, LeastNat
  <2>2. n # 0 /\ n - 1 \in Nat /\ n - 1 \notin T
    BY <2>1
  <2>. QED  BY <2>1, <2>2
<1> HIDE DEF T
<1>. QED  BY <1>1, <1>2

(***************************************************************************)
(* A value that is iterated: there is the function that the recursive      *)
(* definition of the iteration chooses.                                    *)
(***************************************************************************)
IsIteration(g, b, F) == g = [n \in Nat |-> IF n = 0 THEN b ELSE F[g[n - 1]]]

(* Its first n values.                                                     *)
BeginsIteration(h, n, b, F) ==
  /\ h[0] = b
  /\ \A k \in 1..n : h[k] = F[h[k - 1]]

(* An iteration begins with every number of its values.                    *)
LEMMA IterationBegins ==
  ASSUME NEW S, NEW F \in [S -> S], NEW b \in S
  PROVE  \A n \in Nat : \E h \in [Nat -> S] : BeginsIteration(h, n, b, F)
<1> DEFINE T == {n \in Nat : \E h \in [Nat -> S] : BeginsIteration(h, n, b, F)}
<1>1. 0 \in T
  <2>1. [k \in Nat |-> b] \in [Nat -> S] /\ BeginsIteration([k \in Nat |-> b], 0, b, F)
    BY DEF BeginsIteration
  <2>. QED  BY <2>1
<1>2. ASSUME NEW n \in Nat, n \in T
      PROVE  n + 1 \in T
  <2>1. PICK h \in [Nat -> S] : BeginsIteration(h, n, b, F)
    BY <1>2
  <2> DEFINE g == [h EXCEPT ![n + 1] = F[h[n]]]
  <2>2. g \in [Nat -> S]
    BY <2>1
  <2>3. g[0] = b
    BY <2>1 DEF BeginsIteration
  <2>4. ASSUME NEW k \in 1..(n + 1)
        PROVE  g[k] = F[g[k - 1]]
    <3>1. CASE k = n + 1
      BY <2>1, <3>1
    <3>2. CASE k # n + 1
      <4>1. k \in 1..n /\ k \in Nat /\ k - 1 \in Nat /\ k - 1 # n + 1
        BY <3>2
      <4>2. g[k] = h[k] /\ g[k - 1] = h[k - 1]
        BY <3>2, <4>1
      <4>. QED  BY <2>1, <4>1, <4>2 DEF BeginsIteration
    <3>. QED  BY <3>1, <3>2
  <2> HIDE DEF g
  <2>5. BeginsIteration(g, n + 1, b, F)
    BY <2>3, <2>4 DEF BeginsIteration
  <2>. QED  BY <2>2, <2>5
<1> HIDE DEF T
<1>3. \A n \in Nat : n \in T => n + 1 \in T
  BY <1>2
<1>4. Nat \subseteq T
  BY <1>1, <1>3, SetInduction, Zenon
<1>. QED  BY <1>4 DEF T

(* Two beginnings agree as far as both go.                                 *)
LEMMA BeginningsAgree ==
  ASSUME NEW S, NEW F \in [S -> S], NEW b \in S,
         NEW n \in Nat, NEW g, NEW h,
         BeginsIteration(g, n, b, F), BeginsIteration(h, n, b, F)
  PROVE  \A k \in 0..n : g[k] = h[k]
<1> DEFINE T == {k \in Nat : k <= n => g[k] = h[k]}
<1>1. 0 \in T
  BY DEF BeginsIteration
<1>2. ASSUME NEW k \in Nat, k \in T
      PROVE  k + 1 \in T
  <2>1. CASE k + 1 <= n
    <3>1. k + 1 \in 1..n /\ (k + 1) - 1 = k /\ k <= n
      BY <2>1
    <3>2. g[k + 1] = F[g[k]] /\ h[k + 1] = F[h[k]]
      BY <3>1 DEF BeginsIteration
    <3>. QED  BY <1>2, <3>1, <3>2
  <2>2. CASE ~(k + 1 <= n)
    BY <2>2
  <2>. QED  BY <2>1, <2>2
<1> HIDE DEF T
<1>3. \A k \in Nat : k \in T => k + 1 \in T
  BY <1>2
<1>4. Nat \subseteq T
  BY <1>1, <1>3, SetInduction, Zenon
<1>. QED  BY <1>4 DEF T

(* For a first value and a function there is an iteration.                 *)
LEMMA IterationExists ==
  ASSUME NEW S, NEW F \in [S -> S], NEW b \in S
  PROVE  \E g \in [Nat -> S] : IsIteration(g, b, F)
<1>1. PICK H : H = [n \in Nat |-> CHOOSE h \in [Nat -> S] : BeginsIteration(h, n, b, F)]
  OBVIOUS
<1>2. \A n \in Nat : H[n] \in [Nat -> S] /\ BeginsIteration(H[n], n, b, F)
  BY <1>1, IterationBegins
<1> DEFINE g == [n \in Nat |-> H[n][n]]
<1>3. g \in [Nat -> S]
  BY <1>2
<1>4. ASSUME NEW n \in Nat
      PROVE  g[n] = IF n = 0 THEN b ELSE F[g[n - 1]]
  <2>1. CASE n = 0
    BY <1>2, <2>1 DEF BeginsIteration
  <2>2. CASE n # 0
    <3>1. n \in 1..n /\ n - 1 \in Nat /\ n - 1 \in 0..(n - 1)
      BY <2>2
    <3>2. BeginsIteration(H[n], n - 1, b, F)
      BY <1>2, <3>1 DEF BeginsIteration
    <3>3. H[n][n - 1] = H[n - 1][n - 1]
      BY <1>2, <3>1, <3>2, BeginningsAgree
    <3>4. H[n][n] = F[H[n][n - 1]]
      BY <1>2, <3>1 DEF BeginsIteration
    <3>. QED  BY <2>2, <3>1, <3>3, <3>4
  <2>. QED  BY <2>1, <2>2
<1> HIDE DEF g
<1>5. g = [n \in Nat |-> IF n = 0 THEN b ELSE F[g[n - 1]]]
  <2>1. DOMAIN g = Nat /\ g = [n \in Nat |-> g[n]]
    BY <1>3
  <2>. QED  BY <1>4, <2>1
<1>. QED  BY <1>3, <1>5 DEF IsIteration

-----------------------------------------------------------------------------
(***************************************************************************)
(* Sequences.                                                              *)
(***************************************************************************)
Longer(s, t) == Len(s) <= Len(t) /\ \A i \in 1..Len(s) : t[i] = s[i]

(* A concatenation begins with its first sequence and goes on with the     *)
(* other.                                                                  *)
LEMMA Concatenated ==
  ASSUME NEW S, NEW s \in Seq(S), NEW t \in Seq(S)
  PROVE  /\ s \o t \in Seq(S)
         /\ Len(s \o t) = Len(s) + Len(t)
         /\ Longer(s, s \o t)
         /\ \A i \in DOMAIN (s \o t) :
              \/ i \in DOMAIN s /\ (s \o t)[i] = s[i]
              \/ i - Len(s) \in DOMAIN t /\ (s \o t)[i] = t[i - Len(s)]
         /\ \A j \in DOMAIN t : Len(s) + j \in DOMAIN (s \o t) /\ (s \o t)[Len(s) + j] = t[j]
<1>1. s \o t \in Seq(S) /\ Len(s \o t) = Len(s) + Len(t)
  OBVIOUS
<1>2. DOMAIN s = 1..Len(s) /\ DOMAIN t = 1..Len(t) /\ DOMAIN (s \o t) = 1..(Len(s) + Len(t))
  OBVIOUS
<1>3. ASSUME NEW i \in 1..(Len(s) + Len(t))
      PROVE  (s \o t)[i] = IF i <= Len(s) THEN s[i] ELSE t[i - Len(s)]
  BY DEF \o
<1>. QED  BY <1>1, <1>2, <1>3 DEF Longer

LEMMA ConcatenatedElements ==
  ASSUME NEW S, NEW s \in Seq(S), NEW t \in Seq(S)
  PROVE  \A i \in DOMAIN (s \o t) : \/ i \in DOMAIN s /\ (s \o t)[i] = s[i]
                                    \/ \E k \in DOMAIN t : (s \o t)[i] = t[k]
<1>1. ASSUME NEW i \in DOMAIN (s \o t)
      PROVE  \/ i \in DOMAIN s /\ (s \o t)[i] = s[i]
             \/ i - Len(s) \in DOMAIN t /\ (s \o t)[i] = t[i - Len(s)]
  BY Concatenated
<1>. QED  BY <1>1

(* Appending is concatenating a sequence of one.                           *)
LEMMA Appended ==
  ASSUME NEW S, NEW s \in Seq(S), NEW x \in S
  PROVE  /\ Append(s, x) \in Seq(S)
         /\ Len(Append(s, x)) = Len(s) + 1
         /\ Longer(s, Append(s, x))
         /\ \A i \in DOMAIN Append(s, x) :
              \/ i \in DOMAIN s /\ Append(s, x)[i] = s[i]
              \/ i = Len(s) + 1 /\ Append(s, x)[i] = x
BY DEF Longer

LEMMA LongerItself ==
  ASSUME NEW S, NEW s \in Seq(S)
  PROVE  Longer(s, s)
BY DEF Longer

(* A function on the first numbers is a sequence.                          *)
LEMMA FunctionIsSequence ==
  ASSUME NEW S, NEW n \in Nat, NEW f \in [1..n -> S]
  PROVE  f \in Seq(S) /\ Len(f) = n
OBVIOUS

(* There is a function that flattens the first n sequences.                *)
LEMMA FlattenExists ==
  ASSUME NEW seqs
  PROVE  \A n \in Nat : \E f : f = [i \in 1..n |-> IF i = 1 THEN seqs[i] ELSE f[i - 1] \o seqs[i]]
<1> DEFINE T == {n \in Nat : \E f : f = [i \in 1..n |-> IF i = 1 THEN seqs[i] ELSE f[i - 1] \o seqs[i]]}
<1>1. 0 \in T
  <2> DEFINE f == [i \in 1..0 |-> 0]
  <2>1. f = [i \in 1..0 |-> IF i = 1 THEN seqs[i] ELSE f[i - 1] \o seqs[i]]
    OBVIOUS
  <2>. QED  BY <2>1
<1>2. ASSUME NEW n \in Nat, n \in T
      PROVE  n + 1 \in T
  <2>1. PICK f : f = [i \in 1..n |-> IF i = 1 THEN seqs[i] ELSE f[i - 1] \o seqs[i]]
    BY <1>2
  <2> DEFINE g == [i \in 1..(n + 1) |->
                     IF i <= n THEN f[i]
                     ELSE IF i = 1 THEN seqs[i] ELSE f[i - 1] \o seqs[i]]
  <2>2. ASSUME NEW i \in 1..(n + 1)
        PROVE  g[i] = IF i = 1 THEN seqs[i] ELSE g[i - 1] \o seqs[i]
    <3>1. CASE i <= n
      <4>1. i \in 1..n /\ g[i] = f[i]
        BY <3>1
      <4>2. f[i] = IF i = 1 THEN seqs[i] ELSE f[i - 1] \o seqs[i]
        BY <2>1, <4>1
      <4>3. i # 1 => g[i - 1] = f[i - 1]
        BY <3>1
      <4>. QED  BY <4>1, <4>2, <4>3, Zenon
    <3>2. CASE ~(i <= n)
      <4>1. g[i] = IF i = 1 THEN seqs[i] ELSE f[i - 1] \o seqs[i]
        BY <3>2
      <4>2. i # 1 => g[i - 1] = f[i - 1]
        BY <3>2
      <4>. QED  BY <4>1, <4>2, Zenon
    <3>. QED  BY <3>1, <3>2
  <2>3. g = [i \in 1..(n + 1) |-> g[i]]
    OBVIOUS
  <2> HIDE DEF g
  <2>4. g = [i \in 1..(n + 1) |-> IF i = 1 THEN seqs[i] ELSE g[i - 1] \o seqs[i]]
    BY <2>2, <2>3
  <2>5. n + 1 \in Nat
    OBVIOUS
  <2>. QED  BY <2>4, <2>5
<1> HIDE DEF T
<1>3. \A n \in Nat : n \in T => n + 1 \in T
  BY <1>2
<1>4. Nat \subseteq T
  BY <1>1, <1>3, SetInduction, Zenon
<1>. QED  BY <1>4 DEF T

(* Sequences over a set are flattened to one.                              *)
LEMMA Flattened ==
  ASSUME NEW S, NEW seqs \in Seq(Seq(S))
  PROVE  FlattenSeq(seqs) \in Seq(S)
<1>1. CASE Len(seqs) = 0
  <2>1. seqs = <<>>
    BY <1>1
  <2>. QED  BY <1>1, <2>1 DEF FlattenSeq
<1>2. CASE Len(seqs) # 0
  <2> DEFINE n == Len(seqs)
             flatten == CHOOSE f : f = [i \in 1..n |-> IF i = 1 THEN seqs[i] ELSE f[i - 1] \o seqs[i]]
             T == {k \in Nat : k \in 1..n => flatten[k] \in Seq(S)}
  <2>1. n \in Nat
    OBVIOUS
  <2>2. flatten = [i \in 1..n |-> IF i = 1 THEN seqs[i] ELSE flatten[i - 1] \o seqs[i]]
    BY <2>1, FlattenExists
  <2>3. FlattenSeq(seqs) = flatten[n]
    BY <1>2 DEF FlattenSeq
  <2> HIDE DEF flatten, n
  <2>4. 0 \in T
    BY <2>1
  <2>5. ASSUME NEW k \in Nat, k \in T
        PROVE  k + 1 \in T
    <3>1. SUFFICES ASSUME k + 1 \in 1..n
                   PROVE  flatten[k + 1] \in Seq(S)
      OBVIOUS
    <3>2. seqs[k + 1] \in Seq(S)
      BY <3>1 DEF n
    <3>3. flatten[k + 1] = IF k + 1 = 1 THEN seqs[k + 1] ELSE flatten[(k + 1) - 1] \o seqs[k + 1]
      BY <2>2, <3>1
    <3>4. CASE k = 0
      BY <3>2, <3>3, <3>4
    <3>5. CASE k # 0
      <4>1. k \in 1..n /\ (k + 1) - 1 = k /\ k + 1 # 1
        BY <2>1, <3>1, <3>5
      <4>2. flatten[k] \in Seq(S)
        BY <2>5, <4>1
      <4>3. flatten[k + 1] = flatten[k] \o seqs[k + 1]
        BY <3>3, <4>1
      <4>. QED  BY <3>2, <4>2, <4>3
    <3>. QED  BY <3>4, <3>5
  <2> HIDE DEF T
  <2>6. \A k \in Nat : k \in T => k + 1 \in T
    BY <2>5
  <2>7. Nat \subseteq T
    BY <2>4, <2>6, SetInduction, Zenon
  <2>8. n \in 1..n
    BY <1>2, <2>1 DEF n
  <2>. QED  BY <2>1, <2>3, <2>7, <2>8 DEF T
<1>. QED  BY <1>1, <1>2

LEMMA FlattenIs ==
  ASSUME NEW seqs, Len(seqs) \in Nat, Len(seqs) # 0
  PROVE  \E f : /\ f = [i \in 1..Len(seqs) |-> IF i = 1 THEN seqs[i] ELSE f[i - 1] \o seqs[i]]
                /\ FlattenSeq(seqs) = f[Len(seqs)]
<1> DEFINE f == CHOOSE e : e = [i \in 1..Len(seqs) |-> IF i = 1 THEN seqs[i] ELSE e[i - 1] \o seqs[i]]
<1>1. f = [i \in 1..Len(seqs) |-> IF i = 1 THEN seqs[i] ELSE f[i - 1] \o seqs[i]]
  BY FlattenExists
<1>2. FlattenSeq(seqs) = f[Len(seqs)]
  BY DEF FlattenSeq
<1>. QED  BY <1>1, <1>2

LEMMA FlattenAppended ==
  ASSUME NEW S, NEW seqs \in Seq(Seq(S)), NEW s \in Seq(S)
  PROVE  FlattenSeq(Append(seqs, s)) = FlattenSeq(seqs) \o s
<1> DEFINE n == Len(seqs)
           more == Append(seqs, s)
<1>1. /\ n \in Nat /\ n + 1 \in Nat /\ Len(more) = n + 1 /\ more[n + 1] = s
      /\ \A i \in 1..n : more[i] = seqs[i]
  OBVIOUS
<1> HIDE DEF more
<1>2. PICK g : /\ g = [i \in 1..(n + 1) |-> IF i = 1 THEN more[i] ELSE g[i - 1] \o more[i]]
               /\ FlattenSeq(more) = g[n + 1]
  <2>1. Len(more) \in Nat /\ Len(more) # 0
    BY <1>1
  <2>2. PICK g : /\ g = [i \in 1..Len(more) |-> IF i = 1 THEN more[i] ELSE g[i - 1] \o more[i]]
                 /\ FlattenSeq(more) = g[Len(more)]
    BY <2>1, FlattenIs
  <2>. QED  BY <1>1, <2>2
<1>3. CASE n = 0
  <2>1. g[1] = s
    BY <1>1, <1>2, <1>3
  <2>2. FlattenSeq(seqs) = <<>>
    BY <1>3 DEF FlattenSeq
  <2>3. <<>> \o s = s
    OBVIOUS
  <2>. QED  BY <1>2, <1>3, <2>1, <2>2, <2>3 DEF more
<1>4. CASE n # 0
  <2>1. PICK f : /\ f = [i \in 1..n |-> IF i = 1 THEN seqs[i] ELSE f[i - 1] \o seqs[i]]
                 /\ FlattenSeq(seqs) = f[n]
    BY <1>1, <1>4, FlattenIs
  <2> DEFINE T == {k \in Nat : k \in 1..n => g[k] = f[k]}
  <2> HIDE DEF n
  <2>2. 0 \in T
    BY <1>1
  <2>3. ASSUME NEW k \in Nat, k \in T
        PROVE  k + 1 \in T
    <3>1. SUFFICES ASSUME k + 1 \in 1..n
                   PROVE  g[k + 1] = f[k + 1]
      OBVIOUS
    <3>2. k + 1 \in 1..(n + 1) /\ (k + 1) - 1 = k /\ more[k + 1] = seqs[k + 1]
      BY <1>1, <3>1
    <3>3. /\ g[k + 1] = IF k + 1 = 1 THEN seqs[k + 1] ELSE g[k] \o seqs[k + 1]
          /\ f[k + 1] = IF k + 1 = 1 THEN seqs[k + 1] ELSE f[k] \o seqs[k + 1]
      BY <1>2, <2>1, <3>1, <3>2
    <3>4. k + 1 # 1 => k \in 1..n
      BY <1>1, <3>1
    <3>5. k + 1 # 1 => g[k] = f[k]
      BY <2>3, <3>4
    <3>. QED  BY <3>3, <3>5, Zenon
  <2> HIDE DEF T
  <2>4. Nat \subseteq T
    BY <2>2, <2>3, SetInduction
  <2>5. n \in 1..n /\ n + 1 \in 1..(n + 1) /\ n + 1 # 1 /\ (n + 1) - 1 = n
    BY <1>1, <1>4
  <2>6. g[n] = f[n]
    BY <1>1, <2>4, <2>5 DEF T
  <2>7. g[n + 1] = g[n] \o s
    BY <1>1, <1>2, <2>5
  <2>. QED  BY <1>2, <2>1, <2>6, <2>7 DEF more
<1>. QED  BY <1>3, <1>4

(* Where the first n sequences are in what they are flattened to: the i-th *)
(* begins behind the first start[i - 1] elements.                          *)
PlacesIn(flat, seqs, n, start) ==
  /\ start \in [0..n -> Nat] /\ start[0] = 0 /\ start[n] = Len(flat)
  /\ \A i \in 1..n : start[i] = start[i - 1] + Len(seqs[i])
  /\ \A i, j \in 0..n : i <= j => start[i] <= start[j]
  /\ \A i \in 1..n : \A j \in 1..Len(seqs[i]) : flat[start[i - 1] + j] = seqs[i][j]
  /\ \A k \in 1..Len(flat) : \E i \in 1..n : \E j \in 1..Len(seqs[i]) : k = start[i - 1] + j

HasPlaces(flat, seqs) == \E start : PlacesIn(flat, seqs, Len(seqs), start)

LEMMA PlacesAppended ==
  ASSUME NEW S, NEW seqs \in Seq(Seq(S)), NEW s \in Seq(S), NEW flat \in Seq(S),
         HasPlaces(flat, seqs)
  PROVE  HasPlaces(flat \o s, Append(seqs, s))
<1>1. PICK start : PlacesIn(flat, seqs, Len(seqs), start)
  BY DEF HasPlaces
<1>2. PICK n \in Nat : n = Len(seqs)
  OBVIOUS
<1>3. PICK more \in Seq(Seq(S)) : /\ more = Append(seqs, s) /\ Len(more) = n + 1 /\ more[n + 1] = s
                                  /\ \A i \in 1..n : more[i] = seqs[i]
  <2>1. /\ Append(seqs, s) \in Seq(Seq(S)) /\ Len(Append(seqs, s)) = Len(seqs) + 1
        /\ Append(seqs, s)[Len(seqs) + 1] = s
        /\ \A i \in 1..Len(seqs) : Append(seqs, s)[i] = seqs[i]
    OBVIOUS
  <2>. QED  BY <1>2, <2>1
<1>4. PICK l \in Nat : l = Len(s)
  OBVIOUS
<1>5. PICK f \in Nat : f = Len(flat)
  OBVIOUS
<1>6. PICK both \in Seq(S) :
        /\ both = flat \o s /\ Len(both) = f + l
        /\ \A k \in 1..f : both[k] = flat[k]
        /\ \A j \in 1..l : both[f + j] = s[j]
  <2>1. /\ flat \o s \in Seq(S) /\ Len(flat \o s) = f + l
        /\ \A k \in 1..f : (flat \o s)[k] = flat[k]
        /\ \A j \in 1..l : (flat \o s)[f + j] = s[j]
    BY <1>4, <1>5
  <2>. QED  BY <2>1
<1>7. /\ start \in [0..n -> Nat] /\ start[0] = 0 /\ start[n] = f
      /\ \A i \in 1..n : start[i] = start[i - 1] + Len(seqs[i])
      /\ \A i, j \in 0..n : i <= j => start[i] <= start[j]
      /\ \A i \in 1..n : \A j \in 1..Len(seqs[i]) : flat[start[i - 1] + j] = seqs[i][j]
      /\ \A k \in 1..f : \E i \in 1..n : \E j \in 1..Len(seqs[i]) : k = start[i - 1] + j
  BY <1>1, <1>2, <1>5 DEF PlacesIn
<1>8. PICK next : next = [i \in 0..(n + 1) |-> IF i = n + 1 THEN f + l ELSE start[i]]
  OBVIOUS
<1>9. next[n + 1] = f + l /\ \A i \in 0..n : next[i] = start[i] /\ next[i] \in Nat
  BY <1>7, <1>8
<1>10. \A i \in 0..(n + 1) : i = n + 1 \/ i \in 0..n
  OBVIOUS
<1>11. next \in [0..(n + 1) -> Nat] /\ next[0] = 0
  BY <1>7, <1>8, <1>9, <1>10
<1>12. ASSUME NEW i \in 1..(n + 1)
       PROVE  next[i] = next[i - 1] + Len(more[i])
  <2>1. i = n + 1 \/ (i \in 1..n /\ i \in 0..n /\ i - 1 \in 0..n)
    OBVIOUS
  <2>2. CASE i = n + 1
    <3>1. i - 1 = n /\ n \in 0..n
      BY <2>2
    <3>. QED  BY <2>2, <3>1, <1>3, <1>4, <1>7, <1>9
  <2>3. CASE i \in 1..n /\ i \in 0..n /\ i - 1 \in 0..n
    BY <2>3, <1>3, <1>7, <1>9
  <2>. QED  BY <2>1, <2>2, <2>3
<1>13. ASSUME NEW i \in 0..(n + 1), NEW j \in 0..(n + 1), i <= j
       PROVE  next[i] <= next[j]
  <2>1. n \in 0..n /\ \A k \in 0..n : k <= n
    OBVIOUS
  <2>2. \A k \in 0..n : next[k] <= f
    BY <1>7, <1>9, <2>1
  <2>3. CASE j = n + 1
    BY <1>9, <1>10, <2>2, <2>3
  <2>4. CASE j # n + 1
    <3>1. i \in 0..n /\ j \in 0..n
      BY <1>13, <2>4
    <3>. QED  BY <1>7, <1>9, <1>13, <3>1
  <2>. QED  BY <2>3, <2>4
<1>14. ASSUME NEW i \in 1..(n + 1), NEW j \in 1..Len(more[i])
       PROVE  both[next[i - 1] + j] = more[i][j]
  <2>1. i = n + 1 \/ (i \in 1..n /\ i \in 0..n /\ i - 1 \in 0..n)
    OBVIOUS
  <2>2. CASE i = n + 1
    <3>1. i - 1 = n /\ n \in 0..n
      BY <2>2
    <3>2. more[i] = s /\ j \in 1..l
      BY <1>3, <1>4, <2>2
    <3>3. next[i - 1] = f
      BY <1>7, <1>9, <3>1
    <3>. QED  BY <1>6, <3>2, <3>3
  <2>3. CASE i \in 1..n /\ i \in 0..n /\ i - 1 \in 0..n
    <3>1. PICK e \in Nat : e = Len(seqs[i]) /\ more[i] = seqs[i]
      BY <1>2, <1>3, <2>3
    <3>2. j \in 1..e /\ j \in Nat
      BY <3>1
    <3>3. flat[start[i - 1] + j] = more[i][j]
      BY <1>7, <2>3, <3>1, <3>2
    <3>4. start[i] = start[i - 1] + e /\ start[i] <= f /\ start[i - 1] \in Nat /\ start[i] \in Nat
      <4>1. n \in 0..n /\ i <= n
        BY <2>3
      <4>. QED  BY <1>7, <2>3, <3>1, <4>1
    <3>5. PICK x \in Nat : x = start[i - 1]
      BY <3>4
    <3>6. x + e <= f
      BY <3>4, <3>5
    <3>7. x + j \in 1..f
      BY <3>2, <3>6
    <3>. QED  BY <1>6, <1>9, <2>3, <3>3, <3>5, <3>7
  <2>. QED  BY <2>1, <2>2, <2>3
<1>15. ASSUME NEW k \in 1..(f + l)
       PROVE  \E i \in 1..(n + 1) : \E j \in 1..Len(more[i]) : k = next[i - 1] + j
  <2>1. CASE k <= f
    <3>1. k \in 1..f
      BY <2>1
    <3>2. PICK i \in 1..n : \E j \in 1..Len(seqs[i]) : k = start[i - 1] + j
      BY <1>7, <3>1
    <3>3. PICK j \in 1..Len(seqs[i]) : k = start[i - 1] + j
      BY <3>2
    <3>4. i \in 1..(n + 1) /\ i - 1 \in 0..n /\ more[i] = seqs[i]
      BY <1>3
    <3>. QED  BY <1>9, <3>3, <3>4
  <2>2. CASE ~(k <= f)
    <3>1. k - f \in 1..l /\ k = f + (k - f) /\ n + 1 \in 1..(n + 1) /\ (n + 1) - 1 = n /\ n \in 0..n
      BY <2>2
    <3>2. Len(more[n + 1]) = l /\ next[(n + 1) - 1] = f
      BY <1>3, <1>4, <1>7, <1>9, <3>1
    <3>. QED  BY <3>1, <3>2
  <2>. QED  BY <2>1, <2>2
<1>16. PlacesIn(both, more, n + 1, next)
  <2>1. /\ next \in [0..(n + 1) -> Nat] /\ next[0] = 0 /\ next[n + 1] = Len(both)
        /\ \A i \in 1..(n + 1) : next[i] = next[i - 1] + Len(more[i])
        /\ \A i, j \in 0..(n + 1) : i <= j => next[i] <= next[j]
    BY <1>6, <1>9, <1>11, <1>12, <1>13
  <2>2. \A k \in 1..Len(both) : \E i \in 1..(n + 1) : \E j \in 1..Len(more[i]) : k = next[i - 1] + j
    BY <1>6, <1>15
  <2>3. \A i \in 1..(n + 1) : \A j \in 1..Len(more[i]) : both[next[i - 1] + j] = more[i][j]
    BY <1>14
  <2>. QED  BY <2>1, <2>2, <2>3 DEF PlacesIn
<1>. QED  BY <1>3, <1>6, <1>16 DEF HasPlaces

(* All of it comes from the sequences, and nothing of them is lost.        *)
LEMMA FlattenPlaces ==
  ASSUME NEW S, NEW seqs \in Seq(Seq(S))
  PROVE  HasPlaces(FlattenSeq(seqs), seqs)
<1> DEFINE T == {n \in Nat : \A r \in Seq(Seq(S)) : Len(r) = n => HasPlaces(FlattenSeq(r), r)}
<1>1. 0 \in T
  <2>1. SUFFICES ASSUME NEW r \in Seq(Seq(S)), Len(r) = 0
                 PROVE  HasPlaces(FlattenSeq(r), r)
    OBVIOUS
  <2>2. FlattenSeq(r) = <<>>
    BY <2>1 DEF FlattenSeq
  <2>3. PICK start : start = [i \in 0..0 |-> 0]
    OBVIOUS
  <2>4. start \in [0..0 -> Nat] /\ start[0] = 0 /\ \A i \in 0..0 : i = 0
    BY <2>3
  <2>5. Len(<<>>) = 0 /\ 1..0 = {}
    OBVIOUS
  <2>6. PlacesIn(<<>>, r, 0, start)
    BY <2>1, <2>4, <2>5 DEF PlacesIn
  <2>. QED  BY <2>1, <2>2, <2>6 DEF HasPlaces
<1>2. ASSUME NEW n \in Nat, n \in T
      PROVE  n + 1 \in T
  <2>1. SUFFICES ASSUME NEW r \in Seq(Seq(S)), Len(r) = n + 1
                 PROVE  HasPlaces(FlattenSeq(r), r)
    OBVIOUS
  <2>2. PICK front : front = [i \in 1..n |-> r[i]]
    OBVIOUS
  <2>3. front \in Seq(Seq(S)) /\ Len(front) = n /\ r[n + 1] \in Seq(S)
    BY <2>1, <2>2
  <2>4. r = Append(front, r[n + 1])
    BY <2>1, <2>2, <2>3
  <2>5. HasPlaces(FlattenSeq(front), front) /\ FlattenSeq(front) \in Seq(S)
    BY <1>2, <2>3, Flattened
  <2>6. PICK s \in Seq(S) : s = r[n + 1]
    BY <2>3
  <2>7. FlattenSeq(r) = FlattenSeq(front) \o s /\ r = Append(front, s)
    BY <2>3, <2>4, <2>6, FlattenAppended
  <2>. QED  BY <2>3, <2>5, <2>7, PlacesAppended
<1> HIDE DEF T
<1>3. \A n \in Nat : n \in T => n + 1 \in T
  BY <1>2
<1>4. Nat \subseteq T
  BY <1>1, <1>3, SetInduction, Zenon
<1>5. Len(seqs) \in T
  BY <1>4
<1>. QED  BY <1>5 DEF T
=============================================================================
