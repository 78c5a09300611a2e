--------------------------- MODULE TypeLibProofs ---------------------------
(***************************************************************************)
(* No reference of the tables of a context leads out of them, and no load, *)
(* be it refused, changes what was loaded before: for every set of         *)
(* libraries, every order of loads and any number of files.                *)
(*                                                                         *)
(* First the inductive invariant, and what every context keeps that only   *)
(* grows.  Growing is appending to the tables, except that a load may      *)
(* change what it appended itself; then each string, type, enum and piece  *)
(* of metadata of the loads before is found as it was.  Then that every    *)
(* step lets the context grow.                                             *)
(***************************************************************************)
EXTENDS TypeLib, NatInduct, TLAPS

(* A number is the least of a set.                                         *)
LEMMA MinIs ==
  ASSUME NEW I \in SUBSET Nat, NEW m \in I, \A k \in I : m <= k
  PROVE  Min(I) = m
<1>1. \E x \in I : \A k \in I : x <= k
  OBVIOUS
<1>2. Min(I) \in I /\ \A k \in I : Min(I) <= k
  BY <1>1, Zenon DEF Min
<1>3. Min(I) <= m /\ m <= Min(I) /\ m \in Nat /\ Min(I) \in Nat
  BY <1>2
<1>. QED  BY <1>3

(* The least of a set stays when greater numbers come to it.               *)
LEMMA MinKept ==
  ASSUME NEW I \in SUBSET Nat, NEW J \in SUBSET Nat, NEW n \in Nat, I # {},
         \A k \in I : k \in J /\ k <= n, \A k \in J : k <= n => k \in I
  PROVE  Min(I) \in I /\ Min(J) = Min(I)
<1>1. PICK m \in I : \A k \in I : m <= k
  BY LeastNat
<1>2. Min(I) = m
  BY <1>1, MinIs
<1>3. m \in J /\ \A k \in J : m <= k
  BY <1>1
<1>4. Min(J) = m
  BY <1>3, MinIs
<1>. QED  BY <1>1, <1>2, <1>4

(* There is a function with the sums of the first n sizes.                 *)
LEMMA SumsExist ==
  ASSUME NEW sizes
  PROVE  \A n \in Nat : \E f : f = [k \in 0..n |-> IF k = 0 THEN 0 ELSE f[k - 1] + sizes[k]]
<1> DEFINE T == {n \in Nat : \E f : f = [k \in 0..n |-> IF k = 0 THEN 0 ELSE f[k - 1] + sizes[k]]}
<1>1. 0 \in T
  <2> DEFINE f == [k \in 0..0 |-> 0]
  <2>1. f = [k \in 0..0 |-> IF k = 0 THEN 0 ELSE f[k - 1] + sizes[k]]
    OBVIOUS
  <2>. QED  BY <2>1
<1>2. ASSUME NEW n \in Nat, n \in T
      PROVE  n + 1 \in T
  <2>1. PICK f : f = [k \in 0..n |-> IF k = 0 THEN 0 ELSE f[k - 1] + sizes[k]]
    BY <1>2
  <2> DEFINE g == [k \in 0..(n + 1) |-> IF k <= n THEN f[k] ELSE f[k - 1] + sizes[k]]
  <2>2. ASSUME NEW k \in 0..(n + 1)
        PROVE  g[k] = IF k = 0 THEN 0 ELSE g[k - 1] + sizes[k]
    <3>1. CASE k <= n
      <4>1. k \in 0..n /\ g[k] = f[k]
        BY <3>1
      <4>2. f[k] = IF k = 0 THEN 0 ELSE f[k - 1] + sizes[k]
        BY <2>1, <4>1
      <4>3. k # 0 => g[k - 1] = f[k - 1]
        BY <3>1
      <4>. QED  BY <4>1, <4>2, <4>3, Zenon
    <3>2. CASE ~(k <= n)
      <4>1. g[k] = f[k - 1] + sizes[k] /\ k # 0
        BY <3>2
      <4>2. g[k - 1] = f[k - 1]
        BY <3>2
      <4>. QED  BY <4>1, <4>2, Zenon
    <3>. QED  BY <3>1, <3>2
  <2>3. g = [k \in 0..(n + 1) |-> g[k]]
    OBVIOUS
  <2> HIDE DEF g
  <2>4. g = [k \in 0..(n + 1) |-> IF k = 0 THEN 0 ELSE g[k - 1] + sizes[k]]
    BY <2>2, <2>3
  <2>5. n + 1 \in Nat
    OBVIOUS
  <2>. QED  BY <2>4, <2>5
<1> HIDE DEF T
<1>3. \A n \in Nat : n \in T => n + 1 \in T
  BY <1>2
<1>4. Nat \subseteq T
  BY <1>1, <1>3, SetInduction, Zenon
<1>. QED  BY <1>4 DEF T

(* The offset of a blob in a file is a number.                             *)
LEMMA OffsetIsNumber ==
  ASSUME NEW sizes \in Seq(Nat), NEW i \in DOMAIN sizes
  PROVE  Offset(sizes, i) \in Nat
<1> DEFINE n == i - 1
           upTo == CHOOSE f : f = [k \in 0..n |-> IF k = 0 THEN 0 ELSE f[k - 1] + sizes[k]]
           T == {k \in Nat : k <= n => upTo[k] \in Nat}
<1>1. n \in Nat /\ n <= Len(sizes)
  OBVIOUS
<1>2. upTo = [k \in 0..n |-> IF k = 0 THEN 0 ELSE upTo[k - 1] + sizes[k]]
  BY <1>1, SumsExist
<1>3. Offset(sizes, i) = upTo[n]
  BY DEF Offset
<1> HIDE DEF upTo, n
<1>4. 0 \in T
  BY <1>1, <1>2
<1>5. ASSUME NEW k \in Nat, k \in T
      PROVE  k + 1 \in T
  <2>1. SUFFICES ASSUME k + 1 <= n
                 PROVE  upTo[k + 1] \in Nat
    OBVIOUS
  <2>2. upTo[k + 1] = upTo[(k + 1) - 1] + sizes[k + 1]
    <3>1. k + 1 \in 0..n /\ k + 1 # 0
      BY <1>1, <2>1
    <3>. QED  BY <1>2, <3>1
  <2>3. (k + 1) - 1 = k /\ k <= n /\ sizes[k + 1] \in Nat
    BY <1>1, <2>1
  <2>. QED  BY <1>5, <2>2, <2>3
<1> HIDE DEF T
<1>6. \A k \in Nat : k \in T => k + 1 \in T
  BY <1>5
<1>7. Nat \subseteq T
  BY <1>4, <1>6, SetInduction, Zenon
<1>. QED  BY <1>1, <1>3, <1>7 DEF T

(***************************************************************************)
(* What a table has to do with one it came from.                           *)
(***************************************************************************)

(* The fields of tables.                                                   *)
LEMMA TablesHave ==
  ASSUME NEW t \in Tables
  PROVE  /\ t.strings \in Seq(STRING) /\ t.types \in Seq(TypeDescs)
         /\ t.members \in Seq(MemberDescs) /\ t.enums \in Seq(EnumDescs)
         /\ t.values \in Seq(ValueDescs) /\ t.aliases \in Seq(AliasDescs)
         /\ t.defaults \in Seq(Defaults) /\ t.metas \in Seq(Metas)
BY DEF Tables

(***************************************************************************)
(* References stay in the tables when all of them grow and what is new has *)
(* references into the tables as they are then.                            *)
(***************************************************************************)
TypeRefers(d, t) == d.name < Len(t.strings) /\ d.first + d.parts <= Len(t.members)
EnumRefers(d, t) == /\ d.name < Len(t.strings)
                    /\ d.first + d.parts <= Len(t.values)
                    /\ d.alias + d.aliases <= Len(t.aliases)
AliasRefers(d, t) == d.name < Len(t.strings) /\ d.value < Len(t.values)

NoShorter(t, u) ==
  /\ Len(t.strings) <= Len(u.strings) /\ Len(t.members) <= Len(u.members)
  /\ Len(t.values) <= Len(u.values) /\ Len(t.aliases) <= Len(u.aliases)

(* A description that refers into tables refers into those they grow to.   *)
LEMMA RefersGrows ==
  ASSUME NEW t \in Tables, NEW u \in Tables, NoShorter(t, u)
  PROVE  /\ \A d \in TypeDescs : TypeRefers(d, t) => TypeRefers(d, u)
         /\ \A d \in EnumDescs : EnumRefers(d, t) => EnumRefers(d, u)
         /\ \A d \in AliasDescs : AliasRefers(d, t) => AliasRefers(d, u)
<1>1. /\ Len(t.strings) \in Nat /\ Len(u.strings) \in Nat
      /\ Len(t.members) \in Nat /\ Len(u.members) \in Nat
      /\ Len(t.values) \in Nat /\ Len(u.values) \in Nat
      /\ Len(t.aliases) \in Nat /\ Len(u.aliases) \in Nat
  BY TablesHave
<1>2. ASSUME NEW d \in TypeDescs, TypeRefers(d, t)
      PROVE  TypeRefers(d, u)
  <2>1. d.name \in Nat /\ d.first + d.parts \in Nat
    BY DEF TypeDescs
  <2>. QED  BY <1>1, <1>2, <2>1 DEF NoShorter, TypeRefers
<1>3. ASSUME NEW d \in EnumDescs, EnumRefers(d, t)
      PROVE  EnumRefers(d, u)
  <2>1. d.name \in Nat /\ d.first + d.parts \in Nat /\ d.alias + d.aliases \in Nat
    BY DEF EnumDescs
  <2>. QED  BY <1>1, <1>3, <2>1 DEF NoShorter, EnumRefers
<1>4. ASSUME NEW d \in AliasDescs, AliasRefers(d, t)
      PROVE  AliasRefers(d, u)
  <2>1. d.name \in Nat /\ d.value \in Nat
    BY DEF AliasDescs
  <2>. QED  BY <1>1, <1>4, <2>1 DEF NoShorter, AliasRefers
<1>. QED  BY <1>2, <1>3, <1>4

LEMMA ReferencesGrow ==
  ASSUME NEW t \in Tables, NEW u \in Tables, References(t), NoShorter(t, u),
         \A i \in DOMAIN u.types :
           (i \in DOMAIN t.types /\ u.types[i] = t.types[i]) \/ TypeRefers(u.types[i], u),
         \A i \in DOMAIN u.members :
           \/ i \in DOMAIN t.members /\ u.members[i].name = t.members[i].name
           \/ u.members[i].name < Len(u.strings),
         \A i \in DOMAIN u.enums :
           (i \in DOMAIN t.enums /\ u.enums[i] = t.enums[i]) \/ EnumRefers(u.enums[i], u),
         \A i \in DOMAIN u.values :
           \/ i \in DOMAIN t.values /\ u.values[i] = t.values[i]
           \/ u.values[i].alias < Len(u.aliases),
         \A i \in DOMAIN u.aliases :
           (i \in DOMAIN t.aliases /\ u.aliases[i] = t.aliases[i]) \/ AliasRefers(u.aliases[i], u)
  PROVE  References(u)
<1>1. /\ Len(t.strings) \in Nat /\ Len(u.strings) \in Nat
      /\ Len(t.members) \in Nat /\ Len(u.members) \in Nat
      /\ Len(t.values) \in Nat /\ Len(u.values) \in Nat
      /\ Len(t.aliases) \in Nat /\ Len(u.aliases) \in Nat
  BY TablesHave
<1>2. ASSUME NEW i \in DOMAIN u.types
      PROVE  TypeRefers(u.types[i], u)
  <2>1. CASE TypeRefers(u.types[i], u)
    BY <2>1
  <2>2. CASE i \in DOMAIN t.types /\ u.types[i] = t.types[i]
    <3>1. TypeRefers(t.types[i], t) /\ t.types[i] \in TypeDescs
      BY <2>2, TablesHave DEF References, TypeRefers
    <3>. QED  BY <2>2, <3>1, RefersGrows
  <2>. QED  BY <2>1, <2>2
<1>3. ASSUME NEW i \in DOMAIN u.members
      PROVE  u.members[i].name < Len(u.strings)
  <2>1. CASE i \in DOMAIN t.members /\ u.members[i].name = t.members[i].name
    <3>1. t.members[i].name < Len(t.strings) /\ t.members[i] \in MemberDescs
      BY <2>1, TablesHave DEF References
    <3>. QED  BY <1>1, <2>1, <3>1 DEF NoShorter, MemberDescs
  <2>. QED  BY <2>1
<1>4. ASSUME NEW i \in DOMAIN u.enums
      PROVE  EnumRefers(u.enums[i], u)
  <2>1. CASE EnumRefers(u.enums[i], u)
    BY <2>1
  <2>2. CASE i \in DOMAIN t.enums /\ u.enums[i] = t.enums[i]
    <3>1. EnumRefers(t.enums[i], t) /\ t.enums[i] \in EnumDescs
      BY <2>2, TablesHave DEF References, EnumRefers
    <3>. QED  BY <2>2, <3>1, RefersGrows
  <2>. QED  BY <2>1, <2>2
<1>5. ASSUME NEW i \in DOMAIN u.values
      PROVE  u.values[i].alias < Len(u.aliases)
  <2>1. CASE i \in DOMAIN t.values /\ u.values[i] = t.values[i]
    <3>1. t.values[i].alias < Len(t.aliases) /\ t.values[i] \in ValueDescs
      BY <2>1, TablesHave DEF References
    <3>. QED  BY <1>1, <2>1, <3>1 DEF NoShorter, ValueDescs
  <2>. QED  BY <2>1
<1>6. ASSUME NEW i \in DOMAIN u.aliases
      PROVE  AliasRefers(u.aliases[i], u)
  <2>1. CASE AliasRefers(u.aliases[i], u)
    BY <2>1
  <2>2. CASE i \in DOMAIN t.aliases /\ u.aliases[i] = t.aliases[i]
    <3>1. AliasRefers(t.aliases[i], t) /\ t.aliases[i] \in AliasDescs
      BY <2>2, TablesHave DEF References, AliasRefers
    <3>. QED  BY <2>2, <3>1, RefersGrows
  <2>. QED  BY <2>1, <2>2
<1>. QED
  BY <1>2, <1>3, <1>4, <1>5, <1>6 DEF References, TypeRefers, EnumRefers, AliasRefers

(***************************************************************************)
(* What is found for a name.                                               *)
(***************************************************************************)
NamesGrow == /\ Longer(ctx.strings, ctx'.strings)
             /\ Longer(ctx.types, ctx'.types)
             /\ Longer(ctx.enums, ctx'.enums)

(* A type that is named in the tables is one of them, and stays the one    *)
(* that is found for its name when the tables grow.                        *)
LEMMA TypeFound ==
  ASSUME NEW name, ctx \in Tables,
         \E i \in DOMAIN ctx.types : String(ctx.types[i].name) = name
  PROVE  \E i \in DOMAIN ctx.types : TypeOf(name) = ctx.types[i]
<1> DEFINE I == {k \in 1..Len(ctx.types) : String(ctx.types[k].name) = name}
<1>1. FirstNamed(ctx.types, name) = (IF I # {} THEN Min(I) ELSE 0) - 1
  BY DEF FirstNamed, SelectInSeq
<1>2. I \in SUBSET Nat /\ I # {} /\ DOMAIN ctx.types = 1..Len(ctx.types) /\ Len(ctx.types) \in Nat
  <2>1. ctx.types \in Seq(TypeDescs)
    BY TablesHave
  <2>2. DOMAIN ctx.types = 1..Len(ctx.types) /\ Len(ctx.types) \in Nat
    BY <2>1
  <2>3. I # {}
    BY <2>2, Zenon
  <2>4. I \in SUBSET Nat
    BY <2>2
  <2>. QED  BY <2>2, <2>3, <2>4
<1>0. \A k \in I : k \in 1..Len(ctx.types)
  OBVIOUS
<1> HIDE DEF I
<1>3. \A k \in I : k <= Len(ctx.types)
  BY <1>0, <1>2
<1>4. Min(I) \in I
  BY <1>2, <1>3, MinKept
<1>5. Min(I) \in DOMAIN ctx.types /\ Min(I) \in Nat
  BY <1>2, <1>4, <1>0
<1>6. FirstNamed(ctx.types, name) + 1 = Min(I)
  BY <1>1, <1>2, <1>5
<1>. QED  BY <1>5, <1>6 DEF TypeOf, Get

LEMMA TypeFoundKept ==
  ASSUME NEW name, ctx \in Tables, ctx' \in Tables, References(ctx), NamesGrow,
         \E i \in DOMAIN ctx.types : String(ctx.types[i].name) = name
  PROVE  /\ TypeOf(name)' = TypeOf(name)
         /\ \E i \in DOMAIN ctx'.types : String(ctx.types[i].name)' = name
<1> DEFINE I == {k \in 1..Len(ctx.types) : String(ctx.types[k].name) = name}
           J == {k \in 1..Len(ctx'.types) : String(ctx.types[k].name)' = name}
<1>1. /\ FirstNamed(ctx.types, name) = (IF I # {} THEN Min(I) ELSE 0) - 1
      /\ FirstNamed(ctx.types, name)' = (IF J # {} THEN Min(J) ELSE 0) - 1
  BY DEF FirstNamed, SelectInSeq
<1>2. /\ I \in SUBSET Nat /\ J \in SUBSET Nat
      /\ DOMAIN ctx.types = 1..Len(ctx.types) /\ Len(ctx.types) \in Nat
      /\ DOMAIN ctx'.types = 1..Len(ctx'.types) /\ Len(ctx'.types) \in Nat
  <2>1. ctx.types \in Seq(TypeDescs) /\ ctx'.types \in Seq(TypeDescs)
    BY TablesHave
  <2>2. /\ DOMAIN ctx.types = 1..Len(ctx.types) /\ Len(ctx.types) \in Nat
        /\ DOMAIN ctx'.types = 1..Len(ctx'.types) /\ Len(ctx'.types) \in Nat
    BY <2>1
  <2>. QED  BY <2>2
<1>3. ASSUME NEW k \in 1..Len(ctx.types)
      PROVE  /\ k \in 1..Len(ctx'.types) /\ ctx'.types[k] = ctx.types[k]
             /\ String(ctx.types[k].name)' = String(ctx.types[k].name)
  <2>1. k \in 1..Len(ctx'.types) /\ ctx'.types[k] = ctx.types[k]
    BY <1>2 DEF NamesGrow, Longer
  <2>2. ctx.types[k].name < Len(ctx.strings) /\ ctx.types[k] \in TypeDescs
    <3>1. k \in DOMAIN ctx.types /\ ctx.types \in Seq(TypeDescs)
      BY <1>2, TablesHave
    <3>2. ctx.types[k].name < Len(ctx.strings)
      BY <3>1, Zenon DEF References
    <3>. QED  BY <3>1, <3>2
  <2>3. ctx.types[k].name + 1 \in 1..Len(ctx.strings)
    <3>1. ctx.strings \in Seq(STRING)
      BY TablesHave
    <3>2. Len(ctx.strings) \in Nat /\ ctx.types[k].name \in Nat
      BY <2>2, <3>1 DEF TypeDescs
    <3>. QED  BY <2>2, <3>2
  <2>4. ctx'.strings[ctx.types[k].name + 1] = ctx.strings[ctx.types[k].name + 1]
    BY <2>3 DEF NamesGrow, Longer
  <2>. QED  BY <2>1, <2>4 DEF String, Get
<1>4. (\A k \in I : k \in J) /\ (\A k \in J : k <= Len(ctx.types) => k \in I)
  BY <1>2, <1>3
<1>5. I # {} /\ \A k \in I : k \in 1..Len(ctx.types)
  BY <1>2, Zenon
<1>0. \A k \in J : String(ctx.types[k].name)' = name
  OBVIOUS
<1> HIDE DEF I, J
<1>6. Min(I) \in I /\ Min(J) = Min(I)
  <2>1. \A k \in I : k <= Len(ctx.types)
    BY <1>2, <1>5
  <2>. QED  BY <1>2, <1>4, <1>5, <2>1, MinKept
<1>7. Min(I) \in 1..Len(ctx.types) /\ Min(I) \in Nat /\ Min(I) \in J /\ J # {}
  <2>1. Min(I) \in J
    BY <1>4, <1>6
  <2>. QED  BY <1>2, <1>5, <1>6, <2>1
<1>8. PICK m \in 1..Len(ctx.types) : m = Min(I)
  BY <1>7
<1>11. /\ m \in 1..Len(ctx'.types) /\ String(ctx.types[m].name)' = name
       /\ ctx'.types[m] = ctx.types[m]
  BY <1>0, <1>3, <1>7, <1>8
<1>9. FirstNamed(ctx.types, name) + 1 = Min(I) /\ FirstNamed(ctx.types, name)' + 1 = Min(I)
  BY <1>1, <1>5, <1>6, <1>7
<1>10. TypeOf(name)' = ctx'.types[Min(I)] /\ TypeOf(name) = ctx.types[Min(I)]
  BY <1>9 DEF TypeOf, Get
<1>. QED  BY <1>2, <1>8, <1>10, <1>11

(* An enum that is named in the tables is one of them, and stays the one   *)
(* that is found for its name when the tables grow.                        *)
LEMMA EnumFound ==
  ASSUME NEW name, ctx \in Tables,
         \E i \in DOMAIN ctx.enums : String(ctx.enums[i].name) = name
  PROVE  \E i \in DOMAIN ctx.enums : EnumOf(name) = ctx.enums[i]
<1> DEFINE I == {k \in 1..Len(ctx.enums) : String(ctx.enums[k].name) = name}
<1>1. FirstNamed(ctx.enums, name) = (IF I # {} THEN Min(I) ELSE 0) - 1
  BY DEF FirstNamed, SelectInSeq
<1>2. I \in SUBSET Nat /\ I # {} /\ DOMAIN ctx.enums = 1..Len(ctx.enums) /\ Len(ctx.enums) \in Nat
  <2>1. ctx.enums \in Seq(EnumDescs)
    BY TablesHave
  <2>2. DOMAIN ctx.enums = 1..Len(ctx.enums) /\ Len(ctx.enums) \in Nat
    BY <2>1
  <2>3. I # {}
    BY <2>2, Zenon
  <2>4. I \in SUBSET Nat
    BY <2>2
  <2>. QED  BY <2>2, <2>3, <2>4
<1>0. \A k \in I : k \in 1..Len(ctx.enums)
  OBVIOUS
<1> HIDE DEF I
<1>3. \A k \in I : k <= Len(ctx.enums)
  BY <1>0, <1>2
<1>4. Min(I) \in I
  BY <1>2, <1>3, MinKept
<1>5. Min(I) \in DOMAIN ctx.enums /\ Min(I) \in Nat
  BY <1>2, <1>4, <1>0
<1>6. FirstNamed(ctx.enums, name) + 1 = Min(I)
  BY <1>1, <1>2, <1>5
<1>. QED  BY <1>5, <1>6 DEF EnumOf, Get

LEMMA EnumFoundKept ==
  ASSUME NEW name, ctx \in Tables, ctx' \in Tables, References(ctx), NamesGrow,
         \E i \in DOMAIN ctx.enums : String(ctx.enums[i].name) = name
  PROVE  /\ EnumOf(name)' = EnumOf(name)
         /\ \E i \in DOMAIN ctx'.enums : String(ctx.enums[i].name)' = name
<1> DEFINE I == {k \in 1..Len(ctx.enums) : String(ctx.enums[k].name) = name}
           J == {k \in 1..Len(ctx'.enums) : String(ctx.enums[k].name)' = name}
<1>1. /\ FirstNamed(ctx.enums, name) = (IF I # {} THEN Min(I) ELSE 0) - 1
      /\ FirstNamed(ctx.enums, name)' = (IF J # {} THEN Min(J) ELSE 0) - 1
  BY DEF FirstNamed, SelectInSeq
<1>2. /\ I \in SUBSET Nat /\ J \in SUBSET Nat
      /\ DOMAIN ctx.enums = 1..Len(ctx.enums) /\ Len(ctx.enums) \in Nat
      /\ DOMAIN ctx'.enums = 1..Len(ctx'.enums) /\ Len(ctx'.enums) \in Nat
  <2>1. ctx.enums \in Seq(EnumDescs) /\ ctx'.enums \in Seq(EnumDescs)
    BY TablesHave
  <2>2. /\ DOMAIN ctx.enums = 1..Len(ctx.enums) /\ Len(ctx.enums) \in Nat
        /\ DOMAIN ctx'.enums = 1..Len(ctx'.enums) /\ Len(ctx'.enums) \in Nat
    BY <2>1
  <2>. QED  BY <2>2
<1>3. ASSUME NEW k \in 1..Len(ctx.enums)
      PROVE  /\ k \in 1..Len(ctx'.enums) /\ ctx'.enums[k] = ctx.enums[k]
             /\ String(ctx.enums[k].name)' = String(ctx.enums[k].name)
  <2>1. k \in 1..Len(ctx'.enums) /\ ctx'.enums[k] = ctx.enums[k]
    BY <1>2 DEF NamesGrow, Longer
  <2>2. ctx.enums[k].name < Len(ctx.strings) /\ ctx.enums[k] \in EnumDescs
    <3>1. k \in DOMAIN ctx.enums /\ ctx.enums \in Seq(EnumDescs)
      BY <1>2, TablesHave
    <3>2. ctx.enums[k].name < Len(ctx.strings)
      BY <3>1, Zenon DEF References
    <3>. QED  BY <3>1, <3>2
  <2>3. ctx.enums[k].name + 1 \in 1..Len(ctx.strings)
    <3>1. ctx.strings \in Seq(STRING)
      BY TablesHave
    <3>2. Len(ctx.strings) \in Nat /\ ctx.enums[k].name \in Nat
      BY <2>2, <3>1 DEF EnumDescs
    <3>. QED  BY <2>2, <3>2
  <2>4. ctx'.strings[ctx.enums[k].name + 1] = ctx.strings[ctx.enums[k].name + 1]
    BY <2>3 DEF NamesGrow, Longer
  <2>. QED  BY <2>1, <2>4 DEF String, Get
<1>4. (\A k \in I : k \in J) /\ (\A k \in J : k <= Len(ctx.enums) => k \in I)
  BY <1>2, <1>3
<1>5. I # {} /\ \A k \in I : k \in 1..Len(ctx.enums)
  BY <1>2, Zenon
<1>0. \A k \in J : String(ctx.enums[k].name)' = name
  OBVIOUS
<1> HIDE DEF I, J
<1>6. Min(I) \in I /\ Min(J) = Min(I)
  <2>1. \A k \in I : k <= Len(ctx.enums)
    BY <1>2, <1>5
  <2>. QED  BY <1>2, <1>4, <1>5, <2>1, MinKept
<1>7. Min(I) \in 1..Len(ctx.enums) /\ Min(I) \in Nat /\ Min(I) \in J /\ J # {}
  <2>1. Min(I) \in J
    BY <1>4, <1>6
  <2>. QED  BY <1>2, <1>5, <1>6, <2>1
<1>8. PICK m \in 1..Len(ctx.enums) : m = Min(I)
  BY <1>7
<1>11. /\ m \in 1..Len(ctx'.enums) /\ String(ctx.enums[m].name)' = name
       /\ ctx'.enums[m] = ctx.enums[m]
  BY <1>0, <1>3, <1>7, <1>8
<1>9. FirstNamed(ctx.enums, name) + 1 = Min(I) /\ FirstNamed(ctx.enums, name)' + 1 = Min(I)
  BY <1>1, <1>5, <1>6, <1>7
<1>10. EnumOf(name)' = ctx'.enums[Min(I)] /\ EnumOf(name) = ctx.enums[Min(I)]
  BY <1>9 DEF EnumOf, Get
<1>. QED  BY <1>2, <1>8, <1>10, <1>11

(***************************************************************************)
(* What a growing context keeps.                                           *)
(***************************************************************************)
LEMMA StringKept ==
  ASSUME ctx \in Tables, Longer(ctx.strings, ctx'.strings),
         NEW index \in Nat, index < Len(ctx.strings)
  PROVE  String(index)' = String(index)
<1>1. ctx.strings \in Seq(STRING)
  BY TablesHave
<1>2. index + 1 \in 1..Len(ctx.strings)
  BY <1>1
<1>. QED  BY <1>2 DEF Longer, String, Get

LEMMA DefaultKept ==
  ASSUME ctx \in Tables, ctx' \in Tables, Longer(ctx.defaults, ctx'.defaults),
         NEW member \in MemberDescs, member.default < Len(ctx.defaults)
  PROVE  DefaultOf(member)' = DefaultOf(member)
<1>1. ctx.defaults \in Seq(Defaults) /\ ctx'.defaults \in Seq(Defaults)
  BY TablesHave
<1>2. Len(ctx.defaults) \in Nat /\ Len(ctx'.defaults) \in Nat /\ Len(ctx.defaults) <= Len(ctx'.defaults)
  BY <1>1 DEF Longer
<1>3. member.default \in Int
  BY DEF MemberDescs
<1>4. CASE member.default \in 0..(Len(ctx.defaults) - 1)
  <2>1. member.default \in 0..(Len(ctx'.defaults) - 1)
    BY <1>2, <1>4
  <2>2. member.default + 1 \in 1..Len(ctx.defaults)
    BY <1>2, <1>4
  <2>3. Get(ctx'.defaults, member.default) = Get(ctx.defaults, member.default)
    BY <2>2 DEF Longer, Get
  <2>. QED  BY <1>4, <2>1, <2>3 DEF DefaultOf
<1>5. CASE member.default \notin 0..(Len(ctx.defaults) - 1)
  <2>1. member.default \notin 0..(Len(ctx'.defaults) - 1)
    BY <1>2, <1>3, <1>5
  <2>. QED  BY <1>5, <2>1 DEF DefaultOf, Nothing
<1>. QED  BY <1>4, <1>5

LEMMA MetasKept ==
  ASSUME NEW d, d.meta \in Nat, d.count \in Nat, NEW n \in Nat, d.meta + d.count <= n,
         \A i \in 1..n : ctx'.metas[i].data = ctx.metas[i].data
  PROVE  /\ Mapped([i \in 1..d.count |-> Get(ctx'.metas, d.meta + i - 1).data], MetaName)
              = Mapped(MetasOf(d), MetaName)
<1>1. ASSUME NEW i \in 1..d.count
      PROVE  Get(ctx'.metas, d.meta + i - 1).data = Get(ctx.metas, d.meta + i - 1).data
  <2>1. (d.meta + i - 1) + 1 \in 1..n
    OBVIOUS
  <2>. QED  BY <2>1 DEF Get
<1>2. [i \in 1..d.count |-> Get(ctx'.metas, d.meta + i - 1).data] = MetasOf(d)
  BY <1>1 DEF MetasOf
<1>. QED  BY <1>2

(* Members and default values that stay, and metadata that does, are seen  *)
(* as they were.                                                           *)
LEMMA TypeViewKept ==
  ASSUME NEW name, ctx \in Tables, ctx' \in Tables, References(ctx), NamesGrow,
         Longer(ctx.defaults, ctx'.defaults),
         \E i \in DOMAIN ctx.types : String(ctx.types[i].name) = name,
         NEW m \in Nat, m <= Len(ctx.members), TypeOf(name).first + TypeOf(name).parts <= m,
         NEW n \in Nat, TypeOf(name).meta + TypeOf(name).count <= n,
         \A i \in 1..m : /\ ctx'.members[i] = ctx.members[i]
                         /\ ctx.members[i].default < Len(ctx.defaults),
         \A i \in 1..n : ctx'.metas[i].data = ctx.metas[i].data
  PROVE  TypeView(name)' = TypeView(name)
<1>1. PICK d : d = TypeOf(name)
  OBVIOUS
<1>2. d = TypeOf(name)'
  BY <1>1, TypeFoundKept
<1>3. d \in TypeDescs
  <2>1. PICK i \in DOMAIN ctx.types : d = ctx.types[i]
    BY <1>1, TypeFound
  <2>2. ctx.types \in Seq(TypeDescs)
    BY TablesHave
  <2>. QED  BY <2>1, <2>2
<1>4. d.first \in Nat /\ d.parts \in Nat /\ d.meta \in Nat /\ d.count \in Nat
  BY <1>3 DEF TypeDescs
<1>5. ASSUME NEW i \in 1..d.parts
      PROVE  /\ Get(ctx.members, d.first + i - 1) = Get(ctx'.members, d.first + i - 1)
             /\ Get(ctx.members, d.first + i - 1) \in MemberDescs
             /\ Get(ctx.members, d.first + i - 1).default < Len(ctx.defaults)
             /\ Get(ctx.members, d.first + i - 1).name < Len(ctx.strings)
  <2>1. (d.first + i - 1) + 1 \in 1..m
    BY <1>1, <1>4
  <2>2. PICK k \in 1..m : k = (d.first + i - 1) + 1
    BY <2>1
  <2>3. ctx.members \in Seq(MemberDescs)
    BY TablesHave
  <2>4. k \in DOMAIN ctx.members /\ ctx.members[k] \in MemberDescs
    BY <2>3
  <2>5. ctx.members[k].name < Len(ctx.strings)
    BY <2>4, Zenon DEF References
  <2>. QED  BY <2>2, <2>4, <2>5 DEF Get
<1>6. [i \in 1..d.parts |-> Get(ctx.members, d.first + i - 1)]
        = [i \in 1..d.parts |-> Get(ctx'.members, d.first + i - 1)]
  BY <1>5
<1>7. PICK parts : parts = [i \in 1..d.parts |-> Get(ctx.members, d.first + i - 1)]
  OBVIOUS
<1>8. PartsOf(TypeOf(name), ctx.members) = parts /\ PartsOf(TypeOf(name), ctx.members)' = parts
  BY <1>1, <1>2, <1>6, <1>7 DEF PartsOf
<1>9. ASSUME NEW i \in DOMAIN parts
      PROVE  /\ String(parts[i].name)' = String(parts[i].name)
             /\ DefaultOf(parts[i])' = DefaultOf(parts[i])
  <2>1. /\ parts[i] \in MemberDescs /\ parts[i].default < Len(ctx.defaults)
        /\ parts[i].name < Len(ctx.strings)
    BY <1>5, <1>7
  <2>2. parts[i].name \in Nat
    BY <2>1 DEF MemberDescs
  <2>3. String(parts[i].name)' = String(parts[i].name)
    BY <2>1, <2>2, StringKept DEF NamesGrow
  <2>4. DefaultOf(parts[i])' = DefaultOf(parts[i])
    BY <2>1, DefaultKept
  <2>. QED  BY <2>3, <2>4
<1>10. MembersOf(name) = [i \in DOMAIN parts |-> <<String(parts[i].name), parts[i].of, DefaultOf(parts[i])>>]
  BY <1>8, Zenon DEF MembersOf, Mapped
<1>11. MembersOf(name)' = [i \in DOMAIN parts |-> <<String(parts[i].name)', parts[i].of, DefaultOf(parts[i])'>>]
  BY <1>8, Zenon DEF MembersOf, Mapped
<1>12. MembersOf(name)' = MembersOf(name)
  BY <1>9, <1>10, <1>11, Zenon
<1>13. MetasOf(TypeOf(name))' = [i \in 1..d.count |-> Get(ctx'.metas, d.meta + i - 1).data]
  BY <1>2, Zenon DEF MetasOf
<1>14. Mapped(MetasOf(TypeOf(name)), MetaName)' = Mapped(MetasOf(TypeOf(name)), MetaName)
  <2>1. d.meta + d.count <= n
    BY <1>1
  <2>2. Mapped([i \in 1..d.count |-> Get(ctx'.metas, d.meta + i - 1).data], MetaName)
          = Mapped(MetasOf(d), MetaName)
    BY <1>4, <2>1, MetasKept
  <2>. QED  BY <1>1, <1>13, <2>2, Zenon DEF Mapped, MetaName
<1>. QED  BY <1>12, <1>14 DEF TypeView

LEMMA EnumViewKept ==
  ASSUME NEW name, ctx \in Tables, ctx' \in Tables, References(ctx), NamesGrow,
         Longer(ctx.values, ctx'.values), Longer(ctx.aliases, ctx'.aliases),
         \E i \in DOMAIN ctx.enums : String(ctx.enums[i].name) = name,
         NEW n \in Nat, EnumOf(name).meta + EnumOf(name).count <= n,
         \A i \in 1..n : ctx'.metas[i].data = ctx.metas[i].data
  PROVE  EnumView(name)' = EnumView(name)
<1>1. PICK d : d = EnumOf(name)
  OBVIOUS
<1>2. d = EnumOf(name)'
  BY <1>1, EnumFoundKept
<1>3. d \in EnumDescs /\ EnumRefers(d, ctx)
  <2>1. PICK i \in DOMAIN ctx.enums : d = ctx.enums[i]
    BY <1>1, EnumFound
  <2>2. ctx.enums \in Seq(EnumDescs)
    BY TablesHave
  <2>3. EnumRefers(ctx.enums[i], ctx)
    BY Zenon DEF References, EnumRefers
  <2>. QED  BY <2>1, <2>2, <2>3
<1>4. /\ d.alias \in Nat /\ d.aliases \in Nat /\ d.meta \in Nat /\ d.count \in Nat
      /\ d.alias + d.aliases <= Len(ctx.aliases)
  BY <1>3 DEF EnumDescs, EnumRefers
<1>5. ASSUME NEW i \in 1..d.aliases
      PROVE  /\ Get(ctx'.aliases, d.alias + i - 1) = Get(ctx.aliases, d.alias + i - 1)
             /\ Get(ctx.aliases, d.alias + i - 1) \in AliasDescs
             /\ AliasRefers(Get(ctx.aliases, d.alias + i - 1), ctx)
  <2>1. ctx.aliases \in Seq(AliasDescs)
    BY TablesHave
  <2>2. (d.alias + i - 1) + 1 \in 1..Len(ctx.aliases)
    BY <1>4, <2>1
  <2>3. PICK k \in 1..Len(ctx.aliases) : k = (d.alias + i - 1) + 1
    BY <2>2
  <2>4. k \in DOMAIN ctx.aliases /\ ctx.aliases[k] \in AliasDescs
    BY <2>1
  <2>5. AliasRefers(ctx.aliases[k], ctx)
    BY <2>4, Zenon DEF References, AliasRefers
  <2>6. ctx'.aliases[k] = ctx.aliases[k]
    BY DEF Longer
  <2>. QED  BY <2>3, <2>4, <2>5, <2>6 DEF Get
<1>6. ASSUME NEW a \in AliasDescs, AliasRefers(a, ctx)
      PROVE  /\ String(a.name)' = String(a.name)
             /\ Get(ctx'.values, a.value).value = Get(ctx.values, a.value).value
  <2>1. /\ a.name \in Nat /\ a.value \in Nat
        /\ a.name < Len(ctx.strings) /\ a.value < Len(ctx.values)
    BY <1>6 DEF AliasDescs, AliasRefers
  <2>2. String(a.name)' = String(a.name)
    BY <2>1, StringKept DEF NamesGrow
  <2>3. a.value + 1 \in 1..Len(ctx.values)
    <3>1. ctx.values \in Seq(ValueDescs)
      BY TablesHave
    <3>. QED  BY <2>1, <3>1
  <2>. QED  BY <2>2, <2>3 DEF Longer, Get
<1>7. PICK alias : alias = [i \in 1..d.aliases |-> Get(ctx.aliases, d.alias + i - 1)]
  OBVIOUS
<1>8. \A i \in 1..d.aliases : alias[i] = Get(ctx.aliases, d.alias + i - 1)
                              /\ alias[i] = Get(ctx'.aliases, d.alias + i - 1)
  BY <1>5, <1>7
<1>9. AliasesOf(name)
        = [i \in 1..d.aliases |-> <<String(alias[i].name), Get(ctx.values, alias[i].value).value>>]
  BY <1>1, <1>8, Zenon DEF AliasesOf
<1>10. AliasesOf(name)'
         = [i \in 1..d.aliases |-> <<String(alias[i].name)', Get(ctx'.values, alias[i].value).value>>]
  BY <1>2, <1>8, Zenon DEF AliasesOf
<1>11. \A i \in 1..d.aliases : alias[i] \in AliasDescs /\ AliasRefers(alias[i], ctx)
  BY <1>5, <1>8
<1>12. AliasesOf(name)' = AliasesOf(name)
  BY <1>6, <1>9, <1>10, <1>11, Zenon
<1>13. MetasOf(EnumOf(name))' = [i \in 1..d.count |-> Get(ctx'.metas, d.meta + i - 1).data]
  BY <1>2, Zenon DEF MetasOf
<1>14. Mapped(MetasOf(EnumOf(name)), MetaName)' = Mapped(MetasOf(EnumOf(name)), MetaName)
  <2>1. d.meta + d.count <= n
    BY <1>1
  <2>2. Mapped([i \in 1..d.count |-> Get(ctx'.metas, d.meta + i - 1).data], MetaName)
          = Mapped(MetasOf(d), MetaName)
    BY <1>4, <2>1, MetasKept
  <2>. QED  BY <1>1, <1>13, <2>2, Zenon DEF Mapped, MetaName
<1>. QED  BY <1>12, <1>14 DEF EnumView

(***************************************************************************)
(* The inductive invariant.                                                *)
(***************************************************************************)
Decls == TypeDecls \cup EnumDecls
Files == [tables : Tables, offsets : Seq(Nat), declared : Seq(Decls)]
LogEntries == [ok : BOOLEAN, from : {"text", "file"}, declared : Seq(Decls)]

(* Tables have a type or an enum of the name that is declared.             *)
Named(t, decl) ==
  /\ decl.kind = "type" => \E i \in DOMAIN t.types : Get(t.strings, t.types[i].name) = decl.name
  /\ decl.kind = "enum" => \E i \in DOMAIN t.enums : Get(t.strings, t.enums[i].name) = decl.name

(* The instances of types and enums are among the first n.                 *)
MetasWithin(t, n) ==
  /\ \A i \in DOMAIN t.types : t.types[i].meta + t.types[i].count <= n
  /\ \A i \in DOMAIN t.enums : t.enums[i].meta + t.enums[i].count <= n

(* The default values of members are among the first n.                    *)
DefaultsWithin(t, n) == \A i \in DOMAIN t.members : t.members[i].default < n

(* What is found for a declaration is in the first m members and n metas.  *)
Kept(decl, m, n) ==
  /\ Named(ctx, decl)
  /\ decl.kind = "type" =>
       /\ TypeOf(decl.name).first + TypeOf(decl.name).parts <= m
       /\ TypeOf(decl.name).meta + TypeOf(decl.name).count <= n
  /\ decl.kind = "enum" => EnumOf(decl.name).meta + EnumOf(decl.name).count <= n

(* How much of the tables was there before the load.                       *)
OldMembers == IF phase = "idle" THEN Len(ctx.members) ELSE start.members
OldMetas == IF phase = "idle" THEN Len(ctx.metas) ELSE start.metas

FileOK(f) ==
  /\ References(f.tables)
  /\ MetasWithin(f.tables, Len(f.tables.metas))
  /\ DefaultsWithin(f.tables, Len(f.tables.defaults))
  /\ \A j \in DOMAIN f.declared : Named(f.tables, f.declared[j])

TablesOK == phase \in Phases /\ ctx \in Tables /\ References(ctx)

FilesOK == files \in Seq(Files) /\ \A i \in DOMAIN files : FileOK(files[i])

StartOK ==
  phase # "idle" =>
    /\ start.members \in Nat /\ start.members <= Len(ctx.members)
    /\ start.metas \in Nat /\ start.metas <= Len(ctx.metas)
    /\ \A i \in 1..start.members : ctx.members[i].default < Len(ctx.defaults)

(* The description that is being read has the parts that were read.        *)
DeclOK ==
  /\ pos[2] <= Len(Decl.parts) + 1
  /\ local.meta \in Nat /\ local.first \in Nat /\ local.alias \in Nat
  /\ local.meta + Len(Decl.metas) <= Len(ctx.metas)
  /\ Decl.kind = "type" => local.first + pos[2] = Len(ctx.members) + 1
  /\ Decl.kind = "enum" => /\ local.first + pos[2] = Len(ctx.values) + 1
                           /\ local.alias <= Len(ctx.aliases)

ReadingOK ==
  phase = "text" =>
    /\ lib \in Seq(Decls)
    /\ pos[1] \in 1..(Len(lib) + 1) /\ pos[2] \in Nat
    /\ \A j \in 1..(pos[1] - 1) : Named(ctx, lib[j])
    /\ Reading /\ pos[2] > 0 => DeclOK

BuildingOK ==
  phase \in {"defaults", "metadata"} =>
    /\ lib \in Seq(Decls)
    /\ pos[1] \in Nat
    /\ \A j \in DOMAIN lib : Named(ctx, lib[j])

LoadingOK ==
  phase = "binary" =>
    /\ lib \in Files /\ FileOK(lib)
    /\ pos[1] \in 1..(Len(lib.tables.metas) + 1)
    /\ Len(ctx.metas) + 1 = start.metas + pos[1]
    /\ \A j \in DOMAIN lib.declared : Named(ctx, lib.declared[j])
    /\ MetasWithin(ctx, start.metas + Len(lib.tables.metas))
    /\ DefaultsWithin(ctx, Len(ctx.defaults) + Len(lib.tables.defaults))

WithinOK ==
  phase \notin {"binary", "lost"} =>
    /\ MetasWithin(ctx, Len(ctx.metas))
    /\ DefaultsWithin(ctx, Len(ctx.defaults))

LogOK ==
  /\ log \in Seq(LogEntries)
  /\ \A i \in DOMAIN log : \A j \in DOMAIN log[i].declared :
       Kept(log[i].declared[j], OldMembers, OldMetas)

IInv == /\ TablesOK /\ FilesOK /\ StartOK /\ ReadingOK
        /\ BuildingOK /\ LoadingOK /\ WithinOK /\ LogOK

(***************************************************************************)
(* Every step but the start of a new context lets the tables grow: of what *)
(* was there before the load, all stays.                                   *)
(***************************************************************************)
Grows ==
  /\ NamesGrow
  /\ Longer(ctx.values, ctx'.values) /\ Longer(ctx.aliases, ctx'.aliases)
  /\ Longer(ctx.defaults, ctx'.defaults)
  /\ Len(ctx.members) <= Len(ctx'.members) /\ Len(ctx.metas) <= Len(ctx'.metas)
  /\ \A i \in 1..OldMembers : ctx'.members[i] = ctx.members[i]
  /\ \A i \in 1..OldMetas : ctx'.metas[i].data = ctx.metas[i].data

LEMMA DeclKinds ==
  ASSUME NEW decl \in Decls
  PROVE  /\ decl.kind = "type" => decl \in TypeDecls
         /\ decl.kind = "enum" => decl \in EnumDecls
         /\ decl.kind \in {"type", "enum"}
BY DEF Decls, TypeDecls, EnumDecls

LEMMA OldIsNumber ==
  ASSUME IInv
  PROVE  /\ OldMembers \in Nat /\ OldMembers <= Len(ctx.members)
         /\ OldMetas \in Nat /\ OldMetas <= Len(ctx.metas)
         /\ Len(ctx.members) \in Nat /\ Len(ctx.metas) \in Nat
<1>1. ctx.members \in Seq(MemberDescs) /\ ctx.metas \in Seq(Metas)
  BY TablesHave DEF IInv, TablesOK
<1>2. Len(ctx.members) \in Nat /\ Len(ctx.metas) \in Nat
  BY <1>1
<1>. QED  BY <1>2 DEF IInv, StartOK, OldMembers, OldMetas

(* A name that is in the tables stays in them.                             *)
LEMMA NamedKept ==
  ASSUME IInv, ctx' \in Tables, NamesGrow, NEW decl, Named(ctx, decl)
  PROVE  Named(ctx, decl)'
<1>1. ctx \in Tables /\ References(ctx)
  BY DEF IInv, TablesOK
<1>2. ASSUME decl.kind = "type"
      PROVE  \E i \in DOMAIN ctx'.types : String(ctx.types[i].name)' = decl.name
  <2>1. \E i \in DOMAIN ctx.types : String(ctx.types[i].name) = decl.name
    BY <1>2, Zenon DEF Named, String
  <2>. QED  BY <1>1, <2>1, TypeFoundKept
<1>3. ASSUME decl.kind = "enum"
      PROVE  \E i \in DOMAIN ctx'.enums : String(ctx.enums[i].name)' = decl.name
  <2>1. \E i \in DOMAIN ctx.enums : String(ctx.enums[i].name) = decl.name
    BY <1>3, Zenon DEF Named, String
  <2>. QED  BY <1>1, <2>1, EnumFoundKept
<1>. QED  BY <1>2, <1>3, Zenon DEF Named, String

(* So does what is found for it.                                           *)
LEMMA KeptGrows ==
  ASSUME IInv, ctx' \in Tables, NamesGrow, NEW decl,
         NEW m \in Nat, NEW n \in Nat, Kept(decl, m, n)
  PROVE  Kept(decl, m, n)'
<1>1. ctx \in Tables /\ References(ctx)
  BY DEF IInv, TablesOK
<1>2. Named(ctx, decl)'
  BY NamedKept DEF Kept
<1>3. ASSUME decl.kind = "type"
      PROVE  TypeOf(decl.name)' = TypeOf(decl.name)
  <2>1. \E i \in DOMAIN ctx.types : String(ctx.types[i].name) = decl.name
    BY <1>3, Zenon DEF Kept, Named, String
  <2>. QED  BY <1>1, <2>1, TypeFoundKept
<1>4. ASSUME decl.kind = "enum"
      PROVE  EnumOf(decl.name)' = EnumOf(decl.name)
  <2>1. \E i \in DOMAIN ctx.enums : String(ctx.enums[i].name) = decl.name
    BY <1>4, Zenon DEF Kept, Named, String
  <2>. QED  BY <1>1, <2>1, EnumFoundKept
<1>5. /\ (decl.kind = "type" =>
           /\ TypeOf(decl.name).first + TypeOf(decl.name).parts <= m
           /\ TypeOf(decl.name).meta + TypeOf(decl.name).count <= n)'
      /\ (decl.kind = "enum" => EnumOf(decl.name).meta + EnumOf(decl.name).count <= n)'
  BY <1>3, <1>4, Zenon DEF Kept
<1>. QED  BY <1>2, <1>5, Zenon DEF Kept

(* What is found is found in more.                                         *)
LEMMA KeptInMore ==
  ASSUME ctx \in Tables, NEW decl, NEW m \in Nat, NEW n \in Nat, Kept(decl, m, n),
         NEW m2 \in Nat, NEW n2 \in Nat, m <= m2, n <= n2
  PROVE  Kept(decl, m2, n2)
<1>1. ASSUME decl.kind = "type"
      PROVE  /\ TypeOf(decl.name).first + TypeOf(decl.name).parts <= m2
             /\ TypeOf(decl.name).meta + TypeOf(decl.name).count <= n2
  <2>1. \E i \in DOMAIN ctx.types : String(ctx.types[i].name) = decl.name
    BY <1>1, Zenon DEF Kept, Named, String
  <2>2. TypeOf(decl.name) \in TypeDescs
    <3>1. PICK i \in DOMAIN ctx.types : TypeOf(decl.name) = ctx.types[i]
      BY <2>1, TypeFound
    <3>2. ctx.types \in Seq(TypeDescs)
      BY TablesHave
    <3>. QED  BY <3>1, <3>2
  <2>3. PICK d \in TypeDescs : d = TypeOf(decl.name)
    BY <2>2
  <2>4. d.first + d.parts \in Nat /\ d.meta + d.count \in Nat
    BY DEF TypeDescs
  <2>5. d.first + d.parts <= m /\ d.meta + d.count <= n
    BY <1>1, <2>3 DEF Kept
  <2>. QED  BY <2>3, <2>4, <2>5
<1>2. ASSUME decl.kind = "enum"
      PROVE  EnumOf(decl.name).meta + EnumOf(decl.name).count <= n2
  <2>1. \E i \in DOMAIN ctx.enums : String(ctx.enums[i].name) = decl.name
    BY <1>2, Zenon DEF Kept, Named, String
  <2>2. EnumOf(decl.name) \in EnumDescs
    <3>1. PICK i \in DOMAIN ctx.enums : EnumOf(decl.name) = ctx.enums[i]
      BY <2>1, EnumFound
    <3>2. ctx.enums \in Seq(EnumDescs)
      BY TablesHave
    <3>. QED  BY <3>1, <3>2
  <2>3. PICK d \in EnumDescs : d = EnumOf(decl.name)
    BY <2>2
  <2>4. d.meta + d.count \in Nat
    BY DEF EnumDescs
  <2>5. d.meta + d.count <= n
    BY <1>2, <2>3 DEF Kept
  <2>. QED  BY <2>3, <2>4, <2>5
<1>. QED  BY <1>1, <1>2 DEF Kept

(* All that is named is found in all members and the metas there are for   *)
(* all.                                                                    *)
LEMMA KeptInAll ==
  ASSUME IInv, NEW decl, Named(ctx, decl), NEW n \in Nat, MetasWithin(ctx, n)
  PROVE  Kept(decl, Len(ctx.members), n)
<1>1. ctx \in Tables /\ References(ctx)
  BY DEF IInv, TablesOK
<1>2. ASSUME decl.kind = "type"
      PROVE  /\ TypeOf(decl.name).first + TypeOf(decl.name).parts <= Len(ctx.members)
             /\ TypeOf(decl.name).meta + TypeOf(decl.name).count <= n
  <2>1. \E i \in DOMAIN ctx.types : String(ctx.types[i].name) = decl.name
    BY <1>2, Zenon DEF Named, String
  <2>2. PICK i \in DOMAIN ctx.types : TypeOf(decl.name) = ctx.types[i]
    BY <1>1, <2>1, TypeFound
  <2>3. ctx.types[i].first + ctx.types[i].parts <= Len(ctx.members)
    BY <1>1, Zenon DEF References
  <2>4. ctx.types[i].meta + ctx.types[i].count <= n
    BY Zenon DEF MetasWithin
  <2>. QED  BY <2>2, <2>3, <2>4, Zenon
<1>3. ASSUME decl.kind = "enum"
      PROVE  EnumOf(decl.name).meta + EnumOf(decl.name).count <= n
  <2>1. \E i \in DOMAIN ctx.enums : String(ctx.enums[i].name) = decl.name
    BY <1>3, Zenon DEF Named, String
  <2>2. PICK i \in DOMAIN ctx.enums : EnumOf(decl.name) = ctx.enums[i]
    BY <1>1, <2>1, EnumFound
  <2>3. ctx.enums[i].meta + ctx.enums[i].count <= n
    BY Zenon DEF MetasWithin
  <2>. QED  BY <2>2, <2>3, Zenon
<1>. QED  BY <1>2, <1>3, Zenon DEF Kept

(***************************************************************************)
(* What was loaded stays in what was there before the load.                *)
(***************************************************************************)
OldGrows == /\ OldMembers' \in Nat /\ OldMembers <= OldMembers'
            /\ OldMetas' \in Nat /\ OldMetas <= OldMetas'

LEMMA LoadedKept ==
  ASSUME IInv, ctx' \in Tables, NamesGrow, OldGrows, NEW decl,
         Kept(decl, OldMembers, OldMetas)
  PROVE  Kept(decl, OldMembers, OldMetas)'
<1>1. PICK m \in Nat, n \in Nat, m2 \in Nat, n2 \in Nat :
        /\ m = OldMembers /\ n = OldMetas /\ m2 = OldMembers' /\ n2 = OldMetas'
        /\ m <= m2 /\ n <= n2
  BY OldIsNumber DEF OldGrows
<1>2. Kept(decl, m, n)
  BY <1>1
<1>3. Kept(decl, m2, n2)
  BY <1>1, <1>2, KeptInMore DEF IInv, TablesOK
<1>4. Kept(decl, m2, n2)'
  BY <1>3, KeptGrows
<1>. QED  BY <1>1, <1>4

LEMMA LogGrows ==
  ASSUME IInv, ctx' \in Tables, NamesGrow, OldGrows, log' = log
  PROVE  LogOK'
<1>1. ASSUME NEW i \in DOMAIN log, NEW j \in DOMAIN log[i].declared
      PROVE  Kept(log[i].declared[j], OldMembers, OldMetas)'
  <2>1. PICK decl : decl = log[i].declared[j]
    OBVIOUS
  <2>2. Kept(decl, OldMembers, OldMetas)
    BY <2>1 DEF IInv, LogOK
  <2>3. Kept(decl, OldMembers, OldMetas)'
    BY <2>2, LoadedKept
  <2>4. decl = log[i].declared[j]'
    BY <2>1
  <2>. QED  BY <2>3, <2>4
<1>2. log \in Seq(LogEntries)
  BY DEF IInv, LogOK
<1>. QED  BY <1>1, <1>2 DEF LogOK

(* A load that returns adds what it declared to what was loaded.           *)
LEMMA LogAppended ==
  ASSUME IInv, ctx' \in Tables, NamesGrow, OldGrows,
         NEW e \in LogEntries, log' = Append(log, e),
         NEW m \in Nat, NEW n \in Nat, m <= OldMembers', n <= OldMetas',
         \A j \in DOMAIN e.declared : Kept(e.declared[j], m, n)
  PROVE  LogOK'
<1>1. log \in Seq(LogEntries)
  BY DEF IInv, LogOK
<1>2. log' \in Seq(LogEntries) /\ DOMAIN log' = 1..(Len(log) + 1)
  BY <1>1
<1>3. ASSUME NEW i \in DOMAIN log', NEW j \in DOMAIN log'[i].declared
      PROVE  Kept(log[i].declared[j], OldMembers, OldMetas)'
  <2>1. PICK decl : decl = log'[i].declared[j]
    OBVIOUS
  <2>2. CASE i \in DOMAIN log /\ log'[i] = log[i]
    <3>1. Kept(decl, OldMembers, OldMetas)
      BY <2>1, <2>2 DEF IInv, LogOK
    <3>. QED  BY <2>1, <3>1, LoadedKept
  <2>3. CASE log'[i] = e
    <3>1. Kept(decl, m, n)
      BY <2>1, <2>3
    <3>2. PICK m2 \in Nat, n2 \in Nat : m2 = OldMembers' /\ n2 = OldMetas'
      BY DEF OldGrows
    <3>3. Kept(decl, m2, n2)
      BY <3>1, <3>2, KeptInMore DEF IInv, TablesOK
    <3>4. Kept(decl, m2, n2)'
      BY <3>3, KeptGrows
    <3>. QED  BY <2>1, <3>2, <3>4
  <2>4. (i \in DOMAIN log /\ log'[i] = log[i]) \/ log'[i] = e
    BY <1>1, <1>2, Appended
  <2>. QED  BY <2>2, <2>3, <2>4
<1>. QED  BY <1>2, <1>3 DEF LogOK

(***************************************************************************)
(* What a growing context keeps: whatever was declared has the view it had.*)
(***************************************************************************)
LEMMA DeclaredIsLoaded ==
  ASSUME IInv
  PROVE  /\ Declared \in Seq(Decls)
         /\ \A k \in DOMAIN Declared : Kept(Declared[k], OldMembers, OldMetas)
<1> DEFINE S == {decl \in Decls : Kept(decl, OldMembers, OldMetas)}
           seqs == [i \in DOMAIN log |-> log[i].declared]
<1>1. log \in Seq(LogEntries)
  BY DEF IInv, LogOK
<1>2. ASSUME NEW i \in DOMAIN log
      PROVE  log[i].declared \in Seq(S)
  <2>1. log[i].declared \in Seq(Decls)
    <3>1. log[i] \in LogEntries
      BY <1>1
    <3>. QED  BY <3>1 DEF LogEntries
  <2>2. \A j \in DOMAIN log[i].declared : log[i].declared[j] \in S
    <3>1. \A j \in DOMAIN log[i].declared : Kept(log[i].declared[j], OldMembers, OldMetas)
      BY DEF IInv, LogOK
    <3>2. \A j \in DOMAIN log[i].declared : log[i].declared[j] \in Decls
      BY <2>1
    <3>. QED  BY <3>1, <3>2
  <2> HIDE DEF S
  <2>3. /\ log[i].declared = [j \in 1..Len(log[i].declared) |-> log[i].declared[j]]
        /\ Len(log[i].declared) \in Nat /\ DOMAIN log[i].declared = 1..Len(log[i].declared)
    BY <2>1
  <2>4. [j \in 1..Len(log[i].declared) |-> log[i].declared[j]] \in [1..Len(log[i].declared) -> S]
    BY <2>2, <2>3
  <2>5. [j \in 1..Len(log[i].declared) |-> log[i].declared[j]] \in Seq(S)
    BY <2>3, <2>4, FunctionIsSequence
  <2>. QED  BY <2>3, <2>5
<1>3. seqs \in Seq(Seq(S))
  <2>1. Len(log) \in Nat /\ DOMAIN log = 1..Len(log)
    BY <1>1
  <2> HIDE DEF S
  <2>2. seqs \in [1..Len(log) -> Seq(S)]
    BY <1>2, <2>1
  <2>. QED  BY <2>1, <2>2, FunctionIsSequence
<1>4. Declared = FlattenSeq(seqs)
  BY DEF Declared
<1> HIDE DEF S, seqs
<1>5. Declared \in Seq(S)
  BY <1>3, <1>4, Flattened
<1>6. \A k \in DOMAIN Declared : Declared[k] \in S
  BY <1>5
<1>7. \A k \in DOMAIN Declared : Declared[k] \in Decls /\ Kept(Declared[k], OldMembers, OldMetas)
  BY <1>6 DEF S
<1>8. Declared \in Seq(Decls)
  <2>1. /\ Declared = [k \in 1..Len(Declared) |-> Declared[k]]
        /\ Len(Declared) \in Nat /\ DOMAIN Declared = 1..Len(Declared)
    BY <1>5
  <2>2. [k \in 1..Len(Declared) |-> Declared[k]] \in [1..Len(Declared) -> Decls]
    BY <1>7, <2>1
  <2>. QED  BY <2>1, <2>2, FunctionIsSequence
<1>. QED  BY <1>7, <1>8

LEMMA GrowingKeeps ==
  ASSUME IInv, ctx' \in Tables, Grows
  PROVE  /\ \A decl \in Visible("type") : TypeView(decl.name)' = TypeView(decl.name)
         /\ \A decl \in Visible("enum") : EnumView(decl.name)' = EnumView(decl.name)
<1>1. ctx \in Tables /\ References(ctx)
  BY DEF IInv, TablesOK
<1>2. PICK m \in Nat, n \in Nat :
        /\ m = OldMembers /\ n = OldMetas /\ m <= Len(ctx.members)
  BY OldIsNumber
<1>3. \A i \in 1..m : /\ ctx'.members[i] = ctx.members[i]
                      /\ ctx.members[i].default < Len(ctx.defaults)
  <2>1. CASE phase = "idle"
    <3>1. DefaultsWithin(ctx, Len(ctx.defaults)) /\ m = Len(ctx.members)
      BY <1>2, <2>1 DEF IInv, WithinOK, OldMembers
    <3>2. ctx.members \in Seq(MemberDescs)
      BY <1>1, TablesHave
    <3>. QED  BY <1>2, <3>1, <3>2 DEF DefaultsWithin, Grows
  <2>2. CASE phase # "idle"
    BY <1>2, <2>2 DEF IInv, StartOK, OldMembers, Grows
  <2>. QED  BY <2>1, <2>2
<1>4. \A i \in 1..n : ctx'.metas[i].data = ctx.metas[i].data
  BY <1>2 DEF Grows
<1>5. ASSUME NEW decl \in Visible("type")
      PROVE  TypeView(decl.name)' = TypeView(decl.name)
  <2>1. decl.kind = "type" /\ Kept(decl, m, n)
    BY <1>2, DeclaredIsLoaded DEF Visible
  <2>2. \E i \in DOMAIN ctx.types : String(ctx.types[i].name) = decl.name
    BY <2>1, Zenon DEF Kept, Named, String
  <2>3. PICK name : name = decl.name
    OBVIOUS
  <2>4. TypeOf(name).first + TypeOf(name).parts <= m /\ TypeOf(name).meta + TypeOf(name).count <= n
    BY <2>1, <2>3 DEF Kept
  <2>5. TypeView(name)' = TypeView(name)
    BY <1>1, <1>2, <1>3, <1>4, <2>2, <2>3, <2>4, TypeViewKept DEF Grows
  <2>. QED  BY <2>3, <2>5
<1>6. ASSUME NEW decl \in Visible("enum")
      PROVE  EnumView(decl.name)' = EnumView(decl.name)
  <2>1. decl.kind = "enum" /\ Kept(decl, m, n)
    BY <1>2, DeclaredIsLoaded DEF Visible
  <2>2. \E i \in DOMAIN ctx.enums : String(ctx.enums[i].name) = decl.name
    BY <2>1, Zenon DEF Kept, Named, String
  <2>3. PICK name : name = decl.name
    OBVIOUS
  <2>4. EnumOf(name).meta + EnumOf(name).count <= n
    BY <2>1, <2>3 DEF Kept
  <2>5. EnumView(name)' = EnumView(name)
    BY <1>1, <1>2, <1>4, <2>2, <2>3, <2>4, EnumViewKept DEF Grows
  <2>. QED  BY <2>3, <2>5
<1>. QED  BY <1>5, <1>6

-----------------------------------------------------------------------------
(***************************************************************************)
(* Appending tables to tables.                                             *)
(***************************************************************************)
Joined(t, u) ==
  [strings |-> t.strings \o u.strings, types |-> t.types \o u.types,
   members |-> t.members \o u.members, enums |-> t.enums \o u.enums,
   values |-> t.values \o u.values, aliases |-> t.aliases \o u.aliases,
   defaults |-> t.defaults \o u.defaults, metas |-> t.metas \o u.metas]

LEMMA EmptyJoined ==
  ASSUME NEW S, NEW s \in Seq(S)
  PROVE  s \o <<>> = s /\ \A x \in S : Append(s, x) = s \o <<x>>
OBVIOUS

LEMMA OneElement ==
  ASSUME NEW S, NEW x \in S
  PROVE  <<x>> \in Seq(S) /\ Len(<<x>>) = 1
OBVIOUS

LEMMA OneBefore ==
  ASSUME NEW S, NEW x \in S, NEW s \in Seq(S)
  PROVE  <<x>> \o s \in Seq(S) /\ Len(<<x>> \o s) = 1 + Len(s)
BY OneElement, Concatenated

LEMMA JoinedTwice ==
  ASSUME NEW S, NEW s \in Seq(S), NEW t \in Seq(S), NEW u \in Seq(S)
  PROVE  (s \o t) \o u = s \o (t \o u)
<1>1. /\ s \o t \in Seq(S) /\ t \o u \in Seq(S)
      /\ Len(s \o t) = Len(s) + Len(t) /\ Len(t \o u) = Len(t) + Len(u)
      /\ Len(s) \in Nat /\ Len(t) \in Nat /\ Len(u) \in Nat
  OBVIOUS
<1>2. /\ (s \o t) \o u \in Seq(S) /\ s \o (t \o u) \in Seq(S)
      /\ Len((s \o t) \o u) = Len(s) + Len(t) + Len(u)
      /\ Len(s \o (t \o u)) = Len(s) + Len(t) + Len(u)
  BY <1>1
<1>3. ASSUME NEW i \in 1..(Len(s) + Len(t) + Len(u))
      PROVE  ((s \o t) \o u)[i] = (s \o (t \o u))[i]
  <2>1. ((s \o t) \o u)[i] = IF i <= Len(s) + Len(t) THEN (s \o t)[i] ELSE u[i - Len(s) - Len(t)]
    BY <1>1 DEF \o
  <2>2. i <= Len(s) + Len(t) => (s \o t)[i] = IF i <= Len(s) THEN s[i] ELSE t[i - Len(s)]
    BY <1>1 DEF \o
  <2>3. (s \o (t \o u))[i] = IF i <= Len(s) THEN s[i] ELSE (t \o u)[i - Len(s)]
    BY <1>1 DEF \o
  <2>4. ~(i <= Len(s)) =>
           (t \o u)[i - Len(s)] = IF i - Len(s) <= Len(t) THEN t[i - Len(s)]
                                  ELSE u[i - Len(s) - Len(t)]
    BY <1>1 DEF \o
  <2>. QED  BY <1>1, <2>1, <2>2, <2>3, <2>4
<1>. QED  BY <1>2, <1>3

LEMMA JoinedTables ==
  ASSUME NEW t \in Tables, NEW u \in Tables
  PROVE  /\ Joined(t, u) \in Tables
         /\ Len(Joined(t, u).strings) = Len(t.strings) + Len(u.strings)
         /\ Len(Joined(t, u).members) = Len(t.members) + Len(u.members)
         /\ Len(Joined(t, u).values) = Len(t.values) + Len(u.values)
         /\ Len(Joined(t, u).aliases) = Len(t.aliases) + Len(u.aliases)
         /\ Len(Joined(t, u).defaults) = Len(t.defaults) + Len(u.defaults)
         /\ Len(Joined(t, u).metas) = Len(t.metas) + Len(u.metas)
<1>1. /\ t.strings \in Seq(STRING) /\ u.strings \in Seq(STRING)
      /\ t.types \in Seq(TypeDescs) /\ u.types \in Seq(TypeDescs)
      /\ t.members \in Seq(MemberDescs) /\ u.members \in Seq(MemberDescs)
      /\ t.enums \in Seq(EnumDescs) /\ u.enums \in Seq(EnumDescs)
      /\ t.values \in Seq(ValueDescs) /\ u.values \in Seq(ValueDescs)
      /\ t.aliases \in Seq(AliasDescs) /\ u.aliases \in Seq(AliasDescs)
      /\ t.defaults \in Seq(Defaults) /\ u.defaults \in Seq(Defaults)
      /\ t.metas \in Seq(Metas) /\ u.metas \in Seq(Metas)
  BY TablesHave
<1>2. Joined(t, u) \in Tables
  BY <1>1 DEF Joined, Tables
<1>. QED  BY <1>1, <1>2 DEF Joined

(* What was appended is new, the rest was there.                           *)
LEMMA JoinedGrows ==
  ASSUME NEW t \in Tables, NEW u \in Tables
  PROVE  /\ Longer(t.strings, Joined(t, u).strings)
         /\ Longer(t.types, Joined(t, u).types)
         /\ Longer(t.members, Joined(t, u).members)
         /\ Longer(t.enums, Joined(t, u).enums)
         /\ Longer(t.values, Joined(t, u).values)
         /\ Longer(t.aliases, Joined(t, u).aliases)
         /\ Longer(t.defaults, Joined(t, u).defaults)
         /\ Longer(t.metas, Joined(t, u).metas)
BY TablesHave, Concatenated DEF Joined

LEMMA AddedGrows ==
  ASSUME IInv, NEW new \in Tables, ctx' = Joined(ctx, new)
  PROVE  ctx' \in Tables /\ Grows /\ NoShorter(ctx, ctx')
<1>1. ctx \in Tables
  BY DEF IInv, TablesOK
<1>2. ctx' \in Tables
  BY <1>1, JoinedTables
<1>3. /\ Longer(ctx.strings, ctx'.strings) /\ Longer(ctx.types, ctx'.types)
      /\ Longer(ctx.members, ctx'.members) /\ Longer(ctx.enums, ctx'.enums)
      /\ Longer(ctx.values, ctx'.values) /\ Longer(ctx.aliases, ctx'.aliases)
      /\ Longer(ctx.defaults, ctx'.defaults) /\ Longer(ctx.metas, ctx'.metas)
  BY <1>1, JoinedGrows
<1>4. /\ \A i \in 1..OldMembers : i \in 1..Len(ctx.members)
      /\ \A i \in 1..OldMetas : i \in 1..Len(ctx.metas)
  BY OldIsNumber
<1>5. /\ \A i \in 1..OldMembers : ctx'.members[i] = ctx.members[i]
      /\ \A i \in 1..OldMetas : ctx'.metas[i].data = ctx.metas[i].data
  BY <1>3, <1>4 DEF Longer
<1>6. /\ Len(ctx.strings) <= Len(ctx'.strings) /\ Len(ctx.members) <= Len(ctx'.members)
      /\ Len(ctx.values) <= Len(ctx'.values) /\ Len(ctx.aliases) <= Len(ctx'.aliases)
      /\ Len(ctx.metas) <= Len(ctx'.metas)
  BY <1>3 DEF Longer
<1>. QED  BY <1>2, <1>3, <1>5, <1>6 DEF Grows, NamesGrow, NoShorter

(* An element of tables that were appended to was there or is new.         *)
LEMMA JoinedElements ==
  ASSUME NEW t \in Tables, NEW u \in Tables, NEW j, j = Joined(t, u)
  PROVE  /\ \A i \in DOMAIN j.types : \/ i \in DOMAIN t.types /\ j.types[i] = t.types[i]
                                      \/ \E k \in DOMAIN u.types : j.types[i] = u.types[k]
         /\ \A i \in DOMAIN j.members : \/ i \in DOMAIN t.members /\ j.members[i] = t.members[i]
                                        \/ \E k \in DOMAIN u.members : j.members[i] = u.members[k]
         /\ \A i \in DOMAIN j.enums : \/ i \in DOMAIN t.enums /\ j.enums[i] = t.enums[i]
                                      \/ \E k \in DOMAIN u.enums : j.enums[i] = u.enums[k]
         /\ \A i \in DOMAIN j.values : \/ i \in DOMAIN t.values /\ j.values[i] = t.values[i]
                                       \/ \E k \in DOMAIN u.values : j.values[i] = u.values[k]
         /\ \A i \in DOMAIN j.aliases : \/ i \in DOMAIN t.aliases /\ j.aliases[i] = t.aliases[i]
                                        \/ \E k \in DOMAIN u.aliases : j.aliases[i] = u.aliases[k]
<1>1. /\ j.types = t.types \o u.types /\ j.members = t.members \o u.members
      /\ j.enums = t.enums \o u.enums /\ j.values = t.values \o u.values
      /\ j.aliases = t.aliases \o u.aliases
  BY DEF Joined
<1>2. ASSUME NEW i \in DOMAIN j.types
      PROVE  \/ i \in DOMAIN t.types /\ j.types[i] = t.types[i]
             \/ \E k \in DOMAIN u.types : j.types[i] = u.types[k]
  <2>1. PICK a \in Seq(TypeDescs), b \in Seq(TypeDescs) : a = t.types /\ b = u.types
    BY TablesHave
  <2>2. i \in DOMAIN (a \o b) /\ j.types[i] = (a \o b)[i]
    BY <1>1, <2>1
  <2>3. \/ i \in DOMAIN a /\ (a \o b)[i] = a[i]
        \/ \E k \in DOMAIN b : (a \o b)[i] = b[k]
    BY <2>2, ConcatenatedElements
  <2>. QED  BY <2>1, <2>2, <2>3
<1>3. ASSUME NEW i \in DOMAIN j.members
      PROVE  \/ i \in DOMAIN t.members /\ j.members[i] = t.members[i]
             \/ \E k \in DOMAIN u.members : j.members[i] = u.members[k]
  <2>1. PICK a \in Seq(MemberDescs), b \in Seq(MemberDescs) : a = t.members /\ b = u.members
    BY TablesHave
  <2>2. i \in DOMAIN (a \o b) /\ j.members[i] = (a \o b)[i]
    BY <1>1, <2>1
  <2>3. \/ i \in DOMAIN a /\ (a \o b)[i] = a[i]
        \/ \E k \in DOMAIN b : (a \o b)[i] = b[k]
    BY <2>2, ConcatenatedElements
  <2>. QED  BY <2>1, <2>2, <2>3
<1>4. ASSUME NEW i \in DOMAIN j.enums
      PROVE  \/ i \in DOMAIN t.enums /\ j.enums[i] = t.enums[i]
             \/ \E k \in DOMAIN u.enums : j.enums[i] = u.enums[k]
  <2>1. PICK a \in Seq(EnumDescs), b \in Seq(EnumDescs) : a = t.enums /\ b = u.enums
    BY TablesHave
  <2>2. i \in DOMAIN (a \o b) /\ j.enums[i] = (a \o b)[i]
    BY <1>1, <2>1
  <2>3. \/ i \in DOMAIN a /\ (a \o b)[i] = a[i]
        \/ \E k \in DOMAIN b : (a \o b)[i] = b[k]
    BY <2>2, ConcatenatedElements
  <2>. QED  BY <2>1, <2>2, <2>3
<1>5. ASSUME NEW i \in DOMAIN j.values
      PROVE  \/ i \in DOMAIN t.values /\ j.values[i] = t.values[i]
             \/ \E k \in DOMAIN u.values : j.values[i] = u.values[k]
  <2>1. PICK a \in Seq(ValueDescs), b \in Seq(ValueDescs) : a = t.values /\ b = u.values
    BY TablesHave
  <2>2. i \in DOMAIN (a \o b) /\ j.values[i] = (a \o b)[i]
    BY <1>1, <2>1
  <2>3. \/ i \in DOMAIN a /\ (a \o b)[i] = a[i]
        \/ \E k \in DOMAIN b : (a \o b)[i] = b[k]
    BY <2>2, ConcatenatedElements
  <2>. QED  BY <2>1, <2>2, <2>3
<1>6. ASSUME NEW i \in DOMAIN j.aliases
      PROVE  \/ i \in DOMAIN t.aliases /\ j.aliases[i] = t.aliases[i]
             \/ \E k \in DOMAIN u.aliases : j.aliases[i] = u.aliases[k]
  <2>1. PICK a \in Seq(AliasDescs), b \in Seq(AliasDescs) : a = t.aliases /\ b = u.aliases
    BY TablesHave
  <2>2. i \in DOMAIN (a \o b) /\ j.aliases[i] = (a \o b)[i]
    BY <1>1, <2>1
  <2>3. \/ i \in DOMAIN a /\ (a \o b)[i] = a[i]
        \/ \E k \in DOMAIN b : (a \o b)[i] = b[k]
    BY <2>2, ConcatenatedElements
  <2>. QED  BY <2>1, <2>2, <2>3
<1>. QED  BY <1>2, <1>3, <1>4, <1>5, <1>6

(* References stay in the tables when what is appended refers into them.   *)
LEMMA AddedRefers ==
  ASSUME IInv, NEW new \in Tables, ctx' = Joined(ctx, new),
         \A i \in DOMAIN new.types : TypeRefers(new.types[i], ctx'),
         \A i \in DOMAIN new.members : new.members[i].name < Len(ctx'.strings),
         \A i \in DOMAIN new.enums : EnumRefers(new.enums[i], ctx'),
         \A i \in DOMAIN new.values : new.values[i].alias < Len(ctx'.aliases),
         \A i \in DOMAIN new.aliases : AliasRefers(new.aliases[i], ctx')
  PROVE  References(ctx')
<1>1. ctx \in Tables /\ References(ctx) /\ ctx' \in Tables /\ NoShorter(ctx, ctx')
  BY AddedGrows DEF IInv, TablesOK
<1>2. /\ \A i \in DOMAIN ctx'.types :
           (i \in DOMAIN ctx.types /\ ctx'.types[i] = ctx.types[i]) \/ TypeRefers(ctx'.types[i], ctx')
      /\ \A i \in DOMAIN ctx'.enums :
           (i \in DOMAIN ctx.enums /\ ctx'.enums[i] = ctx.enums[i]) \/ EnumRefers(ctx'.enums[i], ctx')
      /\ \A i \in DOMAIN ctx'.aliases :
           \/ i \in DOMAIN ctx.aliases /\ ctx'.aliases[i] = ctx.aliases[i]
           \/ AliasRefers(ctx'.aliases[i], ctx')
  BY <1>1, JoinedElements
<1>3. /\ \A i \in DOMAIN ctx'.members :
           \/ i \in DOMAIN ctx.members /\ ctx'.members[i].name = ctx.members[i].name
           \/ ctx'.members[i].name < Len(ctx'.strings)
      /\ \A i \in DOMAIN ctx'.values :
           \/ i \in DOMAIN ctx.values /\ ctx'.values[i] = ctx.values[i]
           \/ ctx'.values[i].alias < Len(ctx'.aliases)
  BY <1>1, JoinedElements
<1>4. ASSUME NEW u, u = ctx'
      PROVE  References(u)
  BY <1>1, <1>2, <1>3, <1>4, ReferencesGrow
<1>. QED  BY <1>4

(* So do instances and default values.                                     *)
LEMMA AddedMetas ==
  ASSUME IInv, NEW new \in Tables, ctx' = Joined(ctx, new),
         NEW m \in Nat, NEW n \in Nat, m <= n, MetasWithin(ctx, m),
         \A i \in DOMAIN new.types : new.types[i].meta + new.types[i].count <= n,
         \A i \in DOMAIN new.enums : new.enums[i].meta + new.enums[i].count <= n
  PROVE  MetasWithin(ctx', n)
<1>1. ctx \in Tables
  BY DEF IInv, TablesOK
<1>2. ASSUME NEW i \in DOMAIN ctx.types
      PROVE  ctx.types[i].meta + ctx.types[i].count <= n
  <2>1. ctx.types[i].meta + ctx.types[i].count <= m
    BY Zenon DEF MetasWithin
  <2>2. ctx.types[i] \in TypeDescs
    BY <1>1, TablesHave
  <2>3. ctx.types[i].meta + ctx.types[i].count \in Nat
    BY <2>2 DEF TypeDescs
  <2>. QED  BY <2>1, <2>3
<1>3. ASSUME NEW i \in DOMAIN ctx.enums
      PROVE  ctx.enums[i].meta + ctx.enums[i].count <= n
  <2>1. ctx.enums[i].meta + ctx.enums[i].count <= m
    BY Zenon DEF MetasWithin
  <2>2. ctx.enums[i] \in EnumDescs
    BY <1>1, TablesHave
  <2>3. ctx.enums[i].meta + ctx.enums[i].count \in Nat
    BY <2>2 DEF EnumDescs
  <2>. QED  BY <2>1, <2>3
<1>4. /\ \A i \in DOMAIN ctx'.types : ctx'.types[i].meta + ctx'.types[i].count <= n
      /\ \A i \in DOMAIN ctx'.enums : ctx'.enums[i].meta + ctx'.enums[i].count <= n
  BY <1>1, <1>2, <1>3, JoinedElements
<1>. QED  BY <1>4 DEF MetasWithin

LEMMA AddedDefaults ==
  ASSUME IInv, NEW new \in Tables, ctx' = Joined(ctx, new),
         NEW m \in Int, NEW n \in Int, m <= n, DefaultsWithin(ctx, m),
         \A i \in DOMAIN new.members : new.members[i].default < n
  PROVE  DefaultsWithin(ctx', n)
<1>1. ctx \in Tables
  BY DEF IInv, TablesOK
<1>2. ASSUME NEW i \in DOMAIN ctx.members
      PROVE  ctx.members[i].default < n
  <2>1. ctx.members[i].default < m
    BY Zenon DEF DefaultsWithin
  <2>2. ctx.members[i] \in MemberDescs
    BY <1>1, TablesHave
  <2>3. ctx.members[i].default \in Int
    BY <2>2 DEF MemberDescs
  <2>. QED  BY <2>1, <2>3
<1>3. \A i \in DOMAIN ctx'.members : ctx'.members[i].default < n
  BY <1>1, <1>2, JoinedElements
<1>. QED  BY <1>3 DEF DefaultsWithin

(***************************************************************************)
(* Steps that read a declaration append to the tables.                     *)
(***************************************************************************)
LEMMA StartGrows ==
  ASSUME IInv, ctx' \in Tables, Grows, phase # "idle", start' = start
  PROVE  StartOK'
<1>1. ctx \in Tables
  BY DEF IInv, TablesOK
<1>2. /\ ctx.members \in Seq(MemberDescs) /\ ctx'.members \in Seq(MemberDescs)
      /\ ctx.metas \in Seq(Metas) /\ ctx'.metas \in Seq(Metas)
      /\ ctx.defaults \in Seq(Defaults) /\ ctx'.defaults \in Seq(Defaults)
  BY <1>1, TablesHave
<1>3. /\ Len(ctx.members) \in Nat /\ Len(ctx'.members) \in Nat
      /\ Len(ctx.metas) \in Nat /\ Len(ctx'.metas) \in Nat
      /\ Len(ctx.defaults) \in Nat /\ Len(ctx'.defaults) \in Nat
  BY <1>2
<1>4. /\ start.members \in Nat /\ start.members <= Len(ctx.members)
      /\ start.metas \in Nat /\ start.metas <= Len(ctx.metas)
      /\ \A i \in 1..start.members : ctx.members[i].default < Len(ctx.defaults)
  BY DEF IInv, StartOK
<1>5. /\ start.members <= Len(ctx'.members) /\ start.metas <= Len(ctx'.metas)
      /\ Len(ctx.defaults) <= Len(ctx'.defaults)
  BY <1>3, <1>4 DEF Grows, Longer
<1>6. ASSUME NEW i \in 1..start.members
      PROVE  ctx'.members[i].default < Len(ctx'.defaults)
  <2>1. ctx'.members[i] = ctx.members[i]
    BY DEF Grows, OldMembers
  <2>2. ctx.members[i] \in MemberDescs
    BY <1>2, <1>3, <1>4
  <2>3. ctx.members[i].default \in Int
    BY <2>2 DEF MemberDescs
  <2>. QED  BY <1>3, <1>4, <1>5, <2>1, <2>3
<1>. QED  BY <1>4, <1>5, <1>6 DEF StartOK

LEMMA OldStays ==
  ASSUME IInv, phase # "idle", phase' # "idle", start' = start
  PROVE  OldGrows
<1>1. OldMembers = start.members /\ OldMembers' = start.members
  BY DEF OldMembers
<1>2. OldMetas = start.metas /\ OldMetas' = start.metas
  BY DEF OldMetas
<1>. QED  BY <1>1, <1>2 DEF IInv, StartOK, OldGrows

LEMMA TextAdded ==
  ASSUME IInv, phase = "text", phase' = "text", start' = start, files' = files, log' = log,
         NEW new \in Tables, ctx' = Joined(ctx, new), References(ctx'),
         \A i \in DOMAIN new.types : new.types[i].meta + new.types[i].count <= Len(ctx'.metas),
         \A i \in DOMAIN new.enums : new.enums[i].meta + new.enums[i].count <= Len(ctx'.metas),
         \A i \in DOMAIN new.members : new.members[i].default < 0
  PROVE  /\ TablesOK' /\ FilesOK' /\ StartOK' /\ BuildingOK' /\ LoadingOK' /\ WithinOK' /\ LogOK'
         /\ Grows
<1>1. ctx \in Tables /\ ctx' \in Tables /\ Grows
  BY AddedGrows DEF IInv, TablesOK
<1>2. TablesOK'
  BY <1>1 DEF TablesOK, Phases
<1>3. FilesOK' /\ BuildingOK' /\ LoadingOK'
  BY DEF IInv, FilesOK, BuildingOK, LoadingOK
<1>4. StartOK'
  BY <1>1, StartGrows
<1>5. LogOK'
  <2>1. OldGrows
    BY OldStays
  <2>. QED  BY <1>1, <2>1, LogGrows DEF Grows
<1>6. PICK m \in Nat, n \in Nat, a \in Nat, b \in Nat :
        /\ m = Len(ctx.metas) /\ n = Len(ctx'.metas) /\ m <= n
        /\ a = Len(ctx.defaults) /\ b = Len(ctx'.defaults) /\ a <= b
  <2>1. /\ ctx.metas \in Seq(Metas) /\ ctx'.metas \in Seq(Metas)
        /\ ctx.defaults \in Seq(Defaults) /\ ctx'.defaults \in Seq(Defaults)
    BY <1>1, TablesHave
  <2>2. /\ Len(ctx.metas) \in Nat /\ Len(ctx'.metas) \in Nat
        /\ Len(ctx.defaults) \in Nat /\ Len(ctx'.defaults) \in Nat
    BY <2>1
  <2>. QED  BY <1>1, <2>2 DEF Grows, Longer
<1>7. MetasWithin(ctx, m) /\ DefaultsWithin(ctx, a)
  BY <1>6 DEF IInv, WithinOK
<1>8. MetasWithin(ctx', n)
  BY <1>6, <1>7, AddedMetas
<1>9. DefaultsWithin(ctx', b)
  <2>1. ASSUME NEW i \in DOMAIN new.members
        PROVE  new.members[i].default < b
    <3>1. new.members \in Seq(MemberDescs)
      BY TablesHave
    <3>2. new.members[i] \in MemberDescs
      BY <3>1
    <3>3. new.members[i].default \in Int
      BY <3>2 DEF MemberDescs
    <3>4. new.members[i].default < 0
      OBVIOUS
    <3>. QED  BY <3>3, <3>4
  <2>. QED  BY <1>6, <1>7, <2>1, AddedDefaults
<1>10. WithinOK'
  BY <1>6, <1>8, <1>9 DEF WithinOK
<1>. QED  BY <1>1, <1>2, <1>3, <1>4, <1>5, <1>10

(***************************************************************************)
(* What is read of a declaration.                                          *)
(***************************************************************************)
LEMMA PendingHas ==
  ASSUME NEW metas \in Seq(Instances)
  PROVE  Pending(metas) \in Seq(Metas) /\ Len(Pending(metas)) = Len(metas)
<1>1. Len(metas) \in Nat /\ DOMAIN metas = 1..Len(metas)
  OBVIOUS
<1>2. Pending(metas) \in [1..Len(metas) -> Metas]
  BY <1>1 DEF Pending, Mapped, Metas
<1>. QED  BY <1>1, <1>2, FunctionIsSequence

LEMMA MetaStartHas ==
  ASSUME ctx \in Tables, NEW metas \in Seq(Instances)
  PROVE  /\ MetaStart(metas) \in Nat /\ Len(metas) \in Nat
         /\ MetaStart(metas) + Len(metas) <= Len(ctx.metas) + Len(metas)
<1>1. ctx.metas \in Seq(Metas)
  BY TablesHave
<1>. QED  BY <1>1 DEF MetaStart

LEMMA CommentHas ==
  ASSUME ctx \in Tables, NEW d, d.comment \in STRING, NEW before \in Nat
  PROVE  CommentString(d) \in Seq(STRING) /\ CommentIndex(d, before) \in Comments
<1>1. ctx.strings \in Seq(STRING)
  BY TablesHave
<1>2. Len(ctx.strings) + before \in Nat
  BY <1>1
<1>3. CommentIndex(d, before) \in Comments
  BY <1>2 DEF CommentIndex, Comments
<1>4. CommentString(d) \in Seq(STRING)
  <2>1. PICK comment \in STRING : comment = d.comment
    OBVIOUS
  <2>2. <<>> \in Seq(STRING) /\ <<comment>> \in Seq(STRING)
    OBVIOUS
  <2>. QED  BY <2>1, <2>2, Zenon DEF CommentString
<1>. QED  BY <1>3, <1>4

LEMMA DeclHas ==
  ASSUME IInv, Reading
  PROVE  /\ phase = "text" /\ lib \in Seq(Decls)
         /\ pos[1] \in DOMAIN lib /\ pos[1] \in Nat /\ pos[2] \in Nat
         /\ Decl \in Decls /\ Decl.kind \in {"type", "enum"}
         /\ Decl.name \in STRING /\ Decl.comment \in STRING /\ Decl.metas \in Seq(Instances)
         /\ Len(Decl.parts) \in Nat
         /\ Decl.kind = "type" => /\ Decl.parts \in Seq(MemberDecls)
                                  /\ Len(Decl.parts) \in Nat \ {0}
         /\ Decl.kind = "enum" => Decl.parts \in Seq(ValueDecls)
<1>1. phase = "text" /\ pos[1] <= Len(lib)
  BY DEF Reading
<1>2. lib \in Seq(Decls) /\ pos[1] \in 1..(Len(lib) + 1) /\ pos[2] \in Nat
  BY <1>1 DEF IInv, ReadingOK
<1>3. pos[1] \in DOMAIN lib /\ pos[1] \in Nat
  BY <1>1, <1>2
<1>4. PICK d \in Decls : d = Decl
  BY <1>2, <1>3 DEF Decl
<1>5. /\ d.kind \in {"type", "enum"} /\ d.name \in STRING /\ d.comment \in STRING
      /\ d.metas \in Seq(Instances)
  BY DEF Decls, TypeDecls, EnumDecls
<1>6. ASSUME d.kind = "type"
      PROVE  d.parts \in Seq(MemberDecls) /\ Len(d.parts) \in Nat \ {0}
  <2>1. d.parts \in Seq(MemberDecls) /\ d.parts # <<>>
    BY <1>6, DeclKinds DEF TypeDecls
  <2>. QED  BY <2>1
<1>7. ASSUME d.kind = "enum"
      PROVE  d.parts \in Seq(ValueDecls) /\ Len(d.parts) \in Nat
  <2>1. d.parts \in Seq(ValueDecls)
    BY <1>7, DeclKinds DEF EnumDecls
  <2>. QED  BY <2>1
<1>. QED  BY <1>1, <1>2, <1>3, <1>4, <1>5, <1>6, <1>7

(* What was named of the declarations before stays named.                  *)
LEMMA EarlierNamed ==
  ASSUME IInv, Reading, ctx' \in Tables, NamesGrow, lib' = lib
  PROVE  \A j \in 1..(pos[1] - 1) : Named(ctx, lib[j])'
<1>1. ASSUME NEW j \in 1..(pos[1] - 1)
      PROVE  Named(ctx, lib[j])'
  <2>1. PICK decl : decl = lib[j]
    OBVIOUS
  <2>2. Named(ctx, decl)
    BY <2>1 DEF IInv, ReadingOK, Reading
  <2>3. Named(ctx, decl)'
    BY <2>2, NamedKept
  <2>4. lib'[j] = decl
    BY <2>1
  <2>. QED  BY <2>3, <2>4
<1>. QED  BY <1>1

(* Nothing is appended to a table.                                         *)
LEMMA NothingAdded ==
  ASSUME NEW t \in Tables
  PROVE  /\ t.strings \o <<>> = t.strings /\ t.types \o <<>> = t.types
         /\ t.members \o <<>> = t.members /\ t.enums \o <<>> = t.enums
         /\ t.values \o <<>> = t.values /\ t.aliases \o <<>> = t.aliases
         /\ t.defaults \o <<>> = t.defaults /\ t.metas \o <<>> = t.metas
BY TablesHave, EmptyJoined

LEMMA ReadBeginStep ==
  ASSUME IInv, ReadBegin
  PROVE  IInv' /\ Grows
<1>1. /\ Reading /\ pos[2] = 0 /\ phase' = phase /\ lib' = lib /\ start' = start
      /\ files' = files /\ log' = log /\ pos' = <<pos[1], 1>>
      /\ local' = [meta |-> MetaStart(Decl.metas), alias |-> Len(ctx.aliases),
                   first |-> IF Decl.kind = "type" THEN Len(ctx.members) ELSE Len(ctx.values)]
      /\ ctx' = [ctx EXCEPT !.metas = ctx.metas \o Pending(Decl.metas)]
  BY DEF ReadBegin
<1>2. ctx \in Tables
  BY DEF IInv, TablesOK
<1>3. /\ phase = "text" /\ phase' = "text" /\ Decl.metas \in Seq(Instances)
      /\ Decl.kind \in {"type", "enum"} /\ Len(Decl.parts) \in Nat
      /\ pos[1] \in Nat
  BY <1>1, DeclHas
<1> DEFINE new == [strings |-> <<>>, types |-> <<>>, members |-> <<>>, enums |-> <<>>,
                   values |-> <<>>, aliases |-> <<>>, defaults |-> <<>>,
                   metas |-> Pending(Decl.metas)]
<1>4. Pending(Decl.metas) \in Seq(Metas) /\ Len(Pending(Decl.metas)) = Len(Decl.metas)
  BY <1>3, PendingHas
<1>5. new \in Tables
  BY <1>4 DEF Tables
<1>6. ctx' = Joined(ctx, new)
  BY <1>1, <1>2, NothingAdded DEF Joined, Tables
<1>7. /\ new.types = <<>> /\ new.members = <<>> /\ new.enums = <<>>
      /\ new.values = <<>> /\ new.aliases = <<>> /\ new.metas = Pending(Decl.metas)
  OBVIOUS
<1> HIDE DEF new
<1>8. References(ctx')
  BY <1>5, <1>6, <1>7, AddedRefers
<1>9. /\ TablesOK' /\ FilesOK' /\ StartOK' /\ BuildingOK' /\ LoadingOK' /\ WithinOK' /\ LogOK'
      /\ Grows
  <2>1. DOMAIN new.types = {} /\ DOMAIN new.enums = {} /\ DOMAIN new.members = {}
    BY <1>7
  <2>. QED  BY <1>1, <1>3, <1>5, <1>6, <1>8, <2>1, TextAdded
<1>10. /\ Len(ctx'.metas) = Len(ctx.metas) + Len(Decl.metas)
       /\ ctx'.members = ctx.members /\ ctx'.values = ctx.values /\ ctx'.aliases = ctx.aliases
  <2>1. Len(ctx'.metas) = Len(ctx.metas) + Len(Decl.metas)
    <3>1. Len(ctx'.metas) = Len(ctx.metas) + Len(new.metas)
      BY <1>2, <1>5, <1>6, JoinedTables
    <3>. QED  BY <1>4, <1>7, <3>1
  <2>. QED  BY <1>1, <1>2, <2>1 DEF Tables
<1>11. DeclOK'
  <2>1. Decl' = Decl /\ pos'[2] = 1
    BY <1>1 DEF Decl
  <2>2. /\ MetaStart(Decl.metas) \in Nat /\ Len(Decl.metas) \in Nat
        /\ MetaStart(Decl.metas) + Len(Decl.metas) <= Len(ctx.metas) + Len(Decl.metas)
    BY <1>2, <1>3, MetaStartHas
  <2>3. Len(ctx.members) \in Nat /\ Len(ctx.values) \in Nat /\ Len(ctx.aliases) \in Nat
    <3>1. /\ ctx.members \in Seq(MemberDescs) /\ ctx.values \in Seq(ValueDescs)
          /\ ctx.aliases \in Seq(AliasDescs)
      BY <1>2, TablesHave
    <3>. QED  BY <3>1
  <2>4. /\ local'.meta = MetaStart(Decl.metas) /\ local'.alias = Len(ctx.aliases)
        /\ local'.first = IF Decl.kind = "type" THEN Len(ctx.members) ELSE Len(ctx.values)
    BY <1>1
  <2>5. /\ local'.meta \in Nat /\ local'.first \in Nat /\ local'.alias \in Nat
        /\ local'.meta + Len(Decl.metas) <= Len(ctx'.metas)
    BY <1>10, <2>2, <2>3, <2>4
  <2>6. /\ Decl.kind = "type" => local'.first + 1 = Len(ctx'.members) + 1
        /\ Decl.kind = "enum" => /\ local'.first + 1 = Len(ctx'.values) + 1
                                 /\ local'.alias <= Len(ctx'.aliases)
    BY <1>10, <2>3, <2>4
  <2>7. pos'[2] <= Len(Decl.parts) + 1
    BY <1>3, <2>1
  <2>. QED  BY <2>1, <2>5, <2>6, <2>7 DEF DeclOK
<1>12. ReadingOK'
  <2>1. \A j \in 1..(pos[1] - 1) : Named(ctx, lib[j])'
    BY <1>1, <1>9, EarlierNamed DEF Grows, TablesOK
  <2>2. pos'[1] = pos[1] /\ pos'[2] = 1
    BY <1>1
  <2>3. lib \in Seq(Decls) /\ pos[1] \in 1..(Len(lib) + 1)
    BY <1>3 DEF IInv, ReadingOK
  <2>. QED  BY <1>1, <1>11, <2>1, <2>2, <2>3 DEF ReadingOK
<1>. QED  BY <1>9, <1>12 DEF IInv

(* A part of the declaration was read.                                     *)
LEMMA PartRead ==
  ASSUME IInv, Reading, ctx' \in Tables, Grows, phase' = phase, lib' = lib,
         pos' = <<pos[1], pos[2] + 1>>, DeclOK'
  PROVE  ReadingOK'
<1>1. \A j \in 1..(pos[1] - 1) : Named(ctx, lib[j])'
  BY EarlierNamed DEF Grows
<1>2. pos'[1] = pos[1] /\ pos'[2] = pos[2] + 1
  OBVIOUS
<1>3. phase = "text" /\ lib \in Seq(Decls) /\ pos[1] \in 1..(Len(lib) + 1) /\ pos[2] \in Nat
  BY DeclHas DEF IInv, ReadingOK
<1>. QED  BY <1>1, <1>2, <1>3 DEF ReadingOK

(* The declaration was read.                                               *)
LEMMA DeclRead ==
  ASSUME IInv, Reading, ctx' \in Tables, Grows, phase' = phase, lib' = lib,
         pos' = <<pos[1] + 1, 0>>, Named(ctx', Decl)
  PROVE  ReadingOK'
<1>1. \A j \in 1..(pos[1] - 1) : Named(ctx, lib[j])'
  BY EarlierNamed DEF Grows
<1>2. pos'[1] = pos[1] + 1 /\ pos'[2] = 0
  OBVIOUS
<1>3. phase = "text" /\ lib \in Seq(Decls) /\ pos[1] \in DOMAIN lib
  BY DeclHas
<1>4. pos'[1] \in 1..(Len(lib) + 1)
  BY <1>2, <1>3
<1>5. ASSUME NEW j \in 1..(pos'[1] - 1)
      PROVE  Named(ctx', lib[j])
  <2>1. CASE j = pos[1]
    BY <2>1 DEF Decl
  <2>2. CASE j # pos[1]
    <3>1. j \in 1..(pos[1] - 1)
      BY <1>2, <1>3, <2>2
    <3>2. Named(ctx, lib[j])'
      BY <1>1, <3>1
    <3>. QED  BY <3>2
  <2>. QED  BY <2>1, <2>2
<1>. QED  BY <1>2, <1>3, <1>4, <1>5 DEF ReadingOK

(* A name and a comment are appended to the strings.                       *)
LEMMA StringsAdded ==
  ASSUME ctx \in Tables, NEW names \in Seq(STRING), NEW d, d.comment \in STRING
  PROVE  /\ names \o CommentString(d) \in Seq(STRING)
         /\ ctx.strings \o names \o CommentString(d) = ctx.strings \o (names \o CommentString(d))
         /\ Len(names \o CommentString(d)) \in Nat
         /\ Len(names \o CommentString(d)) >= Len(names)
<1>1. PICK strings \in Seq(STRING), comment \in Seq(STRING) :
        strings = ctx.strings /\ comment = CommentString(d)
  <2>1. CommentString(d) \in Seq(STRING)
    BY CommentHas, 0 \in Nat
  <2>. QED  BY <2>1, TablesHave
<1>2. names \o comment \in Seq(STRING) /\ Len(names \o comment) = Len(names) + Len(comment)
  OBVIOUS
<1>3. (strings \o names) \o comment = strings \o (names \o comment)
  BY JoinedTwice
<1>4. Len(names) \in Nat /\ Len(comment) \in Nat
  OBVIOUS
<1>. QED  BY <1>1, <1>2, <1>3, <1>4

(* Declared members and enumerators.                                       *)
LEMMA PartHas ==
  ASSUME IInv, Reading, pos[2] \in 1..Len(Decl.parts)
  PROVE  /\ Part.name \in STRING /\ Part.comment \in STRING /\ Part.metas \in Seq(Instances)
         /\ Decl.kind = "type" => Part \in MemberDecls /\ Part.of \in STRING /\ Part.default \in DefaultTexts
         /\ Decl.kind = "enum" => Part \in ValueDecls /\ Part.value \in Int /\ Part.aliases \in Seq(STRING)
<1>1. CASE Decl.kind = "type"
  <2>1. PICK p \in MemberDecls : p = Part
    BY <1>1, DeclHas DEF Part
  <2>. QED  BY <1>1, <2>1 DEF MemberDecls
<1>2. CASE Decl.kind = "enum"
  <2>1. PICK p \in ValueDecls : p = Part
    BY <1>2, DeclHas DEF Part
  <2>. QED  BY <1>2, <2>1 DEF ValueDecls
<1>. QED  BY <1>1, <1>2, DeclHas

LEMMA ReadMemberStep ==
  ASSUME IInv, ReadMember
  PROVE  IInv' /\ Grows
<1> DEFINE member == [name |-> Len(ctx.strings), comment |-> CommentIndex(Part, 1), of |-> Part.of,
                      default |-> Part.default,
                      meta |-> MetaStart(Part.metas), count |-> Len(Part.metas)]
           strings == <<Part.name>> \o CommentString(Part)
           new == [strings |-> strings, types |-> <<>>, members |-> <<member>>, enums |-> <<>>,
                   values |-> <<>>, aliases |-> <<>>, defaults |-> <<>>,
                   metas |-> Pending(Part.metas)]
<1>1. /\ Reading /\ Decl.kind = "type" /\ pos[2] \in 1..Len(Decl.parts)
      /\ phase' = phase /\ lib' = lib /\ start' = start /\ local' = local
      /\ files' = files /\ log' = log /\ pos' = <<pos[1], pos[2] + 1>>
  BY DEF ReadMember, InParts
<1>2. ctx \in Tables /\ Len(ctx.strings) \in Nat /\ ctx.strings \in Seq(STRING)
      /\ ctx.members \in Seq(MemberDescs)
  <2>1. ctx \in Tables
    BY DEF IInv, TablesOK
  <2>. QED  BY <2>1, TablesHave
<1>3. /\ phase = "text" /\ phase' = "text" /\ Part.name \in STRING /\ Part.comment \in STRING
      /\ Part.metas \in Seq(Instances) /\ Part.of \in STRING /\ Part.default \in DefaultTexts
      /\ Len(Decl.parts) \in Nat /\ Len(Decl.metas) \in Nat /\ pos[2] \in Nat
  BY <1>1, DeclHas, PartHas
<1>4. /\ Pending(Part.metas) \in Seq(Metas) /\ MetaStart(Part.metas) \in Nat
      /\ Len(Part.metas) \in Nat /\ Len(Pending(Part.metas)) = Len(Part.metas)
  BY <1>2, <1>3, PendingHas, MetaStartHas
<1>5. /\ strings \in Seq(STRING) /\ Len(strings) \in Nat /\ Len(strings) >= 1
      /\ ctx.strings \o <<Part.name>> \o CommentString(Part) = ctx.strings \o strings
  <2>1. <<Part.name>> \in Seq(STRING) /\ Len(<<Part.name>>) = 1
    BY <1>3
  <2>. QED  BY <1>2, <1>3, <2>1, StringsAdded
<1>6. member \in MemberDescs /\ member.name = Len(ctx.strings) /\ member.default < 0
  <2>1. CommentIndex(Part, 1) \in Comments
    BY <1>2, <1>3, CommentHas
  <2>2. Part.default \in Int /\ Part.default < 0
    BY <1>3 DEF DefaultTexts, None
  <2>. QED  BY <1>2, <1>3, <1>4, <2>1, <2>2 DEF MemberDescs
<1>7. ctx' = [ctx EXCEPT !.metas = ctx.metas \o Pending(Part.metas),
                         !.strings = ctx.strings \o <<Part.name>> \o CommentString(Part),
                         !.members = Append(ctx.members, member)]
  BY DEF ReadMember
<1> HIDE DEF member, strings
<1>8. new \in Tables
  BY <1>4, <1>5, <1>6 DEF Tables
<1>9. ctx' = Joined(ctx, new)
  <2>1. Append(ctx.members, member) = ctx.members \o <<member>>
    BY <1>2, <1>6, EmptyJoined
  <2>2. ctx' = [ctx EXCEPT !.metas = ctx.metas \o Pending(Part.metas),
                           !.strings = ctx.strings \o strings,
                           !.members = ctx.members \o <<member>>]
    BY <1>5, <1>7, <2>1, Zenon
  <2>. QED  BY <1>2, <2>2, NothingAdded DEF Joined, Tables
<1>10. /\ new.types = <<>> /\ new.members = <<member>> /\ new.enums = <<>> /\ new.strings = strings
       /\ new.values = <<>> /\ new.aliases = <<>> /\ new.metas = Pending(Part.metas)
  OBVIOUS
<1> HIDE DEF new
<1>11. /\ Len(ctx'.strings) = Len(ctx.strings) + Len(strings)
       /\ Len(ctx'.members) = Len(ctx.members) + 1
       /\ Len(ctx'.metas) = Len(ctx.metas) + Len(Part.metas)
  <2>1. /\ Len(ctx'.strings) = Len(ctx.strings) + Len(new.strings)
        /\ Len(ctx'.members) = Len(ctx.members) + Len(new.members)
        /\ Len(ctx'.metas) = Len(ctx.metas) + Len(new.metas)
    BY <1>2, <1>8, <1>9, JoinedTables
  <2>2. Len(<<member>>) = 1
    OBVIOUS
  <2>. QED  BY <1>4, <1>10, <2>1, <2>2
<1>12. /\ DOMAIN new.types = {} /\ DOMAIN new.enums = {} /\ DOMAIN new.values = {}
       /\ DOMAIN new.aliases = {} /\ DOMAIN new.members = {1} /\ new.members[1] = member
  BY <1>10
<1>13. References(ctx')
  <2>1. new.members[1].name < Len(ctx'.strings)
    BY <1>2, <1>5, <1>6, <1>11, <1>12
  <2>. QED  BY <1>8, <1>9, <1>12, <2>1, AddedRefers
<1>14. /\ TablesOK' /\ FilesOK' /\ StartOK' /\ BuildingOK' /\ LoadingOK' /\ WithinOK' /\ LogOK'
       /\ Grows
  BY <1>1, <1>3, <1>6, <1>8, <1>9, <1>12, <1>13, TextAdded
<1>15. DeclOK'
  <2>1. DeclOK
    BY <1>1, <1>3 DEF IInv, ReadingOK
  <2>2. Decl' = Decl /\ pos'[2] = pos[2] + 1 /\ local' = local
    BY <1>1 DEF Decl
  <2>3. Len(ctx.members) \in Nat /\ Len(ctx.metas) \in Nat
    BY OldIsNumber
  <2>4. /\ local.meta \in Nat /\ local.first \in Nat /\ local.alias \in Nat
        /\ local.meta + Len(Decl.metas) <= Len(ctx'.metas)
    <3>1. /\ local.meta \in Nat /\ local.first \in Nat /\ local.alias \in Nat
          /\ local.meta + Len(Decl.metas) <= Len(ctx.metas)
      BY <2>1 DEF DeclOK
    <3>2. Len(Decl.metas) \in Nat /\ Len(Part.metas) \in Nat
      BY <1>3, <1>4
    <3>3. Len(ctx.metas) <= Len(ctx'.metas)
      BY <1>14 DEF Grows
    <3>4. Len(ctx.metas) \in Nat /\ Len(ctx'.metas) \in Nat
      BY <1>14, TablesHave DEF TablesOK
    <3>. QED  BY <3>1, <3>2, <3>3, <3>4
  <2>5. local.first + (pos[2] + 1) = Len(ctx'.members) + 1
    <3>1. local.first \in Nat /\ local.first + pos[2] = Len(ctx.members) + 1
      BY <1>1, <2>1 DEF DeclOK
    <3>2. pos[2] \in Nat
      BY <1>3
    <3>3. Len(ctx'.members) = Len(ctx.members) + 1
      BY <1>11
    <3>4. Len(ctx.members) \in Nat
      BY <2>3
    <3>. QED  BY <3>1, <3>2, <3>3, <3>4, Z3
  <2>6. pos'[2] <= Len(Decl.parts) + 1
    BY <1>1, <1>3, <2>2
  <2>. QED  BY <1>1, <2>2, <2>4, <2>5, <2>6 DEF DeclOK
<1>16. ReadingOK'
  BY <1>1, <1>14, <1>15, PartRead DEF TablesOK
<1>. QED  BY <1>14, <1>16 DEF IInv

(* The first of the names that are appended to a table is where the first  *)
(* description that is appended says.                                      *)
LEMMA AddedIsNamed ==
  ASSUME NEW t \in Tables, NEW u \in Tables, NEW name, Len(u.strings) >= 1, u.strings[1] = name
  PROVE  /\ u.types # <<>> /\ u.types[1].name = Len(t.strings) =>
              \E i \in DOMAIN Joined(t, u).types :
                Get(Joined(t, u).strings, Joined(t, u).types[i].name) = name
         /\ u.enums # <<>> /\ u.enums[1].name = Len(t.strings) =>
              \E i \in DOMAIN Joined(t, u).enums :
                Get(Joined(t, u).strings, Joined(t, u).enums[i].name) = name
<1>1. PICK s \in Seq(STRING), s2 \in Seq(STRING) : s = t.strings /\ s2 = u.strings
  BY TablesHave
<1>2. (s \o s2)[Len(s) + 1] = name
  <2>1. 1 \in DOMAIN s2
    BY <1>1
  <2>2. (s \o s2)[Len(s) + 1] = s2[1]
    BY <2>1, Concatenated
  <2>. QED  BY <1>1, <2>2
<1>3. Get(Joined(t, u).strings, Len(t.strings)) = name
  BY <1>1, <1>2 DEF Get, Joined
<1>4. ASSUME u.types # <<>>
      PROVE  \E i \in DOMAIN Joined(t, u).types : Joined(t, u).types[i] = u.types[1]
  <2>1. PICK a \in Seq(TypeDescs), b \in Seq(TypeDescs) : a = t.types /\ b = u.types
    BY TablesHave
  <2>2. 1 \in DOMAIN b
    BY <1>4, <2>1
  <2>3. Len(a) + 1 \in DOMAIN (a \o b) /\ (a \o b)[Len(a) + 1] = b[1]
    BY <2>2, Concatenated
  <2>4. Joined(t, u).types = a \o b
    BY <2>1 DEF Joined
  <2>. QED  BY <2>1, <2>3, <2>4
<1>5. ASSUME u.enums # <<>>
      PROVE  \E i \in DOMAIN Joined(t, u).enums : Joined(t, u).enums[i] = u.enums[1]
  <2>1. PICK a \in Seq(EnumDescs), b \in Seq(EnumDescs) : a = t.enums /\ b = u.enums
    BY TablesHave
  <2>2. 1 \in DOMAIN b
    BY <1>5, <2>1
  <2>3. Len(a) + 1 \in DOMAIN (a \o b) /\ (a \o b)[Len(a) + 1] = b[1]
    BY <2>2, Concatenated
  <2>4. Joined(t, u).enums = a \o b
    BY <2>1 DEF Joined
  <2>. QED  BY <2>1, <2>3, <2>4
<1>. QED  BY <1>3, <1>4, <1>5

(* The name of a description is the first of its strings.                  *)
LEMMA NameAdded ==
  ASSUME ctx \in Tables, NEW d, d.name \in STRING, d.comment \in STRING,
         NEW strings, strings = <<d.name>> \o CommentString(d)
  PROVE  /\ strings \in Seq(STRING) /\ Len(strings) \in Nat /\ Len(strings) >= 1
         /\ strings[1] = d.name
         /\ ctx.strings \o <<d.name>> \o CommentString(d) = ctx.strings \o strings
<1>1. <<d.name>> \in Seq(STRING) /\ Len(<<d.name>>) = 1
  OBVIOUS
<1>2. CommentString(d) \in Seq(STRING)
  BY CommentHas, 0 \in Nat
<1>3. strings[1] = d.name
  <2>1. PICK comment \in Seq(STRING), name \in STRING : comment = CommentString(d) /\ name = d.name
    BY <1>2
  <2>2. (<<name>> \o comment)[1] = name
    OBVIOUS
  <2>. QED  BY <2>1, <2>2
<1>. QED  BY <1>1, <1>3, StringsAdded

LEMMA ReadTypeStep ==
  ASSUME IInv, ReadType
  PROVE  IInv' /\ Grows
<1> DEFINE d == [name |-> Len(ctx.strings), comment |-> CommentIndex(Decl, 1),
                 first |-> local.first, parts |-> Len(Decl.parts),
                 meta |-> local.meta, count |-> Len(Decl.metas)]
           strings == <<Decl.name>> \o CommentString(Decl)
           new == [strings |-> strings, types |-> <<d>>, members |-> <<>>, enums |-> <<>>,
                   values |-> <<>>, aliases |-> <<>>, defaults |-> <<>>, metas |-> <<>>]
<1>1. /\ Reading /\ Decl.kind = "type" /\ pos[2] = Len(Decl.parts) + 1
      /\ phase' = phase /\ lib' = lib /\ start' = start /\ local' = local
      /\ files' = files /\ log' = log /\ pos' = <<pos[1] + 1, 0>>
  BY DEF ReadType, AfterParts
<1>2. ctx \in Tables /\ Len(ctx.strings) \in Nat /\ ctx.strings \in Seq(STRING)
      /\ ctx.types \in Seq(TypeDescs)
  <2>1. ctx \in Tables
    BY DEF IInv, TablesOK
  <2>. QED  BY <2>1, TablesHave
<1>3. /\ phase = "text" /\ phase' = "text" /\ Decl.name \in STRING /\ Decl.comment \in STRING
      /\ Decl.metas \in Seq(Instances) /\ Len(Decl.parts) \in Nat \ {0}
      /\ pos[2] \in Nat
  BY <1>1, DeclHas
<1>4. /\ local.meta \in Nat /\ local.first \in Nat
      /\ local.meta + Len(Decl.metas) <= Len(ctx.metas)
      /\ local.first + Len(Decl.parts) = Len(ctx.members)
  <2>1. DeclOK
    BY <1>1, <1>3 DEF IInv, ReadingOK
  <2>2. PICK k \in Nat, n \in Nat : k = Len(Decl.parts) /\ n = Len(ctx.members)
    BY <1>3, OldIsNumber
  <2>3. local.first \in Nat /\ local.first + (k + 1) = n + 1
    BY <1>1, <2>1, <2>2 DEF DeclOK
  <2>4. local.first + k = n
    BY <2>3
  <2>. QED  BY <2>1, <2>2, <2>4 DEF DeclOK
<1>5. /\ strings \in Seq(STRING) /\ Len(strings) \in Nat /\ Len(strings) >= 1
      /\ strings[1] = Decl.name
      /\ ctx.strings \o <<Decl.name>> \o CommentString(Decl) = ctx.strings \o strings
  BY <1>2, <1>3, NameAdded
<1>6. d \in TypeDescs /\ d.name = Len(ctx.strings) /\ d.first + d.parts = Len(ctx.members)
      /\ d.meta + d.count <= Len(ctx.metas)
  <2>1. CommentIndex(Decl, 1) \in Comments
    BY <1>2, <1>3, CommentHas
  <2>2. Len(Decl.metas) \in Nat
    BY <1>3
  <2>. QED  BY <1>2, <1>3, <1>4, <2>1, <2>2 DEF TypeDescs
<1>7. ctx' = [ctx EXCEPT !.strings = ctx.strings \o <<Decl.name>> \o CommentString(Decl),
                         !.types = Append(ctx.types, d)]
  BY DEF ReadType
<1> HIDE DEF d, strings
<1>8. new \in Tables
  BY <1>5, <1>6 DEF Tables
<1>9. ctx' = Joined(ctx, new)
  <2>1. Append(ctx.types, d) = ctx.types \o <<d>>
    BY <1>2, <1>6, EmptyJoined
  <2>2. ctx' = [ctx EXCEPT !.strings = ctx.strings \o strings, !.types = ctx.types \o <<d>>]
    BY <1>5, <1>7, <2>1, Zenon
  <2>. QED  BY <1>2, <2>2, NothingAdded DEF Joined, Tables
<1>10. /\ new.types = <<d>> /\ new.members = <<>> /\ new.enums = <<>> /\ new.strings = strings
       /\ new.values = <<>> /\ new.aliases = <<>> /\ new.metas = <<>>
  OBVIOUS
<1> HIDE DEF new
<1>11. /\ DOMAIN new.types = {1} /\ DOMAIN new.enums = {} /\ DOMAIN new.values = {}
       /\ DOMAIN new.aliases = {} /\ DOMAIN new.members = {} /\ new.types[1] = d
  BY <1>10
<1>12. /\ Len(ctx'.strings) = Len(ctx.strings) + Len(strings)
       /\ ctx'.members = ctx.members /\ ctx'.metas = ctx.metas
  <2>1. Len(ctx'.strings) = Len(ctx.strings) + Len(new.strings)
    BY <1>2, <1>8, <1>9, JoinedTables
  <2>. QED  BY <1>2, <1>7, <1>10, <2>1 DEF Tables
<1>13. References(ctx')
  <2>1. d.name < Len(ctx'.strings)
    BY <1>2, <1>5, <1>6, <1>12
  <2>2. d.first + d.parts <= Len(ctx'.members)
    BY <1>6, <1>12, OldIsNumber
  <2>3. TypeRefers(new.types[1], ctx')
    BY <1>11, <2>1, <2>2 DEF TypeRefers
  <2>. QED  BY <1>8, <1>9, <1>11, <2>3, AddedRefers
<1>14. /\ TablesOK' /\ FilesOK' /\ StartOK' /\ BuildingOK' /\ LoadingOK' /\ WithinOK' /\ LogOK'
       /\ Grows
  BY <1>1, <1>3, <1>6, <1>8, <1>9, <1>11, <1>12, <1>13, TextAdded
<1>15. Named(ctx', Decl)
  <2>1. \E i \in DOMAIN Joined(ctx, new).types :
          Get(Joined(ctx, new).strings, Joined(ctx, new).types[i].name) = Decl.name
    BY <1>2, <1>5, <1>6, <1>8, <1>10, <1>11, AddedIsNamed
  <2>. QED  BY <1>1, <1>9, <2>1 DEF Named
<1>16. ReadingOK'
  BY <1>1, <1>14, <1>15, DeclRead DEF TablesOK
<1>. QED  BY <1>14, <1>16 DEF IInv

LEMMA ReadEnumStep ==
  ASSUME IInv, ReadEnum
  PROVE  IInv' /\ Grows
<1> DEFINE d == [name |-> Len(ctx.strings), comment |-> CommentIndex(Decl, 1),
                 first |-> local.first, parts |-> Len(Decl.parts),
                 alias |-> local.alias, aliases |-> Len(ctx.aliases) - local.alias,
                 meta |-> local.meta, count |-> Len(Decl.metas)]
           strings == <<Decl.name>> \o CommentString(Decl)
           new == [strings |-> strings, types |-> <<>>, members |-> <<>>, enums |-> <<d>>,
                   values |-> <<>>, aliases |-> <<>>, defaults |-> <<>>, metas |-> <<>>]
<1>1. /\ Reading /\ Decl.kind = "enum" /\ pos[2] = Len(Decl.parts) + 1
      /\ phase' = phase /\ lib' = lib /\ start' = start /\ local' = local
      /\ files' = files /\ log' = log /\ pos' = <<pos[1] + 1, 0>>
  BY DEF ReadEnum, AfterParts
<1>2. ctx \in Tables /\ Len(ctx.strings) \in Nat /\ ctx.strings \in Seq(STRING)
      /\ ctx.aliases \in Seq(AliasDescs) /\ ctx.enums \in Seq(EnumDescs)
  <2>1. ctx \in Tables
    BY DEF IInv, TablesOK
  <2>. QED  BY <2>1, TablesHave
<1>3. /\ phase = "text" /\ phase' = "text" /\ Decl.name \in STRING /\ Decl.comment \in STRING
      /\ Decl.metas \in Seq(Instances) /\ Len(Decl.parts) \in Nat
      /\ pos[2] \in Nat
  BY <1>1, DeclHas
<1>4. /\ local.meta \in Nat /\ local.first \in Nat
      /\ local.meta + Len(Decl.metas) <= Len(ctx.metas)
      /\ local.first + Len(Decl.parts) = Len(ctx.values)
      /\ local.alias \in Nat /\ local.alias <= Len(ctx.aliases)
  <2>1. DeclOK
    BY <1>1, <1>3 DEF IInv, ReadingOK
  <2>2. PICK k \in Nat, n \in Nat : k = Len(Decl.parts) /\ n = Len(ctx.values)
    BY <1>2, <1>3, TablesHave
  <2>3. local.first \in Nat /\ local.first + (k + 1) = n + 1
    BY <1>1, <2>1, <2>2 DEF DeclOK
  <2>4. local.first + k = n
    BY <2>3
  <2>. QED  BY <1>1, <2>1, <2>2, <2>4 DEF DeclOK
<1>5. /\ strings \in Seq(STRING) /\ Len(strings) \in Nat /\ Len(strings) >= 1
      /\ strings[1] = Decl.name
      /\ ctx.strings \o <<Decl.name>> \o CommentString(Decl) = ctx.strings \o strings
  BY <1>2, <1>3, NameAdded
<1>6. d \in EnumDescs /\ d.name = Len(ctx.strings) /\ d.first + d.parts = Len(ctx.values)
      /\ d.alias + d.aliases = Len(ctx.aliases)
      /\ d.meta + d.count <= Len(ctx.metas)
  <2>1. CommentIndex(Decl, 1) \in Comments
    BY <1>2, <1>3, CommentHas
  <2>2. Len(Decl.metas) \in Nat
    BY <1>3
  <2>3. PICK n \in Nat : n = Len(ctx.aliases)
    BY <1>2
  <2>4. local.alias + (n - local.alias) = n /\ n - local.alias \in Nat
    BY <1>4, <2>3
  <2>5. Len(ctx.aliases) - local.alias \in Nat
    BY <2>3, <2>4
  <2>6. d \in EnumDescs
    BY <1>2, <1>3, <1>4, <2>1, <2>2, <2>5 DEF EnumDescs
  <2>. QED  BY <1>4, <2>3, <2>4, <2>6
<1>7. ctx' = [ctx EXCEPT !.strings = ctx.strings \o <<Decl.name>> \o CommentString(Decl),
                         !.enums = Append(ctx.enums, d)]
  BY DEF ReadEnum
<1> HIDE DEF d, strings
<1>8. new \in Tables
  BY <1>5, <1>6 DEF Tables
<1>9. ctx' = Joined(ctx, new)
  <2>1. Append(ctx.enums, d) = ctx.enums \o <<d>>
    BY <1>2, <1>6, EmptyJoined
  <2>2. ctx' = [ctx EXCEPT !.strings = ctx.strings \o strings, !.enums = ctx.enums \o <<d>>]
    BY <1>5, <1>7, <2>1, Zenon
  <2>. QED  BY <1>2, <2>2, NothingAdded DEF Joined, Tables
<1>10. /\ new.types = <<>> /\ new.members = <<>> /\ new.enums = <<d>> /\ new.strings = strings
       /\ new.values = <<>> /\ new.aliases = <<>> /\ new.metas = <<>>
  OBVIOUS
<1> HIDE DEF new
<1>11. /\ DOMAIN new.types = {} /\ DOMAIN new.enums = {1} /\ DOMAIN new.values = {}
       /\ DOMAIN new.aliases = {} /\ DOMAIN new.members = {} /\ new.enums[1] = d
  BY <1>10
<1>12. /\ Len(ctx'.strings) = Len(ctx.strings) + Len(strings)
       /\ ctx'.values = ctx.values /\ ctx'.aliases = ctx.aliases /\ ctx'.metas = ctx.metas
  <2>1. Len(ctx'.strings) = Len(ctx.strings) + Len(new.strings)
    BY <1>2, <1>8, <1>9, JoinedTables
  <2>. QED  BY <1>2, <1>7, <1>10, <2>1 DEF Tables
<1>13. References(ctx')
  <2>1. d.name < Len(ctx'.strings)
    BY <1>2, <1>5, <1>6, <1>12
  <2>2. d.first + d.parts <= Len(ctx'.values) /\ d.alias + d.aliases <= Len(ctx'.aliases)
    BY <1>2, <1>6, <1>12, TablesHave
  <2>3. EnumRefers(new.enums[1], ctx')
    BY <1>11, <2>1, <2>2 DEF EnumRefers
  <2>. QED  BY <1>8, <1>9, <1>11, <2>3, AddedRefers
<1>14. /\ TablesOK' /\ FilesOK' /\ StartOK' /\ BuildingOK' /\ LoadingOK' /\ WithinOK' /\ LogOK'
       /\ Grows
  BY <1>1, <1>3, <1>6, <1>8, <1>9, <1>11, <1>12, <1>13, TextAdded
<1>15. Named(ctx', Decl)
  <2>1. \E i \in DOMAIN Joined(ctx, new).enums :
          Get(Joined(ctx, new).strings, Joined(ctx, new).enums[i].name) = Decl.name
    BY <1>2, <1>5, <1>6, <1>8, <1>10, <1>11, AddedIsNamed
  <2>. QED  BY <1>1, <1>9, <2>1 DEF Named
<1>16. ReadingOK'
  BY <1>1, <1>14, <1>15, DeclRead DEF TablesOK
<1>. QED  BY <1>14, <1>16 DEF IInv

LEMMA ReadValueStep ==
  ASSUME IInv, ReadValue
  PROVE  IInv' /\ Grows
<1> DEFINE names == <<Part.name>> \o Part.aliases
           strings == names \o CommentString(Part)
           aliases == [i \in DOMAIN names |->
                         [name |-> Len(ctx.strings) + i - 1, value |-> Len(ctx.values)]]
           value == [value |-> Part.value, alias |-> Len(ctx.aliases),
                     comment |-> CommentIndex(Part, Len(names)),
                     meta |-> MetaStart(Part.metas), count |-> Len(Part.metas)]
           new == [strings |-> strings, types |-> <<>>, members |-> <<>>, enums |-> <<>>,
                   values |-> <<value>>, aliases |-> aliases, defaults |-> <<>>,
                   metas |-> Pending(Part.metas)]
<1>1. /\ Reading /\ Decl.kind = "enum" /\ pos[2] \in 1..Len(Decl.parts)
      /\ phase' = phase /\ lib' = lib /\ start' = start /\ local' = local
      /\ files' = files /\ log' = log /\ pos' = <<pos[1], pos[2] + 1>>
  BY DEF ReadValue, InParts
<1>2. /\ ctx \in Tables /\ ctx.strings \in Seq(STRING) /\ Len(ctx.strings) \in Nat
      /\ ctx.values \in Seq(ValueDescs) /\ Len(ctx.values) \in Nat
      /\ ctx.aliases \in Seq(AliasDescs) /\ Len(ctx.aliases) \in Nat
  <2>1. ctx \in Tables
    BY DEF IInv, TablesOK
  <2>. QED  BY <2>1, TablesHave
<1>3. /\ phase = "text" /\ phase' = "text" /\ Part.name \in STRING /\ Part.comment \in STRING
      /\ Part.metas \in Seq(Instances) /\ Part.value \in Int /\ Part.aliases \in Seq(STRING)
      /\ Len(Decl.parts) \in Nat /\ Len(Decl.metas) \in Nat /\ pos[2] \in Nat
  BY <1>1, DeclHas, PartHas
<1>4. /\ Pending(Part.metas) \in Seq(Metas) /\ MetaStart(Part.metas) \in Nat
      /\ Len(Part.metas) \in Nat /\ Len(Pending(Part.metas)) = Len(Part.metas)
  BY <1>2, <1>3, PendingHas, MetaStartHas
<1>5. names \in Seq(STRING) /\ Len(names) \in Nat /\ Len(names) >= 1
  <2>1. PICK name \in STRING, more \in Seq(STRING) : name = Part.name /\ more = Part.aliases
    BY <1>3
  <2>2. <<name>> \o more \in Seq(STRING) /\ Len(<<name>> \o more) = 1 + Len(more)
    BY OneBefore
  <2>3. Len(more) \in Nat
    OBVIOUS
  <2>. QED  BY <2>1, <2>2, <2>3
<1> HIDE DEF names
<1>6. /\ strings \in Seq(STRING) /\ Len(strings) \in Nat /\ Len(strings) >= Len(names)
      /\ ctx.strings \o names \o CommentString(Part) = ctx.strings \o strings
  BY <1>2, <1>3, <1>5, StringsAdded
<1>7. /\ aliases \in Seq(AliasDescs) /\ Len(aliases) = Len(names)
      /\ \A i \in DOMAIN aliases : /\ aliases[i].name < Len(ctx.strings) + Len(strings)
                                   /\ aliases[i].value = Len(ctx.values)
  <2>1. PICK n \in Nat, k \in Nat, m \in Nat :
          n = Len(names) /\ k = Len(ctx.strings) /\ m = Len(strings) /\ n <= m
    BY <1>2, <1>5, <1>6
  <2>2. DOMAIN names = 1..n
    BY <1>5, <2>1
  <2>3. \A i \in 1..n : k + i - 1 \in Nat
    OBVIOUS
  <2>4. aliases \in [1..n -> AliasDescs]
    BY <1>2, <2>1, <2>2, <2>3 DEF AliasDescs
  <2>5. \A i \in 1..n : aliases[i].name = k + i - 1 /\ aliases[i].value = Len(ctx.values)
    BY <2>1, <2>2
  <2>6. ASSUME n <= m
        PROVE  \A i \in 1..n : k + i - 1 < k + m
    BY <2>6
  <2>7. aliases \in Seq(AliasDescs) /\ Len(aliases) = n
    BY <2>4, FunctionIsSequence
  <2>. QED  BY <2>1, <2>2, <2>5, <2>6, <2>7
<1>8. value \in ValueDescs /\ value.alias = Len(ctx.aliases)
  <2>1. CommentIndex(Part, Len(names)) \in Comments
    BY <1>2, <1>3, <1>5, CommentHas
  <2>. QED  BY <1>2, <1>3, <1>4, <2>1 DEF ValueDescs
<1>9. ctx' = [ctx EXCEPT !.metas = ctx.metas \o Pending(Part.metas),
                         !.strings = ctx.strings \o names \o CommentString(Part),
                         !.aliases = ctx.aliases \o aliases,
                         !.values = Append(ctx.values, value)]
  BY DEF ReadValue, names
<1> HIDE DEF value, strings, aliases
<1>10. new \in Tables
  BY <1>4, <1>6, <1>7, <1>8 DEF Tables
<1>11. ctx' = Joined(ctx, new)
  <2>1. Append(ctx.values, value) = ctx.values \o <<value>>
    BY <1>2, <1>8, EmptyJoined
  <2>2. ctx' = [ctx EXCEPT !.metas = ctx.metas \o Pending(Part.metas),
                           !.strings = ctx.strings \o strings,
                           !.aliases = ctx.aliases \o aliases,
                           !.values = ctx.values \o <<value>>]
    BY <1>6, <1>9, <2>1, Zenon
  <2>. QED  BY <1>2, <2>2, NothingAdded DEF Joined, Tables
<1>12. /\ new.types = <<>> /\ new.members = <<>> /\ new.enums = <<>> /\ new.strings = strings
       /\ new.values = <<value>> /\ new.aliases = aliases /\ new.metas = Pending(Part.metas)
  OBVIOUS
<1> HIDE DEF new
<1>13. /\ Len(ctx'.strings) = Len(ctx.strings) + Len(strings)
       /\ Len(ctx'.values) = Len(ctx.values) + 1
       /\ Len(ctx'.aliases) = Len(ctx.aliases) + Len(names)
  <2>1. /\ Len(ctx'.strings) = Len(ctx.strings) + Len(new.strings)
        /\ Len(ctx'.values) = Len(ctx.values) + Len(new.values)
        /\ Len(ctx'.aliases) = Len(ctx.aliases) + Len(new.aliases)
    BY <1>2, <1>10, <1>11, JoinedTables
  <2>2. Len(<<value>>) = 1
    OBVIOUS
  <2>. QED  BY <1>7, <1>12, <2>1, <2>2
<1>14. /\ DOMAIN new.types = {} /\ DOMAIN new.enums = {} /\ DOMAIN new.members = {}
       /\ DOMAIN new.values = {1} /\ new.values[1] = value
       /\ new.aliases = aliases
  BY <1>12
<1>15. References(ctx')
  <2>1. new.values[1].alias < Len(ctx'.aliases)
    BY <1>2, <1>5, <1>8, <1>13, <1>14
  <2>2. \A i \in DOMAIN aliases : AliasRefers(aliases[i], ctx')
    BY <1>2, <1>7, <1>13 DEF AliasRefers
  <2>. QED  BY <1>10, <1>11, <1>14, <2>1, <2>2, AddedRefers
<1>16. /\ TablesOK' /\ FilesOK' /\ StartOK' /\ BuildingOK' /\ LoadingOK' /\ WithinOK' /\ LogOK'
       /\ Grows
  BY <1>1, <1>3, <1>10, <1>11, <1>14, <1>15, TextAdded
<1>17. DeclOK'
  <2>1. DeclOK
    BY <1>1, <1>3 DEF IInv, ReadingOK
  <2>2. Decl' = Decl /\ pos'[2] = pos[2] + 1 /\ local' = local
    BY <1>1 DEF Decl
  <2>3. /\ local.meta \in Nat /\ local.first \in Nat /\ local.alias \in Nat
        /\ local.meta + Len(Decl.metas) <= Len(ctx'.metas)
    <3>1. /\ local.meta \in Nat /\ local.first \in Nat /\ local.alias \in Nat
          /\ local.meta + Len(Decl.metas) <= Len(ctx.metas)
      BY <2>1 DEF DeclOK
    <3>2. Len(Decl.metas) \in Nat /\ Len(ctx.metas) \in Nat
      BY <1>3, OldIsNumber
    <3>3. Len(ctx.metas) <= Len(ctx'.metas)
      BY <1>16 DEF Grows
    <3>4. Len(ctx'.metas) \in Nat
      BY <1>16, TablesHave DEF TablesOK
    <3>. QED  BY <3>1, <3>2, <3>3, <3>4
  <2>4. local.first + (pos[2] + 1) = Len(ctx'.values) + 1
    <3>1. local.first \in Nat /\ local.first + pos[2] = Len(ctx.values) + 1
      BY <1>1, <2>1 DEF DeclOK
    <3>2. PICK n \in Nat, f \in Nat, p \in Nat :
            n = Len(ctx.values) /\ f = local.first /\ p = pos[2]
      BY <1>2, <1>3, <3>1
    <3>3. f + p = n + 1
      BY <3>1, <3>2
    <3>4. f + (p + 1) = (n + 1) + 1
      BY <3>3
    <3>. QED  BY <1>13, <3>2, <3>4
  <2>5. local.alias <= Len(ctx'.aliases)
    <3>1. local.alias \in Nat /\ local.alias <= Len(ctx.aliases)
      BY <1>1, <2>1 DEF DeclOK
    <3>. QED  BY <1>2, <1>5, <1>13, <3>1
  <2>6. pos'[2] <= Len(Decl.parts) + 1
    BY <1>1, <1>3, <2>2
  <2>. QED  BY <1>1, <2>2, <2>3, <2>4, <2>5, <2>6 DEF DeclOK
<1>18. ReadingOK'
  BY <1>1, <1>16, <1>17, PartRead DEF TablesOK
<1>. QED  BY <1>16, <1>18 DEF IInv

(***************************************************************************)
(* Steps that leave the tables alone.                                      *)
(***************************************************************************)
LEMMA QuietGrows ==
  ASSUME IInv, ctx' = ctx
  PROVE  ctx' \in Tables /\ References(ctx') /\ Grows
<1>1. ctx \in Tables /\ References(ctx)
  BY DEF IInv, TablesOK
<1>2. /\ ctx.strings \in Seq(STRING) /\ ctx.types \in Seq(TypeDescs)
      /\ ctx.enums \in Seq(EnumDescs) /\ ctx.values \in Seq(ValueDescs)
      /\ ctx.aliases \in Seq(AliasDescs) /\ ctx.defaults \in Seq(Defaults)
  BY <1>1, TablesHave
<1>3. /\ Longer(ctx.strings, ctx.strings) /\ Longer(ctx.types, ctx.types)
      /\ Longer(ctx.enums, ctx.enums) /\ Longer(ctx.values, ctx.values)
      /\ Longer(ctx.aliases, ctx.aliases) /\ Longer(ctx.defaults, ctx.defaults)
  BY <1>2, LongerItself
<1>4. Len(ctx.members) <= Len(ctx.members) /\ Len(ctx.metas) <= Len(ctx.metas)
  BY OldIsNumber
<1>. QED  BY <1>1, <1>3, <1>4 DEF Grows, NamesGrow

(* A load goes on or takes no more than a step of its own.                 *)
LEMMA QuietKeeps ==
  ASSUME IInv, ctx' = ctx, phase # "idle", phase' # "idle", phase' \in Phases,
         start' = start, files' = files, log' = log
  PROVE  TablesOK' /\ FilesOK' /\ StartOK' /\ LogOK' /\ Grows
<1>1. ctx' \in Tables /\ References(ctx') /\ Grows
  BY QuietGrows
<1>2. TablesOK' /\ FilesOK'
  BY <1>1 DEF IInv, TablesOK, FilesOK
<1>3. StartOK'
  BY <1>1, StartGrows
<1>4. LogOK'
  <2>1. OldGrows
    BY OldStays
  <2>. QED  BY <1>1, <2>1, LogGrows DEF Grows
<1>. QED  BY <1>1, <1>2, <1>3, <1>4

(* What the tables have within themselves does not change with them.       *)
LEMMA QuietWithin ==
  ASSUME IInv, ctx' = ctx, phase \notin {"binary", "lost"}
  PROVE  /\ WithinOK'
         /\ MetasWithin(ctx', Len(ctx'.metas)) /\ DefaultsWithin(ctx', Len(ctx'.defaults))
BY DEF IInv, WithinOK

(***************************************************************************)
(* A load that returns has added to the tables all it adds.                *)
(***************************************************************************)
LEMMA Returns ==
  ASSUME IInv, phase # "idle", ctx' \in Tables, References(ctx'), Grows,
         MetasWithin(ctx', Len(ctx'.metas)), DefaultsWithin(ctx', Len(ctx'.defaults)),
         NEW ok \in BOOLEAN, NEW from \in {"text", "file"}, NEW declared \in Seq(Decls),
         Return(ok, from, declared),
         NEW n \in Nat, n <= Len(ctx'.metas),
         \A j \in DOMAIN declared : Kept(declared[j], Len(ctx.members), n)
  PROVE  IInv'
<1>1. phase' = "idle" /\ files' = files
      /\ log' = Append(log, [ok |-> ok, from |-> from, declared |-> declared])
  BY DEF Return
<1>2. TablesOK'
  BY <1>1 DEF TablesOK, Phases
<1>3. FilesOK' /\ StartOK' /\ ReadingOK' /\ BuildingOK' /\ LoadingOK' /\ WithinOK'
  BY <1>1 DEF IInv, FilesOK, StartOK, ReadingOK, BuildingOK, LoadingOK, WithinOK
<1>4. PICK m \in Nat, m2 \in Nat, n1 \in Nat, n2 \in Nat :
        /\ m = Len(ctx.members) /\ m2 = Len(ctx'.members) /\ m <= m2
        /\ n1 = Len(ctx.metas) /\ n2 = Len(ctx'.metas) /\ n1 <= n2
  <2>1. Len(ctx.members) \in Nat /\ Len(ctx.metas) \in Nat
    BY OldIsNumber
  <2>2. Len(ctx'.members) \in Nat /\ Len(ctx'.metas) \in Nat
    BY TablesHave
  <2>. QED  BY <2>1, <2>2 DEF Grows
<1>5. OldMembers' = m2 /\ OldMetas' = n2
  BY <1>1, <1>4 DEF OldMembers, OldMetas
<1>6. OldGrows
  <2>1. OldMembers \in Nat /\ OldMembers <= m /\ OldMetas \in Nat /\ OldMetas <= n1
    BY <1>4, OldIsNumber
  <2>. QED  BY <1>4, <1>5, <2>1 DEF OldGrows
<1>7. LogOK'
  <2>1. PICK e \in LogEntries : e = [ok |-> ok, from |-> from, declared |-> declared]
    BY DEF LogEntries
  <2>2. \A j \in DOMAIN e.declared : Kept(e.declared[j], m, n)
    BY <1>4, <2>1
  <2>3. log' = Append(log, e)
    BY <1>1, <2>1
  <2>4. m <= OldMembers' /\ n <= OldMetas'
    BY <1>4, <1>5
  <2>. QED  BY <1>6, <2>2, <2>3, <2>4, LogAppended DEF Grows
<1>. QED  BY <1>2, <1>3, <1>7 DEF IInv

LEMMA RefusedKeeps ==
  ASSUME IInv, phase # "idle", ctx' \in Tables, References(ctx'), Grows,
         MetasWithin(ctx', Len(ctx'.metas)), DefaultsWithin(ctx', Len(ctx'.defaults)),
         Refused
  PROVE  IInv'
<1>1. <<>> \in Seq(Decls) /\ DOMAIN <<>> = {}
  OBVIOUS
<1>2. Return(FALSE, "text", <<>>)
  BY DEF Refused
<1>3. 0 \in Nat /\ 0 <= Len(ctx'.metas)
  BY TablesHave
<1>4. FALSE \in BOOLEAN /\ "text" \in {"text", "file"}
  OBVIOUS
<1>5. PICK none \in Seq(Decls) : none = <<>>
  BY <1>1
<1>6. \A j \in DOMAIN none : Kept(none[j], Len(ctx.members), 0)
  BY <1>1, <1>5
<1>7. Return(FALSE, "text", none)
  BY <1>2, <1>5
<1>. QED  BY <1>3, <1>4, <1>6, <1>7, Returns, Zenon

LEMMA QuietRefused ==
  ASSUME IInv, phase \in {"text", "defaults", "metadata"}, ctx' = ctx, Refused
  PROVE  IInv' /\ Grows
<1>1. ctx' \in Tables /\ References(ctx') /\ Grows
  BY QuietGrows
<1>2. MetasWithin(ctx', Len(ctx'.metas)) /\ DefaultsWithin(ctx', Len(ctx'.defaults))
  BY QuietWithin
<1>. QED  BY <1>1, <1>2, RefusedKeeps

LEMMA FixUpStep ==
  ASSUME IInv, FixUp
  PROVE  IInv' /\ Grows
<1>1. /\ phase = "text" /\ ~Reading /\ phase' = "defaults" /\ pos' = <<start.members, 0>>
      /\ ctx' = ctx /\ lib' = lib /\ start' = start /\ files' = files /\ log' = log
  BY DEF FixUp
<1>2. TablesOK' /\ FilesOK' /\ StartOK' /\ LogOK' /\ Grows
  BY <1>1, QuietKeeps DEF Phases
<1>3. WithinOK'
  BY <1>1, QuietWithin
<1>4. BuildingOK'
  <2>1. /\ lib \in Seq(Decls) /\ pos[1] \in 1..(Len(lib) + 1)
        /\ \A j \in 1..(pos[1] - 1) : Named(ctx, lib[j])
    BY <1>1 DEF IInv, ReadingOK
  <2>2. DOMAIN lib = 1..(pos[1] - 1)
    BY <1>1, <2>1 DEF Reading
  <2>3. start.members \in Nat
    BY <1>1 DEF IInv, StartOK
  <2>. QED  BY <1>1, <2>1, <2>2, <2>3 DEF BuildingOK
<1>5. ReadingOK' /\ LoadingOK'
  BY <1>1 DEF ReadingOK, LoadingOK
<1>. QED  BY <1>2, <1>3, <1>4, <1>5 DEF IInv

LEMMA DefaultsDoneStep ==
  ASSUME IInv, DefaultsDone
  PROVE  IInv' /\ Grows
<1>1. /\ phase = "defaults" /\ phase' = "metadata" /\ pos' = <<start.metas, 0>>
      /\ ctx' = ctx /\ lib' = lib /\ start' = start /\ files' = files /\ log' = log
  BY DEF DefaultsDone
<1>2. TablesOK' /\ FilesOK' /\ StartOK' /\ LogOK' /\ Grows
  BY <1>1, QuietKeeps DEF Phases
<1>3. WithinOK'
  BY <1>1, QuietWithin
<1>4. BuildingOK'
  <2>1. start.metas \in Nat
    BY <1>1 DEF IInv, StartOK
  <2>. QED  BY <1>1, <2>1 DEF IInv, BuildingOK
<1>5. ReadingOK' /\ LoadingOK'
  BY <1>1 DEF ReadingOK, LoadingOK
<1>. QED  BY <1>2, <1>3, <1>4, <1>5 DEF IInv

LEMMA LoadMetadataLostStep ==
  ASSUME IInv, LoadMetadataLost
  PROVE  IInv' /\ Grows
<1>1. /\ phase = "binary" /\ phase' = "lost"
      /\ ctx' = ctx /\ start' = start /\ files' = files /\ log' = log
  BY DEF LoadMetadataLost
<1>2. TablesOK' /\ FilesOK' /\ StartOK' /\ LogOK' /\ Grows
  BY <1>1, QuietKeeps DEF Phases
<1>3. ReadingOK' /\ LoadingOK' /\ BuildingOK' /\ WithinOK'
  BY <1>1 DEF ReadingOK, LoadingOK, BuildingOK, WithinOK
<1>. QED  BY <1>2, <1>3 DEF IInv

LEMMA TextDoneStep ==
  ASSUME IInv, TextDone
  PROVE  IInv' /\ Grows
<1>1. phase = "metadata" /\ ctx' = ctx /\ Return(TRUE, "text", lib)
  BY DEF TextDone
<1>2. ctx' \in Tables /\ References(ctx') /\ Grows
  BY <1>1, QuietGrows
<1>3. MetasWithin(ctx', Len(ctx'.metas)) /\ DefaultsWithin(ctx', Len(ctx'.defaults))
  BY <1>1, QuietWithin
<1>4. lib \in Seq(Decls) /\ \A j \in DOMAIN lib : Named(ctx, lib[j])
  BY <1>1 DEF IInv, BuildingOK
<1>5. PICK n \in Nat : n = Len(ctx.metas)
  BY OldIsNumber
<1>6. \A j \in DOMAIN lib : Kept(lib[j], Len(ctx.members), n)
  <2>1. MetasWithin(ctx, n)
    BY <1>1, <1>5 DEF IInv, WithinOK
  <2>. QED  BY <1>4, <2>1, KeptInAll
<1>7. n <= Len(ctx'.metas)
  BY <1>1, <1>5
<1>8. TRUE \in BOOLEAN /\ "text" \in {"text", "file"} /\ phase # "idle"
  BY <1>1
<1>9. IInv'
  BY <1>1, <1>2, <1>3, <1>4, <1>6, <1>7, <1>8, Returns, Zenon
<1>. QED  BY <1>2, <1>9

(***************************************************************************)
(* Steps of a context that is not loading.                                 *)
(***************************************************************************)
LEMMA StartOfLoad ==
  ASSUME IInv, phase = "idle", phase' # "idle", log' = log, ctx' \in Tables, Grows,
         start' = [types |-> Len(ctx.types), members |-> Len(ctx.members),
                   metas |-> Len(ctx.metas)]
  PROVE  StartOK' /\ LogOK'
<1>1. PICK m \in Nat, m2 \in Nat, n \in Nat, n2 \in Nat, k \in Nat, k2 \in Nat :
        /\ m = Len(ctx.members) /\ m2 = Len(ctx'.members) /\ m <= m2
        /\ n = Len(ctx.metas) /\ n2 = Len(ctx'.metas) /\ n <= n2
        /\ k = Len(ctx.defaults) /\ k2 = Len(ctx'.defaults) /\ k <= k2
  <2>1. Len(ctx.members) \in Nat /\ Len(ctx.metas) \in Nat
    BY OldIsNumber
  <2>2. Len(ctx'.members) \in Nat /\ Len(ctx'.metas) \in Nat /\ Len(ctx'.defaults) \in Nat
    BY TablesHave
  <2>3. Len(ctx.defaults) \in Nat
    BY TablesHave DEF IInv, TablesOK
  <2>. QED  BY <2>1, <2>2, <2>3 DEF Grows, Longer
<1>2. /\ OldMembers = m /\ OldMembers' = m /\ OldMetas = n /\ OldMetas' = n
      /\ start'.members = m /\ start'.metas = n
  BY <1>1 DEF OldMembers, OldMetas
<1>3. LogOK'
  <2>1. OldGrows
    BY <1>1, <1>2 DEF OldGrows
  <2>. QED  BY <2>1, LogGrows DEF Grows
<1>4. ASSUME NEW i \in 1..m
      PROVE  ctx'.members[i].default < k2
  <2>1. ctx'.members[i] = ctx.members[i]
    BY <1>2 DEF Grows
  <2>2. ctx.members \in Seq(MemberDescs)
    BY TablesHave DEF IInv, TablesOK
  <2>3. ctx.members[i].default < k
    BY <1>1, <2>2 DEF IInv, WithinOK, DefaultsWithin
  <2>4. ctx.members[i].default \in Int
    <3>1. ctx.members[i] \in MemberDescs
      BY <1>1, <2>2
    <3>. QED  BY <3>1 DEF MemberDescs
  <2>. QED  BY <1>1, <2>1, <2>3, <2>4
<1>5. StartOK'
  BY <1>1, <1>2, <1>4 DEF StartOK
<1>. QED  BY <1>3, <1>5

LEMMA LoadTextStep ==
  ASSUME IInv, NEW text \in Texts, LoadText(text)
  PROVE  IInv' /\ Grows
<1>1. /\ phase = "idle" /\ phase' = "text" /\ lib' = text /\ pos' = <<1, 0>>
      /\ start' = [types |-> Len(ctx.types), members |-> Len(ctx.members),
                   metas |-> Len(ctx.metas)]
      /\ ctx' = ctx /\ files' = files /\ log' = log
  BY DEF LoadText
<1>2. ctx' \in Tables /\ References(ctx') /\ Grows
  BY <1>1, QuietGrows
<1>3. TablesOK' /\ FilesOK'
  BY <1>1, <1>2 DEF IInv, TablesOK, FilesOK, Phases
<1>4. StartOK' /\ LogOK'
  BY <1>1, <1>2, StartOfLoad
<1>5. WithinOK'
  BY <1>1, QuietWithin
<1>6. ReadingOK'
  <2>1. text \in Seq(Decls)
    BY TextsAssumption DEF Decls
  <2>2. Len(text) \in Nat
    BY <2>1
  <2>. QED  BY <1>1, <2>1, <2>2 DEF ReadingOK
<1>7. BuildingOK' /\ LoadingOK'
  BY <1>1 DEF BuildingOK, LoadingOK
<1>. QED  BY <1>2, <1>3, <1>4, <1>5, <1>6, <1>7 DEF IInv

(* An empty context.                                                       *)
LEMMA EmptyKeeps ==
  ASSUME ctx = Empty, phase = "idle", log = <<>>, FilesOK
  PROVE  IInv
<1>1. ctx \in Tables /\ References(ctx)
  <2>1. /\ <<>> \in Seq(STRING) /\ <<>> \in Seq(TypeDescs) /\ <<>> \in Seq(MemberDescs)
        /\ <<>> \in Seq(EnumDescs) /\ <<>> \in Seq(ValueDescs) /\ <<>> \in Seq(AliasDescs)
        /\ <<>> \in Seq(Defaults) /\ <<>> \in Seq(Metas)
    OBVIOUS
  <2>2. ctx \in Tables
    BY <2>1 DEF Empty, Tables
  <2>. QED  BY <2>2 DEF Empty, References
<1>2. TablesOK /\ StartOK /\ ReadingOK /\ BuildingOK /\ LoadingOK
  BY <1>1 DEF TablesOK, Phases, StartOK, ReadingOK, BuildingOK, LoadingOK
<1>3. WithinOK
  BY DEF WithinOK, MetasWithin, DefaultsWithin, Empty
<1>4. LogOK
  BY DEF LogOK
<1>. QED  BY <1>2, <1>3, <1>4 DEF IInv

LEMMA NewContextStep ==
  ASSUME IInv, NewContext
  PROVE  IInv'
<1>1. ctx' = Empty /\ phase' = "idle" /\ log' = <<>> /\ FilesOK'
  BY DEF NewContext, IInv, FilesOK
<1>2. (ctx = Empty /\ phase = "idle" /\ log = <<>> /\ FilesOK => IInv)'
  BY EmptyKeeps, PTL
<1>. QED  BY <1>1, <1>2

(***************************************************************************)
(* Files.  The tables that are written differ from those of the context in *)
(* the sizes of the instances.                                             *)
(***************************************************************************)
LEMMA ImageHas ==
  ASSUME IInv, phase = "idle"
  PROVE  Image \in Files /\ FileOK(Image)
<1> DEFINE metas == Mapped(ctx.metas, LAMBDA m : [m EXCEPT !.data.packed = m.data.stored])
           t == [ctx EXCEPT !.metas = metas]
           offsets == [i \in DOMAIN ctx.metas |-> Offset(SizesPacked(ctx.metas), i)]
<1>1. ctx \in Tables /\ References(ctx) /\ ctx.metas \in Seq(Metas)
  BY TablesHave DEF IInv, TablesOK
<1>2. Len(ctx.metas) \in Nat /\ DOMAIN ctx.metas = 1..Len(ctx.metas)
      /\ \A i \in DOMAIN ctx.metas : ctx.metas[i] \in Metas
  BY <1>1
<1>3. metas \in Seq(Metas) /\ Len(metas) = Len(ctx.metas)
  <2>1. ASSUME NEW m \in Metas
        PROVE  [m EXCEPT !.data.packed = m.data.stored] \in Metas
    BY DEF Metas, Instances
  <2>2. metas \in [1..Len(ctx.metas) -> Metas]
    BY <1>2, <2>1 DEF Mapped
  <2>. QED  BY <1>2, <2>2, FunctionIsSequence
<1>4. offsets \in Seq(Nat)
  <2>1. SizesPacked(ctx.metas) \in Seq(Nat) /\ DOMAIN SizesPacked(ctx.metas) = DOMAIN ctx.metas
    <3>1. \A m \in Metas : m.data.packed \in Nat
      BY DEF Metas, Instances
    <3>2. SizesPacked(ctx.metas) \in [1..Len(ctx.metas) -> Nat]
      BY <1>2, <3>1 DEF SizesPacked, Mapped
    <3>. QED  BY <1>2, <3>2, FunctionIsSequence
  <2>2. \A i \in DOMAIN ctx.metas : Offset(SizesPacked(ctx.metas), i) \in Nat
    BY <2>1, OffsetIsNumber
  <2>3. offsets \in [1..Len(ctx.metas) -> Nat]
    BY <1>2, <2>2
  <2>. QED  BY <1>2, <2>3, FunctionIsSequence
<1>5. Declared \in Seq(Decls) /\ \A j \in DOMAIN Declared : Named(ctx, Declared[j])
  BY DeclaredIsLoaded DEF Kept
<1>6. Image = [tables |-> t, offsets |-> offsets, declared |-> Declared]
  BY DEF Image
<1>7. /\ t \in Tables /\ t.strings = ctx.strings /\ t.types = ctx.types
      /\ t.members = ctx.members /\ t.enums = ctx.enums /\ t.values = ctx.values
      /\ t.aliases = ctx.aliases /\ t.defaults = ctx.defaults /\ Len(t.metas) = Len(ctx.metas)
  <2> HIDE DEF metas
  <2>. QED  BY <1>1, <1>3 DEF Tables
<1> HIDE DEF t, offsets, metas
<1>8. Image \in Files
  BY <1>4, <1>5, <1>6, <1>7 DEF Files
<1>9. References(t)
  BY <1>1, <1>7, Zenon DEF References
<1>10. MetasWithin(t, Len(t.metas)) /\ DefaultsWithin(t, Len(t.defaults))
  <2>1. MetasWithin(ctx, Len(ctx.metas)) /\ DefaultsWithin(ctx, Len(ctx.defaults))
    BY DEF IInv, WithinOK
  <2>. QED  BY <1>7, <2>1, Zenon DEF MetasWithin, DefaultsWithin
<1>11. \A j \in DOMAIN Declared : Named(t, Declared[j])
  BY <1>5, <1>7, Zenon DEF Named
<1>12. Image.tables = t /\ Image.declared = Declared
  BY <1>6
<1>. QED  BY <1>8, <1>9, <1>10, <1>11, <1>12, Zenon DEF FileOK

LEMMA WriteLibraryStep ==
  ASSUME IInv, WriteLibrary
  PROVE  IInv' /\ Grows
<1>1. /\ phase = "idle" /\ phase' = phase /\ ctx' = ctx /\ lib' = lib /\ pos' = pos
      /\ local' = local /\ start' = start /\ log' = log /\ files' = Append(files, Image)
  BY DEF WriteLibrary
<1>2. ctx' \in Tables /\ References(ctx') /\ Grows
  BY <1>1, QuietGrows
<1>3. FilesOK'
  <2>1. files \in Seq(Files) /\ \A i \in DOMAIN files : FileOK(files[i])
    BY DEF IInv, FilesOK
  <2>2. PICK image \in Files : image = Image /\ FileOK(image)
    BY <1>1, ImageHas
  <2>3. files' = Append(files, image)
    BY <1>1, <2>2
  <2>4. files' \in Seq(Files)
        /\ \A i \in DOMAIN files' : (i \in DOMAIN files /\ files'[i] = files[i]) \/ files'[i] = image
    BY <2>1, <2>3, Appended
  <2>. QED  BY <2>1, <2>2, <2>4 DEF FilesOK
<1>4. WithinOK'
  BY <1>1, QuietWithin
<1>5. LogOK'
  <2>1. OldMembers' = OldMembers /\ OldMetas' = OldMetas
    BY <1>1 DEF OldMembers, OldMetas
  <2>2. OldGrows
    BY <2>1, OldIsNumber DEF OldGrows
  <2>. QED  BY <1>1, <1>2, <2>2, LogGrows DEF Grows
<1>6. TablesOK' /\ StartOK' /\ ReadingOK' /\ BuildingOK' /\ LoadingOK'
  BY <1>1, <1>2 DEF TablesOK, Phases, StartOK, ReadingOK, BuildingOK, LoadingOK
<1>. QED  BY <1>2, <1>3, <1>4, <1>5, <1>6 DEF IInv

(***************************************************************************)
(* Default values and metadata are packed.                                 *)
(***************************************************************************)
LEMMA MetaChanged ==
  ASSUME NEW s \in Seq(Metas), NEW k \in DOMAIN s
  PROVE  /\ [s EXCEPT ![k].ready = TRUE] \in Seq(Metas)
         /\ Len([s EXCEPT ![k].ready = TRUE]) = Len(s)
         /\ \A i \in DOMAIN s : [s EXCEPT ![k].ready = TRUE][i].data = s[i].data
<1> DEFINE m == [s[k] EXCEPT !.ready = TRUE]
           t == [i \in 1..Len(s) |-> IF i = k THEN m ELSE s[i]]
<1>1. Len(s) \in Nat /\ DOMAIN s = 1..Len(s) /\ \A i \in 1..Len(s) : s[i] \in Metas
  OBVIOUS
<1>2. m \in Metas /\ m.data = s[k].data
  BY <1>1 DEF Metas
<1>3. [s EXCEPT ![k].ready = TRUE] = t
  BY <1>1
<1> HIDE DEF m
<1>4. t \in [1..Len(s) -> Metas] /\ \A i \in 1..Len(s) : t[i].data = s[i].data
  BY <1>1, <1>2
<1> HIDE DEF t
<1>5. t \in Seq(Metas) /\ Len(t) = Len(s)
  BY <1>1, <1>4, FunctionIsSequence
<1>. QED  BY <1>1, <1>3, <1>4, <1>5

LEMMA DefaultChanged ==
  ASSUME NEW m \in MemberDescs, NEW n \in Int
  PROVE  /\ [m EXCEPT !.default = n] \in MemberDescs
         /\ [m EXCEPT !.default = n].name = m.name
         /\ [m EXCEPT !.default = n].default = n
BY DEF MemberDescs

LEMMA MemberChanged ==
  ASSUME NEW s \in Seq(MemberDescs), NEW k \in DOMAIN s, NEW n \in Nat
  PROVE  /\ [s EXCEPT ![k].default = n] \in Seq(MemberDescs)
         /\ Len([s EXCEPT ![k].default = n]) = Len(s)
         /\ \A i \in DOMAIN s :
              LET m == [s EXCEPT ![k].default = n][i]
              IN /\ m.name = s[i].name
                 /\ m.default = n \/ m = s[i]
                 /\ i # k => m = s[i]
<1> DEFINE c == [s[k] EXCEPT !.default = n]
           t == [i \in 1..Len(s) |-> IF i = k THEN c ELSE s[i]]
<1>1. Len(s) \in Nat /\ DOMAIN s = 1..Len(s) /\ \A i \in 1..Len(s) : s[i] \in MemberDescs
  OBVIOUS
<1>2. c \in MemberDescs /\ c.name = s[k].name /\ c.default = n
  <2>1. PICK x \in MemberDescs : x = s[k]
    BY <1>1
  <2>. QED  BY <2>1, DefaultChanged
<1>3. [s EXCEPT ![k].default = n] = t
  BY <1>1
<1> HIDE DEF c
<1>4. /\ t \in [1..Len(s) -> MemberDescs]
      /\ \A i \in 1..Len(s) : /\ t[i].name = s[i].name
                              /\ t[i].default = n \/ t[i] = s[i]
                              /\ i # k => t[i] = s[i]
  BY <1>1, <1>2
<1> HIDE DEF t
<1>5. t \in Seq(MemberDescs) /\ Len(t) = Len(s)
  BY <1>1, <1>4, FunctionIsSequence
<1>. QED  BY <1>1, <1>3, <1>4, <1>5

LEMMA CreateMetadataStep ==
  ASSUME IInv, CreateMetadata
  PROVE  IInv' /\ Grows
<1> DEFINE metas == [ctx.metas EXCEPT ![pos[1] + 1].ready = TRUE]
<1>1. /\ phase = "metadata" /\ phase' = phase /\ pos[1] < Len(ctx.metas)
      /\ pos' = <<pos[1] + 1, 0>> /\ ctx' = [ctx EXCEPT !.metas = metas]
      /\ lib' = lib /\ start' = start /\ files' = files /\ log' = log
  BY DEF CreateMetadata
<1>2. ctx \in Tables /\ References(ctx) /\ ctx.metas \in Seq(Metas) /\ pos[1] \in Nat
  BY <1>1, TablesHave DEF IInv, TablesOK, BuildingOK
<1>3. metas \in Seq(Metas) /\ Len(metas) = Len(ctx.metas)
      /\ \A i \in DOMAIN ctx.metas : metas[i].data = ctx.metas[i].data
  <2>1. pos[1] + 1 \in DOMAIN ctx.metas
    BY <1>1, <1>2
  <2>. QED  BY <1>2, <2>1, MetaChanged
<1> HIDE DEF metas
<1>4. /\ ctx' \in Tables /\ ctx'.metas = metas /\ ctx'.strings = ctx.strings
      /\ ctx'.types = ctx.types /\ ctx'.members = ctx.members /\ ctx'.enums = ctx.enums
      /\ ctx'.values = ctx.values /\ ctx'.aliases = ctx.aliases /\ ctx'.defaults = ctx.defaults
  BY <1>1, <1>2, <1>3 DEF Tables
<1>5. References(ctx')
  BY <1>2, <1>4, Zenon DEF References
<1>6. Grows
  <2>1. /\ Longer(ctx.strings, ctx.strings) /\ Longer(ctx.types, ctx.types)
        /\ Longer(ctx.enums, ctx.enums) /\ Longer(ctx.values, ctx.values)
        /\ Longer(ctx.aliases, ctx.aliases) /\ Longer(ctx.defaults, ctx.defaults)
    BY <1>2, TablesHave, LongerItself
  <2>2. /\ Len(ctx.members) <= Len(ctx.members) /\ Len(ctx.metas) <= Len(ctx.metas)
        /\ \A i \in 1..OldMetas : i \in DOMAIN ctx.metas
    BY <1>2, OldIsNumber
  <2>. QED  BY <1>3, <1>4, <2>1, <2>2 DEF Grows, NamesGrow
<1>7. TablesOK' /\ FilesOK' /\ StartOK' /\ LogOK'
  <2>1. OldGrows
    BY <1>1, OldStays
  <2>. QED
    BY <1>1, <1>4, <1>5, <1>6, <2>1, LogGrows, StartGrows DEF IInv, TablesOK, FilesOK, Grows
<1>8. BuildingOK'
  <2>1. lib \in Seq(Decls) /\ \A j \in DOMAIN lib : Named(ctx, lib[j])
    BY <1>1 DEF IInv, BuildingOK
  <2>2. \A j \in DOMAIN lib : Named(ctx', lib[j])
    BY <1>4, <2>1, Zenon DEF Named
  <2>3. pos'[1] \in Nat
    BY <1>1, <1>2
  <2>. QED  BY <1>1, <2>1, <2>2, <2>3 DEF BuildingOK
<1>9. WithinOK'
  <2>1. MetasWithin(ctx, Len(ctx.metas)) /\ DefaultsWithin(ctx, Len(ctx.defaults))
    BY <1>1 DEF IInv, WithinOK
  <2>2. MetasWithin(ctx', Len(ctx'.metas)) /\ DefaultsWithin(ctx', Len(ctx'.defaults))
    BY <1>3, <1>4, <2>1, Zenon DEF MetasWithin, DefaultsWithin
  <2>. QED  BY <2>2 DEF WithinOK
<1>10. ReadingOK' /\ LoadingOK'
  BY <1>1 DEF ReadingOK, LoadingOK
<1>. QED  BY <1>6, <1>7, <1>8, <1>9, <1>10 DEF IInv

(* What is packed as the only member of the temporary type is a member.    *)
LEMMA PackedIsMember ==
  ASSUME ctx \in Tables, References(ctx), NEW member \in MemberDescs
  PROVE  PackedAs(member) \in MemberDescs
<1>1. CASE FirstNamed(ctx.types, TempType) = None
  BY <1>1 DEF PackedAs
<1>2. CASE FirstNamed(ctx.types, TempType) # None
  <2>1. \E i \in DOMAIN ctx.types : String(ctx.types[i].name) = TempType
    <3> DEFINE I == {k \in 1..Len(ctx.types) : String(ctx.types[k].name) = TempType}
    <3>1. FirstNamed(ctx.types, TempType) = (IF I # {} THEN Min(I) ELSE 0) - 1
      BY DEF FirstNamed, SelectInSeq
    <3>2. I # {}
      <4> HIDE DEF I
      <4>. QED  BY <1>2, <3>1 DEF None
    <3>3. DOMAIN ctx.types = 1..Len(ctx.types)
      BY TablesHave
    <3>. QED  BY <3>2, <3>3, Zenon
  <2>2. PICK i \in DOMAIN ctx.types : TypeOf(TempType) = ctx.types[i]
    BY <2>1, TypeFound
  <2>3. PICK d \in TypeDescs : d = ctx.types[i]
    BY TablesHave
  <2>4. PICK members \in Seq(MemberDescs) : members = ctx.members
    BY TablesHave
  <2>5. d.first + d.parts <= Len(members)
    BY <2>3, <2>4 DEF References
  <2>6. d.first \in Nat /\ d.parts \in Nat \ {0}
    BY DEF TypeDescs
  <2>7. d.first + 1 \in DOMAIN members
    BY <2>5, <2>6
  <2>8. members[d.first + 1] \in MemberDescs
    BY <2>7
  <2>9. PackedAs(member) = members[d.first + 1]
    BY <1>2, <2>2, <2>3, <2>4 DEF PackedAs, TypeOf, Get
  <2>. QED  BY <2>8, <2>9
<1>. QED  BY <1>1, <1>2

LEMMA BuildDefaultStep ==
  ASSUME IInv, NEW i \in OwnMembers, BuildDefault(i)
  PROVE  IInv' /\ Grows
<1> DEFINE member == Get(ctx.members, i)
           packed == [of |-> PackedAs(member).of, value |-> member.default]
           members == [ctx.members EXCEPT ![i + 1].default = Len(ctx.defaults)]
<1>1. /\ phase = "defaults" /\ phase' = phase /\ pos' = <<i + 1, 0>>
      /\ lib' = lib /\ start' = start /\ files' = files /\ log' = log
      /\ ctx' = [ctx EXCEPT !.members = members, !.defaults = Append(ctx.defaults, packed)]
  BY DEF BuildDefault, NextDefault
<1>2. /\ ctx \in Tables /\ References(ctx) /\ ctx.members \in Seq(MemberDescs)
      /\ ctx.defaults \in Seq(Defaults) /\ Len(ctx.defaults) \in Nat
      /\ Len(ctx.members) \in Nat
  BY TablesHave DEF IInv, TablesOK
<1>3. /\ start.members \in Nat /\ i \in Nat /\ i + 1 \in DOMAIN ctx.members
      /\ start.members < i + 1
  <2>1. start.members \in Nat
    BY <1>1 DEF IInv, StartOK
  <2>2. i \in start.members..(Len(ctx.members) - 1)
    BY DEF OwnMembers
  <2>3. DOMAIN ctx.members = 1..Len(ctx.members)
    BY <1>2
  <2>. QED  BY <1>2, <2>1, <2>2, <2>3
<1>4. packed \in Defaults
  <2>1. member \in MemberDescs
    BY <1>2, <1>3 DEF Get
  <2>2. PackedAs(member) \in MemberDescs
    BY <1>2, <2>1, PackedIsMember
  <2>. QED  BY <2>1, <2>2 DEF MemberDescs, Defaults
<1> HIDE DEF packed
<1>5. /\ members \in Seq(MemberDescs) /\ Len(members) = Len(ctx.members)
      /\ \A j \in DOMAIN ctx.members :
           /\ members[j].name = ctx.members[j].name
           /\ members[j].default = Len(ctx.defaults) \/ members[j] = ctx.members[j]
           /\ j # i + 1 => members[j] = ctx.members[j]
  BY <1>2, <1>3, MemberChanged
<1> HIDE DEF members, member
<1>6. /\ Append(ctx.defaults, packed) \in Seq(Defaults)
      /\ Len(Append(ctx.defaults, packed)) = Len(ctx.defaults) + 1
      /\ Longer(ctx.defaults, Append(ctx.defaults, packed))
  BY <1>2, <1>4, Appended
<1>7. /\ ctx' \in Tables /\ ctx'.members = members /\ ctx'.strings = ctx.strings
      /\ ctx'.types = ctx.types /\ ctx'.metas = ctx.metas /\ ctx'.enums = ctx.enums
      /\ ctx'.values = ctx.values /\ ctx'.aliases = ctx.aliases
      /\ ctx'.defaults = Append(ctx.defaults, packed)
  BY <1>1, <1>2, <1>5, <1>6 DEF Tables
<1>8. References(ctx')
  <2>1. \A j \in DOMAIN members : members[j].name < Len(ctx.strings)
    BY <1>2, <1>5 DEF References
  <2>. QED  BY <1>2, <1>5, <1>7, <2>1, Zenon DEF References
<1>9. Grows
  <2>1. /\ Longer(ctx.strings, ctx.strings) /\ Longer(ctx.types, ctx.types)
        /\ Longer(ctx.enums, ctx.enums) /\ Longer(ctx.values, ctx.values)
        /\ Longer(ctx.aliases, ctx.aliases)
    BY <1>2, TablesHave, LongerItself
  <2>2. Len(ctx.members) <= Len(ctx.members) /\ Len(ctx.metas) <= Len(ctx.metas)
    BY OldIsNumber
  <2>3. OldMembers = start.members
    BY <1>1 DEF OldMembers
  <2>4. \A j \in 1..start.members : j \in DOMAIN ctx.members /\ j # i + 1
    BY <1>2, <1>3
  <2>5. \A j \in 1..OldMembers : ctx'.members[j] = ctx.members[j]
    BY <1>5, <1>7, <2>3, <2>4
  <2>. QED  BY <1>5, <1>6, <1>7, <2>1, <2>2, <2>5 DEF Grows, NamesGrow
<1>10. TablesOK' /\ FilesOK' /\ StartOK' /\ LogOK'
  <2>1. OldGrows
    BY <1>1, OldStays
  <2>. QED
    BY <1>1, <1>7, <1>8, <1>9, <2>1, LogGrows, StartGrows DEF IInv, TablesOK, FilesOK, Grows
<1>11. BuildingOK'
  <2>1. lib \in Seq(Decls) /\ \A j \in DOMAIN lib : Named(ctx, lib[j])
    BY <1>1 DEF IInv, BuildingOK
  <2>2. \A j \in DOMAIN lib : Named(ctx', lib[j])
    BY <1>7, <2>1, Zenon DEF Named
  <2>3. pos'[1] \in Nat
    BY <1>1, <1>3
  <2>. QED  BY <1>1, <2>1, <2>2, <2>3 DEF BuildingOK
<1>12. WithinOK'
  <2>1. MetasWithin(ctx, Len(ctx.metas)) /\ DefaultsWithin(ctx, Len(ctx.defaults))
    BY <1>1 DEF IInv, WithinOK
  <2>2. MetasWithin(ctx', Len(ctx'.metas))
    BY <1>7, <2>1, Zenon DEF MetasWithin
  <2>3. ASSUME NEW j \in DOMAIN members
        PROVE  members[j].default < Len(ctx.defaults) + 1
    <3>1. j \in DOMAIN ctx.members
      BY <1>2, <1>5
    <3>2. ctx.members[j].default < Len(ctx.defaults)
      BY <2>1, <3>1 DEF DefaultsWithin
    <3>3. ctx.members[j].default \in Int
      <4>1. ctx.members[j] \in MemberDescs
        BY <1>2, <3>1
      <4>. QED  BY <4>1 DEF MemberDescs
    <3>. QED  BY <1>2, <1>5, <3>1, <3>2, <3>3
  <2>4. DefaultsWithin(ctx', Len(ctx'.defaults))
    BY <1>6, <1>7, <2>3 DEF DefaultsWithin
  <2>. QED  BY <2>2, <2>4 DEF WithinOK
<1>13. ReadingOK' /\ LoadingOK'
  BY <1>1 DEF ReadingOK, LoadingOK
<1>. QED  BY <1>9, <1>10, <1>11, <1>12, <1>13 DEF IInv

(* The temporary type stays in the tables when the value does not pack.    *)
LEMMA DefaultFailsStep ==
  ASSUME IInv, NEW i \in OwnMembers, DefaultFails(i)
  PROVE  IInv' /\ Grows
<1> DEFINE member == Get(ctx.members, i)
           d == [name |-> Len(ctx.strings), comment |-> 0, first |-> Len(ctx.members),
                 parts |-> 1, meta |-> 0, count |-> 0]
           new == [strings |-> <<TempType>>, types |-> <<d>>, members |-> <<member>>,
                   enums |-> <<>>, values |-> <<>>, aliases |-> <<>>, defaults |-> <<>>,
                   metas |-> <<>>]
<1>1. /\ phase = "defaults" /\ Refused
      /\ ctx' = [ctx EXCEPT !.strings = Append(ctx.strings, TempType),
                            !.members = Append(ctx.members, member),
                            !.types = Append(ctx.types, d)]
  BY DEF DefaultFails, NextDefault, WithTemporary
<1>2. /\ ctx \in Tables /\ References(ctx) /\ ctx.strings \in Seq(STRING)
      /\ ctx.members \in Seq(MemberDescs) /\ ctx.types \in Seq(TypeDescs)
      /\ Len(ctx.strings) \in Nat /\ Len(ctx.members) \in Nat
  BY TablesHave DEF IInv, TablesOK
<1>3. i \in Nat /\ i + 1 \in DOMAIN ctx.members
  <2>1. start.members \in Nat
    BY <1>1 DEF IInv, StartOK
  <2>2. i \in start.members..(Len(ctx.members) - 1)
    BY DEF OwnMembers
  <2>3. DOMAIN ctx.members = 1..Len(ctx.members)
    BY <1>2
  <2>. QED  BY <1>2, <2>1, <2>2, <2>3
<1>4. /\ member \in MemberDescs /\ member.name < Len(ctx.strings)
      /\ member.default < Len(ctx.defaults)
  <2>1. DefaultsWithin(ctx, Len(ctx.defaults))
    BY <1>1 DEF IInv, WithinOK
  <2>2. member = ctx.members[i + 1]
    BY DEF Get
  <2> HIDE DEF member
  <2>. QED  BY <1>2, <1>3, <2>1, <2>2 DEF References, DefaultsWithin
<1>5. /\ d \in TypeDescs /\ d.name = Len(ctx.strings) /\ d.first + d.parts = Len(ctx.members) + 1
      /\ d.meta + d.count = 0
  BY <1>2 DEF TypeDescs, Comments
<1> HIDE DEF member, d
<1>6. new \in Tables
  <2>1. <<TempType>> \in Seq(STRING)
    BY TempTypeAssumption, OneElement
  <2>. QED  BY <1>4, <1>5, <2>1 DEF Tables
<1>7. ctx' = Joined(ctx, new)
  <2>1. /\ Append(ctx.strings, TempType) = ctx.strings \o <<TempType>>
        /\ Append(ctx.members, member) = ctx.members \o <<member>>
        /\ Append(ctx.types, d) = ctx.types \o <<d>>
    BY <1>2, <1>4, <1>5, TempTypeAssumption, EmptyJoined
  <2>2. ctx' = [ctx EXCEPT !.strings = ctx.strings \o <<TempType>>,
                           !.members = ctx.members \o <<member>>,
                           !.types = ctx.types \o <<d>>]
    BY <1>1, <2>1, Zenon
  <2>. QED  BY <1>2, <2>2, NothingAdded DEF Joined, Tables
<1>8. /\ DOMAIN new.types = {1} /\ new.types[1] = d /\ DOMAIN new.members = {1}
      /\ new.members[1] = member /\ DOMAIN new.enums = {} /\ DOMAIN new.values = {}
      /\ DOMAIN new.aliases = {} /\ new.strings = <<TempType>> /\ new.members = <<member>>
      /\ new.defaults = <<>> /\ new.metas = <<>>
  OBVIOUS
<1> HIDE DEF new
<1>9. /\ Len(ctx'.strings) = Len(ctx.strings) + 1 /\ Len(ctx'.members) = Len(ctx.members) + 1
      /\ ctx'.metas = ctx.metas /\ ctx'.defaults = ctx.defaults
  <2>1. /\ Len(ctx'.strings) = Len(ctx.strings) + Len(new.strings)
        /\ Len(ctx'.members) = Len(ctx.members) + Len(new.members)
    BY <1>2, <1>6, <1>7, JoinedTables
  <2>2. Len(<<TempType>>) = 1 /\ Len(<<member>>) = 1
    OBVIOUS
  <2>3. ctx'.metas = ctx.metas /\ ctx'.defaults = ctx.defaults
    BY <1>1, <1>2 DEF Tables
  <2>. QED  BY <1>8, <2>1, <2>2, <2>3
<1>10. ctx' \in Tables /\ Grows
  BY <1>6, <1>7, AddedGrows
<1>11. References(ctx')
  <2>1. TypeRefers(d, ctx')
    BY <1>2, <1>5, <1>9 DEF TypeRefers
  <2>2. member.name < Len(ctx'.strings)
    <3>1. PICK k \in Nat, n \in Nat : k = member.name /\ n = Len(ctx.strings)
      BY <1>2, <1>4 DEF MemberDescs
    <3>. QED  BY <1>4, <1>9, <3>1
  <2>. QED  BY <1>6, <1>7, <1>8, <2>1, <2>2, AddedRefers
<1>12. MetasWithin(ctx', Len(ctx'.metas))
  <2>1. PICK n \in Nat : n = Len(ctx.metas)
    BY OldIsNumber
  <2>2. MetasWithin(ctx, n)
    BY <1>1, <2>1 DEF IInv, WithinOK
  <2>3. \A j \in DOMAIN new.types : new.types[j].meta + new.types[j].count <= n
    BY <1>5, <1>8
  <2>4. MetasWithin(ctx', n)
    BY <1>6, <1>7, <1>8, <2>2, <2>3, AddedMetas
  <2>. QED  BY <1>9, <2>1, <2>4
<1>13. DefaultsWithin(ctx', Len(ctx'.defaults))
  <2>1. PICK n \in Int : n = Len(ctx.defaults)
    BY <1>2, TablesHave
  <2>2. DefaultsWithin(ctx, n)
    BY <1>1, <2>1 DEF IInv, WithinOK
  <2>3. \A j \in DOMAIN new.members : new.members[j].default < n
    BY <1>4, <1>8, <2>1
  <2>4. DefaultsWithin(ctx', n)
    BY <1>6, <1>7, <2>2, <2>3, AddedDefaults
  <2>. QED  BY <1>9, <2>1, <2>4
<1>14. IInv'
  BY <1>1, <1>10, <1>11, <1>12, <1>13, RefusedKeeps
<1>. QED  BY <1>10, <1>14

(***************************************************************************)
(* A file is loaded.                                                       *)
(***************************************************************************)
LEMMA LoadMetadataStep ==
  ASSUME IInv, LoadMetadata
  PROVE  IInv' /\ Grows
<1> DEFINE meta == lib.tables.metas[pos[1]]
           new == [strings |-> <<>>, types |-> <<>>, members |-> <<>>, enums |-> <<>>,
                   values |-> <<>>, aliases |-> <<>>, defaults |-> <<>>, metas |-> <<meta>>]
<1>1. /\ phase = "binary" /\ phase' = phase /\ pos[1] <= Len(lib.tables.metas)
      /\ pos' = <<pos[1] + 1, 0>> /\ lib' = lib /\ start' = start /\ files' = files /\ log' = log
      /\ ctx' = [ctx EXCEPT !.metas = Append(ctx.metas, meta)]
  BY DEF LoadMetadata
<1>2. ctx \in Tables /\ References(ctx) /\ ctx.metas \in Seq(Metas)
  BY TablesHave DEF IInv, TablesOK
<1>3. /\ lib \in Files /\ FileOK(lib) /\ pos[1] \in 1..(Len(lib.tables.metas) + 1)
      /\ Len(ctx.metas) + 1 = start.metas + pos[1]
      /\ \A j \in DOMAIN lib.declared : Named(ctx, lib.declared[j])
      /\ MetasWithin(ctx, start.metas + Len(lib.tables.metas))
      /\ DefaultsWithin(ctx, Len(ctx.defaults) + Len(lib.tables.defaults))
  BY <1>1 DEF IInv, LoadingOK
<1>4. PICK metas \in Seq(Metas), k \in Nat, n \in Nat :
        metas = lib.tables.metas /\ k = pos[1] /\ n = Len(metas) /\ k \in 1..n
  <2>1. lib.tables.metas \in Seq(Metas)
    BY <1>3, TablesHave DEF Files
  <2>2. Len(lib.tables.metas) \in Nat
    BY <2>1
  <2>. QED  BY <1>1, <1>3, <2>1, <2>2
<1>5. meta \in Metas
  <2>1. metas[k] \in Metas
    BY <1>4
  <2>. QED  BY <1>4, <2>1
<1> HIDE DEF meta
<1>6. new \in Tables
  BY <1>5 DEF Tables
<1>7. ctx' = Joined(ctx, new)
  <2>1. Append(ctx.metas, meta) = ctx.metas \o <<meta>>
    BY <1>2, <1>5, EmptyJoined
  <2>2. ctx' = [ctx EXCEPT !.metas = ctx.metas \o <<meta>>]
    BY <1>1, <2>1, Zenon
  <2>. QED  BY <1>2, <2>2, NothingAdded DEF Joined, Tables
<1>8. ctx' \in Tables /\ Grows
  BY <1>6, <1>7, AddedGrows
<1>9. /\ ctx'.strings = ctx.strings /\ ctx'.types = ctx.types /\ ctx'.members = ctx.members
      /\ ctx'.enums = ctx.enums /\ ctx'.values = ctx.values /\ ctx'.aliases = ctx.aliases
      /\ ctx'.defaults = ctx.defaults /\ ctx'.metas = Append(ctx.metas, meta)
  BY <1>1, <1>2 DEF Tables
<1>10. References(ctx')
  BY <1>2, <1>9, Zenon DEF References
<1>11. TablesOK' /\ FilesOK' /\ StartOK' /\ LogOK'
  <2>1. OldGrows
    BY <1>1, OldStays
  <2>. QED
    BY <1>1, <1>8, <1>10, <2>1, LogGrows, StartGrows DEF IInv, TablesOK, FilesOK, Grows
<1>12. LoadingOK'
  <2>1. \A j \in DOMAIN lib.declared : Named(ctx', lib.declared[j])
    BY <1>3, <1>9, Zenon DEF Named
  <2>2. MetasWithin(ctx', start.metas + Len(lib.tables.metas))
    BY <1>3, <1>9, Zenon DEF MetasWithin
  <2>3. DefaultsWithin(ctx', Len(ctx'.defaults) + Len(lib.tables.defaults))
    BY <1>3, <1>9, Zenon DEF DefaultsWithin
  <2>4. pos'[1] = k + 1 /\ k + 1 \in 1..(n + 1)
    BY <1>1, <1>4
  <2>5. Len(ctx'.metas) + 1 = start.metas + (k + 1)
    <3>1. PICK a \in Nat, b \in Nat : a = Len(ctx.metas) /\ b = start.metas
      BY <1>1, OldIsNumber DEF IInv, StartOK
    <3>2. Len(ctx'.metas) = a + 1
      BY <1>2, <1>5, <1>9, <3>1, Appended
    <3>3. a + 1 = b + k
      BY <1>3, <1>4, <3>1
    <3>4. (a + 1) + 1 = b + (k + 1)
      BY <3>3
    <3>. QED  BY <3>1, <3>2, <3>4
  <2>. QED  BY <1>1, <1>3, <1>4, <2>1, <2>2, <2>3, <2>4, <2>5 DEF LoadingOK
<1>13. ReadingOK' /\ BuildingOK' /\ WithinOK'
  BY <1>1 DEF ReadingOK, BuildingOK, WithinOK
<1>. QED  BY <1>8, <1>11, <1>12, <1>13 DEF IInv

LEMMA LoadBinaryDoneStep ==
  ASSUME IInv, LoadBinaryDone
  PROVE  IInv' /\ Grows
<1> DEFINE new == [strings |-> <<>>, types |-> <<>>, members |-> <<>>, enums |-> <<>>,
                   values |-> <<>>, aliases |-> <<>>, defaults |-> lib.tables.defaults,
                   metas |-> <<>>]
<1>1. /\ phase = "binary" /\ pos[1] > Len(lib.tables.metas)
      /\ ctx' = [ctx EXCEPT !.defaults = ctx.defaults \o lib.tables.defaults]
      /\ Return(TRUE, "file", lib.declared)
  BY DEF LoadBinaryDone
<1>2. ctx \in Tables /\ References(ctx)
  BY DEF IInv, TablesOK
<1>3. /\ lib \in Files /\ FileOK(lib) /\ pos[1] \in 1..(Len(lib.tables.metas) + 1)
      /\ Len(ctx.metas) + 1 = start.metas + pos[1]
      /\ \A j \in DOMAIN lib.declared : Named(ctx, lib.declared[j])
      /\ MetasWithin(ctx, start.metas + Len(lib.tables.metas))
      /\ DefaultsWithin(ctx, Len(ctx.defaults) + Len(lib.tables.defaults))
  BY <1>1 DEF IInv, LoadingOK
<1>4. /\ lib.declared \in Seq(Decls) /\ lib.tables.defaults \in Seq(Defaults)
      /\ Len(lib.tables.metas) \in Nat
  BY <1>3, TablesHave DEF Files
<1>5. PICK n \in Nat : n = Len(ctx.metas) /\ n = start.metas + Len(lib.tables.metas)
  <2>1. PICK n \in Nat, a \in Nat, k \in Nat : n = Len(ctx.metas) /\ a = start.metas /\ k = Len(lib.tables.metas)
    BY <1>1, <1>4, OldIsNumber DEF IInv, StartOK
  <2>2. pos[1] = k + 1 /\ n + 1 = a + pos[1]
    BY <1>1, <1>3, <2>1
  <2>3. n = a + k
    BY <2>2
  <2>. QED  BY <2>1, <2>3
<1>6. new \in Tables
  BY <1>4 DEF Tables
<1>7. ctx' = Joined(ctx, new)
  BY <1>1, <1>2, NothingAdded DEF Joined, Tables
<1>8. ctx' \in Tables /\ Grows
  BY <1>6, <1>7, AddedGrows
<1>9. /\ ctx'.strings = ctx.strings /\ ctx'.types = ctx.types /\ ctx'.members = ctx.members
      /\ ctx'.enums = ctx.enums /\ ctx'.values = ctx.values /\ ctx'.aliases = ctx.aliases
      /\ ctx'.metas = ctx.metas
  BY <1>1, <1>2 DEF Tables
<1>10. Len(ctx'.defaults) = Len(ctx.defaults) + Len(lib.tables.defaults)
  BY <1>2, <1>6, <1>7, JoinedTables
<1>11. References(ctx')
  BY <1>2, <1>9, Zenon DEF References
<1>12. MetasWithin(ctx', Len(ctx'.metas)) /\ DefaultsWithin(ctx', Len(ctx'.defaults))
  BY <1>3, <1>5, <1>9, <1>10, Zenon DEF MetasWithin, DefaultsWithin
<1>13. \A j \in DOMAIN lib.declared : Kept(lib.declared[j], Len(ctx.members), n)
  <2>1. MetasWithin(ctx, n)
    BY <1>3, <1>5
  <2>. QED  BY <1>3, <2>1, KeptInAll
<1>14. n <= Len(ctx'.metas)
  <2>1. Len(ctx'.metas) = n
    BY <1>5, <1>9, Zenon
  <2>. QED  BY <2>1
<1>15. TRUE \in BOOLEAN /\ "file" \in {"text", "file"} /\ phase # "idle"
  BY <1>1
<1>16. IInv'
  BY <1>1, <1>4, <1>8, <1>11, <1>12, <1>13, <1>14, <1>15, Returns, Zenon
<1>. QED  BY <1>8, <1>16

(***************************************************************************)
(* Descriptions of a file are moved by the lengths of the tables.          *)
(***************************************************************************)
LEMMA MappedHas ==
  ASSUME NEW S, NEW T, NEW s \in Seq(S), NEW t, t = [i \in DOMAIN s |-> t[i]],
         \A i \in DOMAIN s : t[i] \in T
  PROVE  t \in Seq(T) /\ Len(t) = Len(s) /\ DOMAIN t = DOMAIN s
<1>1. Len(s) \in Nat /\ DOMAIN s = 1..Len(s)
  OBVIOUS
<1>2. t \in [1..Len(s) -> T]
  BY <1>1
<1>. QED  BY <1>1, <1>2, FunctionIsSequence

LEMMA MovedHas ==
  ASSUME ctx \in Tables
  PROVE  /\ \A index \in Nat : MovedMeta(index) \in Nat /\ MovedMeta(index) <= index + Len(ctx.metas)
         /\ \A index \in Comments : Moved(index, Len(ctx.strings)) \in Comments
         /\ \A index \in Int : /\ Moved(index, Len(ctx.defaults)) \in Int
                               /\ Moved(index, Len(ctx.defaults)) <= index + Len(ctx.defaults)
<1>1. Len(ctx.metas) \in Nat /\ Len(ctx.strings) \in Nat /\ Len(ctx.defaults) \in Nat
  BY TablesHave
<1>2. ASSUME NEW n \in Nat
      PROVE  /\ \A index \in Comments : Moved(index, n) \in Comments
             /\ \A index \in Int : Moved(index, n) \in Int /\ Moved(index, n) <= index + n
  BY DEF Moved, Comments, None
<1>3. \A index \in Nat : MovedMeta(index) \in Nat /\ MovedMeta(index) <= index + Len(ctx.metas)
  BY <1>1 DEF MovedMeta
<1>. QED  BY <1>1, <1>2, <1>3

LEMMA MovedTypeHas ==
  ASSUME ctx \in Tables, NEW d \in TypeDescs
  PROVE  /\ MovedType(d) \in TypeDescs
         /\ MovedType(d).name = d.name + Len(ctx.strings)
         /\ MovedType(d).first = d.first + Len(ctx.members)
         /\ MovedType(d).parts = d.parts
         /\ MovedType(d).meta = MovedMeta(d.meta) /\ MovedType(d).count = d.count
<1>0. DOMAIN d = {"name", "comment", "first", "parts", "meta", "count"}
  BY DEF TypeDescs
<1>1. /\ d.name \in Nat /\ d.comment \in Comments /\ d.first \in Nat /\ d.parts \in Nat \ {0}
      /\ d.meta \in Nat /\ d.count \in Nat
  BY DEF TypeDescs
<1>2. /\ MovedType(d).name = d.name + Len(ctx.strings)
      /\ MovedType(d).comment = Moved(d.comment, Len(ctx.strings))
      /\ MovedType(d).first = d.first + Len(ctx.members) /\ MovedType(d).parts = d.parts
      /\ MovedType(d).meta = MovedMeta(d.meta) /\ MovedType(d).count = d.count
  BY <1>0 DEF MovedType
<1>3. Len(ctx.strings) \in Nat /\ Len(ctx.members) \in Nat
  BY TablesHave
<1>4. d.name + Len(ctx.strings) \in Nat /\ d.first + Len(ctx.members) \in Nat
  BY <1>1, <1>3
<1>5. MovedMeta(d.meta) \in Nat /\ Moved(d.comment, Len(ctx.strings)) \in Comments
  BY <1>1, MovedHas
<1>6. MovedType(d) \in TypeDescs
  <2>1. MovedType(d) = [x \in {"name", "comment", "first", "parts", "meta", "count"} |-> MovedType(d)[x]]
    BY <1>0 DEF MovedType
  <2>. QED  BY <1>1, <1>2, <1>4, <1>5, <2>1 DEF TypeDescs
<1>. QED  BY <1>2, <1>6

LEMMA MovedMemberHas ==
  ASSUME ctx \in Tables, NEW d \in MemberDescs
  PROVE  /\ MovedMember(d) \in MemberDescs
         /\ MovedMember(d).name = d.name + Len(ctx.strings)
         /\ MovedMember(d).default = Moved(d.default, Len(ctx.defaults))
<1>0. DOMAIN d = {"name", "comment", "of", "default", "meta", "count"}
  BY DEF MemberDescs
<1>1. /\ d.name \in Nat /\ d.comment \in Comments /\ d.of \in STRING /\ d.default \in Int
      /\ d.meta \in Nat /\ d.count \in Nat
  BY DEF MemberDescs
<1>2. /\ MovedMember(d).name = d.name + Len(ctx.strings) /\ MovedMember(d).comment = d.comment
      /\ MovedMember(d).of = d.of
      /\ MovedMember(d).default = Moved(d.default, Len(ctx.defaults))
      /\ MovedMember(d).meta = MovedMeta(d.meta) /\ MovedMember(d).count = d.count
  BY <1>0 DEF MovedMember
<1>3. d.name + Len(ctx.strings) \in Nat
  BY <1>1, TablesHave
<1>4. MovedMeta(d.meta) \in Nat /\ Moved(d.default, Len(ctx.defaults)) \in Int
  BY <1>1, MovedHas
<1>5. MovedMember(d) \in MemberDescs
  <2>1. MovedMember(d) = [x \in {"name", "comment", "of", "default", "meta", "count"} |-> MovedMember(d)[x]]
    BY <1>0 DEF MovedMember
  <2>. QED  BY <1>1, <1>2, <1>3, <1>4, <2>1 DEF MemberDescs
<1>. QED  BY <1>2, <1>5

LEMMA MovedEnumHas ==
  ASSUME ctx \in Tables, NEW d \in EnumDescs
  PROVE  /\ MovedEnum(d) \in EnumDescs
         /\ MovedEnum(d).name = d.name + Len(ctx.strings)
         /\ MovedEnum(d).first = d.first + Len(ctx.values) /\ MovedEnum(d).parts = d.parts
         /\ MovedEnum(d).alias = d.alias + Len(ctx.aliases) /\ MovedEnum(d).aliases = d.aliases
         /\ MovedEnum(d).meta = MovedMeta(d.meta) /\ MovedEnum(d).count = d.count
<1>0. DOMAIN d = {"name", "comment", "first", "parts", "alias", "aliases", "meta", "count"}
  BY DEF EnumDescs
<1>1. /\ d.name \in Nat /\ d.comment \in Comments /\ d.first \in Nat /\ d.parts \in Nat
      /\ d.alias \in Nat /\ d.aliases \in Nat /\ d.meta \in Nat /\ d.count \in Nat
  BY DEF EnumDescs
<1>2. /\ MovedEnum(d).name = d.name + Len(ctx.strings)
      /\ MovedEnum(d).comment = Moved(d.comment, Len(ctx.strings))
      /\ MovedEnum(d).first = d.first + Len(ctx.values) /\ MovedEnum(d).parts = d.parts
      /\ MovedEnum(d).alias = d.alias + Len(ctx.aliases) /\ MovedEnum(d).aliases = d.aliases
      /\ MovedEnum(d).meta = MovedMeta(d.meta) /\ MovedEnum(d).count = d.count
  BY <1>0 DEF MovedEnum
<1>3. Len(ctx.strings) \in Nat /\ Len(ctx.values) \in Nat /\ Len(ctx.aliases) \in Nat
  BY TablesHave
<1>4. /\ d.name + Len(ctx.strings) \in Nat /\ d.first + Len(ctx.values) \in Nat
      /\ d.alias + Len(ctx.aliases) \in Nat
  <2>1. \A m, n \in Nat : m + n \in Nat
    OBVIOUS
  <2>. QED  BY <1>1, <1>3, <2>1, Zenon
<1>5. MovedMeta(d.meta) \in Nat /\ Moved(d.comment, Len(ctx.strings)) \in Comments
  BY <1>1, MovedHas
<1>6. MovedEnum(d) \in EnumDescs
  <2>1. MovedEnum(d) = [x \in {"name", "comment", "first", "parts", "alias", "aliases", "meta", "count"} |-> MovedEnum(d)[x]]
    BY <1>0 DEF MovedEnum
  <2>. QED  BY <1>1, <1>2, <1>4, <1>5, <2>1 DEF EnumDescs
<1>. QED  BY <1>2, <1>6

LEMMA MovedValueHas ==
  ASSUME ctx \in Tables, NEW d \in ValueDescs
  PROVE  MovedValue(d) \in ValueDescs /\ MovedValue(d).alias = d.alias + Len(ctx.aliases)
<1>0. DOMAIN d = {"value", "alias", "comment", "meta", "count"}
  BY DEF ValueDescs
<1>1. /\ d.value \in Int /\ d.alias \in Nat /\ d.comment \in Comments
      /\ d.meta \in Nat /\ d.count \in Nat
  BY DEF ValueDescs
<1>2. /\ MovedValue(d).value = d.value /\ MovedValue(d).alias = d.alias + Len(ctx.aliases)
      /\ MovedValue(d).comment = d.comment /\ MovedValue(d).meta = MovedMeta(d.meta)
      /\ MovedValue(d).count = d.count
  BY <1>0 DEF MovedValue
<1>3. d.alias + Len(ctx.aliases) \in Nat
  BY <1>1, TablesHave
<1>4. MovedMeta(d.meta) \in Nat
  BY <1>1, MovedHas
<1>5. MovedValue(d) \in ValueDescs
  <2>1. MovedValue(d) = [x \in {"value", "alias", "comment", "meta", "count"} |-> MovedValue(d)[x]]
    BY <1>0 DEF MovedValue
  <2>. QED  BY <1>1, <1>2, <1>3, <1>4, <2>1 DEF ValueDescs
<1>. QED  BY <1>2, <1>5

LEMMA MovedAliasHas ==
  ASSUME ctx \in Tables, NEW d \in AliasDescs
  PROVE  /\ MovedAlias(d) \in AliasDescs
         /\ MovedAlias(d).name = d.name + Len(ctx.strings)
         /\ MovedAlias(d).value = d.value + Len(ctx.values)
<1>0. DOMAIN d = {"name", "value"}
  BY DEF AliasDescs
<1>1. d.name \in Nat /\ d.value \in Nat
  BY DEF AliasDescs
<1>2. /\ MovedAlias(d).name = d.name + Len(ctx.strings)
      /\ MovedAlias(d).value = d.value + Len(ctx.values)
  BY <1>0 DEF MovedAlias
<1>3. d.name + Len(ctx.strings) \in Nat /\ d.value + Len(ctx.values) \in Nat
  BY <1>1, TablesHave
<1>4. MovedAlias(d) \in AliasDescs
  <2>1. MovedAlias(d) = [x \in {"name", "value"} |-> MovedAlias(d)[x]]
    BY <1>0 DEF MovedAlias
  <2>. QED  BY <1>2, <1>3, <2>1 DEF AliasDescs
<1>. QED  BY <1>2, <1>4

MovedTables(t) ==
  [strings |-> t.strings, types |-> Mapped(t.types, MovedType),
   members |-> Mapped(t.members, MovedMember), enums |-> Mapped(t.enums, MovedEnum),
   values |-> Mapped(t.values, MovedValue), aliases |-> Mapped(t.aliases, MovedAlias),
   defaults |-> <<>>, metas |-> <<>>]

LEMMA MovedTablesHave ==
  ASSUME ctx \in Tables, NEW t \in Tables
  PROVE  /\ MovedTables(t) \in Tables
         /\ MovedTables(t).strings = t.strings
         /\ MovedTables(t).defaults = <<>> /\ MovedTables(t).metas = <<>>
         /\ Len(MovedTables(t).types) = Len(t.types) /\ DOMAIN MovedTables(t).types = DOMAIN t.types
         /\ Len(MovedTables(t).members) = Len(t.members) /\ DOMAIN MovedTables(t).members = DOMAIN t.members
         /\ Len(MovedTables(t).enums) = Len(t.enums) /\ DOMAIN MovedTables(t).enums = DOMAIN t.enums
         /\ Len(MovedTables(t).values) = Len(t.values) /\ DOMAIN MovedTables(t).values = DOMAIN t.values
         /\ Len(MovedTables(t).aliases) = Len(t.aliases) /\ DOMAIN MovedTables(t).aliases = DOMAIN t.aliases
         /\ \A i \in DOMAIN t.types : MovedTables(t).types[i] = MovedType(t.types[i])
         /\ \A i \in DOMAIN t.members : MovedTables(t).members[i] = MovedMember(t.members[i])
         /\ \A i \in DOMAIN t.enums : MovedTables(t).enums[i] = MovedEnum(t.enums[i])
         /\ \A i \in DOMAIN t.values : MovedTables(t).values[i] = MovedValue(t.values[i])
         /\ \A i \in DOMAIN t.aliases : MovedTables(t).aliases[i] = MovedAlias(t.aliases[i])
<1>1. /\ Mapped(t.types, MovedType) \in Seq(TypeDescs)
      /\ Len(Mapped(t.types, MovedType)) = Len(t.types) /\ DOMAIN Mapped(t.types, MovedType) = DOMAIN t.types
      /\ \A i \in DOMAIN t.types : Mapped(t.types, MovedType)[i] = MovedType(t.types[i])
  <2>1. PICK s \in Seq(TypeDescs) : s = t.types
    BY TablesHave
  <2> DEFINE moved == [i \in DOMAIN s |-> MovedType(s[i])]
  <2>2. ASSUME NEW i \in DOMAIN s
        PROVE  moved[i] \in TypeDescs
    <3>1. s[i] \in TypeDescs
      OBVIOUS
    <3>. QED  BY <3>1, MovedTypeHas
  <2>3. moved = [i \in DOMAIN s |-> moved[i]] /\ \A i \in DOMAIN s : moved[i] = MovedType(s[i])
    OBVIOUS
  <2>4. Mapped(t.types, MovedType) = moved
    BY <2>1 DEF Mapped
  <2> HIDE DEF moved
  <2>5. moved \in Seq(TypeDescs) /\ Len(moved) = Len(s) /\ DOMAIN moved = DOMAIN s
    BY <2>2, <2>3, MappedHas
  <2>. QED  BY <2>1, <2>3, <2>4, <2>5
<1>2. /\ Mapped(t.members, MovedMember) \in Seq(MemberDescs)
      /\ Len(Mapped(t.members, MovedMember)) = Len(t.members) /\ DOMAIN Mapped(t.members, MovedMember) = DOMAIN t.members
      /\ \A i \in DOMAIN t.members : Mapped(t.members, MovedMember)[i] = MovedMember(t.members[i])
  <2>1. PICK s \in Seq(MemberDescs) : s = t.members
    BY TablesHave
  <2> DEFINE moved == [i \in DOMAIN s |-> MovedMember(s[i])]
  <2>2. ASSUME NEW i \in DOMAIN s
        PROVE  moved[i] \in MemberDescs
    <3>1. s[i] \in MemberDescs
      OBVIOUS
    <3>. QED  BY <3>1, MovedMemberHas
  <2>3. moved = [i \in DOMAIN s |-> moved[i]] /\ \A i \in DOMAIN s : moved[i] = MovedMember(s[i])
    OBVIOUS
  <2>4. Mapped(t.members, MovedMember) = moved
    BY <2>1 DEF Mapped
  <2> HIDE DEF moved
  <2>5. moved \in Seq(MemberDescs) /\ Len(moved) = Len(s) /\ DOMAIN moved = DOMAIN s
    BY <2>2, <2>3, MappedHas
  <2>. QED  BY <2>1, <2>3, <2>4, <2>5
<1>3. /\ Mapped(t.enums, MovedEnum) \in Seq(EnumDescs)
      /\ Len(Mapped(t.enums, MovedEnum)) = Len(t.enums) /\ DOMAIN Mapped(t.enums, MovedEnum) = DOMAIN t.enums
      /\ \A i \in DOMAIN t.enums : Mapped(t.enums, MovedEnum)[i] = MovedEnum(t.enums[i])
  <2>1. PICK s \in Seq(EnumDescs) : s = t.enums
    BY TablesHave
  <2> DEFINE moved == [i \in DOMAIN s |-> MovedEnum(s[i])]
  <2>2. ASSUME NEW i \in DOMAIN s
        PROVE  moved[i] \in EnumDescs
    <3>1. s[i] \in EnumDescs
      OBVIOUS
    <3>. QED  BY <3>1, MovedEnumHas
  <2>3. moved = [i \in DOMAIN s |-> moved[i]] /\ \A i \in DOMAIN s : moved[i] = MovedEnum(s[i])
    OBVIOUS
  <2>4. Mapped(t.enums, MovedEnum) = moved
    BY <2>1 DEF Mapped
  <2> HIDE DEF moved
  <2>5. moved \in Seq(EnumDescs) /\ Len(moved) = Len(s) /\ DOMAIN moved = DOMAIN s
    BY <2>2, <2>3, MappedHas
  <2>. QED  BY <2>1, <2>3, <2>4, <2>5
<1>4. /\ Mapped(t.values, MovedValue) \in Seq(ValueDescs)
      /\ Len(Mapped(t.values, MovedValue)) = Len(t.values) /\ DOMAIN Mapped(t.values, MovedValue) = DOMAIN t.values
      /\ \A i \in DOMAIN t.values : Mapped(t.values, MovedValue)[i] = MovedValue(t.values[i])
  <2>1. PICK s \in Seq(ValueDescs) : s = t.values
    BY TablesHave
  <2> DEFINE moved == [i \in DOMAIN s |-> MovedValue(s[i])]
  <2>2. ASSUME NEW i \in DOMAIN s
        PROVE  moved[i] \in ValueDescs
    <3>1. s[i] \in ValueDescs
      OBVIOUS
    <3>. QED  BY <3>1, MovedValueHas
  <2>3. moved = [i \in DOMAIN s |-> moved[i]] /\ \A i \in DOMAIN s : moved[i] = MovedValue(s[i])
    OBVIOUS
  <2>4. Mapped(t.values, MovedValue) = moved
    BY <2>1 DEF Mapped
  <2> HIDE DEF moved
  <2>5. moved \in Seq(ValueDescs) /\ Len(moved) = Len(s) /\ DOMAIN moved = DOMAIN s
    BY <2>2, <2>3, MappedHas
  <2>. QED  BY <2>1, <2>3, <2>4, <2>5
<1>5. /\ Mapped(t.aliases, MovedAlias) \in Seq(AliasDescs)
      /\ Len(Mapped(t.aliases, MovedAlias)) = Len(t.aliases) /\ DOMAIN Mapped(t.aliases, MovedAlias) = DOMAIN t.aliases
      /\ \A i \in DOMAIN t.aliases : Mapped(t.aliases, MovedAlias)[i] = MovedAlias(t.aliases[i])
  <2>1. PICK s \in Seq(AliasDescs) : s = t.aliases
    BY TablesHave
  <2> DEFINE moved == [i \in DOMAIN s |-> MovedAlias(s[i])]
  <2>2. ASSUME NEW i \in DOMAIN s
        PROVE  moved[i] \in AliasDescs
    <3>1. s[i] \in AliasDescs
      OBVIOUS
    <3>. QED  BY <3>1, MovedAliasHas
  <2>3. moved = [i \in DOMAIN s |-> moved[i]] /\ \A i \in DOMAIN s : moved[i] = MovedAlias(s[i])
    OBVIOUS
  <2>4. Mapped(t.aliases, MovedAlias) = moved
    BY <2>1 DEF Mapped
  <2> HIDE DEF moved
  <2>5. moved \in Seq(AliasDescs) /\ Len(moved) = Len(s) /\ DOMAIN moved = DOMAIN s
    BY <2>2, <2>3, MappedHas
  <2>. QED  BY <2>1, <2>3, <2>4, <2>5
<1>6. <<>> \in Seq(Defaults) /\ <<>> \in Seq(Metas) /\ t.strings \in Seq(STRING)
  <2>1. <<>> \in Seq(Defaults) /\ <<>> \in Seq(Metas)
    OBVIOUS
  <2>. QED  BY <2>1, TablesHave
<1>7. /\ MovedTables(t).strings = t.strings /\ MovedTables(t).types = Mapped(t.types, MovedType)
      /\ MovedTables(t).members = Mapped(t.members, MovedMember)
      /\ MovedTables(t).enums = Mapped(t.enums, MovedEnum)
      /\ MovedTables(t).values = Mapped(t.values, MovedValue)
      /\ MovedTables(t).aliases = Mapped(t.aliases, MovedAlias)
      /\ MovedTables(t).defaults = <<>> /\ MovedTables(t).metas = <<>>
  BY DEF MovedTables
<1>8. MovedTables(t) \in Tables
  BY <1>1, <1>2, <1>3, <1>4, <1>5, <1>6 DEF MovedTables, Tables
<1>. QED  BY <1>1, <1>2, <1>3, <1>4, <1>5, <1>7, <1>8, Zenon

(* Moved, the references of a file are references into the tables they are *)
(* appended to.                                                            *)
LEMMA MovedRefer ==
  ASSUME IInv, NEW t \in Tables, References(t), ctx' = Joined(ctx, MovedTables(t))
  PROVE  References(ctx')
<1>1. ctx \in Tables /\ MovedTables(t) \in Tables
  BY MovedTablesHave DEF IInv, TablesOK
<1>2. PICK s \in Nat, m \in Nat, v \in Nat, a \in Nat, s2 \in Nat, m2 \in Nat, v2 \in Nat, a2 \in Nat :
        /\ s = Len(ctx.strings) /\ m = Len(ctx.members)
        /\ v = Len(ctx.values) /\ a = Len(ctx.aliases)
        /\ s2 = Len(t.strings) /\ m2 = Len(t.members)
        /\ v2 = Len(t.values) /\ a2 = Len(t.aliases)
  <2>1. /\ Len(ctx.strings) \in Nat /\ Len(ctx.members) \in Nat
        /\ Len(ctx.values) \in Nat /\ Len(ctx.aliases) \in Nat
    BY <1>1, TablesHave
  <2>2. /\ Len(t.strings) \in Nat /\ Len(t.members) \in Nat
        /\ Len(t.values) \in Nat /\ Len(t.aliases) \in Nat
    BY TablesHave
  <2>. QED  BY <2>1, <2>2
<1>3. /\ Len(ctx'.strings) = s + s2 /\ Len(ctx'.members) = m + m2
      /\ Len(ctx'.values) = v + v2 /\ Len(ctx'.aliases) = a + a2
  <2>1. PICK new \in Tables : new = MovedTables(t)
    BY <1>1
  <2>2. /\ Len(new.strings) = s2 /\ Len(new.members) = m2
        /\ Len(new.values) = v2 /\ Len(new.aliases) = a2
    BY <1>1, <1>2, <2>1, MovedTablesHave
  <2>3. ctx' = Joined(ctx, new)
    BY <2>1
  <2>4. /\ Len(ctx'.strings) = Len(ctx.strings) + Len(new.strings)
        /\ Len(ctx'.members) = Len(ctx.members) + Len(new.members)
        /\ Len(ctx'.values) = Len(ctx.values) + Len(new.values)
        /\ Len(ctx'.aliases) = Len(ctx.aliases) + Len(new.aliases)
    <3>1. PICK t0 \in Tables : t0 = ctx
      BY <1>1
    <3>2. /\ Len(Joined(t0, new).strings) = Len(t0.strings) + Len(new.strings)
          /\ Len(Joined(t0, new).members) = Len(t0.members) + Len(new.members)
          /\ Len(Joined(t0, new).values) = Len(t0.values) + Len(new.values)
          /\ Len(Joined(t0, new).aliases) = Len(t0.aliases) + Len(new.aliases)
      BY JoinedTables
    <3>. QED  BY <2>3, <3>1, <3>2
  <2>. QED  BY <1>2, <2>2, <2>4
<1>4. ASSUME NEW i \in DOMAIN t.types
      PROVE  TypeRefers(MovedTables(t).types[i], ctx')
  <2>1. PICK d \in TypeDescs : d = t.types[i]
    BY TablesHave
  <2>2. d.name < s2 /\ d.first + d.parts <= m2
    BY <1>2, <2>1 DEF References
  <2>3. d.name \in Nat /\ d.first \in Nat /\ d.parts \in Nat
    BY DEF TypeDescs
  <2>4. d.name + s < s + s2 /\ (d.first + m) + d.parts <= m + m2
    BY <2>2, <2>3
  <2>5. MovedTables(t).types[i] = MovedType(d)
    BY <1>1, <2>1, MovedTablesHave
  <2>. QED  BY <1>1, <1>2, <1>3, <2>4, <2>5, MovedTypeHas DEF TypeRefers
<1>5. ASSUME NEW i \in DOMAIN t.members
      PROVE  MovedTables(t).members[i].name < Len(ctx'.strings)
  <2>1. PICK d \in MemberDescs : d = t.members[i]
    BY TablesHave
  <2>2. d.name < s2 /\ d.name \in Nat
    BY <1>2, <2>1 DEF References, MemberDescs
  <2>3. d.name + s < s + s2
    BY <2>2
  <2>4. MovedTables(t).members[i] = MovedMember(d)
    BY <1>1, <2>1, MovedTablesHave
  <2>. QED  BY <1>1, <1>2, <1>3, <2>3, <2>4, MovedMemberHas
<1>6. ASSUME NEW i \in DOMAIN t.enums
      PROVE  EnumRefers(MovedTables(t).enums[i], ctx')
  <2>1. PICK d \in EnumDescs : d = t.enums[i]
    BY TablesHave
  <2>2. d.name < s2 /\ d.first + d.parts <= v2 /\ d.alias + d.aliases <= a2
    BY <1>2, <2>1 DEF References
  <2>3. d.name \in Nat /\ d.first \in Nat /\ d.parts \in Nat /\ d.alias \in Nat /\ d.aliases \in Nat
    BY DEF EnumDescs
  <2>4. /\ d.name + s < s + s2 /\ (d.first + v) + d.parts <= v + v2
        /\ (d.alias + a) + d.aliases <= a + a2
    BY <2>2, <2>3
  <2>5. MovedTables(t).enums[i] = MovedEnum(d)
    BY <1>1, <2>1, MovedTablesHave
  <2>. QED  BY <1>1, <1>2, <1>3, <2>4, <2>5, MovedEnumHas DEF EnumRefers
<1>7. ASSUME NEW i \in DOMAIN t.values
      PROVE  MovedTables(t).values[i].alias < Len(ctx'.aliases)
  <2>1. PICK d \in ValueDescs : d = t.values[i]
    BY TablesHave
  <2>2. d.alias < a2 /\ d.alias \in Nat
    BY <1>2, <2>1 DEF References, ValueDescs
  <2>3. d.alias + a < a + a2
    BY <2>2
  <2>4. MovedTables(t).values[i] = MovedValue(d)
    BY <1>1, <2>1, MovedTablesHave
  <2>. QED  BY <1>1, <1>2, <1>3, <2>3, <2>4, MovedValueHas
<1>8. ASSUME NEW i \in DOMAIN t.aliases
      PROVE  AliasRefers(MovedTables(t).aliases[i], ctx')
  <2>1. PICK d \in AliasDescs : d = t.aliases[i]
    BY TablesHave
  <2>2. d.name < s2 /\ d.value < v2 /\ d.name \in Nat /\ d.value \in Nat
    BY <1>2, <2>1 DEF References, AliasDescs
  <2>3. d.name + s < s + s2 /\ d.value + v < v + v2
    BY <2>2
  <2>4. MovedTables(t).aliases[i] = MovedAlias(d)
    BY <1>1, <2>1, MovedTablesHave
  <2>. QED  BY <1>1, <1>2, <1>3, <2>3, <2>4, MovedAliasHas DEF AliasRefers
<1>9. /\ DOMAIN MovedTables(t).types = DOMAIN t.types
      /\ DOMAIN MovedTables(t).members = DOMAIN t.members
      /\ DOMAIN MovedTables(t).enums = DOMAIN t.enums
      /\ DOMAIN MovedTables(t).values = DOMAIN t.values
      /\ DOMAIN MovedTables(t).aliases = DOMAIN t.aliases
  BY <1>1, MovedTablesHave
<1> DEFINE new == MovedTables(t)
<1>10. new \in Tables /\ ctx' = Joined(ctx, new)
  BY <1>1
<1>11. /\ \A i \in DOMAIN new.types : TypeRefers(new.types[i], ctx')
       /\ \A i \in DOMAIN new.members : new.members[i].name < Len(ctx'.strings)
       /\ \A i \in DOMAIN new.enums : EnumRefers(new.enums[i], ctx')
       /\ \A i \in DOMAIN new.values : new.values[i].alias < Len(ctx'.aliases)
       /\ \A i \in DOMAIN new.aliases : AliasRefers(new.aliases[i], ctx')
  BY <1>4, <1>5, <1>6, <1>7, <1>8, <1>9
<1> HIDE DEF new
<1>. QED  BY <1>10, <1>11, AddedRefers

(* So are their instances and default values, when these are appended.     *)
LEMMA MovedWithin ==
  ASSUME IInv, phase = "idle", NEW t \in Tables, ctx' = Joined(ctx, MovedTables(t)),
         MetasWithin(t, Len(t.metas)), DefaultsWithin(t, Len(t.defaults))
  PROVE  /\ MetasWithin(ctx', Len(ctx.metas) + Len(t.metas))
         /\ DefaultsWithin(ctx', Len(ctx.defaults) + Len(t.defaults))
<1> DEFINE new == MovedTables(t)
<1>1. ctx \in Tables /\ new \in Tables
  BY MovedTablesHave DEF IInv, TablesOK
<1>2. PICK m \in Nat, m2 \in Nat, n \in Nat, n2 \in Nat :
        /\ m = Len(ctx.metas) /\ m2 = Len(t.metas)
        /\ n = Len(ctx.defaults) /\ n2 = Len(t.defaults)
  <2>1. Len(ctx.metas) \in Nat /\ Len(ctx.defaults) \in Nat
    BY <1>1, TablesHave
  <2>2. Len(t.metas) \in Nat /\ Len(t.defaults) \in Nat
    BY TablesHave
  <2>. QED  BY <2>1, <2>2
<1>3. MetasWithin(ctx, m) /\ DefaultsWithin(ctx, n)
  BY <1>2 DEF IInv, WithinOK
<1>4. ASSUME NEW i \in DOMAIN t.types
      PROVE  new.types[i].meta + new.types[i].count <= m + m2
  <2>1. PICK d \in TypeDescs : d = t.types[i]
    BY TablesHave
  <2>2. d.meta + d.count <= m2
    BY <1>2, <2>1 DEF MetasWithin
  <2>3. d.meta \in Nat /\ d.count \in Nat
    BY DEF TypeDescs
  <2>4. MovedMeta(d.meta) \in Nat /\ MovedMeta(d.meta) <= d.meta + m
    BY <1>1, <1>2, <2>3, MovedHas
  <2>5. MovedMeta(d.meta) + d.count <= m + m2
    BY <2>2, <2>3, <2>4
  <2>6. new.types[i] = MovedType(d)
    BY <1>1, <2>1, MovedTablesHave
  <2>. QED  BY <1>1, <2>5, <2>6, MovedTypeHas
<1>5. ASSUME NEW i \in DOMAIN t.enums
      PROVE  new.enums[i].meta + new.enums[i].count <= m + m2
  <2>1. PICK d \in EnumDescs : d = t.enums[i]
    BY TablesHave
  <2>2. d.meta + d.count <= m2
    BY <1>2, <2>1 DEF MetasWithin
  <2>3. d.meta \in Nat /\ d.count \in Nat
    BY DEF EnumDescs
  <2>4. MovedMeta(d.meta) \in Nat /\ MovedMeta(d.meta) <= d.meta + m
    BY <1>1, <1>2, <2>3, MovedHas
  <2>5. MovedMeta(d.meta) + d.count <= m + m2
    BY <2>2, <2>3, <2>4
  <2>6. new.enums[i] = MovedEnum(d)
    BY <1>1, <2>1, MovedTablesHave
  <2>. QED  BY <1>1, <2>5, <2>6, MovedEnumHas
<1>6. ASSUME NEW i \in DOMAIN t.members
      PROVE  new.members[i].default < n + n2
  <2>1. PICK d \in MemberDescs : d = t.members[i]
    BY TablesHave
  <2>2. d.default < n2
    BY <1>2, <2>1 DEF DefaultsWithin
  <2>3. d.default \in Int
    BY DEF MemberDescs
  <2>4. Moved(d.default, n) \in Int /\ Moved(d.default, n) <= d.default + n
    BY <1>1, <1>2, <2>3, MovedHas
  <2>5. Moved(d.default, n) < n + n2
    BY <2>2, <2>3, <2>4
  <2>6. new.members[i] = MovedMember(d)
    BY <1>1, <2>1, MovedTablesHave
  <2>. QED  BY <1>1, <1>2, <2>5, <2>6, MovedMemberHas
<1>7. /\ DOMAIN new.types = DOMAIN t.types /\ DOMAIN new.members = DOMAIN t.members
      /\ DOMAIN new.enums = DOMAIN t.enums
  BY <1>1, MovedTablesHave
<1>8. ctx' = Joined(ctx, new)
  OBVIOUS
<1> HIDE DEF new
<1>9. MetasWithin(ctx', m + m2)
  <2>1. m + m2 \in Nat /\ m <= m + m2
    OBVIOUS
  <2>. QED  BY <1>1, <1>3, <1>4, <1>5, <1>7, <1>8, <2>1, AddedMetas
<1>10. DefaultsWithin(ctx', n + n2)
  <2>1. n \in Int /\ n + n2 \in Int /\ n <= n + n2
    OBVIOUS
  <2>. QED  BY <1>1, <1>3, <1>6, <1>7, <1>8, <2>1, AddedDefaults
<1>. QED  BY <1>2, <1>9, <1>10

(* The names of a file are among those of the tables it is appended to.    *)
LEMMA MovedNamed ==
  ASSUME ctx \in Tables, NEW t \in Tables, References(t), NEW decl, Named(t, decl)
  PROVE  Named(Joined(ctx, MovedTables(t)), decl)
<1>1. PICK new \in Tables : new = MovedTables(t)
  BY MovedTablesHave
<1>2. PICK s \in Seq(STRING), s2 \in Seq(STRING) : s = ctx.strings /\ s2 = t.strings /\ s2 = new.strings
  BY <1>1, TablesHave, MovedTablesHave
<1>3. ASSUME NEW name \in Nat, name < Len(s2)
      PROVE  Get(s \o s2, name + Len(s)) = Get(s2, name)
  <2>1. name + 1 \in DOMAIN s2
    BY <1>3
  <2>2. (s \o s2)[Len(s) + (name + 1)] = s2[name + 1]
    BY <2>1, Concatenated
  <2>3. Len(s) + (name + 1) = (name + Len(s)) + 1
    OBVIOUS
  <2>. QED  BY <2>2, <2>3 DEF Get
<1>4. Joined(ctx, new).strings = s \o s2
  BY <1>2 DEF Joined
<1>5. ASSUME decl.kind = "type"
      PROVE  \E i \in DOMAIN Joined(ctx, new).types :
               Get(Joined(ctx, new).strings, Joined(ctx, new).types[i].name) = decl.name
  <2>1. PICK k \in DOMAIN t.types : Get(t.strings, t.types[k].name) = decl.name
    BY <1>5 DEF Named
  <2>2. PICK d \in TypeDescs : d = t.types[k]
    BY TablesHave
  <2>3. d.name \in Nat /\ d.name < Len(s2)
    BY <1>2, <2>2 DEF References, TypeDescs
  <2>4. PICK a \in Seq(TypeDescs), b \in Seq(TypeDescs) : a = ctx.types /\ b = new.types
    BY TablesHave
  <2>5. k \in DOMAIN b /\ b[k].name = d.name + Len(s)
    BY <1>1, <1>2, <2>2, <2>4, MovedTablesHave, MovedTypeHas
  <2>6. Len(a) + k \in DOMAIN (a \o b) /\ (a \o b)[Len(a) + k] = b[k]
    BY <2>5, Concatenated
  <2>7. Joined(ctx, new).types = a \o b
    BY <2>4 DEF Joined
  <2>8. Get(s \o s2, b[k].name) = decl.name
    BY <1>2, <1>3, <2>1, <2>2, <2>3, <2>5
  <2>. QED  BY <1>4, <2>6, <2>7, <2>8
<1>6. ASSUME decl.kind = "enum"
      PROVE  \E i \in DOMAIN Joined(ctx, new).enums :
               Get(Joined(ctx, new).strings, Joined(ctx, new).enums[i].name) = decl.name
  <2>1. PICK k \in DOMAIN t.enums : Get(t.strings, t.enums[k].name) = decl.name
    BY <1>6 DEF Named
  <2>2. PICK d \in EnumDescs : d = t.enums[k]
    BY TablesHave
  <2>3. d.name \in Nat /\ d.name < Len(s2)
    BY <1>2, <2>2 DEF References, EnumDescs
  <2>4. PICK a \in Seq(EnumDescs), b \in Seq(EnumDescs) : a = ctx.enums /\ b = new.enums
    BY TablesHave
  <2>5. k \in DOMAIN b /\ b[k].name = d.name + Len(s)
    BY <1>1, <1>2, <2>2, <2>4, MovedTablesHave, MovedEnumHas
  <2>6. Len(a) + k \in DOMAIN (a \o b) /\ (a \o b)[Len(a) + k] = b[k]
    BY <2>5, Concatenated
  <2>7. Joined(ctx, new).enums = a \o b
    BY <2>4 DEF Joined
  <2>8. Get(s \o s2, b[k].name) = decl.name
    BY <1>2, <1>3, <2>1, <2>2, <2>3, <2>5
  <2>. QED  BY <1>4, <2>6, <2>7, <2>8
<1>7. Named(Joined(ctx, new), decl)
  BY <1>5, <1>6, Zenon DEF Named
<1>. QED  BY <1>1, <1>7

LEMMA LoadTablesStep ==
  ASSUME IInv, NEW file \in Files, FileOK(file), LoadTables(file)
  PROVE  IInv' /\ Grows
<1>1. PICK t \in Tables : t = file.tables
  BY DEF Files
<1>2. /\ phase = "idle" /\ phase' = "binary" /\ lib' = file /\ pos' = <<1, 0>>
      /\ start' = [types |-> Len(ctx.types), members |-> Len(ctx.members),
                   metas |-> Len(ctx.metas)]
      /\ files' = files /\ log' = log
      /\ ctx' = [ctx EXCEPT !.strings = ctx.strings \o t.strings,
                            !.types = ctx.types \o Mapped(t.types, MovedType),
                            !.members = ctx.members \o Mapped(t.members, MovedMember),
                            !.enums = ctx.enums \o Mapped(t.enums, MovedEnum),
                            !.values = ctx.values \o Mapped(t.values, MovedValue),
                            !.aliases = ctx.aliases \o Mapped(t.aliases, MovedAlias)]
  BY <1>1 DEF LoadTables
<1>3. /\ References(t) /\ MetasWithin(t, Len(t.metas)) /\ DefaultsWithin(t, Len(t.defaults))
      /\ \A j \in DOMAIN file.declared : Named(t, file.declared[j])
  BY <1>1 DEF FileOK
<1>4. ctx \in Tables
  BY DEF IInv, TablesOK
<1>5. PICK new \in Tables : new = MovedTables(t)
  BY <1>4, MovedTablesHave
<1>6. ctx' = Joined(ctx, new)
  <2>1. /\ new.strings = t.strings /\ new.types = Mapped(t.types, MovedType)
        /\ new.members = Mapped(t.members, MovedMember) /\ new.enums = Mapped(t.enums, MovedEnum)
        /\ new.values = Mapped(t.values, MovedValue) /\ new.aliases = Mapped(t.aliases, MovedAlias)
        /\ new.defaults = <<>> /\ new.metas = <<>>
    BY <1>5 DEF MovedTables
  <2>2. ctx' = [ctx EXCEPT !.strings = ctx.strings \o new.strings,
                           !.types = ctx.types \o new.types,
                           !.members = ctx.members \o new.members,
                           !.enums = ctx.enums \o new.enums,
                           !.values = ctx.values \o new.values,
                           !.aliases = ctx.aliases \o new.aliases]
    BY <1>2, <2>1, Zenon
  <2>3. new.defaults = <<>> /\ new.metas = <<>>
    BY <2>1
  <2>. QED  BY <1>4, <2>2, <2>3, NothingAdded DEF Joined, Tables
<1>7. ctx' \in Tables /\ Grows
  BY <1>6, AddedGrows
<1>8. References(ctx')
  BY <1>3, <1>5, <1>6, MovedRefer
<1>9. TablesOK' /\ FilesOK'
  BY <1>2, <1>7, <1>8 DEF IInv, TablesOK, FilesOK, Phases
<1>10. StartOK' /\ LogOK'
  BY <1>2, <1>7, StartOfLoad
<1>11. LoadingOK'
  <2>1. /\ MetasWithin(ctx', Len(ctx.metas) + Len(t.metas))
        /\ DefaultsWithin(ctx', Len(ctx.defaults) + Len(t.defaults))
    BY <1>2, <1>3, <1>5, <1>6, MovedWithin
  <2>2. ctx'.metas = ctx.metas /\ ctx'.defaults = ctx.defaults
    BY <1>2, <1>4 DEF Tables
  <2>3. ASSUME NEW j \in DOMAIN file.declared
        PROVE  Named(ctx', file.declared[j])
    BY <1>3, <1>4, <1>5, <1>6, MovedNamed
  <2>4. /\ lib' = file /\ pos'[1] = 1 /\ start'.metas = Len(ctx.metas)
    BY <1>2
  <2>5. Len(ctx.metas) \in Nat /\ Len(t.metas) \in Nat
    BY <1>4, TablesHave
  <2>6. 1 \in 1..(Len(t.metas) + 1) /\ Len(ctx'.metas) + 1 = Len(ctx.metas) + 1
    BY <2>2, <2>5
  <2>. QED  BY <1>1, <2>1, <2>2, <2>3, <2>4, <2>6 DEF LoadingOK
<1>12. ReadingOK' /\ BuildingOK' /\ WithinOK'
  BY <1>2 DEF ReadingOK, BuildingOK, WithinOK
<1>. QED  BY <1>7, <1>9, <1>10, <1>11, <1>12 DEF IInv

(***************************************************************************)
(* Every step keeps the invariant, and lets the tables grow unless it      *)
(* starts with a new context.                                              *)
(***************************************************************************)
LEMMA StepKeeps ==
  ASSUME IInv, [Next]_vars
  PROVE  IInv' /\ (log' # <<>> => Grows)
<1>1. CASE NewContext
  BY <1>1, NewContextStep DEF NewContext
<1>2. CASE \E text \in Texts : LoadText(text)
  BY <1>2, LoadTextStep
<1>3. CASE ReadBegin
  BY <1>3, ReadBeginStep
<1>4. CASE ReadMember
  BY <1>4, ReadMemberStep
<1>5. CASE ReadType
  BY <1>5, ReadTypeStep
<1>6. CASE ReadValue
  BY <1>6, ReadValueStep
<1>7. CASE ReadEnum
  BY <1>7, ReadEnumStep
<1>8. CASE ParseError
  BY <1>8, QuietRefused DEF ParseError, Reading
<1>9. CASE FixUp
  BY <1>9, FixUpStep
<1>10. CASE UnknownType
  BY <1>10, QuietRefused DEF UnknownType
<1>11. CASE \E i \in OwnMembers : BuildDefault(i)
  BY <1>11, BuildDefaultStep
<1>12. CASE \E i \in OwnMembers : DefaultFails(i)
  BY <1>12, DefaultFailsStep
<1>13. CASE DefaultsDone
  BY <1>13, DefaultsDoneStep
<1>14. CASE CreateMetadata
  BY <1>14, CreateMetadataStep
<1>15. CASE MetadataFails
  BY <1>15, QuietRefused DEF MetadataFails
<1>16. CASE TextDone
  BY <1>16, TextDoneStep
<1>17. CASE WriteLibrary
  BY <1>17, WriteLibraryStep
<1>18. CASE \E i \in DOMAIN files : LoadTables(files[i])
  <2>1. PICK i \in DOMAIN files : LoadTables(files[i])
    BY <1>18
  <2>2. files[i] \in Files /\ FileOK(files[i])
    BY DEF IInv, FilesOK
  <2>. QED  BY <2>1, <2>2, LoadTablesStep
<1>19. CASE LoadMetadata
  BY <1>19, LoadMetadataStep
<1>20. CASE LoadMetadataLost
  BY <1>20, LoadMetadataLostStep
<1>21. CASE LoadBinaryDone
  BY <1>21, LoadBinaryDoneStep
<1>22. CASE UNCHANGED vars
  <2>1. /\ phase' = phase /\ ctx' = ctx /\ lib' = lib /\ pos' = pos /\ local' = local
        /\ start' = start /\ files' = files /\ log' = log
    BY <1>22 DEF vars
  <2>2. ctx' \in Tables /\ References(ctx') /\ Grows
    BY <2>1, QuietGrows
  <2>3. TablesOK' /\ FilesOK' /\ StartOK' /\ BuildingOK' /\ LoadingOK' /\ WithinOK'
    BY <2>1 DEF IInv, TablesOK, FilesOK, StartOK, BuildingOK, LoadingOK, WithinOK
  <2>4. ReadingOK'
    BY <2>1 DEF IInv, ReadingOK, Reading, DeclOK, Decl
  <2>5. LogOK'
    <3>1. OldMembers' = OldMembers /\ OldMetas' = OldMetas
      BY <2>1 DEF OldMembers, OldMetas
    <3>2. OldGrows
      BY <3>1, OldIsNumber DEF OldGrows
    <3>. QED  BY <2>1, <2>2, <3>2, LogGrows DEF Grows
  <2>. QED  BY <2>2, <2>3, <2>4, <2>5 DEF IInv
<1>. QED
  BY <1>1, <1>2, <1>3, <1>4, <1>5, <1>6, <1>7, <1>8, <1>9, <1>10, <1>11, <1>12, <1>13,
     <1>14, <1>15, <1>16, <1>17, <1>18, <1>19, <1>20, <1>21, <1>22 DEF Next

LEMMA InitHasIInv ==
  ASSUME Init
  PROVE  IInv
<1>1. FilesOK
  <2>1. <<>> \in Seq(Files) /\ DOMAIN <<>> = {}
    OBVIOUS
  <2>2. files = <<>>
    BY DEF Init
  <2>. QED  BY <2>1, <2>2, Zenon DEF FilesOK
<1>2. ctx = Empty /\ phase = "idle" /\ log = <<>>
  BY DEF Init
<1>. QED  BY <1>1, <1>2, EmptyKeeps

LEMMA AlwaysIInv == Spec => []IInv
<1>1. Init => IInv
  BY InitHasIInv
<1>2. IInv /\ [Next]_vars => IInv'
  BY StepKeeps
<1>. QED  BY <1>1, <1>2, PTL DEF Spec

(***************************************************************************)
(* At every step of every sequence of loads, of whatever libraries in      *)
(* whatever order, through files or not, refused or not, the tables of     *)
(* dl_context and of every file written from one have the descriptions     *)
(* that the code reads, and no name, member, value or alias that a         *)
(* description refers to is outside of them: dl_context_load_type_library  *)
(* moves every reference of what it appends by the right length.           *)
(***************************************************************************)
THEOREM ReferencesStayInTables == Spec => []TypeOK
<1>1. IInv => TypeOK
  <2>1. SUFFICES ASSUME IInv
                 PROVE  TypeOK
    OBVIOUS
  <2>2. \A i \in DOMAIN files : files[i] \in Files /\ FileOK(files[i])
    <3>1. files \in Seq(Files) /\ \A i \in DOMAIN files : FileOK(files[i])
      BY <2>1 DEF IInv, FilesOK
    <3>. QED  BY <3>1
  <2>3. \A i \in DOMAIN files : /\ files[i].tables \in Tables /\ References(files[i].tables)
                                /\ files[i].offsets \in Seq(Nat)
    BY <2>2 DEF Files, FileOK
  <2>4. TablesOK
    BY <2>1 DEF IInv
  <2>. QED  BY <2>3, <2>4, Zenon DEF TablesOK, TypeOK
<1>. QED  BY <1>1, AlwaysIInv, PTL

(***************************************************************************)
(* No load, be it refused, changes what was loaded before it: no step of   *)
(* dl_context_load_type_library or dl_context_load_txt_type_library,       *)
(* whatever it appends, packs or leaves behind, changes a member, a default *)
(* value, an alias or an instance of a type or an enum that a load brought *)
(* in.                                                                     *)
(***************************************************************************)
THEOREM LoadsKeepEarlier == Spec => EarlierKept
<1>1. ASSUME IInv, [Next]_vars, log' # <<>>
      PROVE  /\ \A decl \in Visible("type") : TypeView(decl.name)' = TypeView(decl.name)
             /\ \A decl \in Visible("enum") : EnumView(decl.name)' = EnumView(decl.name)
  <2>1. IInv' /\ Grows
    BY <1>1, StepKeeps
  <2>2. ctx' \in Tables
    BY <2>1 DEF IInv, TablesOK
  <2>. QED  BY <1>1, <2>1, <2>2, GrowingKeeps
<1>2. IInv /\ [Next]_vars =>
        [log' # <<>> =>
           /\ \A decl \in Visible("type") : TypeView(decl.name)' = TypeView(decl.name)
           /\ \A decl \in Visible("enum") : EnumView(decl.name)' = EnumView(decl.name)]_ctx
  BY <1>1
<1>. QED  BY <1>2, AlwaysIInv, PTL DEF Spec, EarlierKept

=============================================================================
