--------------------------- MODULE TypeLibMeaning ---------------------------
(***************************************************************************)
(* What is found for a name is what was declared, and a file that is       *)
(* loaded is written as it was: for every set of libraries, every order of *)
(* loads and any number of files.                                          *)
(***************************************************************************)
EXTENDS TypeLibProofs

(***************************************************************************)
(* What a description in tables means.                                     *)
(***************************************************************************)
StringIs(t, index, text) == index < Len(t.strings) /\ Get(t.strings, index) = text

CommentMeans(t, index, text) ==
  IF index = None THEN text = "" ELSE StringIs(t, index, text)

(* Index 0 stands for no metadata, and is what a first one has.            *)
MetasMean(t, meta, metas) ==
  meta # 0 =>
    /\ meta + Len(metas) <= Len(t.metas)
    /\ \A i \in DOMAIN metas : MetaName(t.metas[meta + i].data) = MetaName(metas[i])

(* A default value that is not packed yet stands for itself.               *)
DefaultMeans(t, m, p) ==
  \/ m.default = p.default
  \/ /\ p.default # None
     /\ m.default \in 0..(Len(t.defaults) - 1)
     /\ Get(t.defaults, m.default) = [of |-> p.of, value |-> p.default]

MemberMeans(t, m, p) ==
  /\ StringIs(t, m.name, p.name) /\ m.of = p.of /\ DefaultMeans(t, m, p)
  /\ m.count = Len(p.metas) /\ MetasMean(t, m.meta, p.metas)

ValueMeans(t, v, p) ==
  /\ v.value = p.value
  /\ v.alias < Len(t.aliases) /\ StringIs(t, Get(t.aliases, v.alias).name, p.name)
  /\ v.count = Len(p.metas) /\ MetasMean(t, v.meta, p.metas)

AliasMeans(t, a, alias) ==
  /\ StringIs(t, a.name, alias[1])
  /\ a.value < Len(t.values) /\ Get(t.values, a.value).value = alias[2]

MembersMean(t, first, parts, n) ==
  first + n <= Len(t.members) /\ \A i \in 1..n : MemberMeans(t, t.members[first + i], parts[i])

ValuesMean(t, first, parts, n) ==
  first + n <= Len(t.values) /\ \A i \in 1..n : ValueMeans(t, t.values[first + i], parts[i])

AliasesMean(t, first, aliases) ==
  /\ first + Len(aliases) <= Len(t.aliases)
  /\ \A i \in DOMAIN aliases : AliasMeans(t, t.aliases[first + i], aliases[i])

TypeMeans(t, d, decl) ==
  /\ StringIs(t, d.name, decl.name) /\ CommentMeans(t, d.comment, decl.comment)
  /\ d.count = Len(decl.metas) /\ MetasMean(t, d.meta, decl.metas)
  /\ d.parts = Len(decl.parts) /\ MembersMean(t, d.first, decl.parts, d.parts)

EnumMeans(t, d, decl) ==
  /\ StringIs(t, d.name, decl.name) /\ CommentMeans(t, d.comment, decl.comment)
  /\ d.count = Len(decl.metas) /\ MetasMean(t, d.meta, decl.metas)
  /\ d.parts = Len(decl.parts) /\ ValuesMean(t, d.first, decl.parts, d.parts)
  /\ d.aliases = Len(DeclaredAliases(decl)) /\ AliasesMean(t, d.alias, DeclaredAliases(decl))

(***************************************************************************)
(* Tables mean a sequence of declarations: g gives for each description    *)
(* the declaration it comes from, in order, and none is left out.          *)
(***************************************************************************)
Order(g, n, s, kind) ==
  /\ g \in [1..n -> DOMAIN s]
  /\ \A i, j \in 1..n : i < j => g[i] < g[j]
  /\ \A k \in DOMAIN s : s[k].kind = kind <=> \E i \in 1..n : g[i] = k

TypesMean(t, s) ==
  \E g : /\ Order(g, Len(t.types), s, "type")
         /\ \A i \in DOMAIN t.types : TypeMeans(t, t.types[i], s[g[i]])

EnumsMean(t, s) ==
  \E g : /\ Order(g, Len(t.enums), s, "enum")
         /\ \A i \in DOMAIN t.enums : EnumMeans(t, t.enums[i], s[g[i]])

AllPacked(t) == \A i \in DOMAIN t.members : t.members[i].default >= None

FileMeans(f) ==
  TypesMean(f.tables, f.declared) /\ EnumsMean(f.tables, f.declared) /\ AllPacked(f.tables)

(***************************************************************************)
(* The tables as they are when the load from a file is done, and what was  *)
(* declared so far.                                                        *)
(***************************************************************************)
Whole ==
  IF phase = "binary"
  THEN [ctx EXCEPT
          !.defaults = @ \o lib.tables.defaults,
          !.metas = [i \in 1..(start.metas + Len(lib.tables.metas)) |->
                       IF i <= Len(@) THEN @[i] ELSE lib.tables.metas[i - start.metas]]]
  ELSE ctx

FirstOf(s, n) == [i \in 1..n |-> s[i]]
Fresh ==
  IF phase = "text" THEN FirstOf(lib, pos[1] - 1)
  ELSE IF phase \in {"defaults", "metadata"} THEN lib
  ELSE IF phase = "binary" THEN lib.declared
  ELSE <<>>
SoFar == Declared \o Fresh

(* The default values of what was there before the load, and of what the   *)
(* load has packed, are packed; the others are texts.                      *)
Unpacked(i) == i > start.members /\ (phase = "text" \/ (phase = "defaults" /\ i > pos[1]))
PackedOK ==
  \A i \in DOMAIN ctx.members :
    IF Unpacked(i) THEN ctx.members[i].default <= None ELSE ctx.members[i].default >= None

(* The aliases of the first n enumerators.                                 *)
ReadAliases(decl, n) == DeclaredAliases([decl EXCEPT !.parts = FirstOf(@, n)])

PartsOK ==
  phase = "text" /\ Reading /\ pos[2] > 0 =>
    /\ MetasMean(ctx, local.meta, Decl.metas)
    /\ Decl.kind = "type" => MembersMean(ctx, local.first, Decl.parts, pos[2] - 1)
    /\ Decl.kind = "enum" =>
         /\ ValuesMean(ctx, local.first, Decl.parts, pos[2] - 1)
         /\ Len(ctx.aliases) = local.alias + Len(ReadAliases(Decl, pos[2] - 1))
         /\ AliasesMean(ctx, local.alias, ReadAliases(Decl, pos[2] - 1))

MeansInv ==
  ~Failed /\ phase # "lost" =>
    TypesMean(Whole, SoFar) /\ EnumsMean(Whole, SoFar) /\ PackedOK /\ PartsOK

FilesMean == \A i \in DOMAIN files : FileMeans(files[i])

(***************************************************************************)
(* What is declared when a load returns.                                   *)
(***************************************************************************)
LEMMA DeclaredGrows ==
  ASSUME IInv, NEW e \in LogEntries, log' = Append(log, e)
  PROVE  /\ Declared' = Declared \o e.declared
         /\ ~Failed' => ~Failed /\ e.ok
<1> DEFINE seqs == [i \in DOMAIN log |-> log[i].declared]
<1>1. log \in Seq(LogEntries) /\ Len(log) \in Nat /\ DOMAIN log = 1..Len(log)
  BY DEF IInv, LogOK
<1>2. /\ DOMAIN log' = 1..(Len(log) + 1) /\ Len(log) + 1 \in DOMAIN log' /\ log'[Len(log) + 1] = e
      /\ \A i \in DOMAIN log : i \in DOMAIN log' /\ log'[i] = log[i]
  BY <1>1
<1>3. \A x \in LogEntries : x.declared \in Seq(Decls)
  BY DEF LogEntries
<1>4. seqs \in Seq(Seq(Decls)) /\ Len(seqs) = Len(log)
  <2>1. seqs \in [1..Len(log) -> Seq(Decls)]
    BY <1>1, <1>3
  <2>. QED  BY <1>1, <2>1, FunctionIsSequence
<1>5. Append(seqs, e.declared) = [i \in DOMAIN log' |-> log'[i].declared]
  BY <1>1, <1>2, <1>3, <1>4
<1>6. Declared = FlattenSeq(seqs) /\ Declared' = FlattenSeq(Append(seqs, e.declared))
  BY <1>5 DEF Declared
<1> HIDE DEF seqs
<1>7. Declared' = Declared \o e.declared
  BY <1>3, <1>4, <1>6, FlattenAppended
<1>8. ~Failed' => ~Failed /\ e.ok
  BY <1>2 DEF Failed
<1>. QED  BY <1>7, <1>8

(***************************************************************************)
(* Descriptions and declarations in order.                                 *)
(***************************************************************************)
JoinsOrders(f, g, h, n, m, s, r, kind) ==
  /\ Order(f, n + m, s \o r, kind)
  /\ \A i \in 1..n : g[i] \in DOMAIN s /\ (s \o r)[f[i]] = s[g[i]]
  /\ \A i \in 1..m : h[i] \in DOMAIN r /\ (s \o r)[f[n + i]] = r[h[i]]

LEMMA OrderJoined ==
  ASSUME NEW D, NEW s \in Seq(D), NEW r \in Seq(D), NEW kind,
         NEW n \in Nat, NEW g, Order(g, n, s, kind),
         NEW m \in Nat, NEW h, Order(h, m, r, kind)
  PROVE  \E f : JoinsOrders(f, g, h, n, m, s, r, kind)
<1> DEFINE f == [i \in 1..(n + m) |-> IF i <= n THEN g[i] ELSE Len(s) + h[i - n]]
<1>1. /\ Len(s) \in Nat /\ Len(r) \in Nat /\ DOMAIN s = 1..Len(s) /\ DOMAIN r = 1..Len(r)
      /\ DOMAIN (s \o r) = 1..(Len(s) + Len(r))
      /\ \A k \in DOMAIN s : (s \o r)[k] = s[k]
      /\ \A k \in DOMAIN r : (s \o r)[Len(s) + k] = r[k]
  <2>1. s \o r \in Seq(D) /\ Len(s \o r) = Len(s) + Len(r) /\ Longer(s, s \o r)
    BY Concatenated
  <2>2. \A k \in DOMAIN r : (s \o r)[Len(s) + k] = r[k]
    BY Concatenated
  <2>. QED  BY <2>1, <2>2 DEF Longer
<1>2. /\ \A i \in 1..n : g[i] \in 1..Len(s)
      /\ \A i \in 1..m : h[i] \in 1..Len(r)
  BY <1>1 DEF Order
<1>3. /\ \A i \in 1..n : i \in 1..(n + m) /\ f[i] = g[i]
      /\ \A i \in 1..m : n + i \in 1..(n + m) /\ f[n + i] = Len(s) + h[i]
      /\ \A i \in 1..(n + m) : i \in 1..n \/ (i - n \in 1..m /\ i = n + (i - n))
  OBVIOUS
<1>4. f \in [1..(n + m) -> DOMAIN (s \o r)]
  <2>1. \A i \in 1..(n + m) : f[i] \in DOMAIN (s \o r)
    BY <1>1, <1>2, <1>3
  <2>. QED  BY <2>1
<1> HIDE DEF f
<1>5. ASSUME NEW i \in 1..(n + m), NEW j \in 1..(n + m), i < j
      PROVE  f[i] < f[j]
  <2>1. CASE j \in 1..n
    BY <1>3, <1>5, <2>1 DEF Order
  <2>2. CASE j \notin 1..n /\ i \in 1..n
    <3>1. j - n \in 1..m /\ f[j] = Len(s) + h[j - n]
      BY <1>3, <2>2
    <3>2. f[i] \in 1..Len(s) /\ h[j - n] \in 1..Len(r)
      BY <1>2, <1>3, <2>2, <3>1
    <3>. QED  BY <1>1, <3>1, <3>2
  <2>3. CASE j \notin 1..n /\ i \notin 1..n
    <3>1. i - n \in 1..m /\ j - n \in 1..m /\ i - n < j - n
      BY <1>3, <1>5, <2>3
    <3>2. h[i - n] < h[j - n]
      BY <3>1 DEF Order
    <3>3. f[i] = Len(s) + h[i - n] /\ f[j] = Len(s) + h[j - n]
      BY <1>3, <2>3
    <3>. QED  BY <1>1, <1>2, <3>1, <3>2, <3>3
  <2>. QED  BY <2>1, <2>2, <2>3
<1>6. ASSUME NEW k \in DOMAIN (s \o r), (s \o r)[k].kind = kind
      PROVE  \E i \in 1..(n + m) : f[i] = k
  <2>1. CASE k \in DOMAIN s
    <3>1. s[k].kind = kind
      BY <1>1, <1>6, <2>1
    <3>2. PICK i \in 1..n : g[i] = k
      BY <2>1, <3>1 DEF Order
    <3>. QED  BY <1>3, <3>2
  <2>2. CASE k \notin DOMAIN s
    <3>1. k - Len(s) \in DOMAIN r /\ k = Len(s) + (k - Len(s))
      BY <1>1, <2>2
    <3>2. r[k - Len(s)].kind = kind
      BY <1>1, <1>6, <3>1
    <3>3. PICK i \in 1..m : h[i] = k - Len(s)
      BY <3>1, <3>2 DEF Order
    <3>4. f[n + i] = k
      BY <1>3, <3>1, <3>3
    <3>. QED  BY <1>3, <3>4
  <2>. QED  BY <2>1, <2>2
<1>7. ASSUME NEW i \in 1..(n + m)
      PROVE  (s \o r)[f[i]].kind = kind
  <2>1. CASE i \in 1..n
    <3>1. (s \o r)[f[i]] = s[g[i]]
      BY <1>1, <1>2, <1>3, <2>1
    <3>2. s[g[i]].kind = kind
      BY <1>1, <1>2, <2>1 DEF Order
    <3>. QED  BY <3>1, <3>2
  <2>2. CASE i \notin 1..n
    <3>1. i - n \in 1..m /\ f[i] = Len(s) + h[i - n]
      BY <1>3, <2>2
    <3>2. h[i - n] \in DOMAIN r
      BY <1>1, <1>2, <3>1
    <3>3. (s \o r)[f[i]] = r[h[i - n]]
      BY <1>1, <3>1, <3>2
    <3>4. r[h[i - n]].kind = kind
      BY <3>1, <3>2 DEF Order
    <3>. QED  BY <3>3, <3>4
  <2>. QED  BY <2>1, <2>2
<1>8. Order(f, n + m, s \o r, kind)
  BY <1>4, <1>5, <1>6, <1>7 DEF Order
<1>9. \A i \in 1..n : g[i] \in DOMAIN s /\ (s \o r)[f[i]] = s[g[i]]
  BY <1>1, <1>2, <1>3
<1>10. \A i \in 1..m : h[i] \in DOMAIN r /\ (s \o r)[f[n + i]] = r[h[i]]
  BY <1>1, <1>2, <1>3
<1>. QED  BY <1>8, <1>9, <1>10 DEF JoinsOrders

(* A declaration of its own, of this kind or another.                      *)
LEMMA OrderOfOne ==
  ASSUME NEW decl, NEW kind
  PROVE  /\ decl.kind = kind => \E h : Order(h, 1, <<decl>>, kind) /\ h[1] = 1
         /\ decl.kind # kind => \E h : Order(h, 0, <<decl>>, kind)
<1>1. DOMAIN <<decl>> = {1} /\ <<decl>>[1] = decl
  OBVIOUS
<1>2. CASE decl.kind = kind
  <2> DEFINE h == [i \in 1..1 |-> 1]
  <2>1. h \in [1..1 -> DOMAIN <<decl>>] /\ \A i \in 1..1 : i = 1 /\ h[i] = 1
    BY <1>1
  <2>2. Order(h, 1, <<decl>>, kind)
    BY <1>1, <1>2, <2>1 DEF Order
  <2>. QED  BY <1>2, <2>1, <2>2
<1>3. CASE decl.kind # kind
  <2> DEFINE h == [i \in 1..0 |-> 1]
  <2>1. h \in [1..0 -> DOMAIN <<decl>>] /\ 1..0 = {}
    OBVIOUS
  <2> HIDE DEF h
  <2>2. Order(h, 0, <<decl>>, kind)
    BY <1>1, <1>3, <2>1 DEF Order
  <2>. QED  BY <1>3, <2>2
<1>. QED  BY <1>2, <1>3

(* Tables to which descriptions are appended mean what they meant and      *)
(* what these mean.                                                        *)
LEMMA TypesJoined ==
  ASSUME NEW u, NEW types \in Seq(TypeDescs), NEW more \in Seq(TypeDescs),
         u.types = types \o more,
         NEW s \in Seq(Decls), NEW g, Order(g, Len(types), s, "type"),
         \A i \in DOMAIN types : TypeMeans(u, types[i], s[g[i]]),
         NEW r \in Seq(Decls), NEW h, Order(h, Len(more), r, "type"),
         \A i \in DOMAIN more : TypeMeans(u, more[i], r[h[i]])
  PROVE  TypesMean(u, s \o r)
<1>1. /\ Len(types) \in Nat /\ DOMAIN types = 1..Len(types)
      /\ Len(more) \in Nat /\ DOMAIN more = 1..Len(more)
      /\ Len(u.types) = Len(types) + Len(more) /\ DOMAIN u.types = 1..(Len(types) + Len(more))
      /\ \A i \in 1..Len(types) : u.types[i] = types[i]
      /\ \A i \in 1..Len(more) : u.types[Len(types) + i] = more[i]
  BY Concatenated DEF Longer
<1>2. PICK f : /\ Order(f, Len(types) + Len(more), s \o r, "type")
               /\ \A i \in 1..Len(types) : (s \o r)[f[i]] = s[g[i]]
               /\ \A i \in 1..Len(more) : (s \o r)[f[Len(types) + i]] = r[h[i]]
  <2>1. Len(types) \in Nat /\ Len(more) \in Nat
    BY <1>1
  <2>2. \E f : JoinsOrders(f, g, h, Len(types), Len(more), s, r, "type")
    BY <2>1, OrderJoined
  <2>. QED  BY <2>2 DEF JoinsOrders
<1>3. ASSUME NEW i \in DOMAIN u.types
      PROVE  TypeMeans(u, u.types[i], (s \o r)[f[i]])
  <2>1. CASE i \in 1..Len(types)
    BY <1>1, <1>2, <2>1
  <2>2. CASE i \notin 1..Len(types)
    <3>1. i - Len(types) \in 1..Len(more) /\ i = Len(types) + (i - Len(types))
      BY <1>1, <2>2
    <3>2. /\ u.types[i] = more[i - Len(types)]
          /\ (s \o r)[f[i]] = r[h[i - Len(types)]]
      BY <1>1, <1>2, <3>1
    <3>. QED  BY <1>1, <3>1, <3>2
  <2>. QED  BY <2>1, <2>2
<1>. QED  BY <1>1, <1>2, <1>3 DEF TypesMean

LEMMA EnumsJoined ==
  ASSUME NEW u, NEW enums \in Seq(EnumDescs), NEW more \in Seq(EnumDescs),
         u.enums = enums \o more,
         NEW s \in Seq(Decls), NEW g, Order(g, Len(enums), s, "enum"),
         \A i \in DOMAIN enums : EnumMeans(u, enums[i], s[g[i]]),
         NEW r \in Seq(Decls), NEW h, Order(h, Len(more), r, "enum"),
         \A i \in DOMAIN more : EnumMeans(u, more[i], r[h[i]])
  PROVE  EnumsMean(u, s \o r)
<1>1. /\ Len(enums) \in Nat /\ DOMAIN enums = 1..Len(enums)
      /\ Len(more) \in Nat /\ DOMAIN more = 1..Len(more)
      /\ Len(u.enums) = Len(enums) + Len(more) /\ DOMAIN u.enums = 1..(Len(enums) + Len(more))
      /\ \A i \in 1..Len(enums) : u.enums[i] = enums[i]
      /\ \A i \in 1..Len(more) : u.enums[Len(enums) + i] = more[i]
  BY Concatenated DEF Longer
<1>2. PICK f : /\ Order(f, Len(enums) + Len(more), s \o r, "enum")
               /\ \A i \in 1..Len(enums) : (s \o r)[f[i]] = s[g[i]]
               /\ \A i \in 1..Len(more) : (s \o r)[f[Len(enums) + i]] = r[h[i]]
  <2>1. Len(enums) \in Nat /\ Len(more) \in Nat
    BY <1>1
  <2>2. \E f : JoinsOrders(f, g, h, Len(enums), Len(more), s, r, "enum")
    BY <2>1, OrderJoined
  <2>. QED  BY <2>2 DEF JoinsOrders
<1>3. ASSUME NEW i \in DOMAIN u.enums
      PROVE  EnumMeans(u, u.enums[i], (s \o r)[f[i]])
  <2>1. CASE i \in 1..Len(enums)
    BY <1>1, <1>2, <2>1
  <2>2. CASE i \notin 1..Len(enums)
    <3>1. i - Len(enums) \in 1..Len(more) /\ i = Len(enums) + (i - Len(enums))
      BY <1>1, <2>2
    <3>2. /\ u.enums[i] = more[i - Len(enums)]
          /\ (s \o r)[f[i]] = r[h[i - Len(enums)]]
      BY <1>1, <1>2, <3>1
    <3>. QED  BY <1>1, <3>1, <3>2
  <2>. QED  BY <2>1, <2>2
<1>. QED  BY <1>1, <1>2, <1>3 DEF EnumsMean

(***************************************************************************)
(* Tables whose descriptions, moved by as much as by says, are in tables   *)
(* that may have more, where default values may have been packed since,    *)
(* keep their meaning.  Growing is to be moved by nothing.                 *)
(***************************************************************************)
Lengths == [strings : Nat, members : Nat, values : Nat, aliases : Nat, defaults : Nat, metas : Nat]
Nowhere == [strings |-> 0, members |-> 0, values |-> 0, aliases |-> 0, defaults |-> 0, metas |-> 0]

Shifted(index, n) == IF index = 0 THEN 0 ELSE index + n

DefaultMoved(m, e, u, by) ==
  \/ m.default >= None /\ e.default = Moved(m.default, by.defaults)
  \/ m.default < None /\ e.default = m.default
  \/ /\ m.default < None
     /\ e.default \in 0..(Len(u.defaults) - 1)
     /\ Get(u.defaults, e.default) = [of |-> m.of, value |-> m.default]

MemberMoved(m, e, u, by) ==
  /\ e.name = m.name + by.strings /\ e.of = m.of /\ DefaultMoved(m, e, u, by)
  /\ e.meta = Shifted(m.meta, by.metas) /\ e.count = m.count
ValueMoved(v, e, by) ==
  /\ e.value = v.value /\ e.alias = v.alias + by.aliases
  /\ e.meta = Shifted(v.meta, by.metas) /\ e.count = v.count
AliasMoved(a, e, by) == e.name = a.name + by.strings /\ e.value = a.value + by.values
TypeMoved(d, e, by) ==
  /\ e.name = d.name + by.strings /\ e.comment = Moved(d.comment, by.strings)
  /\ e.first = d.first + by.members /\ e.parts = d.parts
  /\ e.meta = Shifted(d.meta, by.metas) /\ e.count = d.count
EnumMoved(d, e, by) ==
  /\ e.name = d.name + by.strings /\ e.comment = Moved(d.comment, by.strings)
  /\ e.first = d.first + by.values /\ e.parts = d.parts
  /\ e.alias = d.alias + by.aliases /\ e.aliases = d.aliases
  /\ e.meta = Shifted(d.meta, by.metas) /\ e.count = d.count

Embeds(t, u, by) ==
  /\ by.strings + Len(t.strings) <= Len(u.strings)
  /\ \A i \in DOMAIN t.strings : u.strings[by.strings + i] = t.strings[i]
  /\ by.members + Len(t.members) <= Len(u.members)
  /\ \A i \in DOMAIN t.members : MemberMoved(t.members[i], u.members[by.members + i], u, by)
  /\ by.values + Len(t.values) <= Len(u.values)
  /\ \A i \in DOMAIN t.values : ValueMoved(t.values[i], u.values[by.values + i], by)
  /\ by.aliases + Len(t.aliases) <= Len(u.aliases)
  /\ \A i \in DOMAIN t.aliases : AliasMoved(t.aliases[i], u.aliases[by.aliases + i], by)
  /\ by.defaults + Len(t.defaults) <= Len(u.defaults)
  /\ \A i \in DOMAIN t.defaults : u.defaults[by.defaults + i] = t.defaults[i]
  /\ by.metas + Len(t.metas) <= Len(u.metas)
  /\ \A i \in DOMAIN t.metas : MetaName(u.metas[by.metas + i].data) = MetaName(t.metas[i].data)

(* Each table, as a sequence of its own.                                   *)
LEMMA LengthsAre ==
  ASSUME NEW t \in Tables
  PROVE  /\ Len(t.strings) \in Nat /\ DOMAIN t.strings = 1..Len(t.strings)
         /\ Len(t.types) \in Nat /\ DOMAIN t.types = 1..Len(t.types)
         /\ Len(t.members) \in Nat /\ DOMAIN t.members = 1..Len(t.members)
         /\ Len(t.enums) \in Nat /\ DOMAIN t.enums = 1..Len(t.enums)
         /\ Len(t.values) \in Nat /\ DOMAIN t.values = 1..Len(t.values)
         /\ Len(t.aliases) \in Nat /\ DOMAIN t.aliases = 1..Len(t.aliases)
         /\ Len(t.defaults) \in Nat /\ DOMAIN t.defaults = 1..Len(t.defaults)
         /\ Len(t.metas) \in Nat /\ DOMAIN t.metas = 1..Len(t.metas)
<1>1. /\ t.strings \in Seq(STRING) /\ t.types \in Seq(TypeDescs)
      /\ t.members \in Seq(MemberDescs) /\ t.enums \in Seq(EnumDescs)
      /\ t.values \in Seq(ValueDescs) /\ t.aliases \in Seq(AliasDescs)
      /\ t.defaults \in Seq(Defaults) /\ t.metas \in Seq(Metas)
  BY TablesHave
<1>. QED  BY <1>1

LEMMA StringMoved ==
  ASSUME NEW t \in Tables, NEW u \in Tables, NEW by \in Lengths, Embeds(t, u, by),
         NEW index \in Nat, NEW text, StringIs(t, index, text)
  PROVE  StringIs(u, index + by.strings, text)
<1>1. /\ index < Len(t.strings) /\ t.strings[index + 1] = text
      /\ by.strings \in Nat /\ Len(t.strings) \in Nat /\ Len(u.strings) \in Nat
      /\ DOMAIN t.strings = 1..Len(t.strings)
  BY LengthsAre DEF StringIs, Get, Lengths
<1>2. index + 1 \in DOMAIN t.strings /\ by.strings + (index + 1) = (index + by.strings) + 1
  BY <1>1
<1>3. u.strings[(index + by.strings) + 1] = text
  <2>1. u.strings[by.strings + (index + 1)] = t.strings[index + 1]
    BY <1>2 DEF Embeds
  <2>. QED  BY <1>1, <1>2, <2>1
<1>4. index + by.strings < Len(u.strings)
  BY <1>1 DEF Embeds
<1>. QED  BY <1>3, <1>4 DEF StringIs, Get

LEMMA CommentMoved ==
  ASSUME NEW t \in Tables, NEW u \in Tables, NEW by \in Lengths, Embeds(t, u, by),
         NEW index \in Comments, NEW text, CommentMeans(t, index, text)
  PROVE  CommentMeans(u, Moved(index, by.strings), text)
<1>1. by.strings \in Nat
  BY DEF Lengths
<1>2. CASE index = None
  BY <1>2 DEF CommentMeans, Moved
<1>3. CASE index # None
  <2>1. index \in Nat /\ Moved(index, by.strings) = index + by.strings /\ index + by.strings # None
    BY <1>1, <1>3 DEF Comments, Moved, None
  <2>2. StringIs(u, index + by.strings, text)
    BY <1>3, <2>1, StringMoved DEF CommentMeans
  <2>. QED  BY <2>1, <2>2 DEF CommentMeans
<1>. QED  BY <1>2, <1>3

LEMMA MetasMoved ==
  ASSUME NEW t \in Tables, NEW u \in Tables, NEW by \in Lengths, Embeds(t, u, by),
         NEW meta \in Nat, NEW metas \in Seq(Instances), MetasMean(t, meta, metas)
  PROVE  MetasMean(u, Shifted(meta, by.metas), metas)
<1>1. /\ by.metas \in Nat /\ Len(t.metas) \in Nat /\ DOMAIN t.metas = 1..Len(t.metas)
      /\ Len(u.metas) \in Nat /\ Len(metas) \in Nat /\ DOMAIN metas = 1..Len(metas)
      /\ by.metas + Len(t.metas) <= Len(u.metas)
  BY LengthsAre DEF Lengths, Embeds
<1>2. SUFFICES ASSUME meta # 0
               PROVE  /\ (meta + by.metas) + Len(metas) <= Len(u.metas)
                      /\ \A i \in DOMAIN metas :
                           MetaName(u.metas[(meta + by.metas) + i].data) = MetaName(metas[i])
  BY DEF MetasMean, Shifted
<1>3. /\ meta + Len(metas) <= Len(t.metas)
      /\ \A i \in DOMAIN metas : MetaName(t.metas[meta + i].data) = MetaName(metas[i])
  BY <1>2 DEF MetasMean
<1>4. ASSUME NEW i \in DOMAIN metas
      PROVE  MetaName(u.metas[(meta + by.metas) + i].data) = MetaName(metas[i])
  <2>1. meta + i \in DOMAIN t.metas /\ (meta + by.metas) + i = by.metas + (meta + i)
    BY <1>1, <1>3
  <2>2. MetaName(u.metas[by.metas + (meta + i)].data) = MetaName(t.metas[meta + i].data)
    BY <2>1 DEF Embeds
  <2>. QED  BY <1>3, <2>1, <2>2
<1>. QED  BY <1>1, <1>3, <1>4

LEMMA DefaultMovedMeans ==
  ASSUME NEW t \in Tables, NEW u \in Tables, NEW by \in Lengths, Embeds(t, u, by),
         NEW m \in MemberDescs, NEW e, DefaultMoved(m, e, u, by),
         NEW p, p.default \in DefaultTexts, p.of = m.of, DefaultMeans(t, m, p)
  PROVE  DefaultMeans(u, e, p)
<1>1. /\ by.defaults \in Nat /\ m.default \in Int /\ p.default \in Int /\ p.default <= None
      /\ Len(t.defaults) \in Nat /\ DOMAIN t.defaults = 1..Len(t.defaults)
      /\ Len(u.defaults) \in Nat /\ by.defaults + Len(t.defaults) <= Len(u.defaults)
  BY LengthsAre DEF Lengths, MemberDescs, DefaultTexts, Embeds
<1>2. CASE m.default = p.default
  <2>1. CASE m.default = None
    <3>1. e.default = None
      BY <2>1, <1>1 DEF DefaultMoved, Moved
    <3>. QED  BY <1>2, <2>1, <3>1 DEF DefaultMeans
  <2>2. CASE m.default # None
    <3>1. m.default < None /\ ~(m.default >= None)
      BY <1>1, <1>2, <2>2 DEF None
    <3>2. CASE e.default = m.default
      BY <1>2, <3>2 DEF DefaultMeans
    <3>3. CASE e.default # m.default
      <4>1. /\ e.default \in 0..(Len(u.defaults) - 1)
            /\ Get(u.defaults, e.default) = [of |-> m.of, value |-> m.default]
        BY <3>1, <3>3 DEF DefaultMoved
      <4>. QED  BY <1>2, <2>2, <4>1 DEF DefaultMeans
    <3>. QED  BY <3>2, <3>3
  <2>. QED  BY <2>1, <2>2
<1>3. CASE m.default # p.default
  <2>1. /\ p.default # None /\ m.default \in 0..(Len(t.defaults) - 1)
        /\ Get(t.defaults, m.default) = [of |-> p.of, value |-> p.default]
    BY <1>3 DEF DefaultMeans
  <2>2. e.default = m.default + by.defaults
    BY <1>1, <2>1 DEF DefaultMoved, Moved, None
  <2>3. /\ m.default + 1 \in DOMAIN t.defaults
        /\ by.defaults + (m.default + 1) = (m.default + by.defaults) + 1
        /\ m.default + by.defaults \in 0..(Len(u.defaults) - 1)
    BY <1>1, <2>1
  <2>4. u.defaults[by.defaults + (m.default + 1)] = t.defaults[m.default + 1]
    BY <2>3 DEF Embeds
  <2>5. Get(u.defaults, e.default) = Get(t.defaults, m.default)
    BY <2>2, <2>3, <2>4 DEF Get
  <2>. QED  BY <2>1, <2>2, <2>3, <2>5 DEF DefaultMeans
<1>. QED  BY <1>2, <1>3

LEMMA MemberMovedMeans ==
  ASSUME NEW t \in Tables, NEW u \in Tables, NEW by \in Lengths, Embeds(t, u, by),
         NEW m \in MemberDescs, NEW e, MemberMoved(m, e, u, by),
         NEW p \in MemberDecls, MemberMeans(t, m, p)
  PROVE  MemberMeans(u, e, p)
<1>1. /\ m.name \in Nat /\ m.meta \in Nat /\ p.metas \in Seq(Instances)
      /\ p.default \in DefaultTexts
  BY DEF MemberDescs, MemberDecls
<1>2. /\ StringIs(t, m.name, p.name) /\ m.of = p.of /\ DefaultMeans(t, m, p)
      /\ m.count = Len(p.metas) /\ MetasMean(t, m.meta, p.metas)
  BY DEF MemberMeans
<1>3. /\ e.name = m.name + by.strings /\ e.of = m.of /\ DefaultMoved(m, e, u, by)
      /\ e.meta = Shifted(m.meta, by.metas) /\ e.count = m.count
  BY DEF MemberMoved
<1>4. StringIs(u, m.name + by.strings, p.name)
  BY <1>1, <1>2, StringMoved
<1>5. MetasMean(u, Shifted(m.meta, by.metas), p.metas)
  BY <1>1, <1>2, MetasMoved
<1>6. DefaultMeans(u, e, p)
  BY <1>1, <1>2, <1>3, DefaultMovedMeans
<1>. QED  BY <1>2, <1>3, <1>4, <1>5, <1>6 DEF MemberMeans

LEMMA AliasMovedMeans ==
  ASSUME NEW t \in Tables, NEW u \in Tables, NEW by \in Lengths, Embeds(t, u, by),
         NEW a \in AliasDescs, NEW e, AliasMoved(a, e, by),
         NEW alias, AliasMeans(t, a, alias)
  PROVE  AliasMeans(u, e, alias)
<1>1. /\ a.name \in Nat /\ a.value \in Nat /\ by.values \in Nat
      /\ Len(t.values) \in Nat /\ DOMAIN t.values = 1..Len(t.values) /\ Len(u.values) \in Nat
      /\ by.values + Len(t.values) <= Len(u.values)
      /\ e.name = a.name + by.strings /\ e.value = a.value + by.values
  BY LengthsAre DEF AliasDescs, Lengths, Embeds, AliasMoved
<1>2. /\ StringIs(t, a.name, alias[1])
      /\ a.value < Len(t.values) /\ t.values[a.value + 1].value = alias[2]
  BY DEF AliasMeans, Get
<1>3. StringIs(u, e.name, alias[1])
  BY <1>1, <1>2, StringMoved
<1>4. a.value + 1 \in DOMAIN t.values /\ by.values + (a.value + 1) = e.value + 1
  BY <1>1, <1>2
<1>5. u.values[e.value + 1].value = alias[2]
  BY <1>2, <1>4 DEF Embeds, ValueMoved
<1>6. e.value < Len(u.values)
  BY <1>1, <1>2
<1>. QED  BY <1>3, <1>5, <1>6 DEF AliasMeans, Get

LEMMA ValueMovedMeans ==
  ASSUME NEW t \in Tables, NEW u \in Tables, NEW by \in Lengths, Embeds(t, u, by),
         NEW v \in ValueDescs, NEW e, ValueMoved(v, e, by),
         NEW p \in ValueDecls, ValueMeans(t, v, p)
  PROVE  ValueMeans(u, e, p)
<1>1. /\ v.alias \in Nat /\ v.meta \in Nat /\ p.metas \in Seq(Instances)
      /\ by.aliases \in Nat /\ Len(t.aliases) \in Nat /\ DOMAIN t.aliases = 1..Len(t.aliases)
      /\ Len(u.aliases) \in Nat /\ by.aliases + Len(t.aliases) <= Len(u.aliases)
  BY LengthsAre DEF ValueDescs, ValueDecls, Lengths, Embeds
<1>2. /\ v.value = p.value /\ v.alias < Len(t.aliases)
      /\ StringIs(t, t.aliases[v.alias + 1].name, p.name)
      /\ v.count = Len(p.metas) /\ MetasMean(t, v.meta, p.metas)
  BY DEF ValueMeans, Get
<1>3. /\ e.value = v.value /\ e.alias = v.alias + by.aliases
      /\ e.meta = Shifted(v.meta, by.metas) /\ e.count = v.count
  BY DEF ValueMoved
<1>4. v.alias + 1 \in DOMAIN t.aliases /\ by.aliases + (v.alias + 1) = e.alias + 1
  BY <1>1, <1>2, <1>3
<1>5. u.aliases[e.alias + 1].name = t.aliases[v.alias + 1].name + by.strings
  BY <1>4 DEF Embeds, AliasMoved
<1>6. t.aliases[v.alias + 1].name \in Nat
  <2>1. t.aliases[v.alias + 1] \in AliasDescs
    BY <1>4, TablesHave
  <2>. QED  BY <2>1 DEF AliasDescs
<1>7. StringIs(u, u.aliases[e.alias + 1].name, p.name)
  BY <1>2, <1>5, <1>6, StringMoved
<1>8. MetasMean(u, Shifted(v.meta, by.metas), p.metas)
  BY <1>1, <1>2, MetasMoved
<1>9. e.alias < Len(u.aliases)
  BY <1>1, <1>2, <1>3
<1>. QED  BY <1>2, <1>3, <1>7, <1>8, <1>9 DEF ValueMeans, Get

(* What has several parts.                                                 *)
LEMMA MembersMovedMean ==
  ASSUME NEW t \in Tables, NEW u \in Tables, NEW by \in Lengths, Embeds(t, u, by),
         NEW first \in Nat, NEW parts \in Seq(MemberDecls), NEW n \in 0..Len(parts),
         MembersMean(t, first, parts, n)
  PROVE  MembersMean(u, first + by.members, parts, n)
<1>1. /\ by.members \in Nat /\ Len(t.members) \in Nat /\ DOMAIN t.members = 1..Len(t.members)
      /\ Len(u.members) \in Nat /\ by.members + Len(t.members) <= Len(u.members)
      /\ Len(parts) \in Nat /\ DOMAIN parts = 1..Len(parts) /\ n \in Nat /\ n <= Len(parts)
      /\ first + n <= Len(t.members)
  BY LengthsAre DEF Lengths, Embeds, MembersMean
<1>2. ASSUME NEW i \in 1..n
      PROVE  MemberMeans(u, u.members[(first + by.members) + i], parts[i])
  <2>1. first + i \in DOMAIN t.members /\ by.members + (first + i) = (first + by.members) + i
    BY <1>1
  <2>2. t.members[first + i] \in MemberDescs
    BY <2>1, TablesHave
  <2>3. MemberMoved(t.members[first + i], u.members[by.members + (first + i)], u, by)
    BY <2>1 DEF Embeds
  <2>4. parts[i] \in MemberDecls
    BY <1>1
  <2>5. MemberMeans(t, t.members[first + i], parts[i])
    BY DEF MembersMean
  <2>6. MemberMeans(u, u.members[by.members + (first + i)], parts[i])
    BY <2>2, <2>3, <2>4, <2>5, MemberMovedMeans
  <2>. QED  BY <2>1, <2>6
<1>3. (first + by.members) + n <= Len(u.members)
  BY <1>1
<1>. QED  BY <1>2, <1>3 DEF MembersMean

LEMMA ValuesMovedMean ==
  ASSUME NEW t \in Tables, NEW u \in Tables, NEW by \in Lengths, Embeds(t, u, by),
         NEW first \in Nat, NEW parts \in Seq(ValueDecls), NEW n \in 0..Len(parts),
         ValuesMean(t, first, parts, n)
  PROVE  ValuesMean(u, first + by.values, parts, n)
<1>1. /\ by.values \in Nat /\ Len(t.values) \in Nat /\ DOMAIN t.values = 1..Len(t.values)
      /\ Len(u.values) \in Nat /\ by.values + Len(t.values) <= Len(u.values)
      /\ Len(parts) \in Nat /\ DOMAIN parts = 1..Len(parts) /\ n \in Nat /\ n <= Len(parts)
      /\ first + n <= Len(t.values)
  BY LengthsAre DEF Lengths, Embeds, ValuesMean
<1>2. ASSUME NEW i \in 1..n
      PROVE  ValueMeans(u, u.values[(first + by.values) + i], parts[i])
  <2>1. first + i \in DOMAIN t.values /\ by.values + (first + i) = (first + by.values) + i
    BY <1>1
  <2>2. t.values[first + i] \in ValueDescs
    BY <2>1, TablesHave
  <2>3. ValueMoved(t.values[first + i], u.values[by.values + (first + i)], by)
    BY <2>1 DEF Embeds
  <2>4. parts[i] \in ValueDecls
    BY <1>1
  <2>5. ValueMeans(t, t.values[first + i], parts[i])
    BY DEF ValuesMean
  <2>6. ValueMeans(u, u.values[by.values + (first + i)], parts[i])
    BY <2>2, <2>3, <2>4, <2>5, ValueMovedMeans
  <2>. QED  BY <2>1, <2>6
<1>3. (first + by.values) + n <= Len(u.values)
  BY <1>1
<1>. QED  BY <1>2, <1>3 DEF ValuesMean

LEMMA AliasesMovedMean ==
  ASSUME NEW t \in Tables, NEW u \in Tables, NEW by \in Lengths, Embeds(t, u, by),
         NEW first \in Nat, NEW S, NEW aliases \in Seq(S), AliasesMean(t, first, aliases)
  PROVE  AliasesMean(u, first + by.aliases, aliases)
<1>1. /\ by.aliases \in Nat /\ Len(t.aliases) \in Nat /\ DOMAIN t.aliases = 1..Len(t.aliases)
      /\ Len(u.aliases) \in Nat /\ by.aliases + Len(t.aliases) <= Len(u.aliases)
      /\ Len(aliases) \in Nat /\ DOMAIN aliases = 1..Len(aliases)
      /\ first + Len(aliases) <= Len(t.aliases)
  BY LengthsAre DEF Lengths, Embeds, AliasesMean
<1>2. ASSUME NEW i \in DOMAIN aliases
      PROVE  AliasMeans(u, u.aliases[(first + by.aliases) + i], aliases[i])
  <2>1. first + i \in DOMAIN t.aliases /\ by.aliases + (first + i) = (first + by.aliases) + i
    BY <1>1
  <2>2. t.aliases[first + i] \in AliasDescs
    BY <2>1, TablesHave
  <2>3. AliasMoved(t.aliases[first + i], u.aliases[by.aliases + (first + i)], by)
    BY <2>1 DEF Embeds
  <2>4. AliasMeans(t, t.aliases[first + i], aliases[i])
    BY DEF AliasesMean
  <2>5. AliasMeans(u, u.aliases[by.aliases + (first + i)], aliases[i])
    BY <2>2, <2>3, <2>4, AliasMovedMeans
  <2>. QED  BY <2>1, <2>5
<1>3. (first + by.aliases) + Len(aliases) <= Len(u.aliases)
  BY <1>1
<1>. QED  BY <1>2, <1>3 DEF AliasesMean

LEMMA TypeMovedMeans ==
  ASSUME NEW t \in Tables, NEW u \in Tables, NEW by \in Lengths, Embeds(t, u, by),
         NEW d \in TypeDescs, NEW e, TypeMoved(d, e, by),
         NEW decl \in TypeDecls, TypeMeans(t, d, decl)
  PROVE  TypeMeans(u, e, decl)
<1>1. /\ d.name \in Nat /\ d.comment \in Comments /\ d.meta \in Nat /\ d.first \in Nat
      /\ decl.metas \in Seq(Instances) /\ decl.parts \in Seq(MemberDecls)
  BY DEF TypeDescs, TypeDecls
<1>2. /\ StringIs(t, d.name, decl.name) /\ CommentMeans(t, d.comment, decl.comment)
      /\ d.count = Len(decl.metas) /\ MetasMean(t, d.meta, decl.metas)
      /\ d.parts = Len(decl.parts) /\ MembersMean(t, d.first, decl.parts, d.parts)
  BY DEF TypeMeans
<1>3. /\ e.name = d.name + by.strings /\ e.comment = Moved(d.comment, by.strings)
      /\ e.first = d.first + by.members /\ e.parts = d.parts
      /\ e.meta = Shifted(d.meta, by.metas) /\ e.count = d.count
  BY DEF TypeMoved
<1>4. StringIs(u, d.name + by.strings, decl.name)
  BY <1>1, <1>2, StringMoved
<1>5. CommentMeans(u, Moved(d.comment, by.strings), decl.comment)
  BY <1>1, <1>2, CommentMoved
<1>6. MetasMean(u, Shifted(d.meta, by.metas), decl.metas)
  BY <1>1, <1>2, MetasMoved
<1>7. d.parts \in 0..Len(decl.parts)
  BY <1>1, <1>2
<1>8. MembersMean(u, d.first + by.members, decl.parts, d.parts)
  BY <1>1, <1>2, <1>7, MembersMovedMean
<1>. QED  BY <1>2, <1>3, <1>4, <1>5, <1>6, <1>8 DEF TypeMeans

(* The aliases of enumerators are a sequence.                              *)
AliasesOfPart(p) == Mapped(<<p.name>> \o p.aliases, LAMBDA name : <<name, p.value>>)
LEMMA AliasesAreSequence ==
  ASSUME NEW decl, decl.parts \in Seq(ValueDecls)
  PROVE  /\ DeclaredAliases(decl) = FlattenSeq([i \in DOMAIN decl.parts |-> AliasesOfPart(decl.parts[i])])
         /\ DeclaredAliases(decl) \in Seq(STRING \X Int)
         /\ \A i \in DOMAIN decl.parts : AliasesOfPart(decl.parts[i]) \in Seq(STRING \X Int)
<1> DEFINE aliases == [i \in DOMAIN decl.parts |-> AliasesOfPart(decl.parts[i])]
<1>1. DeclaredAliases(decl) = FlattenSeq(aliases)
  BY DEF DeclaredAliases, Mapped, AliasesOfPart
<1>2. ASSUME NEW p \in ValueDecls
      PROVE  AliasesOfPart(p) \in Seq(STRING \X Int)
  <2> DEFINE names == <<p.name>> \o p.aliases
  <2>1. p.name \in STRING /\ p.aliases \in Seq(STRING) /\ p.value \in Int
    BY DEF ValueDecls
  <2>2. names \in Seq(STRING)
    BY <2>1, OneBefore
  <2>3. Len(names) \in Nat /\ DOMAIN names = 1..Len(names) /\ \A i \in DOMAIN names : names[i] \in STRING
    BY <2>2
  <2>4. AliasesOfPart(p) = [i \in DOMAIN names |-> <<names[i], p.value>>]
    BY DEF AliasesOfPart, Mapped
  <2> HIDE DEF names
  <2>5. [i \in DOMAIN names |-> <<names[i], p.value>>] \in [1..Len(names) -> STRING \X Int]
    BY <2>1, <2>3
  <2>. QED  BY <2>3, <2>4, <2>5, FunctionIsSequence
<1>3. /\ Len(decl.parts) \in Nat /\ DOMAIN decl.parts = 1..Len(decl.parts)
      /\ \A i \in DOMAIN decl.parts : decl.parts[i] \in ValueDecls
  OBVIOUS
<1>4. aliases \in Seq(Seq(STRING \X Int))
  <2>1. aliases \in [1..Len(decl.parts) -> Seq(STRING \X Int)]
    BY <1>2, <1>3
  <2>. QED  BY <1>3, <2>1, FunctionIsSequence
<1>5. FlattenSeq(aliases) \in Seq(STRING \X Int)
  BY <1>4, Flattened
<1>. QED  BY <1>1, <1>2, <1>3, <1>5

LEMMA EnumMovedMeans ==
  ASSUME NEW t \in Tables, NEW u \in Tables, NEW by \in Lengths, Embeds(t, u, by),
         NEW d \in EnumDescs, NEW e, EnumMoved(d, e, by),
         NEW decl \in EnumDecls, EnumMeans(t, d, decl)
  PROVE  EnumMeans(u, e, decl)
<1>1. /\ d.name \in Nat /\ d.comment \in Comments /\ d.meta \in Nat /\ d.first \in Nat
      /\ d.alias \in Nat
      /\ decl.metas \in Seq(Instances) /\ decl.parts \in Seq(ValueDecls)
  BY DEF EnumDescs, EnumDecls
<1>2. /\ StringIs(t, d.name, decl.name) /\ CommentMeans(t, d.comment, decl.comment)
      /\ d.count = Len(decl.metas) /\ MetasMean(t, d.meta, decl.metas)
      /\ d.parts = Len(decl.parts) /\ ValuesMean(t, d.first, decl.parts, d.parts)
      /\ d.aliases = Len(DeclaredAliases(decl)) /\ AliasesMean(t, d.alias, DeclaredAliases(decl))
  BY DEF EnumMeans
<1>3. /\ e.name = d.name + by.strings /\ e.comment = Moved(d.comment, by.strings)
      /\ e.first = d.first + by.values /\ e.parts = d.parts
      /\ e.alias = d.alias + by.aliases /\ e.aliases = d.aliases
      /\ e.meta = Shifted(d.meta, by.metas) /\ e.count = d.count
  BY DEF EnumMoved
<1>4. StringIs(u, d.name + by.strings, decl.name)
  BY <1>1, <1>2, StringMoved
<1>5. CommentMeans(u, Moved(d.comment, by.strings), decl.comment)
  BY <1>1, <1>2, CommentMoved
<1>6. MetasMean(u, Shifted(d.meta, by.metas), decl.metas)
  BY <1>1, <1>2, MetasMoved
<1>7. d.parts \in 0..Len(decl.parts)
  BY <1>1, <1>2
<1>8. ValuesMean(u, d.first + by.values, decl.parts, d.parts)
  BY <1>1, <1>2, <1>7, ValuesMovedMean
<1>9. AliasesMean(u, d.alias + by.aliases, DeclaredAliases(decl))
  BY <1>1, <1>2, AliasesAreSequence, AliasesMovedMean
<1>. QED  BY <1>2, <1>3, <1>4, <1>5, <1>6, <1>8, <1>9 DEF EnumMeans

(***************************************************************************)
(* Tables that grow keep their meaning.                                    *)
(***************************************************************************)
LEMMA MovedNowhere ==
  ASSUME NEW u
  PROVE  /\ Nowhere \in Lengths
         /\ \A n \in Int : n + 0 = n
         /\ \A n \in Nat : Shifted(n, 0) = n
         /\ \A n \in Comments : Moved(n, 0) = n
         /\ \A m \in MemberDescs : MemberMoved(m, m, u, Nowhere)
         /\ \A v \in ValueDescs : ValueMoved(v, v, Nowhere)
         /\ \A a \in AliasDescs : AliasMoved(a, a, Nowhere)
         /\ \A d \in TypeDescs : TypeMoved(d, d, Nowhere)
         /\ \A d \in EnumDescs : EnumMoved(d, d, Nowhere)
<1>1. Nowhere \in Lengths /\ \A n \in Int : n + 0 = n
  BY DEF Nowhere, Lengths
<1>2. \A n \in Nat : Shifted(n, 0) = n
  BY DEF Shifted
<1>3. \A n \in Int : Moved(n, 0) = n
  BY DEF Moved, None
<1>4. \A n \in Comments : n \in Int
  BY DEF Comments, None
<1>5. /\ Nowhere.strings = 0 /\ Nowhere.members = 0 /\ Nowhere.values = 0
      /\ Nowhere.aliases = 0 /\ Nowhere.defaults = 0 /\ Nowhere.metas = 0
  BY DEF Nowhere
<1>6. ASSUME NEW m \in MemberDescs
      PROVE  MemberMoved(m, m, u, Nowhere)
  <2>1. m.name \in Int /\ m.meta \in Nat /\ m.default \in Int
    BY DEF MemberDescs
  <2>2. DefaultMoved(m, m, u, Nowhere)
    BY <1>3, <1>5, <2>1 DEF DefaultMoved, None
  <2>. QED  BY <1>1, <1>2, <1>5, <2>1, <2>2 DEF MemberMoved
<1>7. ASSUME NEW v \in ValueDescs
      PROVE  ValueMoved(v, v, Nowhere)
  BY <1>1, <1>2, <1>5 DEF ValueMoved, ValueDescs
<1>8. ASSUME NEW a \in AliasDescs
      PROVE  AliasMoved(a, a, Nowhere)
  BY <1>1, <1>5 DEF AliasMoved, AliasDescs
<1>9. ASSUME NEW d \in TypeDescs
      PROVE  TypeMoved(d, d, Nowhere)
  BY <1>1, <1>2, <1>3, <1>4, <1>5 DEF TypeMoved, TypeDescs
<1>10. ASSUME NEW d \in EnumDescs
       PROVE  EnumMoved(d, d, Nowhere)
  BY <1>1, <1>2, <1>3, <1>4, <1>5 DEF EnumMoved, EnumDescs
<1>. QED  BY <1>1, <1>2, <1>3, <1>4, <1>6, <1>7, <1>8, <1>9, <1>10

(* Growing is appending, and what EarlierKept allows a load to do with     *)
(* what it appended itself.                                                *)
LEMMA GrownEmbeds ==
  ASSUME NEW t \in Tables, NEW u \in Tables,
         Longer(t.strings, u.strings), Longer(t.values, u.values),
         Longer(t.aliases, u.aliases), Longer(t.defaults, u.defaults),
         Len(t.members) <= Len(u.members),
         \A i \in 1..Len(t.members) : \/ u.members[i] = t.members[i]
                                      \/ MemberMoved(t.members[i], u.members[i], u, Nowhere),
         Len(t.metas) <= Len(u.metas),
         \A i \in 1..Len(t.metas) : MetaName(u.metas[i].data) = MetaName(t.metas[i].data)
  PROVE  Embeds(t, u, Nowhere)
<1>1. /\ Nowhere.strings = 0 /\ Nowhere.members = 0 /\ Nowhere.values = 0
      /\ Nowhere.aliases = 0 /\ Nowhere.defaults = 0 /\ Nowhere.metas = 0
  BY DEF Nowhere
<1>2. /\ Len(t.strings) \in Nat /\ DOMAIN t.strings = 1..Len(t.strings)
      /\ Len(t.members) \in Nat /\ DOMAIN t.members = 1..Len(t.members)
      /\ Len(t.values) \in Nat /\ DOMAIN t.values = 1..Len(t.values)
      /\ Len(t.aliases) \in Nat /\ DOMAIN t.aliases = 1..Len(t.aliases)
      /\ Len(t.defaults) \in Nat /\ DOMAIN t.defaults = 1..Len(t.defaults)
      /\ Len(t.metas) \in Nat /\ DOMAIN t.metas = 1..Len(t.metas)
  BY LengthsAre
<1>3. \A n \in Nat : 0 + n = n
  OBVIOUS
<1>4. \A i \in DOMAIN t.members : MemberMoved(t.members[i], u.members[0 + i], u, Nowhere)
  <2>1. \A i \in DOMAIN t.members : t.members[i] \in MemberDescs
    BY TablesHave
  <2>2. \A i \in DOMAIN t.members : MemberMoved(t.members[i], u.members[i], u, Nowhere)
    BY <1>2, <2>1, MovedNowhere
  <2>. QED  BY <1>2, <2>2
<1>5. \A i \in DOMAIN t.values : ValueMoved(t.values[i], u.values[0 + i], Nowhere)
  <2>1. \A i \in DOMAIN t.values : t.values[i] \in ValueDescs
    BY TablesHave
  <2>2. \A i \in DOMAIN t.values : u.values[i] = t.values[i]
    BY <1>2 DEF Longer
  <2>3. \A i \in DOMAIN t.values : ValueMoved(t.values[i], u.values[i], Nowhere)
    BY <2>1, <2>2, MovedNowhere
  <2>. QED  BY <1>2, <2>3
<1>6. \A i \in DOMAIN t.aliases : AliasMoved(t.aliases[i], u.aliases[0 + i], Nowhere)
  <2>1. \A i \in DOMAIN t.aliases : t.aliases[i] \in AliasDescs
    BY TablesHave
  <2>2. \A i \in DOMAIN t.aliases : u.aliases[i] = t.aliases[i]
    BY <1>2 DEF Longer
  <2>3. \A i \in DOMAIN t.aliases : AliasMoved(t.aliases[i], u.aliases[i], Nowhere)
    BY <2>1, <2>2, MovedNowhere
  <2>. QED  BY <1>2, <2>3
<1>7. /\ \A i \in DOMAIN t.strings : u.strings[0 + i] = t.strings[i]
      /\ \A i \in DOMAIN t.defaults : u.defaults[0 + i] = t.defaults[i]
      /\ \A i \in DOMAIN t.metas : MetaName(u.metas[0 + i].data) = MetaName(t.metas[i].data)
  <2>1. ASSUME NEW i \in DOMAIN t.strings
        PROVE  u.strings[0 + i] = t.strings[i]
    BY <1>2 DEF Longer
  <2>2. ASSUME NEW i \in DOMAIN t.defaults
        PROVE  u.defaults[0 + i] = t.defaults[i]
    BY <1>2 DEF Longer
  <2>3. ASSUME NEW i \in DOMAIN t.metas
        PROVE  MetaName(u.metas[0 + i].data) = MetaName(t.metas[i].data)
    <3>1. i \in 1..Len(t.metas) /\ 0 + i = i
      BY <1>2
    <3>. QED  BY <3>1
  <2>. QED  BY <2>1, <2>2, <2>3
<1>8. /\ 0 + Len(t.strings) <= Len(u.strings) /\ 0 + Len(t.members) <= Len(u.members)
      /\ 0 + Len(t.values) <= Len(u.values) /\ 0 + Len(t.aliases) <= Len(u.aliases)
      /\ 0 + Len(t.defaults) <= Len(u.defaults) /\ 0 + Len(t.metas) <= Len(u.metas)
  BY <1>2, <1>3 DEF Longer
<1>. QED  BY <1>1, <1>4, <1>5, <1>6, <1>7, <1>8 DEF Embeds

LEMMA GrownMean ==
  ASSUME NEW t \in Tables, NEW u \in Tables, Embeds(t, u, Nowhere)
  PROVE  /\ \A meta \in Nat : \A metas \in Seq(Instances) :
              MetasMean(t, meta, metas) => MetasMean(u, meta, metas)
         /\ \A first \in Nat : \A parts \in Seq(MemberDecls) : \A n \in 0..Len(parts) :
              MembersMean(t, first, parts, n) => MembersMean(u, first, parts, n)
         /\ \A first \in Nat : \A parts \in Seq(ValueDecls) : \A n \in 0..Len(parts) :
              ValuesMean(t, first, parts, n) => ValuesMean(u, first, parts, n)
         /\ \A first \in Nat : \A aliases \in Seq(STRING \X Int) :
              AliasesMean(t, first, aliases) => AliasesMean(u, first, aliases)
         /\ \A d \in TypeDescs : \A decl \in TypeDecls : TypeMeans(t, d, decl) => TypeMeans(u, d, decl)
         /\ \A d \in EnumDescs : \A decl \in EnumDecls : EnumMeans(t, d, decl) => EnumMeans(u, d, decl)
<1>1. /\ Nowhere.members = 0 /\ Nowhere.values = 0 /\ Nowhere.aliases = 0 /\ Nowhere.metas = 0
      /\ Nowhere \in Lengths
  BY DEF Nowhere, Lengths
<1>2. ASSUME NEW meta \in Nat, NEW metas \in Seq(Instances), MetasMean(t, meta, metas)
      PROVE  MetasMean(u, meta, metas)
  <2>1. MetasMean(u, Shifted(meta, Nowhere.metas), metas)
    BY <1>1, <1>2, MetasMoved
  <2>. QED  BY <1>1, <2>1, MovedNowhere
<1>3. ASSUME NEW first \in Nat, NEW parts \in Seq(MemberDecls), NEW n \in 0..Len(parts),
             MembersMean(t, first, parts, n)
      PROVE  MembersMean(u, first, parts, n)
  <2>1. MembersMean(u, first + Nowhere.members, parts, n)
    BY <1>1, <1>3, MembersMovedMean
  <2>2. first + 0 = first
    OBVIOUS
  <2>. QED  BY <1>1, <2>1, <2>2
<1>4. ASSUME NEW first \in Nat, NEW parts \in Seq(ValueDecls), NEW n \in 0..Len(parts),
             ValuesMean(t, first, parts, n)
      PROVE  ValuesMean(u, first, parts, n)
  <2>1. ValuesMean(u, first + Nowhere.values, parts, n)
    BY <1>1, <1>4, ValuesMovedMean
  <2>2. first + 0 = first
    OBVIOUS
  <2>. QED  BY <1>1, <2>1, <2>2
<1>5. ASSUME NEW first \in Nat, NEW aliases \in Seq(STRING \X Int), AliasesMean(t, first, aliases)
      PROVE  AliasesMean(u, first, aliases)
  <2>1. AliasesMean(u, first + Nowhere.aliases, aliases)
    BY <1>1, <1>5, AliasesMovedMean
  <2>2. first + 0 = first
    OBVIOUS
  <2>. QED  BY <1>1, <2>1, <2>2
<1>6. ASSUME NEW d \in TypeDescs, NEW decl \in TypeDecls, TypeMeans(t, d, decl)
      PROVE  TypeMeans(u, d, decl)
  BY <1>1, <1>6, MovedNowhere, TypeMovedMeans
<1>7. ASSUME NEW d \in EnumDescs, NEW decl \in EnumDecls, EnumMeans(t, d, decl)
      PROVE  EnumMeans(u, d, decl)
  BY <1>1, <1>7, MovedNowhere, EnumMovedMeans
<1>. QED  BY <1>2, <1>3, <1>4, <1>5, <1>6, <1>7

(* What the descriptions of tables come from are declarations of types and *)
(* of enums.                                                               *)
LEMMA OrderHas ==
  ASSUME NEW s \in Seq(Decls), NEW n \in Nat, NEW g, NEW kind \in {"type", "enum"},
         Order(g, n, s, kind), NEW i \in 1..n
  PROVE  /\ g[i] \in DOMAIN s /\ s[g[i]].kind = kind
         /\ kind = "type" => s[g[i]] \in TypeDecls
         /\ kind = "enum" => s[g[i]] \in EnumDecls
<1>1. g[i] \in DOMAIN s /\ s[g[i]].kind = kind
  BY DEF Order
<1>2. s[g[i]] \in Decls
  BY <1>1
<1>. QED  BY <1>1, <1>2, DeclKinds

LEMMA GrownTypes ==
  ASSUME NEW t \in Tables, NEW u \in Tables, Embeds(t, u, Nowhere),
         NEW s \in Seq(Decls), NEW g, Order(g, Len(t.types), s, "type"),
         \A i \in DOMAIN t.types : TypeMeans(t, t.types[i], s[g[i]])
  PROVE  \A i \in DOMAIN t.types : TypeMeans(u, t.types[i], s[g[i]])
<1>1. Len(t.types) \in Nat /\ DOMAIN t.types = 1..Len(t.types)
  BY LengthsAre
<1>2. ASSUME NEW i \in DOMAIN t.types
      PROVE  TypeMeans(u, t.types[i], s[g[i]])
  <2>1. t.types[i] \in TypeDescs
    BY TablesHave
  <2>2. s[g[i]] \in TypeDecls
    BY <1>1, OrderHas
  <2>3. TypeMeans(t, t.types[i], s[g[i]])
    OBVIOUS
  <2>. QED  BY <2>1, <2>2, <2>3, GrownMean
<1>. QED  BY <1>2

LEMMA GrownEnums ==
  ASSUME NEW t \in Tables, NEW u \in Tables, Embeds(t, u, Nowhere),
         NEW s \in Seq(Decls), NEW g, Order(g, Len(t.enums), s, "enum"),
         \A i \in DOMAIN t.enums : EnumMeans(t, t.enums[i], s[g[i]])
  PROVE  \A i \in DOMAIN t.enums : EnumMeans(u, t.enums[i], s[g[i]])
<1>1. Len(t.enums) \in Nat /\ DOMAIN t.enums = 1..Len(t.enums)
  BY LengthsAre
<1>2. ASSUME NEW i \in DOMAIN t.enums
      PROVE  EnumMeans(u, t.enums[i], s[g[i]])
  <2>1. t.enums[i] \in EnumDescs
    BY TablesHave
  <2>2. s[g[i]] \in EnumDecls
    BY <1>1, OrderHas
  <2>3. EnumMeans(t, t.enums[i], s[g[i]])
    OBVIOUS
  <2>. QED  BY <2>1, <2>2, <2>3, GrownMean
<1>. QED  BY <1>2

LEMMA GrownTables ==
  ASSUME NEW t \in Tables, NEW u \in Tables, Embeds(t, u, Nowhere), NEW s \in Seq(Decls)
  PROVE  /\ TypesMean(t, s) /\ u.types = t.types => TypesMean(u, s)
         /\ EnumsMean(t, s) /\ u.enums = t.enums => EnumsMean(u, s)
<1>1. ASSUME TypesMean(t, s), u.types = t.types
      PROVE  TypesMean(u, s)
  <2>1. PICK g : /\ Order(g, Len(t.types), s, "type")
                 /\ \A i \in DOMAIN t.types : TypeMeans(t, t.types[i], s[g[i]])
    BY <1>1 DEF TypesMean
  <2>2. \A i \in DOMAIN t.types : TypeMeans(u, t.types[i], s[g[i]])
    BY <2>1, GrownTypes
  <2>. QED  BY <1>1, <2>1, <2>2 DEF TypesMean
<1>2. ASSUME EnumsMean(t, s), u.enums = t.enums
      PROVE  EnumsMean(u, s)
  <2>1. PICK g : /\ Order(g, Len(t.enums), s, "enum")
                 /\ \A i \in DOMAIN t.enums : EnumMeans(t, t.enums[i], s[g[i]])
    BY <1>2 DEF EnumsMean
  <2>2. \A i \in DOMAIN t.enums : EnumMeans(u, t.enums[i], s[g[i]])
    BY <2>1, GrownEnums
  <2>. QED  BY <1>2, <2>1, <2>2 DEF EnumsMean
<1>. QED  BY <1>1, <1>2

LEMMA GrowsEmbeds ==
  ASSUME IInv, ctx' \in Tables, Grows, Longer(ctx.members, ctx'.members),
         Longer(ctx.metas, ctx'.metas)
  PROVE  Embeds(ctx, ctx', Nowhere)
<1>1. PICK t \in Tables, u \in Tables : t = ctx /\ u = ctx'
  BY DEF IInv, TablesOK
<1>2. /\ Longer(t.strings, u.strings) /\ Longer(t.values, u.values)
      /\ Longer(t.aliases, u.aliases) /\ Longer(t.defaults, u.defaults)
      /\ Longer(t.members, u.members) /\ Longer(t.metas, u.metas)
  BY <1>1 DEF Grows, NamesGrow
<1>3. /\ Len(t.members) <= Len(u.members)
      /\ \A i \in 1..Len(t.members) : u.members[i] = t.members[i]
      /\ Len(t.metas) <= Len(u.metas)
      /\ \A i \in 1..Len(t.metas) : MetaName(u.metas[i].data) = MetaName(t.metas[i].data)
  BY <1>2 DEF Longer
<1>4. Embeds(t, u, Nowhere)
  BY <1>2, <1>3, GrownEmbeds
<1>. QED  BY <1>1, <1>4

(***************************************************************************)
(* What is read from text means what it was read from.                     *)
(***************************************************************************)
LEMMA StringAdded ==
  ASSUME NEW s \in Seq(STRING), NEW r \in Seq(STRING), NEW u, u.strings = s \o r,
         NEW i \in DOMAIN r
  PROVE  StringIs(u, Len(s) + i - 1, r[i])
<1>1. /\ Len(s) \in Nat /\ Len(r) \in Nat /\ i \in 1..Len(r)
      /\ Len(u.strings) = Len(s) + Len(r) /\ u.strings[Len(s) + i] = r[i]
  BY Concatenated
<1>2. Len(s) + i - 1 < Len(u.strings) /\ (Len(s) + i - 1) + 1 = Len(s) + i
  BY <1>1
<1>. QED  BY <1>1, <1>2 DEF StringIs, Get

(* A name and a comment.                                                   *)
LEMMA NameMeans ==
  ASSUME ctx \in Tables, NEW u, NEW d, d.name \in STRING, d.comment \in STRING,
         u.strings = ctx.strings \o <<d.name>> \o CommentString(d)
  PROVE  /\ StringIs(u, Len(ctx.strings), d.name)
         /\ CommentMeans(u, CommentIndex(d, 1), d.comment)
<1>1. PICK s \in Seq(STRING), name \in STRING, comment \in STRING :
        s = ctx.strings /\ name = d.name /\ comment = d.comment
  BY TablesHave
<1>2. Len(s) \in Nat /\ Len(s) + 1 - 1 = Len(s) /\ Len(s) + 2 - 1 = Len(s) + 1 /\ Len(s) + 1 # None
  BY DEF None
<1>3. CASE comment = ""
  <2>1. u.strings = s \o <<name>>
    <3>1. CommentString(d) = <<>>
      BY <1>1, <1>3 DEF CommentString
    <3>2. s \o <<name>> \o <<>> = s \o <<name>>
      OBVIOUS
    <3>. QED  BY <1>1, <3>1, <3>2
  <2>2. <<name>> \in Seq(STRING) /\ 1 \in DOMAIN <<name>> /\ <<name>>[1] = name
    OBVIOUS
  <2>3. StringIs(u, Len(s) + 1 - 1, name)
    BY <2>1, <2>2, StringAdded
  <2>4. CommentIndex(d, 1) = None
    BY <1>1, <1>3 DEF CommentIndex
  <2>. QED  BY <1>1, <1>2, <1>3, <2>3, <2>4 DEF CommentMeans
<1>4. CASE comment # ""
  <2>1. PICK r \in Seq(STRING) : r = <<name>> \o <<comment>> /\ u.strings = s \o r
    <3>1. CommentString(d) = <<comment>>
      BY <1>1, <1>4 DEF CommentString
    <3>2. <<name>> \in Seq(STRING) /\ <<comment>> \in Seq(STRING)
      OBVIOUS
    <3>3. (s \o <<name>>) \o <<comment>> = s \o (<<name>> \o <<comment>>)
      BY <3>2, JoinedTwice
    <3>4. <<name>> \o <<comment>> \in Seq(STRING)
      BY <3>2
    <3>. QED  BY <1>1, <3>1, <3>3, <3>4
  <2>2. 1 \in DOMAIN r /\ 2 \in DOMAIN r /\ r[1] = name /\ r[2] = comment
    BY <2>1
  <2>3. StringIs(u, Len(s) + 1 - 1, r[1]) /\ StringIs(u, Len(s) + 2 - 1, r[2])
    BY <2>1, <2>2, StringAdded
  <2>4. CommentIndex(d, 1) = Len(s) + 1
    BY <1>1, <1>4 DEF CommentIndex
  <2>. QED  BY <1>1, <1>2, <2>2, <2>3, <2>4 DEF CommentMeans
<1>. QED  BY <1>3, <1>4

LEMMA PendingMeans ==
  ASSUME ctx \in Tables, NEW u, NEW metas \in Seq(Instances),
         u.metas = ctx.metas \o Pending(metas)
  PROVE  MetasMean(u, MetaStart(metas), metas)
<1>1. PICK s \in Seq(Metas), r \in Seq(Metas) :
        s = ctx.metas /\ r = Pending(metas) /\ Len(r) = Len(metas)
  BY TablesHave, PendingHas
<1>2. /\ Len(s) \in Nat /\ Len(metas) \in Nat /\ DOMAIN metas = 1..Len(metas)
      /\ DOMAIN r = DOMAIN metas
      /\ Len(u.metas) = Len(s) + Len(metas)
      /\ \A i \in DOMAIN r : u.metas[Len(s) + i] = r[i]
  BY <1>1, Concatenated
<1>3. CASE metas = <<>>
  BY <1>3 DEF MetaStart, MetasMean
<1>4. CASE metas # <<>>
  <2>1. MetaStart(metas) = Len(s)
    BY <1>1, <1>4 DEF MetaStart
  <2>2. \A i \in DOMAIN metas : r[i].data = metas[i]
    BY <1>1 DEF Pending, Mapped
  <2>3. \A i \in DOMAIN metas : u.metas[Len(s) + i].data = metas[i]
    BY <1>2, <2>2
  <2>4. Len(s) + Len(metas) <= Len(u.metas)
    BY <1>2
  <2>. QED  BY <2>1, <2>3, <2>4 DEF MetasMean
<1>. QED  BY <1>3, <1>4

(***************************************************************************)
(* What is declared so far is a sequence of declarations, and the tables   *)
(* at the end of a load are tables.                                        *)
(***************************************************************************)
LEMMA FirstOfHas ==
  ASSUME NEW S, NEW s \in Seq(S), NEW n \in 0..Len(s)
  PROVE  /\ FirstOf(s, n) \in Seq(S) /\ Len(FirstOf(s, n)) = n
         /\ \A i \in 1..n : FirstOf(s, n)[i] = s[i]
         /\ n = Len(s) => FirstOf(s, n) = s
         /\ n < Len(s) => FirstOf(s, n + 1) = FirstOf(s, n) \o <<s[n + 1]>>
<1>1. Len(s) \in Nat /\ n \in Nat /\ \A i \in 1..Len(s) : s[i] \in S
  OBVIOUS
<1>2. /\ FirstOf(s, n) \in Seq(S) /\ Len(FirstOf(s, n)) = n
      /\ \A i \in 1..n : FirstOf(s, n)[i] = s[i]
  <2>1. FirstOf(s, n) \in [1..n -> S]
    BY <1>1 DEF FirstOf
  <2>. QED  BY <1>1, <2>1, FunctionIsSequence DEF FirstOf
<1>3. n = Len(s) => FirstOf(s, n) = s
  BY DEF FirstOf
<1>4. ASSUME n < Len(s)
      PROVE  FirstOf(s, n + 1) = FirstOf(s, n) \o <<s[n + 1]>>
  <2>1. PICK r \in Seq(S) : r = FirstOf(s, n) /\ Len(r) = n /\ \A i \in 1..n : r[i] = s[i]
    BY <1>2
  <2>2. PICK x \in S : x = s[n + 1]
    BY <1>1, <1>4
  <2>3. r \o <<x>> = [i \in 1..(n + 1) |-> s[i]]
    BY <1>1, <2>1, <2>2
  <2>. QED  BY <2>1, <2>2, <2>3 DEF FirstOf
<1>. QED  BY <1>2, <1>3, <1>4

LEMMA SoFarIs ==
  ASSUME IInv
  PROVE  Declared \in Seq(Decls) /\ Fresh \in Seq(Decls) /\ SoFar \in Seq(Decls)
<1>1. Declared \in Seq(Decls)
  BY DeclaredIsLoaded
<1>2. Fresh \in Seq(Decls)
  <2>1. CASE phase = "text"
    <3>1. lib \in Seq(Decls) /\ pos[1] \in 1..(Len(lib) + 1)
      BY <2>1 DEF IInv, ReadingOK
    <3>2. pos[1] - 1 \in 0..Len(lib)
      BY <3>1
    <3>3. FirstOf(lib, pos[1] - 1) \in Seq(Decls)
      BY <3>1, <3>2, FirstOfHas
    <3>. QED  BY <2>1, <3>3 DEF Fresh
  <2>2. CASE phase \in {"defaults", "metadata"}
    BY <2>2 DEF IInv, BuildingOK, Fresh
  <2>3. CASE phase = "binary"
    <3>1. lib \in Files
      BY <2>3 DEF IInv, LoadingOK
    <3>2. lib.declared \in Seq(Decls)
      BY <3>1 DEF Files
    <3>. QED  BY <2>3, <3>2 DEF Fresh
  <2>4. CASE phase \notin {"text", "defaults", "metadata", "binary"}
    BY <2>4 DEF Fresh
  <2>. QED  BY <2>1, <2>2, <2>3, <2>4
<1>. QED  BY <1>1, <1>2 DEF SoFar

LEMMA WholeIs ==
  ASSUME IInv
  PROVE  Whole \in Tables
<1>1. ctx \in Tables
  BY DEF IInv, TablesOK
<1>2. CASE phase = "binary"
  <2> DEFINE metas == [i \in 1..(start.metas + Len(lib.tables.metas)) |->
                         IF i <= Len(ctx.metas) THEN ctx.metas[i]
                         ELSE lib.tables.metas[i - start.metas]]
  <2>1. lib.tables \in Tables
    BY <1>2 DEF IInv, LoadingOK, Files
  <2>2. PICK s \in Seq(Metas), r \in Seq(Metas), p \in Nat, n \in Nat :
          /\ s = ctx.metas /\ r = lib.tables.metas /\ p = pos[1] /\ n = start.metas
          /\ p >= 1 /\ Len(s) + 1 = n + p
    <3>1. /\ pos[1] \in 1..(Len(lib.tables.metas) + 1) /\ start.metas \in Nat
          /\ Len(ctx.metas) + 1 = start.metas + pos[1]
      BY <1>2 DEF IInv, LoadingOK, StartOK
    <3>. QED  BY <1>1, <2>1, <3>1, TablesHave
  <2>3. /\ Len(s) \in Nat /\ Len(r) \in Nat
        /\ \A i \in 1..Len(s) : s[i] \in Metas
        /\ \A i \in 1..Len(r) : r[i] \in Metas
    OBVIOUS
  <2>4. ASSUME NEW i \in 1..(n + Len(r))
        PROVE  (IF i <= Len(s) THEN s[i] ELSE r[i - n]) \in Metas
    <3>1. CASE i <= Len(s)
      BY <2>3, <3>1
    <3>2. CASE ~(i <= Len(s))
      <4>1. i - n \in 1..Len(r)
        BY <2>2, <2>3, <3>2
      <4>. QED  BY <2>3, <3>2, <4>1
    <3>. QED  BY <3>1, <3>2
  <2>5. metas \in [1..(n + Len(r)) -> Metas] /\ n + Len(r) \in Nat
    BY <2>2, <2>3, <2>4
  <2>6. metas \in Seq(Metas)
    BY <2>5, FunctionIsSequence
  <2>7. ctx.defaults \o lib.tables.defaults \in Seq(Defaults)
    BY <1>1, <2>1, TablesHave, Concatenated
  <2>8. Whole = [ctx EXCEPT !.defaults = ctx.defaults \o lib.tables.defaults, !.metas = metas]
    BY <1>2 DEF Whole
  <2> HIDE DEF metas
  <2>. QED  BY <1>1, <2>6, <2>7, <2>8 DEF Tables
<1>3. CASE phase # "binary"
  BY <1>1, <1>3 DEF Whole
<1>. QED  BY <1>2, <1>3

(***************************************************************************)
(* Steps that read text.                                                   *)
(***************************************************************************)
LEMMA TextPacked ==
  ASSUME IInv, PackedOK, phase = "text", phase' = "text", start' = start, ctx' \in Tables, Grows,
         \A i \in DOMAIN ctx'.members : \/ i \in DOMAIN ctx.members /\ ctx'.members[i] = ctx.members[i]
                                        \/ i \notin DOMAIN ctx.members /\ ctx'.members[i].default <= None
  PROVE  PackedOK'
<1>1. ASSUME NEW i \in DOMAIN ctx'.members
      PROVE  IF i > start.members THEN ctx'.members[i].default <= None
             ELSE ctx'.members[i].default >= None
  <2>1. /\ start.members \in Nat /\ start.members <= Len(ctx.members) /\ Len(ctx.members) \in Nat
        /\ DOMAIN ctx.members = 1..Len(ctx.members) /\ DOMAIN ctx'.members = 1..Len(ctx'.members)
    BY LengthsAre DEF IInv, TablesOK, StartOK
  <2>2. CASE i \in DOMAIN ctx.members
    BY <2>2 DEF PackedOK, Unpacked
  <2>3. CASE i \notin DOMAIN ctx.members
    BY <2>1, <2>3
  <2>. QED  BY <2>2, <2>3
<1>. QED  BY <1>1 DEF PackedOK, Unpacked

(* A part was read: no type and no enum more.                              *)
LEMMA PartReadMeans ==
  ASSUME IInv, MeansInv, IInv', Reading, phase' = phase, lib' = lib, start' = start, log' = log,
         pos'[1] = pos[1], Grows, Embeds(ctx, ctx', Nowhere),
         \A i \in DOMAIN ctx'.members : \/ i \in DOMAIN ctx.members /\ ctx'.members[i] = ctx.members[i]
                                        \/ i \notin DOMAIN ctx.members /\ ctx'.members[i].default <= None,
         ctx'.types = ctx.types, ctx'.enums = ctx.enums, ~Failed => PartsOK'
  PROVE  MeansInv'
<1>1. SUFFICES ASSUME ~Failed'
               PROVE  (TypesMean(Whole, SoFar) /\ EnumsMean(Whole, SoFar) /\ PackedOK /\ PartsOK)'
  BY DEF MeansInv
<1>2. ~Failed
  BY <1>1 DEF Failed
<1>3. phase = "text" /\ Whole = ctx /\ Whole' = ctx' /\ SoFar' = SoFar
  BY DEF Reading, Whole, SoFar, Fresh, Declared
<1>4. TypesMean(ctx, SoFar) /\ EnumsMean(ctx, SoFar) /\ PackedOK
  BY <1>2, <1>3 DEF MeansInv
<1>5. PICK t \in Tables, u \in Tables, s \in Seq(Decls) : t = ctx /\ u = ctx' /\ s = SoFar
  BY SoFarIs DEF IInv, TablesOK
<1>6. TypesMean(u, s) /\ EnumsMean(u, s)
  BY <1>4, <1>5, GrownTables
<1>7. PackedOK'
  BY <1>3, <1>4, <1>5, TextPacked
<1>8. TypesMean(Whole', SoFar') /\ EnumsMean(Whole', SoFar')
  BY <1>3, <1>5, <1>6
<1>. QED  BY <1>2, <1>7, <1>8

LEMMA ReadAliasesAre ==
  ASSUME NEW decl \in EnumDecls, NEW n \in 0..Len(decl.parts)
  PROVE  /\ ReadAliases(decl, n) \in Seq(STRING \X Int)
         /\ n = 0 => ReadAliases(decl, n) = <<>>
         /\ n = Len(decl.parts) => ReadAliases(decl, n) = DeclaredAliases(decl)
         /\ n < Len(decl.parts) =>
              ReadAliases(decl, n + 1) = ReadAliases(decl, n) \o AliasesOfPart(decl.parts[n + 1])
<1>1. PICK p \in Seq(ValueDecls) : p = decl.parts /\ Len(p) \in Nat
  BY DEF EnumDecls
<1> DEFINE aliases(m) == [i \in 1..m |-> AliasesOfPart(p[i])]
<1>2. ASSUME NEW m \in 0..Len(p)
      PROVE  /\ ReadAliases(decl, m) = FlattenSeq(aliases(m))
             /\ aliases(m) \in Seq(Seq(STRING \X Int)) /\ Len(aliases(m)) = m
             /\ ReadAliases(decl, m) \in Seq(STRING \X Int)
  <2>1. PICK q \in Seq(ValueDecls) : q = FirstOf(p, m) /\ Len(q) = m /\ \A i \in 1..m : q[i] = p[i]
    BY FirstOfHas
  <2>2. PICK d : d = [decl EXCEPT !.parts = q]
    OBVIOUS
  <2>3. d.parts = q /\ ReadAliases(decl, m) = DeclaredAliases(d)
    BY <1>1, <2>1, <2>2 DEF EnumDecls, ReadAliases
  <2>4. /\ DeclaredAliases(d) = FlattenSeq([i \in DOMAIN q |-> AliasesOfPart(q[i])])
        /\ DeclaredAliases(d) \in Seq(STRING \X Int)
        /\ \A i \in DOMAIN q : AliasesOfPart(q[i]) \in Seq(STRING \X Int)
    BY <2>3, AliasesAreSequence
  <2>5. DOMAIN q = 1..m /\ m \in Nat
    BY <2>1
  <2>6. [i \in DOMAIN q |-> AliasesOfPart(q[i])] = aliases(m)
    BY <2>1, <2>5
  <2>7. aliases(m) \in [1..m -> Seq(STRING \X Int)]
    BY <2>1, <2>4, <2>5
  <2>. QED  BY <2>3, <2>4, <2>5, <2>6, <2>7, FunctionIsSequence
<1>3. n \in 0..Len(p) /\ n \in Nat
  BY <1>1
<1>4. n = 0 => ReadAliases(decl, n) = <<>>
  <2>1. Len(aliases(0)) = 0
    BY <1>1, <1>2
  <2>2. FlattenSeq(aliases(0)) = <<>>
    BY <2>1 DEF FlattenSeq
  <2>. QED  BY <1>2, <1>3, <2>2
<1>5. n = Len(decl.parts) => ReadAliases(decl, n) = DeclaredAliases(decl)
  <2>1. ASSUME n = Len(p)
        PROVE  [decl EXCEPT !.parts = FirstOf(decl.parts, n)] = decl
    <3>1. FirstOf(p, n) = p
      BY <1>3, <2>1, FirstOfHas
    <3>. QED  BY <1>1, <3>1 DEF EnumDecls
  <2>. QED  BY <1>1, <2>1 DEF ReadAliases
<1>6. ASSUME n < Len(p)
      PROVE  ReadAliases(decl, n + 1) = ReadAliases(decl, n) \o AliasesOfPart(p[n + 1])
  <2>1. n + 1 \in 0..Len(p) /\ n + 1 \in 1..Len(p)
    BY <1>1, <1>3, <1>6
  <2>2. PICK s \in Seq(Seq(STRING \X Int)) : s = aliases(n) /\ Len(s) = n
    BY <1>2, <1>3
  <2>3. AliasesOfPart(p[n + 1]) \in Seq(STRING \X Int)
    <3>1. aliases(n + 1) \in Seq(Seq(STRING \X Int)) /\ Len(aliases(n + 1)) = n + 1
      BY <1>2, <2>1
    <3>2. aliases(n + 1)[n + 1] = AliasesOfPart(p[n + 1])
      BY <1>3
    <3>3. n + 1 \in 1..(n + 1)
      BY <1>3
    <3>. QED  BY <3>1, <3>2, <3>3
  <2>4. PICK x \in Seq(STRING \X Int) : x = AliasesOfPart(p[n + 1])
    BY <2>3
  <2>5. Append(s, x) = aliases(n + 1)
    BY <1>3, <2>2, <2>4
  <2>6. FlattenSeq(aliases(n + 1)) = FlattenSeq(s) \o x
    BY <2>5, FlattenAppended
  <2>. QED  BY <1>2, <1>3, <2>1, <2>2, <2>4, <2>6
<1>. QED  BY <1>1, <1>2, <1>3, <1>4, <1>5, <1>6

LEMMA ReadBeginMeans ==
  ASSUME IInv, MeansInv, ReadBegin
  PROVE  MeansInv'
<1>1. /\ Reading /\ phase' = phase /\ lib' = lib /\ start' = start /\ log' = log
      /\ pos' = <<pos[1], 1>>
      /\ local' = [meta |-> MetaStart(Decl.metas), alias |-> Len(ctx.aliases),
                   first |-> IF Decl.kind = "type" THEN Len(ctx.members) ELSE Len(ctx.values)]
      /\ ctx' = [ctx EXCEPT !.metas = ctx.metas \o Pending(Decl.metas)]
  BY DEF ReadBegin
<1>2. IInv' /\ Grows
  BY ReadBeginStep
<1>3. ctx \in Tables /\ ctx' \in Tables
  BY <1>2 DEF IInv, TablesOK
<1>4. /\ ctx'.types = ctx.types /\ ctx'.enums = ctx.enums /\ ctx'.members = ctx.members
      /\ ctx'.values = ctx.values /\ ctx'.aliases = ctx.aliases
      /\ ctx'.metas = ctx.metas \o Pending(Decl.metas)
  BY <1>1, <1>3 DEF Tables
<1>5. Decl \in Decls /\ Decl.metas \in Seq(Instances)
  BY <1>1, DeclHas
<1>6. Embeds(ctx, ctx', Nowhere)
  <2>1. Longer(ctx.members, ctx'.members)
    BY <1>3, <1>4, TablesHave, LongerItself
  <2>2. Longer(ctx.metas, ctx'.metas)
    BY <1>3, <1>4, <1>5, TablesHave, PendingHas, Concatenated
  <2>. QED  BY <1>2, <1>3, <2>1, <2>2, GrowsEmbeds
<1>7. PartsOK'
  <2>1. Decl' = Decl /\ pos'[2] - 1 = 0
    BY <1>1 DEF Decl
  <2>2. MetasMean(ctx', local'.meta, Decl.metas)
    BY <1>1, <1>3, <1>4, <1>5, PendingMeans
  <2>3. Len(ctx.members) \in Nat /\ Len(ctx.values) \in Nat /\ Len(ctx.aliases) \in Nat
    BY <1>3, LengthsAre
  <2>4. Decl.kind = "type" => MembersMean(ctx', local'.first, Decl.parts, 0)
    BY <1>1, <1>4, <2>3 DEF MembersMean
  <2>5. ASSUME Decl.kind = "enum"
        PROVE  /\ ValuesMean(ctx', local'.first, Decl.parts, 0)
               /\ Len(ctx'.aliases) = local'.alias + Len(ReadAliases(Decl, 0))
               /\ AliasesMean(ctx', local'.alias, ReadAliases(Decl, 0))
    <3>1. Decl \in EnumDecls
      BY <1>5, <2>5, DeclKinds
    <3>2. 0 \in 0..Len(Decl.parts)
      BY <3>1 DEF EnumDecls
    <3>3. ReadAliases(Decl, 0) = <<>>
      BY <3>1, <3>2, ReadAliasesAre
    <3>4. local'.first = Len(ctx.values) /\ local'.alias = Len(ctx.aliases)
      BY <1>1, <2>5
    <3>. QED  BY <1>4, <2>3, <3>3, <3>4 DEF ValuesMean, AliasesMean
  <2>. QED  BY <2>1, <2>2, <2>4, <2>5 DEF PartsOK
<1>8. pos'[1] = pos[1]
  BY <1>1
<1>. QED  BY <1>1, <1>2, <1>4, <1>6, <1>7, <1>8, PartReadMeans

LEMMA ReadMemberMeans ==
  ASSUME IInv, MeansInv, ReadMember
  PROVE  MeansInv'
<1> DEFINE member == [name |-> Len(ctx.strings), comment |-> CommentIndex(Part, 1), of |-> Part.of,
                      default |-> Part.default,
                      meta |-> MetaStart(Part.metas), count |-> Len(Part.metas)]
<1>1. /\ Reading /\ Decl.kind = "type" /\ pos[2] \in 1..Len(Decl.parts)
      /\ phase' = phase /\ lib' = lib /\ start' = start /\ log' = log /\ local' = local
      /\ pos' = <<pos[1], pos[2] + 1>>
      /\ ctx' = [ctx EXCEPT !.metas = ctx.metas \o Pending(Part.metas),
                            !.strings = ctx.strings \o <<Part.name>> \o CommentString(Part),
                            !.members = Append(ctx.members, member)]
  BY DEF ReadMember, InParts
<1>2. IInv' /\ Grows
  BY ReadMemberStep
<1>3. ctx \in Tables /\ ctx' \in Tables
  BY <1>2 DEF IInv, TablesOK
<1>4. /\ ctx'.types = ctx.types /\ ctx'.enums = ctx.enums
      /\ ctx'.members = Append(ctx.members, member)
      /\ ctx'.strings = ctx.strings \o <<Part.name>> \o CommentString(Part)
      /\ ctx'.metas = ctx.metas \o Pending(Part.metas)
  BY <1>1, <1>3 DEF Tables
<1>5. /\ Decl \in Decls /\ Decl.metas \in Seq(Instances) /\ Decl.parts \in Seq(MemberDecls)
      /\ Part.name \in STRING /\ Part.comment \in STRING /\ Part.metas \in Seq(Instances)
      /\ pos[2] \in Nat /\ phase = "text"
  BY <1>1, DeclHas, PartHas
<1>6. PICK n \in Nat : n = Len(ctx.members) /\ Len(ctx'.members) = n + 1 /\ ctx'.members[n + 1] = member
  <2>1. PICK s \in Seq(MemberDescs), s2 \in Seq(MemberDescs) : s = ctx.members /\ s2 = ctx'.members
    BY <1>3, TablesHave
  <2>. QED  BY <1>4, <2>1
<1>7. MemberMeans(ctx', member, Part)
  <2>1. StringIs(ctx', Len(ctx.strings), Part.name)
    BY <1>3, <1>4, <1>5, NameMeans
  <2>2. MetasMean(ctx', MetaStart(Part.metas), Part.metas)
    BY <1>3, <1>4, <1>5, PendingMeans
  <2>. QED  BY <2>1, <2>2 DEF MemberMeans, DefaultMeans
<1> HIDE DEF member
<1>8. Embeds(ctx, ctx', Nowhere)
  <2>1. Longer(ctx.members, ctx'.members)
    <3>1. PICK s \in Seq(MemberDescs), s2 \in Seq(MemberDescs) : s = ctx.members /\ s2 = ctx'.members
      BY <1>3, TablesHave
    <3>2. s2 = Append(s, member)
      BY <1>4, <3>1
    <3>3. \A i \in 1..Len(s) : s2[i] = s[i]
      BY <3>2
    <3>. QED  BY <1>6, <3>1, <3>3 DEF Longer
  <2>2. Longer(ctx.metas, ctx'.metas)
    BY <1>3, <1>4, <1>5, TablesHave, PendingHas, Concatenated
  <2>. QED  BY <1>2, <1>3, <2>1, <2>2, GrowsEmbeds
<1>9. ASSUME ~Failed
      PROVE  PartsOK'
  <2>1. Decl' = Decl /\ pos'[2] - 1 = pos[2] /\ local' = local
    BY <1>1, <1>5 DEF Decl
  <2>2. MetasMean(ctx, local.meta, Decl.metas) /\ MembersMean(ctx, local.first, Decl.parts, pos[2] - 1)
    BY <1>1, <1>5, <1>9 DEF MeansInv, PartsOK
  <2>3. /\ local.meta \in Nat /\ local.first \in Nat
        /\ local.first + pos[2] = n + 1
    BY <1>1, <1>5, <1>6 DEF IInv, ReadingOK, DeclOK
  <2>4. pos[2] - 1 \in 0..Len(Decl.parts)
    BY <1>1, <1>5
  <2>5. MetasMean(ctx', local.meta, Decl.metas) /\ MembersMean(ctx', local.first, Decl.parts, pos[2] - 1)
    BY <1>3, <1>5, <1>8, <2>2, <2>3, <2>4, GrownMean
  <2>6. MembersMean(ctx', local.first, Decl.parts, pos[2])
    <3>1. ASSUME NEW i \in 1..pos[2]
          PROVE  MemberMeans(ctx', ctx'.members[local.first + i], Decl.parts[i])
      <4>1. CASE i \in 1..(pos[2] - 1)
        BY <2>5, <4>1 DEF MembersMean
      <4>2. CASE i \notin 1..(pos[2] - 1)
        <5>1. i = pos[2]
          BY <1>5, <4>2
        <5>. QED  BY <1>6, <1>7, <2>3, <5>1 DEF Part
      <4>. QED  BY <4>1, <4>2
    <3>. QED  BY <1>6, <2>3, <3>1 DEF MembersMean
  <2>. QED  BY <1>1, <2>1, <2>5, <2>6 DEF PartsOK
<1>10. pos'[1] = pos[1]
  BY <1>1
<1>11. \A i \in DOMAIN ctx'.members : \/ i \in DOMAIN ctx.members /\ ctx'.members[i] = ctx.members[i]
                                      \/ i \notin DOMAIN ctx.members /\ ctx'.members[i].default <= None
  <2>1. DOMAIN ctx.members = 1..n /\ DOMAIN ctx'.members = 1..(n + 1)
    BY <1>3, <1>6, LengthsAre
  <2>2. \A i \in 1..n : ctx'.members[i] = ctx.members[i]
    <3>1. PICK s \in Seq(MemberDescs), s2 \in Seq(MemberDescs) : s = ctx.members /\ s2 = ctx'.members
      BY <1>3, TablesHave
    <3>2. s2 = Append(s, member)
      BY <1>4, <3>1
    <3>3. \A i \in 1..Len(s) : s2[i] = s[i]
      BY <3>2
    <3>. QED  BY <1>6, <3>1, <3>3
  <2>3. ctx'.members[n + 1].default <= None
    BY <1>1, <1>6, PartHas DEF member, DefaultTexts
  <2>4. \A i \in 1..(n + 1) : i \in 1..n \/ (i = n + 1 /\ i \notin 1..n)
    OBVIOUS
  <2>. QED  BY <2>1, <2>2, <2>3, <2>4
<1>. QED  BY <1>1, <1>2, <1>4, <1>8, <1>9, <1>10, <1>11, PartReadMeans

(* A concatenation, part by part, and a first element before others.       *)
LEMMA ConcatenatedParts ==
  ASSUME NEW S, NEW s \in Seq(S), NEW t \in Seq(S)
  PROVE  /\ Len(s) \in Nat /\ Len(t) \in Nat /\ DOMAIN t = 1..Len(t)
         /\ s \o t \in Seq(S) /\ Len(s \o t) = Len(s) + Len(t)
         /\ DOMAIN (s \o t) = 1..(Len(s) + Len(t))
         /\ \A i \in 1..Len(s) : (s \o t)[i] = s[i]
         /\ \A i \in 1..Len(t) : (s \o t)[Len(s) + i] = t[i]
OBVIOUS

LEMMA Prepended ==
  ASSUME NEW S, NEW x \in S, NEW s \in Seq(S)
  PROVE  /\ <<x>> \o s \in Seq(S) /\ Len(<<x>> \o s) \in Nat
         /\ 1 \in DOMAIN (<<x>> \o s) /\ (<<x>> \o s)[1] = x
OBVIOUS

LEMMA ReadValueMeans ==
  ASSUME IInv, MeansInv, ReadValue
  PROVE  MeansInv'
<1> DEFINE names == <<Part.name>> \o Part.aliases
           aliases == [i \in DOMAIN names |->
                         [name |-> Len(ctx.strings) + i - 1, value |-> Len(ctx.values)]]
           value == [value |-> Part.value, alias |-> Len(ctx.aliases),
                     comment |-> CommentIndex(Part, Len(names)),
                     meta |-> MetaStart(Part.metas), count |-> Len(Part.metas)]
<1>1. /\ Reading /\ Decl.kind = "enum" /\ pos[2] \in 1..Len(Decl.parts)
      /\ phase' = phase /\ lib' = lib /\ start' = start /\ log' = log /\ local' = local
      /\ pos' = <<pos[1], pos[2] + 1>>
      /\ ctx' = [ctx EXCEPT !.metas = ctx.metas \o Pending(Part.metas),
                            !.strings = ctx.strings \o names \o CommentString(Part),
                            !.aliases = ctx.aliases \o aliases,
                            !.values = Append(ctx.values, value)]
  BY DEF ReadValue, InParts
<1>2. IInv' /\ Grows
  BY ReadValueStep
<1>3. ctx \in Tables /\ ctx' \in Tables
  BY <1>2 DEF IInv, TablesOK
<1>4. /\ ctx'.types = ctx.types /\ ctx'.enums = ctx.enums /\ ctx'.members = ctx.members
      /\ ctx'.values = Append(ctx.values, value)
      /\ ctx'.aliases = ctx.aliases \o aliases
      /\ ctx'.strings = ctx.strings \o names \o CommentString(Part)
      /\ ctx'.metas = ctx.metas \o Pending(Part.metas)
  BY <1>1, <1>3 DEF Tables
<1>5. /\ Decl \in EnumDecls /\ Decl.metas \in Seq(Instances) /\ Decl.parts \in Seq(ValueDecls)
      /\ Part.name \in STRING /\ Part.comment \in STRING /\ Part.metas \in Seq(Instances)
      /\ Part.value \in Int /\ Part.aliases \in Seq(STRING)
      /\ pos[2] \in Nat /\ phase = "text"
  BY <1>1, DeclHas, PartHas, DeclKinds
<1>6. PICK n \in Nat : n = Len(ctx.values) /\ Len(ctx'.values) = n + 1 /\ ctx'.values[n + 1] = value
  <2>1. PICK s \in Seq(ValueDescs), s2 \in Seq(ValueDescs) : s = ctx.values /\ s2 = ctx'.values
    BY <1>3, TablesHave
  <2>. QED  BY <1>4, <2>1
<1>7. PICK ns \in Seq(STRING) : ns = names /\ Len(ns) \in Nat /\ 1 \in DOMAIN ns /\ ns[1] = Part.name
  <2>1. PICK name \in STRING, more \in Seq(STRING) : name = Part.name /\ more = Part.aliases
    BY <1>5
  <2>2. /\ <<name>> \o more \in Seq(STRING) /\ Len(<<name>> \o more) \in Nat
        /\ 1 \in DOMAIN (<<name>> \o more) /\ (<<name>> \o more)[1] = name
    BY Prepended
  <2> HIDE DEF aliases, value
  <2>. QED  BY <2>1, <2>2
<1>8. PICK k \in Nat : k = Len(ctx.strings)
  BY <1>3, LengthsAre
<1>9. PICK a \in Nat : a = Len(ctx.aliases)
  BY <1>3, LengthsAre
<1> HIDE DEF names
<1>10. PICK named \in Seq(AliasDescs) :
         /\ named = aliases /\ Len(named) = Len(ns) /\ DOMAIN named = 1..Len(ns) /\ DOMAIN ns = 1..Len(ns)
         /\ \A i \in 1..Len(ns) : named[i].name = k + i - 1 /\ named[i].value = n
  <2>1. DOMAIN ns = 1..Len(ns) /\ \A i \in 1..Len(ns) : k + i - 1 \in Nat
    BY <1>7
  <2>2. PICK f : f = [i \in 1..Len(ns) |-> [name |-> k + i - 1, value |-> n]]
    OBVIOUS
  <2>3. f \in [1..Len(ns) -> AliasDescs]
    BY <2>1, <2>2 DEF AliasDescs
  <2>4. f = aliases
    BY <1>6, <1>7, <1>8, <2>1, <2>2
  <2>5. f \in Seq(AliasDescs) /\ Len(f) = Len(ns) /\ DOMAIN f = 1..Len(ns)
    <3>1. f \in Seq(AliasDescs) /\ Len(f) = Len(ns)
      BY <1>7, <2>3, FunctionIsSequence
    <3>. QED  BY <2>2, <3>1
  <2>6. \A i \in 1..Len(ns) : f[i].name = k + i - 1 /\ f[i].value = n
    BY <2>2
  <2>. QED  BY <2>1, <2>4, <2>5, <2>6
<1> HIDE DEF aliases
<1>11. \A i \in DOMAIN ns : StringIs(ctx', k + i - 1, ns[i])
  <2>1. PICK s \in Seq(STRING), c \in Seq(STRING) : s = ctx.strings /\ c = CommentString(Part)
    <3>1. CommentString(Part) \in Seq(STRING)
      BY <1>3, <1>5, CommentHas, 0 \in Nat
    <3>. QED  BY <1>3, <3>1, TablesHave
  <2>2. (s \o ns) \o c = s \o (ns \o c) /\ ns \o c \in Seq(STRING)
    BY JoinedTwice, Concatenated
  <2>3. PICK r \in Seq(STRING) : r = ns \o c /\ ctx'.strings = s \o r
    BY <1>4, <1>7, <2>1, <2>2
  <2>4. ASSUME NEW i \in DOMAIN ns
        PROVE  StringIs(ctx', k + i - 1, ns[i])
    <3>1. i \in DOMAIN r /\ r[i] = ns[i]
      BY <2>3
    <3>2. StringIs(ctx', Len(s) + i - 1, r[i])
      BY <2>3, <3>1, StringAdded
    <3>. QED  BY <1>8, <2>1, <3>1, <3>2
  <2>. QED  BY <2>4
<1>13. Len(ctx'.aliases) = a + Len(ns) /\ \A i \in 1..Len(ns) : ctx'.aliases[a + i] = named[i]
  <2>1. PICK s \in Seq(AliasDescs) : s = ctx.aliases /\ Len(s) = a
    BY <1>3, <1>9, TablesHave
  <2>2. /\ Len(s \o named) = Len(s) + Len(named)
        /\ DOMAIN (s \o named) = 1..(Len(s) + Len(named))
        /\ \A i \in 1..Len(named) : (s \o named)[Len(s) + i] = named[i]
    OBVIOUS
  <2>4. ctx'.aliases = s \o named
    BY <1>4, <1>10, <2>1
  <2>. QED  BY <1>10, <2>1, <2>2, <2>4
<1> DEFINE v == Part.value
<1>14. value.value = v /\ value.alias = a /\ value.count = Len(Part.metas) /\ value.meta = MetaStart(Part.metas)
  BY <1>9
<1> HIDE DEF value
<1>15. ValueMeans(ctx', value, Part)
  <2>1. MetasMean(ctx', MetaStart(Part.metas), Part.metas)
    BY <1>3, <1>4, <1>5, PendingMeans
  <2>2. StringIs(ctx', k, Part.name)
    BY <1>7, <1>11
  <2>3. 1 \in 1..Len(ns) /\ a < a + Len(ns)
    BY <1>7, <1>10
  <2>4. ctx'.aliases[a + 1].name = k
    <3>1. ctx'.aliases[a + 1] = named[1]
      BY <1>13, <2>3
    <3>2. named[1].name = k
      BY <1>10, <2>3
    <3>. QED  BY <3>1, <3>2
  <2>. QED  BY <1>13, <1>14, <2>1, <2>2, <2>3, <2>4 DEF ValueMeans, Get
<1>16. Embeds(ctx, ctx', Nowhere)
  <2>1. Longer(ctx.members, ctx'.members)
    BY <1>3, <1>4, TablesHave, LongerItself
  <2>2. Longer(ctx.metas, ctx'.metas)
    <3>1. PICK s \in Seq(Metas), r \in Seq(Metas) : s = ctx.metas /\ r = Pending(Part.metas)
      BY <1>3, <1>5, TablesHave, PendingHas
    <3>2. Longer(s, s \o r)
      BY Concatenated
    <3>. QED  BY <1>4, <3>1, <3>2
  <2>. QED  BY <1>2, <1>3, <2>1, <2>2, GrowsEmbeds
<1>17. PICK new \in Seq(STRING \X Int) :
         /\ new = AliasesOfPart(Part) /\ Len(new) = Len(ns)
         /\ \A i \in 1..Len(ns) : new[i] = <<ns[i], v>>
  <2>1. AliasesOfPart(Part) = [i \in DOMAIN ns |-> <<ns[i], v>>]
    BY <1>7 DEF AliasesOfPart, Mapped, names
  <2>2. \A i \in 1..Len(ns) : <<ns[i], v>> \in STRING \X Int
    BY <1>5, <1>10
  <2>3. PICK f : f = [i \in 1..Len(ns) |-> <<ns[i], v>>]
    OBVIOUS
  <2>4. f \in [1..Len(ns) -> STRING \X Int]
    BY <2>2, <2>3
  <2>5. f \in Seq(STRING \X Int) /\ Len(f) = Len(ns)
    BY <1>7, <2>4, FunctionIsSequence
  <2>6. f = AliasesOfPart(Part)
    BY <1>10, <2>1, <2>3
  <2>. QED  BY <2>3, <2>5, <2>6
<1>18. \A i \in 1..Len(ns) : AliasMeans(ctx', ctx'.aliases[a + i], new[i])
  <2>1. ASSUME NEW i \in 1..Len(ns)
        PROVE  AliasMeans(ctx', ctx'.aliases[a + i], new[i])
    <3>1. ctx'.aliases[a + i].name = k + i - 1 /\ ctx'.aliases[a + i].value = n
      BY <1>10, <1>13
    <3>2. new[i][1] = ns[i] /\ new[i][2] = v
      BY <1>17
    <3>3. StringIs(ctx', k + i - 1, ns[i])
      BY <1>10, <1>11
    <3>4. n < Len(ctx'.values) /\ ctx'.values[n + 1].value = v
      BY <1>6, <1>14
    <3>. QED  BY <3>1, <3>2, <3>3, <3>4 DEF AliasMeans, Get
  <2>. QED  BY <2>1
<1>19. ASSUME ~Failed
       PROVE  PartsOK'
  <2>1. Decl' = Decl /\ pos'[2] - 1 = pos[2] /\ local' = local
    BY <1>1, <1>5 DEF Decl
  <2>2. /\ MetasMean(ctx, local.meta, Decl.metas) /\ ValuesMean(ctx, local.first, Decl.parts, pos[2] - 1)
        /\ a = local.alias + Len(ReadAliases(Decl, pos[2] - 1))
        /\ AliasesMean(ctx, local.alias, ReadAliases(Decl, pos[2] - 1))
    BY <1>1, <1>5, <1>9, <1>19 DEF MeansInv, PartsOK
  <2>3. /\ local.meta \in Nat /\ local.first \in Nat /\ local.alias \in Nat
        /\ local.first + pos[2] = n + 1
    BY <1>1, <1>5, <1>6 DEF IInv, ReadingOK, DeclOK
  <2>4. pos[2] - 1 \in 0..Len(Decl.parts) /\ pos[2] - 1 < Len(Decl.parts) /\ (pos[2] - 1) + 1 = pos[2]
    <3>1. PICK m \in Nat, q \in Nat : m = Len(Decl.parts) /\ q = pos[2] /\ q \in 1..m
      <4>1. Len(Decl.parts) \in Nat
        BY <1>5
      <4>. QED  BY <1>1, <1>5, <4>1, Zenon
    <3>2. q - 1 \in 0..m /\ q - 1 < m /\ (q - 1) + 1 = q
      BY <3>1
    <3>. QED  BY <3>1, <3>2
  <2>5. PICK read \in Seq(STRING \X Int) :
          /\ read = ReadAliases(Decl, pos[2] - 1)
          /\ ReadAliases(Decl, pos[2]) = read \o new
    BY <1>5, <1>17, <2>4, ReadAliasesAre DEF Part
  <2>6. /\ MetasMean(ctx', local.meta, Decl.metas) /\ ValuesMean(ctx', local.first, Decl.parts, pos[2] - 1)
        /\ AliasesMean(ctx', local.alias, read)
    BY <1>3, <1>5, <1>16, <2>2, <2>3, <2>4, <2>5, GrownMean
  <2>7. ValuesMean(ctx', local.first, Decl.parts, pos[2])
    <3>1. ASSUME NEW i \in 1..pos[2]
          PROVE  ValueMeans(ctx', ctx'.values[local.first + i], Decl.parts[i])
      <4>1. CASE i \in 1..(pos[2] - 1)
        BY <2>6, <4>1 DEF ValuesMean
      <4>2. CASE i \notin 1..(pos[2] - 1)
        <5>1. i = pos[2]
          BY <1>5, <4>2
        <5>. QED  BY <1>6, <1>15, <2>3, <5>1 DEF Part
      <4>. QED  BY <4>1, <4>2
    <3>. QED  BY <1>6, <2>3, <3>1 DEF ValuesMean
  <2>8. /\ Len(read) \in Nat /\ Len(read \o new) = Len(read) + Len(ns) /\ a = local.alias + Len(read)
        /\ DOMAIN (read \o new) = 1..(Len(read) + Len(ns))
        /\ \A i \in 1..Len(read) : (read \o new)[i] = read[i]
        /\ \A i \in 1..Len(ns) : (read \o new)[Len(read) + i] = new[i]
    <3>1. Len(read) \in Nat /\ DOMAIN new = 1..Len(ns)
      BY <1>17
    <3>2. /\ Len(read \o new) = Len(read) + Len(new)
          /\ DOMAIN (read \o new) = 1..(Len(read) + Len(new))
          /\ \A i \in 1..Len(read) : (read \o new)[i] = read[i]
          /\ \A i \in 1..Len(new) : (read \o new)[Len(read) + i] = new[i]
      BY ConcatenatedParts
    <3>3. Len(new) = Len(ns) /\ a = local.alias + Len(read)
      BY <1>17, <2>2, <2>5
    <3>. QED  BY <3>1, <3>2, <3>3
  <2>9. Len(ctx'.aliases) = local.alias + Len(read \o new)
    BY <1>7, <1>13, <2>3, <2>8
  <2>10. AliasesMean(ctx', local.alias, read \o new)
    <3>1. ASSUME NEW i \in DOMAIN (read \o new)
          PROVE  AliasMeans(ctx', ctx'.aliases[local.alias + i], (read \o new)[i])
      <4>1. CASE i \in 1..Len(read)
        BY <2>6, <2>8, <4>1 DEF AliasesMean
      <4>2. CASE i \notin 1..Len(read)
        <5>1. i - Len(read) \in 1..Len(ns) /\ i = Len(read) + (i - Len(read))
          BY <1>7, <2>8, <4>2
        <5>2. local.alias + i = a + (i - Len(read))
          <6>1. PICK m \in Nat, q \in Nat : m = local.alias /\ q = Len(read) /\ a = m + q
            BY <2>3, <2>8
          <6>2. i \in Nat
            BY <2>8
          <6>3. m + i = (m + q) + (i - q)
            BY <6>2
          <6>. QED  BY <6>1, <6>3
        <5>. QED  BY <1>18, <2>8, <5>1, <5>2
      <4>. QED  BY <4>1, <4>2
    <3>2. local.alias + Len(read \o new) <= Len(ctx'.aliases)
      BY <1>3, <2>9, LengthsAre
    <3>. QED  BY <3>1, <3>2 DEF AliasesMean
  <2>. QED  BY <1>1, <2>1, <2>5, <2>6, <2>7, <2>9, <2>10 DEF PartsOK
<1>20. pos'[1] = pos[1]
  BY <1>1
<1>. QED  BY <1>1, <1>2, <1>4, <1>16, <1>19, <1>20, PartReadMeans

LEMMA OneAndNone ==
  ASSUME NEW S
  PROVE  /\ <<>> \in Seq(S) /\ Len(<<>>) = 0 /\ DOMAIN <<>> = {}
         /\ \A x \in S : /\ <<x>> \in Seq(S) /\ Len(<<x>>) = 1 /\ DOMAIN <<x>> = {1}
                        /\ <<x>>[1] = x
<1>1. <<>> \in Seq(S) /\ Len(<<>>) = 0 /\ DOMAIN <<>> = {}
  OBVIOUS
<1>2. ASSUME NEW x \in S
      PROVE  <<x>> \in Seq(S) /\ Len(<<x>>) = 1 /\ DOMAIN <<x>> = {1} /\ <<x>>[1] = x
  OBVIOUS
<1>. QED  BY <1>1, <1>2

(* One declaration more, of a type or of an enum.                          *)
LEMMA TypeAdded ==
  ASSUME NEW t \in Tables, NEW u \in Tables, Embeds(t, u, Nowhere),
         NEW s \in Seq(Decls), TypesMean(t, s), NEW decl \in Decls
  PROVE  /\ \A d \in TypeDescs :
              decl.kind = "type" /\ u.types = Append(t.types, d) /\ TypeMeans(u, d, decl) =>
                TypesMean(u, s \o <<decl>>)
         /\ decl.kind # "type" /\ u.types = t.types => TypesMean(u, s \o <<decl>>)
<1>1. PICK g : /\ Order(g, Len(t.types), s, "type")
               /\ \A i \in DOMAIN t.types : TypeMeans(t, t.types[i], s[g[i]])
  BY DEF TypesMean
<1>2. PICK types \in Seq(TypeDescs) : types = t.types
  BY TablesHave
<1>3. \A i \in DOMAIN types : TypeMeans(u, types[i], s[g[i]])
  BY <1>1, <1>2, GrownTypes
<1>4. PICK r \in Seq(Decls) : r = <<decl>> /\ r[1] = decl
  BY OneAndNone, Zenon
<1>5. ASSUME NEW d \in TypeDescs, decl.kind = "type", u.types = Append(t.types, d),
             TypeMeans(u, d, decl)
      PROVE  TypesMean(u, s \o r)
  <2>1. PICK more \in Seq(TypeDescs) : more = <<d>> /\ Len(more) = 1 /\ DOMAIN more = {1} /\ more[1] = d
    BY OneAndNone, Zenon
  <2>2. PICK h : Order(h, Len(more), r, "type") /\ h[1] = 1
    BY <1>4, <1>5, <2>1, OrderOfOne
  <2>3. u.types = types \o more
    BY <1>2, <1>5, <2>1, EmptyJoined
  <2>4. \A i \in DOMAIN more : TypeMeans(u, more[i], r[h[i]])
    BY <1>4, <1>5, <2>1, <2>2
  <2>5. Order(g, Len(types), s, "type")
    BY <1>1, <1>2
  <2>. QED  BY <1>3, <2>2, <2>3, <2>4, <2>5, TypesJoined
<1>6. ASSUME decl.kind # "type", u.types = t.types
      PROVE  TypesMean(u, s \o r)
  <2>1. PICK more \in Seq(TypeDescs) : more = <<>> /\ Len(more) = 0 /\ DOMAIN more = {}
    BY OneAndNone, Zenon
  <2>2. PICK h : Order(h, Len(more), r, "type")
    BY <1>4, <1>6, <2>1, OrderOfOne
  <2>3. u.types = types \o more
    BY <1>2, <1>6, <2>1, EmptyJoined
  <2>4. \A i \in DOMAIN more : TypeMeans(u, more[i], r[h[i]])
    BY <2>1
  <2>5. Order(g, Len(types), s, "type")
    BY <1>1, <1>2
  <2>. QED  BY <1>3, <2>2, <2>3, <2>4, <2>5, TypesJoined
<1>. QED  BY <1>4, <1>5, <1>6

LEMMA EnumAdded ==
  ASSUME NEW t \in Tables, NEW u \in Tables, Embeds(t, u, Nowhere),
         NEW s \in Seq(Decls), EnumsMean(t, s), NEW decl \in Decls
  PROVE  /\ \A d \in EnumDescs :
              decl.kind = "enum" /\ u.enums = Append(t.enums, d) /\ EnumMeans(u, d, decl) =>
                EnumsMean(u, s \o <<decl>>)
         /\ decl.kind # "enum" /\ u.enums = t.enums => EnumsMean(u, s \o <<decl>>)
<1>1. PICK g : /\ Order(g, Len(t.enums), s, "enum")
               /\ \A i \in DOMAIN t.enums : EnumMeans(t, t.enums[i], s[g[i]])
  BY DEF EnumsMean
<1>2. PICK enums \in Seq(EnumDescs) : enums = t.enums
  BY TablesHave
<1>3. \A i \in DOMAIN enums : EnumMeans(u, enums[i], s[g[i]])
  BY <1>1, <1>2, GrownEnums
<1>4. PICK r \in Seq(Decls) : r = <<decl>> /\ r[1] = decl
  BY OneAndNone, Zenon
<1>5. ASSUME NEW d \in EnumDescs, decl.kind = "enum", u.enums = Append(t.enums, d),
             EnumMeans(u, d, decl)
      PROVE  EnumsMean(u, s \o r)
  <2>1. PICK more \in Seq(EnumDescs) : more = <<d>> /\ Len(more) = 1 /\ DOMAIN more = {1} /\ more[1] = d
    BY OneAndNone, Zenon
  <2>2. PICK h : Order(h, Len(more), r, "enum") /\ h[1] = 1
    BY <1>4, <1>5, <2>1, OrderOfOne
  <2>3. u.enums = enums \o more
    BY <1>2, <1>5, <2>1, EmptyJoined
  <2>4. \A i \in DOMAIN more : EnumMeans(u, more[i], r[h[i]])
    BY <1>4, <1>5, <2>1, <2>2
  <2>5. Order(g, Len(enums), s, "enum")
    BY <1>1, <1>2
  <2>. QED  BY <1>3, <2>2, <2>3, <2>4, <2>5, EnumsJoined
<1>6. ASSUME decl.kind # "enum", u.enums = t.enums
      PROVE  EnumsMean(u, s \o r)
  <2>1. PICK more \in Seq(EnumDescs) : more = <<>> /\ Len(more) = 0 /\ DOMAIN more = {}
    BY OneAndNone, Zenon
  <2>2. PICK h : Order(h, Len(more), r, "enum")
    BY <1>4, <1>6, <2>1, OrderOfOne
  <2>3. u.enums = enums \o more
    BY <1>2, <1>6, <2>1, EmptyJoined
  <2>4. \A i \in DOMAIN more : EnumMeans(u, more[i], r[h[i]])
    BY <2>1
  <2>5. Order(g, Len(enums), s, "enum")
    BY <1>1, <1>2
  <2>. QED  BY <1>3, <2>2, <2>3, <2>4, <2>5, EnumsJoined
<1>. QED  BY <1>4, <1>5, <1>6

LEMMA DeclReadSoFar ==
  ASSUME IInv, Reading, phase' = phase, lib' = lib, log' = log, pos' = <<pos[1] + 1, 0>>
  PROVE  SoFar' = SoFar \o <<Decl>>
<1>1. /\ phase = "text" /\ lib \in Seq(Decls) /\ pos[1] \in DOMAIN lib /\ pos[1] \in Nat
      /\ pos'[1] = pos[1] + 1
  BY DeclHas
<1>2. PICK n \in Nat : n = pos[1] - 1 /\ n \in 0..Len(lib) /\ n < Len(lib) /\ pos[1] = n + 1
  <2>1. pos[1] \in 1..Len(lib) /\ Len(lib) \in Nat
    BY <1>1
  <2>. QED  BY <1>1, <2>1
<1>3. FirstOf(lib, n + 1) = FirstOf(lib, n) \o <<lib[n + 1]>>
  BY <1>1, <1>2, FirstOfHas
<1>4. PICK s \in Seq(Decls), r \in Seq(Decls), last \in Seq(Decls) :
        s = Declared /\ r = Fresh /\ last = <<Decl>>
  <2>1. <<Decl>> \in Seq(Decls)
    BY DeclHas, OneElement
  <2>. QED  BY <2>1, SoFarIs
<1>5. r = FirstOf(lib, n) /\ Fresh' = FirstOf(lib, n + 1) /\ lib[n + 1] = Decl
  <2>1. pos'[1] - 1 = n + 1
    BY <1>1, <1>2
  <2>. QED  BY <1>1, <1>2, <1>4, <2>1 DEF Fresh, Decl
<1>6. Fresh' = r \o last
  BY <1>3, <1>4, <1>5
<1>7. Declared' = Declared
  BY DEF Declared
<1>8. (s \o r) \o last = s \o (r \o last)
  BY JoinedTwice
<1>. QED  BY <1>4, <1>6, <1>7, <1>8 DEF SoFar

(* A declaration was read to its end.                                      *)
LEMMA DeclReadMeans ==
  ASSUME IInv, MeansInv, IInv', Reading, phase' = phase, lib' = lib, start' = start, log' = log,
         pos' = <<pos[1] + 1, 0>>, Grows, ctx'.members = ctx.members,
         ~Failed => TypesMean(ctx', SoFar \o <<Decl>>) /\ EnumsMean(ctx', SoFar \o <<Decl>>)
  PROVE  MeansInv'
<1>1. SUFFICES ASSUME ~Failed'
               PROVE  (TypesMean(Whole, SoFar) /\ EnumsMean(Whole, SoFar) /\ PackedOK /\ PartsOK)'
  BY DEF MeansInv
<1>2. ~Failed
  BY <1>1 DEF Failed
<1>3. phase = "text" /\ Whole' = ctx' /\ SoFar' = SoFar \o <<Decl>>
  BY DeclReadSoFar DEF Reading, Whole
<1>4. PackedOK'
  <2>1. PackedOK
    BY <1>2, <1>3 DEF MeansInv
  <2>. QED  BY <1>3, <2>1, TextPacked DEF IInv, TablesOK
<1>5. PartsOK'
  <2>1. pos'[2] = 0
    OBVIOUS
  <2>. QED  BY <2>1 DEF PartsOK
<1>6. TypesMean(Whole', SoFar') /\ EnumsMean(Whole', SoFar')
  BY <1>2, <1>3
<1>. QED  BY <1>4, <1>5, <1>6

LEMMA ReadTypeMeans ==
  ASSUME IInv, MeansInv, ReadType
  PROVE  MeansInv'
<1> DEFINE d == [name |-> Len(ctx.strings), comment |-> CommentIndex(Decl, 1),
                 first |-> local.first, parts |-> Len(Decl.parts),
                 meta |-> local.meta, count |-> Len(Decl.metas)]
<1>1. /\ Reading /\ Decl.kind = "type" /\ pos[2] = Len(Decl.parts) + 1
      /\ phase' = phase /\ lib' = lib /\ start' = start /\ log' = log
      /\ pos' = <<pos[1] + 1, 0>>
      /\ ctx' = [ctx EXCEPT !.strings = ctx.strings \o <<Decl.name>> \o CommentString(Decl),
                            !.types = Append(ctx.types, d)]
  BY DEF ReadType, AfterParts
<1>2. IInv' /\ Grows
  BY ReadTypeStep
<1>3. ctx \in Tables /\ ctx' \in Tables
  BY <1>2 DEF IInv, TablesOK
<1>4. /\ ctx'.types = Append(ctx.types, d) /\ ctx'.enums = ctx.enums
      /\ ctx'.members = ctx.members /\ ctx'.metas = ctx.metas
      /\ ctx'.strings = ctx.strings \o <<Decl.name>> \o CommentString(Decl)
  BY <1>1, <1>3 DEF Tables
<1>5. /\ Decl \in Decls /\ Decl.name \in STRING /\ Decl.comment \in STRING
      /\ Decl.metas \in Seq(Instances) /\ Decl.parts \in Seq(MemberDecls)
      /\ Len(Decl.parts) \in Nat \ {0} /\ phase = "text"
  BY <1>1, DeclHas
<1>6. d \in TypeDescs
  <2>1. local.meta \in Nat /\ local.first \in Nat
    BY <1>1, <1>5 DEF IInv, ReadingOK, DeclOK
  <2>2. CommentIndex(Decl, 1) \in Comments
    BY <1>3, <1>5, CommentHas
  <2>3. Len(ctx.strings) \in Nat /\ Len(Decl.metas) \in Nat
    BY <1>3, <1>5, LengthsAre
  <2>. QED  BY <1>5, <2>1, <2>2, <2>3 DEF TypeDescs
<1>7. Embeds(ctx, ctx', Nowhere)
  <2>1. Longer(ctx.members, ctx'.members) /\ Longer(ctx.metas, ctx'.metas)
    BY <1>3, <1>4, TablesHave, LongerItself
  <2>. QED  BY <1>2, <1>3, <2>1, GrowsEmbeds
<1>8. ASSUME ~Failed
      PROVE  TypesMean(ctx', SoFar \o <<Decl>>) /\ EnumsMean(ctx', SoFar \o <<Decl>>)
  <2>1. TypesMean(ctx, SoFar) /\ EnumsMean(ctx, SoFar) /\ PartsOK
    BY <1>5, <1>8 DEF MeansInv, Whole
  <2>2. /\ pos[2] > 0 /\ pos[2] - 1 = Len(Decl.parts) /\ Len(Decl.parts) \in 0..Len(Decl.parts)
        /\ local.meta \in Nat /\ local.first \in Nat
    BY <1>1, <1>5 DEF IInv, ReadingOK, DeclOK
  <2>3. MetasMean(ctx, local.meta, Decl.metas) /\ MembersMean(ctx, local.first, Decl.parts, Len(Decl.parts))
    BY <1>1, <1>5, <2>1, <2>2 DEF PartsOK
  <2>4. MetasMean(ctx', local.meta, Decl.metas) /\ MembersMean(ctx', local.first, Decl.parts, Len(Decl.parts))
    BY <1>3, <1>5, <1>7, <2>2, <2>3, GrownMean
  <2>5. StringIs(ctx', Len(ctx.strings), Decl.name) /\ CommentMeans(ctx', CommentIndex(Decl, 1), Decl.comment)
    BY <1>3, <1>4, <1>5, NameMeans
  <2>6. TypeMeans(ctx', d, Decl)
    BY <2>4, <2>5 DEF TypeMeans
  <2> HIDE DEF d
  <2>7. TypesMean(ctx', SoFar \o <<Decl>>)
    BY <1>1, <1>3, <1>4, <1>5, <1>6, <1>7, <2>1, <2>6, SoFarIs, TypeAdded
  <2>8. EnumsMean(ctx', SoFar \o <<Decl>>)
    <3>1. Decl.kind # "enum"
      BY <1>1
    <3>. QED  BY <1>3, <1>4, <1>5, <1>7, <2>1, <3>1, SoFarIs, EnumAdded
  <2>. QED  BY <2>7, <2>8
<1>. QED  BY <1>1, <1>2, <1>8, DeclReadMeans

LEMMA ReadEnumMeans ==
  ASSUME IInv, MeansInv, ReadEnum
  PROVE  MeansInv'
<1> DEFINE d == [name |-> Len(ctx.strings), comment |-> CommentIndex(Decl, 1),
                 first |-> local.first, parts |-> Len(Decl.parts),
                 alias |-> local.alias, aliases |-> Len(ctx.aliases) - local.alias,
                 meta |-> local.meta, count |-> Len(Decl.metas)]
<1>1. /\ Reading /\ Decl.kind = "enum" /\ pos[2] = Len(Decl.parts) + 1
      /\ phase' = phase /\ lib' = lib /\ start' = start /\ log' = log
      /\ pos' = <<pos[1] + 1, 0>>
      /\ ctx' = [ctx EXCEPT !.strings = ctx.strings \o <<Decl.name>> \o CommentString(Decl),
                            !.enums = Append(ctx.enums, d)]
  BY DEF ReadEnum, AfterParts
<1>2. IInv' /\ Grows
  BY ReadEnumStep
<1>3. ctx \in Tables /\ ctx' \in Tables
  BY <1>2 DEF IInv, TablesOK
<1>4. /\ ctx'.enums = Append(ctx.enums, d) /\ ctx'.types = ctx.types
      /\ ctx'.members = ctx.members /\ ctx'.metas = ctx.metas
      /\ ctx'.strings = ctx.strings \o <<Decl.name>> \o CommentString(Decl)
  BY <1>1, <1>3 DEF Tables
<1>5. /\ Decl \in Decls /\ Decl.name \in STRING /\ Decl.comment \in STRING
      /\ Decl.metas \in Seq(Instances) /\ Decl.parts \in Seq(ValueDecls)
      /\ Len(Decl.parts) \in Nat /\ phase = "text" /\ Decl \in EnumDecls
  BY <1>1, DeclHas, DeclKinds
<1>6. Embeds(ctx, ctx', Nowhere)
  <2>1. Longer(ctx.members, ctx'.members) /\ Longer(ctx.metas, ctx'.metas)
    BY <1>3, <1>4, TablesHave, LongerItself
  <2>. QED  BY <1>2, <1>3, <2>1, GrowsEmbeds
<1>7. ASSUME ~Failed
      PROVE  TypesMean(ctx', SoFar \o <<Decl>>) /\ EnumsMean(ctx', SoFar \o <<Decl>>)
  <2>1. TypesMean(ctx, SoFar) /\ EnumsMean(ctx, SoFar) /\ PartsOK
    BY <1>5, <1>7 DEF MeansInv, Whole
  <2>2. /\ pos[2] > 0 /\ pos[2] - 1 = Len(Decl.parts) /\ Len(Decl.parts) \in 0..Len(Decl.parts)
        /\ local.meta \in Nat /\ local.first \in Nat /\ local.alias \in Nat
    BY <1>1, <1>5 DEF IInv, ReadingOK, DeclOK
  <2>3. PICK aliases \in Seq(STRING \X Int) :
          aliases = DeclaredAliases(Decl) /\ ReadAliases(Decl, Len(Decl.parts)) = aliases
    BY <1>5, <2>2, ReadAliasesAre
  <2>4. /\ MetasMean(ctx, local.meta, Decl.metas) /\ ValuesMean(ctx, local.first, Decl.parts, Len(Decl.parts))
        /\ Len(ctx.aliases) = local.alias + Len(aliases) /\ AliasesMean(ctx, local.alias, aliases)
    BY <1>1, <1>5, <2>1, <2>2, <2>3 DEF PartsOK
  <2>5. /\ MetasMean(ctx', local.meta, Decl.metas) /\ ValuesMean(ctx', local.first, Decl.parts, Len(Decl.parts))
        /\ AliasesMean(ctx', local.alias, aliases)
    BY <1>3, <1>5, <1>6, <2>2, <2>3, <2>4, GrownMean
  <2>6. StringIs(ctx', Len(ctx.strings), Decl.name) /\ CommentMeans(ctx', CommentIndex(Decl, 1), Decl.comment)
    BY <1>3, <1>4, <1>5, NameMeans
  <2>7. Len(ctx.aliases) - local.alias = Len(aliases) /\ Len(aliases) \in Nat
    BY <2>2, <2>4
  <2>8. EnumMeans(ctx', d, Decl)
    BY <2>3, <2>5, <2>6, <2>7 DEF EnumMeans
  <2>9. d \in EnumDescs
    <3>1. CommentIndex(Decl, 1) \in Comments
      BY <1>3, <1>5, CommentHas
    <3>2. Len(ctx.strings) \in Nat /\ Len(Decl.metas) \in Nat
      BY <1>3, <1>5, LengthsAre
    <3>. QED  BY <1>5, <2>2, <2>7, <3>1, <3>2 DEF EnumDescs
  <2> HIDE DEF d
  <2>10. EnumsMean(ctx', SoFar \o <<Decl>>)
    BY <1>1, <1>3, <1>4, <1>5, <1>6, <2>1, <2>8, <2>9, SoFarIs, EnumAdded
  <2>11. TypesMean(ctx', SoFar \o <<Decl>>)
    <3>1. Decl.kind # "type"
      BY <1>1
    <3>. QED  BY <1>3, <1>4, <1>5, <1>6, <2>1, <3>1, SoFarIs, TypeAdded
  <2>. QED  BY <2>10, <2>11
<1>. QED  BY <1>1, <1>2, <1>7, DeclReadMeans

(***************************************************************************)
(* Steps that leave what the tables mean, and what was declared so far, as *)
(* it is, and steps after which nothing is said.                           *)
(***************************************************************************)
LEMMA SameMeans ==
  ASSUME IInv, MeansInv, phase # "lost", ~Failed' => ~Failed,
         ~Failed => Whole' = Whole /\ SoFar' = SoFar,
         ~Failed => PackedOK', ~Failed => PartsOK'
  PROVE  MeansInv'
<1>1. SUFFICES ASSUME ~Failed'
               PROVE  (TypesMean(Whole, SoFar) /\ EnumsMean(Whole, SoFar) /\ PackedOK /\ PartsOK)'
  BY DEF MeansInv
<1>2. ~Failed /\ TypesMean(Whole, SoFar) /\ EnumsMean(Whole, SoFar)
  BY <1>1 DEF MeansInv
<1>3. TypesMean(Whole', SoFar') /\ EnumsMean(Whole', SoFar')
  BY <1>2
<1>. QED  BY <1>2, <1>3

LEMMA RefusedMeans ==
  ASSUME IInv, Refused
  PROVE  MeansInv'
<1>1. log' = Append(log, [ok |-> FALSE, from |-> "text", declared |-> <<>>])
  BY DEF Refused, Return
<1>2. [ok |-> FALSE, from |-> "text", declared |-> <<>>] \in LogEntries
  BY OneAndNone DEF LogEntries
<1>3. Failed'
  BY <1>1, <1>2, DeclaredGrows
<1>. QED  BY <1>3 DEF MeansInv

LEMMA FixUpMeans ==
  ASSUME IInv, MeansInv, FixUp
  PROVE  MeansInv'
<1>1. /\ phase = "text" /\ phase' = "defaults" /\ pos' = <<start.members, 0>> /\ ~Reading
      /\ ctx' = ctx /\ lib' = lib /\ start' = start /\ log' = log
  BY DEF FixUp
<1>2. Failed' = Failed /\ Whole' = ctx /\ Whole = ctx
  BY <1>1 DEF Failed, Whole
<1>3. SoFar' = SoFar
  <2>1. lib \in Seq(Decls) /\ pos[1] \in 1..(Len(lib) + 1)
    BY <1>1 DEF IInv, ReadingOK
  <2>2. pos[1] - 1 = Len(lib) /\ Len(lib) \in 0..Len(lib)
    BY <1>1, <2>1 DEF Reading
  <2>3. FirstOf(lib, pos[1] - 1) = lib
    BY <2>1, <2>2, FirstOfHas
  <2>4. Fresh' = Fresh /\ Declared' = Declared
    BY <1>1, <2>3 DEF Fresh, Declared
  <2>. QED  BY <2>4 DEF SoFar
<1>4. ~Failed => PackedOK'
  <2>1. pos'[1] = start.members
    BY <1>1
  <2>2. ~Failed => PackedOK
    BY <1>1 DEF MeansInv
  <2>. QED  BY <1>1, <2>1, <2>2 DEF PackedOK, Unpacked
<1>5. PartsOK'
  BY <1>1 DEF PartsOK
<1>. QED  BY <1>1, <1>2, <1>3, <1>4, <1>5, SameMeans

LEMMA DefaultsDoneMeans ==
  ASSUME IInv, MeansInv, DefaultsDone
  PROVE  MeansInv'
<1>1. /\ phase = "defaults" /\ phase' = "metadata"
      /\ \A i \in OwnMembers : i >= pos[1] => Get(ctx.members, i).default = None
      /\ ctx' = ctx /\ lib' = lib /\ start' = start /\ log' = log
  BY DEF DefaultsDone
<1>2. Failed' = Failed /\ Whole' = ctx /\ Whole = ctx
  BY <1>1 DEF Failed, Whole
<1>3. SoFar' = SoFar
  BY <1>1 DEF SoFar, Fresh, Declared
<1>4. ASSUME ~Failed
      PROVE  PackedOK'
  <2>1. PackedOK
    BY <1>1, <1>4 DEF MeansInv
  <2>2. /\ start.members \in Nat /\ pos[1] \in Nat /\ Len(ctx.members) \in Nat
        /\ DOMAIN ctx.members = 1..Len(ctx.members)
    BY <1>1, LengthsAre DEF IInv, TablesOK, StartOK, BuildingOK
  <2>3. ASSUME NEW i \in DOMAIN ctx.members
        PROVE  ctx.members[i].default >= None
    <3>1. CASE Unpacked(i)
      <4>1. i > start.members /\ i > pos[1]
        BY <1>1, <3>1 DEF Unpacked
      <4>2. i - 1 \in OwnMembers /\ i - 1 >= pos[1] /\ (i - 1) + 1 = i
        BY <2>2, <4>1 DEF OwnMembers
      <4>3. ctx.members[i].default = None
        BY <1>1, <4>2 DEF Get
      <4>. QED  BY <4>3 DEF None
    <3>2. CASE ~Unpacked(i)
      BY <2>1, <3>2 DEF PackedOK
    <3>. QED  BY <3>1, <3>2
  <2>. QED  BY <1>1, <2>3 DEF PackedOK, Unpacked
<1>5. PartsOK'
  BY <1>1 DEF PartsOK
<1>. QED  BY <1>1, <1>2, <1>3, <1>4, <1>5, SameMeans

LEMMA LoadTextMeans ==
  ASSUME IInv, MeansInv, NEW text \in Texts, LoadText(text)
  PROVE  MeansInv'
<1>1. /\ phase = "idle" /\ phase' = "text" /\ lib' = text /\ pos' = <<1, 0>>
      /\ start'.members = Len(ctx.members)
      /\ ctx' = ctx /\ log' = log
  BY DEF LoadText
<1>2. Failed' = Failed /\ Whole' = ctx /\ Whole = ctx
  BY <1>1 DEF Failed, Whole
<1>3. SoFar' = SoFar
  <2>1. pos'[1] - 1 = 0 /\ 1..0 = {}
    BY <1>1
  <2>2. FirstOf(text, 0) = <<>>
    BY <2>1 DEF FirstOf
  <2>3. Fresh' = <<>> /\ Fresh = <<>>
    BY <1>1, <2>1, <2>2 DEF Fresh
  <2>. QED  BY <1>1, <2>3 DEF SoFar, Declared
<1>4. ASSUME ~Failed
      PROVE  PackedOK'
  <2>1. PackedOK
    BY <1>1, <1>4 DEF MeansInv
  <2>2. Len(ctx.members) \in Nat /\ DOMAIN ctx.members = 1..Len(ctx.members)
    BY LengthsAre DEF IInv, TablesOK
  <2>. QED  BY <1>1, <2>1, <2>2 DEF PackedOK, Unpacked
<1>5. PartsOK'
  <2>1. pos'[2] = 0
    BY <1>1
  <2>. QED  BY <2>1 DEF PartsOK
<1>. QED  BY <1>1, <1>2, <1>3, <1>4, <1>5, SameMeans

(* A load that succeeds adds what it loaded to what was declared.          *)
LEMMA ReturnMeans ==
  ASSUME IInv, MeansInv, phase \notin {"idle", "lost", "text"}, Return(TRUE, "text", Fresh) \/ Return(TRUE, "file", Fresh),
         ctx' = Whole, phase # "defaults"
  PROVE  MeansInv'
<1>1. PICK e \in LogEntries : log' = Append(log, e) /\ e.declared = Fresh /\ e.ok = TRUE /\ phase' = "idle"
  BY SoFarIs DEF Return, LogEntries
<1>2. Declared' = Declared \o Fresh /\ (~Failed' => ~Failed)
  BY <1>1, DeclaredGrows
<1>3. Whole' = Whole
  BY <1>1 DEF Whole
<1>4. SoFar' = SoFar
  <2>1. Fresh' = <<>>
    BY <1>1 DEF Fresh
  <2>2. Declared' \o <<>> = Declared'
    BY <1>2, SoFarIs, EmptyJoined DEF SoFar
  <2>. QED  BY <1>2, <2>1, <2>2 DEF SoFar
<1>5. ~Failed => PackedOK'
  <2>1. ~Failed => PackedOK
    BY DEF MeansInv
  <2>2. ctx'.members = ctx.members
    BY DEF Whole, IInv, TablesOK, Tables
  <2>. QED  BY <1>1, <2>1, <2>2 DEF PackedOK, Unpacked
<1>6. PartsOK'
  BY <1>1 DEF PartsOK
<1>. QED  BY <1>2, <1>3, <1>4, <1>5, <1>6, SameMeans

LEMMA TextDoneMeans ==
  ASSUME IInv, MeansInv, TextDone
  PROVE  MeansInv'
<1>1. phase = "metadata" /\ ctx' = ctx /\ Return(TRUE, "text", lib)
  BY DEF TextDone
<1>2. Fresh = lib /\ Whole = ctx
  BY <1>1 DEF Fresh, Whole
<1>. QED  BY <1>1, <1>2, ReturnMeans

(* The tables that count are those which the load from a file leaves.     *)
LEMMA LoadBinaryDoneWhole ==
  ASSUME IInv, LoadBinaryDone
  PROVE  ctx' = Whole
<1>1. /\ phase = "binary" /\ pos[1] > Len(lib.tables.metas)
      /\ ctx' = [ctx EXCEPT !.defaults = ctx.defaults \o lib.tables.defaults]
      /\ Return(TRUE, "file", lib.declared)
  BY DEF LoadBinaryDone
<1>2. ctx \in Tables /\ lib.tables \in Tables
  BY <1>1 DEF IInv, TablesOK, LoadingOK, Files
<1>3. PICK s \in Seq(Metas), r \in Seq(Metas), n \in Nat :
        s = ctx.metas /\ r = lib.tables.metas /\ n = start.metas /\ n + Len(r) = Len(s)
  <2>1. /\ pos[1] \in 1..(Len(lib.tables.metas) + 1) /\ start.metas \in Nat
        /\ Len(ctx.metas) + 1 = start.metas + pos[1]
    BY <1>1 DEF IInv, LoadingOK, StartOK
  <2>2. Len(ctx.metas) \in Nat /\ Len(lib.tables.metas) \in Nat
    BY <1>2, LengthsAre
  <2>3. PICK p \in Nat, k \in Nat, l \in Nat, n \in Nat :
          p = pos[1] /\ k = Len(lib.tables.metas) /\ l = Len(ctx.metas) /\ n = start.metas
    BY <2>1, <2>2
  <2>4. p \in 1..(k + 1) /\ l + 1 = n + p /\ p > k
    BY <1>1, <2>1, <2>3
  <2>5. p = k + 1
    BY <2>4
  <2>6. n + k = l
    BY <2>4, <2>5
  <2>. QED  BY <1>2, <2>3, <2>6, TablesHave
<1>4. [i \in 1..(n + Len(r)) |-> IF i <= Len(s) THEN s[i] ELSE r[i - n]] = s
  <2>1. s = [i \in 1..Len(s) |-> s[i]]
    OBVIOUS
  <2>2. \A i \in 1..Len(s) : i <= Len(s)
    OBVIOUS
  <2>3. [i \in 1..Len(s) |-> IF i <= Len(s) THEN s[i] ELSE r[i - n]] = [i \in 1..Len(s) |-> s[i]]
    BY <2>2
  <2>. QED  BY <1>3, <2>1, <2>3
<1>5. Whole = [ctx EXCEPT !.defaults = ctx.defaults \o lib.tables.defaults, !.metas = s]
  BY <1>1, <1>3, <1>4 DEF Whole
<1>. QED  BY <1>1, <1>2, <1>3, <1>5 DEF Tables

LEMMA LoadBinaryDoneMeans ==
  ASSUME IInv, MeansInv, LoadBinaryDone
  PROVE  MeansInv'
<1>1. phase = "binary" /\ Return(TRUE, "file", lib.declared)
  BY DEF LoadBinaryDone
<1>2. Fresh = lib.declared
  BY <1>1 DEF Fresh
<1>. QED  BY <1>1, <1>2, LoadBinaryDoneWhole, ReturnMeans

LEMMA LoadMetadataWhole ==
  ASSUME IInv, LoadMetadata
  PROVE  Whole' = Whole
<1>1. /\ phase = "binary" /\ pos[1] <= Len(lib.tables.metas) /\ phase' = phase
      /\ ctx' = [ctx EXCEPT !.metas = Append(ctx.metas, lib.tables.metas[pos[1]])]
      /\ lib' = lib /\ start' = start /\ log' = log
  BY DEF LoadMetadata
<1>2. ctx \in Tables /\ lib.tables \in Tables
  BY <1>1 DEF IInv, TablesOK, LoadingOK, Files
<1>3. PICK s \in Seq(Metas), r \in Seq(Metas), n \in Nat, p \in Nat :
        /\ s = ctx.metas /\ r = lib.tables.metas /\ n = start.metas /\ p = pos[1]
        /\ p \in 1..Len(r) /\ Len(s) + 1 = n + p
  <2>1. /\ pos[1] \in 1..(Len(lib.tables.metas) + 1) /\ start.metas \in Nat
        /\ Len(ctx.metas) + 1 = start.metas + pos[1]
    BY <1>1 DEF IInv, LoadingOK, StartOK
  <2>2. Len(lib.tables.metas) \in Nat
    BY <1>2, LengthsAre
  <2>3. PICK p \in Nat, k \in Nat, n \in Nat :
          p = pos[1] /\ k = Len(lib.tables.metas) /\ n = start.metas
    BY <2>1, <2>2
  <2>4. p \in 1..k /\ Len(ctx.metas) + 1 = n + p
    BY <1>1, <2>1, <2>3
  <2>. QED  BY <1>2, <2>3, <2>4, TablesHave
<1>4. PICK more \in Seq(Metas) :
        /\ more = Append(s, r[p]) /\ Len(more) = Len(s) + 1
        /\ \A i \in 1..Len(s) : more[i] = s[i]
        /\ more[Len(s) + 1] = r[p]
  <2>1. PICK x \in Metas : x = r[p]
    BY <1>3
  <2>2. /\ Append(s, x) \in Seq(Metas) /\ Len(Append(s, x)) = Len(s) + 1
        /\ \A i \in 1..Len(s) : Append(s, x)[i] = s[i]
        /\ Append(s, x)[Len(s) + 1] = x
    OBVIOUS
  <2>. QED  BY <2>1, <2>2
<1>5. [i \in 1..(n + Len(r)) |-> IF i <= Len(more) THEN more[i] ELSE r[i - n]]
        = [i \in 1..(n + Len(r)) |-> IF i <= Len(s) THEN s[i] ELSE r[i - n]]
  <2>1. ASSUME NEW i \in 1..(n + Len(r))
        PROVE  (IF i <= Len(more) THEN more[i] ELSE r[i - n]) = IF i <= Len(s) THEN s[i] ELSE r[i - n]
    <3>1. CASE i <= Len(s)
      BY <1>4, <3>1
    <3>2. CASE i = Len(s) + 1
      BY <1>3, <1>4, <3>2
    <3>3. CASE i > Len(s) + 1
      BY <1>4, <3>3
    <3>4. i <= Len(s) \/ i = Len(s) + 1 \/ i > Len(s) + 1
      OBVIOUS
    <3>. QED  BY <3>1, <3>2, <3>3, <3>4
  <2>. QED  BY <2>1
<1>6. Whole = [ctx EXCEPT !.defaults = ctx.defaults \o lib.tables.defaults,
                          !.metas = [i \in 1..(n + Len(r)) |-> IF i <= Len(s) THEN s[i] ELSE r[i - n]]]
  BY <1>1, <1>3 DEF Whole
<1>7. Whole' = [ctx' EXCEPT !.defaults = ctx'.defaults \o lib.tables.defaults,
                            !.metas = [i \in 1..(n + Len(r)) |-> IF i <= Len(more) THEN more[i] ELSE r[i - n]]]
  <2>1. ctx'.metas = more
    BY <1>1, <1>2, <1>3, <1>4 DEF Tables
  <2>. QED  BY <1>1, <1>3, <2>1 DEF Whole
<1>8. ctx'.defaults = ctx.defaults
  BY <1>1, <1>2 DEF Tables
<1>. QED  BY <1>1, <1>2, <1>5, <1>6, <1>7, <1>8 DEF Tables

LEMMA LoadMetadataMeans ==
  ASSUME IInv, MeansInv, LoadMetadata
  PROVE  MeansInv'
<1>1. /\ phase = "binary" /\ phase' = phase
      /\ ctx' = [ctx EXCEPT !.metas = Append(ctx.metas, lib.tables.metas[pos[1]])]
      /\ lib' = lib /\ start' = start /\ log' = log
  BY DEF LoadMetadata
<1>2. SoFar' = SoFar /\ Failed' = Failed
  BY <1>1 DEF SoFar, Fresh, Declared, Failed
<1>3. ~Failed => PackedOK'
  <2>1. ~Failed => PackedOK
    BY <1>1 DEF MeansInv
  <2>2. ctx'.members = ctx.members
    BY <1>1 DEF IInv, TablesOK, Tables
  <2>. QED  BY <1>1, <2>1, <2>2 DEF PackedOK, Unpacked
<1>4. PartsOK'
  BY <1>1 DEF PartsOK
<1>. QED  BY <1>1, <1>2, <1>3, <1>4, LoadMetadataWhole, SameMeans

(* The tables may change as far as their meaning does not.                 *)
LEMMA BuiltMeans ==
  ASSUME IInv, MeansInv, phase \in {"defaults", "metadata"}, phase' = phase, lib' = lib, log' = log,
         ctx' \in Tables, ctx'.types = ctx.types, ctx'.enums = ctx.enums,
         ~Failed => Embeds(ctx, ctx', Nowhere) /\ PackedOK'
  PROVE  MeansInv'
<1>1. SUFFICES ASSUME ~Failed'
               PROVE  (TypesMean(Whole, SoFar) /\ EnumsMean(Whole, SoFar) /\ PackedOK /\ PartsOK)'
  BY DEF MeansInv
<1>2. ~Failed
  BY <1>1 DEF Failed
<1>3. Whole = ctx /\ Whole' = ctx' /\ SoFar' = SoFar /\ PartsOK'
  BY DEF Whole, SoFar, Fresh, Declared, PartsOK
<1>4. TypesMean(ctx, SoFar) /\ EnumsMean(ctx, SoFar)
  BY <1>2, <1>3 DEF MeansInv
<1>5. PICK t \in Tables, u \in Tables, s \in Seq(Decls) : t = ctx /\ u = ctx' /\ s = SoFar
  BY SoFarIs DEF IInv, TablesOK
<1>6. TypesMean(u, s) /\ EnumsMean(u, s)
  BY <1>2, <1>4, <1>5, GrownTables
<1>7. TypesMean(Whole', SoFar') /\ EnumsMean(Whole', SoFar')
  BY <1>3, <1>5, <1>6
<1>. QED  BY <1>2, <1>3, <1>7

LEMMA CreateMetadataMeans ==
  ASSUME IInv, MeansInv, CreateMetadata
  PROVE  MeansInv'
<1> DEFINE metas == [ctx.metas EXCEPT ![pos[1] + 1].ready = TRUE]
<1>1. /\ phase = "metadata" /\ phase' = phase /\ pos[1] < Len(ctx.metas)
      /\ ctx' = [ctx EXCEPT !.metas = metas]
      /\ lib' = lib /\ start' = start /\ log' = log
  BY DEF CreateMetadata
<1>2. IInv' /\ Grows
  BY CreateMetadataStep
<1>3. ctx \in Tables /\ ctx' \in Tables
  BY <1>2 DEF IInv, TablesOK
<1>4. /\ ctx.metas \in Seq(Metas) /\ pos[1] + 1 \in DOMAIN ctx.metas
  <2>1. ctx.metas \in Seq(Metas) /\ pos[1] \in Nat
    BY <1>1, <1>3, TablesHave DEF IInv, BuildingOK
  <2>. QED  BY <1>1, <2>1
<1>5. /\ Len(metas) = Len(ctx.metas) /\ \A i \in DOMAIN ctx.metas : metas[i].data = ctx.metas[i].data
  BY <1>4, MetaChanged
<1> HIDE DEF metas
<1>6. ctx'.members = ctx.members /\ ctx'.types = ctx.types /\ ctx'.enums = ctx.enums /\ ctx'.metas = metas
  BY <1>1, <1>3 DEF Tables
<1>7. Embeds(ctx, ctx', Nowhere)
  <2>1. /\ Len(ctx.members) \in Nat /\ Len(ctx.metas) \in Nat
        /\ DOMAIN ctx.metas = 1..Len(ctx.metas)
    BY <1>3, LengthsAre
  <2>2. /\ Len(ctx.members) <= Len(ctx'.members) /\ Len(ctx.metas) <= Len(ctx'.metas)
        /\ \A i \in 1..Len(ctx.members) : ctx'.members[i] = ctx.members[i]
        /\ \A i \in 1..Len(ctx.metas) : MetaName(ctx'.metas[i].data) = MetaName(ctx.metas[i].data)
    BY <1>5, <1>6, <2>1
  <2>3. PICK t \in Tables, u \in Tables : t = ctx /\ u = ctx'
    BY <1>3
  <2>4. /\ Longer(t.strings, u.strings) /\ Longer(t.values, u.values)
        /\ Longer(t.aliases, u.aliases) /\ Longer(t.defaults, u.defaults)
    BY <1>2, <2>3 DEF Grows, NamesGrow
  <2>5. Embeds(t, u, Nowhere)
    BY <2>2, <2>3, <2>4, GrownEmbeds
  <2>. QED  BY <2>3, <2>5
<1>8. ~Failed => PackedOK'
  <2>1. ~Failed => PackedOK
    BY <1>1 DEF MeansInv
  <2>. QED  BY <1>1, <1>6, <2>1 DEF PackedOK, Unpacked
<1>. QED  BY <1>1, <1>3, <1>6, <1>7, <1>8, BuiltMeans

(***************************************************************************)
(* Where no library declares a type of the name of the temporary type, the *)
(* temporary type is the one found for its name, and a default value is    *)
(* packed as the type of its member.                                       *)
(***************************************************************************)
Plain(s) == \A j \in DOMAIN s : s[j].name # TempType

PlainInv ==
  /\ Plain(Declared)
  /\ phase \in {"text", "defaults", "metadata"} => Plain(lib)
  /\ phase = "binary" => Plain(lib.declared)
  /\ \A i \in DOMAIN files : Plain(files[i].declared)

LEMMA PlainJoined ==
  ASSUME NEW s \in Seq(Decls), NEW t \in Seq(Decls), Plain(s), Plain(t)
  PROVE  Plain(s \o t)
<1>1. ASSUME NEW j \in DOMAIN (s \o t)
      PROVE  (s \o t)[j].name # TempType
  <2>1. \/ j \in DOMAIN s /\ (s \o t)[j] = s[j]
        \/ \E k \in DOMAIN t : (s \o t)[j] = t[k]
    BY ConcatenatedElements
  <2>. QED  BY <2>1 DEF Plain
<1>. QED  BY <1>1 DEF Plain

LEMMA NoneDeclared ==
  ASSUME log = <<>>
  PROVE  Declared = <<>> /\ ~Failed
<1>1. DOMAIN <<>> = {} /\ Len(<<>>) = 0
  OBVIOUS
<1>2. [i \in DOMAIN <<>> |-> <<>>[i].declared] = <<>>
  OBVIOUS
<1>3. FlattenSeq(<<>>) = <<>>
  BY <1>1 DEF FlattenSeq
<1>. QED  BY <1>1, <1>2, <1>3 DEF Declared, Failed

LEMMA PlainSoFar ==
  ASSUME IInv, PlainInv
  PROVE  Plain(SoFar)
<1>1. Plain(Fresh)
  <2>1. CASE phase = "text"
    <3>1. lib \in Seq(Decls) /\ pos[1] \in 1..(Len(lib) + 1)
      BY <2>1 DEF IInv, ReadingOK
    <3>2. \A j \in 1..(pos[1] - 1) : j \in DOMAIN lib
      BY <3>1
    <3>3. Plain(FirstOf(lib, pos[1] - 1))
      BY <2>1, <3>2 DEF FirstOf, Plain, PlainInv
    <3>. QED  BY <2>1, <3>3 DEF Fresh
  <2>2. CASE phase \in {"defaults", "metadata"}
    BY <2>2 DEF PlainInv, Fresh
  <2>3. CASE phase = "binary"
    BY <2>3 DEF PlainInv, Fresh
  <2>4. CASE phase \notin {"text", "defaults", "metadata", "binary"}
    BY <2>4 DEF Fresh, Plain
  <2>. QED  BY <2>1, <2>2, <2>3, <2>4
<1>. QED  BY <1>1, SoFarIs, PlainJoined DEF SoFar, PlainInv

(* What returns had nothing but such declarations to add.                  *)
LEMMA PlainReturned ==
  ASSUME IInv, PlainInv, NEW ok \in BOOLEAN, NEW from \in {"text", "file"},
         NEW declared \in Seq(Decls), Plain(declared), Return(ok, from, declared)
  PROVE  PlainInv'
<1>1. PICK e \in LogEntries : log' = Append(log, e) /\ e.declared = declared
  BY DEF Return, LogEntries
<1>2. phase' = "idle" /\ files' = files
  BY DEF Return
<1>3. Declared' = Declared \o declared
  BY <1>1, DeclaredGrows
<1>4. Plain(Declared \o declared)
  BY SoFarIs, PlainJoined DEF PlainInv
<1>. QED  BY <1>2, <1>3, <1>4 DEF PlainInv

LEMMA PlainRefused ==
  ASSUME IInv, PlainInv, Refused
  PROVE  PlainInv'
<1>1. <<>> \in Seq(Decls) /\ Plain(<<>>)
  BY OneAndNone DEF Plain
<1>. QED  BY <1>1, PlainReturned DEF Refused

LEMMA PlainKeeps ==
  ASSUME NoTemporaryDeclared, IInv, PlainInv, [Next]_vars
  PROVE  PlainInv'
<1>1. ASSUME log' = log, files' = files, lib' = lib, phase' = phase
      PROVE  PlainInv'
  <2>1. Declared' = Declared
    BY <1>1 DEF Declared
  <2>. QED  BY <1>1, <2>1 DEF PlainInv
<1>2. CASE NewContext
  <2>1. log' = <<>> /\ phase = "idle" /\ phase' = "idle" /\ files' = files
    BY <1>2 DEF NewContext
  <2>2. [i \in DOMAIN <<>> |-> <<>>[i].declared] = <<>> /\ FlattenSeq(<<>>) = <<>>
    BY OneAndNone DEF FlattenSeq
  <2>3. Declared' = <<>>
    BY <2>1, <2>2 DEF Declared
  <2>. QED  BY <2>1, <2>3 DEF PlainInv, Plain
<1>3. CASE \E text \in Texts : LoadText(text)
  <2>1. PICK text \in Texts : lib' = text /\ phase' = "text" /\ log' = log /\ files' = files
    BY <1>3 DEF LoadText
  <2>2. Plain(text)
    BY DEF NoTemporaryDeclared, Plain
  <2>3. Declared' = Declared
    BY <2>1 DEF Declared
  <2>. QED  BY <2>1, <2>2, <2>3 DEF PlainInv
<1>4. CASE ReadBegin \/ ReadMember \/ ReadType \/ ReadValue \/ ReadEnum
  BY <1>1, <1>4 DEF ReadBegin, ReadMember, ReadType, ReadValue, ReadEnum
<1>5. CASE ParseError \/ UnknownType \/ MetadataFails \/ (\E i \in OwnMembers : DefaultFails(i))
  BY <1>5, PlainRefused DEF ParseError, UnknownType, MetadataFails, DefaultFails
<1>6. CASE FixUp \/ DefaultsDone
  <2>1. /\ log' = log /\ files' = files /\ lib' = lib
        /\ phase \in {"text", "defaults"} /\ phase' \in {"defaults", "metadata"}
    BY <1>6 DEF FixUp, DefaultsDone
  <2>2. Declared' = Declared
    BY <2>1 DEF Declared
  <2>. QED  BY <2>1, <2>2 DEF PlainInv
<1>7. CASE (\E i \in OwnMembers : BuildDefault(i)) \/ CreateMetadata \/ LoadMetadata
  BY <1>1, <1>7 DEF BuildDefault, CreateMetadata, LoadMetadata
<1>8. CASE TextDone
  <2>1. lib \in Seq(Decls) /\ Plain(lib) /\ Return(TRUE, "text", lib)
    BY <1>8 DEF TextDone, IInv, BuildingOK, PlainInv
  <2>. QED  BY <2>1, PlainReturned
<1>9. CASE WriteLibrary
  <2>1. files' = Append(files, Image) /\ log' = log /\ phase' = phase /\ phase = "idle"
    BY <1>9 DEF WriteLibrary
  <2>2. Declared' = Declared /\ Image.declared = Declared
    BY <2>1 DEF Declared, Image
  <2>3. files \in Seq(Files) /\ Image \in Files
    BY <2>1, ImageHas DEF IInv, FilesOK
  <2>4. \A i \in DOMAIN files' : files'[i] = Image \/ (i \in DOMAIN files /\ files'[i] = files[i])
    BY <2>1, <2>3
  <2>. QED  BY <2>1, <2>2, <2>4 DEF PlainInv
<1>10. CASE \E i \in DOMAIN files : LoadTables(files[i])
  <2>1. PICK i \in DOMAIN files : lib' = files[i] /\ phase' = "binary" /\ log' = log /\ files' = files
    BY <1>10 DEF LoadTables
  <2>2. Declared' = Declared
    BY <2>1 DEF Declared
  <2>. QED  BY <2>1, <2>2 DEF PlainInv
<1>11. CASE LoadMetadataLost
  <2>1. phase' = "lost" /\ log' = log /\ files' = files
    BY <1>11 DEF LoadMetadataLost
  <2>2. Declared' = Declared
    BY <2>1 DEF Declared
  <2>. QED  BY <2>1, <2>2 DEF PlainInv
<1>12. CASE LoadBinaryDone
  <2>1. lib.declared \in Seq(Decls) /\ Plain(lib.declared) /\ Return(TRUE, "file", lib.declared)
    BY <1>12 DEF LoadBinaryDone, IInv, LoadingOK, Files, PlainInv
  <2>. QED  BY <2>1, PlainReturned
<1>13. CASE UNCHANGED vars
  BY <1>1, <1>13 DEF vars
<1>. QED
  BY <1>2, <1>3, <1>4, <1>5, <1>6, <1>7, <1>8, <1>9, <1>10, <1>11, <1>12, <1>13 DEF Next

LEMMA PackedAsItself ==
  ASSUME IInv, PlainInv, TypesMean(ctx, SoFar), NEW member
  PROVE  PackedAs(member) = member
<1>1. PICK g : /\ Order(g, Len(ctx.types), SoFar, "type")
               /\ \A i \in DOMAIN ctx.types : TypeMeans(ctx, ctx.types[i], SoFar[g[i]])
  BY DEF TypesMean
<1>2. DOMAIN ctx.types = 1..Len(ctx.types)
  BY LengthsAre DEF IInv, TablesOK
<1>3. \A i \in 1..Len(ctx.types) : String(ctx.types[i].name) # TempType
  <2>1. SUFFICES ASSUME NEW i \in 1..Len(ctx.types)
                 PROVE  String(ctx.types[i].name) # TempType
    OBVIOUS
  <2>2. String(ctx.types[i].name) = SoFar[g[i]].name
    BY <1>1, <1>2 DEF TypeMeans, StringIs, String
  <2>3. g[i] \in DOMAIN SoFar
    BY <1>1 DEF Order
  <2>. QED  BY <2>2, <2>3, PlainSoFar DEF Plain
<1>4. {i \in 1..Len(ctx.types) : String(ctx.types[i].name) = TempType} = {}
  BY <1>3
<1>5. FirstNamed(ctx.types, TempType) = None
  BY <1>4 DEF FirstNamed, SelectInSeq, None
<1>. QED  BY <1>5 DEF PackedAs

LEMMA BuildDefaultMeans ==
  ASSUME IInv, MeansInv, PlainInv, NEW i \in OwnMembers, BuildDefault(i)
  PROVE  MeansInv'
<1> DEFINE member == Get(ctx.members, i)
           packed == [of |-> PackedAs(member).of, value |-> member.default]
           members == [ctx.members EXCEPT ![i + 1].default = Len(ctx.defaults)]
<1>1. /\ phase = "defaults" /\ phase' = phase /\ pos' = <<i + 1, 0>>
      /\ lib' = lib /\ start' = start /\ files' = files /\ log' = log
      /\ i >= pos[1] /\ member.default # None
      /\ \A j \in OwnMembers : j >= pos[1] /\ j < i => Get(ctx.members, j).default = None
      /\ ctx' = [ctx EXCEPT !.members = members, !.defaults = Append(ctx.defaults, packed)]
  BY DEF BuildDefault, NextDefault
<1>2. IInv' /\ Grows
  BY BuildDefaultStep
<1>3. ctx \in Tables /\ ctx' \in Tables
  BY <1>2 DEF IInv, TablesOK
<1>4. /\ ctx.members \in Seq(MemberDescs) /\ ctx.defaults \in Seq(Defaults)
      /\ Len(ctx.defaults) \in Nat /\ Len(ctx.members) \in Nat
      /\ DOMAIN ctx.members = 1..Len(ctx.members)
  BY <1>3, TablesHave, LengthsAre
<1>5. /\ start.members \in Nat /\ pos[1] \in Nat /\ i \in Nat /\ i + 1 \in DOMAIN ctx.members
      /\ start.members <= i /\ i < Len(ctx.members)
  <2>1. start.members \in Nat /\ pos[1] \in Nat
    BY <1>1 DEF IInv, StartOK, BuildingOK
  <2>2. i \in start.members..(Len(ctx.members) - 1)
    BY DEF OwnMembers
  <2>. QED  BY <1>4, <2>1, <2>2
<1>6. members = [ctx.members EXCEPT ![i + 1] = [member EXCEPT !.default = Len(ctx.defaults)]]
  BY DEF Get
<1>7. /\ members[i + 1] = [member EXCEPT !.default = Len(ctx.defaults)]
      /\ \A j \in DOMAIN ctx.members : j # i + 1 => members[j] = ctx.members[j]
      /\ DOMAIN members = DOMAIN ctx.members /\ Len(members) = Len(ctx.members)
  <2>1. /\ members[i + 1] = [member EXCEPT !.default = Len(ctx.defaults)]
        /\ \A j \in DOMAIN ctx.members : j # i + 1 => members[j] = ctx.members[j]
    BY <1>5, <1>6
  <2>2. Len(members) = Len(ctx.members) /\ members \in Seq(MemberDescs)
    BY <1>4, <1>5, MemberChanged
  <2>3. DOMAIN members = 1..Len(members)
    BY <2>2
  <2>. QED  BY <1>4, <2>1, <2>2, <2>3
<1>8. member \in MemberDescs /\ member = ctx.members[i + 1]
  BY <1>4, <1>5 DEF Get
<1> HIDE DEF members, member
<1>9. /\ ctx'.members = members /\ ctx'.types = ctx.types /\ ctx'.enums = ctx.enums
      /\ ctx'.metas = ctx.metas /\ ctx'.defaults = Append(ctx.defaults, packed)
  BY <1>1, <1>3 DEF Tables
<1> HIDE DEF packed
<1>10. ASSUME ~Failed
       PROVE  Embeds(ctx, ctx', Nowhere) /\ PackedOK'
  <2>1. TypesMean(ctx, SoFar) /\ PackedOK
    BY <1>1, <1>10 DEF MeansInv, Whole
  <2>2. packed = [of |-> member.of, value |-> member.default]
    BY <2>1, PackedAsItself DEF packed
  <2>3. member.default < None
    <3>1. i + 1 > start.members /\ i + 1 > pos[1]
      BY <1>1, <1>5
    <3>2. ctx.members[i + 1].default <= None
      BY <1>1, <1>5, <2>1, <3>1 DEF PackedOK, Unpacked
    <3>3. member.default \in Int
      BY <1>8 DEF MemberDescs
    <3>. QED  BY <1>1, <1>8, <3>2, <3>3 DEF None
  <2>4. MemberMoved(member, members[i + 1], ctx', Nowhere)
    <3>1. /\ members[i + 1].name = member.name /\ members[i + 1].of = member.of
          /\ members[i + 1].meta = member.meta /\ members[i + 1].count = member.count
          /\ members[i + 1].default = Len(ctx.defaults)
      BY <1>7, <1>8 DEF MemberDescs
    <3>2. PICK n \in Nat : n = Len(ctx.defaults)
      BY <1>4
    <3>3. packed \in Defaults
      BY <1>8, <2>2 DEF MemberDescs, Defaults
    <3>4. Len(ctx'.defaults) = n + 1 /\ ctx'.defaults[n + 1] = packed
      BY <1>4, <1>9, <3>2, <3>3
    <3>5. n \in 0..((n + 1) - 1)
      OBVIOUS
    <3>6. DefaultMoved(member, members[i + 1], ctx', Nowhere)
      BY <2>2, <2>3, <3>1, <3>2, <3>4, <3>5 DEF DefaultMoved, Get
    <3>7. /\ member.name \in Nat /\ member.meta \in Nat
          /\ Nowhere.strings = 0 /\ Nowhere.metas = 0
      BY <1>8 DEF MemberDescs, Nowhere
    <3>8. member.name + 0 = member.name /\ Shifted(member.meta, 0) = member.meta
      BY <3>7, MovedNowhere
    <3>. QED  BY <3>1, <3>6, <3>7, <3>8 DEF MemberMoved
  <2>5. Embeds(ctx, ctx', Nowhere)
    <3>1. \A j \in 1..Len(ctx.members) :
            \/ ctx'.members[j] = ctx.members[j]
            \/ MemberMoved(ctx.members[j], ctx'.members[j], ctx', Nowhere)
      BY <1>4, <1>7, <1>8, <1>9, <2>4
    <3>2. Len(ctx.members) <= Len(ctx'.members)
      BY <1>4, <1>7, <1>9
    <3>3. Len(ctx.metas) <= Len(ctx'.metas) /\ Len(ctx.metas) \in Nat
      BY <1>3, <1>9, LengthsAre
    <3>4. \A j \in 1..Len(ctx.metas) : MetaName(ctx'.metas[j].data) = MetaName(ctx.metas[j].data)
      BY <1>9
    <3>5. PICK t \in Tables, u \in Tables : t = ctx /\ u = ctx'
      BY <1>3
    <3>6. /\ Longer(t.strings, u.strings) /\ Longer(t.values, u.values)
          /\ Longer(t.aliases, u.aliases) /\ Longer(t.defaults, u.defaults)
      BY <1>2, <3>5 DEF Grows, NamesGrow
    <3>7. Embeds(t, u, Nowhere)
      BY <3>1, <3>2, <3>3, <3>4, <3>5, <3>6, GrownEmbeds
    <3>. QED  BY <3>5, <3>7
  <2>6. ASSUME NEW j \in DOMAIN ctx.members
        PROVE  IF j > start.members /\ j > i + 1 THEN members[j].default <= None
               ELSE members[j].default >= None
    <3>1. CASE j = i + 1
      <4>1. members[j].default = Len(ctx.defaults)
        BY <1>7, <1>8, <3>1 DEF MemberDescs
      <4>. QED  BY <1>4, <1>5, <3>1, <4>1 DEF None
    <3>2. CASE j # i + 1
      <4>1. members[j] = ctx.members[j] /\ j \in Nat
        BY <1>4, <1>7, <3>2
      <4>2. CASE j > i + 1
        <5>1. j > pos[1] /\ j > start.members
          BY <1>1, <1>5, <4>1, <4>2
        <5>. QED  BY <1>1, <2>1, <4>1, <4>2, <5>1 DEF PackedOK, Unpacked
      <4>3. CASE ~(j > i + 1) /\ Unpacked(j)
        <5>1. j > start.members /\ j > pos[1] /\ j \in 1..Len(ctx.members)
          BY <1>1, <1>4, <4>3 DEF Unpacked
        <5>2. /\ j - 1 \in start.members..(Len(ctx.members) - 1)
              /\ j - 1 >= pos[1] /\ j - 1 < i /\ (j - 1) + 1 = j
          BY <1>4, <1>5, <3>2, <4>1, <4>3, <5>1
        <5>3. ctx.members[j].default = None
          BY <1>1, <5>2 DEF OwnMembers, Get
        <5>. QED  BY <4>1, <4>3, <5>3 DEF None
      <4>4. CASE ~(j > i + 1) /\ ~Unpacked(j)
        BY <2>1, <4>1, <4>4 DEF PackedOK
      <4>. QED  BY <4>2, <4>3, <4>4
    <3>. QED  BY <3>1, <3>2
  <2>7. PackedOK'
    <3>1. pos'[1] = i + 1
      BY <1>1
    <3>. QED  BY <1>1, <1>7, <1>9, <2>6, <3>1 DEF PackedOK, Unpacked
  <2>. QED  BY <2>5, <2>7
<1>. QED  BY <1>1, <1>3, <1>9, <1>10, BuiltMeans

(***************************************************************************)
(* A file is appended.  Its descriptions are moved by the lengths of the   *)
(* tables of the context.                                                  *)
(***************************************************************************)
LengthsOf(t) ==
  [strings |-> Len(t.strings), members |-> Len(t.members), values |-> Len(t.values),
   aliases |-> Len(t.aliases), defaults |-> Len(t.defaults), metas |-> Len(t.metas)]

LEMMA MovedAsLengths ==
  ASSUME ctx \in Tables, NEW u, NEW by, by = LengthsOf(ctx)
  PROVE  /\ by \in Lengths
         /\ \A m \in MemberDescs : m.default >= None => MemberMoved(m, MovedMember(m), u, by)
         /\ \A v \in ValueDescs : ValueMoved(v, MovedValue(v), by)
         /\ \A a \in AliasDescs : AliasMoved(a, MovedAlias(a), by)
         /\ \A d \in TypeDescs : TypeMoved(d, MovedType(d), by)
         /\ \A d \in EnumDescs : EnumMoved(d, MovedEnum(d), by)
<1>1. /\ by.strings = Len(ctx.strings) /\ by.members = Len(ctx.members)
      /\ by.values = Len(ctx.values) /\ by.aliases = Len(ctx.aliases)
      /\ by.defaults = Len(ctx.defaults) /\ by.metas = Len(ctx.metas)
  BY DEF LengthsOf
<1>2. by \in Lengths
  BY LengthsAre DEF LengthsOf, Lengths
<1>3. \A n \in Nat : MovedMeta(n) = Shifted(n, by.metas)
  BY <1>1 DEF MovedMeta, Shifted
<1>4. ASSUME NEW m \in MemberDescs, m.default >= None
      PROVE  MemberMoved(m, MovedMember(m), u, by)
  <2>1. /\ MovedMember(m).name = m.name + Len(ctx.strings) /\ MovedMember(m).of = m.of
        /\ MovedMember(m).meta = MovedMeta(m.meta) /\ MovedMember(m).count = m.count
        /\ MovedMember(m).default = Moved(m.default, Len(ctx.defaults))
    BY DEF MovedMember, MemberDescs
  <2>2. m.meta \in Nat
    BY DEF MemberDescs
  <2>3. DefaultMoved(m, MovedMember(m), u, by)
    BY <1>1, <1>4, <2>1 DEF DefaultMoved
  <2>. QED  BY <1>1, <1>3, <2>1, <2>2, <2>3 DEF MemberMoved
<1>5. ASSUME NEW v \in ValueDescs
      PROVE  ValueMoved(v, MovedValue(v), by)
  <2>1. /\ MovedValue(v).value = v.value /\ MovedValue(v).alias = v.alias + Len(ctx.aliases)
        /\ MovedValue(v).meta = MovedMeta(v.meta) /\ MovedValue(v).count = v.count
        /\ v.meta \in Nat
    BY DEF MovedValue, ValueDescs
  <2>. QED  BY <1>1, <1>3, <2>1 DEF ValueMoved
<1>6. ASSUME NEW a \in AliasDescs
      PROVE  AliasMoved(a, MovedAlias(a), by)
  <2>1. MovedAlias(a).name = a.name + Len(ctx.strings) /\ MovedAlias(a).value = a.value + Len(ctx.values)
    BY DEF MovedAlias, AliasDescs
  <2>. QED  BY <1>1, <2>1 DEF AliasMoved
<1>7. ASSUME NEW d \in TypeDescs
      PROVE  TypeMoved(d, MovedType(d), by)
  <2>1. /\ MovedType(d).name = d.name + Len(ctx.strings)
        /\ MovedType(d).comment = Moved(d.comment, Len(ctx.strings))
        /\ MovedType(d).first = d.first + Len(ctx.members) /\ MovedType(d).parts = d.parts
        /\ MovedType(d).meta = MovedMeta(d.meta) /\ MovedType(d).count = d.count
        /\ d.meta \in Nat
    BY DEF MovedType, TypeDescs
  <2>. QED  BY <1>1, <1>3, <2>1 DEF TypeMoved
<1>8. ASSUME NEW d \in EnumDescs
      PROVE  EnumMoved(d, MovedEnum(d), by)
  <2>1. /\ MovedEnum(d).name = d.name + Len(ctx.strings)
        /\ MovedEnum(d).comment = Moved(d.comment, Len(ctx.strings))
        /\ MovedEnum(d).first = d.first + Len(ctx.values) /\ MovedEnum(d).parts = d.parts
        /\ MovedEnum(d).alias = d.alias + Len(ctx.aliases) /\ MovedEnum(d).aliases = d.aliases
        /\ MovedEnum(d).meta = MovedMeta(d.meta) /\ MovedEnum(d).count = d.count
        /\ d.meta \in Nat
    BY DEF MovedEnum, EnumDescs
  <2>. QED  BY <1>1, <1>3, <2>1 DEF EnumMoved
<1>. QED  BY <1>2, <1>4, <1>5, <1>6, <1>7, <1>8

(* All that a file adds, what is added last included.                      *)
Added(t) == [MovedTables(t) EXCEPT !.defaults = t.defaults, !.metas = t.metas]

LEMMA AddedHas ==
  ASSUME ctx \in Tables, NEW t \in Tables
  PROVE  /\ Added(t) \in Tables
         /\ Added(t).strings = t.strings /\ Added(t).defaults = t.defaults /\ Added(t).metas = t.metas
         /\ DOMAIN Added(t).types = DOMAIN t.types /\ Len(Added(t).types) = Len(t.types)
         /\ DOMAIN Added(t).enums = DOMAIN t.enums /\ Len(Added(t).enums) = Len(t.enums)
         /\ Len(Added(t).members) = Len(t.members) /\ Len(Added(t).values) = Len(t.values)
         /\ Len(Added(t).aliases) = Len(t.aliases)
         /\ DOMAIN Added(t).members = DOMAIN t.members /\ DOMAIN Added(t).values = DOMAIN t.values
         /\ DOMAIN Added(t).aliases = DOMAIN t.aliases
         /\ \A i \in DOMAIN t.types : Added(t).types[i] = MovedType(t.types[i])
         /\ \A i \in DOMAIN t.members : Added(t).members[i] = MovedMember(t.members[i])
         /\ \A i \in DOMAIN t.enums : Added(t).enums[i] = MovedEnum(t.enums[i])
         /\ \A i \in DOMAIN t.values : Added(t).values[i] = MovedValue(t.values[i])
         /\ \A i \in DOMAIN t.aliases : Added(t).aliases[i] = MovedAlias(t.aliases[i])
<1>1. PICK new \in Tables : new = MovedTables(t)
  BY MovedTablesHave
<1>2. Added(t) = [new EXCEPT !.defaults = t.defaults, !.metas = t.metas]
  BY <1>1 DEF Added
<1>3. t.defaults \in Seq(Defaults) /\ t.metas \in Seq(Metas)
  BY TablesHave
<1>4. /\ Added(t) \in Tables
      /\ Added(t).strings = new.strings /\ Added(t).defaults = t.defaults /\ Added(t).metas = t.metas
      /\ Added(t).types = new.types /\ Added(t).members = new.members /\ Added(t).enums = new.enums
      /\ Added(t).values = new.values /\ Added(t).aliases = new.aliases
  BY <1>2, <1>3 DEF Tables
<1>5. /\ new.strings = t.strings
      /\ DOMAIN new.types = DOMAIN t.types /\ Len(new.types) = Len(t.types)
      /\ DOMAIN new.enums = DOMAIN t.enums /\ Len(new.enums) = Len(t.enums)
      /\ Len(new.members) = Len(t.members) /\ Len(new.values) = Len(t.values)
      /\ Len(new.aliases) = Len(t.aliases)
      /\ DOMAIN new.members = DOMAIN t.members /\ DOMAIN new.values = DOMAIN t.values
      /\ DOMAIN new.aliases = DOMAIN t.aliases
      /\ \A i \in DOMAIN t.types : new.types[i] = MovedType(t.types[i])
      /\ \A i \in DOMAIN t.members : new.members[i] = MovedMember(t.members[i])
      /\ \A i \in DOMAIN t.enums : new.enums[i] = MovedEnum(t.enums[i])
      /\ \A i \in DOMAIN t.values : new.values[i] = MovedValue(t.values[i])
      /\ \A i \in DOMAIN t.aliases : new.aliases[i] = MovedAlias(t.aliases[i])
  BY <1>1, MovedTablesHave
<1>. QED  BY <1>4, <1>5, Zenon

LEMMA JoinedHas ==
  ASSUME NEW t \in Tables, NEW a \in Tables
  PROVE  /\ \A i \in DOMAIN a.strings : Joined(t, a).strings[Len(t.strings) + i] = a.strings[i]
         /\ \A i \in DOMAIN a.members : Joined(t, a).members[Len(t.members) + i] = a.members[i]
         /\ \A i \in DOMAIN a.values : Joined(t, a).values[Len(t.values) + i] = a.values[i]
         /\ \A i \in DOMAIN a.aliases : Joined(t, a).aliases[Len(t.aliases) + i] = a.aliases[i]
         /\ \A i \in DOMAIN a.defaults : Joined(t, a).defaults[Len(t.defaults) + i] = a.defaults[i]
         /\ \A i \in DOMAIN a.metas : Joined(t, a).metas[Len(t.metas) + i] = a.metas[i]
<1>1. \A S : \A r \in Seq(S) : \A q \in Seq(S) : \A i \in DOMAIN q : (r \o q)[Len(r) + i] = q[i]
  BY Concatenated
<1>2. \A i \in DOMAIN a.strings : (t.strings \o a.strings)[Len(t.strings) + i] = a.strings[i]
  <2>1. t.strings \in Seq(STRING) /\ a.strings \in Seq(STRING)
    BY TablesHave
  <2>. QED  BY <1>1, <2>1
<1>3. \A i \in DOMAIN a.members : (t.members \o a.members)[Len(t.members) + i] = a.members[i]
  <2>1. t.members \in Seq(MemberDescs) /\ a.members \in Seq(MemberDescs)
    BY TablesHave
  <2>. QED  BY <1>1, <2>1
<1>4. \A i \in DOMAIN a.values : (t.values \o a.values)[Len(t.values) + i] = a.values[i]
  <2>1. t.values \in Seq(ValueDescs) /\ a.values \in Seq(ValueDescs)
    BY TablesHave
  <2>. QED  BY <1>1, <2>1
<1>5. \A i \in DOMAIN a.aliases : (t.aliases \o a.aliases)[Len(t.aliases) + i] = a.aliases[i]
  <2>1. t.aliases \in Seq(AliasDescs) /\ a.aliases \in Seq(AliasDescs)
    BY TablesHave
  <2>. QED  BY <1>1, <2>1
<1>6. \A i \in DOMAIN a.defaults : (t.defaults \o a.defaults)[Len(t.defaults) + i] = a.defaults[i]
  <2>1. t.defaults \in Seq(Defaults) /\ a.defaults \in Seq(Defaults)
    BY TablesHave
  <2>. QED  BY <1>1, <2>1
<1>7. \A i \in DOMAIN a.metas : (t.metas \o a.metas)[Len(t.metas) + i] = a.metas[i]
  <2>1. t.metas \in Seq(Metas) /\ a.metas \in Seq(Metas)
    BY TablesHave
  <2>. QED  BY <1>1, <2>1
<1>. QED  BY <1>2, <1>3, <1>4, <1>5, <1>6, <1>7 DEF Joined

LEMMA FileEmbeds ==
  ASSUME ctx \in Tables, NEW t \in Tables, AllPacked(t)
  PROVE  Embeds(t, Joined(ctx, Added(t)), LengthsOf(ctx))
<1>1. PICK c \in Tables, a \in Tables, u \in Tables, by \in Lengths :
        c = ctx /\ a = Added(t) /\ u = Joined(c, a) /\ by = LengthsOf(ctx)
  BY AddedHas, JoinedTables, MovedAsLengths
<1>2. /\ by.strings = Len(c.strings) /\ by.members = Len(c.members)
      /\ by.values = Len(c.values) /\ by.aliases = Len(c.aliases)
      /\ by.defaults = Len(c.defaults) /\ by.metas = Len(c.metas)
  BY <1>1 DEF LengthsOf
<1>3. /\ a.strings = t.strings /\ a.defaults = t.defaults /\ a.metas = t.metas
      /\ Len(a.members) = Len(t.members) /\ Len(a.values) = Len(t.values) /\ Len(a.aliases) = Len(t.aliases)
      /\ DOMAIN a.members = DOMAIN t.members /\ DOMAIN a.values = DOMAIN t.values
      /\ DOMAIN a.aliases = DOMAIN t.aliases
      /\ \A i \in DOMAIN t.members : a.members[i] = MovedMember(t.members[i])
      /\ \A i \in DOMAIN t.values : a.values[i] = MovedValue(t.values[i])
      /\ \A i \in DOMAIN t.aliases : a.aliases[i] = MovedAlias(t.aliases[i])
  BY <1>1, AddedHas
<1>4. /\ Len(u.strings) = Len(c.strings) + Len(t.strings)
      /\ Len(u.members) = Len(c.members) + Len(t.members)
      /\ Len(u.values) = Len(c.values) + Len(t.values)
      /\ Len(u.aliases) = Len(c.aliases) + Len(t.aliases)
      /\ Len(u.defaults) = Len(c.defaults) + Len(t.defaults)
      /\ Len(u.metas) = Len(c.metas) + Len(t.metas)
  <2>1. /\ Len(u.strings) = Len(c.strings) + Len(a.strings)
        /\ Len(u.members) = Len(c.members) + Len(a.members)
        /\ Len(u.values) = Len(c.values) + Len(a.values)
        /\ Len(u.aliases) = Len(c.aliases) + Len(a.aliases)
        /\ Len(u.defaults) = Len(c.defaults) + Len(a.defaults)
        /\ Len(u.metas) = Len(c.metas) + Len(a.metas)
    <3>1. PICK j : j = Joined(c, a)
      OBVIOUS
    <3>2. /\ Len(j.strings) = Len(c.strings) + Len(a.strings)
          /\ Len(j.members) = Len(c.members) + Len(a.members)
          /\ Len(j.values) = Len(c.values) + Len(a.values)
          /\ Len(j.aliases) = Len(c.aliases) + Len(a.aliases)
          /\ Len(j.defaults) = Len(c.defaults) + Len(a.defaults)
          /\ Len(j.metas) = Len(c.metas) + Len(a.metas)
      BY <3>1, JoinedTables
    <3>3. u = j
      BY <1>1, <3>1
    <3>. QED  BY <3>2, <3>3
  <2>. QED  BY <1>3, <2>1
<1>5. /\ by.strings + Len(t.strings) <= Len(u.strings) /\ by.members + Len(t.members) <= Len(u.members)
      /\ by.values + Len(t.values) <= Len(u.values) /\ by.aliases + Len(t.aliases) <= Len(u.aliases)
      /\ by.defaults + Len(t.defaults) <= Len(u.defaults) /\ by.metas + Len(t.metas) <= Len(u.metas)
  BY <1>2, <1>4, LengthsAre
<1>6. /\ \A i \in DOMAIN t.strings : u.strings[by.strings + i] = t.strings[i]
      /\ \A i \in DOMAIN t.defaults : u.defaults[by.defaults + i] = t.defaults[i]
      /\ \A i \in DOMAIN t.metas : u.metas[by.metas + i] = t.metas[i]
  BY <1>1, <1>2, <1>3, JoinedHas
<1>7. /\ \A i \in DOMAIN t.members : u.members[by.members + i] = MovedMember(t.members[i])
      /\ \A i \in DOMAIN t.values : u.values[by.values + i] = MovedValue(t.values[i])
      /\ \A i \in DOMAIN t.aliases : u.aliases[by.aliases + i] = MovedAlias(t.aliases[i])
  BY <1>1, <1>2, <1>3, JoinedHas
<1>8. ASSUME NEW i \in DOMAIN t.members
      PROVE  MemberMoved(t.members[i], u.members[by.members + i], u, by)
  <2>1. t.members[i] \in MemberDescs /\ t.members[i].default >= None
    BY TablesHave DEF AllPacked
  <2>. QED  BY <1>1, <1>7, <2>1, MovedAsLengths
<1>9. ASSUME NEW i \in DOMAIN t.values
      PROVE  ValueMoved(t.values[i], u.values[by.values + i], by)
  <2>1. t.values[i] \in ValueDescs
    BY TablesHave
  <2>. QED  BY <1>1, <1>7, <2>1, MovedAsLengths
<1>10. ASSUME NEW i \in DOMAIN t.aliases
       PROVE  AliasMoved(t.aliases[i], u.aliases[by.aliases + i], by)
  <2>1. t.aliases[i] \in AliasDescs
    BY TablesHave
  <2>. QED  BY <1>1, <1>7, <2>1, MovedAsLengths
<1>11. Embeds(t, u, by)
  BY <1>5, <1>6, <1>8, <1>9, <1>10 DEF Embeds
<1>. QED  BY <1>1, <1>11

LEMMA JoinedEmbeds ==
  ASSUME NEW t \in Tables, NEW a \in Tables
  PROVE  Joined(t, a) \in Tables /\ Embeds(t, Joined(t, a), Nowhere)
<1>1. PICK u \in Tables : u = Joined(t, a)
  BY JoinedTables
<1>2. /\ Longer(t.strings, u.strings) /\ Longer(t.members, u.members)
      /\ Longer(t.values, u.values) /\ Longer(t.aliases, u.aliases)
      /\ Longer(t.defaults, u.defaults) /\ Longer(t.metas, u.metas)
  BY <1>1, JoinedGrows
<1>3. /\ Len(t.members) <= Len(u.members)
      /\ \A i \in 1..Len(t.members) : u.members[i] = t.members[i]
      /\ Len(t.metas) <= Len(u.metas)
      /\ \A i \in 1..Len(t.metas) : MetaName(u.metas[i].data) = MetaName(t.metas[i].data)
  BY <1>2 DEF Longer
<1>4. Embeds(t, u, Nowhere)
  BY <1>2, <1>3, GrownEmbeds
<1>. QED  BY <1>1, <1>4

LEMMA FileJoined ==
  ASSUME ctx \in Tables, NEW t \in Tables, AllPacked(t),
         NEW s \in Seq(Decls), NEW r \in Seq(Decls),
         NEW w, w = Joined(ctx, Added(t))
  PROVE  /\ TypesMean(ctx, s) /\ TypesMean(t, r) => TypesMean(w, s \o r)
         /\ EnumsMean(ctx, s) /\ EnumsMean(t, r) => EnumsMean(w, s \o r)
<1>1. PICK c \in Tables, a \in Tables, u \in Tables, by \in Lengths :
        /\ c = ctx /\ a = Added(t) /\ u = w /\ u = Joined(c, a) /\ by = LengthsOf(ctx)
        /\ Embeds(c, u, Nowhere) /\ Embeds(t, u, by)
  <2>1. Added(t) \in Tables
    BY AddedHas
  <2>2. w \in Tables /\ Embeds(ctx, w, Nowhere)
    BY <2>1, JoinedEmbeds
  <2>3. LengthsOf(ctx) \in Lengths
    BY MovedAsLengths
  <2>4. Embeds(t, w, LengthsOf(ctx))
    BY FileEmbeds
  <2>. QED  BY <2>1, <2>2, <2>3, <2>4
<1>2. /\ DOMAIN a.types = DOMAIN t.types /\ Len(a.types) = Len(t.types)
      /\ DOMAIN a.enums = DOMAIN t.enums /\ Len(a.enums) = Len(t.enums)
      /\ \A i \in DOMAIN t.types : a.types[i] = MovedType(t.types[i])
      /\ \A i \in DOMAIN t.enums : a.enums[i] = MovedEnum(t.enums[i])
  BY <1>1, AddedHas
<1>3. ASSUME TypesMean(c, s), TypesMean(t, r)
      PROVE  TypesMean(u, s \o r)
  <2>1. PICK g : /\ Order(g, Len(c.types), s, "type")
                 /\ \A i \in DOMAIN c.types : TypeMeans(c, c.types[i], s[g[i]])
    BY <1>3 DEF TypesMean
  <2>2. PICK h : /\ Order(h, Len(t.types), r, "type")
                 /\ \A i \in DOMAIN t.types : TypeMeans(t, t.types[i], r[h[i]])
    BY <1>3 DEF TypesMean
  <2>3. \A i \in DOMAIN c.types : TypeMeans(u, c.types[i], s[g[i]])
    BY <1>1, <2>1, GrownTypes
  <2>4. ASSUME NEW i \in DOMAIN a.types
        PROVE  TypeMeans(u, a.types[i], r[h[i]])
    <3>1. t.types[i] \in TypeDescs /\ i \in 1..Len(t.types) /\ Len(t.types) \in Nat
      BY <1>2, TablesHave, LengthsAre
    <3>2. r[h[i]] \in TypeDecls
      BY <2>2, <3>1, OrderHas
    <3>3. TypeMoved(t.types[i], MovedType(t.types[i]), by)
      BY <1>1, <3>1, MovedAsLengths
    <3>4. TypeMeans(t, t.types[i], r[h[i]])
      BY <1>2, <2>2
    <3>5. TypeMeans(u, MovedType(t.types[i]), r[h[i]])
      BY <1>1, <3>1, <3>2, <3>3, <3>4, TypeMovedMeans
    <3>. QED  BY <1>2, <3>5
  <2>5. PICK types \in Seq(TypeDescs), more \in Seq(TypeDescs) :
          types = c.types /\ more = a.types /\ u.types = types \o more
    <3>1. Joined(c, a).types = c.types \o a.types
      BY DEF Joined
    <3>2. c.types \in Seq(TypeDescs) /\ a.types \in Seq(TypeDescs)
      BY TablesHave
    <3>3. u.types = c.types \o a.types
      BY <1>1, <3>1
    <3>. QED  BY <3>2, <3>3
  <2>6. Order(h, Len(more), r, "type")
    BY <1>2, <2>2, <2>5
  <2>. QED  BY <2>1, <2>3, <2>4, <2>5, <2>6, TypesJoined
<1>4. ASSUME EnumsMean(c, s), EnumsMean(t, r)
      PROVE  EnumsMean(u, s \o r)
  <2>1. PICK g : /\ Order(g, Len(c.enums), s, "enum")
                 /\ \A i \in DOMAIN c.enums : EnumMeans(c, c.enums[i], s[g[i]])
    BY <1>4 DEF EnumsMean
  <2>2. PICK h : /\ Order(h, Len(t.enums), r, "enum")
                 /\ \A i \in DOMAIN t.enums : EnumMeans(t, t.enums[i], r[h[i]])
    BY <1>4 DEF EnumsMean
  <2>3. \A i \in DOMAIN c.enums : EnumMeans(u, c.enums[i], s[g[i]])
    BY <1>1, <2>1, GrownEnums
  <2>4. ASSUME NEW i \in DOMAIN a.enums
        PROVE  EnumMeans(u, a.enums[i], r[h[i]])
    <3>1. t.enums[i] \in EnumDescs /\ i \in 1..Len(t.enums) /\ Len(t.enums) \in Nat
      BY <1>2, TablesHave, LengthsAre
    <3>2. r[h[i]] \in EnumDecls
      BY <2>2, <3>1, OrderHas
    <3>3. EnumMoved(t.enums[i], MovedEnum(t.enums[i]), by)
      BY <1>1, <3>1, MovedAsLengths
    <3>4. EnumMeans(t, t.enums[i], r[h[i]])
      BY <1>2, <2>2
    <3>5. EnumMeans(u, MovedEnum(t.enums[i]), r[h[i]])
      BY <1>1, <3>1, <3>2, <3>3, <3>4, EnumMovedMeans
    <3>. QED  BY <1>2, <3>5
  <2>5. PICK enums \in Seq(EnumDescs), more \in Seq(EnumDescs) :
          enums = c.enums /\ more = a.enums /\ u.enums = enums \o more
    <3>1. Joined(c, a).enums = c.enums \o a.enums
      BY DEF Joined
    <3>2. c.enums \in Seq(EnumDescs) /\ a.enums \in Seq(EnumDescs)
      BY TablesHave
    <3>3. u.enums = c.enums \o a.enums
      BY <1>1, <3>1
    <3>. QED  BY <3>2, <3>3
  <2>6. Order(h, Len(more), r, "enum")
    BY <1>2, <2>2, <2>5
  <2>. QED  BY <2>1, <2>3, <2>4, <2>5, <2>6, EnumsJoined
<1>. QED  BY <1>1, <1>3, <1>4

LEMMA LoadTablesWhole ==
  ASSUME IInv, NEW file \in Files, LoadTables(file)
  PROVE  Whole' = Joined(ctx, Added(file.tables))
<1>1. PICK t \in Tables : t = file.tables
  BY DEF Files
<1>2. /\ phase = "idle" /\ phase' = "binary" /\ lib' = file
      /\ start'.metas = Len(ctx.metas) /\ log' = log
      /\ ctx' = [ctx EXCEPT !.strings = ctx.strings \o t.strings,
                            !.types = ctx.types \o Mapped(t.types, MovedType),
                            !.members = ctx.members \o Mapped(t.members, MovedMember),
                            !.enums = ctx.enums \o Mapped(t.enums, MovedEnum),
                            !.values = ctx.values \o Mapped(t.values, MovedValue),
                            !.aliases = ctx.aliases \o Mapped(t.aliases, MovedAlias)]
  BY <1>1 DEF LoadTables
<1>3. ctx \in Tables
  BY DEF IInv, TablesOK
<1>4. PICK a \in Tables : a = Added(t)
  BY <1>3, AddedHas
<1>5. Whole' = Joined(ctx, a)
  <2>1. /\ a.strings = t.strings /\ a.types = Mapped(t.types, MovedType)
        /\ a.members = Mapped(t.members, MovedMember) /\ a.enums = Mapped(t.enums, MovedEnum)
        /\ a.values = Mapped(t.values, MovedValue) /\ a.aliases = Mapped(t.aliases, MovedAlias)
        /\ a.defaults = t.defaults /\ a.metas = t.metas
    BY <1>4 DEF Added, MovedTables
  <2>2. ctx' = [ctx EXCEPT !.strings = ctx.strings \o a.strings,
                           !.types = ctx.types \o a.types,
                           !.members = ctx.members \o a.members,
                           !.enums = ctx.enums \o a.enums,
                           !.values = ctx.values \o a.values,
                           !.aliases = ctx.aliases \o a.aliases]
    BY <1>2, <2>1, Zenon
  <2>3. PICK s \in Seq(Metas), r \in Seq(Metas) : s = ctx.metas /\ r = a.metas /\ r = t.metas
    BY <1>3, <2>1, TablesHave
  <2>4. [i \in 1..(Len(s) + Len(r)) |-> IF i <= Len(s) THEN s[i] ELSE r[i - Len(s)]] = s \o r
    <3>1. /\ Len(s) \in Nat /\ Len(r) \in Nat /\ Len(s \o r) = Len(s) + Len(r) /\ s \o r \in Seq(Metas)
          /\ \A i \in 1..Len(s) : (s \o r)[i] = s[i]
          /\ \A i \in DOMAIN r : (s \o r)[Len(s) + i] = r[i]
      BY Concatenated DEF Longer
    <3>2. s \o r = [i \in 1..(Len(s) + Len(r)) |-> (s \o r)[i]]
      <4>1. PICK q \in Seq(Metas) : q = s \o r
        BY <3>1
      <4>2. q = [i \in 1..Len(q) |-> q[i]]
        OBVIOUS
      <4>. QED  BY <3>1, <4>1, <4>2
    <3>3. ASSUME NEW i \in 1..(Len(s) + Len(r))
          PROVE  (s \o r)[i] = IF i <= Len(s) THEN s[i] ELSE r[i - Len(s)]
      <4>1. CASE i <= Len(s)
        BY <3>1, <4>1
      <4>2. CASE ~(i <= Len(s))
        <5>1. i - Len(s) \in DOMAIN r /\ Len(s) + (i - Len(s)) = i
          BY <3>1, <4>2
        <5>. QED  BY <3>1, <4>2, <5>1
      <4>. QED  BY <4>1, <4>2
    <3>. QED  BY <3>2, <3>3
  <2>5. ctx'.metas = s /\ ctx'.defaults = ctx.defaults
    BY <1>3, <2>2, <2>3 DEF Tables
  <2>6. Whole' = [ctx' EXCEPT !.defaults = ctx.defaults \o a.defaults, !.metas = s \o r]
    <3>1. Whole' = [ctx' EXCEPT !.defaults = ctx'.defaults \o t.defaults,
                      !.metas = [i \in 1..(Len(s) + Len(r)) |->
                                   IF i <= Len(ctx'.metas) THEN ctx'.metas[i] ELSE r[i - Len(s)]]]
      BY <1>1, <1>2, <2>3 DEF Whole
    <3>. QED  BY <2>1, <2>4, <2>5, <3>1
  <2>. QED  BY <1>3, <2>2, <2>3, <2>6 DEF Joined, Tables
<1>. QED  BY <1>1, <1>4, <1>5

LEMMA LoadTablesMeans ==
  ASSUME IInv, MeansInv, NEW file \in Files, FileMeans(file), LoadTables(file)
  PROVE  MeansInv'
<1>1. PICK t \in Tables : t = file.tables
  BY DEF Files
<1>2. /\ phase = "idle" /\ phase' = "binary" /\ lib' = file
      /\ start'.metas = Len(ctx.metas) /\ log' = log
      /\ ctx' = [ctx EXCEPT !.strings = ctx.strings \o t.strings,
                            !.types = ctx.types \o Mapped(t.types, MovedType),
                            !.members = ctx.members \o Mapped(t.members, MovedMember),
                            !.enums = ctx.enums \o Mapped(t.enums, MovedEnum),
                            !.values = ctx.values \o Mapped(t.values, MovedValue),
                            !.aliases = ctx.aliases \o Mapped(t.aliases, MovedAlias)]
  BY <1>1 DEF LoadTables
<1>3. ctx \in Tables
  BY DEF IInv, TablesOK
<1>4. PICK a \in Tables : a = Added(t)
  BY <1>3, AddedHas
<1>5. Whole' = Joined(ctx, a)
  BY <1>1, <1>4, LoadTablesWhole
<1>6. PICK s \in Seq(Decls), r \in Seq(Decls) : s = SoFar /\ r = file.declared /\ SoFar' = s \o r
  <2>1. PICK d \in Seq(Decls) : d = Declared
    BY SoFarIs
  <2>2. Fresh = <<>> /\ d \o <<>> = d
    BY <1>2, EmptyJoined DEF Fresh
  <2>3. Declared' = Declared /\ Fresh' = file.declared
    BY <1>2 DEF Declared, Fresh
  <2>. QED  BY <2>1, <2>2, <2>3 DEF SoFar, Files
<1>7. TypesMean(t, r) /\ EnumsMean(t, r) /\ AllPacked(t)
  BY <1>1, <1>6 DEF FileMeans
<1>8. ASSUME ~Failed'
      PROVE  (TypesMean(Whole, SoFar) /\ EnumsMean(Whole, SoFar) /\ PackedOK /\ PartsOK)'
  <2>1. ~Failed
    BY <1>2, <1>8 DEF Failed
  <2>2. TypesMean(ctx, s) /\ EnumsMean(ctx, s) /\ PackedOK
    BY <1>2, <1>6, <2>1 DEF MeansInv, Whole
  <2>3. TypesMean(Joined(ctx, a), s \o r) /\ EnumsMean(Joined(ctx, a), s \o r)
    BY <1>3, <1>4, <1>7, <2>2, FileJoined
  <2>4. TypesMean(Whole', SoFar') /\ EnumsMean(Whole', SoFar')
    BY <1>5, <1>6, <2>3
  <2>5. PackedOK'
    <3>1. PICK m \in Seq(MemberDescs), more \in Seq(MemberDescs) : m = ctx.members /\ more = a.members
      BY <1>3, TablesHave
    <3>2. ctx'.members = m \o more
      BY <1>2, <1>3, <1>4, <3>1 DEF Tables, Added, MovedTables
    <3>3. ASSUME NEW i \in DOMAIN (m \o more)
          PROVE  (m \o more)[i].default >= None
      <4>1. \/ i \in DOMAIN m /\ (m \o more)[i] = m[i]
            \/ \E k \in DOMAIN more : (m \o more)[i] = more[k]
        BY ConcatenatedElements
      <4>2. \A k \in DOMAIN m : m[k].default >= None
        BY <1>2, <2>2, <3>1 DEF PackedOK, Unpacked
      <4>3. ASSUME NEW k \in DOMAIN more
            PROVE  more[k].default >= None
        <5>1. k \in DOMAIN t.members /\ more[k] = MovedMember(t.members[k])
          BY <1>3, <1>4, <3>1, AddedHas
        <5>2. PICK d \in MemberDescs : d = t.members[k]
          BY <5>1, TablesHave
        <5>3. more[k].default = Moved(d.default, Len(ctx.defaults))
          BY <1>3, <5>1, <5>2, MovedMemberHas
        <5>4. d.default >= None /\ d.default \in Int /\ Len(ctx.defaults) \in Nat
          BY <1>3, <1>7, <5>1, <5>2, LengthsAre DEF AllPacked, MemberDescs
        <5>. QED  BY <5>3, <5>4 DEF Moved, None
      <4>. QED  BY <4>1, <4>2, <4>3
    <3>. QED  BY <1>2, <3>2, <3>3 DEF PackedOK, Unpacked
  <2>6. PartsOK'
    BY <1>2 DEF PartsOK
  <2>. QED  BY <2>4, <2>5, <2>6
<1>. QED  BY <1>8 DEF MeansInv

(* What is written from a context in which no load failed means what was   *)
(* declared in it.                                                         *)
LEMMA WrittenMeans ==
  ASSUME IInv, MeansInv, phase = "idle", ~Failed
  PROVE  FileMeans(Image)
<1>1. PICK c \in Tables : c = ctx
  BY DEF IInv, TablesOK
<1>2. PICK u \in Tables : u = Image.tables
  BY ImageHas DEF Files
<1>3. u = [c EXCEPT !.metas = Mapped(c.metas, LAMBDA m : [m EXCEPT !.data.packed = m.data.stored])]
  BY <1>1, <1>2 DEF Image
<1>4. /\ u.strings = c.strings /\ u.types = c.types /\ u.members = c.members
      /\ u.enums = c.enums /\ u.values = c.values /\ u.aliases = c.aliases
      /\ u.defaults = c.defaults
      /\ u.metas = Mapped(c.metas, LAMBDA m : [m EXCEPT !.data.packed = m.data.stored])
  BY <1>3 DEF Tables
<1>5. PICK s \in Seq(Metas), r \in Seq(Metas) : s = c.metas /\ r = u.metas
  BY TablesHave
<1>6. r = [i \in DOMAIN s |-> [s[i] EXCEPT !.data.packed = s[i].data.stored]]
  BY <1>4, <1>5 DEF Mapped
<1>7. Len(s) <= Len(r) /\ \A i \in 1..Len(s) : MetaName(r[i].data) = MetaName(s[i].data)
  <2>1. Len(s) \in Nat /\ DOMAIN s = 1..Len(s) /\ Len(r) = Len(s)
    BY <1>6
  <2>2. ASSUME NEW i \in 1..Len(s)
        PROVE  MetaName(r[i].data) = MetaName(s[i].data)
    <3>1. PICK m \in Metas : m = s[i]
      OBVIOUS
    <3>2. r[i] = [m EXCEPT !.data.packed = m.data.stored]
      BY <1>6, <2>1, <3>1
    <3>3. r[i].data.of = m.data.of /\ r[i].data.value = m.data.value
      BY <3>2 DEF Metas, Instances
    <3>. QED  BY <3>1, <3>3 DEF MetaName
  <2>. QED  BY <2>1, <2>2
<1>8. Embeds(c, u, Nowhere)
  <2>1. /\ \A i \in 1..Len(c.members) : u.members[i] = c.members[i]
        /\ Len(c.members) <= Len(u.members)
    BY <1>4, LengthsAre
  <2>2. /\ Longer(c.strings, u.strings) /\ Longer(c.values, u.values)
        /\ Longer(c.aliases, u.aliases) /\ Longer(c.defaults, u.defaults)
    BY <1>4, LengthsAre DEF Longer
  <2>. QED  BY <1>5, <1>7, <2>1, <2>2, GrownEmbeds
<1>9. PICK s1 \in Seq(Decls) : s1 = Declared /\ SoFar = s1 /\ Image.declared = s1
  <2>1. PICK s1 \in Seq(Decls) : s1 = Declared
    BY SoFarIs
  <2>2. SoFar = s1 \o <<>> /\ s1 \o <<>> = s1
    BY <2>1, EmptyJoined DEF SoFar, Fresh
  <2>. QED  BY <2>1, <2>2 DEF Image
<1>10. TypesMean(c, s1) /\ EnumsMean(c, s1) /\ PackedOK
  BY <1>1, <1>9 DEF MeansInv, Whole
<1>11. TypesMean(u, s1) /\ EnumsMean(u, s1)
  BY <1>4, <1>8, <1>10, GrownTables
<1>12. AllPacked(u)
  BY <1>1, <1>4, <1>10 DEF AllPacked, PackedOK, Unpacked
<1>. QED  BY <1>2, <1>9, <1>11, <1>12 DEF FileMeans

LEMMA WriteLibraryMeans ==
  ASSUME IInv, MeansInv, FilesMean, WriteLibrary
  PROVE  MeansInv' /\ FilesMean'
<1>1. /\ phase = "idle" /\ ~Failed /\ files' = Append(files, Image)
      /\ phase' = phase /\ ctx' = ctx /\ lib' = lib /\ pos' = pos /\ local' = local
      /\ start' = start /\ log' = log
  BY DEF WriteLibrary
<1>2. FilesMean'
  <2>1. files \in Seq(Files) /\ Image \in Files
    BY <1>1, ImageHas DEF IInv, FilesOK
  <2>2. \A i \in DOMAIN files' : files'[i] = Image \/ (i \in DOMAIN files /\ files'[i] = files[i])
    BY <1>1, <2>1
  <2>3. FileMeans(Image)
    BY <1>1, WrittenMeans
  <2>. QED  BY <2>2, <2>3 DEF FilesMean
<1>3. Whole' = Whole /\ SoFar' = SoFar /\ Failed' = Failed
  BY <1>1 DEF Whole, SoFar, Fresh, Declared, Failed
<1>4. (PackedOK' <=> PackedOK) /\ PartsOK'
  BY <1>1 DEF PackedOK, Unpacked, PartsOK
<1>5. ~Failed => PackedOK'
  BY <1>1, <1>4 DEF MeansInv
<1>6. MeansInv'
  BY <1>1, <1>3, <1>4, <1>5, SameMeans
<1>. QED  BY <1>2, <1>6

(* An empty context means that nothing was declared.                       *)
LEMMA EmptyMeans == ctx = Empty /\ log = <<>> /\ phase = "idle" => MeansInv
<1> SUFFICES ASSUME ctx = Empty, log = <<>>, phase = "idle"
             PROVE  MeansInv
  OBVIOUS
<1>1. /\ Empty.types = <<>> /\ Empty.enums = <<>> /\ Empty.members = <<>>
      /\ DOMAIN <<>> = {} /\ Len(<<>>) = 0 /\ 1..0 = {}
  BY OneAndNone DEF Empty
<1>2. SoFar = <<>>
  <2>1. Declared = <<>> /\ Fresh = <<>>
    BY NoneDeclared DEF Fresh
  <2>. QED  BY <2>1, EmptyJoined DEF SoFar
<1>3. \A kind : Order(<<>>, 0, <<>>, kind)
  BY <1>1 DEF Order
<1>4. TypesMean(Empty, <<>>) /\ EnumsMean(Empty, <<>>)
  BY <1>1, <1>3 DEF TypesMean, EnumsMean
<1>5. Whole = Empty
  BY DEF Whole
<1>6. PackedOK
  BY <1>1 DEF PackedOK
<1>7. PartsOK
  BY DEF PartsOK
<1>. QED  BY <1>2, <1>4, <1>5, <1>6, <1>7 DEF MeansInv

(* Every step keeps what tables and files mean.                            *)
LEMMA MeaningKept ==
  ASSUME IInv, MeansInv, FilesMean, PlainInv, [Next]_vars
  PROVE  MeansInv' /\ FilesMean'
<1>1. ASSUME files' = files
      PROVE  FilesMean'
  BY <1>1 DEF FilesMean
<1>2. CASE NewContext
  <2>1. ctx' = Empty /\ log' = <<>> /\ phase' = "idle" /\ files' = files
    BY <1>2 DEF NewContext
  <2>2. (ctx = Empty /\ log = <<>> /\ phase = "idle" => MeansInv)'
    BY EmptyMeans, PTL
  <2>. QED  BY <1>1, <2>1, <2>2
<1>3. CASE \E text \in Texts : LoadText(text)
  BY <1>1, <1>3, LoadTextMeans DEF LoadText
<1>4. CASE ReadBegin
  BY <1>1, <1>4, ReadBeginMeans DEF ReadBegin
<1>5. CASE ReadMember
  BY <1>1, <1>5, ReadMemberMeans DEF ReadMember
<1>6. CASE ReadType
  BY <1>1, <1>6, ReadTypeMeans DEF ReadType
<1>7. CASE ReadValue
  BY <1>1, <1>7, ReadValueMeans DEF ReadValue
<1>8. CASE ReadEnum
  BY <1>1, <1>8, ReadEnumMeans DEF ReadEnum
<1>9. CASE ParseError \/ UnknownType \/ MetadataFails \/ (\E i \in OwnMembers : DefaultFails(i))
  <2>1. Refused
    BY <1>9 DEF ParseError, UnknownType, MetadataFails, DefaultFails
  <2>. QED  BY <1>1, <2>1, RefusedMeans DEF Refused, Return
<1>10. CASE FixUp
  BY <1>1, <1>10, FixUpMeans DEF FixUp
<1>11. CASE \E i \in OwnMembers : BuildDefault(i)
  BY <1>1, <1>11, BuildDefaultMeans DEF BuildDefault
<1>12. CASE DefaultsDone
  BY <1>1, <1>12, DefaultsDoneMeans DEF DefaultsDone
<1>13. CASE CreateMetadata
  BY <1>1, <1>13, CreateMetadataMeans DEF CreateMetadata
<1>14. CASE TextDone
  BY <1>1, <1>14, TextDoneMeans DEF TextDone, Return
<1>15. CASE WriteLibrary
  BY <1>15, WriteLibraryMeans
<1>16. CASE \E i \in DOMAIN files : LoadTables(files[i])
  <2>1. PICK i \in DOMAIN files : LoadTables(files[i])
    BY <1>16
  <2>2. files[i] \in Files /\ FileMeans(files[i])
    BY DEF IInv, FilesOK, FilesMean
  <2>3. files' = files
    BY <2>1 DEF LoadTables
  <2>. QED  BY <1>1, <2>1, <2>2, <2>3, LoadTablesMeans
<1>17. CASE LoadMetadata
  BY <1>1, <1>17, LoadMetadataMeans DEF LoadMetadata
<1>18. CASE LoadMetadataLost
  BY <1>1, <1>18 DEF LoadMetadataLost, MeansInv
<1>19. CASE LoadBinaryDone
  BY <1>1, <1>19, LoadBinaryDoneMeans DEF LoadBinaryDone, Return
<1>20. CASE UNCHANGED vars
  <2>1. /\ phase' = phase /\ ctx' = ctx /\ lib' = lib /\ pos' = pos /\ local' = local
        /\ start' = start /\ files' = files /\ log' = log
    BY <1>20 DEF vars
  <2>2. Whole' = Whole /\ SoFar' = SoFar /\ Failed' = Failed
    BY <2>1 DEF Whole, SoFar, Fresh, Declared, Failed
  <2>3. (PackedOK' <=> PackedOK) /\ (PartsOK' <=> PartsOK)
    BY <2>1 DEF PackedOK, Unpacked, PartsOK, Reading, Decl, MetasMean, MembersMean, ValuesMean,
       AliasesMean, MemberMeans, ValueMeans, AliasMeans, StringIs, DefaultMeans
  <2>4. CASE phase = "lost"
    BY <1>1, <2>1, <2>4 DEF MeansInv
  <2>5. CASE phase # "lost"
    <3>1. ~Failed => PackedOK' /\ PartsOK'
      BY <2>3, <2>5 DEF MeansInv
    <3>. QED  BY <1>1, <2>1, <2>2, <2>5, <3>1, SameMeans
  <2>. QED  BY <2>4, <2>5
<1>. QED
  BY <1>2, <1>3, <1>4, <1>5, <1>6, <1>7, <1>8, <1>9, <1>10, <1>11, <1>12, <1>13, <1>14,
     <1>15, <1>16, <1>17, <1>18, <1>19, <1>20 DEF Next

LEMMA AlwaysMeans ==
  ASSUME NoTemporaryDeclared
  PROVE  Spec => [](IInv /\ MeansInv)
<1>1. Init => IInv /\ MeansInv /\ FilesMean /\ PlainInv
  <2>1. SUFFICES ASSUME Init
                 PROVE  IInv /\ MeansInv /\ FilesMean /\ PlainInv
    OBVIOUS
  <2>2. ctx = Empty /\ log = <<>> /\ phase = "idle" /\ files = <<>> /\ DOMAIN <<>> = {}
    BY <2>1, OneAndNone DEF Init
  <2>3. IInv
    BY <2>1, InitHasIInv
  <2>4. MeansInv
    BY <2>2, EmptyMeans
  <2>5. FilesMean
    BY <2>2 DEF FilesMean
  <2>6. PlainInv
    BY <2>2, NoneDeclared DEF PlainInv, Plain
  <2>. QED  BY <2>3, <2>4, <2>5, <2>6
<1>2. IInv /\ MeansInv /\ FilesMean /\ PlainInv /\ [Next]_vars
        => (IInv /\ MeansInv /\ FilesMean /\ PlainInv)'
  BY StepKeeps, MeaningKept, PlainKeeps
<1>. QED  BY <1>1, <1>2, PTL DEF Spec

(***************************************************************************)
(* What is found for a name that was declared.                             *)
(***************************************************************************)
LEMMA FirstIs ==
  ASSUME NEW table, Len(table) \in Nat, NEW name, NEW i \in 1..Len(table),
         String(table[i].name) = name,
         \A j \in 1..Len(table) : String(table[j].name) = name => i <= j
  PROVE  Get(table, FirstNamed(table, name)) = table[i]
<1> DEFINE I == {k \in 1..Len(table) : String(table[k].name) = name}
<1>1. I \in SUBSET Nat /\ i \in I /\ \A k \in I : i <= k
  OBVIOUS
<1>2. FirstNamed(table, name) = (IF I # {} THEN Min(I) ELSE 0) - 1
  BY DEF FirstNamed, SelectInSeq
<1> HIDE DEF I
<1>3. Min(I) = i /\ I # {}
  BY <1>1, MinIs
<1>4. FirstNamed(table, name) + 1 = i
  BY <1>2, <1>3
<1>. QED  BY <1>4 DEF Get

LEMMA SettledMeans ==
  ASSUME IInv, MeansInv, Settled
  PROVE  /\ ctx \in Tables /\ Declared \in Seq(Decls)
         /\ TypesMean(ctx, Declared) /\ EnumsMean(ctx, Declared)
         /\ \A i \in DOMAIN ctx.members : ctx.members[i].default >= None
<1>1. ctx \in Tables
  BY DEF IInv, TablesOK
<1>2. PICK s \in Seq(Decls) : s = Declared
  BY SoFarIs
<1>3. Whole = ctx /\ Fresh = <<>> /\ s \o <<>> = s
  BY EmptyJoined DEF Settled, Whole, Fresh
<1>4. SoFar = s
  BY <1>2, <1>3 DEF SoFar
<1>5. TypesMean(Whole, SoFar) /\ EnumsMean(Whole, SoFar) /\ PackedOK
  BY DEF MeansInv, Settled
<1>6. \A i \in DOMAIN ctx.members : ctx.members[i].default >= None
  BY <1>5 DEF PackedOK, Unpacked, Settled
<1>. QED  BY <1>1, <1>2, <1>3, <1>4, <1>5, <1>6

(* The first of a name that was declared is the first that is found.       *)
LEMMA VisibleMeans ==
  ASSUME IInv, MeansInv, Settled
  PROVE  /\ \A decl \in Visible("type") :
              /\ decl \in TypeDecls /\ TypeOf(decl.name) \in TypeDescs
              /\ TypeMeans(ctx, TypeOf(decl.name), decl)
         /\ \A decl \in Visible("enum") :
              /\ decl \in EnumDecls /\ EnumOf(decl.name) \in EnumDescs
              /\ EnumMeans(ctx, EnumOf(decl.name), decl)
<1>1. PICK s \in Seq(Decls), t \in Tables :
        s = Declared /\ t = ctx /\ TypesMean(t, s) /\ EnumsMean(t, s)
  BY SettledMeans
<1>2. /\ Len(t.types) \in Nat /\ DOMAIN t.types = 1..Len(t.types)
      /\ Len(t.enums) \in Nat /\ DOMAIN t.enums = 1..Len(t.enums)
      /\ Len(s) \in Nat /\ DOMAIN s = 1..Len(s)
  BY LengthsAre
<1>3. ASSUME NEW kind, NEW decl \in Visible(kind)
      PROVE  \E k \in DOMAIN s : /\ decl = s[k] /\ s[k].kind = kind
                                 /\ \A j \in DOMAIN s : j < k /\ s[j].kind = kind => s[j].name # s[k].name
  <2>1. PICK k \in DOMAIN s : /\ decl = s[k] /\ s[k].kind = kind
                              /\ \A j \in 1..(k - 1) : s[j].kind = kind => s[j].name # s[k].name
    BY <1>1 DEF Visible
  <2>2. \A j \in DOMAIN s : j < k => j \in 1..(k - 1)
    BY <1>2
  <2>. QED  BY <2>1, <2>2
<1>4. ASSUME NEW decl \in Visible("type")
      PROVE  /\ decl \in TypeDecls /\ TypeOf(decl.name) \in TypeDescs
             /\ TypeMeans(ctx, TypeOf(decl.name), decl)
  <2>1. PICK k \in DOMAIN s : /\ decl = s[k] /\ s[k].kind = "type"
                              /\ \A j \in DOMAIN s : j < k /\ s[j].kind = "type" => s[j].name # s[k].name
    BY <1>3
  <2>2. PICK g : /\ Order(g, Len(t.types), s, "type")
                 /\ \A i \in DOMAIN t.types : TypeMeans(t, t.types[i], s[g[i]])
    BY <1>1 DEF TypesMean
  <2>3. PICK i \in 1..Len(t.types) : g[i] = k
    BY <2>1, <2>2 DEF Order
  <2>4. decl \in TypeDecls
    BY <1>2, <2>1, <2>2, <2>3, OrderHas
  <2>5. TypeMeans(ctx, t.types[i], decl)
    BY <1>1, <1>2, <2>1, <2>2, <2>3
  <2>6. String(t.types[i].name) = decl.name
    BY <1>1, <2>5 DEF TypeMeans, StringIs, String
  <2>7. ASSUME NEW j \in 1..Len(t.types), String(t.types[j].name) = decl.name
        PROVE  i <= j
    <3>1. g[j] \in DOMAIN s /\ s[g[j]].kind = "type"
      BY <1>2, <2>2, OrderHas
    <3>2. s[g[j]].name = decl.name
      BY <1>1, <1>2, <2>2, <2>7 DEF TypeMeans, StringIs, String
    <3>3. ~(g[j] < k)
      BY <2>1, <3>1, <3>2
    <3>4. j < i => g[j] < g[i]
      BY <2>2 DEF Order
    <3>. QED  BY <1>2, <2>3, <3>3, <3>4
  <2>8. TypeOf(decl.name) = t.types[i]
    <3>1. Get(t.types, FirstNamed(t.types, decl.name)) = t.types[i]
      BY <1>2, <2>6, <2>7, FirstIs
    <3>. QED  BY <1>1, <3>1 DEF TypeOf
  <2>9. t.types[i] \in TypeDescs
    BY <1>2, TablesHave
  <2>. QED  BY <2>4, <2>5, <2>8, <2>9
<1>5. ASSUME NEW decl \in Visible("enum")
      PROVE  /\ decl \in EnumDecls /\ EnumOf(decl.name) \in EnumDescs
             /\ EnumMeans(ctx, EnumOf(decl.name), decl)
  <2>1. PICK k \in DOMAIN s : /\ decl = s[k] /\ s[k].kind = "enum"
                              /\ \A j \in DOMAIN s : j < k /\ s[j].kind = "enum" => s[j].name # s[k].name
    BY <1>3
  <2>2. PICK g : /\ Order(g, Len(t.enums), s, "enum")
                 /\ \A i \in DOMAIN t.enums : EnumMeans(t, t.enums[i], s[g[i]])
    BY <1>1 DEF EnumsMean
  <2>3. PICK i \in 1..Len(t.enums) : g[i] = k
    BY <2>1, <2>2 DEF Order
  <2>4. decl \in EnumDecls
    BY <1>2, <2>1, <2>2, <2>3, OrderHas
  <2>5. EnumMeans(ctx, t.enums[i], decl)
    BY <1>1, <1>2, <2>1, <2>2, <2>3
  <2>6. String(t.enums[i].name) = decl.name
    BY <1>1, <2>5 DEF EnumMeans, StringIs, String
  <2>7. ASSUME NEW j \in 1..Len(t.enums), String(t.enums[j].name) = decl.name
        PROVE  i <= j
    <3>1. g[j] \in DOMAIN s /\ s[g[j]].kind = "enum"
      BY <1>2, <2>2, OrderHas
    <3>2. s[g[j]].name = decl.name
      BY <1>1, <1>2, <2>2, <2>7 DEF EnumMeans, StringIs, String
    <3>3. ~(g[j] < k)
      BY <2>1, <3>1, <3>2
    <3>4. j < i => g[j] < g[i]
      BY <2>2 DEF Order
    <3>. QED  BY <1>2, <2>3, <3>3, <3>4
  <2>8. EnumOf(decl.name) = t.enums[i]
    <3>1. Get(t.enums, FirstNamed(t.enums, decl.name)) = t.enums[i]
      BY <1>2, <2>6, <2>7, FirstIs
    <3>. QED  BY <1>1, <3>1 DEF EnumOf
  <2>9. t.enums[i] \in EnumDescs
    BY <1>2, TablesHave
  <2>. QED  BY <2>4, <2>5, <2>8, <2>9
<1>. QED  BY <1>4, <1>5

LEMMA CommentFound ==
  ASSUME NEW index, NEW text, CommentMeans(ctx, index, text)
  PROVE  Comment(index) = text
BY DEF CommentMeans, Comment, StringIs, String

LEMMA DefaultFound ==
  ASSUME NEW m, NEW p \in MemberDecls, m.default >= None, m.default \in Int,
         Len(ctx.defaults) \in Nat, DefaultMeans(ctx, m, p)
  PROVE  DefaultOf(m) = IF p.default = None THEN Nothing
                        ELSE [of |-> p.of, value |-> p.default]
<1>1. CASE m.default = p.default
  <2>1. p.default = None
    BY <1>1 DEF MemberDecls, DefaultTexts, None
  <2>2. m.default \notin 0..(Len(ctx.defaults) - 1)
    BY <1>1, <2>1 DEF None
  <2>. QED  BY <2>1, <2>2 DEF DefaultOf
<1>2. CASE m.default # p.default
  BY <1>2 DEF DefaultMeans, DefaultOf
<1>. QED  BY <1>1, <1>2

LEMMA MetasFound ==
  ASSUME NEW d, NEW metas, Len(metas) \in Nat, DOMAIN metas = 1..Len(metas), d.meta \in Nat,
         d.meta # 0, d.count = Len(metas), MetasMean(ctx, d.meta, metas)
  PROVE  MetaRight(d, metas)
<1> DEFINE found == MetasOf(d)
<1>1. \A i \in DOMAIN metas : MetaName(ctx.metas[d.meta + i].data) = MetaName(metas[i])
  BY DEF MetasMean
<1>2. DOMAIN found = DOMAIN metas
  BY DEF MetasOf
<1>3. ASSUME NEW i \in DOMAIN metas
      PROVE  MetaName(found[i]) = MetaName(metas[i])
  <2>1. (d.meta + i - 1) + 1 = d.meta + i
    OBVIOUS
  <2>2. found[i] = ctx.metas[d.meta + i].data
    BY <2>1 DEF MetasOf, Get
  <2>. QED  BY <1>1, <2>2
<1> HIDE DEF found
<1>4. [i \in DOMAIN found |-> MetaName(found[i])] = [i \in DOMAIN metas |-> MetaName(metas[i])]
  BY <1>2, <1>3
<1>. QED  BY <1>4 DEF MetaRight, Mapped, found

(* The members, values and aliases that are found are those declared.      *)
LEMMA MembersFound ==
  ASSUME ctx \in Tables, \A i \in DOMAIN ctx.members : ctx.members[i].default >= None,
         NEW decl \in TypeDecls, TypeOf(decl.name) \in TypeDescs,
         TypeMeans(ctx, TypeOf(decl.name), decl)
  PROVE  /\ MembersOf(decl.name) = DeclaredMembers(decl)
         /\ \A i \in DOMAIN decl.parts :
              PartsOf(TypeOf(decl.name), ctx.members)[i].meta # 0 =>
                MetaRight(PartsOf(TypeOf(decl.name), ctx.members)[i], decl.parts[i].metas)
<1>1. PICK d \in TypeDescs : d = TypeOf(decl.name)
  OBVIOUS
<1>2. PICK parts \in Seq(MemberDecls) : parts = decl.parts
  BY DEF TypeDecls
<1>3. PICK first \in Nat, n \in Nat : first = d.first /\ n = Len(parts) /\ d.parts = n
  BY <1>1, <1>2 DEF TypeDescs, TypeMeans
<1>4. PICK members \in Seq(MemberDescs) : members = ctx.members
  BY TablesHave
<1>5. /\ DOMAIN parts = 1..n /\ DOMAIN members = 1..Len(members) /\ Len(members) \in Nat
      /\ first + n <= Len(members)
      /\ \A i \in 1..n : MemberMeans(ctx, members[first + i], parts[i])
  BY <1>1, <1>2, <1>3, <1>4 DEF TypeMeans, MembersMean
<1>6. ASSUME NEW i \in 1..n
      PROVE  Get(members, first + i - 1) = members[first + i] /\ first + i \in DOMAIN members
  <2>1. (first + i - 1) + 1 = first + i /\ first + i \in 1..Len(members)
    BY <1>5
  <2>. QED  BY <1>5, <2>1 DEF Get
<1>7. PICK found : /\ found = PartsOf(d, ctx.members) /\ DOMAIN found = 1..n
                   /\ \A i \in 1..n : found[i] = members[first + i]
  <2>1. PartsOf(d, ctx.members) = [i \in 1..n |-> Get(members, first + i - 1)]
    BY <1>3, <1>4 DEF PartsOf
  <2>2. PICK found : found = [i \in 1..n |-> Get(members, first + i - 1)]
    OBVIOUS
  <2>3. DOMAIN found = 1..n /\ \A i \in 1..n : found[i] = members[first + i]
    BY <1>6, <2>2
  <2>. QED  BY <2>1, <2>2, <2>3
<1>8. ASSUME NEW i \in 1..n
      PROVE  /\ String(found[i].name) = parts[i].name /\ found[i].of = parts[i].of
             /\ DefaultOf(found[i]) = IF parts[i].default = None THEN Nothing
                                      ELSE [of |-> parts[i].of, value |-> parts[i].default]
             /\ found[i].meta # 0 => MetaRight(found[i], parts[i].metas)
  <2>1. PICK m \in MemberDescs, p \in MemberDecls :
          /\ m = members[first + i] /\ m = found[i] /\ p = parts[i]
          /\ MemberMeans(ctx, m, p) /\ m.default >= None
    <3>1. members[first + i] \in MemberDescs /\ members[first + i].default >= None
      <4>1. \A k \in DOMAIN members : members[k].default >= None
        BY <1>4
      <4>2. \A k \in DOMAIN members : members[k] \in MemberDescs
        OBVIOUS
      <4>. QED  BY <1>6, <4>1, <4>2
    <3>2. parts[i] \in MemberDecls /\ MemberMeans(ctx, members[first + i], parts[i])
      BY <1>5
    <3>. QED  BY <1>7, <3>1, <3>2
  <2>2. String(m.name) = p.name /\ m.of = p.of
    BY <2>1 DEF MemberMeans, StringIs, String
  <2>3. DefaultOf(m) = IF p.default = None THEN Nothing ELSE [of |-> p.of, value |-> p.default]
    <3>1. m.default \in Int /\ Len(ctx.defaults) \in Nat
      BY LengthsAre DEF MemberDescs
    <3>. QED  BY <2>1, <3>1, DefaultFound DEF MemberMeans
  <2>4. m.meta # 0 => MetaRight(m, p.metas)
    <3>1. m.meta \in Nat /\ p.metas \in Seq(Instances)
      BY DEF MemberDescs, MemberDecls
    <3>2. Len(p.metas) \in Nat /\ DOMAIN p.metas = 1..Len(p.metas)
      BY <3>1
    <3>. QED  BY <2>1, <3>1, <3>2, MetasFound DEF MemberMeans
  <2>. QED  BY <2>1, <2>2, <2>3, <2>4
<1>9. MembersOf(decl.name) = [i \in 1..n |-> <<String(found[i].name), found[i].of, DefaultOf(found[i])>>]
  BY <1>1, <1>7 DEF MembersOf, Mapped
<1>10. DeclaredMembers(decl) =
         [i \in 1..n |-> <<parts[i].name, parts[i].of,
                           IF parts[i].default = None THEN Nothing
                           ELSE [of |-> parts[i].of, value |-> parts[i].default]>>]
  BY <1>2, <1>5 DEF DeclaredMembers, Mapped
<1>11. MembersOf(decl.name) = DeclaredMembers(decl)
  BY <1>8, <1>9, <1>10
<1>. QED  BY <1>1, <1>2, <1>5, <1>7, <1>8, <1>11

LEMMA ValuesFound ==
  ASSUME ctx \in Tables, NEW decl \in EnumDecls, EnumOf(decl.name) \in EnumDescs,
         EnumMeans(ctx, EnumOf(decl.name), decl)
  PROVE  /\ ValuesOf(decl.name) = Mapped(decl.parts, LAMBDA p : <<p.name, p.value>>)
         /\ \A i \in DOMAIN decl.parts :
              PartsOf(EnumOf(decl.name), ctx.values)[i].meta # 0 =>
                MetaRight(PartsOf(EnumOf(decl.name), ctx.values)[i], decl.parts[i].metas)
<1>1. PICK d \in EnumDescs : d = EnumOf(decl.name)
  OBVIOUS
<1>2. PICK parts \in Seq(ValueDecls) : parts = decl.parts
  BY DEF EnumDecls
<1>3. PICK first \in Nat, n \in Nat : first = d.first /\ n = Len(parts) /\ d.parts = n
  BY <1>1, <1>2 DEF EnumDescs, EnumMeans
<1>4. PICK values \in Seq(ValueDescs) : values = ctx.values
  BY TablesHave
<1>5. /\ DOMAIN parts = 1..n /\ DOMAIN values = 1..Len(values) /\ Len(values) \in Nat
      /\ first + n <= Len(values)
      /\ \A i \in 1..n : ValueMeans(ctx, values[first + i], parts[i])
  BY <1>1, <1>2, <1>3, <1>4 DEF EnumMeans, ValuesMean
<1>6. ASSUME NEW i \in 1..n
      PROVE  Get(values, first + i - 1) = values[first + i] /\ first + i \in DOMAIN values
  <2>1. (first + i - 1) + 1 = first + i /\ first + i \in 1..Len(values)
    BY <1>5
  <2>. QED  BY <1>5, <2>1 DEF Get
<1>7. PICK found : /\ found = PartsOf(d, ctx.values) /\ DOMAIN found = 1..n
                   /\ \A i \in 1..n : found[i] = values[first + i]
  <2>1. PartsOf(d, ctx.values) = [i \in 1..n |-> Get(values, first + i - 1)]
    BY <1>3, <1>4 DEF PartsOf
  <2>2. PICK found : found = [i \in 1..n |-> Get(values, first + i - 1)]
    OBVIOUS
  <2>3. DOMAIN found = 1..n /\ \A i \in 1..n : found[i] = values[first + i]
    BY <1>6, <2>2
  <2>. QED  BY <2>1, <2>2, <2>3
<1>8. ASSUME NEW i \in 1..n
      PROVE  /\ String(Get(ctx.aliases, found[i].alias).name) = parts[i].name
             /\ found[i].value = parts[i].value
             /\ found[i].meta # 0 => MetaRight(found[i], parts[i].metas)
  <2>1. PICK v \in ValueDescs, p \in ValueDecls :
          v = values[first + i] /\ v = found[i] /\ p = parts[i] /\ ValueMeans(ctx, v, p)
    BY <1>4, <1>5, <1>6, <1>7
  <2>2. String(Get(ctx.aliases, v.alias).name) = p.name /\ v.value = p.value
    BY <2>1 DEF ValueMeans, StringIs, String
  <2>3. v.meta # 0 => MetaRight(v, p.metas)
    <3>1. v.meta \in Nat /\ p.metas \in Seq(Instances)
      BY DEF ValueDescs, ValueDecls
    <3>2. Len(p.metas) \in Nat /\ DOMAIN p.metas = 1..Len(p.metas)
      BY <3>1
    <3>. QED  BY <2>1, <3>1, <3>2, MetasFound DEF ValueMeans
  <2>. QED  BY <2>1, <2>2, <2>3
<1>9. ValuesOf(decl.name) =
        [i \in 1..n |-> <<String(Get(ctx.aliases, found[i].alias).name), found[i].value>>]
  BY <1>1, <1>7 DEF ValuesOf, Mapped
<1>10. Mapped(decl.parts, LAMBDA p : <<p.name, p.value>>)
         = [i \in 1..n |-> <<parts[i].name, parts[i].value>>]
  BY <1>2, <1>5 DEF Mapped
<1>11. ValuesOf(decl.name) = Mapped(decl.parts, LAMBDA p : <<p.name, p.value>>)
  BY <1>8, <1>9, <1>10
<1>. QED  BY <1>1, <1>2, <1>5, <1>7, <1>8, <1>11

LEMMA AliasesFound ==
  ASSUME ctx \in Tables, NEW decl \in EnumDecls, EnumOf(decl.name) \in EnumDescs,
         EnumMeans(ctx, EnumOf(decl.name), decl)
  PROVE  AliasesOf(decl.name) = DeclaredAliases(decl)
<1>1. PICK d \in EnumDescs : d = EnumOf(decl.name)
  OBVIOUS
<1>2. PICK declared \in Seq(STRING \X Int) : declared = DeclaredAliases(decl)
  BY AliasesAreSequence DEF EnumDecls
<1>3. PICK first \in Nat, n \in Nat : first = d.alias /\ n = Len(declared) /\ d.aliases = n
  BY <1>1, <1>2 DEF EnumDescs, EnumMeans
<1>4. /\ DOMAIN declared = 1..n
      /\ \A i \in 1..n : AliasMeans(ctx, ctx.aliases[first + i], declared[i])
  <2>1. AliasesMean(ctx, first, declared)
    BY <1>1, <1>2, <1>3 DEF EnumMeans
  <2>2. DOMAIN declared = 1..n
    BY <1>3
  <2>. QED  BY <2>1, <2>2 DEF AliasesMean
<1>5. ASSUME NEW i \in 1..n
      PROVE  /\ String(Get(ctx.aliases, first + i - 1).name) = declared[i][1]
             /\ Get(ctx.values, Get(ctx.aliases, first + i - 1).value).value = declared[i][2]
  <2>1. (first + i - 1) + 1 = first + i
    OBVIOUS
  <2>2. AliasMeans(ctx, Get(ctx.aliases, first + i - 1), declared[i])
    BY <1>4, <2>1 DEF Get
  <2>. QED  BY <2>2 DEF AliasMeans, StringIs, String
<1>6. AliasesOf(decl.name) =
        [i \in 1..n |-> <<String(Get(ctx.aliases, first + i - 1).name),
                          Get(ctx.values, Get(ctx.aliases, first + i - 1).value).value>>]
  BY <1>1, <1>3 DEF AliasesOf
<1>7. \A i \in 1..n : declared[i] = <<declared[i][1], declared[i][2]>>
  <2>1. \A i \in 1..n : declared[i] \in STRING \X Int
    BY <1>4
  <2>. QED  BY <2>1
<1>8. declared = [i \in 1..n |-> declared[i]]
  BY <1>3, <1>4
<1>. QED  BY <1>2, <1>5, <1>6, <1>7, <1>8

(***************************************************************************)
(* However a context came to have a type, from text or through files, and  *)
(* whatever was loaded before and after it, dl_reflect and the packer find *)
(* for its name the members, the default values and the comment of its     *)
(* declaration: every reference of what dl_context_load_type_library       *)
(* appends is moved by the right length, and a default value is packed as  *)
(* the type of its member.                                                 *)
(***************************************************************************)
THEOREM TypesMeanDeclarations ==
  ASSUME NoTemporaryDeclared
  PROVE  Spec => []TypesKept
<1>1. ASSUME IInv, MeansInv
      PROVE  TypesKept
  <2>1. SUFFICES ASSUME Settled, NEW decl \in Visible("type")
                 PROVE  /\ MembersOf(decl.name) = DeclaredMembers(decl)
                        /\ Comment(TypeOf(decl.name).comment) = decl.comment
    BY DEF TypesKept, TypesAsDeclared
  <2>2. /\ decl \in TypeDecls /\ TypeOf(decl.name) \in TypeDescs
        /\ TypeMeans(ctx, TypeOf(decl.name), decl)
    BY <1>1, <2>1, VisibleMeans
  <2>3. ctx \in Tables /\ \A i \in DOMAIN ctx.members : ctx.members[i].default >= None
    BY <1>1, <2>1, SettledMeans
  <2>4. MembersOf(decl.name) = DeclaredMembers(decl)
    BY <2>2, <2>3, MembersFound
  <2>5. Comment(TypeOf(decl.name).comment) = decl.comment
    BY <2>2, CommentFound DEF TypeMeans
  <2>. QED  BY <2>4, <2>5
<1>2. IInv /\ MeansInv => TypesKept
  BY <1>1
<1>. QED  BY <1>2, AlwaysMeans, PTL

(***************************************************************************)
(* However a context came to have an enum, from text or through files,     *)
(* each name and alias of it stands for the value of its declaration: the  *)
(* values and aliases are moved each by the length of its own table.       *)
(***************************************************************************)
THEOREM EnumsMeanDeclarations ==
  ASSUME NoTemporaryDeclared
  PROVE  Spec => []EnumsKept
<1>1. ASSUME IInv, MeansInv
      PROVE  EnumsKept
  <2>1. SUFFICES ASSUME Settled, NEW decl \in Visible("enum")
                 PROVE  /\ ValuesOf(decl.name) = Mapped(decl.parts, LAMBDA p : <<p.name, p.value>>)
                        /\ AliasesOf(decl.name) = DeclaredAliases(decl)
                        /\ Comment(EnumOf(decl.name).comment) = decl.comment
    BY DEF EnumsKept
  <2>2. /\ decl \in EnumDecls /\ EnumOf(decl.name) \in EnumDescs
        /\ EnumMeans(ctx, EnumOf(decl.name), decl)
    BY <1>1, <2>1, VisibleMeans
  <2>3. ctx \in Tables
    BY <1>1, <2>1, SettledMeans
  <2>4. ValuesOf(decl.name) = Mapped(decl.parts, LAMBDA p : <<p.name, p.value>>)
    BY <2>2, <2>3, ValuesFound
  <2>5. AliasesOf(decl.name) = DeclaredAliases(decl)
    BY <2>2, <2>3, AliasesFound
  <2>6. Comment(EnumOf(decl.name).comment) = decl.comment
    BY <2>2, CommentFound DEF EnumMeans
  <2>. QED  BY <2>4, <2>5, <2>6
<1>2. IInv /\ MeansInv => EnumsKept
  BY <1>1
<1>. QED  BY <1>2, AlwaysMeans, PTL

(***************************************************************************)
(* Types, members, enums and enumerators keep the instances attached to    *)
(* them, where these are not the first of the file: index 0 is taken for   *)
(* no metadata and is not moved.                                           *)
(***************************************************************************)
THEOREM MetadataMeansDeclarations ==
  ASSUME NoTemporaryDeclared
  PROVE  Spec => []LaterMetadataKept
<1>1. ASSUME IInv, MeansInv
      PROVE  LaterMetadataKept
  <2>1. ASSUME Settled, NEW decl \in Visible("type")
        PROVE  /\ TypeOf(decl.name).meta # 0 => MetaRight(TypeOf(decl.name), decl.metas)
               /\ \A i \in DOMAIN decl.parts :
                    PartsOf(TypeOf(decl.name), ctx.members)[i].meta # 0 =>
                      MetaRight(PartsOf(TypeOf(decl.name), ctx.members)[i], decl.parts[i].metas)
    <3>1. /\ decl \in TypeDecls /\ TypeOf(decl.name) \in TypeDescs
          /\ TypeMeans(ctx, TypeOf(decl.name), decl)
      BY <1>1, <2>1, VisibleMeans
    <3>2. ctx \in Tables /\ \A i \in DOMAIN ctx.members : ctx.members[i].default >= None
      BY <1>1, <2>1, SettledMeans
    <3>3. TypeOf(decl.name).meta # 0 => MetaRight(TypeOf(decl.name), decl.metas)
      <4>1. PICK d \in TypeDescs : d = TypeOf(decl.name) /\ TypeMeans(ctx, d, decl)
        BY <3>1
      <4>2. d.meta \in Nat /\ decl.metas \in Seq(Instances)
        BY <3>1 DEF TypeDescs, TypeDecls
      <4>3. Len(decl.metas) \in Nat /\ DOMAIN decl.metas = 1..Len(decl.metas)
        BY <4>2
      <4>. QED  BY <4>1, <4>2, <4>3, MetasFound DEF TypeMeans
    <3>. QED  BY <3>1, <3>2, <3>3, MembersFound
  <2>2. ASSUME Settled, NEW decl \in Visible("enum")
        PROVE  /\ EnumOf(decl.name).meta # 0 => MetaRight(EnumOf(decl.name), decl.metas)
               /\ \A i \in DOMAIN decl.parts :
                    PartsOf(EnumOf(decl.name), ctx.values)[i].meta # 0 =>
                      MetaRight(PartsOf(EnumOf(decl.name), ctx.values)[i], decl.parts[i].metas)
    <3>1. /\ decl \in EnumDecls /\ EnumOf(decl.name) \in EnumDescs
          /\ EnumMeans(ctx, EnumOf(decl.name), decl)
      BY <1>1, <2>2, VisibleMeans
    <3>2. ctx \in Tables
      BY <1>1, <2>2, SettledMeans
    <3>3. EnumOf(decl.name).meta # 0 => MetaRight(EnumOf(decl.name), decl.metas)
      <4>1. PICK d \in EnumDescs : d = EnumOf(decl.name) /\ EnumMeans(ctx, d, decl)
        BY <3>1
      <4>2. d.meta \in Nat /\ decl.metas \in Seq(Instances)
        BY <3>1 DEF EnumDescs, EnumDecls
      <4>3. Len(decl.metas) \in Nat /\ DOMAIN decl.metas = 1..Len(decl.metas)
        BY <4>2
      <4>. QED  BY <4>1, <4>2, <4>3, MetasFound DEF EnumMeans
    <3>. QED  BY <3>1, <3>2, <3>3, ValuesFound
  <2>. QED  BY <2>1, <2>2 DEF LaterMetadataKept, EveryMeta
<1>2. IInv /\ MeansInv => LaterMetadataKept
  BY <1>1
<1>. QED  BY <1>2, AlwaysMeans, PTL

(***************************************************************************)
(* A context into which only a file was loaded is written as that file:    *)
(* nothing is moved by the lengths of empty tables, and what is loaded are *)
(* blobs with the sizes they are stored with.                              *)
(***************************************************************************)
AsWritten(f) ==
  /\ DOMAIN f.offsets = DOMAIN f.tables.metas
  /\ \A i \in DOMAIN f.tables.metas : f.tables.metas[i].data.packed = f.tables.metas[i].data.stored

OffsetsRead == \A j \in 1..(pos[1] - 1) : lib.offsets[j] = Offset(SizesStored(lib.tables.metas), j)

RewriteInv ==
  /\ \A i \in DOMAIN files : AsWritten(files[i])
  /\ phase = "idle" /\ log = <<>> => ctx = Empty
  /\ phase = "binary" /\ log = <<>> =>
       (\E i \in DOMAIN files : lib = files[i]) /\ Whole = lib.tables /\ OffsetsRead
  /\ RewrittenAlike

LEMMA ImageAsWritten ==
  ASSUME IInv, phase = "idle"
  PROVE  AsWritten(Image)
<1>1. PICK c \in Tables : c = ctx
  BY DEF IInv, TablesOK
<1>2. PICK s \in Seq(Metas) : s = c.metas
  BY TablesHave
<1>3. Image.tables.metas = [i \in DOMAIN s |-> [s[i] EXCEPT !.data.packed = s[i].data.stored]]
  <2>1. Image.tables = [c EXCEPT !.metas = [i \in DOMAIN s |-> [s[i] EXCEPT !.data.packed = s[i].data.stored]]]
    BY <1>1, <1>2 DEF Image, Mapped
  <2>. QED  BY <2>1 DEF Tables
<1>4. DOMAIN Image.offsets = DOMAIN s
  BY <1>1, <1>2 DEF Image
<1>5. ASSUME NEW i \in DOMAIN s
      PROVE  Image.tables.metas[i].data.packed = Image.tables.metas[i].data.stored
  <2>1. PICK m \in Metas : m = s[i]
    OBVIOUS
  <2>2. Image.tables.metas[i] = [m EXCEPT !.data.packed = m.data.stored]
    BY <1>3, <2>1
  <2>. QED  BY <2>2 DEF Metas, Instances
<1>. QED  BY <1>3, <1>4, <1>5 DEF AsWritten

LEMMA JoinedToEmpty ==
  ASSUME NEW S, NEW s \in Seq(S)
  PROVE  <<>> \o s = s
OBVIOUS

(* Nothing is moved in an empty context.                                   *)
LEMMA EmptyMoves ==
  ASSUME ctx = Empty
  PROVE  /\ \A d \in TypeDescs : MovedType(d) = d
         /\ \A d \in MemberDescs : MovedMember(d) = d
         /\ \A d \in EnumDescs : MovedEnum(d) = d
         /\ \A d \in ValueDescs : MovedValue(d) = d
         /\ \A d \in AliasDescs : MovedAlias(d) = d
<1>1. /\ Len(ctx.strings) = 0 /\ Len(ctx.members) = 0 /\ Len(ctx.values) = 0
      /\ Len(ctx.aliases) = 0 /\ Len(ctx.defaults) = 0 /\ Len(ctx.metas) = 0
  BY OneAndNone DEF Empty
<1>2. /\ \A n \in Int : Moved(n, 0) = n
      /\ \A n \in Nat : MovedMeta(n) = n /\ n + 0 = n
  BY <1>1 DEF Moved, MovedMeta
<1>3. ASSUME NEW d \in TypeDescs
      PROVE  MovedType(d) = d
  <2>1. d.name \in Nat /\ d.comment \in Int /\ d.first \in Nat /\ d.meta \in Nat
    BY DEF TypeDescs, Comments, None
  <2>2. MovedType(d) = [d EXCEPT !.name = d.name, !.comment = d.comment, !.first = d.first, !.meta = d.meta]
    BY <1>1, <1>2, <2>1 DEF MovedType
  <2>. QED  BY <2>2 DEF TypeDescs
<1>4. ASSUME NEW d \in MemberDescs
      PROVE  MovedMember(d) = d
  <2>1. d.name \in Nat /\ d.default \in Int /\ d.meta \in Nat
    BY DEF MemberDescs
  <2>2. MovedMember(d) = [d EXCEPT !.name = d.name, !.meta = d.meta, !.default = d.default]
    BY <1>1, <1>2, <2>1 DEF MovedMember
  <2>. QED  BY <2>2 DEF MemberDescs
<1>5. ASSUME NEW d \in EnumDescs
      PROVE  MovedEnum(d) = d
  <2>1. d.name \in Nat /\ d.comment \in Int /\ d.first \in Nat /\ d.alias \in Nat /\ d.meta \in Nat
    BY DEF EnumDescs, Comments, None
  <2>2. MovedEnum(d) = [d EXCEPT !.name = d.name, !.comment = d.comment, !.first = d.first,
                                 !.alias = d.alias, !.meta = d.meta]
    BY <1>1, <1>2, <2>1 DEF MovedEnum
  <2>. QED  BY <2>2 DEF EnumDescs
<1>6. ASSUME NEW d \in ValueDescs
      PROVE  MovedValue(d) = d
  <2>1. d.alias \in Nat /\ d.meta \in Nat
    BY DEF ValueDescs
  <2>2. MovedValue(d) = [d EXCEPT !.alias = d.alias, !.meta = d.meta]
    BY <1>1, <1>2, <2>1 DEF MovedValue
  <2>. QED  BY <2>2 DEF ValueDescs
<1>7. ASSUME NEW d \in AliasDescs
      PROVE  MovedAlias(d) = d
  <2>1. d.name \in Nat /\ d.value \in Nat
    BY DEF AliasDescs
  <2>2. MovedAlias(d) = [d EXCEPT !.name = d.name, !.value = d.value]
    BY <1>1, <1>2, <2>1 DEF MovedAlias
  <2>. QED  BY <2>2 DEF AliasDescs
<1>. QED  BY <1>3, <1>4, <1>5, <1>6, <1>7

LEMMA LoadedAlone ==
  ASSUME IInv, ctx = Empty, NEW file \in Files, LoadTables(file)
  PROVE  Whole' = file.tables
<1>1. PICK t \in Tables : t = file.tables
  BY DEF Files
<1>2. Whole' = Joined(Empty, Added(t))
  BY <1>1, LoadTablesWhole
<1>3. /\ t.strings \in Seq(STRING) /\ t.types \in Seq(TypeDescs)
      /\ t.members \in Seq(MemberDescs) /\ t.enums \in Seq(EnumDescs)
      /\ t.values \in Seq(ValueDescs) /\ t.aliases \in Seq(AliasDescs)
      /\ t.defaults \in Seq(Defaults) /\ t.metas \in Seq(Metas)
  BY TablesHave
<1>4. /\ Mapped(t.types, MovedType) = t.types /\ Mapped(t.members, MovedMember) = t.members
      /\ Mapped(t.enums, MovedEnum) = t.enums /\ Mapped(t.values, MovedValue) = t.values
      /\ Mapped(t.aliases, MovedAlias) = t.aliases
  <2>1. Mapped(t.types, MovedType) = t.types
    <3>1. t.types = [i \in DOMAIN t.types |-> t.types[i]] /\ \A i \in DOMAIN t.types : t.types[i] \in TypeDescs
      BY <1>3
    <3>2. \A i \in DOMAIN t.types : MovedType(t.types[i]) = t.types[i]
      BY <3>1, EmptyMoves
    <3>. QED  BY <3>1, <3>2 DEF Mapped
  <2>2. Mapped(t.members, MovedMember) = t.members
    <3>1. t.members = [i \in DOMAIN t.members |-> t.members[i]]
          /\ \A i \in DOMAIN t.members : t.members[i] \in MemberDescs
      BY <1>3
    <3>2. \A i \in DOMAIN t.members : MovedMember(t.members[i]) = t.members[i]
      BY <3>1, EmptyMoves
    <3>. QED  BY <3>1, <3>2 DEF Mapped
  <2>3. Mapped(t.enums, MovedEnum) = t.enums
    <3>1. t.enums = [i \in DOMAIN t.enums |-> t.enums[i]] /\ \A i \in DOMAIN t.enums : t.enums[i] \in EnumDescs
      BY <1>3
    <3>2. \A i \in DOMAIN t.enums : MovedEnum(t.enums[i]) = t.enums[i]
      BY <3>1, EmptyMoves
    <3>. QED  BY <3>1, <3>2 DEF Mapped
  <2>4. Mapped(t.values, MovedValue) = t.values
    <3>1. t.values = [i \in DOMAIN t.values |-> t.values[i]] /\ \A i \in DOMAIN t.values : t.values[i] \in ValueDescs
      BY <1>3
    <3>2. \A i \in DOMAIN t.values : MovedValue(t.values[i]) = t.values[i]
      BY <3>1, EmptyMoves
    <3>. QED  BY <3>1, <3>2 DEF Mapped
  <2>5. Mapped(t.aliases, MovedAlias) = t.aliases
    <3>1. t.aliases = [i \in DOMAIN t.aliases |-> t.aliases[i]]
          /\ \A i \in DOMAIN t.aliases : t.aliases[i] \in AliasDescs
      BY <1>3
    <3>2. \A i \in DOMAIN t.aliases : MovedAlias(t.aliases[i]) = t.aliases[i]
      BY <3>1, EmptyMoves
    <3>. QED  BY <3>1, <3>2 DEF Mapped
  <2>. QED  BY <2>1, <2>2, <2>3, <2>4, <2>5
<1>5. PICK a : a = Added(t)
  OBVIOUS
<1>6. /\ a.strings = t.strings /\ a.types = t.types /\ a.members = t.members /\ a.enums = t.enums
      /\ a.values = t.values /\ a.aliases = t.aliases /\ a.defaults = t.defaults /\ a.metas = t.metas
  BY <1>4, <1>5 DEF Added, MovedTables
<1>7. Joined(Empty, a) =
        [strings |-> <<>> \o t.strings, types |-> <<>> \o t.types, members |-> <<>> \o t.members,
         enums |-> <<>> \o t.enums, values |-> <<>> \o t.values, aliases |-> <<>> \o t.aliases,
         defaults |-> <<>> \o t.defaults, metas |-> <<>> \o t.metas]
  BY <1>6 DEF Joined, Empty
<1>8. /\ <<>> \o t.strings = t.strings /\ <<>> \o t.types = t.types /\ <<>> \o t.members = t.members
      /\ <<>> \o t.enums = t.enums /\ <<>> \o t.values = t.values /\ <<>> \o t.aliases = t.aliases
      /\ <<>> \o t.defaults = t.defaults /\ <<>> \o t.metas = t.metas
  BY <1>3, JoinedToEmpty
<1>9. Joined(Empty, a) =
        [strings |-> t.strings, types |-> t.types, members |-> t.members, enums |-> t.enums,
         values |-> t.values, aliases |-> t.aliases, defaults |-> t.defaults, metas |-> t.metas]
  BY <1>7, <1>8
<1>10. Joined(Empty, a) = t
  BY <1>9 DEF Tables
<1>. QED  BY <1>1, <1>2, <1>5, <1>10

LEMMA WrittenAgain ==
  ASSUME IInv, RewriteInv, log = <<>>, LoadBinaryDone
  PROVE  Image' = lib /\ \E i \in DOMAIN files : lib = files[i]
<1>1. /\ phase = "binary" /\ pos[1] > Len(lib.tables.metas)
      /\ Return(TRUE, "file", lib.declared)
  BY DEF LoadBinaryDone
<1>2. PICK f \in Files : f = lib /\ AsWritten(f)
  <2>1. (\E i \in DOMAIN files : lib = files[i]) /\ lib \in Files
    BY <1>1 DEF RewriteInv, IInv, LoadingOK
  <2>. QED  BY <2>1 DEF RewriteInv
<1>3. PICK t \in Tables, s \in Seq(Metas), offsets \in Seq(Nat), declared \in Seq(Decls) :
        /\ t = f.tables /\ s = t.metas /\ offsets = f.offsets /\ declared = f.declared
        /\ f = [tables |-> t, offsets |-> offsets, declared |-> declared]
  BY TablesHave DEF Files
<1>4. ctx' = t
  BY <1>1, <1>2, <1>3, LoadBinaryDoneWhole DEF RewriteInv
<1>5. Declared' = declared
  <2>1. PICK e \in LogEntries : log' = Append(log, e) /\ e.declared = declared
    <3>1. log' = Append(log, [ok |-> TRUE, from |-> "file", declared |-> declared])
      BY <1>1, <1>2, <1>3 DEF Return
    <3>2. [ok |-> TRUE, from |-> "file", declared |-> declared] \in LogEntries
      BY DEF LogEntries
    <3>. QED  BY <3>1, <3>2
  <2>2. Declared' = Declared \o declared /\ Declared = <<>>
    BY <2>1, DeclaredGrows, NoneDeclared
  <2>. QED  BY <2>2, JoinedToEmpty
<1>6. \A i \in DOMAIN s : s[i].data.packed = s[i].data.stored
  BY <1>2, <1>3 DEF AsWritten
<1>7. Mapped(s, LAMBDA m : [m EXCEPT !.data.packed = m.data.stored]) = s
  <2>1. ASSUME NEW i \in DOMAIN s
        PROVE  [s[i] EXCEPT !.data.packed = s[i].data.stored] = s[i]
    <3>1. PICK m \in Metas : m = s[i] /\ m.data.packed = m.data.stored
      BY <1>6
    <3>2. PICK d \in Instances : d = m.data /\ d.packed = d.stored
      BY <3>1 DEF Metas
    <3>3. [d EXCEPT !.packed = d.stored] = d
      BY <3>2 DEF Instances
    <3>4. [m EXCEPT !.data.packed = m.data.stored] = [m EXCEPT !.data = [d EXCEPT !.packed = d.stored]]
      BY <3>2
    <3>5. [m EXCEPT !.data = d] = m
      BY <3>2 DEF Metas
    <3>. QED  BY <3>1, <3>3, <3>4, <3>5
  <2>2. s = [i \in DOMAIN s |-> s[i]]
    OBVIOUS
  <2>. QED  BY <2>1, <2>2 DEF Mapped
<1>8. [i \in DOMAIN s |-> Offset(SizesPacked(s), i)] = offsets
  <2>1. SizesPacked(s) = SizesStored(s)
    BY <1>6 DEF SizesPacked, SizesStored, Mapped
  <2>2. DOMAIN offsets = DOMAIN s /\ DOMAIN s = 1..Len(s) /\ Len(s) \in Nat
    BY <1>2, <1>3 DEF AsWritten
  <2>3. pos[1] \in 1..(Len(s) + 1) /\ pos[1] > Len(s)
    BY <1>1, <1>2, <1>3 DEF IInv, LoadingOK
  <2>4. pos[1] - 1 = Len(s)
    BY <2>2, <2>3
  <2>5. \A i \in 1..Len(s) : offsets[i] = Offset(SizesStored(s), i)
    BY <1>1, <1>2, <1>3, <2>4 DEF RewriteInv, OffsetsRead
  <2>6. offsets = [i \in DOMAIN offsets |-> offsets[i]]
    OBVIOUS
  <2>. QED  BY <2>1, <2>2, <2>5, <2>6
<1>9. Image' = [tables |-> [t EXCEPT !.metas = Mapped(s, LAMBDA m : [m EXCEPT !.data.packed = m.data.stored])],
                offsets |-> [i \in DOMAIN s |-> Offset(SizesPacked(s), i)],
                declared |-> declared]
  <2>1. ctx' = t /\ t.metas = s /\ Declared' = declared
    BY <1>3, <1>4, <1>5
  <2>. QED  BY <2>1 DEF Image, Mapped
<1>10. [t EXCEPT !.metas = s] = t
  BY <1>3 DEF Tables
<1>11. Image' = f
  BY <1>3, <1>7, <1>8, <1>9, <1>10
<1>. QED  BY <1>1, <1>2, <1>11 DEF RewriteInv

LEMMA RewriteKept ==
  ASSUME IInv, RewriteInv, [Next]_vars
  PROVE  RewriteInv'
<1>1. log \in Seq(LogEntries) /\ files \in Seq(Files)
  BY DEF IInv, LogOK, FilesOK
(* A load goes on, and nothing is said of it.                              *)
<1>2. ASSUME files' = files, phase' \notin {"idle", "binary"}
      PROVE  RewriteInv'
  BY <1>2 DEF RewriteInv, RewrittenAlike, Settled
(* A load from text returns.                                               *)
<1>3. ASSUME NEW ok \in BOOLEAN, NEW declared \in Seq(Decls), Return(ok, "text", declared)
      PROVE  RewriteInv'
  <2>1. PICK e \in LogEntries : log' = Append(log, e) /\ e.from = "text" /\ phase' = "idle" /\ files' = files
    BY <1>3 DEF Return, LogEntries
  <2>2. Len(log') = Len(log) + 1 /\ Len(log) \in Nat /\ log'[Len(log) + 1] = e
    BY <1>1, <2>1
  <2>3. log' # <<>>
    BY <2>2, OneAndNone
  <2>4. ~(Len(log') = 1 /\ log'[1].from = "file")
    BY <2>1, <2>2
  <2>. QED  BY <2>1, <2>3, <2>4 DEF RewriteInv, RewrittenAlike
<1>4. CASE NewContext
  <2>1. ctx' = Empty /\ log' = <<>> /\ phase' = "idle" /\ files' = files
    BY <1>4 DEF NewContext
  <2>2. Len(log') = 0
    BY <2>1, OneAndNone
  <2>. QED  BY <2>1, <2>2 DEF RewriteInv, RewrittenAlike
<1>5. CASE (\E text \in Texts : LoadText(text)) \/ FixUp \/ DefaultsDone \/ LoadMetadataLost
  BY <1>2, <1>5 DEF LoadText, FixUp, DefaultsDone, LoadMetadataLost
<1>6. CASE \/ ReadBegin \/ ReadMember \/ ReadType \/ ReadValue \/ ReadEnum
           \/ (\E i \in OwnMembers : BuildDefault(i)) \/ CreateMetadata
  <2>1. phase' = phase /\ files' = files /\ phase \in {"text", "defaults", "metadata"}
    BY <1>6 DEF ReadBegin, ReadMember, ReadType, ReadValue, ReadEnum, BuildDefault, CreateMetadata,
       Reading, InParts, AfterParts, NextDefault
  <2>. QED  BY <1>2, <2>1
<1>7. CASE ParseError \/ UnknownType \/ MetadataFails \/ (\E i \in OwnMembers : DefaultFails(i))
  <2>1. <<>> \in Seq(Decls) /\ Refused
    BY <1>7 DEF ParseError, UnknownType, MetadataFails, DefaultFails
  <2>. QED  BY <1>3, <2>1 DEF Refused
<1>8. CASE TextDone
  <2>1. lib \in Seq(Decls) /\ Return(TRUE, "text", lib)
    BY <1>8 DEF TextDone, IInv, BuildingOK
  <2>. QED  BY <1>3, <2>1
<1>9. CASE WriteLibrary
  <2>1. /\ phase = "idle" /\ phase' = "idle" /\ log # <<>> /\ log' = log /\ ctx' = ctx
        /\ files' = Append(files, Image)
    BY <1>9 DEF WriteLibrary
  <2>2. Image \in Files /\ AsWritten(Image)
    BY <2>1, ImageHas, ImageAsWritten
  <2>3. /\ \A i \in DOMAIN files' : files'[i] = Image \/ (i \in DOMAIN files /\ files'[i] = files[i])
        /\ \A i \in DOMAIN files : i \in DOMAIN files' /\ files'[i] = files[i]
    BY <1>1, <2>1, <2>2
  <2>4. \A i \in DOMAIN files' : AsWritten(files'[i])
    BY <2>2, <2>3 DEF RewriteInv
  <2>5. Image' = Image /\ Settled' = Settled
    BY <2>1 DEF Image, Mapped, Declared, Settled, Failed
  <2>6. RewrittenAlike'
    BY <2>1, <2>3, <2>5 DEF RewriteInv, RewrittenAlike
  <2>. QED  BY <2>1, <2>4, <2>6 DEF RewriteInv
<1>10. CASE \E i \in DOMAIN files : LoadTables(files[i])
  <2>1. PICK i \in DOMAIN files : LoadTables(files[i])
    BY <1>10
  <2>2. /\ phase = "idle" /\ phase' = "binary" /\ lib' = files[i] /\ pos' = <<1, 0>>
        /\ files' = files /\ log' = log
    BY <2>1 DEF LoadTables
  <2>3. log = <<>> => Whole' = lib'.tables
    <3>1. files[i] \in Files
      BY <1>1
    <3>2. log = <<>> => ctx = Empty
      BY <2>2 DEF RewriteInv
    <3>. QED  BY <2>1, <2>2, <3>1, <3>2, LoadedAlone
  <2>4. OffsetsRead'
    <3>1. pos'[1] - 1 = 0 /\ 1..0 = {}
      BY <2>2
    <3>. QED  BY <3>1 DEF OffsetsRead
  <2>. QED  BY <2>2, <2>3, <2>4 DEF RewriteInv, RewrittenAlike, Settled
<1>11. CASE LoadMetadata
  <2>1. /\ phase = "binary" /\ phase' = "binary" /\ lib' = lib /\ pos' = <<pos[1] + 1, 0>>
        /\ files' = files /\ log' = log
        /\ lib.offsets[pos[1]] = Offset(SizesStored(lib.tables.metas), pos[1])
    BY <1>11 DEF LoadMetadata, BlobThere
  <2>2. Whole' = Whole
    BY <1>11, LoadMetadataWhole
  <2>3. OffsetsRead => OffsetsRead'
    <3>1. PICK p \in Nat : p = pos[1]
      BY <2>1 DEF IInv, LoadingOK
    <3>2. pos'[1] = p + 1 /\ \A j \in 1..p : j \in 1..(p - 1) \/ j = p
      BY <2>1, <3>1
    <3>3. (p + 1) - 1 = p
      OBVIOUS
    <3>. QED  BY <2>1, <3>1, <3>2, <3>3 DEF OffsetsRead
  <2>. QED  BY <2>1, <2>2, <2>3 DEF RewriteInv, RewrittenAlike, Settled
<1>12. CASE LoadBinaryDone
  <2>1. /\ phase' = "idle" /\ files' = files
        /\ \E e \in LogEntries : log' = Append(log, e)
    <3>1. lib.declared \in Seq(Decls) /\ Return(TRUE, "file", lib.declared)
      BY <1>12 DEF LoadBinaryDone, IInv, LoadingOK, Files
    <3>. QED  BY <3>1 DEF Return, LogEntries
  <2>2. Len(log') = Len(log) + 1 /\ Len(log) \in Nat
    BY <1>1, <2>1
  <2>3. log' # <<>>
    BY <2>2, OneAndNone
  <2>4. Len(log') = 1 => \E i \in DOMAIN files' : Image' = files'[i]
    <3>1. Len(log) = 0 => log = <<>>
      BY <1>1
    <3>2. PICK n \in Nat : n = Len(log) /\ Len(log') = n + 1
      BY <2>2
    <3>3. n + 1 = 1 => n = 0
      OBVIOUS
    <3>4. Len(log') = 1 => log = <<>>
      BY <3>1, <3>2, <3>3
    <3>. QED  BY <1>12, <2>1, <3>4, WrittenAgain
  <2>. QED  BY <2>1, <2>3, <2>4 DEF RewriteInv, RewrittenAlike
<1>13. CASE UNCHANGED vars
  <2>1. /\ phase' = phase /\ ctx' = ctx /\ lib' = lib /\ pos' = pos /\ start' = start
        /\ files' = files /\ log' = log
    BY <1>13 DEF vars
  <2>2. Whole' = Whole /\ Image' = Image /\ Settled' = Settled /\ OffsetsRead' = OffsetsRead
    BY <2>1 DEF Whole, Image, Mapped, Declared, Settled, Failed, OffsetsRead
  <2>. QED  BY <2>1, <2>2 DEF RewriteInv, RewrittenAlike
<1>. QED
  BY <1>4, <1>5, <1>6, <1>7, <1>8, <1>9, <1>10, <1>11, <1>12, <1>13 DEF Next

(***************************************************************************)
(* A context into which only a file was loaded is written as that file:    *)
(* dl_context_load_type_library loses nothing that                         *)
(* dl_context_write_type_library writes, and adds nothing.                 *)
(***************************************************************************)
THEOREM FilesWrittenAlike == Spec => []RewrittenAlike
<1>1. Init => IInv /\ RewriteInv
  <2>1. SUFFICES ASSUME Init
                 PROVE  IInv /\ RewriteInv
    OBVIOUS
  <2>2. /\ ctx = Empty /\ log = <<>> /\ phase = "idle" /\ files = <<>>
        /\ DOMAIN <<>> = {} /\ Len(<<>>) = 0
    BY <2>1, OneAndNone DEF Init
  <2>3. IInv
    BY <2>1, InitHasIInv
  <2>4. RewriteInv
    BY <2>2 DEF RewriteInv, RewrittenAlike
  <2>. QED  BY <2>3, <2>4
<1>2. IInv /\ RewriteInv /\ [Next]_vars => (IInv /\ RewriteInv)'
  BY StepKeeps, RewriteKept
<1>3. RewriteInv => RewrittenAlike
  BY DEF RewriteInv
<1>. QED  BY <1>1, <1>2, <1>3, PTL DEF Spec

=============================================================================
